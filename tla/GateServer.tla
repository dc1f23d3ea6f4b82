----------------------------- MODULE GateServer -----------------------------
(***************************************************************************)
(* The gate (src/ServerGate/gate_server.cpp) with the connections of the   *)
(* clients (src/Net/Net.cpp).  Three threads: product_msg accepts, reads   *)
(* and closes connections; run_client handles what clients send;           *)
(* run_server handles what the other servers send and writes to clients.   *)
(* The two run threads share m_usrfd and the vector m_clientsfd without a  *)
(* lock: a step is one access to an entry or one call of a container.      *)
(* The list is short (less than PER_THREAD_NUM clients), so that runtask   *)
(* walks it itself; module Broadcast has the long one.                     *)
(***************************************************************************)
EXTENDS Integers, Sequences, FiniteSets, Players

CONSTANTS Conns,       \* connections, numbered in the order in which they are made
          Fds,         \* descriptors the kernel has for them
          ClientSlots  \* the slots of g_client_queue

\* A message of a client; what g_client_queue has of it; what run_server works on.
SentMessage == [type : {"USERLOGIN", "USEREXIT", "USERUP", "ITEMEVENT"}, usr : Users, n : Nat]
Published == [msg : SentMessage, from : Fds, conn : Conns]
ServerWork == [type : {"USEREXIT", "ITEMEVENT"}, usr : Users, fd : Nat]

\* Where a thread is in erasefd, and its iterators iter and end.
Erasure == [usr : Users, at : {"find", "erase", "forget"}, iter : Nat, end : Nat]

ASSUME GateAssumption ==
    /\ Conns \subseteq Nat
    /\ Fds \subseteq Nat \ {0} /\ IsFiniteSet(Fds)
    /\ ClientSlots \in Nat \ {0}
    /\ None \notin Nat /\ None \notin Published
    /\ None \notin ServerWork /\ None \notin Erasure

VARIABLES
    peer,            \* of each connection: "new", "open" or "gone"
    deaf,            \* connections whose client does not read what it is sent
    wire,            \* what each client has sent and product_msg has not read
    m_connections,   \* the connection behind each descriptor, or None
    edge,            \* connections that epoll will report
    draining,        \* the connection that product_msg reads until it is empty, or None
    g_client_queue,  \* published and not taken yet: any of them may be the next (MsgQueue)
    client,          \* the message that run_client handles, or None
    server,          \* what run_server handles, before a walk: [type, usr, fd], or None
    erasing,         \* where each of the two is in erasefd, or None
    m_usrfd,         \* the descriptor of each user, or None
    storage, size,   \* the vector m_clientsfd: its memory and its size
    broadcast,       \* runtask's iterators i and j, and the descriptor written to, or None
    gate             \* "runs", "killed" or "undefined"

wires == <<peer, deaf, wire, m_connections, edge, draining>>
listVars == <<m_usrfd, storage, size, broadcast, gate>>
gateVars == <<wires, g_client_queue, client, server, erasing, listVars>>

client_info == [usrid : Users, fd : Fds]
m_clientsfd == SubSeq(storage, 1, size)

-----------------------------------------------------------------------------
(* Clients.  The messages of a connection are numbered.                    *)

SentWhole(c) == \A k \in DOMAIN wire[c] : wire[c][k].whole

Sends(c, m, whole) ==
    /\ peer[c] = "open"
    /\ SentWhole(c)
    /\ wire' = [wire EXCEPT ![c] = Append(@, [msg |-> m, whole |-> whole])]
    /\ edge' = edge \cup {c}
    /\ UNCHANGED <<peer, deaf, m_connections, draining>>

SendsRest(c) ==
    /\ peer[c] = "open"
    /\ ~SentWhole(c)
    /\ wire' = [wire EXCEPT ![c][Len(wire[c])].whole = TRUE]
    /\ edge' = edge \cup {c}
    /\ UNCHANGED <<peer, deaf, m_connections, draining>>

\* The client stops reading, or begins again.
TurnsDeaf(c) ==
    /\ peer[c] = "open"
    /\ deaf' = IF c \in deaf THEN deaf \ {c} ELSE deaf \cup {c}
    /\ UNCHANGED <<peer, wire, m_connections, edge, draining>>

Leaves(c) ==
    /\ peer[c] = "open"
    /\ peer' = [peer EXCEPT ![c] = "gone"]
    /\ UNCHANGED <<deaf, wire, m_connections, edge, draining>>

-----------------------------------------------------------------------------
(* product_msg.                                                            *)

Free == {fd \in Fds : m_connections[fd] = None}

\* The slots of g_client_queue that are not free.
Occupied == Cardinality(g_client_queue) + (IF client = None THEN 0 ELSE 1)

\* A connection is there for the gate when it is accepted; its first message
\* comes with it.  The kernel gives it the lowest descriptor.
Accept(c, m) ==
    /\ draining = None
    /\ peer[c] = "new"
    /\ \A d \in Conns : d < c => peer[d] # "new"
    /\ \E fd \in Free :
          /\ \A other \in Free : fd <= other
          /\ m_connections' = [m_connections EXCEPT ![fd] = c]
    /\ peer' = [peer EXCEPT ![c] = "open"]
    /\ wire' = [wire EXCEPT ![c] = <<[msg |-> m, whole |-> TRUE]>>]
    /\ edge' = edge \cup {c}
    /\ UNCHANGED <<deaf, draining>>

\* EPOLLIN, and a slot to read into.
Report(fd) ==
    LET c == m_connections[fd] IN
    /\ draining = None
    /\ c \in edge
    /\ Occupied < ClientSlots
    /\ draining' = c
    /\ edge' = edge \ {c}
    /\ UNCHANGED <<peer, deaf, wire, m_connections, g_client_queue>>

\* enqueue() fails when the slot at m_in is taken, which may be any slot that is.
\* The loop then ends, although there may be more to read.
SlotFor(c) ==
    \/ (Occupied + 1 < ClientSlots /\ draining' = c)
    \/ ((Occupied > 0 \/ ClientSlots = 1) /\ draining' = None)

\* Faulty variant: the head of a message without its body is thrown away.
ReceiveOrSkip(fd) ==
    LET c == m_connections[fd] IN
    /\ c # None /\ draining = c
    /\ wire[c] # <<>>
    /\ wire' = [wire EXCEPT ![c] = Tail(@)]
    /\ IF Head(wire[c]).whole
         THEN g_client_queue' = g_client_queue \cup {[msg |-> Head(wire[c]).msg, from |-> fd, conn |-> c]}
         ELSE UNCHANGED g_client_queue
    /\ SlotFor(c)
    /\ UNCHANGED <<peer, deaf, m_connections, edge>>

\* recvmsg returns a message, which is published with the descriptor it came from.
\* With a head and no body it calls tcp_recv again and again.
Receive(fd) ==
    LET c == m_connections[fd] IN
    /\ c # None /\ draining = c
    /\ wire[c] # <<>> /\ Head(wire[c]).whole
    /\ g_client_queue' = g_client_queue \cup {[msg |-> Head(wire[c]).msg, from |-> fd, conn |-> c]}
    /\ wire' = [wire EXCEPT ![c] = Tail(@)]
    /\ SlotFor(c)
    /\ UNCHANGED <<peer, deaf, m_connections, edge>>

\* Nothing more to read: the slot becomes INVALID.
Drained ==
    /\ draining # None
    /\ wire[draining] = <<>>
    /\ draining' = None
    /\ UNCHANGED <<peer, deaf, wire, m_connections, edge, g_client_queue>>

NoWhole(c) == wire[c] # <<>> => ~Head(wire[c]).whole

\* Faulty variant: product_msg goes on waiting for the rest of a message.
EraseKeepsDraining(fd) ==
    LET c == m_connections[fd] IN
    /\ c # None
    /\ peer[c] = "gone"
    /\ draining = None \/ (draining = c /\ NoWhole(c))
    /\ m_connections' = [m_connections EXCEPT ![fd] = None]
    /\ wire' = [wire EXCEPT ![c] = <<>>]
    /\ edge' = edge \ {c}
    /\ UNCHANGED <<peer, deaf, draining, g_client_queue>>

\* Closes the descriptor, when epoll reports EPOLLRDHUP or tcp_recv fails.  What
\* the client has sent and product_msg has not read is lost.
Erase(fd) ==
    LET c == m_connections[fd] IN
    /\ c # None
    /\ peer[c] = "gone"
    /\ draining = None \/ (draining = c /\ NoWhole(c))
    /\ m_connections' = [m_connections EXCEPT ![fd] = None]
    /\ wire' = [wire EXCEPT ![c] = <<>>]
    /\ edge' = edge \ {c}
    /\ draining' = None
    /\ UNCHANGED <<peer, deaf, g_client_queue>>

product_msg ==
    /\ gate = "runs"
    /\ \/ Drained
       \/ \E fd \in Fds : Report(fd) \/ Receive(fd) \/ Erase(fd)
    /\ UNCHANGED <<client, server, erasing, listVars>>

-----------------------------------------------------------------------------
(* The vector m_clientsfd and the map m_usrfd.                             *)

\* run_server's erasefd or walk has iterators into the vector which it will follow.
IteratorsOut ==
    \/ broadcast # None
    \/ LET e == erasing["run_server"] IN e # None /\ (e.at = "erase" \/ (e.at = "find" /\ e.iter # e.end))

\* emplace_back.  A full vector moves to memory of twice the size; iterators then
\* point to freed memory, and nothing is known of the process any more.
PushBack(e) ==
    /\ size' = size + 1
    /\ IF size < Len(storage)
         THEN storage' = [storage EXCEPT ![size + 1] = e] /\ UNCHANGED gate
         ELSE /\ storage' = [k \in 1 .. (IF size = 0 THEN 1 ELSE 2 * size) |->
                               IF k <= size THEN storage[k] ELSE IF k = size + 1 THEN e ELSE None]
              /\ gate' = IF IteratorsOut THEN "undefined" ELSE gate

\* erasefd is entered: begin() and end() are taken.
EraseBegins(u) == [usr |-> u, at |-> "find", iter |-> 1, end |-> size + 1]

Find(t) ==
    LET e == erasing[t] IN
    /\ e # None /\ e.at = "find"
    /\ erasing' = [erasing EXCEPT ![t] =
         IF e.iter = e.end THEN [e EXCEPT !.at = "forget"]
         ELSE IF storage[e.iter].usrid = e.usr THEN [e EXCEPT !.at = "erase"]
         ELSE [e EXCEPT !.iter = @ + 1]]
    /\ UNCHANGED listVars

\* Faulty variant: the last entry of the list goes.
EraseLast(t) ==
    LET e == erasing[t] IN
    /\ e # None /\ e.at = "erase"
    /\ erasing' = [erasing EXCEPT ![t].at = "forget"]
    /\ IF e.iter > size THEN gate' = "undefined" /\ UNCHANGED size
       ELSE size' = size - 1 /\ UNCHANGED gate
    /\ UNCHANGED <<m_usrfd, storage, broadcast>>

\* erase(iter), whatever is there by now.  The later entries move up; the memory
\* behind the last keeps its content.  Behind the end nobody knows what it does.
EraseAt(t) ==
    LET e == erasing[t] IN
    /\ e # None /\ e.at = "erase"
    /\ erasing' = [erasing EXCEPT ![t].at = "forget"]
    /\ IF e.iter > size THEN gate' = "undefined" /\ UNCHANGED <<storage, size>>
       ELSE /\ storage' = [k \in DOMAIN storage |->
                             IF k \in e.iter .. size - 1 THEN storage[k + 1] ELSE storage[k]]
            /\ size' = size - 1
            /\ UNCHANGED gate
    /\ UNCHANGED <<m_usrfd, broadcast>>

\* m_usrfd.erase, and out of erasefd.
Forget(t) ==
    /\ erasing[t] # None /\ erasing[t].at = "forget"
    /\ m_usrfd' = [m_usrfd EXCEPT ![erasing[t].usr] = None]
    /\ erasing' = [erasing EXCEPT ![t] = None]
    /\ UNCHANGED <<storage, size, broadcast, gate>>

-----------------------------------------------------------------------------
(* run_client.                                                             *)

\* dequeue() gives it q, of one of these types.
Takes(q, types) ==
    /\ client = None
    /\ q \in g_client_queue /\ q.msg.type \in types
    /\ g_client_queue' = g_client_queue \ {q}

\* Faulty variant: insert, which keeps the descriptor of an earlier login.
LoginInserts(q) ==
    /\ Takes(q, {"USERLOGIN"})
    /\ m_usrfd' = [m_usrfd EXCEPT ![q.msg.usr] = IF @ = None THEN q.from ELSE @]
    /\ client' = q
    /\ UNCHANGED <<erasing, storage, size, broadcast, gate>>

\* USERLOGIN, first the map ...
ClientLogin(q) ==
    /\ Takes(q, {"USERLOGIN"})
    /\ m_usrfd' = [m_usrfd EXCEPT ![q.msg.usr] = q.from]
    /\ client' = q
    /\ UNCHANGED <<erasing, storage, size, broadcast, gate>>

\* ... and then the vector.
ClientListed ==
    /\ client # None /\ client.msg.type = "USERLOGIN"
    /\ PushBack([usrid |-> client.msg.usr, fd |-> client.from])
    /\ client' = None
    /\ UNCHANGED <<g_client_queue, erasing, m_usrfd, broadcast>>

ClientExit(q) ==
    /\ Takes(q, {"USEREXIT"})
    /\ client' = q
    /\ erasing' = [erasing EXCEPT !["run_client"] = EraseBegins(q.msg.usr)]
    /\ UNCHANGED listVars

\* After erasefd the exit goes to the game server.
ClientErases ==
    /\ Find("run_client") \/ EraseAt("run_client") \/ Forget("run_client")
    /\ client' = IF erasing'["run_client"] = None THEN None ELSE client
    /\ UNCHANGED g_client_queue

\* USERUP and ITEMEVENT go to the game server.
ClientForward(q) ==
    /\ Takes(q, {"USERUP", "ITEMEVENT"})
    /\ UNCHANGED <<client, erasing, listVars>>

run_client ==
    /\ gate = "runs"
    /\ \/ \E q \in g_client_queue : ClientLogin(q) \/ ClientExit(q) \/ ClientForward(q)
       \/ ClientListed \/ ClientErases
    /\ UNCHANGED <<wires, server>>

-----------------------------------------------------------------------------
(* run_server.  What it takes from its queue is given as m.                *)

Idle == server = None /\ broadcast = None

\* What becomes of a write() to a descriptor.  Of a client that is gone the
\* gate may not know yet, or it gets an error, or SIGPIPE, which nobody handles.
\* While a client does not read, tcp_send tries again for ever.
WriteOutcomes(fd) ==
    IF fd = 0 THEN {"lost", "failed"}
    ELSE LET c == m_connections[fd] IN
         IF c = None THEN {"failed"}
         ELSE IF peer[c] = "gone" THEN {"lost", "failed", "killed"}
         ELSE IF c \in deaf THEN {}
         ELSE {"sent"}

\* Passes on to the game server what the login server has sent.
ServerLogin(m) ==
    /\ Idle /\ m.type = "GET_ALLINFO"
    /\ UNCHANGED <<server, erasing, listVars>>

ServerExit(m) ==
    /\ Idle /\ m.type = "USEREXIT"
    /\ server' = [type |-> "USEREXIT", usr |-> m.usr, fd |-> 0]
    /\ erasing' = [erasing EXCEPT !["run_server"] = EraseBegins(m.usr)]
    /\ UNCHANGED listVars

ServerSync(m) ==
    /\ Idle /\ m.type = "USERSYNC"
    /\ broadcast' = [i |-> 1, j |-> size + 1, fd |-> None]
    /\ UNCHANGED <<server, erasing, m_usrfd, storage, size, gate>>

\* m_usrfd[u] makes an entry with descriptor 0 where there is none.
ServerItem(m) ==
    /\ Idle /\ m.type = "ITEMEVENT"
    /\ LET fd == IF m_usrfd[m.usr] = None THEN 0 ELSE m_usrfd[m.usr] IN
         /\ m_usrfd' = [m_usrfd EXCEPT ![m.usr] = fd]
         /\ server' = [type |-> "ITEMEVENT", usr |-> m.usr, fd |-> fd]
    /\ UNCHANGED <<erasing, storage, size, broadcast, gate>>

\* The write ends; when it fails the user is erased.
ItemWritten ==
    /\ server # None /\ server.type = "ITEMEVENT" /\ erasing["run_server"] = None
    /\ \E o \in WriteOutcomes(server.fd) :
          /\ gate' = IF o = "killed" THEN "killed" ELSE gate
          /\ IF o = "failed"
               THEN erasing' = [erasing EXCEPT !["run_server"] = EraseBegins(server.usr)] /\ UNCHANGED server
               ELSE server' = None /\ UNCHANGED erasing
    /\ UNCHANGED <<m_usrfd, storage, size, broadcast>>

ServerErases ==
    /\ Find("run_server") \/ EraseAt("run_server") \/ Forget("run_server")
    /\ server' = IF erasing'["run_server"] = None /\ server.type = "ITEMEVENT" THEN None ELSE server

\* After the erasefd of an exit the walk begins.
ExitSync ==
    /\ server # None /\ server.type = "USEREXIT" /\ erasing["run_server"] = None
    /\ server' = None
    /\ broadcast' = [i |-> 1, j |-> size + 1, fd |-> None]
    /\ UNCHANGED <<erasing, m_usrfd, storage, size, gate>>

\* tcp_send is called for the next entry ...
SendBegins ==
    /\ broadcast # None /\ broadcast.fd = None /\ broadcast.i # broadcast.j
    /\ broadcast' = [broadcast EXCEPT !.fd = storage[broadcast.i].fd]
    /\ UNCHANGED <<m_usrfd, storage, size, gate>>

\* Faulty variant: the end of the walk stays where it is.
SendEndsSameEnd ==
    /\ broadcast # None /\ broadcast.fd # None
    /\ \E o \in WriteOutcomes(broadcast.fd) :
          /\ gate' = IF o = "killed" THEN "killed" ELSE gate
          /\ IF o = "failed"
               THEN /\ storage' = [storage EXCEPT ![broadcast.i] = storage[broadcast.j - 1]]
                    /\ broadcast' = [broadcast EXCEPT !.fd = None]
               ELSE broadcast' = [broadcast EXCEPT !.i = @ + 1, !.fd = None] /\ UNCHANGED storage
    /\ UNCHANGED <<m_usrfd, size>>

\* Faulty variant: the walk goes on behind a client that is taken out.
SendEndsSkipping ==
    /\ broadcast # None /\ broadcast.fd # None
    /\ \E o \in WriteOutcomes(broadcast.fd) :
          /\ gate' = IF o = "killed" THEN "killed" ELSE gate
          /\ IF o = "failed" /\ broadcast.i < broadcast.j - 1
               THEN /\ storage' = [storage EXCEPT ![broadcast.i] = storage[broadcast.j - 1]]
                    /\ broadcast' = [i |-> broadcast.i + 1, j |-> broadcast.j - 1, fd |-> None]
               ELSE broadcast' = [broadcast EXCEPT !.i = @ + 1, !.fd = None] /\ UNCHANGED storage
    /\ UNCHANGED <<m_usrfd, size>>

\* ... and returns.  When it fails, the last entry of the walk takes the place of
\* whatever is at i by now.
SendEnds ==
    /\ broadcast # None /\ broadcast.fd # None
    /\ \E o \in WriteOutcomes(broadcast.fd) :
          /\ gate' = IF o = "killed" THEN "killed" ELSE gate
          /\ IF o = "failed"
               THEN /\ storage' = [storage EXCEPT ![broadcast.i] = storage[broadcast.j - 1]]
                    /\ broadcast' = [broadcast EXCEPT !.j = @ - 1, !.fd = None]
               ELSE broadcast' = [broadcast EXCEPT !.i = @ + 1, !.fd = None] /\ UNCHANGED storage
    /\ UNCHANGED <<m_usrfd, size>>

\* erase(j, end()): the vector ends at j, whether or not it did before.
EndBroadcast ==
    /\ broadcast # None /\ broadcast.i = broadcast.j
    /\ size' = broadcast.j - 1
    /\ broadcast' = None
    /\ UNCHANGED <<m_usrfd, storage, gate>>

Hears(m) == ServerLogin(m) \/ ServerExit(m) \/ ServerSync(m) \/ ServerItem(m)

Walks == (SendBegins \/ SendEnds \/ EndBroadcast) /\ UNCHANGED <<server, erasing>>

-----------------------------------------------------------------------------

GateInit ==
    /\ peer = [c \in Conns |-> "new"]
    /\ deaf = {} /\ edge = {}
    /\ wire = [c \in Conns |-> <<>>]
    /\ m_connections = [fd \in Fds |-> None]
    /\ draining = None
    /\ g_client_queue = {}
    /\ client = None /\ server = None
    /\ erasing = [t \in {"run_client", "run_server"} |-> None]
    /\ m_usrfd = [u \in Users |-> None]
    /\ storage = <<>> /\ size = 0
    /\ broadcast = None
    /\ gate = "runs"

GateTypeOK ==
    /\ \A fd, other \in Fds : m_connections[fd] # None /\ fd # other => m_connections[fd] # m_connections[other]
    /\ draining = None \/ \E fd \in Fds : m_connections[fd] = draining
    /\ IsFiniteSet(g_client_queue) /\ Occupied + (IF draining = None THEN 0 ELSE 1) <= ClientSlots
    /\ m_usrfd \in [Users -> Fds \cup {0, None}]
    /\ size \in 0 .. Len(storage)
    /\ gate = "runs" => \A k \in 1 .. size : storage[k] \in client_info
    /\ broadcast # None =>
         /\ 1 <= broadcast.i /\ broadcast.i <= broadcast.j /\ broadcast.j <= Len(storage) + 1
         /\ gate = "runs" => \A k \in broadcast.i .. broadcast.j - 1 : storage[k] \in client_info
=============================================================================
