------------------------------ MODULE Gateway -------------------------------
(***************************************************************************)
(* The gate among its clients and the other servers.  What the servers say *)
(* is not tied to what they were told, so that the game server's messages  *)
(* may come at any time (module Sessions has the game server).             *)
(***************************************************************************)
EXTENDS GateServer

CONSTANTS UserOf,   \* whose client each connection is
          Bounds    \* bounds of the model, one of which a behaviour keeps to: how many
                    \* connections there are, how many messages clients send after
                    \* their logins, whether those have bodies, how many messages
                    \* come from servers, and whether clients stop reading

ASSUME GatewayAssumption ==
    /\ UserOf \in [Conns -> Users]
    /\ Bounds \subseteq [conns : Nat, sent : Nat, bodies : BOOLEAN, said : Nat, deaf : BOOLEAN]

VARIABLES bounds,     \* the bounds chosen
          said,       \* how many messages run_server has taken
          (* History, which no step depends on, but for the bound: *)
          sent,       \* how many messages each client has sent
          handled,    \* the numbers of those that run_client has taken
          loggedOn,   \* the connection whose USERLOGIN was taken last for a user
          spoilt,     \* connections for which GoodClientListed promises nothing
          overlapped, \* one thread has changed the list under the iterators of the other
          todo        \* open connections that the broadcast has still to reach

history == <<sent, handled, loggedOn, spoilt, overlapped, todo>>
gatewayVars == <<gateVars, bounds, said, history>>

-----------------------------------------------------------------------------
(* Clients.                                                                *)

behindNet == <<client, server, erasing, listVars, bounds, said, handled, loggedOn, spoilt, overlapped, todo>>

ClientConnects(c) ==
    /\ gate = "runs" /\ c <= bounds.conns
    /\ Accept(c, [type |-> "USERLOGIN", usr |-> UserOf[c], n |-> 1])
    /\ sent' = [sent EXCEPT ![c] = 1]
    /\ UNCHANGED <<g_client_queue, behindNet>>

\* What all clients have sent after their logins.
Sent == UNION {{c} \X (2 .. sent[c]) : c \in Conns}

ClientSends(c, type, whole) ==
    /\ Cardinality(Sent) < bounds.sent
    /\ Sends(c, [type |-> type, usr |-> UserOf[c], n |-> sent[c] + 1], whole)
    /\ sent' = [sent EXCEPT ![c] = @ + 1]
    /\ UNCHANGED <<g_client_queue, behindNet>>

ClientGoesOn(c) ==
    /\ SendsRest(c) \/ Leaves(c) \/ (bounds.deaf /\ TurnsDeaf(c))
    /\ UNCHANGED <<g_client_queue, behindNet, sent>>

ClientSteps ==
    \E c \in Conns :
        \/ ClientConnects(c) \/ ClientGoesOn(c)
        \/ ClientSends(c, "USEREXIT", TRUE)
        \/ (bounds.bodies /\ \E type \in {"USERUP", "ITEMEVENT"}, whole \in BOOLEAN : ClientSends(c, type, whole))

-----------------------------------------------------------------------------
(* The gate.                                                               *)

ProductMsg == product_msg /\ UNCHANGED <<bounds, said, history>>

\* Thread t has iterators that it has not done with.
Scans(t) == erasing[t] # None /\ erasing[t].at # "forget"

RunClient ==
    /\ run_client
    /\ LET taken == g_client_queue \ g_client_queue' IN
         /\ handled' = [c \in Conns |-> handled[c] \cup {q.msg.n : q \in {p \in taken : p.conn = c}}]
         /\ loggedOn' = [u \in Users |->
              IF \E q \in taken : q.msg.usr = u /\ q.msg.type = "USERLOGIN"
                THEN (CHOOSE q \in taken : TRUE).conn
              ELSE IF \E q \in taken : q.msg.usr = u /\ q.msg.type = "USEREXIT" THEN None
              ELSE loggedOn[u]]
    /\ spoilt' = IF size' > size /\ broadcast # None THEN spoilt \cup {client.conn} ELSE spoilt
    /\ overlapped' = (overlapped \/ (size' < size /\ (broadcast # None \/ Scans("run_server"))))
    /\ todo' = IF size' < size THEN {} ELSE todo
    /\ UNCHANGED <<bounds, said, sent>>

\* run_server takes any message that servers send, at any time.
RunServerHears ==
    /\ gate = "runs"
    /\ said < bounds.said /\ said' = said + 1
    /\ \E u \in Users, type \in {"GET_ALLINFO", "USERSYNC", "USEREXIT", "ITEMEVENT"} :
          Hears([type |-> type, usr |-> u])
    /\ UNCHANGED <<wires, g_client_queue, client, bounds, sent, handled, loggedOn, overlapped>>

RunServerErases ==
    /\ gate = "runs"
    /\ ItemWritten \/ ServerErases \/ ExitSync
    /\ overlapped' = (overlapped \/ (size' < size /\ Scans("run_client")))
    /\ UNCHANGED <<wires, g_client_queue, client, bounds, said, sent, handled, loggedOn>>

RunServerWalks ==
    /\ gate = "runs"
    /\ Walks
    /\ overlapped' = (overlapped \/ (<<storage, size>>' # <<storage, size>> /\ Scans("run_client")))
    /\ UNCHANGED <<wires, g_client_queue, client, bounds, said, sent, handled, loggedOn>>

\* The open connections to which the entries 1 .. size lead.
InList == {c \in Conns : peer[c] = "open" /\ \E k \in 1 .. size : m_connections[storage[k].fd] = c}

RunServer ==
    /\ RunServerHears \/ RunServerErases \/ RunServerWalks
    /\ spoilt' = IF erasing'["run_server"] # None /\ erasing["run_server"] = None
                   THEN spoilt \cup ({loggedOn[erasing'["run_server"].usr]} \ {None}) ELSE spoilt
    /\ todo' = IF broadcast = None THEN (IF broadcast' = None THEN {} ELSE InList)
               ELSE IF broadcast' = None THEN {}
               ELSE IF broadcast'.fd # None THEN todo
               ELSE todo \ {m_connections[broadcast.fd]}

-----------------------------------------------------------------------------

GatewayInit ==
    /\ GateInit /\ said = 0
    /\ bounds \in Bounds
    /\ sent = [c \in Conns |-> 0] /\ handled = [c \in Conns |-> {}]
    /\ loggedOn = [u \in Users |-> None]
    /\ spoilt = {} /\ overlapped = FALSE /\ todo = {}

GatewayNext == ClientSteps \/ ProductMsg \/ RunClient \/ RunServer

\* run_server goes on with a walk; nothing is asked of clients, or of the other threads.
GatewaySpec ==
    /\ GatewayInit /\ [][GatewayNext]_gatewayVars
    /\ WF_gatewayVars(RunServer /\ RunServerWalks)

-----------------------------------------------------------------------------
(* Properties.                                                             *)

\* gate_server::m_usrfd keeps a descriptor per user, which comes with the message
\* through the queue: it is still the descriptor of the connection on which the
\* user logged in last, or that connection has been closed.  Only then item
\* events of a user go to somebody else's connection.
FdStaysWithLogin ==
    \A u \in Users :
        LET c == loggedOn[u] IN
        c # None /\ m_usrfd[u] \in Fds =>
            m_connections[m_usrfd[u]] = c \/ \A fd \in Fds : m_connections[fd] # c

\* A login of u has been taken, and its entry is still to come.
BeingListed(u) == client # None /\ client.msg.type = "USERLOGIN" /\ client.msg.usr = u

\* gate_server::m_clientsfd: a user who has logged in on a connection that is still
\* open, and has not exited, is in the list with its descriptor, while others
\* come, exit, fail and are swapped out in both threads.  Only three things in
\* the code lose it: a login that falls into a walk is cut off by its last step;
\* an erasefd by run_server that begins after the login (for an exit that the
\* game server sends back, or a failed write) takes it; and once a thread has
\* changed the list under the iterators of the other, anybody's entry may go.
GoodClientListed ==
    gate = "runs" /\ ~overlapped =>
        \A u \in Users :
            LET c == loggedOn[u] IN
            c # None /\ c \notin spoilt /\ peer[c] = "open" /\ ~BeingListed(u) =>
                \E k \in 1 .. size : storage[k].usrid = u /\ m_connections[storage[k].fd] = c

\* Broadcast::runtask: at the end of a walk over a short list every client that was in
\* it and is still connected has been written to, also when others had to be
\* taken out on the way, unless run_client erased somebody meanwhile.
WalkReachesAll ==
    broadcast # None /\ broadcast.i = broadcast.j => \A c \in todo : peer[c] # "open"

Queued(c) == {q.msg.n : q \in {p \in g_client_queue : p.conn = c}}

\* Net::product_msg and run_client: what a client has sent is taken once or is still on
\* its way, nothing left out or twice, in whatever order the queue gives it out,
\* whatever other clients do and whoever gets a descriptor after it; only from a
\* client that left the last messages may be lost.
NothingLostOrTwice ==
    \A c \in Conns : \E n \in 0 .. sent[c] :
        /\ handled[c] \cup Queued(c) = 1 .. n /\ handled[c] \cap Queued(c) = {}
        /\ \A k \in DOMAIN wire[c] : wire[c][k].msg.n = n + k
        /\ wire[c] # <<>> \/ peer[c] = "open" => n + Len(wire[c]) = sent[c]

\* A broadcast to a short list comes to its end, although run_client may change the
\* list all the time and every write may fail; unless it writes to a client
\* that does not read.
WalkEnds ==
    broadcast # None ~>
        \/ broadcast = None \/ gate # "runs"
        \/ (broadcast.fd \in Fds /\ m_connections[broadcast.fd] \in deaf)
=============================================================================
