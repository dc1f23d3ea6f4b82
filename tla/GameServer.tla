----------------------------- MODULE GameServer -----------------------------
(***************************************************************************)
(* The game server (src/ServerGame/game_server.cpp): run() handles what    *)
(* the gate sends, and answers through the send queue, which consume_msg   *)
(* (src/Net/Net.cpp) empties, or directly.  The receive queue does not     *)
(* keep the order of its messages, so any that has come may be next; the   *)
(* send queue does.  A connection to the gate or to the db server may end, *)
(* and is never made again.  Positions are values: the arithmetic on them  *)
(* is left out.                                                            *)
(***************************************************************************)
EXTENDS Inventory, Sequences

CONSTANT SendSlots       \* the slots of the send queue

ASSUME SlotsAssumption == SendSlots \in Nat

VARIABLES m_players,     \* who is in the game: a position and an inventory, or None
          fromGate,      \* on the way from the gate, or in the receive queue
          g_send_queue,
          toDb,          \* on the way to the db server, or in its receive queue
          toGate,        \* delivered to the kernel for the gate
          m_connections, \* the servers consume_msg finds a socket for
          ended,         \* the servers whose connection has ended
          sending,       \* consume_msg has not returned
          gameRunning,   \* the process is there
          saves          \* history: every save that was put into the send queue

gameVars == <<m_players, fromGate, g_send_queue, toDb, toGate, m_connections, ended, sending,
              gameRunning, saves>>
network == <<toDb, toGate, m_connections, ended, sending>>

Servers == {"db", "gate"}

\* n tells saves apart; no step depends on it.
savePlayer(u, pos) ==
    [type |-> "SETPLAYER", usr |-> u, to |-> "db", pos |-> pos, n |-> Len(saves) + 1]
saveItem(u, i, inv) ==
    [type |-> "SETITEM", usr |-> u, to |-> "db", item |-> i, count |-> inv.m_mItems[i],
     n |-> Len(saves) + 1]

-----------------------------------------------------------------------------
(* run().  A handler that puts messages into the send queue waits until    *)
(* they fit.                                                               *)

Handles(m, type) ==
    /\ gameRunning
    /\ m.type = type
    /\ fromGate' = fromGate \ {m}

\* Sequences of saves, and of messages to the gate behind them.
Enqueues(saved, others) ==
    /\ Len(g_send_queue) + Len(saved) + Len(others) <= SendSlots
    /\ g_send_queue' = g_send_queue \o saved \o others
    /\ saves' = saves \o saved

\* A user who is in the game stays as they are, whatever was loaded.
usr_login(m) ==
    /\ Handles(m, "GET_ALLINFO")
    /\ IF m_players[m.usr] # None THEN UNCHANGED m_players
       ELSE \E inv \in InitInventory(m.items) :
               m_players' = [m_players EXCEPT ![m.usr] = [pos |-> m.pos, inv |-> inv]]
    /\ UNCHANGED <<g_send_queue, network, gameRunning, saves>>

usr_exit(m) ==
    /\ Handles(m, "USEREXIT")
    /\ IF m_players[m.usr] = None THEN UNCHANGED <<m_players, g_send_queue, saves>>
       ELSE /\ Enqueues(<<savePlayer(m.usr, m_players[m.usr].pos)>>,
                        <<[type |-> "USEREXIT", usr |-> m.usr, to |-> "gate"]>>)
            /\ m_players' = [m_players EXCEPT ![m.usr] = None]
    /\ UNCHANGED <<network, gameRunning>>

usr_update_status(m) ==
    /\ Handles(m, "USERUP")
    /\ IF m_players[m.usr] = None THEN UNCHANGED <<m_players, g_send_queue, saves>>
       ELSE /\ m_players' = [m_players EXCEPT ![m.usr].pos = m.pos]
            /\ Enqueues(<<>>, <<[type |-> "USERSYNC", usr |-> m.usr, to |-> "gate"]>>)
    /\ UNCHANGED <<network, gameRunning>>

ItemOutcomes(m) == update_item(m_players[m.usr].inv, m.optype, m.item, m.count)

\* The item is saved before the event goes back to the gate, without the queue.
usr_update_item(m) ==
    /\ Handles(m, "ITEMEVENT")
    /\ IF m_players[m.usr] = None
         THEN UNCHANGED <<m_players, g_send_queue, toGate, gameRunning, saves>>
       ELSE \E o \in ItemOutcomes(m) :
              /\ m_players' = [m_players EXCEPT ![m.usr].inv = o.inv]
              /\ gameRunning' \in {~o.crash} \cup (IF o.ok /\ "gate" \in ended THEN {FALSE} ELSE {})
              /\ Enqueues(IF o.saved = {} THEN <<>> ELSE <<saveItem(m.usr, m.item, o.inv)>>, <<>>)
              /\ toGate' = IF o.ok /\ "gate" \notin ended
                             THEN Append(toGate, [type |-> "ITEMEVENT", usr |-> m.usr])
                             ELSE toGate
    /\ UNCHANGED <<toDb, m_connections, ended, sending>>

-----------------------------------------------------------------------------
(* The network threads.                                                    *)

\* Faulty variant: what waits behind the message is dropped.
DeliversOnly ==
    /\ g_send_queue # <<>>
    /\ g_send_queue' = <<>>
    /\ LET m == Head(g_send_queue) IN
         /\ toDb' = IF m.to = "db" THEN toDb \cup {m} ELSE toDb
         /\ toGate' = IF m.to = "gate" THEN Append(toGate, m) ELSE toGate

Delivers ==
    /\ g_send_queue # <<>>
    /\ g_send_queue' = Tail(g_send_queue)
    /\ LET m == Head(g_send_queue) IN
         /\ toDb' = IF m.to = "db" THEN toDb \cup {m} ELSE toDb
         /\ toGate' = IF m.to = "gate" THEN Append(toGate, m) ELSE toGate

SendMsg ==
    /\ gameRunning /\ sending
    /\ g_send_queue # <<>>
    /\ Head(g_send_queue).to \in m_connections \ ended
    /\ Delivers
    /\ UNCHANGED <<m_players, fromGate, m_connections, ended, sending, gameRunning, saves>>

\* A write() to a connection that has ended: the message is lost, and either
\* nobody notices, or it fails and the connection is erased, or SIGPIPE, which
\* nobody handles, ends the process.
SendMsgFails ==
    /\ gameRunning /\ sending
    /\ g_send_queue # <<>>
    /\ LET to == Head(g_send_queue).to IN
         /\ to \in m_connections \cap ended
         /\ \/ UNCHANGED <<m_connections, gameRunning>>
            \/ m_connections' = m_connections \ {to} /\ UNCHANGED gameRunning
            \/ gameRunning' = FALSE /\ UNCHANGED m_connections
    /\ g_send_queue' = Tail(g_send_queue)
    /\ UNCHANGED <<m_players, fromGate, toDb, toGate, ended, sending, saves>>

\* No connection any more: consume_msg returns, for good, and nothing that is in
\* the queue is sent.
SendThreadEnds ==
    /\ gameRunning /\ sending
    /\ g_send_queue # <<>>
    /\ Head(g_send_queue).to \notin m_connections
    /\ sending' = FALSE
    /\ UNCHANGED <<m_players, fromGate, g_send_queue, toDb, toGate, m_connections, ended,
                   gameRunning, saves>>

consume_msg == SendMsg \/ SendMsgFails \/ SendThreadEnds

\* product_msg is told by epoll that the other end is gone.
ConnectionErased(s) ==
    /\ gameRunning
    /\ s \in ended \cap m_connections
    /\ m_connections' = m_connections \ {s}
    /\ UNCHANGED <<m_players, fromGate, g_send_queue, toDb, toGate, ended, sending, gameRunning, saves>>

GameInit ==
    /\ m_players = [u \in Users |-> None]
    /\ fromGate = {} /\ g_send_queue = <<>>
    /\ toDb = {} /\ toGate = <<>>
    /\ m_connections = Servers /\ ended = {}
    /\ sending = TRUE /\ gameRunning = TRUE
    /\ saves = <<>>

handle(m) == usr_login(m) \/ usr_exit(m) \/ usr_update_status(m) \/ usr_update_item(m)
run == \E m \in fromGate : handle(m)

GameStep == run \/ consume_msg \/ \E s \in Servers : ConnectionErased(s)

-----------------------------------------------------------------------------
(* Properties of the game server wherever it is used.                      *)

GameTypeOK ==
    /\ \A u \in Users : m_players[u] = None \/ m_players[u].inv \in Inventories
    /\ Len(g_send_queue) <= SendSlots
    /\ m_connections \subseteq Servers /\ ended \subseteq Servers
    /\ sending \in BOOLEAN /\ gameRunning \in BOOLEAN

\* game_server::usr_update_item: only the id of an item that was deleted whole, and
\* that the bag has kept, brings the process down; without such an id every
\* operation on items is carried out or refused.  (A connection that has ended
\* is the other way down, by SIGPIPE.)
DownOnlyByStaleId ==
    gameRunning \/ ended # {} \/ \E u \in Users :
        /\ m_players[u] # None
        /\ ~(m_players[u].inv.m_baseBag \subseteq Present(m_players[u].inv.m_mItems))
=============================================================================
