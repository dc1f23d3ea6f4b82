------------------------------ MODULE Sessions ------------------------------
(***************************************************************************)
(* A user's way through the servers: the login server asks the db server,  *)
(* tells the gate and the client; the client plays in the game server,     *)
(* which saves to the db server.  LoginServer, GameServer and DbServer are *)
(* put together here with the channels between them.  The gate only passes *)
(* messages on, GET_ALLINFO by one thread and the client's messages by     *)
(* another.  No server's receive queue keeps the order of its messages, as *)
(* MsgQueue shows (its Channel is Ordered only for a send queue), and one  *)
(* may stay in it for long: of the messages on their way to a server any   *)
(* may be handled next, also one that came after others.                   *)
(***************************************************************************)
EXTENDS GameServer, LoginServer

CONSTANTS Positions,
          Events,                     \* the item events of clients: item, operation, count
          InitialPos, InitialItems,   \* the user's rows before the first save
          MaxOps,                     \* bound of the model: messages of playing clients
          MaxLost                     \* bound of the model: connections that end

ASSUME SessionAssumption ==
    /\ Positions \subseteq Nat /\ InitialPos \in Nat
    /\ Events \subseteq Items \X {"add", "del", "use", "equip", "unequip"} \X Nat
    /\ InitialItems \in [Items -> Counts \cup {None}]
    /\ Clients \subseteq Nat

\* None is no password, no map of items and nothing a connection has asked for.
ASSUME NoneAssumption ==
    /\ None \notin Passwords
    /\ None \notin [Items -> Counts \cup {None}]
    /\ None \notin [usr : Users, pass : Passwords, applied : Nat, alone : BOOLEAN]
    /\ None \notin Fds

VARIABLES PLAYER, ITEM, m_passdb, m_playerdb, m_itemdb, running, reply,
          missedPlayers, missedItems,   \* the db server
          online,     \* the users whose client plays
          ops,        \* how many messages playing clients have sent
          (* History, which no step depends on: *)
          asks,       \* what each connection asked for, and when
          applied,    \* the saves the db server has handled, in that order
          fresh,      \* users in the game who were loaded with what all saves come to
          unsaved     \* items that were changed in a way that does not save them

dbVars == <<PLAYER, ITEM, m_passdb, m_playerdb, m_itemdb, running, reply, missedPlayers, missedItems>>
history == <<asks, applied, fresh, unsaved>>
sessionVars == <<gameVars, loginVars, dbVars, online, ops, history>>

Db == INSTANCE DbServer WITH Values <- Nat, Registered <- Users, FailingSelects <- {}

-----------------------------------------------------------------------------
(* What the first n of some saves come to for a user, one after the other. *)

Last(S) == CHOOSE k \in S : \A j \in S : j <= k

PosAfter(u, done, n) ==
    LET K == {k \in 1 .. n : done[k].type = "SETPLAYER" /\ done[k].usr = u}
    IN IF K = {} THEN InitialPos ELSE done[Last(K)].pos

CountAfter(u, i, done, n) ==
    LET K == {k \in 1 .. n : done[k].type = "SETITEM" /\ done[k].usr = u /\ done[k].item = i}
    IN IF K = {} THEN InitialItems[i] ELSE done[Last(K)].count

-----------------------------------------------------------------------------
(* Clients.                                                                *)

LoginUnderWay(u) ==
    \E m \in requests \cup loginToDb \cup passwords \cup infos : m.usr = u

\* Connections are used in the order of their numbers.
Ask(c, u, pass) ==
    /\ loginRunning
    /\ asks[c] = None
    /\ \A d \in Clients : d < c => asks[d] # None
    /\ \E fd \in Fds :
          /\ Holders(fd) = {}
          /\ fdOf' = [fdOf EXCEPT ![c] = fd]
          /\ requests' = requests \cup {[usr |-> u, pass |-> pass, from |-> c, m_from |-> fd]}
    /\ asks' = [asks EXCEPT ![c] = [usr |-> u, pass |-> pass, applied |-> Len(applied),
                                    alone |-> ~LoginUnderWay(u)]]
    /\ UNCHANGED <<m_usrfd, m_waitverify, loginToDb, passwords, infos, toGateServer, answered>>
    /\ UNCHANGED <<left, gateLeft, loginRunning, gameVars, dbVars, online, ops, applied, fresh, unsaved>>

MayLose == Cardinality(ended) + Cardinality(left) + (IF gateLeft THEN 1 ELSE 0) < MaxLost

\* A client closes its connection to the login server.  If its request has not
\* been read it is lost, for epoll reports EPOLLRDHUP with it.
Leaves(c) ==
    /\ asks[c] # None /\ c \notin left
    /\ MayLose
    /\ left' = left \cup {c}
    /\ requests' \in {requests, {r \in requests : r.from # c}}
    /\ UNCHANGED <<m_usrfd, m_waitverify, loginToDb, passwords, infos, toGateServer, answered>>
    /\ UNCHANGED <<fdOf, gateLeft, loginRunning, gameVars, dbVars, online, ops, history>>

\* What a client sends has the number n, by which no step goes.
Plays(u, m) ==
    /\ u \in online
    /\ "gate" \notin ended
    /\ ops < MaxOps
    /\ ops' = ops + 1
    /\ fromGate' = fromGate \cup {m}
    /\ UNCHANGED <<m_players, g_send_queue, network, gameRunning, saves, loginVars, dbVars, history>>

Moves(u, pos) ==
    /\ Plays(u, [type |-> "USERUP", usr |-> u, n |-> ops + 1, pos |-> pos])
    /\ UNCHANGED online

HandlesItem(u, e) ==
    /\ Plays(u, [type |-> "ITEMEVENT", usr |-> u, n |-> ops + 1,
                 item |-> e[1], optype |-> e[2], count |-> e[3]])
    /\ UNCHANGED online

Exits(u) ==
    /\ Plays(u, [type |-> "USEREXIT", usr |-> u, n |-> ops + 1])
    /\ online' = online \ {u}

-----------------------------------------------------------------------------
(* Servers.                                                                *)

\* The message makes a session, and the rows in it are what all saves come to.
Loads(m) == m.type = "GET_ALLINFO" /\ m_players[m.usr] = None

UpToDate(m) == \A i \in Items : m.items[i] = CountAfter(m.usr, i, saves, Len(saves))

GameRuns ==
    /\ \E m \in fromGate :
          LET u == m.usr IN
          /\ handle(m)
          /\ fresh' = IF ~Loads(m) THEN fresh
                      ELSE IF UpToDate(m) THEN fresh \cup {u} ELSE fresh \ {u}
          /\ unsaved' =
               IF Loads(m) THEN [unsaved EXCEPT ![u] = Present(m.items) \ m_players'[u].inv.m_baseBag]
               ELSE IF m.type = "ITEMEVENT" /\ m_players[u] # None
                 THEN [unsaved EXCEPT ![u] =
                         IF Len(saves') > Len(saves) THEN @ \ {m.item}
                         ELSE IF m.optype = "add" \/ ~Has(m_players'[u].inv, m.item)
                           THEN @ \cup {m.item} ELSE @]
               ELSE unsaved
    /\ UNCHANGED <<loginVars, dbVars, online, ops, asks, applied>>

GameSends ==
    /\ consume_msg
    /\ UNCHANGED <<loginVars, dbVars, online, ops, history>>

GameLosesConnection ==
    /\ \E s \in Servers : ConnectionErased(s)
    /\ UNCHANGED <<loginVars, dbVars, online, ops, history>>

\* A client plays once it has got its own user.
LoginRuns ==
    /\ LoginStep
    /\ online' = online \cup {asks[c].usr : c \in {d \in Clients :
                                  answered'[d] # answered[d] /\ answered'[d].usr = asks[d].usr}}
    /\ UNCHANGED <<gameVars, dbVars, ops, history>>

\* The login server's send thread writes to the db server that is gone: SIGPIPE.
LoginDies ==
    /\ loginRunning /\ ~running /\ loginToDb # {}
    /\ loginRunning' = FALSE
    /\ UNCHANGED <<m_usrfd, m_waitverify, requests, loginToDb, passwords, infos, toGateServer, answered>>
    /\ UNCHANGED <<connections, gameVars, dbVars, online, ops, history>>

\* run_server of the gate.  Without the game server the message is lost.
GateForwards ==
    /\ \E m \in toGateServer :
          /\ fromGate' = IF "gate" \in ended THEN fromGate ELSE fromGate \cup {m}
          /\ toGateServer' = toGateServer \ {m}
    /\ UNCHANGED <<m_usrfd, m_waitverify, requests, loginToDb, passwords, infos, answered>>
    /\ UNCHANGED <<connections, loginRunning>>
    /\ UNCHANGED <<m_players, g_send_queue, network, gameRunning, saves, dbVars, online, ops, history>>

\* The gate's clients get what the game server sends.
GateReads ==
    /\ toGate # <<>>
    /\ toGate' = <<>>
    /\ UNCHANGED <<m_players, fromGate, g_send_queue, toDb, m_connections, ended, sending, gameRunning, saves>>
    /\ UNCHANGED <<loginVars, dbVars, online, ops, history>>

-----------------------------------------------------------------------------
(* The db server's messages.                                               *)

DbAnswersPassword ==
    /\ \E q \in loginToDb :
          /\ q.type = "GETPASS"
          /\ Db!GetPass(q.usr)
          /\ passwords' = passwords \cup {[usr |-> q.usr, from |-> q.from]}
          /\ loginToDb' = loginToDb \ {q}
    /\ UNCHANGED <<m_usrfd, m_waitverify, requests, infos, toGateServer, answered>>
    /\ UNCHANGED <<connections, loginRunning, gameVars, online, ops, history>>

DbAnswersAll ==
    /\ \E q \in loginToDb :
          /\ q.type = "GET_ALLINFO"
          /\ Db!GetAll(q.usr)
          /\ infos' = infos \cup
                {[type |-> "GET_ALLINFO", usr |-> reply'[1], from |-> q.from,
                  pos |-> reply'[2], items |-> reply'[3], age |-> Len(applied)]}
          /\ loginToDb' = loginToDb \ {q}
    /\ UNCHANGED <<m_usrfd, m_waitverify, requests, passwords, toGateServer, answered>>
    /\ UNCHANGED <<connections, loginRunning, gameVars, online, ops, history>>

DbSaves ==
    /\ \E m \in toDb :
          /\ \/ m.type = "SETPLAYER" /\ Db!SetPlayer(m.usr, m.pos)
             \/ m.type = "SETITEM" /\ Db!SetItem(m.usr, m.item, m.count)
          /\ toDb' = toDb \ {m}
          /\ applied' = Append(applied, m)
    /\ UNCHANGED <<m_players, fromGate, g_send_queue, toGate, m_connections, ended, sending, gameRunning, saves>>
    /\ UNCHANGED <<loginVars, online, ops, asks, fresh, unsaved>>

DbRuns == DbAnswersPassword \/ DbAnswersAll \/ DbSaves

-----------------------------------------------------------------------------
(* Connections that end.                                                   *)

\* The db server dies, and its connections with it.  The others do not connect
\* to it again: they are started after it, by hand.
DbDies ==
    /\ Db!Crash
    /\ MayLose
    /\ ended' = ended \cup {"db"}
    /\ toDb' = {} /\ loginToDb' = {}
    /\ UNCHANGED <<m_players, fromGate, g_send_queue, toGate, m_connections, sending, gameRunning, saves>>
    /\ UNCHANGED <<m_usrfd, m_waitverify, requests, passwords, infos, toGateServer, answered>>
    /\ UNCHANGED <<connections, loginRunning, online, ops, history>>

\* The gate's connection to the game server breaks, with what was on its way.
GateLost ==
    /\ "gate" \notin ended
    /\ MayLose
    /\ ended' = ended \cup {"gate"}
    /\ fromGate' \in SUBSET fromGate
    /\ UNCHANGED <<m_players, g_send_queue, toDb, toGate, m_connections, sending, gameRunning, saves>>
    /\ UNCHANGED <<loginVars, dbVars, online, ops, history>>

\* And its connection to the login server.
GateLeaves ==
    /\ ~gateLeft
    /\ MayLose
    /\ gateLeft' = TRUE
    /\ toGateServer' \in SUBSET toGateServer
    /\ UNCHANGED <<m_usrfd, m_waitverify, requests, loginToDb, passwords, infos, answered>>
    /\ UNCHANGED <<fdOf, left, loginRunning, gameVars, dbVars, online, ops, history>>

-----------------------------------------------------------------------------

SessionInit ==
    /\ GameInit /\ LoginInit
    /\ PLAYER = [u \in Users |-> InitialPos] /\ ITEM = [u \in Users |-> InitialItems]
    /\ m_passdb = {}
    /\ m_playerdb = [u \in Users |-> None] /\ m_itemdb = [u \in Users |-> None]
    /\ running = TRUE /\ reply = None
    /\ missedPlayers = {} /\ missedItems = {}
    /\ online = {} /\ ops = 0
    /\ asks = [c \in Clients |-> None]
    /\ applied = <<>>
    /\ fresh = {} /\ unsaved = [u \in Users |-> {}]

ClientStep ==
    \/ \E c \in Clients :
          Leaves(c) \/ \E u \in Users, pass \in Passwords : Ask(c, u, pass)
    \/ \E u \in Users :
          \/ \E pos \in Positions : Moves(u, pos)
          \/ \E e \in Events : HandlesItem(u, e)
          \/ Exits(u)

SessionNext ==
    \/ ClientStep
    \/ GameRuns \/ GameSends \/ GameLosesConnection
    \/ LoginRuns \/ GateForwards \/ GateReads \/ DbRuns
    \/ DbDies \/ LoginDies \/ GateLost \/ GateLeaves

SessionSpec == SessionInit /\ [][SessionNext]_sessionVars

-----------------------------------------------------------------------------
(* Properties.                                                             *)

InfosUnderWay == infos \cup toGateServer \cup {m \in fromGate : m.type = "GET_ALLINFO"}

SessionTypeOK ==
    /\ GameTypeOK /\ LoginTypeOK
    /\ online \subseteq Users /\ fresh \subseteq Users
    /\ \A m \in InfosUnderWay : m.age \in 0 .. Len(applied)

Handled == {applied[k].n : k \in DOMAIN applied}
Delivered == {m.n : m \in toDb}
SavesQueued == {k \in DOMAIN g_send_queue : g_send_queue[k].to = "db"}
Queued == {g_send_queue[k].n : k \in SavesQueued}

\* Where a save can be at most once, and as it was made.
AreSaves ==
    /\ \A m \in toDb : m = saves[m.n]
    /\ \A k \in DOMAIN applied : applied[k] = saves[applied[k].n]
    /\ \A k \in SavesQueued : g_send_queue[k] = saves[g_send_queue[k].n]
    /\ \A j, k \in DOMAIN applied : applied[j].n = applied[k].n => j = k
    /\ \A j, k \in SavesQueued : g_send_queue[j].n = g_send_queue[k].n => j = k
    /\ Handled \cap Delivered = {} /\ Queued \cap (Handled \cup Delivered) = {}

\* game_server::usr_exit, Inventory::saveItem and Net::consume_msg: no save is
\* handled twice, or altered, and none disappears between the send queue and
\* the db server as long as their connection lasts.  What is in the queue when
\* consume_msg has returned, or the process has ended, is lost all the same; that
\* happens only after some connection has ended, be it the gate's, or when an
\* item operation takes the process down.
SavesUnderWay ==
    /\ AreSaves
    /\ "db" \notin ended => Handled \cup Delivered \cup Queued = DOMAIN saves
    /\ ended = {} => sending

\* db_server::get_all: a user who is loaded has the position and the items that the
\* saves handled so far add up to, in the order in which the db server has handled
\* them, whatever the database refused and however many logins of the user
\* overlap.  The order in which they were made is another thing.
LoadsAddUpSaves ==
    \A m \in InfosUnderWay :
        /\ m.pos = PosAfter(m.usr, applied, m.age)
        /\ \A i \in Items : m.items[i] = CountAfter(m.usr, i, applied, m.age)

\* login_server::login_success answers the connection that asked last, with the
\* answer that comes first.  A connection that asks while no other login of
\* the user is under way gets an answer with every save that the db server had
\* handled when it asked; or that of another user, if it got the descriptor of
\* a connection that asked for them and left.
LoneLoginUpToDate ==
    \A c \in Clients :
        asks[c] # None /\ asks[c].alone /\ answered[c] # None =>
            (answered[c].usr = asks[c].usr => answered[c].age >= asks[c].applied)

\* login_server::m_waitverify keeps a password per user, not per request.  A wrong
\* one does not outlive the requests it came with: while it waits, the db
\* server's answer that will clear it is still to come, as long as there is a
\* db server.  So it cannot spoil a later request with the right password.
NoWrongPasswordLeft ==
    running => \A u \in Users :
        m_waitverify[u] = "wrong" =>
            \/ \E q \in loginToDb : q.usr = u /\ q.type = "GETPASS"
            \/ \E p \in passwords : p.usr = u

\* login_server::login_verify: nobody is loaded, or in the game, for whom no
\* connection gave the right password.
PasswordBeforePlayer ==
    \A u \in Users :
        (\E m \in InfosUnderWay : m.usr = u) \/ m_players[u] # None =>
            \E c \in Clients : asks[c] # None /\ asks[c].usr = u /\ asks[c].pass = "right"

\* Inventory and game_server::usr_exit: the counts of a user in the game who was
\* loaded with what all saves come to are what the saves come to later on, in
\* the order in which they were made, but for items that were added to, or whose
\* last was taken, since their last save, and for those that found no room in
\* the bag.  Whether the saves get to the database, and in that order, is
\* another matter.
OnlyKnownItemsUnsaved ==
    \A u \in fresh :
        m_players[u] # None =>
            \A i \in Items \ unsaved[u] :
                m_players[u].inv.m_mItems[i] = CountAfter(u, i, saves, Len(saves))

\* "For now all items are saved at once, so only the player need be saved" (the
\* comment in game_server::usr_exit): while a user plays who was loaded with
\* every save, the saves add up to the items.
ItemsSavedAtOnce ==
    \A u \in fresh :
        m_players[u] # None =>
            \A i \in m_players[u].inv.m_baseBag :
                m_players[u].inv.m_mItems[i] = CountAfter(u, i, saves, Len(saves))
=============================================================================
