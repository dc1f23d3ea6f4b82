------------------------------ MODULE DbServer ------------------------------
(***************************************************************************)
(* The db server (src/ServerDB/db_server.cpp): one thread that answers the *)
(* requests of the login and game servers out of caches, which it fills    *)
(* from the database when a user is first asked for and never empties.  A  *)
(* row is the value of its changing columns; the columns by which an       *)
(* UPDATE finds its row (ids, names) never change.  One step is one        *)
(* request with the statements it makes.  A request that is refused with   *)
(* DB_FAILED, or not answered, changes nothing and is no step.             *)
(***************************************************************************)
CONSTANTS Users, Items, Values,
          None,           \* no such row, or nothing cached
          Registered,     \* the users with a row in the table PASS
          FailingSelects  \* the tables whose SELECT may fail

ASSUME DbAssumption ==
    /\ None \notin Values
    /\ None \notin [Items -> Values \cup {None}]
    /\ Registered \subseteq Users
    /\ FailingSelects \subseteq {"PASS", "PLAYER", "ITEM"}

VARIABLES PLAYER, ITEM,   \* the tables of the database
          m_passdb,       \* the users whose password is cached
          m_playerdb,     \* the cached row of each user, or None
          m_itemdb,       \* the cached items of each user, or None
          running,        \* the process is there
          reply,          \* user, player and items of the last GET_ALLINFO sent
          missedPlayers, missedItems  \* cached rows whose last UPDATE failed twice

tables == <<PLAYER, ITEM>>
caches == <<m_passdb, m_playerdb, m_itemdb>>
missed == <<missedPlayers, missedItems>>
vars == <<PLAYER, ITEM, m_passdb, m_playerdb, m_itemdb, running, reply, missedPlayers, missedItems>>

Rows == Values \cup {None}
Bags == [Items -> Rows]
NoItems == [i \in Items |-> None]

-----------------------------------------------------------------------------
(* Reading.                                                                *)

\* get_player_from_sql: a SELECT that fails looks like one that finds nothing.
PlayerShown(u) ==
    IF m_playerdb[u] # None THEN {m_playerdb[u]}
    ELSE {PLAYER[u]} \cup (IF "PLAYER" \in FailingSelects THEN {None} ELSE {})

\* Faulty variant: no map is made for a user without items.
ItemsShownOrNone(u) ==
    IF m_itemdb[u] # None THEN {m_itemdb[u]}
    ELSE {IF ITEM[u] = NoItems THEN None ELSE ITEM[u]}

\* get_player_allitems_from_sql: nothing found is cached as an empty map.
ItemsShown(u) ==
    IF m_itemdb[u] # None THEN {m_itemdb[u]}
    ELSE {ITEM[u]} \cup (IF "ITEM" \in FailingSelects THEN {NoItems} ELSE {})

GetAll(u) ==
    /\ running
    /\ \E p \in PlayerShown(u) \ {None}, b \in ItemsShown(u) :
          /\ m_playerdb' = [m_playerdb EXCEPT ![u] = p]
          /\ m_itemdb' = [m_itemdb EXCEPT ![u] = b]
          /\ reply' = <<u, p, b>>
    /\ UNCHANGED <<tables, m_passdb, running, missed>>

GetPass(u) ==
    /\ running
    /\ u \in Registered
    /\ m_passdb' = m_passdb \cup {u}
    /\ UNCHANGED <<tables, m_playerdb, m_itemdb, running, reply, missed>>

\* Nothing found for a user that is not cached: get_pass sends DB_FAILED, and
\* goes on to the first element of the empty vector, at address zero.
GetPassFails(u) ==
    /\ running
    /\ u \notin m_passdb
    /\ u \notin Registered \/ "PASS" \in FailingSelects
    /\ running' = FALSE
    /\ UNCHANGED <<tables, caches, reply, missed>>

-----------------------------------------------------------------------------
(* Writing.                                                                *)

\* Faulty variant: there is no second try.
TriesOnce == {<<"done">>, <<"failed">>, <<"unclear">>}

\* The UPDATEs of one write: a second one when the first reports a failure.
\* An "unclear" one was done, but the answer was lost.
Tries ==
    {<<"done">>} \cup ({"failed", "unclear"} \X {"done", "failed", "unclear"})

Applied(t) == \E k \in DOMAIN t : t[k] # "failed"

GivenUp(t) == t = <<"failed", "failed">>

\* Faulty variant: only the database gets the new row.
SetPlayerInTable(u, v) ==
    /\ running
    /\ m_playerdb[u] # None
    /\ PLAYER' = [PLAYER EXCEPT ![u] = v]
    /\ UNCHANGED <<ITEM, caches, running, reply, missed>>

\* The cache takes the new row whatever became of the UPDATE.
SetPlayer(u, v) ==
    /\ running
    /\ m_playerdb[u] # None
    /\ \E t \in Tries :
          /\ PLAYER' = IF Applied(t) THEN [PLAYER EXCEPT ![u] = v] ELSE PLAYER
          /\ missedPlayers' = IF GivenUp(t) THEN missedPlayers \cup {u} ELSE missedPlayers \ {u}
    /\ m_playerdb' = [m_playerdb EXCEPT ![u] = v]
    /\ UNCHANGED <<ITEM, m_passdb, m_itemdb, running, reply, missedItems>>

SetItem(u, i, v) ==
    /\ running
    /\ m_itemdb[u] # None
    /\ m_itemdb[u][i] # None
    /\ \E t \in Tries :
          /\ ITEM' = IF Applied(t) THEN [ITEM EXCEPT ![u][i] = v] ELSE ITEM
          /\ missedItems' = IF GivenUp(t) THEN missedItems \cup {<<u, i>>}
                                          ELSE missedItems \ {<<u, i>>}
    /\ m_itemdb' = [m_itemdb EXCEPT ![u][i] = v]
    /\ UNCHANGED <<PLAYER, m_passdb, m_playerdb, running, reply, missedPlayers>>

-----------------------------------------------------------------------------
(* The process.                                                            *)

Crash ==
    /\ running
    /\ running' = FALSE
    /\ UNCHANGED <<tables, caches, reply, missed>>

\* Started again by hand, with empty caches.
Start ==
    /\ ~running
    /\ running' = TRUE
    /\ m_passdb' = {}
    /\ m_playerdb' = [u \in Users |-> None]
    /\ m_itemdb' = [u \in Users |-> None]
    /\ missedPlayers' = {} /\ missedItems' = {}
    /\ UNCHANGED <<tables, reply>>

Init ==
    /\ PLAYER \in [Users -> Rows]
    /\ ITEM \in [Users -> Bags]
    /\ m_passdb = {}
    /\ m_playerdb = [u \in Users |-> None]
    /\ m_itemdb = [u \in Users |-> None]
    /\ running = TRUE
    /\ reply = None
    /\ missedPlayers = {} /\ missedItems = {}

Next ==
    \/ \E u \in Users :
          \/ GetAll(u) \/ GetPass(u) \/ GetPassFails(u)
          \/ \E v \in Values : SetPlayer(u, v) \/ (\E i \in Items : SetItem(u, i, v))
    \/ Crash \/ Start

Spec == Init /\ [][Next]_vars

-----------------------------------------------------------------------------
(* Properties.                                                             *)

DbTypeOK ==
    /\ PLAYER \in [Users -> Rows] /\ ITEM \in [Users -> Bags]
    /\ m_passdb \subseteq Registered
    /\ m_playerdb \in [Users -> Rows] /\ m_itemdb \in [Users -> Bags \cup {None}]
    /\ running \in BOOLEAN
    /\ reply \in (Users \X Values \X Bags) \cup {None}
    /\ missedPlayers \subseteq Users /\ missedItems \subseteq Users \X Items

\* db_server's caches show what is in the database, through lost answers and
\* repeated UPDATEs, but for a row whose last UPDATE was refused both times: a
\* later write that succeeds, or a restart, brings the two together again.
CacheIsDatabase ==
    \A u \in Users :
        /\ m_playerdb[u] # None /\ u \notin missedPlayers => m_playerdb[u] = PLAYER[u]
        /\ m_itemdb[u] # None =>
              \A i \in Items :
                  m_itemdb[u][i] # None /\ <<u, i>> \notin missedItems =>
                      m_itemdb[u][i] = ITEM[u][i]

\* The db server is the store the other servers expect, in spite of its caches
\* and of UPDATEs that fail, as long as no SELECT of items fails: each
\* GET_ALLINFO shows the last SETPLAYER and the last SETITEM of each item, and
\* only a restart may go back to older rows.
Store == INSTANCE PlayerStore WITH
    player <- [u \in Users |-> IF running /\ m_playerdb[u] # None THEN m_playerdb[u] ELSE PLAYER[u]],
    items <- [u \in Users |-> IF running /\ m_itemdb[u] # None THEN m_itemdb[u] ELSE ITEM[u]],
    savedPlayer <- PLAYER,
    savedItems <- ITEM,
    answer <- reply

ImplementsStore == Store!Spec

\* "Empty when there are no items" (the comment where get_player_allitems_from_sql
\* caches the map): a player whose items are cached as none has none.
EmptyBagMeansNoItems ==
    \A u \in Users : m_itemdb[u] = NoItems => ITEM[u] = NoItems
=============================================================================
