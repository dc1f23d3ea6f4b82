--------------------------- MODULE DbServerProofs ---------------------------
(***************************************************************************)
(* Theorems about DbServer: for any users, items and values, its caches    *)
(* agree with the database, and it implements PlayerStore.                 *)
(***************************************************************************)
EXTENDS DbServer, TLAPS

\* What the write handlers rely on: both tries apply the row, or were given up.
LEMMA TriesCase == ASSUME NEW t \in Tries PROVE Applied(t) \/ GivenUp(t)
<1>1. CASE t = <<"done">>
  BY <1>1 DEF Applied
<1>2. CASE t # <<"done">>
  <2>1. PICK a \in {"failed", "unclear"}, b \in {"done", "failed", "unclear"} : t = <<a, b>>
    BY <1>2 DEF Tries
  <2> QED BY <2>1 DEF Applied, GivenUp
<1> QED BY <1>1, <1>2

\* No value is None, and neither is a bag of items.
LEMMA NotNone == None \notin Values /\ None \notin Bags /\ NoItems \in Bags
BY DbAssumption DEF Bags, Rows, NoItems

-----------------------------------------------------------------------------
(* Types.                                                                  *)

LEMMA InitTypes == Init => DbTypeOK
BY NotNone DEF Init, DbTypeOK, Rows

LEMMA NextTypes == DbTypeOK /\ [Next]_vars => DbTypeOK'
<1> SUFFICES ASSUME DbTypeOK, [Next]_vars PROVE DbTypeOK'
  OBVIOUS
<1> USE DEF DbTypeOK, tables, caches, missed, Rows
<1>1. ASSUME NEW u \in Users, GetAll(u) PROVE DbTypeOK'
  <2>1. PICK p \in PlayerShown(u) \ {None}, b \in ItemsShown(u) :
          /\ m_playerdb' = [m_playerdb EXCEPT ![u] = p]
          /\ m_itemdb' = [m_itemdb EXCEPT ![u] = b]
          /\ reply' = <<u, p, b>>
    BY <1>1 DEF GetAll
  <2>2. p \in Values
    BY DEF PlayerShown
  <2>3. b \in Bags
    BY NotNone DEF ItemsShown
  <2> QED BY <1>1, <2>1, <2>2, <2>3 DEF GetAll
<1>2. ASSUME NEW u \in Users, GetPass(u) PROVE DbTypeOK'
  BY <1>2 DEF GetPass
<1>3. ASSUME NEW u \in Users, GetPassFails(u) PROVE DbTypeOK'
  BY <1>3 DEF GetPassFails
<1>4. ASSUME NEW u \in Users, NEW v \in Values, SetPlayer(u, v) PROVE DbTypeOK'
  BY <1>4 DEF SetPlayer
<1>5. ASSUME NEW u \in Users, NEW i \in Items, NEW v \in Values, SetItem(u, i, v) PROVE DbTypeOK'
  <2>1. m_itemdb[u] \in Bags /\ ITEM[u] \in Bags
    BY <1>5 DEF SetItem
  <2>2. [m_itemdb[u] EXCEPT ![i] = v] \in Bags /\ [ITEM[u] EXCEPT ![i] = v] \in Bags
    BY <2>1 DEF Bags
  <2>3. m_itemdb' \in [Users -> Bags \cup {None}] /\ ITEM' \in [Users -> Bags]
    BY <1>5, <2>2 DEF SetItem
  <2> QED BY <1>5, <2>3 DEF SetItem
<1>6. CASE Crash
  BY <1>6 DEF Crash
<1>7. CASE Start
  BY <1>7 DEF Start
<1>8. CASE UNCHANGED vars
  BY <1>8 DEF vars
<1> QED BY <1>1, <1>2, <1>3, <1>4, <1>5, <1>6, <1>7, <1>8 DEF Next

\* db_server's tables, caches and messages have their types; what it sends in
\* answer to a GET_ALLINFO always holds a player and a map of items.
THEOREM DbTypes == Spec => []DbTypeOK
BY InitTypes, NextTypes, PTL DEF Spec

-----------------------------------------------------------------------------
(* The caches.                                                             *)

LEMMA NextCaches == DbTypeOK /\ CacheIsDatabase /\ [Next]_vars => CacheIsDatabase'
<1> SUFFICES ASSUME DbTypeOK, CacheIsDatabase, [Next]_vars PROVE CacheIsDatabase'
  OBVIOUS
<1> USE DEF DbTypeOK, CacheIsDatabase, tables, caches, missed
<1>1. ASSUME NEW u \in Users, GetAll(u) PROVE CacheIsDatabase'
  <2>1. PICK p \in PlayerShown(u) \ {None}, b \in ItemsShown(u) :
          /\ m_playerdb' = [m_playerdb EXCEPT ![u] = p]
          /\ m_itemdb' = [m_itemdb EXCEPT ![u] = b]
    BY <1>1 DEF GetAll
  <2>2. m_playerdb[u] = None => p = PLAYER[u]
    BY DEF PlayerShown
  <2>3. m_playerdb[u] # None => p = m_playerdb[u]
    BY DEF PlayerShown
  <2>4. m_itemdb[u] = None => b = ITEM[u] \/ b = NoItems
    BY DEF ItemsShown
  <2>5. m_itemdb[u] # None => b = m_itemdb[u]
    BY DEF ItemsShown
  <2>6. \A i \in Items : NoItems[i] = None
    BY DEF NoItems
  <2> QED BY <1>1, <2>1, <2>2, <2>3, <2>4, <2>5, <2>6 DEF GetAll
<1>2. ASSUME NEW u \in Users, GetPass(u) PROVE CacheIsDatabase'
  BY <1>2 DEF GetPass
<1>3. ASSUME NEW u \in Users, GetPassFails(u) PROVE CacheIsDatabase'
  BY <1>3 DEF GetPassFails
<1>4. ASSUME NEW u \in Users, NEW v \in Values, SetPlayer(u, v) PROVE CacheIsDatabase'
  <2>1. PICK t \in Tries :
          /\ PLAYER' = IF Applied(t) THEN [PLAYER EXCEPT ![u] = v] ELSE PLAYER
          /\ missedPlayers' = IF GivenUp(t) THEN missedPlayers \cup {u} ELSE missedPlayers \ {u}
    BY <1>4 DEF SetPlayer
  <2>2. Applied(t) \/ GivenUp(t)
    BY TriesCase
  <2> QED BY <1>4, <2>1, <2>2 DEF SetPlayer
<1>5. ASSUME NEW u \in Users, NEW i \in Items, NEW v \in Values, SetItem(u, i, v)
      PROVE CacheIsDatabase'
  <2>1. PICK t \in Tries :
          /\ ITEM' = IF Applied(t) THEN [ITEM EXCEPT ![u][i] = v] ELSE ITEM
          /\ missedItems' = IF GivenUp(t) THEN missedItems \cup {<<u, i>>}
                                          ELSE missedItems \ {<<u, i>>}
    BY <1>5 DEF SetItem
  <2>2. Applied(t) \/ GivenUp(t)
    BY TriesCase
  <2>3. m_itemdb[u] \in Bags /\ m_itemdb[u] # None /\ ITEM[u] \in Bags
    BY <1>5 DEF SetItem
  <2>4. \A w \in Users, j \in Items :
          m_itemdb'[w] # None =>
            /\ m_itemdb[w] # None
            /\ m_itemdb'[w][j] = IF w = u /\ j = i THEN v ELSE m_itemdb[w][j]
    BY <1>5, <2>3 DEF SetItem, Bags
  <2>5. \A w \in Users, j \in Items :
          ITEM'[w][j] = IF w = u /\ j = i /\ Applied(t) THEN v ELSE ITEM[w][j]
    BY <2>1, <2>3 DEF Bags
  <2>6. \A w \in Users, j \in Items :
          <<w, j>> \notin missedItems' =>
            (w = u /\ j = i /\ ~GivenUp(t)) \/ <<w, j>> \notin missedItems
    BY <2>1
  <2>7. GivenUp(t) => <<u, i>> \in missedItems'
    BY <2>1
  <2>8. ASSUME NEW w \in Users, NEW j \in Items, m_itemdb'[w] # None,
               m_itemdb'[w][j] # None, <<w, j>> \notin missedItems'
        PROVE m_itemdb'[w][j] = ITEM'[w][j]
    <3>1. CASE w = u /\ j = i
      BY <2>2, <2>4, <2>5, <2>7, <2>8, <3>1
    <3>2. CASE ~(w = u /\ j = i)
      BY <2>4, <2>5, <2>6, <2>8, <3>2
    <3> QED BY <3>1, <3>2
  <2> QED BY <1>5, <2>8 DEF SetItem
<1>6. CASE Crash
  BY <1>6 DEF Crash
<1>7. CASE Start
  BY <1>7 DEF Start
<1>8. CASE UNCHANGED vars
  BY <1>8 DEF vars
<1> QED BY <1>1, <1>2, <1>3, <1>4, <1>5, <1>6, <1>7, <1>8 DEF Next

\* db_server's caches agree with the database but for rows whose last UPDATE was
\* refused twice, however statements fail and whenever the process restarts.
THEOREM CachesAgree == Spec => []CacheIsDatabase
<1>1. Init => CacheIsDatabase
  BY DEF Init, CacheIsDatabase
<1> QED BY <1>1, DbTypes, NextCaches, PTL DEF Spec

-----------------------------------------------------------------------------
(* The store.                                                              *)

PlayerNow == [u \in Users |-> IF running /\ m_playerdb[u] # None THEN m_playerdb[u] ELSE PLAYER[u]]
ItemsNow == [u \in Users |-> IF running /\ m_itemdb[u] # None THEN m_itemdb[u] ELSE ITEM[u]]

\* db_server implements the store without caches, as long as no SELECT of items
\* fails: a read shows the last writes, and only a restart shows older rows.
THEOREM StoreImplemented ==
    ASSUME "ITEM" \notin FailingSelects
    PROVE  Spec => ImplementsStore
<1> USE DEF tables, caches, missed
<1>1. Init => Store!Init
  BY DEF Init, Store!Init, Store!Rows, Store!Bags, Rows, Bags
<1>2. DbTypeOK /\ [Next]_vars => [Store!Next]_(Store!vars)
  <2> SUFFICES ASSUME DbTypeOK, [Next]_vars PROVE [Store!Next]_(Store!vars)
    OBVIOUS
  <2> USE DEF DbTypeOK
  <2>1. ASSUME NEW u \in Users, GetAll(u) PROVE Store!Next
    <3>1. PICK p \in PlayerShown(u) \ {None}, b \in ItemsShown(u) :
            /\ m_playerdb' = [m_playerdb EXCEPT ![u] = p]
            /\ m_itemdb' = [m_itemdb EXCEPT ![u] = b]
            /\ reply' = <<u, p, b>>
      BY <2>1 DEF GetAll
    <3>2. running /\ UNCHANGED <<PLAYER, ITEM, running>>
      BY <2>1 DEF GetAll
    <3>3. p = PlayerNow[u] /\ p # None
      BY <3>2 DEF PlayerShown, PlayerNow
    <3>4. b = ItemsNow[u] /\ b # None
      BY <3>2, NotNone DEF ItemsShown, ItemsNow
    <3>5. PlayerNow' = PlayerNow
      BY <3>1, <3>2, <3>3 DEF PlayerNow
    <3>6. ItemsNow' = ItemsNow
      BY <3>1, <3>2, <3>4 DEF ItemsNow
    <3>7. Store!Read(u)
      BY <3>1, <3>2, <3>3, <3>4, <3>5, <3>6 DEF Store!Read, PlayerNow, ItemsNow
    <3> QED BY <3>7 DEF Store!Next
  <2>2. ASSUME NEW u \in Users, GetPass(u) PROVE UNCHANGED Store!vars
    BY <2>2 DEF GetPass, Store!vars
  <2>3. ASSUME NEW u \in Users, GetPassFails(u) PROVE Store!Next
    BY <2>3 DEF GetPassFails, Store!Next, Store!Restart
  <2>4. ASSUME NEW u \in Users, NEW v \in Values, SetPlayer(u, v) PROVE Store!Next
    <3>1. /\ running /\ m_playerdb[u] # None
          /\ m_playerdb' = [m_playerdb EXCEPT ![u] = v]
          /\ PLAYER' \in {PLAYER, [PLAYER EXCEPT ![u] = v]}
          /\ UNCHANGED <<ITEM, m_itemdb, running, reply>>
      BY <2>4 DEF SetPlayer
    <3>2. PlayerNow' = [PlayerNow EXCEPT ![u] = v]
      BY <3>1, NotNone DEF PlayerNow
    <3>3. Store!WritePlayer(u, v)
      BY <3>1, <3>2 DEF Store!WritePlayer, PlayerNow
    <3> QED BY <3>3 DEF Store!Next
  <2>5. ASSUME NEW u \in Users, NEW i \in Items, NEW v \in Values, SetItem(u, i, v)
        PROVE Store!Next
    <3>1. /\ running /\ m_itemdb[u] # None /\ m_itemdb[u][i] # None
          /\ m_itemdb' = [m_itemdb EXCEPT ![u][i] = v]
          /\ ITEM' \in {ITEM, [ITEM EXCEPT ![u][i] = v]}
          /\ UNCHANGED <<PLAYER, m_playerdb, running, reply>>
      BY <2>5 DEF SetItem
    <3>2. m_itemdb[u] \in Bags /\ [m_itemdb[u] EXCEPT ![i] = v] \in Bags
      BY <3>1 DEF Bags, Rows
    <3>3. ItemsNow' = [ItemsNow EXCEPT ![u][i] = v]
      BY <3>1, <3>2, NotNone DEF ItemsNow
    <3>4. Store!WriteItem(u, i, v)
      BY <3>1, <3>3 DEF Store!WriteItem, ItemsNow
    <3> QED BY <3>4 DEF Store!Next
  <2>6. CASE Crash
    BY <2>6 DEF Crash, Store!Next, Store!Restart
  <2>7. CASE Start
    BY <2>7 DEF Start, Store!vars
  <2>8. CASE UNCHANGED vars
    BY <2>8 DEF vars, Store!vars
  <2> QED BY <2>1, <2>2, <2>3, <2>4, <2>5, <2>6, <2>7, <2>8 DEF Next
<1> QED BY <1>1, <1>2, DbTypes, PTL DEF Spec, ImplementsStore, Store!Spec
=============================================================================
