--------------------------- MODULE SessionsProofs ---------------------------
(***************************************************************************)
(* Theorems about Sessions: for any users, clients, items and bounds, the  *)
(* login and game servers and the db server keep passwords, saves and      *)
(* loads together, whatever the database refuses, whatever connection ends *)
(* and in whatever order the receive queues hand out their messages.       *)
(***************************************************************************)
EXTENDS Sessions, Counting

-----------------------------------------------------------------------------
(* Types.                                                                  *)

ItemRows == [Items -> Counts \cup {None}]

InfoMsgs ==
    [type : {"GET_ALLINFO"}, usr : Users, from : Clients, pos : Nat, items : ItemRows, age : Nat]

ClientMsgs ==
    [type : {"USERUP"}, usr : Users, n : Nat, pos : Positions]
    \cup [type : {"USEREXIT"}, usr : Users, n : Nat]
    \cup [type : {"ITEMEVENT"}, usr : Users, n : Nat, item : Items,
          optype : {"add", "del", "use", "equip", "unequip"}, count : Nat]

SaveMsgs ==
    [type : {"SETPLAYER"}, usr : Users, to : {"db"}, pos : Nat, n : Nat]
    \cup [type : {"SETITEM"}, usr : Users, to : {"db"}, item : Items, count : Counts, n : Nat]

SendMsgs == SaveMsgs \cup [type : {"USERSYNC", "USEREXIT"}, usr : Users, to : {"gate"}]

PlayerRecords == [pos : Nat, inv : Inventories]

GameTypes ==
    /\ m_players \in [Users -> PlayerRecords \cup {None}]
    /\ fromGate \subseteq InfoMsgs \cup ClientMsgs
    /\ g_send_queue \in Seq(SendMsgs) /\ Len(g_send_queue) <= SendSlots
    /\ toDb \subseteq SaveMsgs
    /\ m_connections \subseteq Servers /\ ended \subseteq Servers
    /\ sending \in BOOLEAN /\ gameRunning \in BOOLEAN
    /\ saves \in Seq(SaveMsgs)

Requests == [usr : Users, pass : Passwords, from : Clients, m_from : Fds]
Questions == [type : {"GETPASS", "GET_ALLINFO"}, usr : Users, from : Clients]
Verdicts == [usr : Users, from : Clients]

LoginTypes ==
    /\ LoginTypeOK
    /\ requests \subseteq Requests /\ loginToDb \subseteq Questions /\ passwords \subseteq Verdicts
    /\ infos \subseteq InfoMsgs /\ toGateServer \subseteq InfoMsgs
    /\ answered \in [Clients -> InfoMsgs \cup {None}]

DbTypes ==
    /\ PLAYER \in [Users -> Nat] /\ ITEM \in [Users -> ItemRows]
    /\ m_playerdb \in [Users -> Nat \cup {None}]
    /\ m_itemdb \in [Users -> ItemRows \cup {None}]
    /\ running \in BOOLEAN

AskTypes == [usr : Users, pass : Passwords, applied : Nat, alone : BOOLEAN]

HistoryTypes ==
    /\ online \subseteq Users /\ fresh \subseteq Users /\ ops \in Nat
    /\ asks \in [Clients -> AskTypes \cup {None}]
    /\ applied \in Seq(SaveMsgs)
    /\ unsaved \in [Users -> SUBSET Items]

\* The db server's connection is lost with the server only, and the game server
\* erases no connection that is there, nor does its send thread end before one is
\* gone.
ConnInv ==
    /\ running <=> "db" \notin ended
    /\ Servers \ ended \subseteq m_connections
    /\ ended = {} => sending

TypeInv == GameTypes /\ LoginTypes /\ DbTypes /\ HistoryTypes /\ ConnInv

-----------------------------------------------------------------------------
(* What operations on items do.                                            *)

LEMMA InitInventoryFacts ==
    ASSUME NEW counts \in ItemRows, NEW inv \in InitInventory(counts)
    PROVE  /\ inv \in Inventories
           /\ inv.m_baseBag \subseteq Present(counts)
           /\ \A i \in Items :
                 inv.m_mItems[i] = IF i \in inv.m_baseBag THEN counts[i] ELSE None
<1>1. PICK K \in SUBSET Present(counts) :
         inv = [m_mItems |-> [i \in Items |-> IF i \in K THEN counts[i] ELSE None],
                m_baseBag |-> K]
  BY DEF InitInventory
<1>2. [i \in Items |-> IF i \in K THEN counts[i] ELSE None] \in ItemRows
  BY DEF ItemRows
<1> QED BY <1>1, <1>2 DEF Inventories, ItemRows, Present

OpTypes == {"add", "del", "use", "equip", "unequip"}

Outcomes == [inv : Inventories, ok : BOOLEAN, saved : SUBSET Items, crash : BOOLEAN]

\* What an outcome o of an operation on item i of the inventory inv keeps.
GoodOutcome(inv, optype, i, o) ==
    /\ o \in Outcomes
    /\ o.saved # {} => Has(o.inv, i)
    /\ o.saved = {} => o.inv.m_mItems = inv.m_mItems \/ optype = "add" \/ ~Has(o.inv, i)
    /\ \A j \in Items \ {i} : o.inv.m_mItems[j] = inv.m_mItems[j]
    /\ o.crash => o.inv = inv /\ ~(inv.m_baseBag \subseteq Present(inv.m_mItems))

LEMMA RefusedGood ==
    ASSUME NEW inv \in Inventories, NEW i \in Items, NEW optype, NEW o \in Refused(inv)
    PROVE  GoodOutcome(inv, optype, i, o)
<1>1. o = [inv |-> inv, ok |-> FALSE, saved |-> {}, crash |-> FALSE]
  BY DEF Refused, Outcome
<1> QED BY <1>1 DEF GoodOutcome, Outcomes

LEMMA AddGood ==
    ASSUME NEW inv \in Inventories, NEW i \in Items, NEW n \in Nat, NEW o \in addItem(inv, i, n)
    PROVE  GoodOutcome(inv, "add", i, o)
<1>1. CASE Has(inv, i) /\ isStack(i)
  <2> DEFINE new == [inv EXCEPT !.m_mItems[i] = @ + n]
  <2>1. o = [inv |-> new, ok |-> TRUE, saved |-> {}, crash |-> FALSE]
    BY <1>1 DEF addItem, Outcome
  <2>2. inv.m_mItems[i] + n \in Counts
    BY <1>1 DEF Inventories, Counts, Has
  <2>3. /\ new \in Inventories
        /\ \A j \in Items \ {i} : new.m_mItems[j] = inv.m_mItems[j]
    BY <2>2 DEF Inventories
  <2> QED BY <2>1, <2>3 DEF GoodOutcome, Outcomes
<1>2. CASE ~(Has(inv, i) /\ isStack(i))
  BY <1>2, RefusedGood DEF addItem
<1> QED BY <1>1, <1>2

LEMMA DelGood ==
    ASSUME NEW inv \in Inventories, NEW i \in Items, NEW n \in Nat, NEW optype,
           NEW o \in delItem(inv, i, n)
    PROVE  GoodOutcome(inv, optype, i, o)
<1>1. CASE ~Has(inv, i)
  BY <1>1, RefusedGood DEF delItem
<1>2. CASE Has(inv, i) /\ n < inv.m_mItems[i]
  <2> DEFINE new == [inv EXCEPT !.m_mItems[i] = @ - n]
  <2>1. o = [inv |-> new, ok |-> TRUE, saved |-> {i}, crash |-> FALSE]
    BY <1>2 DEF delItem, Outcome
  <2>2. inv.m_mItems[i] - n \in Counts
    BY <1>2 DEF Inventories, Counts, Has
  <2>3. /\ new \in Inventories /\ new.m_mItems[i] \in Counts
        /\ \A j \in Items \ {i} : new.m_mItems[j] = inv.m_mItems[j]
    BY <2>2 DEF Inventories
  <2>4. Has(new, i)
    BY <2>3, InventoryAssumption DEF Has, Counts
  <2> HIDE DEF new
  <2> QED BY <2>1, <2>3, <2>4 DEF GoodOutcome, Outcomes
<1>3. CASE Has(inv, i) /\ ~(n < inv.m_mItems[i])
  <2>1. PICK bag \in {inv.m_baseBag, inv.m_baseBag \ {i}} :
           o = [inv |-> [m_mItems |-> [inv.m_mItems EXCEPT ![i] = None], m_baseBag |-> bag],
                ok |-> TRUE, saved |-> {}, crash |-> FALSE]
    BY <1>3 DEF delItem, Outcome
  <2> DEFINE new == [m_mItems |-> [inv.m_mItems EXCEPT ![i] = None], m_baseBag |-> bag]
  <2>2. /\ new \in Inventories /\ new.m_mItems[i] = None
        /\ \A j \in Items \ {i} : new.m_mItems[j] = inv.m_mItems[j]
    BY DEF Inventories
  <2>3. ~Has(new, i)
    BY <2>2 DEF Has
  <2> HIDE DEF new
  <2> QED BY <2>1, <2>2, <2>3 DEF GoodOutcome, Outcomes, new
<1> QED BY <1>1, <1>2, <1>3

LEMMA EquipGood ==
    ASSUME NEW inv \in Inventories, NEW i \in Items, NEW optype, NEW o \in equipItem(inv, i)
    PROVE  GoodOutcome(inv, optype, i, o)
<1>1. CASE i \in inv.m_baseBag
  <2> DEFINE down == ~Has(inv, i) \/ \E n \in Visited(inv, i) : ~Has(inv, n)
  <2>1. o = [inv |-> inv, ok |-> FALSE, saved |-> {}, crash |-> down]
    BY <1>1 DEF equipItem, Outcome
  <2>2. down => \E n \in inv.m_baseBag : ~Has(inv, n)
    BY <1>1 DEF Visited
  <2>3. down => ~(inv.m_baseBag \subseteq Present(inv.m_mItems))
    BY <2>2 DEF Has, Present
  <2>4. down \in BOOLEAN
    OBVIOUS
  <2> HIDE DEF down
  <2> QED BY <2>1, <2>3, <2>4 DEF GoodOutcome, Outcomes
<1>2. CASE i \notin inv.m_baseBag
  BY <1>2, RefusedGood DEF equipItem
<1> QED BY <1>1, <1>2

LEMMA UpdateGood ==
    ASSUME NEW inv \in Inventories, NEW i \in Items, NEW n \in Nat, NEW optype \in OpTypes,
           NEW o \in update_item(inv, optype, i, n)
    PROVE  GoodOutcome(inv, optype, i, o)
<1>1. CASE optype = "add"
  BY <1>1, AddGood DEF update_item
<1>2. CASE optype = "del"
  BY <1>2, DelGood DEF update_item
<1>3. CASE optype = "use"
  <2>1. o \in useItem(inv, i)
    BY <1>3 DEF update_item
  <2> QED BY <2>1, DelGood, RefusedGood DEF useItem
<1>4. CASE optype = "equip"
  BY <1>4, EquipGood DEF update_item
<1>5. CASE optype = "unequip"
  BY <1>5, RefusedGood DEF update_item
<1> QED BY <1>1, <1>2, <1>3, <1>4, <1>5 DEF OpTypes

-----------------------------------------------------------------------------
(* What a step of the game server's thread does to a message it handles.   *)

LEMMA MsgTypes ==
    ASSUME NEW m \in InfoMsgs \cup ClientMsgs
    PROVE  /\ m.type \in {"GET_ALLINFO", "USERUP", "USEREXIT", "ITEMEVENT"}
           /\ m.usr \in Users
           /\ m.type = "GET_ALLINFO" => m \in InfoMsgs
           /\ m.type = "USERUP" => m.pos \in Nat
           /\ m.type = "ITEMEVENT" => /\ m.item \in Items /\ m.optype \in OpTypes
                                      /\ m.count \in Nat
BY SessionAssumption DEF InfoMsgs, ClientMsgs, OpTypes

LEMMA SentTypes ==
    /\ SaveMsgs \subseteq SendMsgs /\ \A e \in SaveMsgs : e.to = "db" /\ e.n \in Nat
    /\ \A e \in SendMsgs : /\ e.to \in Servers
                           /\ e.to = "db" => e \in SaveMsgs
    /\ \A u \in Users, type \in {"USERSYNC", "USEREXIT"} :
          [type |-> type, usr |-> u, to |-> "gate"] \in SendMsgs
BY DEF SaveMsgs, SendMsgs, Servers

LEMMA SeqTypes ==
    ASSUME NEW S, NEW s \in Seq(S)
    PROVE  /\ Len(s) \in Nat
           /\ \A e \in S : Append(s, e) \in Seq(S) /\ Len(Append(s, e)) = Len(s) + 1
           /\ s # <<>> => /\ Head(s) \in S /\ Tail(s) \in Seq(S)
                          /\ Len(Tail(s)) = Len(s) - 1 /\ Len(s) >= 1
OBVIOUS

LEMMA EnqueuesAre ==
    ASSUME g_send_queue \in Seq(SendMsgs), saves \in Seq(SaveMsgs),
           NEW e \in SaveMsgs, NEW f \in SendMsgs
    PROVE  /\ Enqueues(<<e>>, <<f>>) =>
                /\ Len(g_send_queue) + 2 <= SendSlots
                /\ g_send_queue' = Append(Append(g_send_queue, e), f)
                /\ saves' = Append(saves, e)
           /\ Enqueues(<<e>>, <<>>) =>
                /\ Len(g_send_queue) + 1 <= SendSlots
                /\ g_send_queue' = Append(g_send_queue, e)
                /\ saves' = Append(saves, e)
           /\ Enqueues(<<>>, <<f>>) =>
                /\ Len(g_send_queue) + 1 <= SendSlots
                /\ g_send_queue' = Append(g_send_queue, f)
                /\ saves' = saves
<1> DEFINE q == g_send_queue
<1>1. e \in SendMsgs /\ Len(<<e>>) = 1 /\ Len(<<f>>) = 1 /\ Len(<<>>) = 0
  BY SentTypes
<1>2. /\ q \o <<e>> = Append(q, e) /\ q \o <<f>> = Append(q, f)
      /\ saves \o <<e>> = Append(saves, e)
  BY <1>1, AppendIsConcat
<1>3. Append(q, e) \in Seq(SendMsgs) /\ Len(q) \in Nat
  BY <1>1, SeqTypes
<1>4. Append(q, e) \o <<f>> = Append(Append(q, e), f)
  <2> DEFINE r == Append(q, e)
  <2> HIDE DEF r
  <2>1. \A s \in Seq(SendMsgs) : s \o <<f>> = Append(s, f)
    BY AppendIsConcat
  <2>2. r \in Seq(SendMsgs)
    BY <1>3 DEF r
  <2>3. r \o <<f>> = Append(r, f)
    BY <2>1, <2>2
  <2> QED BY <2>3 DEF r
<1>5. q \o <<>> = q /\ saves \o <<>> = saves
  BY ConcatEmptySeq
<1>6. Append(q, e) \o <<>> = Append(q, e)
  BY <1>3, ConcatEmptySeq
<1>7. /\ q \o <<e>> \o <<f>> = Append(Append(q, e), f)
      /\ q \o <<e>> \o <<>> = Append(q, e)
      /\ q \o <<>> \o <<f>> = Append(q, f)
  <2> HIDE DEF q
  <2> QED BY <1>2, <1>4, <1>5, <1>6, Zenon
<1>8. /\ Len(q) + Len(<<e>>) + Len(<<f>>) = Len(q) + 2
      /\ Len(q) + Len(<<e>>) + Len(<<>>) = Len(q) + 1
      /\ Len(q) + Len(<<>>) + Len(<<f>>) = Len(q) + 1
  BY <1>1, <1>3
<1> QED BY <1>2, <1>5, <1>7, <1>8, Zenon DEF Enqueues

LEMMA EnqueuesNothing ==
    ASSUME g_send_queue \in Seq(SendMsgs), saves \in Seq(SaveMsgs), Enqueues(<<>>, <<>>)
    PROVE  g_send_queue' = g_send_queue /\ saves' = saves
<1>1. g_send_queue \o <<>> = g_send_queue /\ saves \o <<>> = saves
  BY ConcatEmptySeq
<1> QED BY <1>1 DEF Enqueues

HandledMsg(m) ==
    /\ gameRunning
    /\ m \in fromGate /\ fromGate' = fromGate \ {m}
    /\ UNCHANGED <<toDb, m_connections, ended, sending>>
    /\ UNCHANGED <<loginVars, dbVars, online, ops, asks, applied>>

Loaded(m) ==
    /\ m \in InfoMsgs /\ m_players[m.usr] = None
    /\ \E inv \in InitInventory(m.items) :
          /\ m_players' = [m_players EXCEPT ![m.usr] = [pos |-> m.pos, inv |-> inv]]
          /\ unsaved' = [unsaved EXCEPT ![m.usr] = Present(m.items) \ inv.m_baseBag]
    /\ fresh' = IF UpToDate(m) THEN fresh \cup {m.usr} ELSE fresh \ {m.usr}
    /\ UNCHANGED <<g_send_queue, gameRunning, saves>>

Ignored(m) == UNCHANGED <<m_players, g_send_queue, gameRunning, saves, fresh, unsaved>>

Exited(m) ==
    LET e == savePlayer(m.usr, m_players[m.usr].pos) IN
    /\ m_players[m.usr] # None
    /\ m_players' = [m_players EXCEPT ![m.usr] = None]
    /\ Len(g_send_queue) + 2 <= SendSlots
    /\ g_send_queue' = Append(Append(g_send_queue, e),
                              [type |-> "USEREXIT", usr |-> m.usr, to |-> "gate"])
    /\ saves' = Append(saves, e)
    /\ UNCHANGED <<gameRunning, fresh, unsaved>>

Moved(m) ==
    /\ m_players[m.usr] # None /\ m.pos \in Nat
    /\ m_players' = [m_players EXCEPT ![m.usr].pos = m.pos]
    /\ Len(g_send_queue) + 1 <= SendSlots
    /\ g_send_queue' = Append(g_send_queue, [type |-> "USERSYNC", usr |-> m.usr, to |-> "gate"])
    /\ UNCHANGED <<gameRunning, saves, fresh, unsaved>>

\* An item event that saves nothing, and one that saves the item.
Changed(m, o) ==
    /\ o.saved = {}
    /\ UNCHANGED <<g_send_queue, saves>>
    /\ unsaved' = [unsaved EXCEPT ![m.usr] =
                     IF m.optype = "add" \/ ~Has(o.inv, m.item) THEN @ \cup {m.item} ELSE @]

ChangedAndSaved(m, o) ==
    LET e == saveItem(m.usr, m.item, o.inv) IN
    /\ o.saved # {}
    /\ Len(g_send_queue) + 1 <= SendSlots
    /\ g_send_queue' = Append(g_send_queue, e)
    /\ saves' = Append(saves, e)
    /\ unsaved' = [unsaved EXCEPT ![m.usr] = @ \ {m.item}]

ItemUsed(m, o) ==
    /\ m_players[m.usr] # None /\ m.item \in Items
    /\ GoodOutcome(m_players[m.usr].inv, m.optype, m.item, o)
    /\ m_players' = [m_players EXCEPT ![m.usr].inv = o.inv]
    /\ gameRunning' \in BOOLEAN
    /\ gameRunning' \/ o.crash \/ ended # {}
    /\ Changed(m, o) \/ ChangedAndSaved(m, o)
    /\ UNCHANGED fresh

RunKinds(m) == Loaded(m) \/ Ignored(m) \/ Exited(m) \/ Moved(m) \/ \E o : ItemUsed(m, o)

LEMMA SaveTypes ==
    ASSUME NEW u \in Users, saves \in Seq(SaveMsgs)
    PROVE  /\ \A pos \in Nat : savePlayer(u, pos) \in SaveMsgs
           /\ \A inv \in Inventories, i \in Items : Has(inv, i) => saveItem(u, i, inv) \in SaveMsgs
<1>1. Len(saves) + 1 \in Nat
  BY SeqTypes
<1> QED BY <1>1 DEF Inventories, Has, savePlayer, saveItem, SaveMsgs

\* What GameRuns adds to a handler, for the message m.
Watched(m) ==
    /\ fresh' = IF ~Loads(m) THEN fresh
                ELSE IF UpToDate(m) THEN fresh \cup {m.usr} ELSE fresh \ {m.usr}
    /\ unsaved' =
         IF Loads(m)
           THEN [unsaved EXCEPT ![m.usr] = Present(m.items) \ m_players'[m.usr].inv.m_baseBag]
         ELSE IF m.type = "ITEMEVENT" /\ m_players[m.usr] # None
           THEN [unsaved EXCEPT ![m.usr] =
                   IF Len(saves') > Len(saves) THEN @ \ {m.item}
                   ELSE IF m.optype = "add" \/ ~Has(m_players'[m.usr].inv, m.item)
                     THEN @ \cup {m.item} ELSE @]
         ELSE unsaved

LEMMA LoginCase ==
    ASSUME TypeInv, NEW m \in InfoMsgs \cup ClientMsgs, usr_login(m), Watched(m)
    PROVE  RunKinds(m)
<1>1. m.type = "GET_ALLINFO" /\ m \in InfoMsgs /\ m.usr \in Users
  BY MsgTypes DEF usr_login, Handles
<1>2. UNCHANGED <<g_send_queue, gameRunning, saves>>
  BY DEF usr_login
<1>t. m_players \in [Users -> PlayerRecords \cup {None}]
  BY DEF TypeInv, GameTypes
<1>3. CASE m_players[m.usr] # None
  <2>1. ~Loads(m)
    BY <1>3 DEF Loads
  <2>2. fresh' = fresh /\ unsaved' = unsaved
    BY <2>1, <1>1 DEF Watched
  <2>3. m_players' = m_players
    BY <1>3 DEF usr_login
  <2> QED BY <1>2, <2>2, <2>3 DEF RunKinds, Ignored
<1>4. CASE m_players[m.usr] = None
  <2>1. Loads(m)
    BY <1>1, <1>4 DEF Loads
  <2>2. PICK inv \in InitInventory(m.items) :
           m_players' = [m_players EXCEPT ![m.usr] = [pos |-> m.pos, inv |-> inv]]
    BY <1>4 DEF usr_login
  <2>3. m_players'[m.usr].inv = inv
    BY <2>2, <1>t, <1>1
  <2>4. Loaded(m)
    BY <2>1, <2>2, <2>3, <1>1, <1>2, <1>4 DEF Loaded, Watched
  <2> QED BY <2>4 DEF RunKinds
<1> QED BY <1>3, <1>4

LEMMA ExitCase ==
    ASSUME TypeInv, NEW m \in InfoMsgs \cup ClientMsgs, usr_exit(m), Watched(m)
    PROVE  RunKinds(m)
<1> DEFINE u == m.usr
           e == savePlayer(u, m_players[u].pos)
           f == [type |-> "USEREXIT", usr |-> u, to |-> "gate"]
<1>1. m.type = "USEREXIT" /\ u \in Users /\ gameRunning' = gameRunning
  BY MsgTypes DEF usr_exit, Handles
<1>2. fresh' = fresh /\ unsaved' = unsaved
  BY <1>1 DEF Watched, Loads
<1>3. CASE m_players[u] = None
  BY <1>1, <1>2, <1>3 DEF usr_exit, RunKinds, Ignored
<1>4. CASE m_players[u] # None
  <2>1. Enqueues(<<e>>, <<f>>) /\ m_players' = [m_players EXCEPT ![u] = None]
    BY <1>4 DEF usr_exit
  <2>2. m_players[u] \in PlayerRecords /\ g_send_queue \in Seq(SendMsgs) /\ saves \in Seq(SaveMsgs)
    BY <1>1, <1>4 DEF TypeInv, GameTypes
  <2>3. e \in SaveMsgs /\ f \in SendMsgs
    BY <1>1, <2>2, SaveTypes, SentTypes DEF PlayerRecords
  <2>4. /\ Len(g_send_queue) + 2 <= SendSlots
        /\ g_send_queue' = Append(Append(g_send_queue, e), f)
        /\ saves' = Append(saves, e)
    BY <2>1, <2>2, <2>3, EnqueuesAre
  <2> QED BY <1>1, <1>2, <1>4, <2>1, <2>4 DEF RunKinds, Exited
<1> QED BY <1>3, <1>4

LEMMA StatusCase ==
    ASSUME TypeInv, NEW m \in InfoMsgs \cup ClientMsgs, usr_update_status(m), Watched(m)
    PROVE  RunKinds(m)
<1> DEFINE u == m.usr
           f == [type |-> "USERSYNC", usr |-> u, to |-> "gate"]
<1>1. m.type = "USERUP" /\ u \in Users /\ gameRunning' = gameRunning /\ m.pos \in Nat
  BY MsgTypes DEF usr_update_status, Handles
<1>2. fresh' = fresh /\ unsaved' = unsaved
  BY <1>1 DEF Watched, Loads
<1>3. CASE m_players[u] = None
  BY <1>1, <1>2, <1>3 DEF usr_update_status, RunKinds, Ignored
<1>4. CASE m_players[u] # None
  <2>1. Enqueues(<<>>, <<f>>) /\ m_players' = [m_players EXCEPT ![u].pos = m.pos]
    BY <1>4 DEF usr_update_status
  <2>2. g_send_queue \in Seq(SendMsgs) /\ saves \in Seq(SaveMsgs) /\ f \in SendMsgs
    BY <1>1, SentTypes DEF TypeInv, GameTypes
  <2>3. savePlayer(u, 0) \in SaveMsgs
    BY <1>1, <2>2, SaveTypes
  <2>4. /\ Len(g_send_queue) + 1 <= SendSlots
        /\ g_send_queue' = Append(g_send_queue, f) /\ saves' = saves
    BY <2>1, <2>2, <2>3, EnqueuesAre
  <2> QED BY <1>1, <1>2, <1>4, <2>1, <2>4 DEF RunKinds, Moved
<1> QED BY <1>3, <1>4

LEMMA ItemCase ==
    ASSUME TypeInv, NEW m \in InfoMsgs \cup ClientMsgs, usr_update_item(m), Watched(m)
    PROVE  RunKinds(m)
<1> DEFINE u == m.usr
<1>1. /\ m.type = "ITEMEVENT" /\ u \in Users /\ m.item \in Items
      /\ m.optype \in OpTypes /\ m.count \in Nat
  BY MsgTypes DEF usr_update_item, Handles
<1>2. fresh' = fresh /\ ~Loads(m)
  BY <1>1 DEF Watched, Loads
<1>t. /\ m_players \in [Users -> PlayerRecords \cup {None}]
      /\ g_send_queue \in Seq(SendMsgs) /\ saves \in Seq(SaveMsgs)
  BY DEF TypeInv, GameTypes
<1>3. CASE m_players[u] = None
  <2>1. UNCHANGED <<m_players, g_send_queue, gameRunning, saves>>
    BY <1>3 DEF usr_update_item
  <2>2. unsaved' = unsaved
    BY <1>2, <1>3 DEF Watched
  <2> QED BY <1>2, <2>1, <2>2 DEF RunKinds, Ignored
<1>4. CASE m_players[u] # None
  <2>1. PICK o \in update_item(m_players[u].inv, m.optype, m.item, m.count) :
           /\ m_players' = [m_players EXCEPT ![u].inv = o.inv]
           /\ gameRunning' \in {~o.crash} \cup (IF o.ok /\ "gate" \in ended THEN {FALSE} ELSE {})
           /\ Enqueues(IF o.saved = {} THEN <<>> ELSE <<saveItem(u, m.item, o.inv)>>, <<>>)
    BY <1>4 DEF usr_update_item, ItemOutcomes
  <2>2. m_players[u] \in PlayerRecords
    BY <1>1, <1>4, <1>t
  <2>3. GoodOutcome(m_players[u].inv, m.optype, m.item, o)
    BY <2>1, <2>2, <1>1, UpdateGood DEF PlayerRecords
  <2>4. o \in Outcomes /\ gameRunning' \in BOOLEAN
    BY <2>1, <2>3 DEF GoodOutcome, Outcomes
  <2>5. gameRunning' \/ o.crash \/ ended # {}
    BY <2>1, <2>4 DEF Outcomes
  <2>6. m_players'[u].inv = o.inv
    BY <2>1, <2>2, <1>1, <1>t DEF PlayerRecords
  <2>7. unsaved' = [unsaved EXCEPT ![u] =
                      IF Len(saves') > Len(saves) THEN @ \ {m.item}
                      ELSE IF m.optype = "add" \/ ~Has(o.inv, m.item)
                        THEN @ \cup {m.item} ELSE @]
    BY <1>1, <1>2, <1>4, <2>6 DEF Watched
  <2>8. ASSUME Changed(m, o) \/ ChangedAndSaved(m, o) PROVE RunKinds(m)
    BY <2>8, <2>1, <2>3, <2>4, <2>5, <1>1, <1>2, <1>4 DEF RunKinds, ItemUsed
  <2>9. CASE o.saved = {}
    <3>1. Enqueues(<<>>, <<>>)
      BY <2>1, <2>9
    <3>2. g_send_queue' = g_send_queue /\ saves' = saves
      BY <3>1, <1>t, EnqueuesNothing
    <3>3. ~(Len(saves') > Len(saves))
      BY <3>2, <1>t
    <3> QED BY <3>2, <3>3, <2>7, <2>8, <2>9 DEF Changed
  <2>10. CASE o.saved # {}
    <3> DEFINE e == saveItem(u, m.item, o.inv)
    <3>1. Enqueues(<<e>>, <<>>)
      BY <2>1, <2>10
    <3>2. e \in SaveMsgs /\ [type |-> "USERSYNC", usr |-> u, to |-> "gate"] \in SendMsgs
      BY <2>3, <2>4, <2>10, <1>1, <1>t, SaveTypes, SentTypes DEF GoodOutcome, Outcomes
    <3> HIDE DEF e
    <3>3. /\ Len(g_send_queue) + 1 <= SendSlots
          /\ g_send_queue' = Append(g_send_queue, e) /\ saves' = Append(saves, e)
      BY <3>1, <3>2, <1>t, EnqueuesAre
    <3>4. Len(saves') > Len(saves)
      BY <3>2, <3>3, <1>t
    <3> QED BY <3>3, <3>4, <2>7, <2>8, <2>10 DEF ChangedAndSaved, e
  <2> QED BY <2>9, <2>10
<1> QED BY <1>3, <1>4

LEMMA RunCases ==
    ASSUME TypeInv, GameRuns
    PROVE  \E m \in InfoMsgs \cup ClientMsgs : HandledMsg(m) /\ RunKinds(m)
<1>1. PICK m \in fromGate : handle(m) /\ Watched(m)
  BY DEF GameRuns, Watched
<1>2. m \in InfoMsgs \cup ClientMsgs
  BY DEF TypeInv, GameTypes
<1>3. HandledMsg(m)
  BY <1>1 DEF GameRuns, handle, usr_login, usr_exit, usr_update_status, usr_update_item, Handles,
     network, HandledMsg
<1>4. RunKinds(m)
  BY <1>1, <1>2, LoginCase, ExitCase, StatusCase, ItemCase DEF handle
<1> QED BY <1>2, <1>3, <1>4

-----------------------------------------------------------------------------
(* The steps of the system, one operator for what each changes.            *)

loginState ==
    <<m_usrfd, m_waitverify, requests, loginToDb, passwords, infos, toGateServer, answered, connections>>

Played(m) ==
    /\ fromGate' = fromGate \cup {m}
    /\ online' \subseteq online /\ ops' \in Nat
    /\ UNCHANGED <<m_players, g_send_queue, network, gameRunning, saves, loginVars, dbVars, history>>

\* Nothing changes but a connection that has ended, a thread that does or what is
\* for the gate.
Quiet ==
    /\ m_connections' \subseteq m_connections /\ Servers \ ended \subseteq m_connections'
    /\ sending' \in BOOLEAN /\ (ended = {} => sending' = sending)
    /\ loginRunning' \in BOOLEAN
    /\ UNCHANGED <<m_players, fromGate, g_send_queue, toDb, ended, gameRunning, saves>>
    /\ UNCHANGED <<loginState, dbVars, online, ops, history>>

Sends(e) ==
    /\ g_send_queue # <<>> /\ e = Head(g_send_queue) /\ g_send_queue' = Tail(g_send_queue)
    /\ toDb' = IF e.to = "db" THEN toDb \cup {e} ELSE toDb
    /\ e.to \notin ended
    /\ UNCHANGED <<m_players, fromGate, m_connections, ended, sending, gameRunning, saves>>
    /\ UNCHANGED <<loginVars, dbVars, online, ops, history>>

Drops(e) ==
    /\ g_send_queue # <<>> /\ e = Head(g_send_queue) /\ g_send_queue' = Tail(g_send_queue)
    /\ e.to \in ended
    /\ m_connections' \subseteq m_connections /\ Servers \ ended \subseteq m_connections'
    /\ gameRunning' \in BOOLEAN
    /\ UNCHANGED <<m_players, fromGate, toDb, ended, sending, saves>>
    /\ UNCHANGED <<loginVars, dbVars, online, ops, history>>

\* What all steps of the login server have in common.
LogsIn ==
    /\ online' = online \cup {asks[c].usr : c \in {d \in Clients :
                                  answered'[d] # answered[d] /\ answered'[d].usr = asks[d].usr}}
    /\ UNCHANGED <<gameVars, dbVars, ops, history>>

Succeeds(m) ==
    /\ infos' = infos \ {m}
    /\ toGateServer' \subseteq toGateServer \cup {m}
    /\ answered' \in {answered, [c \in Clients |-> IF c \in Holders(m_usrfd[m.usr]) THEN m ELSE answered[c]]}
    /\ left' \subseteq Clients /\ loginRunning' \in BOOLEAN
    /\ UNCHANGED <<m_usrfd, m_waitverify, requests, loginToDb, passwords, fdOf, gateLeft>>

Forwards(m) ==
    /\ m \in toGateServer /\ toGateServer' = toGateServer \ {m}
    /\ fromGate' \subseteq fromGate \cup {m}
    /\ UNCHANGED <<m_usrfd, m_waitverify, requests, loginToDb, passwords, infos, answered>>
    /\ UNCHANGED <<connections, loginRunning>>
    /\ UNCHANGED <<m_players, g_send_queue, network, gameRunning, saves, dbVars, online, ops, history>>

\* The db server's rows: those in the cache, or those it would find.
PlayerNow(u) == IF m_playerdb[u] # None THEN m_playerdb[u] ELSE PLAYER[u]
ItemsNow(u) == IF m_itemdb[u] # None THEN m_itemdb[u] ELSE ITEM[u]

\* What the db server answers to the question q now.
AnswerNow(q) ==
    [type |-> "GET_ALLINFO", usr |-> q.usr, from |-> q.from, pos |-> PlayerNow(q.usr),
     items |-> ItemsNow(q.usr), age |-> Len(applied)]

AnswersPassword(q) ==
    /\ q \in loginToDb /\ q.type = "GETPASS"
    /\ loginToDb' = loginToDb \ {q}
    /\ passwords' = passwords \cup {[usr |-> q.usr, from |-> q.from]}
    /\ UNCHANGED <<PLAYER, ITEM, m_playerdb, m_itemdb, running>>
    /\ UNCHANGED <<m_usrfd, m_waitverify, requests, infos, toGateServer, answered>>
    /\ UNCHANGED <<connections, loginRunning, gameVars, online, ops, history>>

AnswersAll(q) ==
    /\ running
    /\ q \in loginToDb /\ q.type = "GET_ALLINFO"
    /\ loginToDb' = loginToDb \ {q}
    /\ infos' = infos \cup {AnswerNow(q)}
    /\ m_playerdb' = [m_playerdb EXCEPT ![q.usr] = PlayerNow(q.usr)]
    /\ m_itemdb' = [m_itemdb EXCEPT ![q.usr] = ItemsNow(q.usr)]
    /\ UNCHANGED <<PLAYER, ITEM, running>>
    /\ UNCHANGED <<m_usrfd, m_waitverify, requests, passwords, toGateServer, answered>>
    /\ UNCHANGED <<connections, loginRunning, gameVars, online, ops, history>>

SavesMsg(m) ==
    /\ running
    /\ m \in toDb /\ toDb' = toDb \ {m}
    /\ applied' = Append(applied, m)
    /\ UNCHANGED <<m_players, fromGate, g_send_queue, m_connections, ended, sending, gameRunning, saves>>
    /\ UNCHANGED <<loginVars, running, online, ops, asks, fresh, unsaved>>

SavesPlayer(m) ==
    /\ m.type = "SETPLAYER" /\ SavesMsg(m)
    /\ m_playerdb[m.usr] # None
    /\ m_playerdb' = [m_playerdb EXCEPT ![m.usr] = m.pos]
    /\ PLAYER' \in {PLAYER, [PLAYER EXCEPT ![m.usr] = m.pos]}
    /\ UNCHANGED <<ITEM, m_itemdb>>

SavesItem(m) ==
    /\ m.type = "SETITEM" /\ SavesMsg(m)
    /\ m_itemdb[m.usr] # None
    /\ m_itemdb' = [m_itemdb EXCEPT ![m.usr][m.item] = m.count]
    /\ ITEM' \in {ITEM, [ITEM EXCEPT ![m.usr][m.item] = m.count]}
    /\ UNCHANGED <<PLAYER, m_playerdb>>

DbLost ==
    /\ running' = FALSE /\ ended' = ended \cup {"db"}
    /\ toDb' = {} /\ loginToDb' = {}
    /\ UNCHANGED <<m_players, fromGate, g_send_queue, m_connections, sending, gameRunning, saves>>
    /\ UNCHANGED <<m_usrfd, m_waitverify, requests, passwords, infos, toGateServer, answered>>
    /\ UNCHANGED <<PLAYER, ITEM, m_playerdb, m_itemdb>>
    /\ UNCHANGED <<connections, loginRunning, online, ops, history>>

GateGone ==
    /\ fromGate' \subseteq fromGate
    /\ ended' = ended \cup {"gate"}
    /\ UNCHANGED <<m_players, g_send_queue, toDb, m_connections, sending, gameRunning, saves>>
    /\ UNCHANGED <<loginVars, dbVars, online, ops, history>>

\* A connection to the login server ends, the gate's or a client's.
LoginLoses ==
    /\ requests' \subseteq requests /\ toGateServer' \subseteq toGateServer
    /\ left' \subseteq Clients /\ gateLeft' \in BOOLEAN
    /\ UNCHANGED <<m_usrfd, m_waitverify, loginToDb, passwords, infos, answered, fdOf, loginRunning>>
    /\ UNCHANGED <<gameVars, dbVars, online, ops, history>>

StepKinds ==
    \/ \E c \in Clients, u \in Users, pass \in Passwords : Ask(c, u, pass)
    \/ \E m \in ClientMsgs : Played(m)
    \/ \E m \in InfoMsgs \cup ClientMsgs : HandledMsg(m) /\ RunKinds(m)
    \/ Quiet
    \/ \E e \in SendMsgs : Sends(e) \/ Drops(e)
    \/ \E r \in requests : login_request(r) /\ LogsIn
    \/ \E p \in passwords : login_verify(p) /\ LogsIn
    \/ \E m \in infos : Succeeds(m) /\ LogsIn
    \/ \E m \in InfoMsgs : Forwards(m)
    \/ \E q \in Questions : AnswersPassword(q) \/ AnswersAll(q)
    \/ \E m \in SaveMsgs : SavesPlayer(m) \/ SavesItem(m)
    \/ DbLost \/ GateGone \/ LoginLoses

LEMMA PlaysCases ==
    ASSUME TypeInv, NEW u \in Users, Exits(u) \/ (\E pos \in Positions : Moves(u, pos))
                                       \/ (\E e \in Events : HandlesItem(u, e))
    PROVE  StepKinds
<1>o. ops + 1 \in Nat
  BY DEF TypeInv, HistoryTypes
<1>1. ASSUME NEW m \in ClientMsgs, Plays(u, m), online' \subseteq online
      PROVE  StepKinds
  BY <1>1, <1>o DEF Plays, Played, StepKinds, network
<1>2. ASSUME NEW pos \in Positions, Moves(u, pos) PROVE StepKinds
  <2> DEFINE m == [type |-> "USERUP", usr |-> u, n |-> ops + 1, pos |-> pos]
  <2>1. m \in ClientMsgs
    BY <1>o DEF ClientMsgs
  <2>2. Plays(u, m) /\ online' = online
    BY <1>2 DEF Moves
  <2> QED BY <2>1, <2>2, <1>1
<1>3. ASSUME NEW e \in Events, HandlesItem(u, e) PROVE StepKinds
  <2> DEFINE m == [type |-> "ITEMEVENT", usr |-> u, n |-> ops + 1,
                   item |-> e[1], optype |-> e[2], count |-> e[3]]
  <2>1. m \in ClientMsgs
    BY <1>o, SessionAssumption DEF ClientMsgs
  <2>2. Plays(u, m) /\ online' = online
    BY <1>3 DEF HandlesItem
  <2> QED BY <2>1, <2>2, <1>1
<1>4. CASE Exits(u)
  <2> DEFINE m == [type |-> "USEREXIT", usr |-> u, n |-> ops + 1]
  <2>1. m \in ClientMsgs
    BY <1>o DEF ClientMsgs
  <2>2. Plays(u, m) /\ online' \subseteq online
    BY <1>4 DEF Exits
  <2> QED BY <2>1, <2>2, <1>1
<1> QED BY <1>2, <1>3, <1>4

LEMMA SendCases ==
    ASSUME TypeInv, GameSends
    PROVE  StepKinds
<1> DEFINE e == Head(g_send_queue)
<1>1. g_send_queue # <<>>
  BY DEF GameSends, consume_msg, SendMsg, SendMsgFails, SendThreadEnds
<1>2. /\ e \in SendMsgs /\ e.to \in Servers /\ Servers \ ended \subseteq m_connections
      /\ sending \in BOOLEAN /\ gameRunning \in BOOLEAN
  BY <1>1, SeqTypes, SentTypes DEF TypeInv, GameTypes, ConnInv
<1>3. CASE SendMsg
  <2>1. Sends(e)
    BY <1>3, <1>1 DEF GameSends, SendMsg, Delivers, Sends
  <2> QED BY <2>1, <1>2 DEF StepKinds
<1>4. CASE SendMsgFails
  <2>1. Drops(e)
    BY <1>4, <1>1, <1>2 DEF GameSends, SendMsgFails, Drops
  <2> QED BY <2>1, <1>2 DEF StepKinds
<1>5. CASE SendThreadEnds
  <2>1. e.to \in ended
    BY <1>2, <1>5 DEF SendThreadEnds
  <2>2. loginRunning \in BOOLEAN
    BY DEF TypeInv, LoginTypes, LoginTypeOK
  <2>3. Quiet
    BY <1>2, <1>5, <2>1, <2>2 DEF GameSends, SendThreadEnds, Quiet, loginVars, loginState, connections
  <2> QED BY <2>3 DEF StepKinds
<1> QED BY <1>3, <1>4, <1>5 DEF GameSends, consume_msg

LEMMA QuietCases ==
    ASSUME TypeInv, GameLosesConnection \/ GateReads \/ LoginDies \/ UNCHANGED sessionVars
    PROVE  StepKinds
<1>1. /\ Servers \ ended \subseteq m_connections
      /\ sending \in BOOLEAN /\ loginRunning \in BOOLEAN
  BY DEF TypeInv, ConnInv, GameTypes, LoginTypes, LoginTypeOK
<1>2. ASSUME GameLosesConnection PROVE Quiet
  BY <1>1, <1>2 DEF GameLosesConnection, ConnectionErased, Quiet, loginVars, loginState, connections
<1>3. ASSUME GateReads PROVE Quiet
  BY <1>1, <1>3 DEF GateReads, Quiet, loginVars, loginState, connections
<1>4. ASSUME LoginDies PROVE Quiet
  BY <1>1, <1>4 DEF LoginDies, Quiet, loginState, gameVars
<1>5. ASSUME UNCHANGED sessionVars PROVE Quiet
  BY <1>1, <1>5 DEF sessionVars, gameVars, Quiet, loginVars, loginState, connections
<1> QED BY <1>2, <1>3, <1>4, <1>5 DEF StepKinds

LEMMA LoginCases ==
    ASSUME TypeInv, LoginRuns
    PROVE  StepKinds
<1>1. LogsIn
  BY DEF LoginRuns, LogsIn
<1>2. ASSUME NEW r \in requests, login_request(r) PROVE StepKinds
  BY <1>1, <1>2 DEF StepKinds
<1>3. ASSUME NEW p \in passwords, login_verify(p) PROVE StepKinds
  BY <1>1, <1>3 DEF StepKinds
<1>4. ASSUME NEW m \in infos, login_success(m) \/ SuccessDies(m) PROVE StepKinds
  <2>1. left \subseteq Clients /\ loginRunning \in BOOLEAN
    BY DEF TypeInv, LoginTypes, LoginTypeOK
  <2>2. Holders(m_usrfd[m.usr]) \subseteq Clients
    BY DEF Holders
  <2>3. Succeeds(m)
    BY <1>4, <2>1, <2>2 DEF login_success, SuccessDies, WritesToGate, WritesToClient, Succeeds, connections
  <2> QED BY <1>1, <2>3 DEF StepKinds
<1> QED BY <1>2, <1>3, <1>4 DEF LoginRuns, LoginStep

LEMMA AnswerCases ==
    ASSUME TypeInv, DbAnswersPassword \/ DbAnswersAll
    PROVE  StepKinds
<1>1. CASE DbAnswersPassword
  <2>1. PICK q \in loginToDb :
           /\ q.type = "GETPASS" /\ Db!GetPass(q.usr)
           /\ passwords' = passwords \cup {[usr |-> q.usr, from |-> q.from]}
           /\ loginToDb' = loginToDb \ {q}
    BY <1>1 DEF DbAnswersPassword
  <2>2. q \in Questions
    BY DEF TypeInv, LoginTypes
  <2>3. AnswersPassword(q)
    BY <2>1, <1>1 DEF DbAnswersPassword, AnswersPassword, Db!GetPass, Db!tables, Db!missed
  <2> QED BY <2>2, <2>3 DEF StepKinds
<1>2. CASE DbAnswersAll
  <2>1. PICK q \in loginToDb :
           /\ q.type = "GET_ALLINFO" /\ Db!GetAll(q.usr)
           /\ infos' = infos \cup
                {[type |-> "GET_ALLINFO", usr |-> reply'[1], from |-> q.from,
                  pos |-> reply'[2], items |-> reply'[3], age |-> Len(applied)]}
           /\ loginToDb' = loginToDb \ {q}
    BY <1>2 DEF DbAnswersAll
  <2>2. q \in Questions
    BY DEF TypeInv, LoginTypes
  <2>3. /\ running
        /\ m_playerdb' = [m_playerdb EXCEPT ![q.usr] = PlayerNow(q.usr)]
        /\ m_itemdb' = [m_itemdb EXCEPT ![q.usr] = ItemsNow(q.usr)]
        /\ reply' = <<q.usr, PlayerNow(q.usr), ItemsNow(q.usr)>>
        /\ UNCHANGED <<PLAYER, ITEM, running>>
    BY <2>1 DEF Db!GetAll, Db!PlayerShown, Db!ItemsShown, PlayerNow, ItemsNow, Db!tables, Db!missed
  <2>4. infos' = infos \cup {AnswerNow(q)}
    BY <2>1, <2>3 DEF AnswerNow
  <2>5. AnswersAll(q)
    BY <2>1, <2>3, <2>4, <1>2 DEF DbAnswersAll, AnswersAll
  <2> QED BY <2>2, <2>5 DEF StepKinds
<1> QED BY <1>1, <1>2

LEMMA SaveCases ==
    ASSUME TypeInv, DbSaves
    PROVE  StepKinds
<1>1. PICK m \in toDb :
         /\ \/ m.type = "SETPLAYER" /\ Db!SetPlayer(m.usr, m.pos)
            \/ m.type = "SETITEM" /\ Db!SetItem(m.usr, m.item, m.count)
         /\ toDb' = toDb \ {m}
         /\ applied' = Append(applied, m)
  BY DEF DbSaves
<1>2. m \in SaveMsgs
  BY DEF TypeInv, GameTypes
<1>3. CASE m.type = "SETPLAYER" /\ Db!SetPlayer(m.usr, m.pos)
  <2>1. SavesMsg(m)
    BY <1>1, <1>3 DEF DbSaves, SavesMsg, Db!SetPlayer
  <2>2. SavesPlayer(m)
    BY <1>3, <2>1 DEF SavesPlayer, Db!SetPlayer
  <2> QED BY <1>2, <2>2 DEF StepKinds
<1>4. CASE m.type = "SETITEM" /\ Db!SetItem(m.usr, m.item, m.count)
  <2>1. SavesMsg(m)
    BY <1>1, <1>4 DEF DbSaves, SavesMsg, Db!SetItem
  <2>2. SavesItem(m)
    BY <1>4, <2>1 DEF SavesItem, Db!SetItem
  <2> QED BY <1>2, <2>2 DEF StepKinds
<1> QED BY <1>1, <1>3, <1>4

LEMMA LossCases ==
    ASSUME TypeInv, DbDies \/ GateLost \/ GateLeaves \/ (\E c \in Clients : Leaves(c)) \/ GateForwards
    PROVE  StepKinds
<1>t. left \subseteq Clients /\ gateLeft \in BOOLEAN /\ toGateServer \subseteq InfoMsgs
  BY DEF TypeInv, LoginTypes, LoginTypeOK
<1>1. ASSUME DbDies PROVE DbLost
  BY <1>1 DEF DbDies, Db!Crash, Db!tables, Db!caches, Db!missed, DbLost
<1>2. ASSUME GateLost PROVE GateGone
  BY <1>2 DEF GateLost, GateGone
<1>3. ASSUME GateLeaves PROVE LoginLoses
  BY <1>3, <1>t DEF GateLeaves, LoginLoses
<1>4. ASSUME NEW c \in Clients, Leaves(c) PROVE LoginLoses
  BY <1>4, <1>t DEF Leaves, LoginLoses
<1>5. CASE GateForwards
  <2>1. PICK m \in toGateServer :
           /\ fromGate' = IF "gate" \in ended THEN fromGate ELSE fromGate \cup {m}
           /\ toGateServer' = toGateServer \ {m}
    BY <1>5 DEF GateForwards
  <2>2. Forwards(m)
    BY <2>1, <1>5 DEF GateForwards, Forwards
  <2> QED BY <2>2, <1>t DEF StepKinds
<1> QED BY <1>1, <1>2, <1>3, <1>4, <1>5 DEF StepKinds

LEMMA StepCases ==
    ASSUME TypeInv, [SessionNext]_sessionVars
    PROVE  StepKinds
<1>1. CASE \E c \in Clients, u \in Users, pass \in Passwords : Ask(c, u, pass)
  BY <1>1 DEF StepKinds
<1>2. CASE GameRuns
  BY <1>2, RunCases DEF StepKinds
<1> QED BY <1>1, <1>2, PlaysCases, SendCases, QuietCases, LoginCases, AnswerCases, SaveCases, LossCases
     DEF SessionNext, ClientStep, DbRuns

-----------------------------------------------------------------------------
(* The types are kept.                                                     *)

PlayersType == m_players \in [Users -> PlayerRecords \cup {None}]

LEMMA PlayersStep ==
    ASSUME TypeInv, StepKinds
    PROVE  PlayersType'
<1>t. PlayersType
  BY DEF TypeInv, GameTypes, PlayersType
<1>1. CASE UNCHANGED m_players
  BY <1>1, <1>t DEF PlayersType
<1>2. ASSUME NEW m \in InfoMsgs \cup ClientMsgs, RunKinds(m) PROVE PlayersType'
  <2>0. m.usr \in Users
    BY MsgTypes
  <2>1. CASE Loaded(m)
    <3>1. PICK inv \in InitInventory(m.items) :
             m_players' = [m_players EXCEPT ![m.usr] = [pos |-> m.pos, inv |-> inv]]
      BY <2>1 DEF Loaded
    <3>2. m.items \in ItemRows /\ m.pos \in Nat
      BY <2>1 DEF Loaded, InfoMsgs
    <3>3. inv \in Inventories
      BY <3>2, InitInventoryFacts
    <3>4. [pos |-> m.pos, inv |-> inv] \in PlayerRecords
      BY <3>2, <3>3 DEF PlayerRecords
    <3> QED BY <3>1, <3>4, <2>0, <1>t DEF PlayersType
  <2>2. CASE Exited(m)
    BY <2>2, <2>0, <1>t DEF PlayersType, Exited
  <2>3. CASE Moved(m)
    <3>1. m_players[m.usr] \in PlayerRecords /\ m.pos \in Nat
      BY <2>3, <2>0, <1>t DEF PlayersType, Moved
    <3>2. [m_players[m.usr] EXCEPT !.pos = m.pos] \in PlayerRecords
      BY <3>1 DEF PlayerRecords
    <3>3. m_players' = [m_players EXCEPT ![m.usr] = [@ EXCEPT !.pos = m.pos]]
      BY <2>3 DEF Moved
    <3> QED BY <3>2, <3>3, <2>0, <1>t DEF PlayersType
  <2>4. ASSUME NEW o, ItemUsed(m, o) PROVE PlayersType'
    <3>1. m_players[m.usr] \in PlayerRecords /\ o.inv \in Inventories
      BY <2>4, <2>0, <1>t DEF PlayersType, ItemUsed, GoodOutcome, Outcomes
    <3>2. [m_players[m.usr] EXCEPT !.inv = o.inv] \in PlayerRecords
      BY <3>1 DEF PlayerRecords
    <3>3. m_players' = [m_players EXCEPT ![m.usr] = [@ EXCEPT !.inv = o.inv]]
      BY <2>4 DEF ItemUsed
    <3> QED BY <3>2, <3>3, <2>0, <1>t DEF PlayersType
  <2>5. CASE Ignored(m)
    BY <2>5, <1>1 DEF Ignored
  <2> QED BY <1>2, <2>1, <2>2, <2>3, <2>4, <2>5 DEF RunKinds
<1> QED BY <1>1, <1>2 DEF StepKinds, Ask, Played, Quiet, Sends, Drops, LogsIn, Forwards, LoginLoses,
      AnswersPassword, AnswersAll, SavesPlayer, SavesItem, SavesMsg, DbLost, GateGone, gameVars

LEMMA FromGateStep ==
    ASSUME TypeInv, StepKinds
    PROVE  (fromGate \subseteq InfoMsgs \cup ClientMsgs)'
<1>t. fromGate \subseteq InfoMsgs \cup ClientMsgs
  BY DEF TypeInv, GameTypes
<1>1. ASSUME fromGate' \subseteq fromGate PROVE fromGate' \subseteq InfoMsgs \cup ClientMsgs
  BY <1>1, <1>t
<1>2. ASSUME NEW m \in InfoMsgs \cup ClientMsgs, fromGate' \subseteq fromGate \cup {m}
      PROVE  fromGate' \subseteq InfoMsgs \cup ClientMsgs
  BY <1>2, <1>t
<1>3. CASE \E m \in ClientMsgs : Played(m)
  BY <1>2, <1>3 DEF Played
<1>4. CASE \E m \in InfoMsgs : Forwards(m)
  BY <1>2, <1>4 DEF Forwards
<1>5. CASE \E m \in InfoMsgs \cup ClientMsgs : HandledMsg(m)
  BY <1>1, <1>5 DEF HandledMsg
<1>6. CASE fromGate' \subseteq fromGate
  BY <1>1, <1>6
<1> QED BY <1>3, <1>4, <1>5, <1>6 DEF StepKinds, Ask, Quiet, Sends, Drops, LogsIn, LoginLoses,
      AnswersPassword, AnswersAll, SavesPlayer, SavesItem, SavesMsg, DbLost, GateGone, gameVars

QueueTypes ==
    /\ g_send_queue \in Seq(SendMsgs) /\ Len(g_send_queue) <= SendSlots
    /\ saves \in Seq(SaveMsgs)

LEMMA QueueStep ==
    ASSUME TypeInv, StepKinds
    PROVE  QueueTypes'
<1>t. QueueTypes /\ PlayersType /\ SendSlots \in Nat
  BY SlotsAssumption DEF TypeInv, GameTypes, QueueTypes, PlayersType
<1>1. CASE UNCHANGED <<g_send_queue, saves>>
  BY <1>1, <1>t DEF QueueTypes
<1>2. ASSUME g_send_queue # <<>>, g_send_queue' = Tail(g_send_queue), UNCHANGED saves
      PROVE  QueueTypes'
  <2>1. Tail(g_send_queue) \in Seq(SendMsgs) /\ Len(Tail(g_send_queue)) <= SendSlots
    BY <1>2, <1>t, SeqTypes DEF QueueTypes
  <2> QED BY <2>1, <1>2, <1>t DEF QueueTypes
<1>3. ASSUME NEW m \in InfoMsgs \cup ClientMsgs, RunKinds(m) PROVE QueueTypes'
  <2>0. m.usr \in Users
    BY MsgTypes
  <2>1. CASE Exited(m)
    <3>1. m_players[m.usr] \in PlayerRecords
      BY <2>1, <2>0, <1>t DEF Exited, PlayersType
    <3>a. m_players[m.usr].pos \in Nat
      BY <3>1 DEF PlayerRecords
    <3> DEFINE e == savePlayer(m.usr, m_players[m.usr].pos)
               f == [type |-> "USEREXIT", usr |-> m.usr, to |-> "gate"]
               q == Append(g_send_queue, e)
    <3>2. e \in SaveMsgs /\ e \in SendMsgs /\ f \in SendMsgs
      BY <3>a, <2>0, <1>t, SaveTypes, SentTypes DEF QueueTypes
    <3>3. /\ Len(g_send_queue) + 2 <= SendSlots /\ saves' = Append(saves, e)
          /\ g_send_queue' = Append(q, f)
      BY <2>1 DEF Exited
    <3> HIDE DEF e, f
    <3>4. q \in Seq(SendMsgs) /\ Len(q) = Len(g_send_queue) + 1
      BY <3>2, <1>t, SeqTypes DEF QueueTypes
    <3> HIDE DEF q
    <3>5. Append(q, f) \in Seq(SendMsgs) /\ Len(Append(q, f)) = Len(g_send_queue) + 2
      <4>1. Append(q, f) \in Seq(SendMsgs) /\ Len(Append(q, f)) = Len(q) + 1
        BY <3>2, <3>4, SeqTypes
      <4>2. Len(g_send_queue) \in Nat
        BY <1>t, SeqTypes DEF QueueTypes
      <4> QED BY <4>1, <4>2, <3>4
    <3>6. Append(saves, e) \in Seq(SaveMsgs)
      BY <3>2, <1>t, SeqTypes DEF QueueTypes
    <3> QED BY <3>3, <3>5, <3>6 DEF QueueTypes
  <2>2. ASSUME NEW e \in SendMsgs, Len(g_send_queue) + 1 <= SendSlots,
               g_send_queue' = Append(g_send_queue, e),
               saves' = saves \/ (e \in SaveMsgs /\ saves' = Append(saves, e))
        PROVE  QueueTypes'
    <3>1. Append(g_send_queue, e) \in Seq(SendMsgs) /\ Len(Append(g_send_queue, e)) <= SendSlots
      BY <2>2, <1>t, SeqTypes DEF QueueTypes
    <3>2. e \in SaveMsgs => Append(saves, e) \in Seq(SaveMsgs)
      BY <1>t, SeqTypes DEF QueueTypes
    <3> QED BY <3>1, <3>2, <2>2, <1>t DEF QueueTypes
  <2>3. CASE Moved(m)
    BY <2>3, <2>2, <2>0, SentTypes DEF Moved
  <2>4. ASSUME NEW o, ItemUsed(m, o) PROVE QueueTypes'
    <3>1. CASE Changed(m, o)
      BY <3>1, <1>1 DEF Changed
    <3>2. CASE ChangedAndSaved(m, o)
      <4>1. /\ m.item \in Items /\ o.inv \in Inventories /\ Has(o.inv, m.item)
        BY <3>2, <2>4 DEF ItemUsed, GoodOutcome, Outcomes, ChangedAndSaved
      <4>2. saveItem(m.usr, m.item, o.inv) \in SaveMsgs
        BY <4>1, <2>0, <1>t, SaveTypes DEF QueueTypes
      <4> QED BY <4>2, <3>2, <2>2, SentTypes DEF ChangedAndSaved
    <3> QED BY <3>1, <3>2, <2>4 DEF ItemUsed
  <2> QED BY <1>3, <1>1, <2>1, <2>3, <2>4 DEF RunKinds, Loaded, Ignored
<1> QED BY <1>1, <1>2, <1>3 DEF StepKinds, Ask, Played, Quiet, Sends, Drops, LogsIn, Forwards,
      LoginLoses, AnswersPassword, AnswersAll, SavesPlayer, SavesItem, SavesMsg, DbLost, GateGone,
      gameVars

LEMMA NowTypes ==
    ASSUME DbTypes, NEW u \in Users
    PROVE  PlayerNow(u) \in Nat /\ ItemsNow(u) \in ItemRows
BY DEF DbTypes, PlayerNow, ItemsNow

LEMMA AnswerType ==
    ASSUME TypeInv, NEW q \in Questions
    PROVE  AnswerNow(q) \in InfoMsgs
<1>1. PlayerNow(q.usr) \in Nat /\ ItemsNow(q.usr) \in ItemRows
  BY NowTypes DEF TypeInv, Questions
<1>2. Len(applied) \in Nat
  BY SeqTypes DEF TypeInv, HistoryTypes
<1> QED BY <1>1, <1>2 DEF AnswerNow, InfoMsgs, Questions

LEMMA DbStep ==
    ASSUME TypeInv, StepKinds
    PROVE  DbTypes'
<1>t. DbTypes
  BY DEF TypeInv
<1>1. CASE UNCHANGED <<PLAYER, ITEM, m_playerdb, m_itemdb, running>>
  BY <1>1, <1>t DEF DbTypes
<1>2. ASSUME NEW q \in Questions, AnswersAll(q) PROVE DbTypes'
  <2>1. q.usr \in Users
    BY DEF Questions
  <2>2. PlayerNow(q.usr) \in Nat /\ ItemsNow(q.usr) \in ItemRows
    BY <2>1, <1>t, NowTypes
  <2> QED BY <1>2, <1>t, <2>1, <2>2 DEF DbTypes, AnswersAll
<1>3. ASSUME NEW m \in SaveMsgs, SavesPlayer(m) PROVE DbTypes'
  <2>1. m.usr \in Users /\ m.pos \in Nat
    BY <1>3 DEF SavesPlayer, SaveMsgs
  <2> QED BY <1>3, <2>1, <1>t DEF DbTypes, SavesPlayer, SavesMsg
<1>4. ASSUME NEW m \in SaveMsgs, SavesItem(m) PROVE DbTypes'
  <2>1. m.usr \in Users /\ m.item \in Items /\ m.count \in Counts
    BY <1>4 DEF SavesItem, SaveMsgs
  <2>2. m_itemdb[m.usr] \in ItemRows /\ ITEM[m.usr] \in ItemRows
    BY <1>4, <2>1, <1>t DEF SavesItem, DbTypes
  <2>3. /\ [m_itemdb[m.usr] EXCEPT ![m.item] = m.count] \in ItemRows
        /\ [ITEM[m.usr] EXCEPT ![m.item] = m.count] \in ItemRows
    BY <2>1, <2>2 DEF ItemRows
  <2>4. /\ m_itemdb' = [m_itemdb EXCEPT ![m.usr] = [@ EXCEPT ![m.item] = m.count]]
        /\ ITEM' \in {ITEM, [ITEM EXCEPT ![m.usr] = [@ EXCEPT ![m.item] = m.count]]}
        /\ UNCHANGED <<PLAYER, m_playerdb, running>>
    BY <1>4 DEF SavesItem, SavesMsg
  <2> QED BY <2>3, <2>4, <1>t DEF DbTypes
<1>5. CASE DbLost
  BY <1>5, <1>t DEF DbTypes, DbLost
<1> QED BY <1>1, <1>2, <1>3, <1>4, <1>5 DEF StepKinds, Ask, Played, HandledMsg, Quiet, Sends, Drops,
      LogsIn, Forwards, AnswersPassword, GateGone, LoginLoses, dbVars

LEMMA LoginStepTypes ==
    ASSUME TypeInv, StepKinds
    PROVE  LoginTypes'
<1>t. /\ m_usrfd \in [Users -> Fds \cup {None}] /\ fdOf \in [Clients -> Fds \cup {None}]
      /\ m_waitverify \in [Users -> Passwords \cup {None}]
      /\ left \subseteq Clients /\ gateLeft \in BOOLEAN /\ loginRunning \in BOOLEAN
      /\ requests \subseteq Requests /\ loginToDb \subseteq Questions /\ passwords \subseteq Verdicts
      /\ infos \subseteq InfoMsgs /\ toGateServer \subseteq InfoMsgs
      /\ answered \in [Clients -> InfoMsgs \cup {None}]
  BY DEF TypeInv, LoginTypes, LoginTypeOK
<1>1. CASE UNCHANGED loginVars
  BY <1>1, <1>t DEF loginVars, LoginTypes, LoginTypeOK
<1>2. ASSUME NEW c \in Clients, NEW u \in Users, NEW pass \in Passwords, Ask(c, u, pass)
      PROVE  LoginTypes'
  <2>1. PICK fd \in Fds :
           /\ fdOf' = [fdOf EXCEPT ![c] = fd]
           /\ requests' = requests \cup {[usr |-> u, pass |-> pass, from |-> c, m_from |-> fd]}
    BY <1>2 DEF Ask
  <2>2. [usr |-> u, pass |-> pass, from |-> c, m_from |-> fd] \in Requests
    BY DEF Requests
  <2>3. requests' \subseteq Requests /\ fdOf' \in [Clients -> Fds \cup {None}]
    BY <2>1, <2>2, <1>t
  <2> QED BY <2>3, <1>2, <1>t DEF Ask, LoginTypes, LoginTypeOK
<1>q. \A u \in Users, c \in Clients, type \in {"GETPASS", "GET_ALLINFO"} :
         Question(type, u, c) \in Questions
  BY DEF Questions, Question
<1>3. ASSUME NEW r \in requests, login_request(r) PROVE LoginTypes'
  <2>1. /\ r.usr \in Users /\ r.pass \in Passwords /\ r.from \in Clients /\ r.m_from \in Fds
    BY <1>t DEF Requests
  <2>2. /\ m_usrfd' \in [Users -> Fds \cup {None}]
        /\ m_waitverify' \in [Users -> Passwords \cup {None}]
        /\ loginToDb' \subseteq Questions /\ requests' \subseteq Requests
    BY <1>3, <2>1, <1>t, <1>q DEF login_request
  <2> QED BY <2>2, <1>3, <1>t DEF login_request, connections, LoginTypes, LoginTypeOK
<1>4. ASSUME NEW p \in passwords, login_verify(p) PROVE LoginTypes'
  <2>1. p.usr \in Users /\ p.from \in Clients
    BY <1>t DEF Verdicts
  <2>2. /\ m_waitverify' \in [Users -> Passwords \cup {None}]
        /\ loginToDb' \subseteq Questions /\ passwords' \subseteq Verdicts
    BY <1>4, <2>1, <1>t, <1>q DEF login_verify
  <2> QED BY <2>2, <1>4, <1>t DEF login_verify, connections, LoginTypes, LoginTypeOK
<1>5. ASSUME NEW m \in infos, Succeeds(m) PROVE LoginTypes'
  <2>1. m \in InfoMsgs
    BY <1>t
  <2>2. /\ answered' \in [Clients -> InfoMsgs \cup {None}]
        /\ toGateServer' \subseteq InfoMsgs /\ infos' \subseteq InfoMsgs
    BY <1>5, <2>1, <1>t DEF Succeeds
  <2> QED BY <2>2, <1>5, <1>t DEF Succeeds, LoginTypes, LoginTypeOK
<1>6. ASSUME NEW m \in InfoMsgs, Forwards(m) PROVE LoginTypes'
  BY <1>6, <1>t DEF Forwards, connections, LoginTypes, LoginTypeOK
<1>7. ASSUME NEW q \in Questions, AnswersPassword(q) PROVE LoginTypes'
  <2>1. [usr |-> q.usr, from |-> q.from] \in Verdicts
    BY DEF Questions, Verdicts
  <2>2. passwords' \subseteq Verdicts /\ loginToDb' \subseteq Questions
    BY <2>1, <1>7, <1>t DEF AnswersPassword
  <2> QED BY <2>2, <1>7, <1>t DEF AnswersPassword, connections, LoginTypes, LoginTypeOK
<1>8. ASSUME NEW q \in Questions, AnswersAll(q) PROVE LoginTypes'
  <2>1. infos' \subseteq InfoMsgs /\ loginToDb' \subseteq Questions
    BY <1>8, <1>t, AnswerType DEF AnswersAll
  <2> QED BY <2>1, <1>8, <1>t DEF AnswersAll, connections, LoginTypes, LoginTypeOK
<1>9. ASSUME Quiet \/ DbLost \/ LoginLoses PROVE LoginTypes'
  BY <1>9, <1>t DEF Quiet, DbLost, LoginLoses, loginState, connections, LoginTypes, LoginTypeOK
<1> QED BY <1>1, <1>2, <1>3, <1>4, <1>5, <1>6, <1>7, <1>8, <1>9 DEF StepKinds, Played, HandledMsg,
      Sends, Drops, SavesPlayer, SavesItem, SavesMsg, GateGone

LEMMA HistoryStep ==
    ASSUME TypeInv, StepKinds
    PROVE  HistoryTypes'
<1>t. /\ online \subseteq Users /\ fresh \subseteq Users /\ ops \in Nat
      /\ asks \in [Clients -> AskTypes \cup {None}]
      /\ applied \in Seq(SaveMsgs)
      /\ unsaved \in [Users -> SUBSET Items]
  BY DEF TypeInv, HistoryTypes
<1>1. ASSUME online' \subseteq Users, ops' \in Nat, UNCHANGED history PROVE HistoryTypes'
  BY <1>1, <1>t DEF history, HistoryTypes
<1>2. ASSUME NEW c \in Clients, NEW u \in Users, NEW pass \in Passwords, Ask(c, u, pass)
      PROVE  HistoryTypes'
  <2>1. (~LoginUnderWay(u)) \in BOOLEAN /\ Len(applied) \in Nat
    BY <1>t, SeqTypes DEF LoginUnderWay
  <2>2. [usr |-> u, pass |-> pass, applied |-> Len(applied), alone |-> ~LoginUnderWay(u)] \in AskTypes
    BY <2>1 DEF AskTypes
  <2>3. asks' \in [Clients -> AskTypes \cup {None}]
    BY <1>2, <2>2, <1>t DEF Ask
  <2> QED BY <1>2, <2>3, <1>t DEF Ask, HistoryTypes
<1>3. ASSUME NEW m \in InfoMsgs \cup ClientMsgs, HandledMsg(m), RunKinds(m)
      PROVE  HistoryTypes'
  <2>0. m.usr \in Users /\ UNCHANGED <<online, ops, asks, applied>>
    BY <1>3, MsgTypes DEF HandledMsg
  <2>g. ASSUME fresh' \subseteq Users, unsaved' \in [Users -> SUBSET Items] PROVE HistoryTypes'
    BY <2>g, <2>0, <1>t DEF HistoryTypes
  <2>1. CASE Loaded(m)
    <3>1. PICK inv \in InitInventory(m.items) :
             unsaved' = [unsaved EXCEPT ![m.usr] = Present(m.items) \ inv.m_baseBag]
      BY <2>1 DEF Loaded
    <3>2. unsaved' \in [Users -> SUBSET Items]
      BY <3>1, <1>t DEF Present
    <3>3. fresh' \subseteq Users
      BY <2>0, <2>1, <1>t DEF Loaded
    <3> QED BY <3>2, <3>3, <2>g
  <2>2. CASE Ignored(m) \/ Moved(m) \/ Exited(m)
    BY <2>2, <2>g, <1>t DEF Ignored, Moved, Exited
  <2>3. ASSUME NEW o, ItemUsed(m, o) PROVE HistoryTypes'
    <3>1. m.item \in Items /\ fresh' = fresh /\ (Changed(m, o) \/ ChangedAndSaved(m, o))
      BY <2>3 DEF ItemUsed
    <3>2. unsaved' \in [Users -> SUBSET Items]
      BY <3>1, <2>0, <1>t DEF Changed, ChangedAndSaved
    <3> QED BY <3>1, <3>2, <2>g, <1>t
  <2> QED BY <1>3, <2>1, <2>2, <2>3 DEF RunKinds
<1>4. ASSUME LogsIn, UNCHANGED answered PROVE HistoryTypes'
  <2>1. online' = online /\ UNCHANGED <<ops, history>>
    BY <1>4 DEF LogsIn
  <2> QED BY <2>1, <1>1, <1>t
<1>5. ASSUME NEW m \in infos, Succeeds(m), LogsIn PROVE HistoryTypes'
  <2>1. m.usr \in Users /\ answered \in [Clients -> InfoMsgs \cup {None}]
    BY DEF TypeInv, LoginTypes, InfoMsgs
  <2>2. \A c \in Clients : answered'[c] # answered[c] => answered'[c].usr \in Users
    BY <1>5, <2>1 DEF Succeeds
  <2>3. online' \subseteq Users
    BY <2>2, <1>5, <1>t DEF LogsIn
  <2> QED BY <2>3, <1>5, <1>1, <1>t DEF LogsIn
<1>6. ASSUME NEW m \in SaveMsgs, SavesMsg(m) PROVE HistoryTypes'
  <2>1. Append(applied, m) \in Seq(SaveMsgs)
    BY <1>t, SeqTypes
  <2> QED BY <2>1, <1>6, <1>t DEF SavesMsg, HistoryTypes
<1>7. ASSUME NEW r, login_request(r) \/ login_verify(r), LogsIn PROVE HistoryTypes'
  BY <1>4, <1>7 DEF login_request, login_verify
<1>8. ASSUME NEW m, Played(m) PROVE HistoryTypes'
  BY <1>8, <1>1, <1>t DEF Played
<1> QED BY <1>1, <1>2, <1>3, <1>5, <1>6, <1>7, <1>8, <1>t DEF StepKinds, Quiet, Sends, Drops,
      Forwards, AnswersPassword, AnswersAll, SavesPlayer, SavesItem, DbLost, GateGone, LoginLoses

LEMMA ConnStep ==
    ASSUME TypeInv, StepKinds
    PROVE  /\ ConnInv'
           /\ toDb' \subseteq SaveMsgs
           /\ m_connections' \subseteq Servers /\ ended' \subseteq Servers
           /\ sending' \in BOOLEAN /\ gameRunning' \in BOOLEAN
<1>t. /\ running <=> "db" \notin ended
      /\ running \in BOOLEAN
      /\ Servers \ ended \subseteq m_connections
      /\ ended = {} => sending
      /\ toDb \subseteq SaveMsgs
      /\ m_connections \subseteq Servers /\ ended \subseteq Servers
      /\ sending \in BOOLEAN /\ gameRunning \in BOOLEAN
  BY DEF TypeInv, ConnInv, GameTypes, DbTypes
<1> DEFINE Goal == /\ ConnInv'
                   /\ toDb' \subseteq SaveMsgs
                   /\ m_connections' \subseteq Servers /\ ended' \subseteq Servers
                   /\ sending' \in BOOLEAN /\ gameRunning' \in BOOLEAN
<1>1. ASSUME UNCHANGED <<running, ended, m_connections, sending>>, toDb' \subseteq SaveMsgs,
             gameRunning' \in BOOLEAN
      PROVE  Goal
  BY <1>1, <1>t DEF ConnInv
<1>2. ASSUME Quiet PROVE Goal
  BY <1>2, <1>t DEF Quiet, dbVars, ConnInv
<1>3. ASSUME NEW e \in SendMsgs, Sends(e) PROVE Goal
  <2>1. toDb' \subseteq SaveMsgs
    BY <1>3, <1>t, SentTypes DEF Sends
  <2> HIDE DEF Goal
  <2> QED BY <2>1, <1>1, <1>3, <1>t DEF Sends, dbVars
<1>4. ASSUME NEW e \in SendMsgs, Drops(e) PROVE Goal
  BY <1>4, <1>t DEF Drops, dbVars, ConnInv
<1>5. ASSUME NEW m \in SaveMsgs, SavesMsg(m) PROVE Goal
  BY <1>5, <1>t DEF SavesMsg, ConnInv
<1>6. ASSUME DbLost PROVE Goal
  <2>1. "db" \in Servers
    BY DEF Servers
  <2> QED BY <2>1, <1>6, <1>t DEF DbLost, ConnInv
<1>7. ASSUME GateGone PROVE Goal
  <2>1. "gate" \in Servers /\ "gate" # "db"
    BY DEF Servers
  <2> QED BY <2>1, <1>7, <1>t DEF GateGone, dbVars, ConnInv
<1>8. ASSUME NEW m \in InfoMsgs \cup ClientMsgs, HandledMsg(m), RunKinds(m) PROVE Goal
  <2>1. gameRunning' \in BOOLEAN
    BY <1>8, <1>t DEF RunKinds, Loaded, Ignored, Exited, Moved, ItemUsed
  <2> HIDE DEF Goal
  <2> QED BY <2>1, <1>1, <1>8, <1>t DEF HandledMsg, dbVars
<1>9. ASSUME UNCHANGED <<running, ended, m_connections, toDb, sending, gameRunning>> PROVE Goal
  BY <1>9, <1>t DEF ConnInv
<1> HIDE DEF Goal
<1>10. ASSUME NEW c, NEW u, NEW pass, Ask(c, u, pass) PROVE Goal
  BY <1>9, <1>10 DEF Ask, gameVars, dbVars
<1>11. ASSUME NEW m, Played(m) PROVE Goal
  BY <1>9, <1>11 DEF Played, network, dbVars
<1>12. ASSUME NEW m, LogsIn \/ Forwards(m) \/ LoginLoses PROVE Goal
  BY <1>9, <1>12 DEF LogsIn, Forwards, LoginLoses, gameVars, network, dbVars
<1>13. ASSUME NEW u, AnswersPassword(u) \/ AnswersAll(u) PROVE Goal
  BY <1>9, <1>13 DEF AnswersPassword, AnswersAll, gameVars
<1>14. ASSUME NEW m \in SaveMsgs, SavesPlayer(m) \/ SavesItem(m) PROVE Goal
  BY <1>5, <1>14 DEF SavesPlayer, SavesItem
<1>15. Goal
  BY <1>2, <1>3, <1>4, <1>6, <1>7, <1>8, <1>10, <1>11, <1>12, <1>13, <1>14 DEF StepKinds
<1> QED BY <1>15 DEF Goal

LEMMA TypeStep ==
    ASSUME TypeInv, StepKinds
    PROVE  TypeInv'
<1>1. GameTypes'
  BY PlayersStep, FromGateStep, QueueStep, ConnStep DEF GameTypes, PlayersType, QueueTypes
<1> QED BY <1>1, HistoryStep, LoginStepTypes, DbStep, ConnStep DEF TypeInv

LEMMA TypeInit ==
    ASSUME SessionInit
    PROVE  TypeInv
<1>1. GameTypes
  <2>1. /\ g_send_queue = <<>> /\ Len(<<>>) = 0 /\ <<>> \in Seq(SendMsgs) /\ <<>> \in Seq(SaveMsgs)
    BY DEF SessionInit, GameInit
  <2> QED BY <2>1, SlotsAssumption DEF SessionInit, GameInit, GameTypes, Servers
<1>2. LoginTypes
  BY DEF SessionInit, LoginInit, LoginTypes, LoginTypeOK
<1>3. DbTypes
  BY SessionAssumption DEF SessionInit, DbTypes, ItemRows
<1>4. HistoryTypes
  BY DEF SessionInit, HistoryTypes
<1>5. ConnInv
  BY DEF SessionInit, GameInit, ConnInv
<1> QED BY <1>1, <1>2, <1>3, <1>4, <1>5 DEF TypeInv

\* The types, and that only a connection that has ended is erased or stops the
\* send thread, hold in every state: the other theorems stand on this invariant.
THEOREM Invariance == SessionSpec => []TypeInv
<1>1. SessionInit => TypeInv
  BY TypeInit
<1>2. TypeInv /\ [SessionNext]_sessionVars => TypeInv'
  BY StepCases, TypeStep
<1> QED BY <1>1, <1>2, PTL DEF SessionSpec

-----------------------------------------------------------------------------
(* Where the saves are, by their numbers: in the queue q, between the      *)
(* servers d, with the db server a.                                        *)

ForDb(q) == {k \in DOMAIN q : q[k].to = "db"}
NumbersIn(q) == {q[k].n : k \in ForDb(q)}
Distinct(q) == \A j, k \in ForDb(q) : q[j].n = q[k].n => j = k
From(q, s) == \A k \in ForDb(q) : q[k] = s[q[k].n]

LEMMA QueueAppends ==
    ASSUME NEW q \in Seq(SendMsgs), NEW e \in SendMsgs, Distinct(q),
           e.to = "db" => e.n \notin NumbersIn(q)
    PROVE  /\ Distinct(Append(q, e))
           /\ NumbersIn(Append(q, e)) = NumbersIn(q) \cup (IF e.to = "db" THEN {e.n} ELSE {})
           /\ \A k \in ForDb(Append(q, e)) :
                 \/ Append(q, e)[k] = e /\ e.to = "db"
                 \/ \E j \in ForDb(q) : Append(q, e)[k] = q[j]
<1> DEFINE t == Append(q, e)
           n == Len(q) + 1
<1>1. /\ DOMAIN t = 1 .. n /\ DOMAIN q = 1 .. n - 1 /\ n \in Nat \ {0}
      /\ t[n] = e /\ \A k \in 1 .. n - 1 : t[k] = q[k]
  OBVIOUS
<1>2. \A k \in 1 .. n : k \in 1 .. n - 1 \/ k = n
  BY <1>1
<1>3. n \notin 1 .. n - 1 /\ n \in 1 .. n /\ 1 .. n - 1 \subseteq 1 .. n
  BY <1>1
<1> HIDE DEF t, n
<1>4. /\ \A k \in ForDb(t) : (k = n /\ t[k] = e /\ e.to = "db") \/ (k \in ForDb(q) /\ t[k] = q[k])
      /\ \A k \in ForDb(q) : k \in ForDb(t) /\ t[k] = q[k]
      /\ e.to = "db" => n \in ForDb(t)
  BY <1>1, <1>2, <1>3 DEF ForDb
<1>5. NumbersIn(t) = NumbersIn(q) \cup (IF e.to = "db" THEN {e.n} ELSE {})
  <2>1. ASSUME NEW x \in NumbersIn(t) PROVE x \in NumbersIn(q) \/ (e.to = "db" /\ x = e.n)
    BY <1>4 DEF NumbersIn
  <2>2. ASSUME NEW x \in NumbersIn(q) PROVE x \in NumbersIn(t)
    BY <1>4 DEF NumbersIn
  <2>3. e.to = "db" => e.n \in NumbersIn(t)
    BY <1>1, <1>4 DEF NumbersIn
  <2> QED BY <2>1, <2>2, <2>3
<1>6. Distinct(t)
  <2> SUFFICES ASSUME NEW j \in ForDb(t), NEW k \in ForDb(t), t[j].n = t[k].n PROVE j = k
    BY DEF Distinct
  <2>1. \A i \in ForDb(q) : e.to = "db" => q[i].n # e.n
    BY DEF NumbersIn
  <2> QED BY <2>1, <1>4 DEF Distinct
<1>7. \A k \in ForDb(t) : (t[k] = e /\ e.to = "db") \/ \E j \in ForDb(q) : t[k] = q[j]
  BY <1>4
<1> QED BY <1>5, <1>6, <1>7 DEF t

LEMMA QueueTail ==
    ASSUME NEW q \in Seq(SendMsgs), q # <<>>, Distinct(q)
    PROVE  /\ Distinct(Tail(q))
           /\ NumbersIn(q) = NumbersIn(Tail(q)) \cup (IF Head(q).to = "db" THEN {Head(q).n} ELSE {})
           /\ Head(q).to = "db" => /\ Head(q).n \notin NumbersIn(Tail(q))
                                   /\ \E j \in ForDb(q) : Head(q) = q[j]
           /\ \A k \in ForDb(Tail(q)) : \E j \in ForDb(q) : Tail(q)[k] = q[j]
<1> DEFINE t == Tail(q)
           n == Len(q)
<1>1. /\ DOMAIN q = 1 .. n /\ DOMAIN t = 1 .. n - 1 /\ n \in Nat \ {0}
      /\ Head(q) = q[1] /\ \A k \in 1 .. n - 1 : t[k] = q[k + 1]
  OBVIOUS
<1>2. /\ \A k \in 1 .. n - 1 : k + 1 \in 1 .. n /\ k + 1 # 1
      /\ \A k \in 1 .. n : k = 1 \/ k - 1 \in 1 .. n - 1
      /\ \A k \in 1 .. n : k - 1 + 1 = k
      /\ \A j, k \in 1 .. n - 1 : j + 1 = k + 1 => j = k
      /\ 1 \in 1 .. n
  BY <1>1
<1> HIDE DEF t, n
<1>3. /\ \A k \in ForDb(t) : k \in 1 .. n - 1 /\ k + 1 \in ForDb(q) /\ t[k] = q[k + 1] /\ k + 1 # 1
      /\ \A k \in ForDb(q) : k = 1 \/ (k - 1 \in ForDb(t) /\ t[k - 1] = q[k])
      /\ Head(q).to = "db" <=> 1 \in ForDb(q)
  <2>1. \A k \in 1 .. n : k # 1 => t[k - 1] = q[k]
    BY <1>1, <1>2
  <2> QED BY <2>1, <1>1, <1>2 DEF ForDb
<1>4. NumbersIn(q) = NumbersIn(t) \cup (IF Head(q).to = "db" THEN {Head(q).n} ELSE {})
  <2>1. ASSUME NEW x \in NumbersIn(q)
        PROVE  x \in NumbersIn(t) \/ (Head(q).to = "db" /\ x = Head(q).n)
    <3>1. PICK k \in ForDb(q) : x = q[k].n
      BY DEF NumbersIn
    <3> QED BY <3>1, <1>1, <1>3 DEF NumbersIn
  <2>2. ASSUME NEW x \in NumbersIn(t) PROVE x \in NumbersIn(q)
    BY <1>3 DEF NumbersIn
  <2>3. Head(q).to = "db" => Head(q).n \in NumbersIn(q)
    BY <1>1, <1>3 DEF NumbersIn
  <2> QED BY <2>1, <2>2, <2>3
<1>5. Distinct(t)
  <2> SUFFICES ASSUME NEW j \in ForDb(t), NEW k \in ForDb(t), t[j].n = t[k].n PROVE j = k
    BY DEF Distinct
  <2>1. j + 1 = k + 1
    BY <1>3 DEF Distinct
  <2> QED BY <2>1, <1>2, <1>3
<1>6. Head(q).to = "db" => Head(q).n \notin NumbersIn(t) /\ \E j \in ForDb(q) : Head(q) = q[j]
  <2> SUFFICES ASSUME Head(q).to = "db"
               PROVE  Head(q).n \notin NumbersIn(t) /\ \E j \in ForDb(q) : Head(q) = q[j]
    OBVIOUS
  <2>1. 1 \in ForDb(q) /\ Head(q) = q[1]
    BY <1>1, <1>3
  <2>2. ASSUME Head(q).n \in NumbersIn(t) PROVE FALSE
    <3>1. PICK k \in ForDb(t) : Head(q).n = t[k].n
      BY <2>2 DEF NumbersIn
    <3> QED BY <3>1, <2>1, <1>3 DEF Distinct
  <2> QED BY <2>1, <2>2
<1>7. \A k \in ForDb(t) : \E j \in ForDb(q) : t[k] = q[j]
  BY <1>3
<1> QED BY <1>4, <1>5, <1>6, <1>7 DEF t

Carried(d) == {m.n : m \in d}

Nums(q, d, a, s) ==
    /\ Distinct(q) /\ Distinct(a)
    /\ From(q, s) /\ From(a, s) /\ \A m \in d : m = s[m.n]
    /\ \A k \in DOMAIN s : s[k].n = k
    /\ NumbersIn(a) \cap Carried(d) = {} /\ NumbersIn(q) \cap (NumbersIn(a) \cup Carried(d)) = {}
    /\ NumbersIn(q) \cup NumbersIn(a) \cup Carried(d) \subseteq DOMAIN s

Complete(q, d, a, s) == DOMAIN s \subseteq NumbersIn(q) \cup NumbersIn(a) \cup Carried(d)

LEMMA NumsSaved ==
    ASSUME NEW q \in Seq(SendMsgs), NEW d \in SUBSET SaveMsgs, NEW a \in Seq(SendMsgs),
           NEW s \in Seq(SaveMsgs), NEW e \in SaveMsgs, e.n = Len(s) + 1, Nums(q, d, a, s)
    PROVE  /\ Nums(Append(q, e), d, a, Append(s, e))
           /\ Complete(q, d, a, s) => Complete(Append(q, e), d, a, Append(s, e))
<1> DEFINE r == Append(q, e)
           t == Append(s, e)
<1>1. /\ DOMAIN s = 1 .. Len(s) /\ DOMAIN t = 1 .. Len(s) + 1 /\ Len(s) \in Nat
      /\ t[Len(s) + 1] = e /\ \A k \in 1 .. Len(s) : t[k] = s[k]
  OBVIOUS
<1>2. /\ DOMAIN t = DOMAIN s \cup {e.n} /\ e.n \notin DOMAIN s /\ t[e.n] = e
      /\ \A k \in DOMAIN s : t[k] = s[k]
  BY <1>1
<1>3. e \in SendMsgs /\ e.to = "db" /\ e.n \notin NumbersIn(q)
  BY <1>2, SentTypes DEF Nums
<1>4. /\ Distinct(r) /\ NumbersIn(r) = NumbersIn(q) \cup {e.n}
      /\ \A k \in ForDb(r) : r[k] = e \/ \E j \in ForDb(q) : r[k] = q[j]
  <2>1. Distinct(q)
    BY DEF Nums
  <2>2. /\ Distinct(r)
        /\ NumbersIn(r) = NumbersIn(q) \cup (IF e.to = "db" THEN {e.n} ELSE {})
        /\ \A k \in ForDb(r) :
              \/ r[k] = e /\ e.to = "db"
              \/ \E j \in ForDb(q) : r[k] = q[j]
    BY <1>3, <2>1, QueueAppends
  <2> HIDE DEF r
  <2> QED BY <1>3, <2>2
<1> HIDE DEF r, t
<1>5. /\ \A k \in ForDb(q) : q[k].n \in DOMAIN s
      /\ \A k \in ForDb(a) : a[k].n \in DOMAIN s
      /\ \A m \in d : m.n \in DOMAIN s
  BY DEF Nums, NumbersIn, Carried
<1>6. From(r, t)
  BY <1>2, <1>4, <1>5 DEF Nums, From
<1>7. From(a, t) /\ \A m \in d : m = t[m.n]
  BY <1>2, <1>5 DEF Nums, From
<1>8. \A k \in DOMAIN t : t[k].n = k
  BY <1>2 DEF Nums
<1>9. e.n \notin NumbersIn(a) /\ e.n \notin Carried(d)
  BY <1>2 DEF Nums
<1>10. Nums(r, d, a, t)
  <2>1. Distinct(a) /\ NumbersIn(a) \cap Carried(d) = {}
    BY DEF Nums
  <2>2. NumbersIn(r) \cap (NumbersIn(a) \cup Carried(d)) = {}
    BY <1>4, <1>9 DEF Nums
  <2>3. NumbersIn(r) \cup NumbersIn(a) \cup Carried(d) \subseteq DOMAIN t
    BY <1>2, <1>4 DEF Nums
  <2> QED BY <1>4, <1>6, <1>7, <1>8, <2>1, <2>2, <2>3 DEF Nums
<1>11. Complete(q, d, a, s) => Complete(r, d, a, t)
  BY <1>2, <1>4 DEF Complete
<1> QED BY <1>10, <1>11 DEF r, t

LEMMA NumsOther ==
    ASSUME NEW q \in Seq(SendMsgs), NEW d, NEW a, NEW s,
           NEW e \in SendMsgs, e.to # "db", Nums(q, d, a, s)
    PROVE  /\ Nums(Append(q, e), d, a, s)
           /\ Complete(q, d, a, s) => Complete(Append(q, e), d, a, s)
<1> DEFINE r == Append(q, e)
<1>1. /\ Distinct(r) /\ NumbersIn(r) = NumbersIn(q)
      /\ \A k \in ForDb(r) : \E j \in ForDb(q) : r[k] = q[j]
  <2>1. Distinct(q)
    BY DEF Nums
  <2>2. /\ Distinct(r)
        /\ NumbersIn(r) = NumbersIn(q) \cup (IF e.to = "db" THEN {e.n} ELSE {})
        /\ \A k \in ForDb(r) :
              \/ r[k] = e /\ e.to = "db"
              \/ \E j \in ForDb(q) : r[k] = q[j]
    BY <2>1, QueueAppends
  <2> HIDE DEF r
  <2> QED BY <2>2
<1> HIDE DEF r
<1>2. From(r, s)
  BY <1>1 DEF Nums, From
<1> QED BY <1>1, <1>2 DEF Nums, Complete, r

LEMMA NumsSent ==
    ASSUME NEW q \in Seq(SendMsgs), q # <<>>, NEW d, NEW a, NEW s, Nums(q, d, a, s)
    PROVE  /\ Nums(Tail(q), IF Head(q).to = "db" THEN d \cup {Head(q)} ELSE d, a, s)
           /\ Complete(q, d, a, s) =>
                 Complete(Tail(q), IF Head(q).to = "db" THEN d \cup {Head(q)} ELSE d, a, s)
           /\ Nums(Tail(q), d, a, s)
           /\ Complete(q, d, a, s) /\ Head(q).to # "db" => Complete(Tail(q), d, a, s)
<1> DEFINE t == Tail(q)
           e == Head(q)
<1>1. /\ Distinct(t) /\ NumbersIn(q) = NumbersIn(t) \cup (IF e.to = "db" THEN {e.n} ELSE {})
      /\ e.to = "db" => e.n \notin NumbersIn(t) /\ \E j \in ForDb(q) : e = q[j]
      /\ \A k \in ForDb(t) : \E j \in ForDb(q) : t[k] = q[j]
  BY QueueTail DEF Nums
<1> HIDE DEF t, e
<1>2. From(t, s)
  BY <1>1 DEF Nums, From
<1>3. Nums(t, d, a, s) /\ (Complete(q, d, a, s) /\ e.to # "db" => Complete(t, d, a, s))
  BY <1>1, <1>2 DEF Nums, Complete
<1>4. CASE e.to = "db"
  <2> DEFINE b == d \cup {e}
  <2>1. Carried(b) = Carried(d) \cup {e.n}
    BY DEF Carried
  <2>2. e = s[e.n]
    BY <1>1, <1>4 DEF Nums, From
  <2>3. \A m \in b : m = s[m.n]
    BY <2>2 DEF Nums
  <2>4. e.n \in NumbersIn(q)
    BY <1>1, <1>4
  <2> HIDE DEF b
  <2>5. /\ NumbersIn(a) \cap Carried(b) = {} /\ NumbersIn(t) \cap (NumbersIn(a) \cup Carried(b)) = {}
        /\ NumbersIn(t) \cup NumbersIn(a) \cup Carried(b) \subseteq DOMAIN s
    BY <1>1, <1>4, <2>1, <2>4 DEF Nums
  <2>6. Nums(t, b, a, s)
    BY <1>1, <1>2, <2>3, <2>5 DEF Nums
  <2>7. Complete(q, d, a, s) => Complete(t, b, a, s)
    BY <1>1, <1>4, <2>1 DEF Complete
  <2> QED BY <1>3, <1>4, <2>6, <2>7 DEF b, t, e
<1>5. CASE e.to # "db"
  BY <1>3, <1>5 DEF t, e
<1> QED BY <1>4, <1>5

LEMMA NumsHandled ==
    ASSUME NEW q, NEW d, NEW a \in Seq(SendMsgs), NEW s, NEW m \in d, m \in SaveMsgs, Nums(q, d, a, s)
    PROVE  /\ Nums(q, d \ {m}, Append(a, m), s)
           /\ Complete(q, d, a, s) => Complete(q, d \ {m}, Append(a, m), s)
<1> DEFINE b == Append(a, m)
           c == d \ {m}
<1>1. m \in SendMsgs /\ m.to = "db"
  BY SentTypes
<1>2. m.n \in Carried(d) /\ m.n \notin NumbersIn(a) /\ m = s[m.n]
  BY DEF Carried, Nums
<1>3. /\ Distinct(b) /\ NumbersIn(b) = NumbersIn(a) \cup {m.n}
      /\ \A k \in ForDb(b) : b[k] = m \/ \E j \in ForDb(a) : b[k] = a[j]
  <2>1. Distinct(a)
    BY DEF Nums
  <2>2. /\ Distinct(b)
        /\ NumbersIn(b) = NumbersIn(a) \cup (IF m.to = "db" THEN {m.n} ELSE {})
        /\ \A k \in ForDb(b) :
              \/ b[k] = m /\ m.to = "db"
              \/ \E j \in ForDb(a) : b[k] = a[j]
    BY <1>1, <1>2, <2>1, QueueAppends
  <2> HIDE DEF b
  <2> QED BY <1>1, <2>2
<1> HIDE DEF b
<1>4. From(b, s)
  BY <1>2, <1>3 DEF Nums, From
<1>5. Carried(c) \cup {m.n} = Carried(d) /\ m.n \notin Carried(c)
  BY DEF Nums, Carried
<1> HIDE DEF c
<1>6. /\ NumbersIn(b) \cap Carried(c) = {} /\ NumbersIn(q) \cap (NumbersIn(b) \cup Carried(c)) = {}
      /\ NumbersIn(q) \cup NumbersIn(b) \cup Carried(c) \subseteq DOMAIN s
  BY <1>3, <1>5 DEF Nums
<1>7. \A e \in c : e = s[e.n]
  BY DEF Nums, c
<1>8. Nums(q, c, b, s)
  BY <1>3, <1>4, <1>6, <1>7 DEF Nums
<1>9. Complete(q, d, a, s) => Complete(q, c, b, s)
  BY <1>3, <1>5 DEF Complete
<1> QED BY <1>8, <1>9 DEF b, c

LEMMA NumsLost ==
    ASSUME NEW q, NEW d, NEW a, NEW s, Nums(q, d, a, s)
    PROVE  Nums(q, {}, a, s)
<1>1. Carried({}) = {}
  BY DEF Carried
<1> QED BY <1>1 DEF Nums

NumsInv ==
    /\ Nums(g_send_queue, toDb, applied, saves)
    /\ "db" \notin ended => Complete(g_send_queue, toDb, applied, saves)

LEMMA NumsStep ==
    ASSUME TypeInv, StepKinds, NumsInv
    PROVE  NumsInv'
<1>t. /\ g_send_queue \in Seq(SendMsgs) /\ saves \in Seq(SaveMsgs) /\ applied \in Seq(SendMsgs)
      /\ toDb \in SUBSET SaveMsgs /\ m_players \in [Users -> PlayerRecords \cup {None}]
  <2>1. Seq(SaveMsgs) \subseteq Seq(SendMsgs)
    BY SentTypes
  <2> QED BY <2>1 DEF TypeInv, GameTypes, HistoryTypes
<1>0. Len(saves) \in Nat
  BY <1>t, SeqTypes
<1>1. ASSUME UNCHANGED <<g_send_queue, toDb, applied, saves>>, ended \subseteq ended' PROVE NumsInv'
  BY <1>1 DEF NumsInv
<1>2. ASSUME NEW f \in SendMsgs, f.to # "db", g_send_queue' = Append(g_send_queue, f),
             UNCHANGED <<toDb, applied, saves, ended>>
      PROVE  NumsInv'
  BY <1>2, <1>t, NumsOther DEF NumsInv
<1>3. ASSUME NEW e \in SaveMsgs, e.n = Len(saves) + 1, g_send_queue' = Append(g_send_queue, e),
             saves' = Append(saves, e), UNCHANGED <<toDb, applied, ended>>
      PROVE  NumsInv'
  BY <1>3, <1>t, NumsSaved DEF NumsInv
<1>4. ASSUME NEW e \in SaveMsgs, e.n = Len(saves) + 1, NEW f \in SendMsgs, f.to # "db",
             g_send_queue' = Append(Append(g_send_queue, e), f),
             saves' = Append(saves, e), UNCHANGED <<toDb, applied, ended>>
      PROVE  NumsInv'
  <2> DEFINE r == Append(g_send_queue, e)
             s == Append(saves, e)
  <2>1. /\ Nums(r, toDb, applied, s)
        /\ "db" \notin ended => Complete(r, toDb, applied, s)
    BY <1>4, <1>t, NumsSaved DEF NumsInv
  <2>2. r \in Seq(SendMsgs)
    BY <1>t, SeqTypes, SentTypes
  <2>3. g_send_queue' = Append(r, f) /\ saves' = s
    BY <1>4
  <2> HIDE DEF r, s
  <2>4. /\ Nums(Append(r, f), toDb, applied, s)
        /\ "db" \notin ended => Complete(Append(r, f), toDb, applied, s)
    BY <2>1, <2>2, <1>4, NumsOther
  <2> QED BY <2>3, <2>4, <1>4 DEF NumsInv
<1>5. ASSUME NEW e \in SendMsgs, Sends(e) PROVE NumsInv'
  <2>1. /\ g_send_queue # <<>> /\ e = Head(g_send_queue) /\ g_send_queue' = Tail(g_send_queue)
        /\ toDb' = IF e.to = "db" THEN toDb \cup {e} ELSE toDb
        /\ UNCHANGED <<applied, saves, ended>>
    BY <1>5 DEF Sends, history
  <2> QED BY <2>1, <1>t, NumsSent DEF NumsInv
<1>6. ASSUME NEW e \in SendMsgs, Drops(e) PROVE NumsInv'
  <2>1. /\ g_send_queue # <<>> /\ e = Head(g_send_queue) /\ g_send_queue' = Tail(g_send_queue)
        /\ e.to \in ended
        /\ UNCHANGED <<toDb, applied, saves, ended>>
    BY <1>6 DEF Drops, history
  <2>2. "db" \notin ended => e.to # "db"
    BY <2>1
  <2> QED BY <2>1, <2>2, <1>t, NumsSent DEF NumsInv
<1>7. ASSUME NEW m \in SaveMsgs, SavesMsg(m) PROVE NumsInv'
  BY <1>7, <1>t, NumsHandled DEF SavesMsg, NumsInv
<1>8. ASSUME DbLost PROVE NumsInv'
  BY <1>8, NumsLost DEF DbLost, NumsInv, history
<1>9. ASSUME NEW m \in InfoMsgs \cup ClientMsgs, HandledMsg(m), RunKinds(m) PROVE NumsInv'
  <2>0. m.usr \in Users /\ UNCHANGED <<toDb, applied, ended>>
    BY <1>9, MsgTypes DEF HandledMsg
  <2>f. \A type \in {"USERSYNC", "USEREXIT"} :
           LET f == [type |-> type, usr |-> m.usr, to |-> "gate"]
           IN f \in SendMsgs /\ f.to # "db"
    BY <2>0, SentTypes
  <2>1. CASE Loaded(m) \/ Ignored(m)
    BY <2>0, <2>1, <1>1 DEF Loaded, Ignored
  <2>2. CASE Exited(m)
    <3>1. m_players[m.usr] \in PlayerRecords
      BY <2>2, <2>0, <1>t DEF Exited
    <3> DEFINE e == savePlayer(m.usr, m_players[m.usr].pos)
    <3>2. e \in SaveMsgs
      BY <3>1, <2>0, <1>t, SaveTypes DEF PlayerRecords
    <3>3. e.n = Len(saves) + 1
      BY DEF savePlayer
    <3> QED BY <3>2, <3>3, <2>0, <2>2, <2>f, <1>4 DEF Exited
  <2>3. CASE Moved(m)
    BY <2>3, <2>0, <2>f, <1>2 DEF Moved
  <2>4. ASSUME NEW o, ItemUsed(m, o) PROVE NumsInv'
    <3>1. CASE Changed(m, o)
      BY <3>1, <2>0, <1>1 DEF Changed
    <3>2. CASE ChangedAndSaved(m, o)
      <4> DEFINE e == saveItem(m.usr, m.item, o.inv)
      <4>1. /\ m.item \in Items /\ o.inv \in Inventories /\ Has(o.inv, m.item)
        BY <3>2, <2>4 DEF ItemUsed, GoodOutcome, Outcomes, ChangedAndSaved
      <4>2. e \in SaveMsgs
        BY <4>1, <2>0, <1>t, SaveTypes
      <4>3. e.n = Len(saves) + 1
        BY DEF saveItem
      <4> QED BY <4>2, <4>3, <3>2, <2>0, <1>3 DEF ChangedAndSaved
    <3> QED BY <3>1, <3>2, <2>4 DEF ItemUsed
  <2> QED BY <1>9, <2>1, <2>2, <2>3, <2>4 DEF RunKinds
<1>10. ASSUME NEW c, NEW u, NEW pass, Ask(c, u, pass) PROVE NumsInv'
  BY <1>10, <1>1 DEF Ask, gameVars
<1>11. ASSUME NEW m, Played(m) \/ Forwards(m) PROVE NumsInv'
  BY <1>11, <1>1 DEF Played, Forwards, network, history
<1>12. ASSUME Quiet \/ LogsIn \/ GateGone \/ LoginLoses PROVE NumsInv'
  BY <1>12, <1>1 DEF Quiet, LogsIn, GateGone, LoginLoses, gameVars, history
<1>13. ASSUME NEW q, AnswersPassword(q) \/ AnswersAll(q) PROVE NumsInv'
  BY <1>13, <1>1 DEF AnswersPassword, AnswersAll, gameVars, history
<1>14. ASSUME NEW m \in SaveMsgs, SavesPlayer(m) \/ SavesItem(m) PROVE NumsInv'
  BY <1>7, <1>14 DEF SavesPlayer, SavesItem
<1> HIDE DEF NumsInv
<1> QED BY <1>5, <1>6, <1>8, <1>9, <1>10, <1>11, <1>12, <1>13, <1>14 DEF StepKinds

LEMMA NumsInit ==
    ASSUME SessionInit
    PROVE  NumsInv
<1>1. g_send_queue = <<>> /\ toDb = {} /\ applied = <<>> /\ saves = <<>> /\ DOMAIN <<>> = {}
  BY DEF SessionInit, GameInit
<1> QED BY <1>1 DEF NumsInv, Nums, Complete, Distinct, From, NumbersIn, ForDb, Carried

LEMMA NumsAreSaves ==
    ASSUME TypeInv, NumsInv
    PROVE  SavesUnderWay
<1>1. applied \in Seq(SaveMsgs)
  BY DEF TypeInv, HistoryTypes
<1>2. \A k \in DOMAIN applied : applied[k] \in SaveMsgs
  BY <1>1
<1>3. ForDb(applied) = DOMAIN applied /\ ForDb(g_send_queue) = SavesQueued
  BY <1>2, SentTypes DEF ForDb, SavesQueued
<1>4. NumbersIn(applied) = Handled /\ NumbersIn(g_send_queue) = Queued /\ Carried(toDb) = Delivered
  BY <1>3 DEF NumbersIn, Carried, Handled, Queued, Delivered
<1>5. AreSaves
  BY <1>3, <1>4 DEF NumsInv, Nums, Distinct, From, AreSaves
<1>6. "db" \notin ended => Handled \cup Delivered \cup Queued = DOMAIN saves
  BY <1>4 DEF NumsInv, Nums, Complete
<1> QED BY <1>5, <1>6 DEF SavesUnderWay, TypeInv, ConnInv

\* game_server::usr_exit, Inventory::saveItem and Net::consume_msg: each save is
\* in the send queue, between the servers or with the db server, in one of these
\* only and as it was made, as long as their connection lasts; and the send
\* thread does not end before some connection has.
THEOREM SavesOnTheirWay == SessionSpec => []SavesUnderWay
<1>1. SessionInit => TypeInv /\ NumsInv
  BY TypeInit, NumsInit
<1>2. TypeInv /\ NumsInv /\ [SessionNext]_sessionVars => (TypeInv /\ NumsInv)'
  BY StepCases, TypeStep, NumsStep
<1>3. TypeInv /\ NumsInv => SavesUnderWay
  BY NumsAreSaves
<1> QED BY <1>1, <1>2, <1>3, PTL DEF SessionSpec

-----------------------------------------------------------------------------
(* The rows that are on their way from the db server to the game server.   *)

LEMMA InfosAre ==
    ASSUME TypeInv
    PROVE  InfosUnderWay \subseteq InfoMsgs
<1>1. infos \subseteq InfoMsgs /\ toGateServer \subseteq InfoMsgs /\ fromGate \subseteq InfoMsgs \cup ClientMsgs
  BY DEF TypeInv, LoginTypes, GameTypes
<1> QED BY <1>1, MsgTypes DEF InfosUnderWay

\* No step but an answer of the db server brings new rows.
LEMMA InfosStep ==
    ASSUME TypeInv, StepKinds, NEW m \in InfosUnderWay'
    PROVE  \/ m \in InfosUnderWay
           \/ \E q \in Questions : AnswersAll(q) /\ m = AnswerNow(q)
<1> DEFINE FromGateInfos == {e \in fromGate : e.type = "GET_ALLINFO"}
           New == {e \in {AnswerNow(q) : q \in Questions} : \E q \in Questions : AnswersAll(q) /\ e = AnswerNow(q)}
           Old == infos \cup toGateServer \cup FromGateInfos
<1>1. infos' \subseteq infos \cup New
  <2>1. CASE infos' \subseteq infos
    BY <2>1
  <2>2. ASSUME NEW q \in Questions, AnswersAll(q) PROVE infos' \subseteq infos \cup New
    BY <2>2 DEF AnswersAll
  <2> HIDE DEF New
  <2> QED BY <2>1, <2>2 DEF StepKinds, Ask, Played, HandledMsg, Quiet, Sends, Drops, login_request,
        login_verify, Succeeds, Forwards, AnswersPassword, SavesPlayer, SavesItem, SavesMsg, DbLost,
        GateGone, LoginLoses, loginVars, loginState
<1>2. toGateServer' \subseteq toGateServer \cup infos
  <2>1. CASE toGateServer' \subseteq toGateServer
    BY <2>1
  <2>2. ASSUME NEW e \in infos, Succeeds(e) PROVE toGateServer' \subseteq toGateServer \cup infos
    BY <2>2 DEF Succeeds
  <2> QED BY <2>1, <2>2 DEF StepKinds, Ask, Played, HandledMsg, Quiet, Sends, Drops, login_request,
        login_verify, Forwards, AnswersPassword, AnswersAll, SavesPlayer, SavesItem, SavesMsg, DbLost,
        GateGone, LoginLoses, loginVars, loginState
<1>3. \A e \in fromGate' : e \in fromGate \/ e \in toGateServer \/ e.type # "GET_ALLINFO"
  <2>1. CASE fromGate' \subseteq fromGate
    BY <2>1
  <2>2. ASSUME NEW c \in ClientMsgs, Played(c)
        PROVE  \A e \in fromGate' : e \in fromGate \/ e.type # "GET_ALLINFO"
    BY <2>2 DEF Played, ClientMsgs
  <2>3. ASSUME NEW e, Forwards(e) PROVE fromGate' \subseteq fromGate \cup toGateServer
    BY <2>3 DEF Forwards
  <2>4. ASSUME NEW e, HandledMsg(e) PROVE fromGate' \subseteq fromGate
    BY <2>4 DEF HandledMsg
  <2> QED BY <2>1, <2>2, <2>3, <2>4 DEF StepKinds, Ask, Quiet, Sends, Drops, LogsIn,
        AnswersPassword, AnswersAll, SavesPlayer, SavesItem, SavesMsg, DbLost,
        GateGone, LoginLoses, gameVars
<1>4. m \in Old \cup New
  <2> HIDE DEF New
  <2> QED BY <1>1, <1>2, <1>3 DEF InfosUnderWay
<1>5. Old = InfosUnderWay
  BY DEF InfosUnderWay
<1> QED BY <1>4, <1>5

AgesKnown == \A m \in InfosUnderWay : m.age \in 0 .. Len(applied)

\* The history only grows at its end.
LEMMA AppliedGrows ==
    ASSUME TypeInv, StepKinds
    PROVE  /\ applied \in Seq(SaveMsgs) /\ Len(applied) \in Nat /\ Len(applied') \in Nat
           /\ Len(applied) <= Len(applied')
           /\ \A k \in 1 .. Len(applied) : applied'[k] = applied[k]
<1>1. applied \in Seq(SaveMsgs) /\ Len(applied) \in Nat
  BY DEF TypeInv, HistoryTypes
<1>2. applied' = applied \/ \E m \in SaveMsgs : applied' = Append(applied, m)
  BY DEF StepKinds, Ask, Played, HandledMsg, Quiet, Sends, Drops, LogsIn, Forwards,
     AnswersPassword, AnswersAll, SavesPlayer, SavesItem, SavesMsg, DbLost, GateGone, LoginLoses, history
<1> QED BY <1>1, <1>2

LEMMA SavesGrow ==
    ASSUME TypeInv, StepKinds
    PROVE  /\ saves \in Seq(SaveMsgs) /\ Len(saves) \in Nat
           /\ saves' = saves \/ \E e : saves' = Append(saves, e)
           /\ \A k \in 1 .. Len(saves) : saves'[k] = saves[k]
<1>1. saves \in Seq(SaveMsgs) /\ Len(saves) \in Nat
  BY DEF TypeInv, GameTypes
<1>2. ASSUME NEW m, RunKinds(m) PROVE saves' = saves \/ \E e : saves' = Append(saves, e)
  BY <1>2 DEF RunKinds, Loaded, Ignored, Exited, Moved, ItemUsed, Changed, ChangedAndSaved
<1>3. saves' = saves \/ \E e : saves' = Append(saves, e)
  BY <1>2 DEF StepKinds, Ask, Played, Quiet, Sends, Drops, LogsIn, Forwards, LoginLoses,
     AnswersPassword, AnswersAll, SavesPlayer, SavesItem, SavesMsg, DbLost, GateGone, gameVars
<1>4. \A k \in 1 .. Len(saves) : saves'[k] = saves[k]
  BY <1>1, <1>3
<1> QED BY <1>1, <1>3, <1>4

LEMMA AgesStep ==
    ASSUME TypeInv, AgesKnown, StepKinds
    PROVE  AgesKnown'
<1> SUFFICES ASSUME NEW m \in InfosUnderWay' PROVE m.age \in 0 .. Len(applied')
  BY DEF AgesKnown
<1>1. Len(applied) \in Nat /\ Len(applied') \in Nat /\ Len(applied) <= Len(applied')
  BY AppliedGrows
<1>2. m.age \in 0 .. Len(applied)
  <2>1. CASE m \in InfosUnderWay
    BY <2>1 DEF AgesKnown
  <2>2. ASSUME NEW q \in Questions, m = AnswerNow(q) PROVE m.age \in 0 .. Len(applied)
    BY <2>2, <1>1 DEF AnswerNow
  <2> QED BY <2>1, <2>2, InfosStep
<1> QED BY <1>1, <1>2

LEMMA NothingUnderWay == ASSUME SessionInit PROVE InfosUnderWay = {}
BY DEF SessionInit, GameInit, LoginInit, InfosUnderWay

\* Players, messages and passwords are of their kind in every state, and no row on
\* its way is of a save that is still to be handled.
THEOREM TypesKept == SessionSpec => []SessionTypeOK
<1>1. SessionInit => AgesKnown
  BY NothingUnderWay DEF AgesKnown
<1>2. TypeInv /\ AgesKnown /\ [SessionNext]_sessionVars => AgesKnown'
  BY StepCases, AgesStep
<1>3. TypeInv /\ AgesKnown => SessionTypeOK
  BY DEF TypeInv, GameTypes, LoginTypes, HistoryTypes, AgesKnown, SessionTypeOK, GameTypeOK,
     PlayerRecords
<1> QED BY <1>1, <1>2, <1>3, Invariance, PTL DEF SessionSpec

-----------------------------------------------------------------------------
(* What the first n saves come to does not change, and what one more makes *)
(* of it.                                                                  *)

LEMMA LastIs ==
    ASSUME NEW n \in Nat, NEW K \in SUBSET (1 .. n), K # {}
    PROVE  Last(K) \in K /\ \A j \in K : j <= Last(K)
<1> DEFINE Above(b) == \A j \in K : j <= b
           B == {b \in Nat : Above(b)}
<1>1. n \in B
  OBVIOUS
<1>2. PICK b \in B : \A c \in B : b <= c
  BY <1>1, Smallest
<1>3. b \in Nat /\ Above(b)
  BY <1>2
<1>4. b \in K
  <2> SUFFICES ASSUME b \notin K PROVE FALSE
    OBVIOUS
  <2>1. PICK i \in K : TRUE
    OBVIOUS
  <2>2. i \in Nat /\ 1 <= i /\ i <= b
    BY <1>3
  <2>3. b - 1 \in Nat
    BY <1>3, <2>2
  <2>4. \A j \in K : j <= b - 1
    BY <1>3, <2>3
  <2>5. b - 1 \in B
    BY <2>3, <2>4
  <2> QED BY <1>2, <1>3, <2>5
<1>5. \E k \in K : \A j \in K : j <= k
  BY <1>3, <1>4
<1> QED BY <1>5 DEF Last

LEMMA LastGrows ==
    ASSUME NEW n \in Nat, NEW K \in SUBSET (1 .. n)
    PROVE  Last(K \cup {n + 1}) = n + 1
<1>1. K \cup {n + 1} \in SUBSET (1 .. n + 1) /\ n + 1 \in Nat
  OBVIOUS
<1>2. /\ Last(K \cup {n + 1}) \in K \cup {n + 1}
      /\ n + 1 <= Last(K \cup {n + 1})
  BY <1>1, LastIs
<1>3. \A l \in K \cup {n + 1} : n + 1 <= l => l = n + 1
  OBVIOUS
<1> QED BY <1>2, <1>3

IsPlayerSave(e, u) == e.type = "SETPLAYER" /\ e.usr = u
IsItemSave(e, u, i) == e.type = "SETITEM" /\ e.usr = u /\ e.item = i

PlayerSaves(s, u, n) == {k \in 1 .. n : IsPlayerSave(s[k], u)}
ItemSaves(s, u, i, n) == {k \in 1 .. n : IsItemSave(s[k], u, i)}

LEMMA AfterIs ==
    ASSUME NEW s, NEW u, NEW i, NEW n
    PROVE  /\ PosAfter(u, s, n) =
                IF PlayerSaves(s, u, n) = {} THEN InitialPos ELSE s[Last(PlayerSaves(s, u, n))].pos
           /\ CountAfter(u, i, s, n) =
                IF ItemSaves(s, u, i, n) = {} THEN InitialItems[i]
                ELSE s[Last(ItemSaves(s, u, i, n))].count
BY DEF PosAfter, CountAfter, PlayerSaves, ItemSaves, IsPlayerSave, IsItemSave

LEMMA PrefixCounts ==
    ASSUME NEW s, NEW t, NEW n \in Nat, \A k \in 1 .. n : s[k] = t[k], NEW u, NEW i
    PROVE  PosAfter(u, s, n) = PosAfter(u, t, n) /\ CountAfter(u, i, s, n) = CountAfter(u, i, t, n)
<1>1. PlayerSaves(s, u, n) = PlayerSaves(t, u, n) /\ ItemSaves(s, u, i, n) = ItemSaves(t, u, i, n)
  BY DEF PlayerSaves, ItemSaves
<1>2. PlayerSaves(s, u, n) # {} => Last(PlayerSaves(s, u, n)) \in 1 .. n
  BY LastIs DEF PlayerSaves
<1>3. ItemSaves(s, u, i, n) # {} => Last(ItemSaves(s, u, i, n)) \in 1 .. n
  BY LastIs DEF ItemSaves
<1> QED BY <1>1, <1>2, <1>3, AfterIs

LEMMA NextCounts ==
    ASSUME NEW s, NEW n \in Nat, NEW u, NEW i
    PROVE  /\ PosAfter(u, s, n + 1) =
                IF IsPlayerSave(s[n + 1], u) THEN s[n + 1].pos ELSE PosAfter(u, s, n)
           /\ CountAfter(u, i, s, n + 1) =
                IF IsItemSave(s[n + 1], u, i) THEN s[n + 1].count ELSE CountAfter(u, i, s, n)
<1>1. 1 .. n + 1 = (1 .. n) \cup {n + 1}
  OBVIOUS
<1>2. PosAfter(u, s, n + 1) =
        IF IsPlayerSave(s[n + 1], u) THEN s[n + 1].pos ELSE PosAfter(u, s, n)
  <2> DEFINE K == PlayerSaves(s, u, n)
  <2>1. K \in SUBSET (1 .. n)
    BY DEF PlayerSaves
  <2>2. PlayerSaves(s, u, n + 1) = IF IsPlayerSave(s[n + 1], u) THEN K \cup {n + 1} ELSE K
    BY <1>1 DEF PlayerSaves
  <2>4. /\ PosAfter(u, s, n) = IF K = {} THEN InitialPos ELSE s[Last(K)].pos
        /\ PosAfter(u, s, n + 1) =
             IF PlayerSaves(s, u, n + 1) = {} THEN InitialPos ELSE s[Last(PlayerSaves(s, u, n + 1))].pos
    BY AfterIs
  <2> HIDE DEF K
  <2>3. Last(K \cup {n + 1}) = n + 1
    BY <2>1, LastGrows
  <2> QED BY <2>2, <2>3, <2>4
<1>3. CountAfter(u, i, s, n + 1) =
        IF IsItemSave(s[n + 1], u, i) THEN s[n + 1].count ELSE CountAfter(u, i, s, n)
  <2> DEFINE K == ItemSaves(s, u, i, n)
  <2>1. K \in SUBSET (1 .. n)
    BY DEF ItemSaves
  <2>2. ItemSaves(s, u, i, n + 1) = IF IsItemSave(s[n + 1], u, i) THEN K \cup {n + 1} ELSE K
    BY <1>1 DEF ItemSaves
  <2>4. /\ CountAfter(u, i, s, n) = IF K = {} THEN InitialItems[i] ELSE s[Last(K)].count
        /\ CountAfter(u, i, s, n + 1) =
             IF ItemSaves(s, u, i, n + 1) = {} THEN InitialItems[i] ELSE s[Last(ItemSaves(s, u, i, n + 1))].count
    BY AfterIs
  <2> HIDE DEF K
  <2>3. Last(K \cup {n + 1}) = n + 1
    BY <2>1, LastGrows
  <2> QED BY <2>2, <2>3, <2>4
<1> QED BY <1>2, <1>3

LEMMA NoCounts ==
    ASSUME NEW s, NEW u, NEW i
    PROVE  PosAfter(u, s, 0) = InitialPos /\ CountAfter(u, i, s, 0) = InitialItems[i]
<1>1. PlayerSaves(s, u, 0) = {} /\ ItemSaves(s, u, i, 0) = {}
  BY DEF PlayerSaves, ItemSaves
<1> QED BY <1>1, AfterIs

-----------------------------------------------------------------------------
(* The db server's rows are what the saves it has handled come to.         *)

RowsAre(u, s, n) ==
    /\ PlayerNow(u) = PosAfter(u, s, n)
    /\ \A i \in Items : ItemsNow(u)[i] = CountAfter(u, i, s, n)

RowsRight == running => \A u \in Users : RowsAre(u, applied, Len(applied))

LoadsInv == RowsRight /\ LoadsAddUpSaves /\ AgesKnown

\* A handled save changes the row that it is about, and only that.
LEMMA PlayerRowSaved ==
    ASSUME TypeInv, NEW m \in SaveMsgs, SavesPlayer(m), NEW v \in Users
    PROVE  /\ PlayerNow(v)' = IF v = m.usr THEN m.pos ELSE PlayerNow(v)
           /\ ItemsNow(v)' = ItemsNow(v)
<1>1. /\ PLAYER \in [Users -> Nat]
      /\ m_playerdb \in [Users -> Nat \cup {None}] /\ None \notin Nat
  BY InventoryAssumption DEF TypeInv, DbTypes
<1>2. m.usr \in Users /\ m.pos \in Nat
  BY DEF SavesPlayer, SaveMsgs
<1>3. /\ m_playerdb'[v] = IF v = m.usr THEN m.pos ELSE m_playerdb[v]
      /\ v # m.usr => PLAYER'[v] = PLAYER[v]
      /\ ITEM' = ITEM /\ m_itemdb' = m_itemdb
  BY <1>1, <1>2 DEF SavesPlayer
<1> QED BY <1>1, <1>2, <1>3 DEF PlayerNow, ItemsNow

LEMMA ItemRowSaved ==
    ASSUME TypeInv, NEW m \in SaveMsgs, SavesItem(m), NEW v \in Users
    PROVE  /\ PlayerNow(v)' = PlayerNow(v)
           /\ \A i \in Items : ItemsNow(v)'[i] =
                IF v = m.usr /\ i = m.item THEN m.count ELSE ItemsNow(v)[i]
<1>1. /\ ITEM \in [Users -> ItemRows]
      /\ m_itemdb \in [Users -> ItemRows \cup {None}] /\ None \notin ItemRows
  BY NoneAssumption DEF TypeInv, DbTypes, ItemRows
<1>2. m.usr \in Users /\ m.item \in Items /\ m.count \in Counts
  BY DEF SavesItem, SaveMsgs
<1>3. m_itemdb[m.usr] \in ItemRows
  BY <1>1, <1>2 DEF SavesItem
<1> DEFINE new == [m_itemdb[m.usr] EXCEPT ![m.item] = m.count]
<1>4. new \in ItemRows /\ \A i \in Items : new[i] = IF i = m.item THEN m.count ELSE m_itemdb[m.usr][i]
  BY <1>2, <1>3 DEF ItemRows
<1>5. m_itemdb' = [m_itemdb EXCEPT ![m.usr] = new]
  BY DEF SavesItem
<1>6. /\ PLAYER' = PLAYER /\ m_playerdb' = m_playerdb
      /\ v # m.usr => ITEM'[v] = ITEM[v]
      /\ m_itemdb[m.usr] # None
  BY <1>1, <1>2 DEF SavesItem
<1> HIDE DEF new
<1>7. m_itemdb'[v] = IF v = m.usr THEN new ELSE m_itemdb[v]
  BY <1>1, <1>2, <1>5
<1>8. CASE v = m.usr
  <2>1. m_itemdb'[v] # None
    BY <1>1, <1>4, <1>7, <1>8
  <2>2. ItemsNow(v)' = new /\ ItemsNow(v) = m_itemdb[m.usr]
    BY <2>1, <1>6, <1>7, <1>8 DEF ItemsNow
  <2> QED BY <2>2, <1>4, <1>6, <1>8 DEF PlayerNow
<1>9. CASE v # m.usr
  BY <1>6, <1>7, <1>9 DEF ItemsNow, PlayerNow
<1> QED BY <1>8, <1>9

LEMMA RowsSaved ==
    ASSUME TypeInv, RowsRight, NEW m \in SaveMsgs, SavesPlayer(m) \/ SavesItem(m)
    PROVE  RowsRight'
<1> DEFINE n == Len(applied)
           s == Append(applied, m)
<1>1. applied' = s /\ running
  BY DEF SavesPlayer, SavesItem, SavesMsg
<1>2. /\ n \in Nat /\ Len(s) = n + 1 /\ s[n + 1] = m
      /\ \A k \in 1 .. n : applied[k] = s[k]
  BY DEF TypeInv, HistoryTypes
<1> HIDE DEF n, s
<1> SUFFICES ASSUME NEW u \in Users
             PROVE  /\ PlayerNow(u)' = PosAfter(u, s, n + 1)
                    /\ \A i \in Items : ItemsNow(u)'[i] = CountAfter(u, i, s, n + 1)
  BY <1>1, <1>2 DEF RowsRight, RowsAre
<1>3. RowsAre(u, applied, n)
  BY <1>1 DEF RowsRight, n
<1>p. \A i : PosAfter(u, applied, n) = PosAfter(u, s, n) /\ CountAfter(u, i, applied, n) = CountAfter(u, i, s, n)
  <2>1. n \in Nat
    BY <1>2
  <2>2. \A k \in 1 .. n : applied[k] = s[k]
    BY <1>2
  <2>3. \A v, i : PosAfter(v, applied, n) = PosAfter(v, s, n) /\ CountAfter(v, i, applied, n) = CountAfter(v, i, s, n)
    BY <2>1, <2>2, PrefixCounts, Zenon
  <2> QED BY <2>3, Zenon
<1>4. /\ PosAfter(u, s, n + 1) = IF IsPlayerSave(m, u) THEN m.pos ELSE PosAfter(u, applied, n)
      /\ \A i \in Items : CountAfter(u, i, s, n + 1) =
           IF IsItemSave(m, u, i) THEN m.count ELSE CountAfter(u, i, applied, n)
  <2>1. \A i : /\ PosAfter(u, s, n + 1) = IF IsPlayerSave(s[n + 1], u) THEN s[n + 1].pos ELSE PosAfter(u, s, n)
               /\ CountAfter(u, i, s, n + 1) =
                    IF IsItemSave(s[n + 1], u, i) THEN s[n + 1].count ELSE CountAfter(u, i, s, n)
    BY <1>2, NextCounts
  <2> QED BY <2>1, <1>2, <1>p
<1>5. CASE SavesPlayer(m)
  <2>1. /\ IsPlayerSave(m, u) <=> u = m.usr
        /\ \A i \in Items : ~IsItemSave(m, u, i)
    BY <1>5 DEF SavesPlayer, IsPlayerSave, IsItemSave
  <2>2. /\ PlayerNow(u)' = IF u = m.usr THEN m.pos ELSE PlayerNow(u)
        /\ ItemsNow(u)' = ItemsNow(u)
    BY <1>5, PlayerRowSaved
  <2>3. PlayerNow(u)' = PosAfter(u, s, n + 1)
    BY <2>1, <2>2, <1>3, <1>4 DEF RowsAre
  <2>4. \A i \in Items : ItemsNow(u)'[i] = CountAfter(u, i, s, n + 1)
    BY <2>1, <2>2, <1>3, <1>4 DEF RowsAre
  <2> QED BY <2>3, <2>4
<1>6. CASE SavesItem(m)
  <2>1. /\ ~IsPlayerSave(m, u)
        /\ \A i \in Items : IsItemSave(m, u, i) <=> u = m.usr /\ i = m.item
    BY <1>6 DEF SavesItem, IsPlayerSave, IsItemSave
  <2>2. /\ PlayerNow(u)' = PlayerNow(u)
        /\ \A i \in Items : ItemsNow(u)'[i] =
             IF u = m.usr /\ i = m.item THEN m.count ELSE ItemsNow(u)[i]
    BY <1>6, ItemRowSaved
  <2>3. PlayerNow(u)' = PosAfter(u, s, n + 1)
    BY <2>1, <2>2, <1>3, <1>4 DEF RowsAre
  <2>4. \A i \in Items : ItemsNow(u)'[i] = CountAfter(u, i, s, n + 1)
    BY <2>1, <2>2, <1>3, <1>4 DEF RowsAre
  <2> QED BY <2>3, <2>4
<1> QED BY <1>5, <1>6

LEMMA RowsStep ==
    ASSUME TypeInv, RowsRight, StepKinds
    PROVE  RowsRight'
<1>1. CASE ~running'
  BY <1>1 DEF RowsRight
<1>2. ASSUME NEW m \in SaveMsgs, SavesPlayer(m) \/ SavesItem(m) PROVE RowsRight'
  BY <1>2, RowsSaved
<1>3. ASSUME applied' = applied, running' => running,
             \A u \in Users : PlayerNow(u)' = PlayerNow(u) /\ ItemsNow(u)' = ItemsNow(u)
      PROVE  RowsRight'
  BY <1>3 DEF RowsRight, RowsAre
<1>4. ASSUME NEW q \in Questions, AnswersAll(q) PROVE RowsRight'
  <2> DEFINE u == q.usr
  <2>0. u \in Users
    BY DEF Questions
  <2>1. /\ m_playerdb \in [Users -> Nat \cup {None}] /\ None \notin Nat
        /\ m_itemdb \in [Users -> ItemRows \cup {None}] /\ None \notin ItemRows
    BY InventoryAssumption, NoneAssumption DEF TypeInv, DbTypes, ItemRows
  <2>2. PlayerNow(u) \in Nat /\ ItemsNow(u) \in ItemRows
    BY <2>0, NowTypes DEF TypeInv
  <2>3. /\ m_playerdb' = [m_playerdb EXCEPT ![u] = PlayerNow(u)]
        /\ m_itemdb' = [m_itemdb EXCEPT ![u] = ItemsNow(u)]
        /\ UNCHANGED <<PLAYER, ITEM, running, applied>>
    BY <1>4 DEF AnswersAll, history
  <2> HIDE DEF u
  <2>4. ASSUME NEW v \in Users PROVE PlayerNow(v)' = PlayerNow(v) /\ ItemsNow(v)' = ItemsNow(v)
    <3>1. CASE v = u
      <4>1. m_playerdb'[v] = PlayerNow(u) /\ m_itemdb'[v] = ItemsNow(u)
        BY <3>1, <2>1, <2>3
      <4>2. m_playerdb'[v] # None /\ m_itemdb'[v] # None
        BY <4>1, <2>1, <2>2
      <4>3. PlayerNow(v)' = m_playerdb'[v] /\ ItemsNow(v)' = m_itemdb'[v]
        BY <4>2 DEF PlayerNow, ItemsNow
      <4> QED BY <4>1, <4>3, <3>1
    <3>2. CASE v # u
      <4>1. m_playerdb'[v] = m_playerdb[v] /\ m_itemdb'[v] = m_itemdb[v]
        BY <3>2, <2>1, <2>3
      <4> QED BY <4>1, <2>3 DEF PlayerNow, ItemsNow
    <3> QED BY <3>1, <3>2
  <2> QED BY <2>3, <2>4, <1>3
<1>5. CASE UNCHANGED <<PLAYER, ITEM, m_playerdb, m_itemdb, running, applied>>
  BY <1>5, <1>3 DEF PlayerNow, ItemsNow
<1> QED BY <1>1, <1>2, <1>4, <1>5 DEF StepKinds, Ask, Played, HandledMsg, Quiet, Sends, Drops, LogsIn,
      Forwards, AnswersPassword, DbLost, GateGone, LoginLoses, dbVars, history

LEMMA LoadsStep ==
    ASSUME TypeInv, LoadsInv, StepKinds
    PROVE  LoadsInv'
<1>1. RowsRight' /\ AgesKnown'
  BY RowsStep, AgesStep DEF LoadsInv
<1>2. LoadsAddUpSaves'
  <2> SUFFICES ASSUME NEW m \in InfosUnderWay'
               PROVE  /\ m.pos = PosAfter(m.usr, applied', m.age)
                      /\ \A i \in Items : m.items[i] = CountAfter(m.usr, i, applied', m.age)
    BY DEF LoadsAddUpSaves
  <2>1. /\ m.pos = PosAfter(m.usr, applied, m.age)
        /\ \A i \in Items : m.items[i] = CountAfter(m.usr, i, applied, m.age)
        /\ m.age \in 0 .. Len(applied)
    <3>1. CASE m \in InfosUnderWay
      BY <3>1 DEF LoadsInv, LoadsAddUpSaves, AgesKnown
    <3>2. ASSUME NEW q \in Questions, AnswersAll(q), m = AnswerNow(q)
          PROVE  /\ m.pos = PosAfter(m.usr, applied, m.age)
                 /\ \A i \in Items : m.items[i] = CountAfter(m.usr, i, applied, m.age)
                 /\ m.age \in 0 .. Len(applied)
      <4>1. /\ m.usr = q.usr /\ m.pos = PlayerNow(q.usr) /\ m.items = ItemsNow(q.usr)
            /\ m.age = Len(applied) /\ q.usr \in Users
        BY <3>2 DEF AnswerNow, Questions
      <4>2. RowsAre(q.usr, applied, Len(applied))
        BY <3>2, <4>1 DEF AnswersAll, LoadsInv, RowsRight
      <4> QED BY <4>1, <4>2, AppliedGrows DEF RowsAre
    <3> QED BY <3>1, <3>2, InfosStep
  <2>2. m.age \in Nat /\ \A k \in 1 .. m.age : applied[k] = applied'[k]
    BY <2>1, AppliedGrows
  <2>3. \A i : /\ PosAfter(m.usr, applied, m.age) = PosAfter(m.usr, applied', m.age)
               /\ CountAfter(m.usr, i, applied, m.age) = CountAfter(m.usr, i, applied', m.age)
    <3>1. PICK n \in Nat : n = m.age
      BY <2>2
    <3>2. \A k \in 1 .. n : applied[k] = applied'[k]
      BY <2>2, <3>1
    <3>3. \A u, i : /\ PosAfter(u, applied, n) = PosAfter(u, applied', n)
                    /\ CountAfter(u, i, applied, n) = CountAfter(u, i, applied', n)
      BY <3>2, PrefixCounts, Zenon
    <3> QED BY <3>1, <3>3, Zenon
  <2> QED BY <2>1, <2>3
<1> QED BY <1>1, <1>2 DEF LoadsInv

LEMMA LoadsInit ==
    ASSUME SessionInit
    PROVE  LoadsInv
<1>1. LoadsAddUpSaves /\ AgesKnown
  BY NothingUnderWay DEF LoadsAddUpSaves, AgesKnown
<1>2. ASSUME NEW u \in Users PROVE RowsAre(u, applied, Len(applied))
  <2>1. PlayerNow(u) = InitialPos /\ ItemsNow(u) = InitialItems /\ Len(applied) = 0
    BY DEF SessionInit, PlayerNow, ItemsNow
  <2> QED BY <2>1, NoCounts DEF RowsAre
<1> QED BY <1>1, <1>2 DEF LoadsInv, RowsRight

\* db_server::get_all: whoever is loaded has the position and the items that the
\* saves handled by then add up to, in the order in which the db server has handled
\* them, whatever the order in which they were made.
THEOREM LoadsAreSaves == SessionSpec => []LoadsAddUpSaves
<1>1. SessionInit => LoadsInv
  BY LoadsInit
<1>2. TypeInv /\ LoadsInv /\ [SessionNext]_sessionVars => LoadsInv'
  BY StepCases, LoadsStep
<1>3. LoadsInv => LoadsAddUpSaves
  BY DEF LoadsInv
<1> QED BY <1>1, <1>2, <1>3, Invariance, PTL DEF SessionSpec

-----------------------------------------------------------------------------
(* Passwords.                                                              *)

LEMMA WrongStep ==
    ASSUME TypeInv, NoWrongPasswordLeft, StepKinds
    PROVE  NoWrongPasswordLeft'
<1>t. /\ m_waitverify \in [Users -> Passwords \cup {None}] /\ None # "wrong"
      /\ loginToDb \subseteq Questions /\ passwords \subseteq Verdicts /\ requests \subseteq Requests
  BY NoneAssumption DEF TypeInv, LoginTypes, LoginTypeOK, Passwords
<1>1. CASE UNCHANGED <<m_waitverify, loginToDb, passwords, running>>
  BY <1>1 DEF NoWrongPasswordLeft
<1>2. ASSUME NEW r \in requests, login_request(r), LogsIn PROVE NoWrongPasswordLeft'
  <2>1. r.usr \in Users
    BY <1>t DEF Requests
  <2>2. /\ m_waitverify' = [m_waitverify EXCEPT ![r.usr] = IF @ = None THEN r.pass ELSE @]
        /\ loginToDb' = loginToDb \cup {Question("GETPASS", r.usr, r.from)}
        /\ UNCHANGED <<passwords, running>>
    BY <1>2 DEF LogsIn, login_request, dbVars
  <2>3. \A u \in Users : u # r.usr => m_waitverify'[u] = m_waitverify[u]
    BY <2>2, <1>t
  <2>4. /\ Question("GETPASS", r.usr, r.from).usr = r.usr
        /\ Question("GETPASS", r.usr, r.from).type = "GETPASS"
    BY DEF Question
  <2> QED BY <2>2, <2>3, <2>4 DEF NoWrongPasswordLeft
<1>3. ASSUME NEW p \in passwords, login_verify(p), LogsIn PROVE NoWrongPasswordLeft'
  <2>1. p.usr \in Users
    BY <1>t DEF Verdicts
  <2>2. /\ m_waitverify'[p.usr] # "wrong"
        /\ \A v \in Users : v # p.usr => m_waitverify'[v] = m_waitverify[v]
        /\ loginToDb \subseteq loginToDb' /\ passwords' = passwords \ {p}
        /\ UNCHANGED running
    BY <1>3, <2>1, <1>t DEF LogsIn, login_verify, dbVars
  <2> QED BY <2>2 DEF NoWrongPasswordLeft
<1>4. ASSUME NEW q \in Questions, AnswersPassword(q) PROVE NoWrongPasswordLeft'
  <2>1. /\ loginToDb' = loginToDb \ {q}
        /\ passwords' = passwords \cup {[usr |-> q.usr, from |-> q.from]}
        /\ UNCHANGED <<m_waitverify, running>>
    BY <1>4 DEF AnswersPassword
  <2>2. \E p \in passwords' : p.usr = q.usr
    <3> DEFINE p == [usr |-> q.usr, from |-> q.from]
    <3>1. p.usr = q.usr
      OBVIOUS
    <3>2. p \in passwords'
      BY <2>1
    <3> HIDE DEF p
    <3> QED BY <3>1, <3>2
  <2> QED BY <2>1, <2>2 DEF NoWrongPasswordLeft
<1>5. ASSUME NEW q \in Questions, AnswersAll(q) PROVE NoWrongPasswordLeft'
  <2>1. /\ q.type = "GET_ALLINFO" /\ loginToDb' = loginToDb \ {q}
        /\ UNCHANGED <<m_waitverify, passwords, running>>
    BY <1>5 DEF AnswersAll
  <2> QED BY <2>1 DEF NoWrongPasswordLeft
<1>6. CASE DbLost
  BY <1>6 DEF DbLost, NoWrongPasswordLeft
<1> QED BY <1>1, <1>2, <1>3, <1>4, <1>5, <1>6 DEF StepKinds, Ask, Played, HandledMsg, Quiet, Sends,
      Drops, LogsIn, Succeeds, Forwards, SavesPlayer, SavesItem, SavesMsg, GateGone, LoginLoses,
      loginVars, loginState, dbVars

\* login_server::m_waitverify: a wrong password that waits has an answer of the db
\* server to come which will clear it, so that it cannot spoil a later request.
THEOREM WrongPasswordGoes == SessionSpec => []NoWrongPasswordLeft
<1>1. SessionInit => NoWrongPasswordLeft
  BY NoneAssumption DEF SessionInit, LoginInit, NoWrongPasswordLeft, Passwords
<1>2. TypeInv /\ NoWrongPasswordLeft /\ [SessionNext]_sessionVars => NoWrongPasswordLeft'
  BY StepCases, WrongStep
<1> QED BY <1>1, <1>2, Invariance, PTL DEF SessionSpec

\* A connection has given the right password for the user.
Proven(u) == \E c \in Clients : asks[c] # None /\ asks[c].usr = u /\ asks[c].pass = "right"

RequestsAsked ==
    \A r \in requests :
        asks[r.from] # None /\ asks[r.from].usr = r.usr /\ asks[r.from].pass = r.pass

LetIn ==
    /\ \A u \in Users : m_waitverify[u] = "right" => Proven(u)
    /\ \A q \in loginToDb : q.type = "GET_ALLINFO" => Proven(q.usr)

PlayersProven ==
    /\ \A m \in InfosUnderWay : Proven(m.usr)
    /\ \A u \in Users : m_players[u] # None => Proven(u)

PassInv == RequestsAsked /\ LetIn /\ PlayersProven

\* What a connection has asked for it keeps.
LEMMA AsksKept ==
    ASSUME TypeInv, StepKinds, NEW c, asks[c] # None
    PROVE  asks'[c] = asks[c]
<1>1. ASSUME NEW d, NEW u, NEW pass, Ask(d, u, pass) PROVE asks'[c] = asks[c]
  <2>1. /\ asks[d] = None /\ c # d
        /\ asks' = [asks EXCEPT ![d] = [usr |-> u, pass |-> pass, applied |-> Len(applied),
                                         alone |-> ~LoginUnderWay(u)]]
    BY <1>1 DEF Ask
  <2>2. asks \in [Clients -> AskTypes \cup {None}]
    BY DEF TypeInv, HistoryTypes
  <2> QED BY <2>1, <2>2
<1>2. CASE UNCHANGED asks
  BY <1>2
<1> QED BY <1>1, <1>2 DEF StepKinds, Played, HandledMsg, Quiet, Sends, Drops, LogsIn, Forwards,
      LoginLoses, AnswersPassword, AnswersAll, SavesPlayer, SavesItem, SavesMsg, DbLost, GateGone,
      history

LEMMA ProvenStays ==
    ASSUME TypeInv, StepKinds, NEW u, Proven(u)
    PROVE  Proven(u)'
BY AsksKept DEF Proven

\* A new request has what its connection asks for.
LEMMA AskIs ==
    ASSUME TypeInv, NEW c \in Clients, NEW u \in Users, NEW pass \in Passwords, Ask(c, u, pass)
    PROVE  /\ asks[c] = None /\ asks'[c] # None
           /\ asks'[c].usr = u /\ asks'[c].pass = pass /\ asks'[c].applied = Len(applied)
           /\ asks'[c].alone => ~LoginUnderWay(u)
           /\ \A d : d # c => asks'[d] = asks[d]
           /\ \E fd \in Fds : /\ fdOf' = [fdOf EXCEPT ![c] = fd]
                              /\ requests' = requests \cup
                                    {[usr |-> u, pass |-> pass, from |-> c, m_from |-> fd]}
<1> DEFINE lone == ~LoginUnderWay(u)
           a == [usr |-> u, pass |-> pass, applied |-> Len(applied), alone |-> lone]
<1>1. asks' = [asks EXCEPT ![c] = a] /\ asks[c] = None
  BY DEF Ask
<1>2. asks \in [Clients -> AskTypes \cup {None}] /\ Len(applied) \in Nat
  BY SeqTypes DEF TypeInv, HistoryTypes
<1>3. lone \in BOOLEAN
  BY DEF LoginUnderWay
<1>4. a \in AskTypes
  BY <1>2, <1>3 DEF AskTypes
<1>5. a # None
  BY <1>4, NoneAssumption DEF AskTypes
<1> HIDE DEF lone
<1>6. a.usr = u /\ a.pass = pass /\ a.applied = Len(applied) /\ (a.alone => lone)
  BY <1>3
<1> HIDE DEF a
<1>7. asks'[c] = a /\ \A d : d # c => asks'[d] = asks[d]
  BY <1>1, <1>2
<1>8. \E fd \in Fds : /\ fdOf' = [fdOf EXCEPT ![c] = fd]
                      /\ requests' = requests \cup
                            {[usr |-> u, pass |-> pass, from |-> c, m_from |-> fd]}
  BY DEF Ask
<1> QED BY <1>1, <1>5, <1>6, <1>7, <1>8 DEF lone

LEMMA RequestsStep ==
    ASSUME TypeInv, RequestsAsked, StepKinds
    PROVE  RequestsAsked'
<1>1. ASSUME requests' \subseteq requests PROVE RequestsAsked'
  BY <1>1, AsksKept DEF RequestsAsked
<1>2. ASSUME NEW c \in Clients, NEW u \in Users, NEW pass \in Passwords, Ask(c, u, pass)
      PROVE  RequestsAsked'
  <2>1. PICK fd \in Fds : requests' = requests \cup {[usr |-> u, pass |-> pass, from |-> c, m_from |-> fd]}
    BY <1>2, AskIs
  <2>2. asks'[c] # None /\ asks'[c].usr = u /\ asks'[c].pass = pass
    BY <1>2, AskIs
  <2>3. \A q \in requests :
           asks'[q.from] # None /\ asks'[q.from].usr = q.usr /\ asks'[q.from].pass = q.pass
    BY AsksKept DEF RequestsAsked
  <2> QED BY <2>1, <2>2, <2>3 DEF RequestsAsked
<1> QED BY <1>1, <1>2 DEF StepKinds, Played, HandledMsg, Quiet, Sends, Drops, login_request,
      login_verify, Succeeds, Forwards, LoginLoses, AnswersPassword, AnswersAll, SavesPlayer, SavesItem,
      SavesMsg, DbLost, GateGone, loginVars, loginState

LEMMA LetInStep ==
    ASSUME TypeInv, RequestsAsked, LetIn, StepKinds
    PROVE  LetIn'
<1>t. /\ m_waitverify \in [Users -> Passwords \cup {None}] /\ None # "right"
      /\ loginToDb \subseteq Questions /\ passwords \subseteq Verdicts /\ requests \subseteq Requests
  BY NoneAssumption DEF TypeInv, LoginTypes, LoginTypeOK, Passwords
<1>p. \A u : Proven(u) => Proven(u)'
  BY ProvenStays
<1>1. ASSUME UNCHANGED m_waitverify, loginToDb' \subseteq loginToDb PROVE LetIn'
  BY <1>1, <1>p DEF LetIn
<1>2. ASSUME NEW r \in requests, login_request(r) PROVE LetIn'
  <2>1. r.usr \in Users /\ r.from \in Clients
    BY <1>t DEF Requests
  <2>2. r.pass = "right" => Proven(r.usr)
    BY <2>1 DEF RequestsAsked, Proven
  <2>3. /\ m_waitverify' = [m_waitverify EXCEPT ![r.usr] = IF @ = None THEN r.pass ELSE @]
        /\ loginToDb' = loginToDb \cup {Question("GETPASS", r.usr, r.from)}
    BY <1>2 DEF login_request
  <2>4. \A u \in Users : m_waitverify'[u] = "right" => Proven(u)
    BY <2>1, <2>2, <2>3, <1>t DEF LetIn
  <2>5. Question("GETPASS", r.usr, r.from).type # "GET_ALLINFO"
    BY DEF Question
  <2> QED BY <2>3, <2>4, <2>5, <1>p DEF LetIn
<1>3. ASSUME NEW p \in passwords, login_verify(p) PROVE LetIn'
  <2>1. p.usr \in Users
    BY <1>t DEF Verdicts
  <2>2. \/ /\ m_waitverify[p.usr] = "right"
           /\ loginToDb' = loginToDb \cup {Question("GET_ALLINFO", p.usr, p.from)}
           /\ m_waitverify' = m_waitverify
        \/ loginToDb' = loginToDb /\ m_waitverify' = [m_waitverify EXCEPT ![p.usr] = None]
    BY <1>3 DEF login_verify
  <2>3. \A v \in Users : m_waitverify'[v] = "right" => Proven(v)
    BY <2>1, <2>2, <1>t DEF LetIn
  <2>4. Question("GET_ALLINFO", p.usr, p.from).usr = p.usr
    BY DEF Question
  <2>5. \A q \in loginToDb' : q.type = "GET_ALLINFO" => Proven(q.usr)
    BY <2>1, <2>2, <2>4 DEF LetIn
  <2> QED BY <2>3, <2>5, <1>p DEF LetIn
<1> QED BY <1>1, <1>2, <1>3 DEF StepKinds, Ask, Played, HandledMsg, Quiet, Sends, Drops,
      Succeeds, Forwards, LoginLoses, AnswersPassword, AnswersAll, SavesPlayer, SavesItem, SavesMsg,
      DbLost, GateGone, loginVars, loginState

LEMMA LoadedWasUnderWay ==
    ASSUME NEW m, HandledMsg(m), Loaded(m)
    PROVE  m \in InfosUnderWay
BY DEF HandledMsg, Loaded, InfoMsgs, InfosUnderWay

LEMMA ProvenStep ==
    ASSUME TypeInv, LetIn, PlayersProven, StepKinds
    PROVE  PlayersProven'
<1>p. \A u : Proven(u) => Proven(u)'
  BY ProvenStays
<1>1. ASSUME NEW m \in InfosUnderWay' PROVE Proven(m.usr)
  <2>1. ASSUME NEW q \in Questions, AnswersAll(q), m = AnswerNow(q) PROVE Proven(m.usr)
    BY <2>1 DEF AnswersAll, AnswerNow, LetIn
  <2> QED BY <2>1, InfosStep DEF PlayersProven
<1>2. ASSUME NEW u \in Users, m_players'[u] # None PROVE Proven(u)
  <2>t. m_players \in [Users -> PlayerRecords \cup {None}]
    BY DEF TypeInv, GameTypes
  <2>1. CASE UNCHANGED m_players
    BY <1>2, <2>1 DEF PlayersProven
  <2>2. ASSUME NEW m \in InfoMsgs \cup ClientMsgs, HandledMsg(m), RunKinds(m) PROVE Proven(u)
    <3>0. m.usr \in Users
      BY MsgTypes
    <3>1. CASE Loaded(m)
      <4>1. m \in InfosUnderWay
        BY <2>2, <3>1, LoadedWasUnderWay
      <4>2. u # m.usr => m_players'[u] = m_players[u]
        BY <3>1, <3>0, <2>t DEF Loaded
      <4> QED BY <4>1, <4>2, <1>2 DEF PlayersProven
    <3>2. CASE Ignored(m)
      BY <3>2, <2>1 DEF Ignored
    <3>3. ASSUME m_players[u] # None PROVE Proven(u)
      BY <3>3 DEF PlayersProven
    <3>4. CASE Exited(m)
      BY <1>2, <3>0, <3>3, <3>4, <2>t DEF Exited
    <3>5. CASE Moved(m)
      BY <1>2, <3>0, <3>3, <3>5, <2>t DEF Moved
    <3>6. ASSUME NEW o, ItemUsed(m, o) PROVE Proven(u)
      BY <1>2, <3>0, <3>3, <3>6, <2>t DEF ItemUsed
    <3> QED BY <2>2, <3>1, <3>2, <3>4, <3>5, <3>6 DEF RunKinds
  <2> QED BY <2>1, <2>2 DEF StepKinds, Ask, Played, Quiet, Sends, Drops, LogsIn, Forwards, LoginLoses,
        AnswersPassword, AnswersAll, SavesPlayer, SavesItem, SavesMsg, DbLost, GateGone, gameVars
<1> QED BY <1>p, <1>1, <1>2 DEF PlayersProven

\* login_server::login_verify: nobody is loaded, or in the game, for whom no
\* connection has given the right password.
THEOREM PasswordFirst == SessionSpec => []PasswordBeforePlayer
<1>1. SessionInit => PassInv
  <2> SUFFICES ASSUME SessionInit PROVE PassInv
    OBVIOUS
  <2>1. requests = {} /\ loginToDb = {}
    BY DEF SessionInit, LoginInit
  <2>2. /\ \A u \in Users : m_players[u] = None /\ m_waitverify[u] # "right"
    BY NoneAssumption DEF SessionInit, LoginInit, GameInit, Passwords
  <2> QED BY <2>1, <2>2, NothingUnderWay DEF PassInv, RequestsAsked, LetIn, PlayersProven
<1>2. TypeInv /\ PassInv /\ [SessionNext]_sessionVars => PassInv'
  BY StepCases, RequestsStep, LetInStep, ProvenStep DEF PassInv
<1>3. PassInv => PasswordBeforePlayer
  BY DEF PassInv, PlayersProven, PasswordBeforePlayer, Proven
<1> QED BY <1>1, <1>2, <1>3, Invariance, PTL DEF SessionSpec

-----------------------------------------------------------------------------
(* The game server's process.                                              *)

Stale(p) == p # None /\ ~(p.inv.m_baseBag \subseteq Present(p.inv.m_mItems))

DownByStale == gameRunning \/ ended # {} \/ \E u \in Users : Stale(m_players[u])

LEMMA DownStep ==
    ASSUME TypeInv, DownByStale, StepKinds
    PROVE  DownByStale'
<1>1. ASSUME ended \subseteq ended', UNCHANGED <<m_players, gameRunning>> PROVE DownByStale'
  BY <1>1 DEF DownByStale
<1>2. ASSUME NEW e \in SendMsgs, Drops(e) PROVE DownByStale'
  BY <1>2 DEF Drops, DownByStale
<1>3. ASSUME NEW m \in InfoMsgs \cup ClientMsgs, HandledMsg(m), RunKinds(m) PROVE DownByStale'
  <2>0. m.usr \in Users /\ gameRunning /\ ended' = ended
    BY <1>3, MsgTypes DEF HandledMsg
  <2>1. CASE Loaded(m) \/ Ignored(m) \/ Exited(m) \/ Moved(m)
    BY <2>0, <2>1 DEF Loaded, Ignored, Exited, Moved, DownByStale
  <2>2. ASSUME NEW o, ItemUsed(m, o), o.crash PROVE DownByStale'
    <3>1. /\ m_players[m.usr] # None /\ m_players \in [Users -> PlayerRecords \cup {None}]
          /\ m_players' = [m_players EXCEPT ![m.usr].inv = o.inv]
          /\ o.inv = m_players[m.usr].inv
          /\ ~(m_players[m.usr].inv.m_baseBag \subseteq Present(m_players[m.usr].inv.m_mItems))
      BY <2>2 DEF ItemUsed, GoodOutcome, TypeInv, GameTypes
    <3>2. m_players[m.usr] \in PlayerRecords
      BY <3>1, <2>0
    <3>3. m_players'[m.usr] = [m_players[m.usr] EXCEPT !.inv = o.inv]
      BY <3>1, <2>0
    <3>4. m_players'[m.usr] = m_players[m.usr]
      BY <3>1, <3>2, <3>3 DEF PlayerRecords
    <3>5. Stale(m_players'[m.usr])
      BY <3>1, <3>4 DEF Stale
    <3> QED BY <3>5, <2>0 DEF DownByStale
  <2>3. ASSUME NEW o, ItemUsed(m, o), ~o.crash PROVE DownByStale'
    BY <2>0, <2>3 DEF ItemUsed, DownByStale
  <2> QED BY <1>3, <2>1, <2>2, <2>3 DEF RunKinds
<1> QED BY <1>1, <1>2, <1>3 DEF StepKinds, Ask, Played, Quiet, Sends, LogsIn, Forwards,
      AnswersPassword, AnswersAll, SavesPlayer, SavesItem, SavesMsg, DbLost, GateGone, LoginLoses, gameVars, network

\* game_server::usr_update_item: the game server only goes down by an id that the bag
\* has kept without its item, or over a connection that has ended.
THEOREM DownByStaleIdOnly == SessionSpec => []DownOnlyByStaleId
<1>1. SessionInit => DownByStale
  BY DEF SessionInit, GameInit, DownByStale
<1>2. TypeInv /\ DownByStale /\ [SessionNext]_sessionVars => DownByStale'
  BY StepCases, DownStep
<1>3. DownByStale => DownOnlyByStaleId
  BY DEF DownByStale, DownOnlyByStaleId, Stale
<1> QED BY <1>1, <1>2, <1>3, Invariance, PTL DEF SessionSpec

-----------------------------------------------------------------------------
(* The answer to a connection that asks while no other login of the user   *)
(* is under way.                                                           *)

\* Connections that ask have a descriptor, and only they are answered.
FdInv ==
    /\ \A c \in Clients : asks[c] = None => fdOf[c] = None /\ answered[c] = None
    /\ \A m \in loginToDb \cup passwords \cup infos : m_usrfd[m.usr] # None

\* What a row on its way to the login server has to be for the connection c.
RecentFor(c) ==
    asks[c] # None /\ asks[c].alone =>
        \A m \in infos : m.usr = asks[c].usr => m.age >= asks[c].applied

AnsweredRecent(c) ==
    asks[c] # None /\ answered[c] # None /\ asks[c].alone =>
        (answered[c].usr = asks[c].usr => answered[c].age >= asks[c].applied)

AskedBefore == \A c \in Clients : asks[c] # None => asks[c].applied <= Len(applied)

LoneInv == FdInv /\ AskedBefore /\ \A c \in Clients : RecentFor(c) /\ AnsweredRecent(c)

LEMMA NewAsk ==
    ASSUME TypeInv, StepKinds, NEW c \in Clients, asks'[c] # asks[c]
    PROVE  \E u \in Users, pass \in Passwords : Ask(c, u, pass)
<1>1. ASSUME NEW d \in Clients, NEW u \in Users, NEW pass \in Passwords, Ask(d, u, pass)
      PROVE  d = c
  BY <1>1, AskIs
<1>2. asks' # asks
  OBVIOUS
<1>3. \E d \in Clients, u \in Users, pass \in Passwords : Ask(d, u, pass)
  BY <1>2 DEF StepKinds, Played, HandledMsg, Quiet, Sends, Drops, LogsIn, Forwards, LoginLoses,
     AnswersPassword, AnswersAll, SavesPlayer, SavesItem, SavesMsg, DbLost, GateGone, history
<1> QED BY <1>1, <1>3

LEMMA AskedBeforeStep ==
    ASSUME TypeInv, AskedBefore, StepKinds
    PROVE  AskedBefore'
<1> SUFFICES ASSUME NEW c \in Clients, asks'[c] # None PROVE asks'[c].applied <= Len(applied')
  BY DEF AskedBefore
<1>t. asks \in [Clients -> AskTypes \cup {None}]
  BY DEF TypeInv, HistoryTypes
<1>g. Len(applied) \in Nat /\ Len(applied') \in Nat /\ Len(applied) <= Len(applied')
  BY AppliedGrows
<1>1. CASE asks'[c] = asks[c]
  <2>1. asks[c] \in AskTypes /\ asks[c].applied <= Len(applied)
    BY <1>1, <1>t DEF AskedBefore
  <2>2. asks[c].applied \in Nat
    BY <2>1 DEF AskTypes
  <2>3. asks[c].applied <= Len(applied')
    BY <2>1, <2>2, <1>g
  <2> QED BY <2>3, <1>1
<1>2. CASE asks'[c] # asks[c]
  <2>1. asks'[c].applied = Len(applied)
    BY <1>2, NewAsk, AskIs
  <2> QED BY <2>1, <1>g
<1> QED BY <1>1, <1>2

\* Only login_success answers a connection: one that has asked.
LEMMA AnswerStep ==
    ASSUME TypeInv, FdInv, StepKinds, NEW c \in Clients, answered'[c] # answered[c]
    PROVE  answered'[c] \in infos /\ asks[c] # None /\ asks'[c] = asks[c]
<1>1. answered' # answered
  OBVIOUS
<1>2. PICK m \in infos : Succeeds(m)
  BY <1>1 DEF StepKinds, Ask, Played, HandledMsg, Quiet, Sends, Drops, login_request, login_verify,
     Forwards, LoginLoses, AnswersPassword, AnswersAll, SavesPlayer, SavesItem, SavesMsg, DbLost,
     GateGone, loginVars, loginState
<1>3. answered' = [d \in Clients |-> IF d \in Holders(m_usrfd[m.usr]) THEN m ELSE answered[d]]
  BY <1>1, <1>2 DEF Succeeds
<1>4. c \in Holders(m_usrfd[m.usr]) /\ answered'[c] = m
  BY <1>3
<1>5. fdOf[c] = m_usrfd[m.usr]
  BY <1>4 DEF Holders
<1>6. asks[c] # None
  BY <1>2, <1>5 DEF FdInv
<1> QED BY <1>2, <1>4, <1>6, AsksKept

LEMMA InfosEntries ==
    ASSUME TypeInv, StepKinds, NEW m \in infos'
    PROVE  m \in infos \/ \E q \in Questions : AnswersAll(q) /\ m = AnswerNow(q)
<1>1. CASE infos' \subseteq infos
  BY <1>1
<1>2. ASSUME NEW q \in Questions, AnswersAll(q) PROVE m \in infos \/ m = AnswerNow(q)
  BY <1>2 DEF AnswersAll
<1> QED BY <1>1, <1>2 DEF StepKinds, Ask, Played, HandledMsg, Quiet, Sends, Drops,
      login_request, login_verify, Succeeds, Forwards, LoginLoses, AnswersPassword, SavesPlayer,
      SavesItem, SavesMsg, DbLost, GateGone, loginVars, loginState

LEMMA FdStep ==
    ASSUME TypeInv, FdInv, StepKinds
    PROVE  FdInv'
<1>t. /\ m_usrfd \in [Users -> Fds \cup {None}] /\ requests \subseteq Requests
      /\ passwords \subseteq Verdicts /\ loginToDb \subseteq Questions /\ infos \subseteq InfoMsgs
      /\ fdOf \in [Clients -> Fds \cup {None}]
  BY DEF TypeInv, LoginTypes, LoginTypeOK
<1>a. ASSUME NEW c \in Clients, asks'[c] = None PROVE fdOf'[c] = None /\ answered'[c] = None
  <2>1. asks[c] = None
    BY <1>a, AsksKept
  <2>2. answered'[c] = answered[c]
    BY <2>1, AnswerStep
  <2>3. fdOf'[c] = fdOf[c]
    <3>1. ASSUME NEW d \in Clients, NEW u \in Users, NEW pass \in Passwords, Ask(d, u, pass)
          PROVE  fdOf'[c] = fdOf[c]
      <4>1. d # c
        BY <3>1, <1>a, AskIs
      <4>2. \E fd \in Fds : fdOf' = [fdOf EXCEPT ![d] = fd]
        BY <3>1, AskIs
      <4> QED BY <4>1, <4>2, <1>t
    <3> QED BY <3>1 DEF StepKinds, Played, HandledMsg, Quiet, Sends, Drops, login_request, login_verify,
          Succeeds, Forwards, LoginLoses, AnswersPassword, AnswersAll, SavesPlayer, SavesItem, SavesMsg,
          DbLost, GateGone, loginVars, loginState, connections
  <2> QED BY <2>1, <2>2, <2>3 DEF FdInv
<1> DEFINE Open == \A m \in loginToDb \cup passwords \cup infos : m_usrfd[m.usr] # None
<1>o. Open
  BY DEF FdInv
<1>b. Open'
  <2>1. CASE UNCHANGED <<m_usrfd, loginToDb, passwords, infos>>
    BY <2>1, <1>o
  <2>2. ASSUME NEW r \in requests, login_request(r) PROVE Open'
    <3>1. r.usr \in Users /\ r.m_from \in Fds /\ None \notin Fds
      BY <1>t, NoneAssumption DEF Requests
    <3>2. /\ m_usrfd' = [m_usrfd EXCEPT ![r.usr] = r.m_from]
          /\ loginToDb' = loginToDb \cup {Question("GETPASS", r.usr, r.from)}
          /\ UNCHANGED <<passwords, infos>>
      BY <2>2 DEF login_request
    <3>3. \A u : m_usrfd'[u] = m_usrfd[u] \/ m_usrfd'[u] # None
      BY <3>1, <3>2, <1>t
    <3>4. m_usrfd'[r.usr] # None /\ Question("GETPASS", r.usr, r.from).usr = r.usr
      BY <3>1, <3>2, <1>t DEF Question
    <3> QED BY <3>2, <3>3, <3>4, <1>o
  <2>3. ASSUME NEW p \in passwords, login_verify(p) PROVE Open'
    <3>1. /\ loginToDb' \subseteq loginToDb \cup {Question("GET_ALLINFO", p.usr, p.from)}
          /\ passwords' \subseteq passwords /\ UNCHANGED <<m_usrfd, infos>>
      BY <2>3 DEF login_verify
    <3>2. Question("GET_ALLINFO", p.usr, p.from).usr = p.usr
      BY DEF Question
    <3> QED BY <3>1, <3>2, <1>o
  <2>4. ASSUME NEW q \in Questions, AnswersPassword(q) PROVE Open'
    <3>1. /\ passwords' = passwords \cup {[usr |-> q.usr, from |-> q.from]} /\ q \in loginToDb
          /\ loginToDb' \subseteq loginToDb /\ UNCHANGED <<m_usrfd, infos>>
      BY <2>4 DEF AnswersPassword
    <3>2. [usr |-> q.usr, from |-> q.from].usr = q.usr
      OBVIOUS
    <3> QED BY <3>1, <3>2, <1>o
  <2>5. ASSUME NEW q \in Questions, AnswersAll(q) PROVE Open'
    <3>1. /\ infos' = infos \cup {AnswerNow(q)} /\ q \in loginToDb
          /\ loginToDb' \subseteq loginToDb /\ UNCHANGED <<m_usrfd, passwords>>
      BY <2>5 DEF AnswersAll
    <3>2. AnswerNow(q).usr = q.usr
      BY DEF AnswerNow
    <3> QED BY <3>1, <3>2, <1>o
  <2>6. ASSUME UNCHANGED m_usrfd, loginToDb' \subseteq loginToDb, passwords' \subseteq passwords,
               infos' \subseteq infos
        PROVE  Open'
    BY <2>6, <1>o
  <2> HIDE DEF Open
  <2>7. ASSUME NEW m, Succeeds(m) PROVE Open'
    BY <2>6, <2>7 DEF Succeeds
  <2>8. CASE DbLost
    BY <2>6, <2>8 DEF DbLost
  <2> QED BY <2>1, <2>2, <2>3, <2>4, <2>5, <2>7, <2>8 DEF StepKinds, Ask, Played, HandledMsg, Quiet,
        Sends, Drops, Forwards, LoginLoses, SavesPlayer, SavesItem, SavesMsg, GateGone, loginVars,
        loginState
<1> QED BY <1>a, <1>b DEF FdInv

LEMMA RecentStep ==
    ASSUME TypeInv, LoneInv, StepKinds, NEW c \in Clients
    PROVE  RecentFor(c)'
<1> SUFFICES ASSUME asks'[c] # None, asks'[c].alone, NEW m \in infos', m.usr = asks'[c].usr
             PROVE  m.age >= asks'[c].applied
  BY DEF RecentFor
<1>1. CASE asks'[c] = asks[c]
  <2>1. CASE m \in infos
    BY <1>1, <2>1 DEF LoneInv, RecentFor
  <2>2. ASSUME NEW q, m = AnswerNow(q) PROVE m.age >= asks'[c].applied
    <3>1. m.age = Len(applied)
      BY <2>2 DEF AnswerNow
    <3>2. asks[c].applied <= Len(applied)
      BY <1>1 DEF LoneInv, AskedBefore
    <3> QED BY <3>1, <3>2, <1>1
  <2> QED BY <2>1, <2>2, InfosEntries
<1>2. CASE asks'[c] # asks[c]
  <2>1. PICK u \in Users, pass \in Passwords : Ask(c, u, pass)
    BY <1>2, NewAsk
  <2>3. infos' = infos
    BY <2>1 DEF Ask
  <2>4. asks'[c].usr = u /\ (asks'[c].alone => ~LoginUnderWay(u))
    BY <2>1, AskIs
  <2>2. ~LoginUnderWay(u) /\ infos' = infos /\ m.usr = u
    BY <2>3, <2>4
  <2> QED BY <2>2 DEF LoginUnderWay
<1> QED BY <1>1, <1>2

LEMMA LoneStep ==
    ASSUME TypeInv, LoneInv, StepKinds
    PROVE  LoneInv'
<1>1. FdInv' /\ AskedBefore'
  BY FdStep, AskedBeforeStep DEF LoneInv
<1>2. \A c \in Clients : RecentFor(c)'
  BY RecentStep
<1>3. ASSUME NEW c \in Clients, asks'[c] # None, answered'[c] # None, asks'[c].alone,
             answered'[c].usr = asks'[c].usr
      PROVE  answered'[c].age >= asks'[c].applied
  <2>1. CASE answered'[c] = answered[c]
    <3>1. asks'[c] = asks[c]
      BY <1>3, <2>1, AsksKept DEF LoneInv, FdInv
    <3> QED BY <1>3, <2>1, <3>1 DEF LoneInv, AnsweredRecent
  <2>2. CASE answered'[c] # answered[c]
    <3>1. answered'[c] \in infos /\ asks[c] # None /\ asks'[c] = asks[c]
      BY <2>2, AnswerStep DEF LoneInv
    <3> QED BY <1>3, <3>1 DEF LoneInv, RecentFor
  <2> QED BY <2>1, <2>2
<1> QED BY <1>1, <1>2, <1>3 DEF LoneInv, AnsweredRecent

\* login_server::login_success: a connection that asks while no other login of the
\* user is under way gets every save the db server had handled by then, or, if
\* it has the descriptor of one that left, the answer about another user.
THEOREM LoneLogins == SessionSpec => []LoneLoginUpToDate
<1>1. SessionInit => LoneInv
  BY DEF SessionInit, LoginInit, LoneInv, FdInv, AskedBefore, RecentFor, AnsweredRecent
<1>2. TypeInv /\ LoneInv /\ [SessionNext]_sessionVars => LoneInv'
  BY StepCases, LoneStep
<1>3. LoneInv => LoneLoginUpToDate
  BY DEF LoneInv, AnsweredRecent, LoneLoginUpToDate
<1> QED BY <1>1, <1>2, <1>3, Invariance, PTL DEF SessionSpec

-----------------------------------------------------------------------------
(* The items of a user who was loaded with every save.                     *)

\* The counts of the user u are what the saves s add up to, but for the items K.
SavedBut(u, p, s, K) ==
    \A i \in Items \ K : p.inv.m_mItems[i] = CountAfter(u, i, s, Len(s))

KnownInv ==
    \A u \in fresh : m_players[u] # None => SavedBut(u, m_players[u], saves, unsaved[u])

LEMMA OtherSaves ==
    ASSUME NEW s \in Seq(SaveMsgs), NEW e \in SaveMsgs, NEW u, NEW i, ~IsItemSave(e, u, i)
    PROVE  CountAfter(u, i, Append(s, e), Len(Append(s, e))) = CountAfter(u, i, s, Len(s))
<1> DEFINE t == Append(s, e)
<1>1. /\ Len(t) = Len(s) + 1 /\ Len(s) \in Nat /\ t[Len(s) + 1] = e
      /\ \A k \in 1 .. Len(s) : s[k] = t[k]
  OBVIOUS
<1> HIDE DEF t
<1>2. CountAfter(u, i, t, Len(s) + 1) = CountAfter(u, i, t, Len(s))
  BY <1>1, NextCounts
<1>3. CountAfter(u, i, t, Len(s)) = CountAfter(u, i, s, Len(s))
  BY <1>1, PrefixCounts
<1> QED BY <1>1, <1>2, <1>3 DEF t

LEMMA OwnSave ==
    ASSUME NEW s \in Seq(SaveMsgs), NEW e \in SaveMsgs, NEW u, NEW i, IsItemSave(e, u, i)
    PROVE  CountAfter(u, i, Append(s, e), Len(Append(s, e))) = e.count
<1> DEFINE t == Append(s, e)
<1>1. Len(t) = Len(s) + 1 /\ Len(s) \in Nat /\ t[Len(s) + 1] = e
  OBVIOUS
<1> HIDE DEF t
<1>2. CountAfter(u, i, t, Len(s) + 1) = e.count
  BY <1>1, NextCounts
<1> QED BY <1>1, <1>2 DEF t

LEMMA KnownOnLoad ==
    ASSUME TypeInv, KnownInv, NEW m \in InfoMsgs, Loaded(m)
    PROVE  KnownInv'
<1>t. /\ m_players \in [Users -> PlayerRecords \cup {None}] /\ unsaved \in [Users -> SUBSET Items]
      /\ fresh \subseteq Users /\ m.usr \in Users /\ m.items \in ItemRows
  BY DEF TypeInv, GameTypes, HistoryTypes, InfoMsgs
<1>1. PICK inv \in InitInventory(m.items) :
         /\ m_players' = [m_players EXCEPT ![m.usr] = [pos |-> m.pos, inv |-> inv]]
         /\ unsaved' = [unsaved EXCEPT ![m.usr] = Present(m.items) \ inv.m_baseBag]
  BY DEF Loaded
<1>2. saves' = saves
  BY DEF Loaded
<1> SUFFICES ASSUME NEW u \in fresh', m_players'[u] # None
             PROVE  SavedBut(u, m_players'[u], saves, unsaved'[u])
  BY <1>2 DEF KnownInv
<1>3. CASE u # m.usr
  <2>1. u \in fresh /\ m_players'[u] = m_players[u] /\ unsaved'[u] = unsaved[u]
    BY <1>1, <1>3, <1>t DEF Loaded
  <2> QED BY <2>1 DEF KnownInv
<1>4. CASE u = m.usr
  <2>1. UpToDate(m)
    BY <1>4 DEF Loaded
  <2>4. \A i \in Items : m.items[i] = CountAfter(u, i, saves, Len(saves))
    BY <2>1, <1>4 DEF UpToDate
  <2>5. /\ m_players'[u].inv = inv
        /\ unsaved'[u] = Present(m.items) \ inv.m_baseBag
    BY <1>1, <1>4, <1>t
  <2>6. \A i \in Items : inv.m_mItems[i] = IF i \in inv.m_baseBag THEN m.items[i] ELSE None
    BY <1>t, InitInventoryFacts
  <2>7. \A i \in Items : i \notin Present(m.items) => m.items[i] = None
    BY DEF Present
  <2> QED BY <2>4, <2>5, <2>6, <2>7 DEF SavedBut
<1> QED BY <1>3, <1>4

LEMMA KnownOnItem ==
    ASSUME TypeInv, KnownInv, NEW m \in InfoMsgs \cup ClientMsgs, HandledMsg(m),
           NEW o, ItemUsed(m, o)
    PROVE  KnownInv'
<1>t. /\ m_players \in [Users -> PlayerRecords \cup {None}] /\ unsaved \in [Users -> SUBSET Items]
      /\ fresh \subseteq Users /\ m.usr \in Users /\ m.item \in Items
      /\ saves \in Seq(SaveMsgs)
  BY MsgTypes DEF TypeInv, GameTypes, HistoryTypes, ItemUsed
<1>1. /\ m_players[m.usr] \in PlayerRecords
      /\ m_players' = [m_players EXCEPT ![m.usr].inv = o.inv]
      /\ fresh' = fresh
  BY <1>t DEF ItemUsed
<1>2. /\ m_players'[m.usr].inv = o.inv
      /\ \A u \in Users : u # m.usr => m_players'[u] = m_players[u]
  BY <1>1, <1>t DEF PlayerRecords
<1> DEFINE inv == m_players[m.usr].inv
<1>3. /\ \A j \in Items \ {m.item} : o.inv.m_mItems[j] = inv.m_mItems[j]
      /\ o.saved = {} => o.inv.m_mItems = inv.m_mItems \/ m.optype = "add" \/ ~Has(o.inv, m.item)
      /\ o.saved # {} => Has(o.inv, m.item) /\ o.inv \in Inventories
  BY DEF ItemUsed, GoodOutcome, Outcomes
<1>4. m.usr \in fresh => SavedBut(m.usr, m_players[m.usr], saves, unsaved[m.usr])
  BY DEF KnownInv, ItemUsed
<1>5. CASE Changed(m, o)
  <2>1. /\ saves' = saves
        /\ \A u \in Users : unsaved'[u] =
              IF u # m.usr THEN unsaved[u]
              ELSE IF m.optype = "add" \/ ~Has(o.inv, m.item) THEN unsaved[u] \cup {m.item}
              ELSE unsaved[u]
    BY <1>5, <1>t DEF Changed
  <2>2. o.saved = {}
    BY <1>5 DEF Changed
  <2> SUFFICES ASSUME NEW u \in fresh, m_players'[u] # None
               PROVE  SavedBut(u, m_players'[u], saves, unsaved'[u])
    BY <1>1, <2>1 DEF KnownInv
  <2>3. CASE u # m.usr
    BY <1>2, <1>t, <2>1, <2>3 DEF KnownInv
  <2>4. CASE u = m.usr
    <3> SUFFICES ASSUME NEW i \in Items, i \notin unsaved'[u]
                 PROVE  o.inv.m_mItems[i] = CountAfter(u, i, saves, Len(saves))
      BY <1>2, <2>4 DEF SavedBut
    <3>1. i \notin unsaved[u]
      BY <1>t, <2>1
    <3>2. inv.m_mItems[i] = CountAfter(u, i, saves, Len(saves))
      BY <3>1, <2>4, <1>4 DEF SavedBut
    <3>3. CASE i # m.item
      BY <3>2, <3>3, <1>3
    <3>4. CASE i = m.item
      <4>1. ~(m.optype = "add" \/ ~Has(o.inv, m.item))
        BY <3>4, <2>1, <2>4, <1>t
      <4> QED BY <4>1, <3>2, <3>4, <2>2, <1>3
    <3> QED BY <3>3, <3>4
  <2> QED BY <2>3, <2>4
<1>6. CASE ChangedAndSaved(m, o)
  <2> DEFINE e == saveItem(m.usr, m.item, o.inv)
  <2>1. /\ saves' = Append(saves, e)
        /\ \A u \in Users : unsaved'[u] =
              IF u # m.usr THEN unsaved[u] ELSE unsaved[u] \ {m.item}
    BY <1>6, <1>t DEF ChangedAndSaved
  <2>2. e \in SaveMsgs
    BY <1>3, <1>6, <1>t, SaveTypes DEF ChangedAndSaved
  <2>3. /\ e.count = o.inv.m_mItems[m.item]
        /\ \A u, i : IsItemSave(e, u, i) <=> u = m.usr /\ i = m.item
    BY DEF saveItem, IsItemSave
  <2> HIDE DEF e
  <2> SUFFICES ASSUME NEW u \in fresh, m_players'[u] # None
               PROVE  SavedBut(u, m_players'[u], Append(saves, e), unsaved'[u])
    BY <1>1, <2>1 DEF KnownInv
  <2>4. CASE u # m.usr
    <3>1. SavedBut(u, m_players[u], saves, unsaved[u]) /\ m_players'[u] = m_players[u]
      BY <1>2, <1>t, <2>4 DEF KnownInv
    <3>2. unsaved'[u] = unsaved[u]
      BY <1>t, <2>1, <2>4
    <3> SUFFICES ASSUME NEW i \in Items \ unsaved[u]
                 PROVE  m_players[u].inv.m_mItems[i]
                          = CountAfter(u, i, Append(saves, e), Len(Append(saves, e)))
      BY <3>1, <3>2 DEF SavedBut
    <3>3. CountAfter(u, i, Append(saves, e), Len(Append(saves, e))) = CountAfter(u, i, saves, Len(saves))
      BY <2>2, <2>3, <2>4, <1>t, OtherSaves
    <3> QED BY <3>1, <3>3 DEF SavedBut
  <2>5. CASE u = m.usr
    <3> SUFFICES ASSUME NEW i \in Items, i \notin unsaved'[u]
                 PROVE  o.inv.m_mItems[i] = CountAfter(u, i, Append(saves, e), Len(Append(saves, e)))
      BY <1>2, <2>5 DEF SavedBut
    <3>1. CASE i = m.item
      BY <3>1, <2>2, <2>3, <2>5, <1>t, OwnSave
    <3>2. CASE i # m.item
      <4>1. i \notin unsaved[u]
        BY <3>2, <2>1, <1>t
      <4>2. inv.m_mItems[i] = CountAfter(u, i, saves, Len(saves))
        BY <4>1, <2>5, <1>4 DEF SavedBut
      <4>3. CountAfter(u, i, Append(saves, e), Len(Append(saves, e))) = CountAfter(u, i, saves, Len(saves))
        BY <3>2, <2>2, <2>3, <1>t, OtherSaves
      <4> QED BY <4>2, <4>3, <3>2, <1>3
    <3> QED BY <3>1, <3>2
  <2> QED BY <2>4, <2>5
<1> QED BY <1>5, <1>6 DEF ItemUsed

LEMMA KnownStep ==
    ASSUME TypeInv, KnownInv, StepKinds
    PROVE  KnownInv'
<1>t. /\ m_players \in [Users -> PlayerRecords \cup {None}] /\ fresh \subseteq Users
      /\ saves \in Seq(SaveMsgs)
  BY DEF TypeInv, GameTypes, HistoryTypes
<1>1. CASE UNCHANGED <<m_players, saves, fresh, unsaved>>
  BY <1>1 DEF KnownInv
<1>2. ASSUME NEW m \in InfoMsgs \cup ClientMsgs, HandledMsg(m), RunKinds(m) PROVE KnownInv'
  <2>0. m.usr \in Users
    BY MsgTypes
  <2>1. CASE Loaded(m)
    BY <1>2, <2>1, KnownOnLoad DEF Loaded
  <2>2. CASE Ignored(m)
    BY <2>2, <1>1 DEF Ignored
  <2>3. CASE Exited(m)
    <3> DEFINE e == savePlayer(m.usr, m_players[m.usr].pos)
    <3>1. /\ m_players' = [m_players EXCEPT ![m.usr] = None]
          /\ saves' = Append(saves, e) /\ fresh' = fresh /\ unsaved' = unsaved
      BY <2>3 DEF Exited
    <3>2. m_players[m.usr] \in PlayerRecords
      BY <2>3, <2>0, <1>t DEF Exited
    <3>3. m_players[m.usr].pos \in Nat
      BY <3>2 DEF PlayerRecords
    <3>4. e \in SaveMsgs /\ \A u, i : ~IsItemSave(e, u, i)
      BY <3>3, <2>0, <1>t, SaveTypes DEF savePlayer, IsItemSave
    <3> HIDE DEF e
    <3> SUFFICES ASSUME NEW u \in fresh, m_players'[u] # None
                 PROVE  SavedBut(u, m_players'[u], Append(saves, e), unsaved[u])
      BY <3>1 DEF KnownInv
    <3>5. u # m.usr /\ m_players'[u] = m_players[u]
      BY <3>1, <2>0, <1>t
    <3>6. SavedBut(u, m_players[u], saves, unsaved[u])
      BY <3>5 DEF KnownInv
    <3> QED BY <3>4, <3>5, <3>6, <1>t, OtherSaves DEF SavedBut
  <2>4. CASE Moved(m)
    <3>1. /\ m_players' = [m_players EXCEPT ![m.usr].pos = m.pos]
          /\ UNCHANGED <<saves, fresh, unsaved>> /\ m_players[m.usr] # None
      BY <2>4 DEF Moved
    <3>2. \A u \in Users : u # m.usr => m_players'[u] = m_players[u]
      BY <3>1, <1>t
    <3>3. m_players'[m.usr].inv = m_players[m.usr].inv
      BY <3>1, <2>0, <1>t DEF PlayerRecords
    <3> SUFFICES ASSUME NEW u \in fresh, m_players'[u] # None
                 PROVE  SavedBut(u, m_players'[u], saves, unsaved[u])
      BY <3>1 DEF KnownInv
    <3>4. m_players[u] # None /\ m_players'[u].inv = m_players[u].inv
      BY <3>1, <3>2, <3>3, <1>t
    <3> QED BY <3>4 DEF KnownInv, SavedBut
  <2>5. ASSUME NEW o, ItemUsed(m, o) PROVE KnownInv'
    BY <1>2, <2>5, KnownOnItem
  <2> QED BY <1>2, <2>1, <2>2, <2>3, <2>4, <2>5 DEF RunKinds
<1> QED BY <1>1, <1>2 DEF StepKinds, Ask, Played, Quiet, Sends, Drops, LogsIn, Forwards,
      LoginLoses, AnswersPassword, AnswersAll, SavesPlayer, SavesItem, SavesMsg, DbLost, GateGone, gameVars, history

\* Inventory: the counts of a user who was loaded with what all saves come to are what
\* the saves made since add up to, in the order in which they were made, but for
\* items added to, used up, or left out of the bag.  It says nothing of saves
\* that are lost or overtaken on their way.
THEOREM UnsavedItemsKnown == SessionSpec => []OnlyKnownItemsUnsaved
<1>1. SessionInit => KnownInv
  BY DEF SessionInit, KnownInv
<1>2. TypeInv /\ KnownInv /\ [SessionNext]_sessionVars => KnownInv'
  BY StepCases, KnownStep
<1>3. KnownInv => OnlyKnownItemsUnsaved
  BY DEF KnownInv, SavedBut, OnlyKnownItemsUnsaved
<1> QED BY <1>1, <1>2, <1>3, Invariance, PTL DEF SessionSpec
=============================================================================
