---------------------------- MODULE PlayerStore ----------------------------
(***************************************************************************)
(* What the login and game servers expect of the db server: a player and   *)
(* the items of a player that can be read together and changed one by one. *)
(* A change shows in every later read; whether it also survives a restart  *)
(* is open, since the database may refuse it.  There is no cache here.     *)
(***************************************************************************)
CONSTANTS Users, Items, Values,
          None       \* there is no such player or item

VARIABLES player, items,              \* what a read shows
          savedPlayer, savedItems,    \* what a restart goes back to
          answer                      \* the last answer to a GET_ALLINFO

vars == <<player, items, savedPlayer, savedItems, answer>>

Rows == Values \cup {None}
Bags == [Items -> Rows]

Init ==
    /\ player \in [Users -> Rows] /\ savedPlayer = player
    /\ items \in [Users -> Bags] /\ savedItems = items
    /\ answer = None

Read(u) ==
    /\ player[u] # None
    /\ answer' = <<u, player[u], items[u]>>
    /\ UNCHANGED <<player, items, savedPlayer, savedItems>>

WritePlayer(u, v) ==
    /\ player[u] # None
    /\ player' = [player EXCEPT ![u] = v]
    /\ savedPlayer' \in {savedPlayer, [savedPlayer EXCEPT ![u] = v]}
    /\ UNCHANGED <<items, savedItems, answer>>

WriteItem(u, i, v) ==
    /\ items[u][i] # None
    /\ items' = [items EXCEPT ![u][i] = v]
    /\ savedItems' \in {savedItems, [savedItems EXCEPT ![u][i] = v]}
    /\ UNCHANGED <<player, savedPlayer, answer>>

Restart ==
    /\ player' = savedPlayer
    /\ items' = savedItems
    /\ UNCHANGED <<savedPlayer, savedItems, answer>>

Next ==
    \/ \E u \in Users :
          \/ Read(u)
          \/ \E v \in Values : WritePlayer(u, v) \/ (\E i \in Items : WriteItem(u, i, v))
    \/ Restart

Spec == Init /\ [][Next]_vars
=============================================================================
