------------------------------ MODULE Inventory ------------------------------
(***************************************************************************)
(* A player's items in the game server (src/Player/Inventory.cpp), as      *)
(* operators from an inventory to the outcomes of an operation.  An        *)
(* inventory is the count of each item it has and the ids in its base bag, *)
(* which should be the same items.  Nothing ever gets into the bag for     *)
(* equipment: equipItem compares an item with itself and refuses, and      *)
(* unequipItem asks for a bag that is not there; so that bag is left out.  *)
(***************************************************************************)
EXTENDS Integers, FiniteSets, Players

CONSTANTS Items,      \* item ids: numbers, since std::set walks a bag in their order
          ItemType,   \* the type of each item, which is its class
          Capacity    \* the capacity of the base bag

ASSUME InventoryAssumption ==
    /\ Items \subseteq Int
    /\ IsFiniteSet(Items)
    /\ ItemType \in [Items -> {"money", "consum", "equip"}]
    /\ Capacity \in Nat
    /\ None \notin Int

Counts == Nat \ {0}
Inventories == [m_mItems : [Items -> Counts \cup {None}], m_baseBag : SUBSET Items]

isStack(i) == ItemType[i] # "equip"

Present(counts) == {i \in Items : counts[i] # None}

\* The items come out of a hash map of the db server, in any order, and those
\* that come when the bag is full are not taken.
InitInventory(counts) ==
    LET kept == {K \in SUBSET Present(counts) :
                    \/ K = Present(counts) /\ Cardinality(K) <= Capacity
                    \/ K # Present(counts) /\ Cardinality(K) = Capacity}
    IN {[m_mItems |-> [i \in Items |-> IF i \in K THEN counts[i] ELSE None],
         m_baseBag |-> K] : K \in kept}

-----------------------------------------------------------------------------
(* An outcome: the inventory, whether the operation says it succeeded, the *)
(* items it saves, the process surviving it.                               *)

Outcome(inv, ok, saved) == [inv |-> inv, ok |-> ok, saved |-> saved, crash |-> FALSE]

Refused(inv) == {Outcome(inv, FALSE, {})}

Has(inv, i) == inv.m_mItems[i] # None

\* Adding to a stack changes the count and saves nothing.
addItem(inv, i, n) ==
    IF Has(inv, i) /\ isStack(i)
      THEN {Outcome([inv EXCEPT !.m_mItems[i] = @ + n], TRUE, {})}
      ELSE Refused(inv)

\* Faulty variant: taking some of a stack saves nothing either.
delItemUnsaved(inv, i, n) ==
    IF ~Has(inv, i) THEN Refused(inv)
    ELSE IF n < inv.m_mItems[i] THEN {Outcome([inv EXCEPT !.m_mItems[i] = @ - n], TRUE, {})}
    ELSE {Outcome([inv EXCEPT !.m_mItems[i] = None], TRUE, {})}

\* Faulty variant: an item is kept with a count of zero.
delItemToZero(inv, i, n) ==
    IF ~Has(inv, i) THEN Refused(inv)
    ELSE IF n <= inv.m_mItems[i] THEN {Outcome([inv EXCEPT !.m_mItems[i] = @ - n], TRUE, {i})}
    ELSE {Outcome([inv EXCEPT !.m_mItems[i] = None], TRUE, {})}

\* Taking the last ones erases the item and then reads its id from the erased
\* entry to take it out of the bag: the id may or may not still be there.
delItem(inv, i, n) ==
    IF ~Has(inv, i) THEN Refused(inv)
    ELSE IF n < inv.m_mItems[i] THEN {Outcome([inv EXCEPT !.m_mItems[i] = @ - n], TRUE, {i})}
    ELSE {Outcome([m_mItems |-> [inv.m_mItems EXCEPT ![i] = None], m_baseBag |-> bag], TRUE, {}) :
            bag \in {inv.m_baseBag, inv.m_baseBag \ {i}}}

useItem(inv, i) ==
    IF Has(inv, i) /\ ItemType[i] = "consum" THEN delItem(inv, i, 1) ELSE Refused(inv)

\* The ids that the loop looks at: in their order, up to one of the same type.
Visited(inv, i) ==
    {n \in inv.m_baseBag : \A k \in inv.m_baseBag : k < n => ItemType[k] # ItemType[i]}

\* Faulty variant: the bag is not asked for the item first.
equipAnything(inv, i) ==
    {[Outcome(inv, FALSE, {}) EXCEPT !.crash = ~Has(inv, i)]}

\* An id in the bag without an item leads to a null pointer.
equipItem(inv, i) ==
    IF i \in inv.m_baseBag
      THEN {[Outcome(inv, FALSE, {}) EXCEPT
               !.crash = ~Has(inv, i) \/ \E n \in Visited(inv, i) : ~Has(inv, n)]}
      ELSE Refused(inv)

update_item(inv, optype, i, n) ==
    CASE optype = "add" -> addItem(inv, i, n)
      [] optype = "del" -> delItem(inv, i, n)
      [] optype = "use" -> useItem(inv, i)
      [] optype = "equip" -> equipItem(inv, i)
      [] OTHER -> Refused(inv)
=============================================================================
