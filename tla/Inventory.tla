------------------------------ MODULE Inventory ------------------------------
(***************************************************************************)
(* The items of one player: the inventory and equipment in memory          *)
(* (game/Player.cpp, game/ItemHandler.cpp), the queue of items that have    *)
(* to be saved (game/Item.cpp), and the rows of character_inventory and     *)
(* item_instance, which the delay thread writes some time later.  A pet of  *)
(* the player wears equipment too and has a row of its own.                 *)
(*                                                                         *)
(* What the database module promises is taken from SqlLog: operations take  *)
(* effect one after the other, each as a whole, and a query handed over     *)
(* after them reads what they left; a crash loses those still pending.      *)
(*                                                                         *)
(* Abstractions: an item is where it is ("bag", worn by the player, worn by *)
(* the pet), not its slot number: equipment has one slot per kind of item   *)
(* (EquipSlot) and the first stack that fits is any stack that fits.  A     *)
(* wearer's modifier is the number of times each item has been applied to   *)
(* it.  Set bonuses, banks, prices and effects of items are left out, and   *)
(* every saved transaction commits.                                         *)
(***************************************************************************)
EXTENDS Integers, Sequences, FiniteSetsExt

CONSTANTS
  Guids,         \* item guids
  Entries,       \* item prototypes
  None,          \* no equipment slot
  Null,          \* no item, no row
  EquipSlot,     \* ItemPrototype::EquipmentSlot, None for consumables
  Stackable,     \* ItemPrototype::Stackable
  MaxCount,      \* ItemPrototype::MaxCount, 0 for no maximum
  BagSize,       \* inventory slots: 25
  CountModulus,  \* m_count is a uint32: 2^32
  MaxAsked,      \* bound on the amounts clients ask for
  MaxPending,    \* bound on the operations not yet written
  PetModBound    \* bound on the modifiers a pet puts on and that are saved with it

ASSUME CountAssumption == CountModulus \in Nat \ {0} /\ MaxAsked \in Nat

ASSUME BagAssumption == IsFiniteSet(Guids) /\ BagSize \in Nat

ASSUME PrototypeAssumption ==
  Stackable \in [Entries -> (1..CountModulus) \ {CountModulus}]

\* Two stacks of equipment do not wrap: Stackable comes from a smallint of the
\* item table (legacydb.sql, 105).
ASSUME StackAssumption ==
  \A e \in Entries : EquipSlot[e] # None => Stackable[e] + Stackable[e] < CountModulus

VARIABLES
  stage,     \* "offline", "loading" or "playing"
  items,     \* the Item objects the player owns
  queue,     \* m_itemUpdateQueue
  todo,      \* rows of the login query not yet looked at
  selfMods,  \* how often an item's values are in the player's modifiers
  petMods,   \* the same for the pet
  petState,  \* the pet's uState
  rows,      \* character_inventory joined with item_instance
  petRow,    \* the modifiers in the pet's row
  pending,   \* operations handed over and not yet written
  views,     \* observer: the rows now and after each pending operation
  absorbed,  \* observer: rows merged into another item by this login
  grown      \* observer: items such a merge has changed and nothing since

vars == <<stage, items, queue, todo, selfMods, petMods, petState,
          rows, petRow, pending, views, absorbed, grown>>

memory   == <<items, queue>>
database == <<rows, petRow, pending, views>>
observed == <<absorbed, grown>>

Counts == 0..(CountModulus - 1)
Rows   == [entry : Entries, count : Counts, place : {"bag", "self", "pet"}]
Items  == [entry : Entries, count : Counts,
           place : {"bag", "self", "pet", "none"},
           state : {"unchanged", "changed", "new", "removed"}]
ASSUME NullAssumption == Null \notin Rows /\ Null \notin Items

Changes == [kind : {"keep", "delete"}] \cup [kind : {"insert", "update"}, row : Rows]
Mods == [Guids -> Int]

Keep == [kind |-> "keep"]
NoMods == [g \in Guids |-> 0]

TypeOK ==
  /\ stage \in {"offline", "loading", "playing"}
  /\ items \in [Guids -> Items \cup {Null}]
  /\ queue \subseteq Guids /\ todo \subseteq Guids
  /\ selfMods \in Mods /\ petMods \in Mods /\ petRow \in Mods
  /\ petState \in {"unchanged", "changed"}
  /\ rows \in [Guids -> Rows \cup {Null}]
  /\ pending \in Seq([items : [Guids -> Changes], pet : Mods \cup {Null}])
  /\ views \in Seq([Guids -> Rows \cup {Null}])
  /\ absorbed \subseteq Guids /\ grown \subseteq Guids

\* The guids of the items that lie or are worn at a place.
At(its, p) == {g \in Guids : its[g] # Null /\ its[g].place = p}

Init ==
  /\ stage = "offline"
  /\ items = [g \in Guids |-> Null] /\ queue = {} /\ todo = {}
  /\ selfMods = NoMods /\ petMods = NoMods /\ petState = "unchanged"
  /\ rows = [g \in Guids |-> Null] /\ petRow = NoMods
  /\ pending = <<>> /\ views = <<rows>>
  /\ absorbed = {} /\ grown = {}

(***************************************************************************)
(* Item::SetState and the functions that move items.  They work on a       *)
(* memory m, a record of the items and the update queue.                   *)
(***************************************************************************)
Memory == [items |-> items, queue |-> queue]
Remember(m) == items' = m.items /\ queue' = m.queue

\* Faulty variant of Changed: a new item is updated, though it has no row.
ChangedAnew(m, g) ==
  [items |-> [m.items EXCEPT ![g].state = "changed"], queue |-> m.queue \cup {g}]

\* SetState(ITEM_CHANGED): new items stay new until they are saved.
Changed(m, g) ==
  [items |-> [m.items EXCEPT ![g].state = IF @ = "new" THEN "new" ELSE "changed"],
   queue |-> m.queue \cup {g}]

\* SetState(ITEM_REMOVED), the item out of its slot: a new one never existed.
Removed(m, g) ==
  IF m.items[g].state = "new"
  THEN [items |-> [m.items EXCEPT ![g] = Null], queue |-> m.queue \ {g}]
  ELSE [items |-> [m.items EXCEPT ![g].state = "removed", ![g].place = "none"],
        queue |-> m.queue \cup {g}]

\* An item is taken from its place, put at another and queued.
Moved(m, g, p) ==
  Changed([m EXCEPT !.items = [m.items EXCEPT ![g].place = p]], g)

\* Faulty variant of Displaced: what lay there is moved but not queued.
DisplacedUnqueued(m, gone) ==
  [m EXCEPT !.items = [g \in Guids |->
     IF g \in gone THEN [m.items[g] EXCEPT !.place = "bag"] ELSE m.items[g]]]

\* What lay at a slot goes to the bag, where the newcomer came from.
Displaced(m, gone) ==
  [items |-> [g \in Guids |-> IF g \in gone THEN Moved(m, g, "bag").items[g] ELSE m.items[g]],
   queue |-> m.queue \cup gone]

\* GetItemCount: how many the player holds, those of its pets aside.
Carried(its, e, except) ==
  MapThenSumSet(LAMBDA g : its[g].count,
                {g \in (At(its, "bag") \cup At(its, "self")) \ {except} : its[g].entry = e})

CanTakeMoreSimilarItems(its, g, e, n) ==
  MaxCount[e] = 0 \/ (Carried(its, e, g) + n) % CountModulus <= MaxCount[e]

Fitting(its, g, e, n) ==
  {h \in At(its, "bag") \ {g} :
     its[h].entry = e /\ (its[h].count + n) % CountModulus <= Stackable[e]}

\* CanStoreItem: the stacks the item may be merged into, itself for a free
\* slot, nothing when it is refused.
CanStoreItem(its, g, e, n) ==
  IF ~CanTakeMoreSimilarItems(its, g, e, n) THEN {}
  ELSE IF Stackable[e] > 1 /\ Fitting(its, g, e, n) # {} THEN Fitting(its, g, e, n)
  ELSE IF Cardinality(At(its, "bag") \ {g}) < BagSize THEN {g} ELSE {}

\* its[h] with the count of another stack added.
Merged(its, h, n) == [its EXCEPT ![h].count = (@ + n) % CountModulus]

StoreItem(m, g, into) ==
  IF into = g THEN Moved(m, g, "bag")
  ELSE Changed(Removed([m EXCEPT !.items = Merged(m.items, into, m.items[g].count)], g), into)

\* Faulty variant of TakenFrom: what is left of a stack is not queued.
TakenFromUnqueued(m, g, n) ==
  LET left == (m.items[g].count - n) % CountModulus IN
  IF left = 0
  THEN Removed([m EXCEPT !.items = [m.items EXCEPT ![g].count = 0]], g)
  ELSE [m EXCEPT !.items = [m.items EXCEPT ![g].count = left]]

\* SetCount(GetCount() - n), and DestroyItem of an empty stack.
TakenFrom(m, g, n) ==
  LET left == (m.items[g].count - n) % CountModulus IN
  IF left = 0
  THEN Removed([m EXCEPT !.items = [m.items EXCEPT ![g].count = 0]], g)
  ELSE Changed([m EXCEPT !.items = [m.items EXCEPT ![g].count = left]], g)

\* _ApplyItemModsFor: an item put on, items taken off.
Applied(mods, on, off) ==
  [g \in Guids |-> mods[g] + (IF g \in on THEN 1 ELSE 0) - (IF g \in off THEN 1 ELSE 0)]

Bounded(mods) == MapThenSumSet(LAMBDA g : mods[g], Guids) <= PetModBound

(***************************************************************************)
(* What the player does.                                                   *)
(***************************************************************************)
Playing == stage = "playing" /\ UNCHANGED <<stage, todo, database, absorbed>>
Quiet   == UNCHANGED <<selfMods, petMods, petState>>

\* Items changed here are queued, so they no longer count as grown.
Requeued == grown' = grown \ queue'

\* GenerateLowGuid never hands out a guid again.
Fresh(g) ==
  /\ items[g] = Null /\ \A i \in 1..Len(views) : views[i][g] = Null
  /\ petMods[g] = 0 /\ petRow[g] = 0

\* CreateItem: the count is cut to one stack, and is one at least.
CreatedCount(e, n) ==
  IF n > Stackable[e] THEN Stackable[e] ELSE IF n < 1 THEN 1 ELSE n

\* Goods bought, dropped by creatures or handed out.
AddNewInventoryItem(g, e, n) ==
  /\ Playing /\ Fresh(g) /\ Quiet
  /\ LET created == [entry |-> e, count |-> CreatedCount(e, n), place |-> "none", state |-> "new"] IN
       \E into \in CanStoreItem(items, g, e, created.count) :
         Remember(StoreItem([Memory EXCEPT !.items = [items EXCEPT ![g] = created]], g, into))
  /\ Requeued

\* Some of a stack is thrown away, or sold (but see SellNew): no more than
\* there are.
Drop(g, n) ==
  /\ Playing /\ g \in At(items, "bag") /\ n <= items[g].count /\ Quiet
  /\ Remember(TakenFrom(Memory, g, n))
  /\ Requeued

\* The amount is the client's, and so is who consumes it: a pet that does has to
\* be saved, unless its points are full.
Consume(g, n) ==
  /\ Playing /\ n > 0 /\ g \in At(items, "bag") /\ EquipSlot[items[g].entry] = None
  /\ Remember(TakenFrom(Memory, g, n))
  /\ petState' \in {petState, "changed"}
  /\ Requeued /\ UNCHANGED <<selfMods, petMods>>

\* The items a wearer wears in the slot of an item.
WornInstead(g, wearer) ==
  {h \in At(items, wearer) : EquipSlot[items[h].entry] = EquipSlot[items[g].entry]}

\* The player or the pet puts an item on; what it wore goes to the bag.
PutOn(g, wearer) ==
  /\ g \in At(items, "bag") /\ EquipSlot[items[g].entry] # None
  /\ CanTakeMoreSimilarItems(items, g, items[g].entry, items[g].count)
  /\ Remember(Moved(Displaced(Memory, WornInstead(g, wearer)), g, wearer))
  /\ Requeued

\* Faulty variant of Equip: the modifiers of the item taken off stay.
EquipKept(g) ==
  /\ Playing /\ PutOn(g, "self")
  /\ selfMods' = Applied(selfMods, {g}, {})
  /\ UNCHANGED <<petMods, petState>>

Equip(g) ==
  /\ Playing /\ PutOn(g, "self")
  /\ selfMods' = Applied(selfMods, {g}, WornInstead(g, "self"))
  /\ UNCHANGED <<petMods, petState>>

PetEquip(g) ==
  /\ Playing /\ PutOn(g, "pet")
  /\ petMods' = Applied(petMods, {g}, WornInstead(g, "pet")) /\ Bounded(petMods')
  /\ UNCHANGED <<selfMods, petState>>

\* Faulty variant of TakeOff: the item leaves its place before the bag is
\* asked.
TakeOffFirst(g, wearer) ==
  /\ g \in At(items, wearer)
  /\ LET into == CanStoreItem(items, g, items[g].entry, items[g].count) IN
       IF into = {} THEN Remember(Removed(Memory, g))
       ELSE \E h \in into : Remember(StoreItem(Memory, g, h))
  /\ Requeued

\* The player or the pet takes an item off, if the bag has room for it.
TakeOff(g, wearer) ==
  /\ g \in At(items, wearer)
  /\ \E into \in CanStoreItem(items, g, items[g].entry, items[g].count) :
       Remember(StoreItem(Memory, g, into))
  /\ Requeued

Unequip(g) ==
  /\ Playing /\ TakeOff(g, "self")
  /\ selfMods' = Applied(selfMods, {}, {g})
  /\ UNCHANGED <<petMods, petState>>

PetUnequip(g) ==
  /\ Playing /\ TakeOff(g, "pet")
  /\ petMods' = Applied(petMods, {}, {g})
  /\ UNCHANGED <<selfMods, petState>>

\* A battle or a spent point changes the pet.
PetChanges ==
  /\ Playing /\ petState = "unchanged" /\ petState' = "changed"
  /\ UNCHANGED <<memory, selfMods, petMods, grown>>

(***************************************************************************)
(* Saving, writing and loading.                                            *)
(***************************************************************************)
RowOf(it) == [entry |-> it.entry, count |-> it.count, place |-> it.place]

\* Faulty variant of ChangeOf: an item that is gone is updated, not deleted.
ChangeOfGone(g) ==
  IF g \notin queue \/ items[g] = Null THEN Keep
  ELSE [kind |-> IF items[g].state = "new" THEN "insert" ELSE "update", row |-> RowOf(items[g])]

\* _SaveInventory and Item::SaveToDB.
ChangeOf(g) ==
  IF g \notin queue \/ items[g] = Null THEN Keep
  ELSE CASE items[g].state = "new"     -> [kind |-> "insert", row |-> RowOf(items[g])]
         [] items[g].state = "changed" -> [kind |-> "update", row |-> RowOf(items[g])]
         [] items[g].state = "removed" -> [kind |-> "delete"]
         [] OTHER                      -> Keep

\* The rows an operation leaves behind.  An UPDATE of no row does nothing.
Written(rs, changes) ==
  [g \in Guids |->
     CASE changes[g].kind = "insert" -> changes[g].row
       [] changes[g].kind = "update" -> IF rs[g] = Null THEN Null ELSE changes[g].row
       [] changes[g].kind = "delete" -> Null
       [] OTHER                      -> rs[g]]

HandOver(op) ==
  /\ Len(pending) < MaxPending
  /\ pending' = Append(pending, op)
  /\ views' = Append(views, Written(views[Len(views)], op.items))
  /\ UNCHANGED <<rows, petRow>>

\* Player::SaveToDB: one transaction with the items and the pet that changed.
SaveToDB ==
  /\ petState = "changed" => Bounded(petMods)
  /\ HandOver([items |-> [g \in Guids |-> ChangeOf(g)],
               pet |-> IF petState = "changed" THEN petMods ELSE Null])

\* The timer of Player::Update, or a command that saves.
Save ==
  /\ stage = "playing" /\ SaveToDB
  /\ items' = [g \in Guids |->
       IF g \notin queue \/ items[g] = Null THEN items[g]
       ELSE IF items[g].state = "removed" THEN Null
       ELSE [items[g] EXCEPT !.state = "unchanged"]]
  /\ queue' = {} /\ petState' = "unchanged"
  /\ UNCHANGED <<stage, todo, selfMods, petMods, observed>>

\* The player's objects are gone.
Forget ==
  /\ stage' = "offline"
  /\ items' = [g \in Guids |-> Null] /\ queue' = {} /\ todo' = {}
  /\ selfMods' = NoMods /\ petMods' = NoMods /\ petState' = "unchanged"
  /\ absorbed' = {} /\ grown' = {}

Logout == stage = "playing" /\ SaveToDB /\ Forget

\* The delay thread writes the oldest operation.
Write ==
  /\ pending # <<>>
  /\ rows' = Written(rows, Head(pending).items)
  /\ petRow' = IF Head(pending).pet = Null THEN petRow ELSE Head(pending).pet
  /\ pending' = Tail(pending) /\ views' = Tail(views)
  /\ UNCHANGED <<stage, todo, memory, observed>> /\ Quiet

\* The process dies and starts again.
Crash ==
  /\ Forget
  /\ pending' = <<>> /\ views' = <<rows>>
  /\ UNCHANGED <<rows, petRow>>

\* All of a new item is sold.  A sale does as Drop, but marks the item as removed
\* before it takes it out of its slot: a new one is deleted by that, RemoveItem
\* works on the freed object, and gets away with it (Drop) or the process dies.
SellNew(g) ==
  /\ stage = "playing" /\ g \in At(items, "bag")
  /\ items[g].state = "new" /\ items[g].count <= MaxAsked
  /\ Crash

\* The queries of the login run after everything handed over before them.
Login ==
  /\ stage = "offline" /\ pending = <<>>
  /\ stage' = "loading" /\ todo' = {g \in Guids : rows[g] # Null}
  /\ petMods' = petRow
  /\ UNCHANGED <<memory, database, selfMods, petState, observed>>

\* One turn of the loop of _LoadInventory: the rows come in the order of
\* their slots, equipment first, and the queue is blocked.
LoadRow(g) ==
  /\ stage = "loading" /\ g \in todo
  /\ rows[g].place = "bag" => \A h \in todo : rows[h].place = "bag"
  /\ todo' = todo \ {g}
  /\ UNCHANGED <<stage, queue>> /\ Quiet

\* The item gets a place of its own, and is up to date with its row.
Loaded(g) == [entry |-> rows[g].entry, count |-> rows[g].count,
              place |-> rows[g].place, state |-> "unchanged"]

FitsWorn(r) ==
  \A h \in At(items, r.place) : EquipSlot[items[h].entry] # EquipSlot[r.entry]

LoadHolds(g) ==
  /\ IF rows[g].place = "bag" THEN g \in CanStoreItem(items, g, rows[g].entry, rows[g].count)
     ELSE FitsWorn(rows[g]) /\ CanTakeMoreSimilarItems(items, g, rows[g].entry, rows[g].count)
  /\ items' = [items EXCEPT ![g] = Loaded(g)]
  /\ UNCHANGED <<database, observed>>

\* StoreItem merges it into another item and deletes the object; that one is
\* marked as up to date although it has grown, and this row stays.
LoadMerges(g) ==
  /\ rows[g].place = "bag"
  /\ \E h \in CanStoreItem(items, g, rows[g].entry, rows[g].count) \ {g} :
       /\ items' = Merged(items, h, rows[g].count)
       /\ grown' = grown \cup {h}
  /\ absorbed' = absorbed \cup {g}
  /\ UNCHANGED database

\* No place for it: its row is deleted.
LoadRefuses(g) ==
  /\ IF rows[g].place = "bag" THEN CanStoreItem(items, g, rows[g].entry, rows[g].count) = {}
     ELSE ~(FitsWorn(rows[g]) /\ CanTakeMoreSimilarItems(items, g, rows[g].entry, rows[g].count))
  /\ HandOver([items |-> [h \in Guids |-> IF h = g THEN [kind |-> "delete"] ELSE Keep],
               pet |-> Null])
  /\ UNCHANGED <<items, observed>>

\* _ApplyAllItemMods: the player's modifiers were reset when its values were
\* loaded, the pet's were not.
FinishLoading ==
  /\ stage = "loading" /\ todo = {}
  /\ stage' = "playing"
  /\ selfMods' = Applied(NoMods, At(items, "self"), {})
  /\ petMods' = Applied(petMods, At(items, "pet"), {})
  /\ UNCHANGED <<todo, memory, petState, database, observed>>

Next ==
  \/ \E g \in Guids, e \in Entries, n \in 0..MaxAsked : AddNewInventoryItem(g, e, n)
  \/ \E g \in Guids, n \in 0..MaxAsked : Drop(g, n) \/ Consume(g, n)
  \/ \E g \in Guids : Equip(g) \/ PetEquip(g) \/ Unequip(g) \/ PetUnequip(g) \/ SellNew(g)
  \/ PetChanges
  \/ Save \/ Logout \/ Write \/ Crash \/ Login
  \/ \E g \in Guids : LoadRow(g) /\ (LoadHolds(g) \/ LoadMerges(g) \/ LoadRefuses(g))
  \/ FinishLoading

Spec == Init /\ [][Next]_vars

(***************************************************************************)
(* Properties                                                              *)
(***************************************************************************)

\* The rows there will be once everything handed over is written.
Last == views[Len(views)]

\* The update queue covers every difference between the objects of a player
\* in the world and the rows there are going to be: an item off the queue is
\* as its row says, an item without a row is on the queue as new, one that
\* has a row and has changed or is gone is on the queue, and a row without an
\* item is deleted - through moves, merges, swaps, saves half written and
\* crashes.  Only the two stacks of a merge during the login (LoadMerges) are
\* exempt, until the grown one is queued.
EveryChangeIsQueued ==
  stage # "offline" =>
    \A g \in Guids \ todo :
      IF items[g] = Null THEN g \notin queue /\ (Last[g] = Null \/ g \in absorbed)
      ELSE /\ items[g].state = "unchanged" =>
                g \notin queue /\ (Last[g] = RowOf(items[g]) \/ g \in grown)
           /\ items[g].state = "new" => g \in queue /\ Last[g] = Null
           /\ items[g].state \in {"changed", "removed"} => g \in queue /\ Last[g] # Null
           /\ items[g].state = "removed" <=> items[g].place = "none"

\* Whatever is put on, exchanged, taken off, saved and loaded, the modifiers
\* of the player contain each item it wears once and no other, and those of
\* the pet each item it wears at least once (_ApplyItemModsFor in RemoveItem,
\* in the equip handlers and after the login, which applies the pet's items
\* to modifiers that were saved with them).
ModifiersHold ==
  stage = "playing" =>
    \A g \in Guids :
      /\ selfMods[g] = IF g \in At(items, "self") THEN 1 ELSE 0
      /\ petMods[g] >= IF g \in At(items, "pet") THEN 1 ELSE 0

SharedSlot(r, s) ==
  r.place = s.place /\ r.place \in {"self", "pet"} /\ EquipSlot[r.entry] = EquipSlot[s.entry]

\* No two items are worn in one slot and the bag holds no more than it has
\* slots, in memory; and no two rows name one slot of a wearer at any moment
\* the process may die, so a login never finds the slot of an item taken.
OnePerSlot ==
  /\ \A g, h \in Guids :
       g # h /\ items[g] # Null /\ items[h] # Null => ~SharedSlot(items[g], items[h])
  /\ \A i \in 1..Len(views) : \A g, h \in Guids :
       g # h /\ views[i][g] # Null /\ views[i][h] # Null => ~SharedSlot(views[i][g], views[i][h])
  /\ Cardinality(At(items, "bag")) <= BagSize

\* The pieces of an entry that items, or rows, of a place stand for.
Pieces(its, e, places) ==
  UNION {{g} \X (1..its[g].count) :
           g \in {h \in Guids : its[h] # Null /\ its[h].entry = e /\ its[h].place \in places}}

\* How much of an entry the player and its pet have.
Held(its, e) == Cardinality(Pieces(its, e, {"bag", "self", "pet"}))

\* Putting on, exchanging and taking off - what changes a modifier while the
\* player is in the world - moves goods and neither makes nor loses any, also
\* when the bag is full.
GoodsMove ==
  [][stage = "playing" /\ stage' = "playing" /\ <<selfMods, petMods>>' # <<selfMods, petMods>> =>
       \A e \in Entries : Held(items', e) = Held(items, e)]_vars

\* When the login merged no stacks, a save (what a player in the world hands over,
\* by the timer, a command or the logout) leaves rows that hold what the player
\* and its pet hold, piece for piece, whatever was gained, merged, thrown away,
\* worn or half written before (_SaveInventory, Item::SaveToDB).
SaveStoresUnmerged ==
  [][stage = "playing" /\ Len(pending') > Len(pending) /\ absorbed = {} =>
       \A e \in Entries : Held(Last', e) = Held(items, e)]_vars

\* After a save the rows are going to hold what the player holds: Player.cpp
\* 454 keeps the update queue closed "when stored" during the login, and 554
\* marks the item as up to date because its "state may have changed after
\* stored".  Two stacks merged there are both wrong in the database.
SaveStoresAll ==
  [][(Save \/ Logout) =>
       \A e \in Entries : Held(Last', e) = Held(items, e)]_vars
=============================================================================
