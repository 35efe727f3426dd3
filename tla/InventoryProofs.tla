-------------------------- MODULE InventoryProofs --------------------------
(***************************************************************************)
(* Theorems about Inventory, for any items, prototypes and amounts and any *)
(* number of operations not yet written.  The parts of the inductive       *)
(* invariant:                                                              *)
(*                                                                         *)
(*   TypeOK, EveryChangeIsQueued, ModifiersHold, OnePerSlot (of Inventory) *)
(*   Chained         the views follow from the rows and the operations     *)
(*   Staged          what an offline and a loading player has              *)
(*   Awaiting        rows the login has not looked at are as they were     *)
(*   GrownHaveRows   an item that took another's count still has its row   *)
(*   AbsorbedInBag   the rows merged away stay, in the bag                 *)
(*   NoDebts         no modifier of a pet is negative, not even a saved one *)
(*                                                                         *)
(* Stacked is inductive on top of it: what is worn is equipment, and no    *)
(* stack of equipment, in memory or in a row, is larger than its prototype *)
(* allows - clients name amounts only of what they consume.  Two such      *)
(* stacks add up without wrapping, which is what GoodsMove needs.          *)
(***************************************************************************)
EXTENDS Inventory, FiniteSetTheorems, FunctionTheorems, TLAPS

Chained ==
  /\ Len(views) = Len(pending) + 1 /\ views[1] = rows
  /\ \A i \in 1..Len(pending) : views[i + 1] = Written(views[i], pending[i].items)

Staged ==
  /\ stage = "offline" =>
       items = [g \in Guids |-> Null] /\ queue = {} /\ todo = {} /\ absorbed = {} /\ grown = {}
  /\ stage = "loading" => queue = {}
  /\ stage = "playing" => todo = {}

Awaiting ==
  \A g \in todo : /\ items[g] = Null /\ g \notin queue \cup absorbed /\ rows[g] # Null
                  /\ \A i \in 1..Len(views) : views[i][g] = rows[g]

GrownHaveRows ==
  \A g \in grown :
    /\ items[g] # Null /\ g \notin queue /\ Last[g] # Null
    /\ Last[g].entry = items[g].entry /\ Last[g].place = items[g].place

AbsorbedInBag == \A g \in absorbed : items[g] = Null /\ Last[g] # Null /\ Last[g].place = "bag"

NoDebts ==
  /\ \A g \in Guids : petMods[g] >= 0 /\ petRow[g] >= 0
  /\ \A i \in 1..Len(pending) :
       pending[i].pet # Null => \A g \in Guids : pending[i].pet[g] >= 0

Queued == Chained /\ Staged /\ Awaiting /\ GrownHaveRows /\ AbsorbedInBag /\ EveryChangeIsQueued

Inv == TypeOK /\ Queued /\ NoDebts /\ ModifiersHold /\ OnePerSlot

-----------------------------------------------------------------------------
\* What the functions that move items do to a memory

Memories == [items : [Guids -> Items \cup {Null}], queue : SUBSET Guids]

\* The item is as it was.
Same(m, n, g) == n.items[g] = m.items[g] /\ (g \in n.queue <=> g \in m.queue)

\* The item is changed or moved, and queued.
Kept(m, n, g) ==
  /\ n.items[g] \in Items /\ n.items[g].place # "none"
  /\ n.items[g].entry = m.items[g].entry
  /\ n.items[g].state = IF m.items[g].state = "new" THEN "new" ELSE "changed"
  /\ g \in n.queue

\* The item is gone: a new one at once, another once that is saved.
Gone(m, n, g) ==
  IF m.items[g].state = "new" THEN n.items[g] = Null /\ g \notin n.queue
  ELSE /\ n.items[g] \in Items /\ n.items[g].place = "none" /\ n.items[g].state = "removed"
       /\ g \in n.queue

Places == {"bag", "self", "pet"}

LEMMA WithItem ==
  ASSUME NEW m \in Memories, NEW its, NEW q, NEW g \in Guids, NEW x \in Items \cup {Null},
         its = [m.items EXCEPT ![g] = x], q \in SUBSET Guids
  PROVE  /\ [items |-> its, queue |-> q] \in Memories
         /\ its[g] = x /\ \A h \in Guids \ {g} : its[h] = m.items[h]
BY DEF Memories

LEMMA CountedDoes ==
  ASSUME NEW m \in Memories, NEW g \in Guids, m.items[g] \in Items, NEW n \in Counts
  PROVE  LET k == [m EXCEPT !.items = [m.items EXCEPT ![g].count = n]] IN
         /\ k \in Memories /\ k.queue = m.queue
         /\ k.items[g] = [m.items[g] EXCEPT !.count = n]
         /\ \A h \in Guids \ {g} : k.items[h] = m.items[h]
<1> DEFINE x   == [m.items[g] EXCEPT !.count = n]
           its == [m.items EXCEPT ![g] = x]
           k   == [m EXCEPT !.items = [m.items EXCEPT ![g].count = n]]
<1>1. x \in Items
  BY DEF Items
<1>2. k = [items |-> its, queue |-> m.queue] /\ m.queue \in SUBSET Guids
  BY DEF Memories
<1>3. /\ [items |-> its, queue |-> m.queue] \in Memories
      /\ its[g] = x /\ \A h \in Guids \ {g} : its[h] = m.items[h]
  BY <1>1, <1>2, WithItem
<1> HIDE DEF its, x, k
<1>4. /\ k \in Memories /\ k.queue = m.queue /\ k.items[g] = x
      /\ \A h \in Guids \ {g} : k.items[h] = m.items[h]
  BY <1>2, <1>3
<1> QED
  BY <1>4 DEF x, k

LEMMA PlacedDoes ==
  ASSUME NEW m \in Memories, NEW g \in Guids, m.items[g] \in Items,
         NEW p \in Places
  PROVE  LET k == [m EXCEPT !.items = [m.items EXCEPT ![g].place = p]] IN
         /\ k \in Memories /\ k.queue = m.queue
         /\ k.items[g] = [m.items[g] EXCEPT !.place = p]
         /\ \A h \in Guids \ {g} : k.items[h] = m.items[h]
<1> DEFINE x   == [m.items[g] EXCEPT !.place = p]
           its == [m.items EXCEPT ![g] = x]
           k   == [m EXCEPT !.items = [m.items EXCEPT ![g].place = p]]
<1>1. x \in Items
  BY DEF Items, Places
<1>2. k = [items |-> its, queue |-> m.queue] /\ m.queue \in SUBSET Guids
  BY DEF Memories
<1>3. /\ [items |-> its, queue |-> m.queue] \in Memories
      /\ its[g] = x /\ \A h \in Guids \ {g} : its[h] = m.items[h]
  BY <1>1, <1>2, WithItem
<1> HIDE DEF its, x, k
<1>4. /\ k \in Memories /\ k.queue = m.queue /\ k.items[g] = x
      /\ \A h \in Guids \ {g} : k.items[h] = m.items[h]
  BY <1>2, <1>3
<1> QED
  BY <1>4 DEF x, k

LEMMA ChangedDoes ==
  ASSUME NEW m \in Memories, NEW g \in Guids, m.items[g] \in Items
  PROVE  /\ Changed(m, g) \in Memories
         /\ Changed(m, g).items[g] =
              [m.items[g] EXCEPT !.state = IF m.items[g].state = "new" THEN "new" ELSE "changed"]
         /\ g \in Changed(m, g).queue
         /\ \A h \in Guids \ {g} : Same(m, Changed(m, g), h)
<1> DEFINE x == [m.items[g] EXCEPT !.state = IF m.items[g].state = "new" THEN "new" ELSE "changed"]
           its == [m.items EXCEPT ![g] = x]
<1>1. x \in Items
  BY DEF Items
<1>2. Changed(m, g) = [items |-> its, queue |-> m.queue \cup {g}]
  BY DEF Changed, Memories, Items
<1>3. m.queue \cup {g} \in SUBSET Guids
  BY DEF Memories
<1>4. /\ [items |-> its, queue |-> m.queue \cup {g}] \in Memories
      /\ its[g] = x /\ \A h \in Guids \ {g} : its[h] = m.items[h]
  BY <1>1, <1>3, WithItem
<1> HIDE DEF x, its
<1>5. /\ Changed(m, g) \in Memories /\ Changed(m, g).items[g] = x /\ g \in Changed(m, g).queue
      /\ \A h \in Guids \ {g} : Same(m, Changed(m, g), h)
  BY <1>2, <1>4 DEF Same
<1> QED
  BY <1>5 DEF x

LEMMA RemovedDoes ==
  ASSUME NEW m \in Memories, NEW g \in Guids, m.items[g] \in Items
  PROVE  /\ Removed(m, g) \in Memories /\ Gone(m, Removed(m, g), g)
         /\ \A h \in Guids \ {g} : Same(m, Removed(m, g), h)
<1>1. CASE m.items[g].state = "new"
  <2> DEFINE its == [m.items EXCEPT ![g] = Null]
  <2>1. Removed(m, g) = [items |-> its, queue |-> m.queue \ {g}]
    BY <1>1 DEF Removed
  <2>2. /\ [items |-> its, queue |-> m.queue \ {g}] \in Memories
        /\ its[g] = Null /\ \A h \in Guids \ {g} : its[h] = m.items[h]
    <3>1. m.queue \ {g} \in SUBSET Guids
      BY DEF Memories
    <3> QED
      BY <3>1, WithItem
  <2> QED
    BY <1>1, <2>1, <2>2 DEF Same, Gone
<1>2. CASE m.items[g].state # "new"
  <2> DEFINE x == [[m.items[g] EXCEPT !.state = "removed"] EXCEPT !.place = "none"]
             its == [m.items EXCEPT ![g] = x]
  <2>1. Removed(m, g) = [items |-> its, queue |-> m.queue \cup {g}]
    BY <1>2 DEF Removed, Memories, Items
  <2>2. x \in Items /\ x.place = "none" /\ x.state = "removed"
    BY DEF Items
  <2>3. /\ [items |-> its, queue |-> m.queue \cup {g}] \in Memories
        /\ its[g] = x /\ \A h \in Guids \ {g} : its[h] = m.items[h]
    <3>1. m.queue \cup {g} \in SUBSET Guids
      BY DEF Memories
    <3> QED
      BY <2>2, <3>1, WithItem
  <2> HIDE DEF its, x
  <2> QED
    BY <1>2, <2>1, <2>2, <2>3 DEF Same, Gone
<1> QED
  BY <1>1, <1>2

LEMMA MovedDoes ==
  ASSUME NEW m \in Memories, NEW g \in Guids, m.items[g] \in Items,
         NEW p \in Places
  PROVE  /\ Moved(m, g, p) \in Memories
         /\ Kept(m, Moved(m, g, p), g) /\ Moved(m, g, p).items[g].place = p
         /\ \A h \in Guids \ {g} : Same(m, Moved(m, g, p), h)
<1> DEFINE k == [m EXCEPT !.items = [m.items EXCEPT ![g].place = p]]
<1>1. /\ k \in Memories /\ k.queue = m.queue /\ k.items[g] = [m.items[g] EXCEPT !.place = p]
      /\ \A h \in Guids \ {g} : k.items[h] = m.items[h]
  BY PlacedDoes
<1>2. k.items[g] \in Items
  BY <1>1 DEF Items, Places
<1>3. Moved(m, g, p) = Changed(k, g)
  BY DEF Moved
<1> HIDE DEF k
<1>4. /\ Changed(k, g) \in Memories /\ g \in Changed(k, g).queue
      /\ Changed(k, g).items[g] =
           [k.items[g] EXCEPT !.state = IF k.items[g].state = "new" THEN "new" ELSE "changed"]
      /\ \A h \in Guids \ {g} : Same(k, Changed(k, g), h)
  BY <1>1, <1>2, ChangedDoes
<1>5. Kept(m, Changed(k, g), g) /\ Changed(k, g).items[g].place = p
  <2> DEFINE y == Changed(k, g).items[g]
             s == IF k.items[g].state = "new" THEN "new" ELSE "changed"
  <2>1. /\ k.items[g].place = p /\ p # "none"
        /\ k.items[g].entry = m.items[g].entry /\ k.items[g].state = m.items[g].state
    BY <1>1 DEF Items, Places
  <2>2. /\ y \in Items /\ y.state = s
        /\ y.place = k.items[g].place /\ y.entry = k.items[g].entry
    BY <1>2, <1>4 DEF Items
  <2> QED
    BY <1>4, <2>1, <2>2 DEF Kept
<1>6. \A h \in Guids \ {g} : Same(m, Changed(k, g), h)
  BY <1>1, <1>4 DEF Same
<1> QED
  BY <1>3, <1>4, <1>5, <1>6

LEMMA CountsAreModular ==
  ASSUME NEW x \in Counts, NEW n \in Nat
  PROVE  (x + n) % CountModulus \in Counts /\ (x - n) % CountModulus \in Counts
BY CountAssumption DEF Counts

\* A stack is merged into another, or the item gets a slot of its own.
LEMMA StoreItemDoes ==
  ASSUME NEW m \in Memories, NEW g \in Guids, NEW into \in Guids, m.items[g] \in Items,
         into # g => m.items[into] \in Items /\ m.items[into].place = "bag"
  PROVE  /\ StoreItem(m, g, into) \in Memories
         /\ Kept(m, StoreItem(m, g, into), into) /\ StoreItem(m, g, into).items[into].place = "bag"
         /\ into # g => Gone(m, StoreItem(m, g, into), g)
         /\ \A h \in Guids \ {g, into} : Same(m, StoreItem(m, g, into), h)
<1>1. CASE into = g
  <2>1. "bag" \in Places
    BY DEF Places
  <2> QED
    BY <1>1, <2>1, MovedDoes DEF StoreItem
<1>2. CASE into # g
  <2> DEFINE sum == (m.items[into].count + m.items[g].count) % CountModulus
             k == [m EXCEPT !.items = [m.items EXCEPT ![into].count = sum]]
             l == Removed(k, g)
             n == Changed(l, into)
  <2>1. sum \in Counts
    <3>1. m.items[into].count \in Counts /\ m.items[g].count \in Nat
      BY <1>2, CountAssumption DEF Items, Counts
    <3> QED
      BY <3>1, CountsAreModular
  <2>2. StoreItem(m, g, into) = n
    BY <1>2 DEF StoreItem, Merged, Memories
  <2>3. /\ k \in Memories /\ k.queue = m.queue
        /\ k.items[into] = [m.items[into] EXCEPT !.count = sum]
        /\ \A h \in Guids \ {into} : k.items[h] = m.items[h]
    BY <1>2, <2>1, CountedDoes
  <2> HIDE DEF k
  <2>4. l \in Memories /\ Gone(k, l, g) /\ \A h \in Guids \ {g} : Same(k, l, h)
    BY <1>2, <2>3, RemovedDoes
  <2>5. l.items[into] = [m.items[into] EXCEPT !.count = sum] /\ l.items[into] \in Items
    BY <1>2, <2>1, <2>3, <2>4 DEF Same, Items
  <2> HIDE DEF l
  <2>6. /\ n \in Memories /\ into \in n.queue
        /\ n.items[into] =
             [l.items[into] EXCEPT !.state = IF l.items[into].state = "new" THEN "new" ELSE "changed"]
        /\ \A h \in Guids \ {into} : Same(l, n, h)
    BY <2>4, <2>5, ChangedDoes
  <2> HIDE DEF n
  <2>7. Kept(m, n, into) /\ n.items[into].place = "bag"
    BY <1>2, <2>1, <2>5, <2>6 DEF Kept, Items
  <2>8. Gone(m, n, g)
    BY <1>2, <2>3, <2>4, <2>6 DEF Gone, Same
  <2>9. \A h \in Guids \ {g, into} : Same(m, n, h)
    BY <2>3, <2>4, <2>6 DEF Same
  <2> QED
    BY <1>2, <2>2, <2>6, <2>7, <2>8, <2>9
<1> QED
  BY <1>1, <1>2

LEMMA TakenFromDoes ==
  ASSUME NEW m \in Memories, NEW g \in Guids, NEW n \in Nat, m.items[g] \in Items,
         m.items[g].place = "bag"
  PROVE  /\ TakenFrom(m, g, n) \in Memories
         /\ \/ Gone(m, TakenFrom(m, g, n), g)
            \/ Kept(m, TakenFrom(m, g, n), g) /\ TakenFrom(m, g, n).items[g].place = "bag"
         /\ \A h \in Guids \ {g} : Same(m, TakenFrom(m, g, n), h)
<1> DEFINE left == (m.items[g].count - n) % CountModulus
           k == [m EXCEPT !.items = [m.items EXCEPT ![g].count = left]]
<1>1. left \in Counts
  BY CountsAreModular DEF Items
<1>2. /\ k \in Memories /\ k.queue = m.queue
      /\ k.items[g] = [m.items[g] EXCEPT !.count = left]
      /\ \A h \in Guids \ {g} : k.items[h] = m.items[h]
  BY <1>1, CountedDoes
<1>3. TakenFrom(m, g, n) = IF left = 0 THEN Removed(k, g) ELSE Changed(k, g)
  BY DEF TakenFrom
<1> HIDE DEF left, k
<1>4. /\ k.items[g] \in Items /\ k.items[g].state = m.items[g].state
      /\ k.items[g].entry = m.items[g].entry /\ k.items[g].place = "bag"
  BY <1>1, <1>2 DEF Items
<1>5. CASE left = 0
  <2>1. /\ Removed(k, g) \in Memories /\ Gone(k, Removed(k, g), g)
        /\ \A h \in Guids \ {g} : Same(k, Removed(k, g), h)
    BY <1>2, <1>4, RemovedDoes
  <2> QED
    BY <1>2, <1>3, <1>4, <1>5, <2>1 DEF Gone, Same
<1>6. CASE left # 0
  <2>1. /\ Changed(k, g) \in Memories /\ g \in Changed(k, g).queue
        /\ Changed(k, g).items[g] =
             [k.items[g] EXCEPT !.state = IF k.items[g].state = "new" THEN "new" ELSE "changed"]
        /\ \A h \in Guids \ {g} : Same(k, Changed(k, g), h)
    BY <1>2, <1>4, ChangedDoes
  <2>2. Kept(m, Changed(k, g), g) /\ Changed(k, g).items[g].place = "bag"
    BY <1>4, <2>1 DEF Kept, Items
  <2> QED
    BY <1>2, <1>3, <1>6, <2>1, <2>2 DEF Same
<1> QED
  BY <1>5, <1>6

LEMMA DisplacedDoes ==
  ASSUME NEW m \in Memories, NEW gone \in SUBSET Guids, \A h \in gone : m.items[h] \in Items
  PROVE  /\ Displaced(m, gone) \in Memories
         /\ \A h \in gone : Kept(m, Displaced(m, gone), h)
                            /\ Displaced(m, gone).items[h].place = "bag"
         /\ \A h \in Guids \ gone : Same(m, Displaced(m, gone), h)
<1> DEFINE n == Displaced(m, gone)
<1>1. /\ n = [items |-> n.items, queue |-> n.queue] /\ n.queue = m.queue \cup gone
      /\ n.items = [h \in Guids |-> n.items[h]]
      /\ \A h \in gone : n.items[h] = Moved(m, h, "bag").items[h]
      /\ \A h \in Guids \ gone : n.items[h] = m.items[h]
  BY DEF Displaced
<1> HIDE DEF n
<1>2. \A h \in gone : Kept(m, n, h) /\ n.items[h].place = "bag"
  <2> TAKE h \in gone
  <2>1. h \in Guids /\ m.items[h] \in Items /\ "bag" \in Places
    BY DEF Places
  <2>2. Kept(m, Moved(m, h, "bag"), h) /\ Moved(m, h, "bag").items[h].place = "bag"
    BY <2>1, MovedDoes
  <2> QED
    BY <1>1, <2>2 DEF Kept
<1>3. \A h \in Guids \ gone : Same(m, n, h)
  BY <1>1 DEF Same
<1>4. n \in Memories
  <2>1. \A h \in Guids : n.items[h] \in Items \cup {Null}
    BY <1>1, <1>2 DEF Kept, Memories
  <2>2. n.queue \in SUBSET Guids
    BY <1>1 DEF Memories
  <2> QED
    BY <1>1, <2>1, <2>2 DEF Memories
<1> QED
  BY <1>2, <1>3, <1>4 DEF n

-----------------------------------------------------------------------------
\* What an action of the player does to the update queue

Consistent(g) ==
  IF items[g] = Null THEN g \notin queue /\ (Last[g] = Null \/ g \in absorbed)
  ELSE /\ items[g].state = "unchanged" =>
            g \notin queue /\ (Last[g] = RowOf(items[g]) \/ g \in grown)
       /\ items[g].state = "new" => g \in queue /\ Last[g] = Null
       /\ items[g].state \in {"changed", "removed"} => g \in queue /\ Last[g] # Null
       /\ items[g].state = "removed" <=> items[g].place = "none"

LEMMA RowsOfItems ==
  ASSUME NEW it \in Items, it.place # "none"
  PROVE  /\ RowOf(it) \in Rows /\ RowOf(it) # Null
         /\ RowOf(it).entry = it.entry /\ RowOf(it).place = it.place
BY NullAssumption DEF RowOf, Items, Rows

\* An item that is present is new exactly when it has no row.
LEMMA PresentItems ==
  ASSUME Inv, stage # "offline", NEW g \in Guids, items[g] # Null, items[g].place # "none"
  PROVE  /\ items[g] \in Items /\ g \notin todo /\ items[g].state # "removed"
         /\ items[g].state = "new" <=> Last[g] = Null
<1>1. g \notin todo /\ items[g] \in Items
  BY DEF Inv, Queued, Awaiting, TypeOK
<1>2. Consistent(g)
  BY <1>1 DEF Inv, Queued, EveryChangeIsQueued, Consistent
<1>3. g \in grown => Last[g] # Null
  BY DEF Inv, Queued, GrownHaveRows
<1> QED
  BY <1>1, <1>2, <1>3, RowsOfItems DEF Consistent, Items

\* A step of the player from the memory m, which is its memory but for an item
\* just created, changes and queues the items of T and no other.
PlayerStep(m, T) ==
  LET n == [items |-> items', queue |-> queue'] IN
  /\ Playing /\ Requeued
  /\ m \in Memories /\ n \in Memories /\ T \subseteq Guids
  /\ \A g \in Guids \ T : m.items[g] = items[g] /\ (g \in m.queue <=> g \in queue) /\ Same(m, n, g)
  /\ \A g \in T : /\ m.items[g] \in Items
                  /\ \/ m.items[g] = items[g] /\ items[g].place # "none"
                     \/ m.items[g].state = "new" /\ Fresh(g)
                  /\ Kept(m, n, g) \/ Gone(m, n, g)

LEMMA PlayerStepKeeps ==
  ASSUME Inv, NEW m, NEW T, PlayerStep(m, T)
  PROVE  /\ items' \in [Guids -> Items \cup {Null}] /\ queue' \subseteq Guids /\ grown' \subseteq Guids
         /\ Queued'
<1> DEFINE n == [items |-> items', queue |-> queue']
<1>1. /\ stage = "playing" /\ stage' = stage /\ todo' = todo /\ absorbed' = absorbed
      /\ rows' = rows /\ pending' = pending /\ views' = views /\ petRow' = petRow
      /\ grown' = grown \ queue' /\ Last' = Last
  BY DEF PlayerStep, Playing, Requeued, database, Last
<1>2. items' \in [Guids -> Items \cup {Null}] /\ queue' \subseteq Guids /\ grown' \subseteq Guids
  BY <1>1 DEF PlayerStep, Memories, Inv, TypeOK
<1>3. ASSUME NEW g \in Guids \ T
      PROVE  items'[g] = items[g] /\ (g \in queue' <=> g \in queue)
  BY <1>3 DEF PlayerStep, Same
<1>4. \A g \in Guids : Fresh(g) => Last[g] = Null
  <2>1. Len(views) \in 1..Len(views)
    BY DEF Inv, Queued, Chained, TypeOK
  <2> QED
    BY <2>1 DEF Fresh, Last
<1>5. ASSUME NEW g \in T
      PROVE  /\ m.items[g].state = "new" <=> Last[g] = Null
             /\ Kept(m, n, g) \/ Gone(m, n, g)
  <2>1. g \in Guids
    BY <1>5 DEF PlayerStep
  <2>2. CASE m.items[g] = items[g] /\ items[g].place # "none"
    <3>1. items[g] \in Items /\ items[g] # Null
      BY <1>5, <2>2, NullAssumption DEF PlayerStep
    <3> QED
      BY <1>1, <1>5, <2>1, <2>2, <3>1, PresentItems DEF PlayerStep
  <2>3. CASE Fresh(g) /\ m.items[g].state = "new"
    BY <1>4, <1>5, <2>1, <2>3 DEF PlayerStep
  <2> QED
    BY <1>5, <2>2, <2>3 DEF PlayerStep
<1>6. Chained' /\ Staged' /\ Awaiting'
  <2>1. todo = {} /\ todo' = {}
    BY <1>1 DEF Inv, Queued, Staged
  <2>2. Chained'
    BY <1>1 DEF Inv, Queued, Chained
  <2> QED
    BY <1>1, <2>1, <2>2 DEF Staged, Awaiting
<1>7. GrownHaveRows'
  <2> SUFFICES ASSUME NEW g \in grown'
               PROVE  /\ items'[g] # Null /\ g \notin queue' /\ Last'[g] # Null
                      /\ Last'[g].entry = items'[g].entry /\ Last'[g].place = items'[g].place
    BY DEF GrownHaveRows
  <2>1. g \in grown /\ g \in Guids /\ g \notin queue' /\ Last[g] # Null
    BY <1>1, <1>2 DEF Inv, Queued, GrownHaveRows
  <2>2. g \notin T
    BY <1>5, <2>1 DEF Kept, Gone
  <2> QED
    BY <1>1, <1>3, <2>1, <2>2 DEF Inv, Queued, GrownHaveRows
<1>8. \A g \in Guids : Consistent(g)'
  <2> TAKE g \in Guids
  <2>1. CASE g \in T
    <3>1. CASE Kept(m, n, g)
      <4>1. /\ items'[g] \in Items /\ items'[g].place # "none" /\ g \in queue'
            /\ items'[g].state = IF m.items[g].state = "new" THEN "new" ELSE "changed"
        BY <3>1 DEF Kept
      <4> QED
        BY <1>1, <1>5, <2>1, <4>1, NullAssumption DEF Consistent
    <3>2. CASE Gone(m, n, g)
      <4>1. CASE m.items[g].state = "new"
        BY <1>1, <1>5, <2>1, <3>2, <4>1 DEF Gone, Consistent
      <4>2. CASE m.items[g].state # "new"
        <5>1. /\ items'[g] \in Items /\ items'[g].place = "none"
              /\ items'[g].state = "removed" /\ g \in queue'
          BY <3>2, <4>2 DEF Gone
        <5> QED
          BY <1>1, <1>5, <2>1, <4>2, <5>1, NullAssumption DEF Consistent
      <4> QED
        BY <4>1, <4>2
    <3> QED
      BY <1>5, <2>1, <3>1, <3>2
  <2>2. CASE g \notin T
    <3>1. Consistent(g)
      BY <1>1 DEF Inv, Queued, EveryChangeIsQueued, Consistent, Staged
    <3>2. items'[g] = items[g] /\ (g \in queue' <=> g \in queue)
      BY <1>3, <2>2
    <3> QED
      BY <1>1, <3>1, <3>2 DEF Consistent
  <2> QED
    BY <2>1, <2>2
<1>9. EveryChangeIsQueued'
  BY <1>8 DEF EveryChangeIsQueued, Consistent
<1>10. AbsorbedInBag'
  <2> SUFFICES ASSUME NEW g \in absorbed PROVE items'[g] = Null /\ Last'[g] = Last[g]
    BY <1>1 DEF AbsorbedInBag, Inv, Queued
  <2>1. g \in Guids /\ items[g] = Null /\ ~Fresh(g)
    BY <1>4 DEF Inv, Queued, AbsorbedInBag, TypeOK
  <2>2. g \notin T
    BY <2>1, NullAssumption DEF PlayerStep
  <2> QED
    BY <1>1, <1>3, <2>1, <2>2
<1> QED
  BY <1>2, <1>6, <1>7, <1>9, <1>10 DEF Queued

-----------------------------------------------------------------------------
\* What an action of the player does to the places

LEMMA RoomForOne ==
  ASSUME NEW S \in SUBSET Guids, NEW g \in Guids, Cardinality(S \ {g}) < BagSize
  PROVE  Cardinality(S \cup {g}) <= BagSize
<1>1. IsFiniteSet(S \ {g}) /\ Cardinality(S \ {g}) \in Nat
  BY BagAssumption, FS_Subset, FS_CardinalityType
<1>2. Cardinality((S \ {g}) \cup {g}) = Cardinality(S \ {g}) + 1
  BY <1>1, FS_AddElement
<1>3. (S \ {g}) \cup {g} = S \cup {g}
  OBVIOUS
<1> QED
  BY <1>1, <1>2, <1>3, BagAssumption

LEMMA NoMoreThan ==
  ASSUME NEW S \in SUBSET Guids, NEW R \in SUBSET S, Cardinality(S) <= BagSize
  PROVE  Cardinality(R) <= BagSize
<1>1. IsFiniteSet(S) /\ Cardinality(S) \in Nat
  BY BagAssumption, FS_Subset, FS_CardinalityType
<1>2. IsFiniteSet(R) /\ Cardinality(R) \in Nat /\ Cardinality(R) <= Cardinality(S)
  BY <1>1, FS_Subset, FS_CardinalityType
<1> QED
  BY <1>1, <1>2, BagAssumption

LEMMA NothingFits ==
  ASSUME NEW its, \A g \in Guids : its[g] = Null
  PROVE  Cardinality(At(its, "bag")) <= BagSize
<1>1. At(its, "bag") = {}
  BY DEF At
<1> QED
  BY <1>1, FS_EmptySet, BagAssumption

LEMMA CanStoreItemFinds ==
  ASSUME NEW its, NEW g \in Guids, NEW e, NEW n, NEW into \in CanStoreItem(its, g, e, n)
  PROVE  \/ into = g /\ Cardinality(At(its, "bag") \ {g}) < BagSize
         \/ into # g /\ into \in At(its, "bag")
<1>1. into \in Fitting(its, g, e, n) => into # g /\ into \in At(its, "bag")
  BY DEF Fitting
<1> QED
  BY <1>1 DEF CanStoreItem

LEMMA MemoryIsOne == ASSUME Inv PROVE Memory \in Memories
BY DEF Inv, TypeOK, Memory, Memories

\* What is worn stays as it is.
SameWorn(p) ==
  \A h \in Guids : /\ h \in At(items', p) <=> h \in At(items, p)
                   /\ h \in At(items, p) => items'[h].entry = items[h].entry

LEMMA SameWornKeeps ==
  ASSUME Inv, SameWorn("self"), SameWorn("pet"), Cardinality(At(items, "bag")') <= BagSize,
         UNCHANGED <<stage, views, selfMods, petMods>>
  PROVE  ModifiersHold' /\ OnePerSlot'
<1>1. ModifiersHold'
  BY DEF Inv, ModifiersHold, SameWorn, At
<1>2. ASSUME NEW g \in Guids, NEW h \in Guids, items'[g] # Null, items'[h] # Null, g # h,
             SharedSlot(items'[g], items'[h])
      PROVE  FALSE
  <2>1. PICK p \in {"self", "pet"} : items'[g].place = p /\ items'[h].place = p
    BY <1>2 DEF SharedSlot
  <2>2. g \in At(items, p) /\ h \in At(items, p)
        /\ items'[g].entry = items[g].entry /\ items'[h].entry = items[h].entry
    BY <1>2, <2>1 DEF SameWorn, At
  <2> QED
    BY <1>2, <2>2 DEF Inv, OnePerSlot, SharedSlot, At
<1> QED
  BY <1>1, <1>2 DEF Inv, OnePerSlot

LEMMA PlayerActionKeeps ==
  ASSUME Inv, NEW m, NEW T, PlayerStep(m, T), selfMods' \in Mods, petMods' \in Mods,
         \A g \in Guids : petMods'[g] >= 0, petState' \in {"unchanged", "changed"},
         ModifiersHold', OnePerSlot'
  PROVE  Inv'
<1>1. UNCHANGED <<stage, todo, rows, petRow, pending, views, absorbed>>
  BY DEF PlayerStep, Playing, database
<1>2. /\ items' \in [Guids -> Items \cup {Null}] /\ queue' \subseteq Guids /\ grown' \subseteq Guids
      /\ Queued'
  BY PlayerStepKeeps
<1>3. TypeOK'
  BY <1>1, <1>2 DEF Inv, TypeOK
<1>4. NoDebts'
  BY <1>1 DEF Inv, NoDebts
<1> QED
  BY <1>2, <1>3, <1>4 DEF Inv

LEMMA AddNewInventoryItemKeeps ==
  ASSUME Inv, NEW g \in Guids, NEW e \in Entries, NEW n \in 0..MaxAsked,
         AddNewInventoryItem(g, e, n)
  PROVE  Inv'
<1> DEFINE created == [entry |-> e, count |-> CreatedCount(e, n), place |-> "none", state |-> "new"]
           m == [Memory EXCEPT !.items = [items EXCEPT ![g] = created]]
<1>1. PICK into \in CanStoreItem(items, g, e, created.count) : Remember(StoreItem(m, g, into))
  BY DEF AddNewInventoryItem
<1>2. Playing /\ Fresh(g) /\ Quiet /\ Requeued /\ items[g] = Null
  BY DEF AddNewInventoryItem, Fresh
<1>3. created \in Items
  BY CountAssumption, PrototypeAssumption DEF Items, Counts, CreatedCount
<1>4. /\ m \in Memories /\ m.items[g] = created /\ m.queue = queue
      /\ \A h \in Guids \ {g} : m.items[h] = items[h]
  <2> HIDE DEF created
  <2>1. m = [items |-> [items EXCEPT ![g] = created], queue |-> queue]
    BY DEF Memory
  <2> QED
    BY <1>3, <2>1 DEF Inv, TypeOK, Memories
<1>5. created.state = "new"
  OBVIOUS
<1> HIDE DEF m, created
<1>6. /\ into \in Guids
      /\ \/ into = g /\ Cardinality(At(items, "bag") \ {g}) < BagSize
         \/ into # g /\ into \in At(items, "bag")
  BY CanStoreItemFinds, <1>1 DEF At
<1>7. into # g => m.items[into] = items[into] /\ items[into] \in Items /\ items[into].place = "bag"
  BY <1>4, <1>6 DEF At, Inv, TypeOK
<1> DEFINE s == StoreItem(m, g, into)
<1>8. /\ s \in Memories /\ Kept(m, s, into) /\ s.items[into].place = "bag"
      /\ into # g => Gone(m, s, g)
      /\ \A h \in Guids \ {g, into} : Same(m, s, h)
  BY <1>3, <1>4, <1>6, <1>7, StoreItemDoes
<1> HIDE DEF s
<1>9. s = [items |-> items', queue |-> queue']
  BY <1>1, <1>8 DEF Remember, s, Memories
<1>10. PlayerStep(m, {g, into})
  BY <1>2, <1>3, <1>4, <1>5, <1>6, <1>7, <1>8, <1>9 DEF PlayerStep
<1>11. \A h \in Guids \ {g, into} : items'[h] = items[h]
  BY <1>4, <1>8, <1>9 DEF Same
<1>12. items'[into].place = "bag" /\ (into # g => items'[g] = Null)
  BY <1>4, <1>5, <1>8, <1>9 DEF Gone
<1>13. SameWorn("self") /\ SameWorn("pet")
  BY <1>2, <1>6, <1>7, <1>11, <1>12 DEF SameWorn, At
<1>14. Cardinality(At(items, "bag")') <= BagSize
  <2>1. At(items, "bag") \in SUBSET Guids
    BY DEF At
  <2>2. CASE into = g
    <3>1. At(items, "bag")' \subseteq At(items, "bag") \cup {g}
      BY <1>6, <1>11, <2>2 DEF At
    <3>2. At(items, "bag") \cup {g} \in SUBSET Guids
      BY <2>1
    <3> QED
      BY <1>6, <2>1, <2>2, <3>1, <3>2, RoomForOne, NoMoreThan
  <2>3. CASE into # g
    <3>1. At(items, "bag")' \subseteq At(items, "bag")
      BY <1>6, <1>11, <1>12, <2>3 DEF At
    <3> QED
      BY <2>1, <3>1, NoMoreThan DEF Inv, OnePerSlot
  <2> QED
    BY <2>2, <2>3
<1>15. ModifiersHold' /\ OnePerSlot'
  BY <1>2, <1>13, <1>14, SameWornKeeps DEF Playing, Quiet, database
<1> QED
  BY <1>2, <1>10, <1>15, PlayerActionKeeps DEF Quiet, Inv, TypeOK, NoDebts

LEMMA TakenFromKeeps ==
  ASSUME Inv, NEW g \in Guids, NEW n \in Nat, Playing, Requeued, g \in At(items, "bag"),
         Remember(TakenFrom(Memory, g, n)), UNCHANGED <<selfMods, petMods>>,
         petState' \in {"unchanged", "changed"}
  PROVE  Inv'
<1> DEFINE t == TakenFrom(Memory, g, n)
<1>1. Memory \in Memories /\ Memory.items = items /\ Memory.queue = queue
  BY MemoryIsOne DEF Memory
<1>2. items[g] \in Items /\ items[g].place = "bag"
  BY DEF At, Inv, TypeOK
<1>3. /\ t \in Memories
      /\ Gone(Memory, t, g) \/ (Kept(Memory, t, g) /\ t.items[g].place = "bag")
      /\ \A h \in Guids \ {g} : Same(Memory, t, h)
  BY <1>1, <1>2, TakenFromDoes
<1> HIDE DEF t
<1>4. t = [items |-> items', queue |-> queue']
  BY <1>3 DEF Remember, t, Memories
<1>5. PlayerStep(Memory, {g})
  BY <1>1, <1>2, <1>3, <1>4 DEF PlayerStep
<1>6. \A h \in Guids \ {g} : items'[h] = items[h]
  BY <1>1, <1>3, <1>4 DEF Same
<1>7. items'[g] = Null \/ items'[g].place \in {"none", "bag"}
  BY <1>3, <1>4 DEF Gone
<1>8. SameWorn("self") /\ SameWorn("pet")
  BY <1>2, <1>6, <1>7 DEF SameWorn, At
<1>9. Cardinality(At(items, "bag")') <= BagSize
  <2>1. At(items, "bag") \in SUBSET Guids /\ At(items, "bag")' \subseteq At(items, "bag")
    BY <1>6 DEF At
  <2> QED
    BY <2>1, NoMoreThan DEF Inv, OnePerSlot
<1>10. ModifiersHold' /\ OnePerSlot'
  BY <1>8, <1>9, SameWornKeeps DEF Playing, database
<1> QED
  BY <1>5, <1>10, PlayerActionKeeps DEF Inv, TypeOK, NoDebts

LEMMA DropKeeps ==
  ASSUME Inv, NEW g \in Guids, NEW n \in 0..MaxAsked, Drop(g, n)
  PROVE  Inv'
<1>1. n \in Nat
  BY CountAssumption
<1> QED
  BY <1>1, TakenFromKeeps DEF Drop, Quiet, Inv, TypeOK

LEMMA ConsumeKeeps ==
  ASSUME Inv, NEW g \in Guids, NEW n \in 0..MaxAsked, Consume(g, n)
  PROVE  Inv'
<1>1. n \in Nat
  BY CountAssumption
<1>2. petState' \in {"unchanged", "changed"}
  BY DEF Consume, Inv, TypeOK
<1> QED
  BY <1>1, <1>2, TakenFromKeeps DEF Consume

LEMMA PetChangesKeeps == ASSUME Inv, PetChanges PROVE Inv'
<1>1. Memory \in Memories /\ Memory = [items |-> items', queue |-> queue']
  BY MemoryIsOne DEF PetChanges, Memory, memory
<1>2. Playing /\ UNCHANGED <<memory, selfMods, petMods, grown>> /\ petState' = "changed"
  BY DEF PetChanges
<1>3. grown \cap queue = {}
  BY DEF Inv, Queued, GrownHaveRows
<1>4. PlayerStep(Memory, {})
  BY <1>1, <1>2, <1>3 DEF PlayerStep, Requeued, Same, Memory, memory
<1>5. SameWorn("self") /\ SameWorn("pet") /\ At(items, "bag")' = At(items, "bag")
  BY <1>2 DEF SameWorn, At, memory
<1>6. ModifiersHold' /\ OnePerSlot'
  BY <1>2, <1>5, SameWornKeeps DEF Inv, OnePerSlot, Playing, database
<1> QED
  BY <1>2, <1>4, <1>6, PlayerActionKeeps DEF Inv, TypeOK, NoDebts

-----------------------------------------------------------------------------
\* Putting on and taking off

Wearers == {"self", "pet"}

LEMMA TakeOffDoes ==
  ASSUME Inv, NEW g \in Guids, NEW w \in Wearers, Playing, TakeOff(g, w)
  PROVE  /\ \E T : PlayerStep(Memory, T)
         /\ g \in At(items, w) /\ At(items, w)' = At(items, w) \ {g}
         /\ \A v \in Wearers \ {w} : SameWorn(v)
         /\ \A h \in At(items, w) \ {g} : items'[h].entry = items[h].entry
         /\ Cardinality(At(items, "bag")') <= BagSize
<1>1. PICK into \in CanStoreItem(items, g, items[g].entry, items[g].count) :
        Remember(StoreItem(Memory, g, into))
  BY DEF TakeOff
<1>2. /\ g \in At(items, w) /\ items[g] \in Items /\ items[g].place = w /\ items[g] # Null
      /\ w # "bag" /\ w # "none"
  BY DEF TakeOff, At, Inv, TypeOK, Wearers
<1>3. Memory \in Memories /\ Memory.items = items /\ Memory.queue = queue
  BY MemoryIsOne DEF Memory
<1>4. /\ into \in Guids
      /\ \/ into = g /\ Cardinality(At(items, "bag") \ {g}) < BagSize
         \/ into # g /\ into \in At(items, "bag")
  BY CanStoreItemFinds, <1>1 DEF At
<1>5. into # g => items[into] \in Items /\ items[into].place = "bag" /\ items[into] # Null
  BY <1>4 DEF At, Inv, TypeOK
<1> DEFINE s == StoreItem(Memory, g, into)
<1>6. /\ s \in Memories /\ Kept(Memory, s, into) /\ s.items[into].place = "bag"
      /\ into # g => Gone(Memory, s, g)
      /\ \A h \in Guids \ {g, into} : Same(Memory, s, h)
  BY <1>2, <1>3, <1>4, <1>5, StoreItemDoes
<1> HIDE DEF s
<1>7. s = [items |-> items', queue |-> queue']
  BY <1>1, <1>6 DEF Remember, s, Memories
<1>8. PlayerStep(Memory, {g, into})
  BY <1>2, <1>3, <1>4, <1>5, <1>6, <1>7 DEF PlayerStep, TakeOff
<1>9. \A h \in Guids \ {g, into} : items'[h] = items[h]
  BY <1>3, <1>6, <1>7 DEF Same
<1>10. /\ items'[into].place = "bag"
       /\ into # g => items'[g] = Null \/ items'[g].place = "none"
  BY <1>6, <1>7 DEF Gone
<1>11. At(items, w)' = At(items, w) \ {g}
  BY <1>2, <1>4, <1>5, <1>9, <1>10 DEF At
<1>12. \A v \in Wearers \ {w} : SameWorn(v)
  BY <1>2, <1>4, <1>5, <1>9, <1>10 DEF At, SameWorn, Wearers
<1>13. \A h \in At(items, w) \ {g} : items'[h].entry = items[h].entry
  BY <1>2, <1>5, <1>9 DEF At
<1>14. Cardinality(At(items, "bag")') <= BagSize
  <2>1. At(items, "bag") \in SUBSET Guids /\ At(items, "bag") \cup {g} \in SUBSET Guids
    BY DEF At
  <2>2. CASE into = g
    <3>1. At(items, "bag")' \subseteq At(items, "bag") \cup {g}
      BY <1>9, <2>2 DEF At
    <3> QED
      BY <1>4, <2>1, <2>2, <3>1, RoomForOne, NoMoreThan
  <2>3. CASE into # g
    <3>1. At(items, "bag")' \subseteq At(items, "bag")
      BY <1>4, <1>9, <1>10, <2>3 DEF At
    <3> QED
      BY <2>1, <3>1, NoMoreThan DEF Inv, OnePerSlot
  <2> QED
    BY <2>2, <2>3
<1> QED
  BY <1>2, <1>8, <1>11, <1>12, <1>13, <1>14

\* Fewer are worn, and none that was not.
LEMMA FewerWornFit ==
  ASSUME Inv, UNCHANGED views, Cardinality(At(items, "bag")') <= BagSize,
         \A w \in Wearers : /\ At(items, w)' \subseteq At(items, w)
                            /\ \A h \in At(items, w)' : items'[h].entry = items[h].entry
  PROVE  OnePerSlot'
<1>1. ASSUME NEW g \in Guids, NEW h \in Guids, items'[g] # Null, items'[h] # Null, g # h,
             SharedSlot(items'[g], items'[h])
      PROVE  FALSE
  <2>1. PICK p \in Wearers : items'[g].place = p /\ items'[h].place = p
    BY <1>1 DEF SharedSlot, Wearers
  <2>2. g \in At(items, p) /\ h \in At(items, p)
        /\ items'[g].entry = items[g].entry /\ items'[h].entry = items[h].entry
    BY <1>1, <2>1 DEF At
  <2> QED
    BY <1>1, <2>1, <2>2 DEF Inv, OnePerSlot, SharedSlot, At
<1> QED
  BY <1>1 DEF Inv, OnePerSlot

LEMMA UnequipKeeps == ASSUME Inv, NEW g \in Guids, Unequip(g) PROVE Inv'
<1>1. /\ Playing /\ TakeOff(g, "self") /\ selfMods' = Applied(selfMods, {}, {g})
      /\ UNCHANGED <<petMods, petState>>
  BY DEF Unequip
<1>2. /\ \E T : PlayerStep(Memory, T)
      /\ g \in At(items, "self") /\ At(items, "self")' = At(items, "self") \ {g}
      /\ SameWorn("pet") /\ Cardinality(At(items, "bag")') <= BagSize
      /\ \A h \in At(items, "self") \ {g} : items'[h].entry = items[h].entry
  BY <1>1, TakeOffDoes DEF Wearers
<1>3. OnePerSlot'
  BY <1>1, <1>2, FewerWornFit DEF Wearers, SameWorn, At, Playing, database
<1>4. \A h \in Guids : selfMods[h] = (IF h \in At(items, "self") THEN 1 ELSE 0)
  BY <1>1 DEF Inv, ModifiersHold, Playing
<1>5. \A h \in Guids : selfMods'[h] = (IF h \in At(items, "self")' THEN 1 ELSE 0)
  BY <1>1, <1>2, <1>4 DEF Applied
<1>6. \A h \in Guids : petMods'[h] >= (IF h \in At(items, "pet")' THEN 1 ELSE 0)
  BY <1>1, <1>2 DEF Inv, ModifiersHold, Playing, SameWorn, At
<1>7. ModifiersHold'
  BY <1>5, <1>6 DEF ModifiersHold
<1>8. selfMods' \in Mods
  BY <1>1 DEF Applied, Mods, Inv, TypeOK
<1> QED
  BY <1>1, <1>2, <1>3, <1>7, <1>8, PlayerActionKeeps DEF Inv, TypeOK, NoDebts

LEMMA PetUnequipKeeps == ASSUME Inv, NEW g \in Guids, PetUnequip(g) PROVE Inv'
<1>1. /\ Playing /\ TakeOff(g, "pet") /\ petMods' = Applied(petMods, {}, {g})
      /\ UNCHANGED <<selfMods, petState>>
  BY DEF PetUnequip
<1>2. /\ \E T : PlayerStep(Memory, T)
      /\ g \in At(items, "pet") /\ At(items, "pet")' = At(items, "pet") \ {g}
      /\ SameWorn("self") /\ Cardinality(At(items, "bag")') <= BagSize
      /\ \A h \in At(items, "pet") \ {g} : items'[h].entry = items[h].entry
  BY <1>1, TakeOffDoes DEF Wearers
<1>3. OnePerSlot'
  BY <1>1, <1>2, FewerWornFit DEF Wearers, SameWorn, At, Playing, database
<1>4. \A h \in Guids : petMods[h] >= (IF h \in At(items, "pet") THEN 1 ELSE 0) /\ petMods[h] \in Int
  BY <1>1 DEF Inv, ModifiersHold, Playing, TypeOK, Mods
<1>5. \A h \in Guids : petMods'[h] >= (IF h \in At(items, "pet")' THEN 1 ELSE 0)
  BY <1>1, <1>2, <1>4 DEF Applied
<1>6. \A h \in Guids : selfMods'[h] = (IF h \in At(items, "self")' THEN 1 ELSE 0)
  BY <1>1, <1>2 DEF Inv, ModifiersHold, Playing, SameWorn, At
<1>7. ModifiersHold'
  BY <1>5, <1>6 DEF ModifiersHold
<1>8. petMods' \in Mods /\ \A h \in Guids : petMods'[h] >= 0
  <2>1. petMods' \in Mods
    BY <1>1 DEF Applied, Mods, Inv, TypeOK
  <2> QED
    BY <1>5, <2>1 DEF Mods
<1> QED
  BY <1>1, <1>2, <1>3, <1>7, <1>8, PlayerActionKeeps DEF Inv, TypeOK

\* One item is exchanged for another one at most.
LEMMA Exchange ==
  ASSUME NEW S \in SUBSET Guids, NEW R \in SUBSET Guids, NEW g \in S, Cardinality(S) <= BagSize,
         \A h, k \in R : h = k
  PROVE  Cardinality((S \ {g}) \cup R) <= BagSize
<1>1. IsFiniteSet(S) /\ Cardinality(S) \in Nat
  BY BagAssumption, FS_Subset, FS_CardinalityType
<1>2. IsFiniteSet(S \ {g}) /\ Cardinality(S \ {g}) = Cardinality(S) - 1
  BY <1>1, FS_RemoveElement
<1>3. CASE R = {}
  <2>1. (S \ {g}) \cup R \in SUBSET S
    BY <1>3
  <2> QED
    BY <2>1, NoMoreThan
<1>4. CASE R # {}
  <2>1. PICK h \in R : R = {h}
    BY <1>4
  <2>2. Cardinality((S \ {g}) \ {h}) <= Cardinality(S \ {g})
    BY <1>2, FS_Subset
  <2>3. Cardinality((S \ {g}) \ {h}) \in Nat
    BY <1>2, FS_Subset, FS_CardinalityType
  <2>4. S \ {g} \in SUBSET Guids /\ h \in Guids /\ Cardinality((S \ {g}) \ {h}) < BagSize
    BY <1>1, <1>2, <2>1, <2>2, <2>3, BagAssumption
  <2>5. Cardinality((S \ {g}) \cup {h}) <= BagSize
    BY <2>4, RoomForOne
  <2> QED
    BY <2>1, <2>5
<1> QED
  BY <1>3, <1>4

LEMMA PutOnDoes ==
  ASSUME Inv, NEW g \in Guids, NEW w \in Wearers, Playing, PutOn(g, w)
  PROVE  /\ \E T : PlayerStep(Memory, T)
         /\ g \notin At(items, w) /\ WornInstead(g, w) \subseteq At(items, w)
         /\ At(items, w)' = (At(items, w) \ WornInstead(g, w)) \cup {g}
         /\ \A v \in Wearers \ {w} : SameWorn(v)
         /\ OnePerSlot'
<1> DEFINE gone == WornInstead(g, w)
           d == Displaced(Memory, gone)
           s == Moved(d, g, w)
<1>1. Memory \in Memories /\ Memory.items = items /\ Memory.queue = queue
  BY MemoryIsOne DEF Memory
<1>2. /\ items[g] \in Items /\ items[g].place = "bag" /\ items[g] # Null
      /\ w # "bag" /\ w # "none" /\ w \in Places
  BY DEF PutOn, At, Inv, TypeOK, Wearers, Places
<1>3. \A h \in gone : /\ h \in Guids /\ h \in At(items, w) /\ h # g /\ items[h] \in Items
                      /\ items[h] # Null /\ items[h].place = w
                      /\ EquipSlot[items[h].entry] = EquipSlot[items[g].entry]
  BY <1>2 DEF WornInstead, At, Inv, TypeOK
<1>4. \A h \in At(items, w) \ gone : EquipSlot[items[h].entry] # EquipSlot[items[g].entry]
  BY DEF WornInstead
<1>5. Remember(s)
  BY DEF PutOn
<1> HIDE DEF gone
<1>6. /\ d \in Memories
      /\ \A h \in gone : Kept(Memory, d, h) /\ d.items[h].place = "bag"
      /\ \A h \in Guids \ gone : Same(Memory, d, h)
  BY <1>1, <1>3, DisplacedDoes
<1>7. d.items[g] = items[g] /\ g \notin gone
  BY <1>1, <1>3, <1>6 DEF Same
<1> HIDE DEF d
<1>8. /\ s \in Memories /\ Kept(d, s, g) /\ s.items[g].place = w
      /\ \A h \in Guids \ {g} : Same(d, s, h)
  BY <1>2, <1>6, <1>7, MovedDoes
<1> HIDE DEF s
<1>9. s = [items |-> items', queue |-> queue']
  BY <1>5, <1>8 DEF Remember, Memories
<1>10. Kept(Memory, s, g) /\ \A h \in gone : Kept(Memory, s, h) /\ s.items[h].place = "bag"
  BY <1>1, <1>3, <1>6, <1>7, <1>8 DEF Kept, Same
<1>11. \A h \in Guids \ (gone \cup {g}) : Same(Memory, s, h)
  BY <1>6, <1>8 DEF Same
<1>12. PlayerStep(Memory, gone \cup {g})
  BY <1>1, <1>2, <1>3, <1>8, <1>9, <1>10, <1>11 DEF PlayerStep, PutOn
<1>13. /\ \A h \in Guids \ (gone \cup {g}) : items'[h] = items[h]
       /\ items'[g] # Null /\ items'[g].place = w /\ items'[g].entry = items[g].entry
       /\ \A h \in gone : items'[h].place = "bag"
  BY <1>1, <1>8, <1>9, <1>10, <1>11, NullAssumption DEF Same, Kept
<1>14. At(items, w)' = (At(items, w) \ gone) \cup {g}
  BY <1>2, <1>3, <1>13 DEF At
<1>15. \A v \in Wearers \ {w} : SameWorn(v)
  BY <1>2, <1>3, <1>13 DEF At, SameWorn, Wearers
<1>16. Cardinality(At(items, "bag")') <= BagSize
  <2>1. /\ At(items, "bag") \in SUBSET Guids /\ gone \in SUBSET Guids /\ g \in At(items, "bag")
        /\ At(items, "bag")' \subseteq (At(items, "bag") \ {g}) \cup gone
    BY <1>2, <1>3, <1>13 DEF At
  <2>2. ASSUME NEW h \in gone, NEW k \in gone, h # k PROVE FALSE
    BY <1>3, <2>2 DEF Inv, OnePerSlot, SharedSlot, Wearers
  <2>3. Cardinality((At(items, "bag") \ {g}) \cup gone) <= BagSize
    BY <2>1, <2>2, Exchange DEF Inv, OnePerSlot
  <2>4. (At(items, "bag") \ {g}) \cup gone \in SUBSET Guids
    BY <2>1
  <2> QED
    BY <2>1, <2>3, <2>4, NoMoreThan
<1>17. ASSUME NEW h \in Guids, NEW k \in Guids, items'[h] # Null, items'[k] # Null, h # k,
              SharedSlot(items'[h], items'[k])
       PROVE  FALSE
  <2>1. PICK v \in Wearers : items'[h].place = v /\ items'[k].place = v
    BY <1>17 DEF SharedSlot, Wearers
  <2>2. EquipSlot[items'[h].entry] = EquipSlot[items'[k].entry]
    BY <1>17 DEF SharedSlot
  <2>3. h \notin gone /\ k \notin gone
    BY <1>13, <2>1 DEF Wearers
  <2>4. CASE h # g /\ k # g
    <3>1. items'[h] = items[h] /\ items'[k] = items[k]
      BY <1>13, <2>3, <2>4
    <3> QED
      BY <1>17, <3>1 DEF Inv, OnePerSlot
  <2>5. CASE h = g
    <3>1. v = w /\ items'[k] = items[k] /\ k \in At(items, w) \ gone
      BY <1>13, <1>17, <2>1, <2>3, <2>5 DEF At
    <3> QED
      BY <1>4, <1>13, <2>2, <2>5, <3>1
  <2>6. CASE k = g
    <3>1. v = w /\ items'[h] = items[h] /\ h \in At(items, w) \ gone
      BY <1>13, <1>17, <2>1, <2>3, <2>6 DEF At
    <3> QED
      BY <1>4, <1>13, <2>2, <2>6, <3>1
  <2> QED
    BY <2>4, <2>5, <2>6
<1>18. OnePerSlot'
  BY <1>16, <1>17 DEF Playing, database, Inv, OnePerSlot
<1>19. g \notin At(items, w) /\ gone \subseteq At(items, w)
  BY <1>2, <1>3 DEF At
<1> QED
  BY <1>12, <1>14, <1>15, <1>18, <1>19 DEF gone

LEMMA EquipKeeps == ASSUME Inv, NEW g \in Guids, Equip(g) PROVE Inv'
<1> DEFINE gone == WornInstead(g, "self")
<1>1. /\ Playing /\ PutOn(g, "self") /\ selfMods' = Applied(selfMods, {g}, gone)
      /\ UNCHANGED <<petMods, petState>>
  BY DEF Equip
<1>2. /\ \E T : PlayerStep(Memory, T)
      /\ g \notin At(items, "self") /\ gone \subseteq At(items, "self")
      /\ At(items, "self")' = (At(items, "self") \ gone) \cup {g}
      /\ SameWorn("pet") /\ OnePerSlot'
  BY <1>1, PutOnDoes DEF Wearers
<1> HIDE DEF gone
<1>3. \A h \in Guids : selfMods[h] = (IF h \in At(items, "self") THEN 1 ELSE 0)
  BY <1>1 DEF Inv, ModifiersHold, Playing
<1>4. \A h \in Guids : selfMods'[h] = (IF h \in At(items, "self")' THEN 1 ELSE 0)
  BY <1>1, <1>2, <1>3 DEF Applied
<1>5. \A h \in Guids : petMods'[h] >= (IF h \in At(items, "pet")' THEN 1 ELSE 0)
  BY <1>1, <1>2 DEF Inv, ModifiersHold, Playing, SameWorn, At
<1>6. ModifiersHold'
  BY <1>4, <1>5 DEF ModifiersHold
<1>7. selfMods' \in Mods
  BY <1>1 DEF Applied, Mods, Inv, TypeOK
<1> QED
  BY <1>1, <1>2, <1>6, <1>7, PlayerActionKeeps DEF Inv, TypeOK, NoDebts

LEMMA PetEquipKeeps == ASSUME Inv, NEW g \in Guids, PetEquip(g) PROVE Inv'
<1> DEFINE gone == WornInstead(g, "pet")
<1>1. /\ Playing /\ PutOn(g, "pet") /\ petMods' = Applied(petMods, {g}, gone)
      /\ UNCHANGED <<selfMods, petState>>
  BY DEF PetEquip
<1>2. /\ \E T : PlayerStep(Memory, T)
      /\ g \notin At(items, "pet") /\ gone \subseteq At(items, "pet")
      /\ At(items, "pet")' = (At(items, "pet") \ gone) \cup {g}
      /\ SameWorn("self") /\ OnePerSlot'
  BY <1>1, PutOnDoes DEF Wearers
<1> HIDE DEF gone
<1>3. \A h \in Guids : /\ petMods[h] >= (IF h \in At(items, "pet") THEN 1 ELSE 0)
                       /\ petMods[h] \in Int /\ petMods[h] >= 0
  BY <1>1 DEF Inv, ModifiersHold, Playing, TypeOK, Mods, NoDebts
<1>4. petMods' \in Mods
  BY <1>1 DEF Applied, Mods, Inv, TypeOK
<1>5. \A h \in Guids : petMods'[h] >= (IF h \in At(items, "pet")' THEN 1 ELSE 0)
  BY <1>1, <1>2, <1>3 DEF Applied
<1>6. \A h \in Guids : petMods'[h] >= 0
  BY <1>4, <1>5 DEF Mods
<1>7. \A h \in Guids : selfMods'[h] = (IF h \in At(items, "self")' THEN 1 ELSE 0)
  BY <1>1, <1>2 DEF Inv, ModifiersHold, Playing, SameWorn, At
<1>8. ModifiersHold'
  BY <1>5, <1>7 DEF ModifiersHold
<1> QED
  BY <1>1, <1>2, <1>4, <1>6, <1>8, PlayerActionKeeps DEF Inv, TypeOK

-----------------------------------------------------------------------------
\* The database

Operations == [items : [Guids -> Changes], pet : Mods \cup {Null}]

LEMMA WrittenIsRows ==
  ASSUME NEW rs \in [Guids -> Rows \cup {Null}], NEW ch \in [Guids -> Changes]
  PROVE  Written(rs, ch) \in [Guids -> Rows \cup {Null}]
<1>1. \A g \in Guids : ch[g].kind \in {"insert", "update"} => ch[g].row \in Rows
  BY DEF Changes
<1> QED
  BY <1>1 DEF Written

LEMMA HandOverDoes ==
  ASSUME Inv, NEW op \in Operations, HandOver(op), op.pet # Null => \A g \in Guids : op.pet[g] >= 0
  PROVE  /\ pending' \in Seq(Operations) /\ views' \in Seq([Guids -> Rows \cup {Null}])
         /\ Chained' /\ Last' = Written(Last, op.items)
         /\ Len(views') = Len(views) + 1
         /\ \A i \in 1..Len(views) : views'[i] = views[i]
         /\ \A i \in 1..Len(pending') :
              pending'[i].pet # Null => \A g \in Guids : pending'[i].pet[g] >= 0
         /\ UNCHANGED <<rows, petRow>>
<1>1. /\ pending' = Append(pending, op)
      /\ views' = Append(views, Written(Last, op.items))
      /\ UNCHANGED <<rows, petRow>>
  BY DEF HandOver, Last
<1>2. /\ pending \in Seq(Operations) /\ views \in Seq([Guids -> Rows \cup {Null}])
      /\ Len(views) = Len(pending) + 1 /\ views[1] = rows
      /\ \A i \in 1..Len(pending) : views[i + 1] = Written(views[i], pending[i].items)
  BY DEF Inv, TypeOK, Queued, Chained, Operations
<1>3. Last \in [Guids -> Rows \cup {Null}]
  BY <1>2 DEF Last
<1>4. Written(Last, op.items) \in [Guids -> Rows \cup {Null}]
  BY <1>3, WrittenIsRows DEF Operations
<1> DEFINE next == Written(Last, op.items)
<1> HIDE DEF next
<1>5. /\ views' \in Seq([Guids -> Rows \cup {Null}]) /\ Len(views') = Len(views) + 1
      /\ views'[Len(views) + 1] = next
      /\ \A i \in 1..Len(views) : views'[i] = views[i]
  BY <1>1, <1>2, <1>4 DEF next
<1>6. /\ pending' \in Seq(Operations) /\ Len(pending') = Len(pending) + 1
      /\ pending'[Len(pending) + 1] = op
      /\ \A i \in 1..Len(pending) : pending'[i] = pending[i]
  BY <1>1, <1>2
<1>7. Last' = next
  BY <1>5 DEF Last
<1>8. Chained'
  <2>1. ASSUME NEW i \in 1..Len(pending')
        PROVE  views'[i + 1] = Written(views'[i], pending'[i].items)
    <3>1. CASE i = Len(pending) + 1
      <4>1. views'[i] = Last /\ views'[i + 1] = next
        BY <1>2, <1>5, <3>1 DEF Last
      <4> QED
        BY <1>6, <3>1, <4>1 DEF next
    <3>2. CASE i # Len(pending) + 1
      <4>1. i \in 1..Len(pending) /\ i \in 1..Len(views) /\ i + 1 \in 1..Len(views)
        BY <1>2, <1>6, <3>2
      <4> QED
        BY <1>2, <1>5, <1>6, <4>1
    <3> QED
      BY <3>1, <3>2
  <2>2. views'[1] = rows'
    BY <1>1, <1>2, <1>5
  <2> QED
    BY <1>2, <1>5, <1>6, <2>1, <2>2 DEF Chained
<1>9. \A i \in 1..Len(pending') :
        pending'[i].pet # Null => \A g \in Guids : pending'[i].pet[g] >= 0
  BY <1>2, <1>6 DEF Inv, NoDebts
<1> QED
  BY <1>1, <1>5, <1>6, <1>7, <1>8, <1>9 DEF next

LEMMA NewViewFits ==
  ASSUME Inv, Len(views') = Len(views) + 1, \A i \in 1..Len(views) : views'[i] = views[i],
         NEW g \in Guids, NEW h \in Guids, NEW i \in 1..Len(views'), i # Len(views'),
         views'[i][g] # Null, views'[i][h] # Null, g # h
  PROVE  ~SharedSlot(views'[i][g], views'[i][h])
<1>1. i \in 1..Len(views)
  BY DEF Inv, Queued, Chained, TypeOK
<1> QED
  BY <1>1 DEF Inv, OnePerSlot

\* What a save hands over for an item.
LEMMA ChangesOfItems ==
  ASSUME Inv, stage = "playing", NEW g \in Guids
  PROVE  /\ ChangeOf(g) \in Changes
         /\ LET ch == ChangeOf(g)
                to == CASE ch.kind = "insert" -> ch.row
                        [] ch.kind = "update" -> IF Last[g] = Null THEN Null ELSE ch.row
                        [] ch.kind = "delete" -> Null
                        [] OTHER -> Last[g]
            IN /\ items[g] = Null => to = Last[g]
               /\ items[g] # Null /\ items[g].state = "removed" => to = Null
               /\ items[g] # Null /\ items[g].state # "removed" =>
                    /\ to # Null /\ to.entry = items[g].entry /\ to.place = items[g].place
                    /\ to = RowOf(items[g]) \/ g \in grown
<1> DEFINE ch == ChangeOf(g)
<1>1. Consistent(g)
  BY DEF Inv, Queued, EveryChangeIsQueued, Staged, Consistent
<1>2. CASE items[g] = Null
  <2>1. ch = Keep
    BY <1>2 DEF ChangeOf
  <2> QED
    BY <1>2, <2>1 DEF Keep, Changes
<1>3. CASE items[g] # Null
  <2>1. items[g] \in Items
    BY <1>3 DEF Inv, TypeOK
  <2>2. CASE items[g].state = "removed"
    <3>1. ch = [kind |-> "delete"]
      BY <1>1, <1>3, <2>1, <2>2 DEF Consistent, ChangeOf
    <3> QED
      BY <1>3, <2>2, <3>1 DEF Changes
  <2>3. CASE items[g].state = "unchanged"
    <3>1. ch = Keep /\ (Last[g] = RowOf(items[g]) \/ g \in grown)
      BY <1>1, <1>3, <2>1, <2>3 DEF Consistent, ChangeOf
    <3>2. items[g].place # "none"
      BY <1>1, <1>3, <2>1, <2>3 DEF Consistent
    <3>3. /\ RowOf(items[g]) # Null
          /\ RowOf(items[g]).entry = items[g].entry /\ RowOf(items[g]).place = items[g].place
      BY <2>1, <3>2, RowsOfItems
    <3>4. g \in grown => Last[g] # Null /\ Last[g].entry = items[g].entry /\ Last[g].place = items[g].place
      BY DEF Inv, Queued, GrownHaveRows
    <3> QED
      BY <1>3, <2>3, <3>1, <3>3, <3>4 DEF Keep, Changes
  <2>4. CASE items[g].state \in {"new", "changed"}
    <3>1. /\ g \in queue /\ items[g].place # "none"
          /\ items[g].state = "changed" => Last[g] # Null
      BY <1>1, <1>3, <2>1, <2>4 DEF Consistent
    <3>2. /\ RowOf(items[g]) \in Rows /\ RowOf(items[g]) # Null
          /\ RowOf(items[g]).entry = items[g].entry /\ RowOf(items[g]).place = items[g].place
      BY <2>1, <3>1, RowsOfItems
    <3>3. ch = [kind |-> IF items[g].state = "new" THEN "insert" ELSE "update", row |-> RowOf(items[g])]
      BY <1>3, <2>4, <3>1 DEF ChangeOf
    <3> HIDE DEF ch
    <3>4. ch \in Changes /\ ch.row = RowOf(items[g])
      BY <2>4, <3>2, <3>3 DEF Changes
    <3>5. ch.kind = IF items[g].state = "new" THEN "insert" ELSE "update"
      BY <3>3
    <3> QED
      BY <1>3, <2>4, <3>1, <3>2, <3>4, <3>5 DEF ch
  <2> QED
    BY <2>1, <2>2, <2>3, <2>4 DEF Items
<1> QED
  BY <1>2, <1>3

\* The views of a save: the last one is the inventory.
SavedAs(last) ==
  \A g \in Guids :
    /\ items[g] = Null => last[g] = Last[g]
    /\ items[g] # Null /\ items[g].state = "removed" => last[g] = Null
    /\ items[g] # Null /\ items[g].state # "removed" =>
         /\ last[g] # Null /\ last[g].entry = items[g].entry /\ last[g].place = items[g].place
         /\ last[g] = RowOf(items[g]) \/ g \in grown

ViewsFit ==
  \A i \in 1..Len(views) : \A g, h \in Guids :
    views[i][g] # Null /\ views[i][h] # Null /\ g # h => ~SharedSlot(views[i][g], views[i][h])

LEMMA SaveToDBDoes ==
  ASSUME Inv, stage = "playing", SaveToDB
  PROVE  /\ pending' \in Seq(Operations) /\ views' \in Seq([Guids -> Rows \cup {Null}])
         /\ Chained' /\ SavedAs(Last') /\ ViewsFit'
         /\ \A i \in 1..Len(pending') :
              pending'[i].pet # Null => \A g \in Guids : pending'[i].pet[g] >= 0
         /\ UNCHANGED <<rows, petRow>>
<1> DEFINE ch == [g \in Guids |-> ChangeOf(g)]
           op == [items |-> ch, pet |-> IF petState = "changed" THEN petMods ELSE Null]
<1>1. HandOver(op)
  BY DEF SaveToDB
<1>2. ch \in [Guids -> Changes]
  BY ChangesOfItems
<1>3. /\ op \in Operations /\ op.items = ch
      /\ op.pet # Null => \A g \in Guids : op.pet[g] >= 0
  <2> HIDE DEF ch
  <2> QED
    BY <1>2 DEF Operations, Inv, TypeOK, NoDebts
<1> HIDE DEF op
<1>4. /\ pending' \in Seq(Operations) /\ views' \in Seq([Guids -> Rows \cup {Null}])
      /\ Chained' /\ Last' = Written(Last, ch)
      /\ Len(views') = Len(views) + 1
      /\ \A i \in 1..Len(views) : views'[i] = views[i]
      /\ \A i \in 1..Len(pending') :
           pending'[i].pet # Null => \A g \in Guids : pending'[i].pet[g] >= 0
      /\ UNCHANGED <<rows, petRow>>
  BY <1>1, <1>3, HandOverDoes
<1>5. SavedAs(Last')
  <2> SUFFICES ASSUME NEW g \in Guids
               PROVE  /\ items[g] = Null => Last'[g] = Last[g]
                      /\ items[g] # Null /\ items[g].state = "removed" => Last'[g] = Null
                      /\ items[g] # Null /\ items[g].state # "removed" =>
                           /\ Last'[g] # Null /\ Last'[g].entry = items[g].entry
                           /\ Last'[g].place = items[g].place
                           /\ Last'[g] = RowOf(items[g]) \/ g \in grown
    BY DEF SavedAs
  <2>1. Last'[g] = CASE ChangeOf(g).kind = "insert" -> ChangeOf(g).row
                     [] ChangeOf(g).kind = "update" -> IF Last[g] = Null THEN Null ELSE ChangeOf(g).row
                     [] ChangeOf(g).kind = "delete" -> Null
                     [] OTHER -> Last[g]
    BY <1>4 DEF Written
  <2> QED
    BY <2>1, ChangesOfItems
<1>6. ViewsFit'
  <2> SUFFICES ASSUME NEW i \in 1..Len(views'), NEW g \in Guids, NEW h \in Guids,
                      views'[i][g] # Null, views'[i][h] # Null, g # h,
                      SharedSlot(views'[i][g], views'[i][h])
               PROVE  FALSE
    BY DEF ViewsFit
  <2>1. CASE i # Len(views')
    BY <1>4, <2>1, NewViewFits
  <2>2. CASE i = Len(views')
    <3>1. views'[i] = Last'
      BY <2>2 DEF Last
    <3>2. ASSUME NEW k \in {g, h}
          PROVE  /\ items[k] # Null
                 /\ Last'[k].entry = items[k].entry /\ Last'[k].place = items[k].place
      <4>1. Last'[k] # Null /\ Last'[k].place \in {"self", "pet"} /\ k \in Guids
        BY <3>1 DEF SharedSlot
      <4>2. items[k] # Null
        <5> SUFFICES ASSUME items[k] = Null PROVE FALSE
          OBVIOUS
        <5>1. Last[k] # Null /\ Last[k].place # "bag"
          BY <1>5, <4>1 DEF SavedAs
        <5>2. Last[k] = Null \/ k \in absorbed
          BY <4>1 DEF Inv, Queued, EveryChangeIsQueued, Staged
        <5> QED
          BY <5>1, <5>2 DEF Inv, Queued, AbsorbedInBag
      <4> QED
        BY <1>5, <4>1, <4>2 DEF SavedAs
    <3>3. SharedSlot(items[g], items[h]) /\ items[g] # Null /\ items[h] # Null
      BY <3>1, <3>2 DEF SharedSlot
    <3> QED
      BY <3>3 DEF Inv, OnePerSlot
  <2> QED
    BY <2>1, <2>2
<1> QED
  BY <1>4, <1>5, <1>6

LEMMA SaveKeeps == ASSUME Inv, Save PROVE Inv'
<1>1. /\ stage = "playing" /\ SaveToDB /\ queue' = {} /\ petState' = "unchanged"
      /\ items' = [g \in Guids |->
           IF g \notin queue \/ items[g] = Null THEN items[g]
           ELSE IF items[g].state = "removed" THEN Null
           ELSE [items[g] EXCEPT !.state = "unchanged"]]
      /\ UNCHANGED <<stage, todo, selfMods, petMods, absorbed, grown>>
  BY DEF Save, observed
<1>2. /\ pending' \in Seq(Operations) /\ views' \in Seq([Guids -> Rows \cup {Null}])
      /\ Chained' /\ SavedAs(Last') /\ ViewsFit'
      /\ \A i \in 1..Len(pending') :
           pending'[i].pet # Null => \A g \in Guids : pending'[i].pet[g] >= 0
      /\ UNCHANGED <<rows, petRow>>
  BY <1>1, SaveToDBDoes
<1>3. ASSUME NEW g \in Guids
      PROVE  /\ items[g] = Null => items'[g] = Null
             /\ items[g] # Null /\ items[g].state = "removed" => items'[g] = Null
             /\ items[g] # Null /\ items[g].state # "removed" =>
                  /\ items'[g] \in Items /\ items'[g].state = "unchanged"
                  /\ items'[g].place = items[g].place /\ items'[g].entry = items[g].entry
                  /\ items'[g].place # "none" /\ RowOf(items'[g]) = RowOf(items[g])
  <2>1. Consistent(g) /\ items[g] \in Items \cup {Null}
    BY <1>1 DEF Inv, Queued, EveryChangeIsQueued, Staged, Consistent, TypeOK
  <2>2. CASE items[g] = Null
    BY <1>1, <2>2
  <2>3. CASE items[g] # Null /\ g \notin queue
    <3>1. items'[g] = items[g] /\ items[g].state = "unchanged" /\ items[g].place # "none"
      BY <1>1, <2>1, <2>3 DEF Consistent, Items
    <3> QED
      BY <2>1, <2>3, <3>1
  <2>4. CASE items[g] # Null /\ g \in queue
    <3>1. CASE items[g].state = "removed"
      BY <1>1, <2>4, <3>1
    <3>2. CASE items[g].state # "removed"
      <4>1. items'[g] = [items[g] EXCEPT !.state = "unchanged"] /\ items[g].place # "none"
        BY <1>1, <2>1, <2>4, <3>2 DEF Consistent
      <4> QED
        BY <2>1, <2>4, <3>2, <4>1 DEF Items, RowOf
    <3> QED
      BY <3>1, <3>2
  <2> QED
    BY <2>2, <2>3, <2>4
<1>4. items' \in [Guids -> Items \cup {Null}]
  <2>1. \A g \in Guids : items'[g] \in Items \cup {Null}
    BY <1>3
  <2> QED
    BY <1>1, <2>1
<1>5. TypeOK'
  BY <1>1, <1>2, <1>4 DEF Inv, TypeOK, Operations
<1>6. Staged' /\ Awaiting'
  BY <1>1 DEF Inv, Queued, Staged, Awaiting
<1>7. \A g \in Guids : Consistent(g)'
  <2> TAKE g \in Guids
  <2>1. Consistent(g)
    BY <1>1 DEF Inv, Queued, EveryChangeIsQueued, Staged, Consistent
  <2>2. CASE items[g] = Null
    BY <1>1, <1>2, <1>3, <2>1, <2>2 DEF Consistent, SavedAs
  <2>3. CASE items[g] # Null /\ items[g].state = "removed"
    BY <1>1, <1>2, <1>3, <2>3 DEF Consistent, SavedAs
  <2>4. CASE items[g] # Null /\ items[g].state # "removed"
    <3>1. /\ items'[g] # Null /\ items'[g].state = "unchanged" /\ items'[g].place # "none"
          /\ Last'[g] = RowOf(items'[g]) \/ g \in grown'
      BY <1>1, <1>2, <1>3, <2>4, NullAssumption DEF SavedAs
    <3> QED
      BY <1>1, <3>1 DEF Consistent
  <2> QED
    BY <2>2, <2>3, <2>4
<1>8. EveryChangeIsQueued'
  BY <1>7 DEF EveryChangeIsQueued, Consistent
<1>9. GrownHaveRows'
  <2> SUFFICES ASSUME NEW g \in grown'
               PROVE  /\ items'[g] # Null /\ g \notin queue' /\ Last'[g] # Null
                      /\ Last'[g].entry = items'[g].entry /\ Last'[g].place = items'[g].place
    BY DEF GrownHaveRows
  <2>1. g \in Guids /\ items[g] # Null /\ g \notin queue
    BY <1>1 DEF Inv, Queued, GrownHaveRows, TypeOK
  <2>2. items[g].state # "removed"
    BY <1>1, <2>1 DEF Inv, Queued, EveryChangeIsQueued, Staged
  <2> QED
    BY <1>1, <1>2, <1>3, <2>1, <2>2, NullAssumption DEF SavedAs
<1>10. AbsorbedInBag'
  <2> SUFFICES ASSUME NEW g \in absorbed
               PROVE  items'[g] = Null /\ Last'[g] # Null /\ Last'[g].place = "bag"
    BY <1>1 DEF AbsorbedInBag
  <2>1. g \in Guids /\ items[g] = Null /\ Last[g] # Null /\ Last[g].place = "bag"
    BY DEF Inv, TypeOK, Queued, AbsorbedInBag
  <2> QED
    BY <1>2, <1>3, <2>1 DEF SavedAs
<1>11. \A p \in {"bag", "self", "pet"} : At(items, p)' = At(items, p)
  <2> TAKE p \in {"bag", "self", "pet"}
  <2>1. ASSUME NEW g \in Guids PROVE g \in At(items, p)' <=> g \in At(items, p)
    <3>1. items[g] # Null /\ items[g].state = "removed" => items[g].place = "none"
      BY <1>1 DEF Inv, Queued, EveryChangeIsQueued, Staged
    <3> QED
      BY <1>3, <3>1, NullAssumption DEF At
  <2> QED
    BY <2>1 DEF At
<1>12. ModifiersHold' /\ NoDebts'
  BY <1>1, <1>2, <1>11 DEF Inv, ModifiersHold, NoDebts
<1>13. OnePerSlot'
  <2>1. ASSUME NEW g \in Guids, NEW h \in Guids, items'[g] # Null, items'[h] # Null, g # h,
               SharedSlot(items'[g], items'[h])
        PROVE  FALSE
    <3>1. ASSUME NEW k \in {g, h}
          PROVE  /\ items[k] # Null /\ items'[k].entry = items[k].entry
                 /\ items'[k].place = items[k].place
      BY <1>3, <2>1
    <3> QED
      BY <2>1, <3>1 DEF Inv, OnePerSlot, SharedSlot
  <2>2. Cardinality(At(items, "bag")') <= BagSize
    BY <1>11 DEF Inv, OnePerSlot
  <2> QED
    BY <1>2, <2>1, <2>2 DEF OnePerSlot, ViewsFit
<1> QED
  BY <1>2, <1>5, <1>6, <1>8, <1>9, <1>10, <1>12, <1>13 DEF Inv, Queued

LEMMA ForgetKeeps ==
  ASSUME Forget, pending' \in Seq(Operations), views' \in Seq([Guids -> Rows \cup {Null}]),
         rows' \in [Guids -> Rows \cup {Null}], petRow' \in Mods,
         \A g \in Guids : petRow'[g] >= 0, Chained', ViewsFit',
         \A i \in 1..Len(pending') :
           pending'[i].pet # Null => \A g \in Guids : pending'[i].pet[g] >= 0
  PROVE  Inv'
<1>1. TypeOK' /\ NoDebts'
  BY DEF Forget, TypeOK, NoDebts, Operations, NoMods, Mods
<1>2. Staged' /\ Awaiting' /\ GrownHaveRows' /\ AbsorbedInBag'
  BY DEF Forget, Staged, Awaiting, GrownHaveRows, AbsorbedInBag
<1>3. EveryChangeIsQueued' /\ ModifiersHold'
  BY DEF Forget, EveryChangeIsQueued, ModifiersHold
<1>4. OnePerSlot'
  <2>1. \A g \in Guids : items'[g] = Null
    BY DEF Forget
  <2>2. Cardinality(At(items', "bag")) <= BagSize
    BY <2>1, NothingFits
  <2>3. Cardinality(At(items, "bag")') <= BagSize
    BY <2>2 DEF At
  <2> QED
    BY <2>1, <2>3 DEF OnePerSlot, ViewsFit
<1> QED
  BY <1>1, <1>2, <1>3, <1>4 DEF Inv, Queued

LEMMA LogoutKeeps == ASSUME Inv, Logout PROVE Inv'
<1>1. stage = "playing" /\ SaveToDB /\ Forget
  BY DEF Logout
<1>2. /\ pending' \in Seq(Operations) /\ views' \in Seq([Guids -> Rows \cup {Null}])
      /\ Chained' /\ ViewsFit' /\ UNCHANGED <<rows, petRow>>
      /\ \A i \in 1..Len(pending') :
           pending'[i].pet # Null => \A g \in Guids : pending'[i].pet[g] >= 0
  BY <1>1, SaveToDBDoes
<1> QED
  BY <1>1, <1>2, ForgetKeeps DEF Inv, TypeOK, NoDebts

LEMMA CrashKeeps == ASSUME Inv, Crash PROVE Inv'
<1>1. Forget /\ pending' = <<>> /\ views' = <<rows>> /\ UNCHANGED <<rows, petRow>>
  BY DEF Crash
<1>2. views \in Seq([Guids -> Rows \cup {Null}]) /\ 1 \in 1..Len(views) /\ views[1] = rows
  BY DEF Inv, TypeOK, Queued, Chained
<1>3. rows \in [Guids -> Rows \cup {Null}]
  BY DEF Inv, TypeOK
<1>4. /\ pending' \in Seq(Operations) /\ views' \in Seq([Guids -> Rows \cup {Null}])
      /\ Len(views') = 1 /\ views'[1] = rows /\ Len(pending') = 0
  BY <1>1, <1>3
<1>5. Chained' /\ ViewsFit'
  BY <1>1, <1>2, <1>4 DEF Chained, ViewsFit, Inv, OnePerSlot
<1> QED
  BY <1>1, <1>4, <1>5, ForgetKeeps DEF Inv, TypeOK, NoDebts

LEMMA WriteKeeps == ASSUME Inv, Write PROVE Inv'
<1>1. /\ pending # <<>> /\ rows' = Written(rows, Head(pending).items)
      /\ petRow' = IF Head(pending).pet = Null THEN petRow ELSE Head(pending).pet
      /\ pending' = Tail(pending) /\ views' = Tail(views)
      /\ UNCHANGED <<stage, todo, items, queue, absorbed, grown, selfMods, petMods, petState>>
  BY DEF Write, memory, observed, Quiet
<1>2. /\ pending \in Seq(Operations) /\ views \in Seq([Guids -> Rows \cup {Null}])
      /\ Len(views) = Len(pending) + 1 /\ views[1] = rows
      /\ \A i \in 1..Len(pending) : views[i + 1] = Written(views[i], pending[i].items)
  BY DEF Inv, TypeOK, Queued, Chained, Operations
<1>3. /\ Len(pending) \in Nat \ {0} /\ Head(pending) = pending[1] /\ pending[1] \in Operations
      /\ pending' \in Seq(Operations) /\ Len(pending') = Len(pending) - 1
      /\ \A i \in 1..Len(pending') : pending'[i] = pending[i + 1]
      /\ views' \in Seq([Guids -> Rows \cup {Null}]) /\ Len(views') = Len(views) - 1
      /\ \A i \in 1..Len(views') : views'[i] = views[i + 1]
  BY <1>1, <1>2
<1>4. /\ rows' = views[2] /\ views[2] = views'[1] /\ rows' \in [Guids -> Rows \cup {Null}]
      /\ 2 \in 1..Len(views)
  <2>1. 1 \in 1..Len(pending) /\ 2 \in 1..Len(views) /\ 1 \in 1..Len(views') /\ 1 + 1 = 2
    BY <1>2, <1>3
  <2>2. views[2] = Written(rows, pending[1].items) /\ views'[1] = views[2]
    BY <1>2, <1>3, <2>1
  <2> QED
    BY <1>1, <1>2, <1>3, <2>1, <2>2
<1>5. Last' = Last
  <2>1. Len(views') \in 1..Len(views') /\ Len(views') + 1 = Len(views)
    BY <1>2, <1>3
  <2> QED
    BY <1>3, <2>1 DEF Last
<1>6. Chained'
  <2>1. ASSUME NEW i \in 1..Len(pending')
        PROVE  views'[i + 1] = Written(views'[i], pending'[i].items)
    <3>1. /\ i \in 1..Len(views') /\ i + 1 \in 1..Len(views') /\ i + 1 \in 1..Len(pending)
          /\ (i + 1) + 1 = i + 2
      BY <1>2, <1>3
    <3>2. views[(i + 1) + 1] = Written(views[i + 1], pending[i + 1].items)
      BY <1>2, <3>1
    <3> QED
      BY <1>3, <3>1, <3>2
  <2>2. Len(views') = Len(pending') + 1
    BY <1>2, <1>3
  <2> QED
    BY <1>4, <2>1, <2>2 DEF Chained
<1>7. petRow' \in Mods /\ \A g \in Guids : petRow'[g] >= 0
  <2>1. 1 \in 1..Len(pending)
    BY <1>3
  <2>2. Head(pending).pet # Null => Head(pending).pet \in Mods /\ \A g \in Guids : Head(pending).pet[g] >= 0
    BY <1>3, <2>1 DEF Operations, Inv, NoDebts
  <2> QED
    BY <1>1, <2>2 DEF Inv, TypeOK, NoDebts
<1>8. NoDebts'
  <2>1. ASSUME NEW i \in 1..Len(pending'), pending'[i].pet # Null, NEW g \in Guids
        PROVE  pending'[i].pet[g] >= 0
    <3>1. i + 1 \in 1..Len(pending) /\ pending'[i] = pending[i + 1]
      BY <1>3
    <3> QED
      BY <2>1, <3>1 DEF Inv, NoDebts
  <2> QED
    BY <1>1, <1>7, <2>1 DEF Inv, NoDebts
<1>9. Awaiting'
  <2> SUFFICES ASSUME NEW g \in todo
               PROVE  /\ items[g] = Null /\ g \notin queue \cup absorbed /\ rows'[g] # Null
                      /\ \A i \in 1..Len(views') : views'[i][g] = rows'[g]
    BY <1>1 DEF Awaiting
  <2>1. /\ items[g] = Null /\ g \notin queue \cup absorbed /\ rows[g] # Null
        /\ \A i \in 1..Len(views) : views[i][g] = rows[g]
    BY DEF Inv, Queued, Awaiting
  <2>2. ASSUME NEW i \in 1..Len(views') PROVE views'[i][g] = rows[g]
    <3>1. i + 1 \in 1..Len(views)
      BY <1>2, <1>3
    <3>2. views'[i] = views[i + 1]
      BY <1>3
    <3> QED
      BY <2>1, <3>1, <3>2
  <2>3. \A i \in 1..Len(views') : views'[i][g] = rows[g]
    BY <2>2
  <2>4. rows'[g] = views[2][g] /\ views[2][g] = rows[g]
    BY <1>4, <2>1
  <2> QED
    BY <2>1, <2>3, <2>4
<1>10. Staged' /\ GrownHaveRows' /\ AbsorbedInBag' /\ EveryChangeIsQueued' /\ ModifiersHold'
  BY <1>1, <1>5
  DEF Inv, Queued, Staged, GrownHaveRows, AbsorbedInBag, EveryChangeIsQueued, ModifiersHold, At
<1>11. OnePerSlot'
  <2>1. \A i \in 1..Len(views') : i + 1 \in 1..Len(views)
    BY <1>2, <1>3
  <2> QED
    BY <1>1, <1>3, <2>1 DEF Inv, OnePerSlot, At
<1>12. TypeOK'
  BY <1>1, <1>3, <1>4, <1>7 DEF Inv, TypeOK, Operations
<1> QED
  BY <1>6, <1>8, <1>9, <1>10, <1>11, <1>12 DEF Inv, Queued

-----------------------------------------------------------------------------
\* The login

LEMMA LoginKeeps == ASSUME Inv, Login PROVE Inv'
<1>1. /\ stage = "offline" /\ pending = <<>> /\ stage' = "loading"
      /\ todo' = {g \in Guids : rows[g] # Null} /\ petMods' = petRow
      /\ UNCHANGED <<items, queue, rows, petRow, pending, views, selfMods, petState, absorbed, grown>>
  BY DEF Login, memory, database, observed
<1>2. items = [g \in Guids |-> Null] /\ queue = {} /\ absorbed = {} /\ grown = {}
  BY <1>1 DEF Inv, Queued, Staged
<1>3. Len(views) = 1 /\ views[1] = rows /\ Last = rows
  BY <1>1 DEF Inv, Queued, Chained, Last
<1>4. TypeOK'
  BY <1>1 DEF Inv, TypeOK
<1>5. Queued'
  <2>1. Chained' /\ Staged' /\ GrownHaveRows' /\ AbsorbedInBag'
    BY <1>1, <1>2 DEF Inv, Queued, Chained, Staged, GrownHaveRows, AbsorbedInBag
  <2>2. Awaiting'
    BY <1>1, <1>2, <1>3 DEF Awaiting
  <2>3. EveryChangeIsQueued'
    BY <1>1, <1>2, <1>3 DEF EveryChangeIsQueued, Last
  <2> QED
    BY <2>1, <2>2, <2>3 DEF Queued
<1>6. NoDebts' /\ ModifiersHold' /\ OnePerSlot'
  BY <1>1 DEF Inv, NoDebts, ModifiersHold, OnePerSlot, At
<1> QED
  BY <1>4, <1>5, <1>6 DEF Inv

LEMMA FinishLoadingKeeps == ASSUME Inv, FinishLoading PROVE Inv'
<1>1. /\ stage = "loading" /\ todo = {} /\ stage' = "playing"
      /\ selfMods' = Applied(NoMods, At(items, "self"), {})
      /\ petMods' = Applied(petMods, At(items, "pet"), {})
      /\ UNCHANGED <<todo, items, queue, petState, rows, petRow, pending, views, absorbed, grown>>
  BY DEF FinishLoading, memory, database, observed
<1>2. /\ selfMods' \in Mods /\ petMods' \in Mods
      /\ \A g \in Guids : /\ selfMods'[g] = (IF g \in At(items, "self") THEN 1 ELSE 0)
                          /\ petMods'[g] >= (IF g \in At(items, "pet") THEN 1 ELSE 0)
                          /\ petMods'[g] >= 0
  BY <1>1 DEF Applied, NoMods, Mods, Inv, TypeOK, NoDebts
<1>3. TypeOK'
  BY <1>1, <1>2 DEF Inv, TypeOK
<1>4. Queued'
  BY <1>1 DEF Inv, Queued, Chained, Staged, Awaiting, GrownHaveRows, AbsorbedInBag,
              EveryChangeIsQueued, Last
<1>5. NoDebts' /\ ModifiersHold' /\ OnePerSlot'
  BY <1>1, <1>2 DEF Inv, NoDebts, ModifiersHold, OnePerSlot, At
<1> QED
  BY <1>3, <1>4, <1>5 DEF Inv

LoadFrame(g) ==
  /\ stage = "loading" /\ g \in todo /\ todo' = todo \ {g}
  /\ UNCHANGED <<stage, queue, selfMods, petMods, petState>>

LEMMA LoadingFacts ==
  ASSUME Inv, NEW g \in Guids, LoadRow(g)
  PROVE  /\ LoadFrame(g) /\ queue = {} /\ items[g] = Null
         /\ rows[g] \in Rows /\ rows[g] # Null /\ Last[g] = rows[g]
         /\ g \notin absorbed /\ g \notin grown
<1>1. LoadFrame(g) /\ queue = {}
  BY DEF LoadRow, Quiet, LoadFrame, Inv, Queued, Staged
<1>2. items[g] = Null /\ g \notin absorbed /\ rows[g] # Null /\ \A i \in 1..Len(views) : views[i][g] = rows[g]
  BY <1>1 DEF LoadFrame, Inv, Queued, Awaiting
<1>3. Len(views) \in 1..Len(views)
  BY DEF Inv, TypeOK, Queued, Chained
<1>4. rows[g] \in Rows
  BY <1>2 DEF Inv, TypeOK
<1>5. g \notin grown
  BY <1>2 DEF Inv, Queued, GrownHaveRows
<1> QED
  BY <1>1, <1>2, <1>3, <1>4, <1>5 DEF Last

\* A step that looks at the row of g, with what it does to that item alone.
LEMMA LoadingKeeps ==
  ASSUME Inv, NEW g \in Guids, LoadFrame(g), queue = {},
         items' \in [Guids -> Items \cup {Null}], absorbed' \subseteq Guids, grown' \subseteq Guids,
         pending' \in Seq(Operations), views' \in Seq([Guids -> Rows \cup {Null}]),
         UNCHANGED <<rows, petRow>>, Chained',
         \A i \in 1..Len(pending') :
           pending'[i].pet # Null => \A h \in Guids : pending'[i].pet[h] >= 0,
         \A h \in todo' : items'[h] = Null /\ h \notin absorbed'
                          /\ \A i \in 1..Len(views') : views'[i][h] = rows[h],
         GrownHaveRows', AbsorbedInBag', OnePerSlot',
         \A h \in Guids \ todo' : Consistent(h)'
  PROVE  Inv'
<1>1. TypeOK'
  BY DEF LoadFrame, Inv, TypeOK, Operations
<1>2. Staged' /\ ModifiersHold' /\ NoDebts'
  BY DEF LoadFrame, Staged, ModifiersHold, Inv, NoDebts
<1>3. Awaiting'
  BY DEF LoadFrame, Inv, Queued, Awaiting
<1>4. EveryChangeIsQueued'
  BY DEF EveryChangeIsQueued, Consistent
<1> QED
  BY <1>1, <1>2, <1>3, <1>4 DEF Inv, Queued

LEMMA LoadedItems ==
  ASSUME Inv, NEW g \in Guids, LoadRow(g)
  PROVE  /\ \A h \in todo' : h # g /\ items[h] = Null /\ h \notin absorbed
                             /\ \A i \in 1..Len(views) : views[i][h] = rows[h]
         /\ \A h \in (Guids \ todo') \ {g} : Consistent(h)
         /\ \A h \in Guids : items[h] # Null =>
              /\ items[h] \in Items /\ items[h].state = "unchanged" /\ items[h].place # "none"
              /\ h \notin todo /\ h # g
<1>1. LoadFrame(g) /\ queue = {}
  BY LoadingFacts
<1>2. \A h \in Guids \ todo : Consistent(h)
  BY <1>1 DEF LoadFrame, Inv, Queued, EveryChangeIsQueued, Consistent
<1>3. \A h \in todo : items[h] = Null /\ h \notin absorbed
                      /\ \A i \in 1..Len(views) : views[i][h] = rows[h]
  BY DEF Inv, Queued, Awaiting
<1>4. ASSUME NEW h \in Guids, items[h] # Null
      PROVE  /\ items[h] \in Items /\ items[h].state = "unchanged" /\ items[h].place # "none"
             /\ h \notin todo /\ h # g
  <2>1. h \notin todo /\ items[h] \in Items
    BY <1>3, <1>4 DEF Inv, TypeOK
  <2>2. Consistent(h)
    BY <1>2, <2>1
  <2> QED
    BY <1>1, <1>4, <2>1, <2>2 DEF Consistent, Items, LoadFrame
<1> QED
  BY <1>1, <1>2, <1>3, <1>4 DEF LoadFrame

LEMMA LoadHoldsKeeps == ASSUME Inv, NEW g \in Guids, LoadRow(g), LoadHolds(g) PROVE Inv'
<1> DEFINE new == Loaded(g)
<1>1. /\ LoadFrame(g) /\ queue = {} /\ items[g] = Null /\ rows[g] \in Rows /\ rows[g] # Null
      /\ Last[g] = rows[g] /\ g \notin absorbed /\ g \notin grown
  BY LoadingFacts
<1>2. /\ items' = [items EXCEPT ![g] = new]
      /\ UNCHANGED <<rows, petRow, pending, views, absorbed, grown>> /\ queue' = queue /\ Last' = Last
  BY <1>1 DEF LoadHolds, database, observed, Last, LoadFrame
<1>3. /\ \/ rows[g].place = "bag" /\ Cardinality(At(items, "bag") \ {g}) < BagSize
         \/ rows[g].place # "bag" /\ FitsWorn(rows[g])
  BY CanStoreItemFinds DEF LoadHolds
<1>4. /\ new \in Items /\ new.state = "unchanged" /\ new.place = rows[g].place
      /\ new.entry = rows[g].entry /\ new.place # "none" /\ RowOf(new) = rows[g] /\ new # Null
  <2>1. rows[g] = [entry |-> rows[g].entry, count |-> rows[g].count, place |-> rows[g].place]
    BY <1>1 DEF Rows
  <2> QED
    BY <1>1, <2>1, NullAssumption DEF Loaded, Items, Rows, RowOf
<1> HIDE DEF new
<1>5. items'[g] = new /\ \A h \in Guids \ {g} : items'[h] = items[h]
  BY <1>2 DEF Inv, TypeOK
<1>6. \A h \in todo' : items'[h] = Null /\ h \notin absorbed'
                       /\ \A i \in 1..Len(views') : views'[i][h] = rows[h]
  <2>1. todo' \subseteq Guids
    BY <1>1 DEF LoadFrame, Inv, TypeOK
  <2> QED
    BY <1>2, <1>5, <2>1, LoadedItems
<1>7. \A h \in Guids \ todo' : Consistent(h)'
  <2>1. Consistent(g)'
    BY <1>1, <1>2, <1>4, <1>5 DEF Consistent
  <2>2. \A h \in (Guids \ todo') \ {g} : Consistent(h)'
    <3> TAKE h \in (Guids \ todo') \ {g}
    <3>1. Consistent(h)
      BY LoadedItems
    <3> QED
      BY <1>2, <1>5, <3>1 DEF Consistent
  <2> QED
    BY <2>1, <2>2
<1>8. Chained' /\ GrownHaveRows' /\ AbsorbedInBag'
  BY <1>1, <1>2, <1>5 DEF Inv, TypeOK, Queued, Chained, GrownHaveRows, AbsorbedInBag
<1>9. OnePerSlot'
  <2>1. ASSUME NEW h \in Guids, NEW k \in Guids, items'[h] # Null, items'[k] # Null, h # k,
               SharedSlot(items'[h], items'[k])
        PROVE  FALSE
    <3>1. CASE h # g /\ k # g
      BY <1>5, <2>1, <3>1 DEF Inv, OnePerSlot
    <3>2. CASE h = g
      BY <1>3, <1>4, <1>5, <2>1, <3>2 DEF FitsWorn, SharedSlot, At
    <3>3. CASE k = g
      BY <1>3, <1>4, <1>5, <2>1, <3>3 DEF FitsWorn, SharedSlot, At
    <3> QED
      BY <3>1, <3>2, <3>3
  <2>2. Cardinality(At(items, "bag")') <= BagSize
    <3>1. At(items, "bag") \in SUBSET Guids /\ At(items, "bag") \cup {g} \in SUBSET Guids
      BY DEF At
    <3>2. CASE rows[g].place = "bag"
      <4>1. At(items, "bag")' \subseteq At(items, "bag") \cup {g}
        BY <1>5 DEF At
      <4> QED
        BY <1>3, <3>1, <3>2, <4>1, RoomForOne, NoMoreThan
    <3>3. CASE rows[g].place # "bag"
      <4>1. At(items, "bag")' \subseteq At(items, "bag")
        BY <1>4, <1>5, <3>3 DEF At
      <4> QED
        BY <3>1, <4>1, NoMoreThan DEF Inv, OnePerSlot
    <3> QED
      BY <3>2, <3>3
  <2> QED
    BY <1>2, <2>1, <2>2 DEF Inv, OnePerSlot
<1>10. /\ items' \in [Guids -> Items \cup {Null}] /\ absorbed' \subseteq Guids /\ grown' \subseteq Guids
       /\ pending' \in Seq(Operations) /\ views' \in Seq([Guids -> Rows \cup {Null}])
       /\ \A i \in 1..Len(pending') :
            pending'[i].pet # Null => \A h \in Guids : pending'[i].pet[h] >= 0
  BY <1>2, <1>4 DEF Inv, TypeOK, NoDebts, Operations
<1> QED
  BY <1>1, <1>2, <1>6, <1>7, <1>8, <1>9, <1>10, LoadingKeeps

LEMMA LoadMergesKeeps == ASSUME Inv, NEW g \in Guids, LoadRow(g), LoadMerges(g) PROVE Inv'
<1>1. /\ LoadFrame(g) /\ queue = {} /\ items[g] = Null /\ rows[g] \in Rows /\ rows[g] # Null
      /\ Last[g] = rows[g] /\ g \notin absorbed /\ g \notin grown
  BY LoadingFacts
<1>2. /\ rows[g].place = "bag" /\ absorbed' = absorbed \cup {g}
      /\ UNCHANGED <<rows, petRow, pending, views>> /\ queue' = queue /\ Last' = Last
  BY <1>1 DEF LoadMerges, database, Last, LoadFrame
<1>3. PICK h \in CanStoreItem(items, g, rows[g].entry, rows[g].count) \ {g} :
        items' = Merged(items, h, rows[g].count) /\ grown' = grown \cup {h}
  BY DEF LoadMerges
<1>4. h # g /\ h \in Guids /\ items[h] # Null
  <2>1. h # g /\ h \in CanStoreItem(items, g, rows[g].entry, rows[g].count)
    BY <1>3
  <2>2. h \in At(items, "bag")
    BY <2>1, CanStoreItemFinds
  <2> QED
    BY <2>1, <2>2 DEF At
<1>5. /\ items[h] \in Items /\ items[h].state = "unchanged" /\ items[h].place # "none"
      /\ h \notin todo
  BY <1>4, LoadedItems
<1> DEFINE sum == (items[h].count + rows[g].count) % CountModulus
           x   == [items[h] EXCEPT !.count = sum]
<1>6. sum \in Counts
  <2>1. items[h].count \in Counts /\ rows[g].count \in Nat
    BY <1>1, <1>5, CountAssumption DEF Items, Rows, Counts
  <2> QED
    BY <2>1, CountsAreModular
<1>7. /\ x \in Items /\ x # Null /\ x.state = "unchanged" /\ x.place = items[h].place
      /\ x.entry = items[h].entry
  BY <1>5, <1>6, NullAssumption DEF Items
<1>8. items' = [items EXCEPT ![h] = x]
  BY <1>3 DEF Merged
<1> HIDE DEF x
<1>9. items'[h] = x /\ \A k \in Guids \ {h} : items'[k] = items[k]
  BY <1>4, <1>8 DEF Inv, TypeOK
<1>10. Last[h] # Null /\ Last[h].entry = items[h].entry /\ Last[h].place = items[h].place
  <2>1. Consistent(h) /\ h \notin todo'
    BY <1>1, <1>4, <1>5, LoadedItems DEF LoadFrame
  <2>2. CASE h \in grown
    BY <2>2 DEF Inv, Queued, GrownHaveRows
  <2>3. CASE h \notin grown
    <3>1. Last[h] = RowOf(items[h])
      BY <1>4, <1>5, <2>1, <2>3 DEF Consistent
    <3> QED
      BY <1>5, <3>1, RowsOfItems
  <2> QED
    BY <2>2, <2>3
<1>11. \A k \in todo' : items'[k] = Null /\ k \notin absorbed'
                        /\ \A i \in 1..Len(views') : views'[i][k] = rows[k]
  <2>1. todo' \subseteq Guids /\ h \notin todo'
    BY <1>1, <1>5 DEF LoadFrame, Inv, TypeOK
  <2> QED
    BY <1>2, <1>9, <2>1, LoadedItems
<1>12. \A k \in Guids \ todo' : Consistent(k)'
  <2>1. Consistent(g)'
    BY <1>1, <1>2, <1>4, <1>9 DEF Consistent
  <2>2. Consistent(h)'
    BY <1>1, <1>2, <1>3, <1>5, <1>7, <1>9 DEF Consistent
  <2>3. \A k \in (Guids \ todo') \ {g, h} : Consistent(k)'
    <3> TAKE k \in (Guids \ todo') \ {g, h}
    <3>1. Consistent(k)
      BY LoadedItems
    <3> QED
      BY <1>2, <1>3, <1>9, <3>1 DEF Consistent
  <2> QED
    BY <2>1, <2>2, <2>3
<1>13. Chained'
  BY <1>2 DEF Inv, Queued, Chained
<1>14. AbsorbedInBag'
  <2>1. \A k \in absorbed : k # h /\ k \in Guids
    BY <1>4 DEF Inv, Queued, AbsorbedInBag, TypeOK
  <2> QED
    BY <1>1, <1>2, <1>4, <1>9, <2>1 DEF Inv, Queued, AbsorbedInBag
<1>15. GrownHaveRows'
  <2>1. \A k \in grown : k \in Guids
    BY DEF Inv, TypeOK
  <2> QED
    BY <1>1, <1>2, <1>3, <1>4, <1>7, <1>9, <1>10, <2>1 DEF Inv, Queued, GrownHaveRows
<1>16. \A k \in Guids : /\ items'[k] # Null <=> items[k] # Null
                        /\ items[k] # Null => items'[k].place = items[k].place
                                              /\ items'[k].entry = items[k].entry
  BY <1>4, <1>7, <1>9
<1>17. OnePerSlot'
  <2>1. At(items, "bag")' = At(items, "bag")
    BY <1>16 DEF At
  <2> QED
    BY <1>2, <1>16, <2>1 DEF Inv, OnePerSlot, SharedSlot
<1>18. /\ items' \in [Guids -> Items \cup {Null}] /\ absorbed' \subseteq Guids /\ grown' \subseteq Guids
       /\ pending' \in Seq(Operations) /\ views' \in Seq([Guids -> Rows \cup {Null}])
       /\ \A i \in 1..Len(pending') :
            pending'[i].pet # Null => \A k \in Guids : pending'[i].pet[k] >= 0
  BY <1>2, <1>3, <1>4, <1>7, <1>8 DEF Inv, TypeOK, NoDebts, Operations
<1> QED
  BY <1>1, <1>2, <1>11, <1>12, <1>13, <1>14, <1>15, <1>17, <1>18, LoadingKeeps

LEMMA LoadRefusesKeeps == ASSUME Inv, NEW g \in Guids, LoadRow(g), LoadRefuses(g) PROVE Inv'
<1> DEFINE ch == [h \in Guids |-> IF h = g THEN [kind |-> "delete"] ELSE Keep]
           op == [items |-> ch, pet |-> Null]
<1>1. /\ LoadFrame(g) /\ queue = {} /\ items[g] = Null /\ rows[g] \in Rows /\ rows[g] # Null
      /\ Last[g] = rows[g] /\ g \notin absorbed /\ g \notin grown
  BY LoadingFacts
<1>2. HandOver(op) /\ UNCHANGED <<items, absorbed, grown>> /\ queue' = queue
  BY <1>1 DEF LoadRefuses, observed, LoadFrame
<1>3. ch \in [Guids -> Changes] /\ op.items = ch /\ op.pet = Null
  BY DEF Changes, Keep
<1>4. op \in Operations
  BY <1>3 DEF Operations
<1> HIDE DEF op
<1>5. /\ pending' \in Seq(Operations) /\ views' \in Seq([Guids -> Rows \cup {Null}])
      /\ Chained' /\ Last' = Written(Last, ch)
      /\ Len(views') = Len(views) + 1
      /\ \A i \in 1..Len(views) : views'[i] = views[i]
      /\ \A i \in 1..Len(pending') :
           pending'[i].pet # Null => \A h \in Guids : pending'[i].pet[h] >= 0
      /\ UNCHANGED <<rows, petRow>>
  BY <1>2, <1>3, <1>4, HandOverDoes
<1>6. Last'[g] = Null /\ \A h \in Guids \ {g} : Last'[h] = Last[h]
  BY <1>5 DEF Written, Keep
<1>7. Len(views) \in 1..Len(views) /\ Len(views) \in Nat /\ views'[Len(views')] = Last'
      /\ views[Len(views)] = Last
  BY DEF Inv, TypeOK, Queued, Chained, Last
<1>8. \A h \in todo' : items'[h] = Null /\ h \notin absorbed'
                       /\ \A i \in 1..Len(views') : views'[i][h] = rows[h]
  <2> TAKE h \in todo'
  <2>1. h \in Guids /\ h # g /\ items[h] = Null /\ h \notin absorbed
        /\ \A i \in 1..Len(views) : views[i][h] = rows[h]
    BY <1>1, LoadedItems DEF LoadFrame, Inv, TypeOK
  <2>2. ASSUME NEW i \in 1..Len(views') PROVE views'[i][h] = rows[h]
    <3>1. CASE i = Len(views')
      BY <1>6, <1>7, <2>1, <3>1
    <3>2. CASE i # Len(views')
      <4>1. i \in 1..Len(views)
        BY <1>5, <1>7, <3>2
      <4> QED
        BY <1>5, <2>1, <4>1
    <3> QED
      BY <3>1, <3>2
  <2> QED
    BY <1>2, <2>1, <2>2
<1>9. \A h \in Guids \ todo' : Consistent(h)'
  <2>1. Consistent(g)'
    BY <1>1, <1>2, <1>6 DEF Consistent
  <2>2. \A h \in (Guids \ todo') \ {g} : Consistent(h)'
    <3> TAKE h \in (Guids \ todo') \ {g}
    <3>1. Consistent(h)
      BY LoadedItems
    <3> QED
      BY <1>2, <1>6, <3>1 DEF Consistent
  <2> QED
    BY <2>1, <2>2
<1>10. GrownHaveRows' /\ AbsorbedInBag'
  <2>1. grown \subseteq Guids \ {g} /\ absorbed \subseteq Guids \ {g}
    BY <1>1 DEF Inv, TypeOK
  <2>2. GrownHaveRows'
    BY <1>1, <1>2, <1>6, <2>1 DEF Inv, Queued, GrownHaveRows
  <2>3. AbsorbedInBag'
    BY <1>2, <1>6, <2>1 DEF Inv, Queued, AbsorbedInBag
  <2> QED
    BY <2>2, <2>3
<1>11. OnePerSlot'
  <2>1. ASSUME NEW i \in 1..Len(views'), NEW h \in Guids, NEW k \in Guids,
               views'[i][h] # Null, views'[i][k] # Null, h # k
        PROVE  ~SharedSlot(views'[i][h], views'[i][k])
    <3>1. CASE i = Len(views')
      <4>1. /\ h # g /\ k # g /\ views'[i][h] = views[Len(views)][h]
            /\ views'[i][k] = views[Len(views)][k]
        BY <1>6, <1>7, <2>1, <3>1
      <4> QED
        BY <1>7, <2>1, <4>1 DEF Inv, OnePerSlot
    <3>2. CASE i # Len(views')
      BY <1>5, <2>1, <3>2, NewViewFits
    <3> QED
      BY <3>1, <3>2
  <2> QED
    BY <1>2, <2>1 DEF Inv, OnePerSlot, At
<1>12. items' \in [Guids -> Items \cup {Null}] /\ absorbed' \subseteq Guids /\ grown' \subseteq Guids
  BY <1>2 DEF Inv, TypeOK
<1> QED
  BY <1>1, <1>5, <1>8, <1>9, <1>10, <1>11, <1>12, LoadingKeeps

-----------------------------------------------------------------------------
\* The theorems

LEMMA Initially == Init => Inv
<1> SUFFICES ASSUME Init PROVE Inv
  OBVIOUS
<1>1. rows \in [Guids -> Rows \cup {Null}] /\ \A g \in Guids : rows[g] = Null /\ items[g] = Null
  BY DEF Init
<1>2. /\ pending \in Seq(Operations) /\ Len(pending) = 0 /\ Len(views) = 1 /\ views[1] = rows
      /\ views \in Seq([Guids -> Rows \cup {Null}])
  BY <1>1 DEF Init
<1>3. TypeOK /\ NoDebts
  BY <1>1, <1>2 DEF Init, TypeOK, NoDebts, NoMods, Mods, Operations
<1>4. Queued
  BY <1>1, <1>2 DEF Init, Queued, Chained, Staged, Awaiting, GrownHaveRows, AbsorbedInBag,
                    EveryChangeIsQueued
<1>5. OnePerSlot
  <2>1. Cardinality(At(items, "bag")) <= BagSize
    BY <1>1, NothingFits
  <2> QED
    BY <1>1, <1>2, <2>1 DEF OnePerSlot
<1> QED
  BY <1>3, <1>4, <1>5 DEF Inv, Init, ModifiersHold

LEMMA StepsKeep == Inv /\ [Next]_vars => Inv'
<1> SUFFICES ASSUME Inv, [Next]_vars PROVE Inv'
  OBVIOUS
<1>1. CASE UNCHANGED vars
  <2>1. TypeOK' /\ NoDebts' /\ ModifiersHold'
    BY <1>1 DEF vars, memory, database, observed, Inv, TypeOK, NoDebts, ModifiersHold
  <2>2. Queued'
    BY <1>1 DEF vars, memory, database, observed, Inv, Queued, Chained, Staged, Awaiting,
                GrownHaveRows, AbsorbedInBag, EveryChangeIsQueued, Last
  <2>3. OnePerSlot'
    BY <1>1 DEF vars, memory, database, observed, Inv, OnePerSlot, At
  <2> QED
    BY <2>1, <2>2, <2>3 DEF Inv
<1>2. ASSUME NEW g \in Guids, NEW e \in Entries, NEW n \in 0..MaxAsked, AddNewInventoryItem(g, e, n)
      PROVE  Inv'
  BY <1>2, AddNewInventoryItemKeeps
<1>3. ASSUME NEW g \in Guids, NEW n \in 0..MaxAsked, Drop(g, n) PROVE Inv'
  BY <1>3, DropKeeps
<1>4. ASSUME NEW g \in Guids, NEW n \in 0..MaxAsked, Consume(g, n)
      PROVE  Inv'
  BY <1>4, ConsumeKeeps
<1>5. ASSUME NEW g \in Guids, Equip(g) \/ PetEquip(g) \/ Unequip(g) \/ PetUnequip(g) PROVE Inv'
  BY <1>5, EquipKeeps, PetEquipKeeps, UnequipKeeps, PetUnequipKeeps
<1>6. CASE PetChanges \/ Save \/ Logout \/ Write
  BY <1>6, PetChangesKeeps, SaveKeeps, LogoutKeeps, WriteKeeps
<1>7. CASE Crash \/ Login \/ FinishLoading \/ \E g \in Guids : SellNew(g)
  <2>1. (\E g \in Guids : SellNew(g)) => Crash
    BY DEF SellNew
  <2> QED
    BY <1>7, <2>1, CrashKeeps, LoginKeeps, FinishLoadingKeeps
<1>8. ASSUME NEW g \in Guids, LoadRow(g), LoadHolds(g) \/ LoadMerges(g) \/ LoadRefuses(g) PROVE Inv'
  BY <1>8, LoadHoldsKeeps, LoadMergesKeeps, LoadRefusesKeeps
<1> QED
  BY <1>1, <1>2, <1>3, <1>4, <1>5, <1>6, <1>7, <1>8 DEF Next

LEMMA InvHolds == Spec => []Inv
BY Initially, StepsKeep, PTL DEF Spec

-----------------------------------------------------------------------------
\* Stacks of equipment, and what putting on and taking off does to the goods

Fits(r) ==
  r # Null => /\ r.place \in Wearers => EquipSlot[r.entry] # None
              /\ EquipSlot[r.entry] # None => r.count <= Stackable[r.entry]

Stacked ==
  /\ \A g \in Guids : Fits(items[g])
  /\ \A i \in 1..Len(views) : \A g \in Guids : Fits(views[i][g])

LEMMA Residue == ASSUME NEW x \in Counts PROVE x % CountModulus = x
BY CountAssumption DEF Counts

LEMMA RemovedCounts ==
  ASSUME NEW m \in Memories, NEW g \in Guids, m.items[g] \in Items
  PROVE  \/ Removed(m, g).items[g] = Null
         \/ /\ Removed(m, g).items[g].count = m.items[g].count
            /\ Removed(m, g).items[g].entry = m.items[g].entry
<1>1. CASE m.items[g].state = "new"
  BY <1>1 DEF Removed, Memories
<1>2. CASE m.items[g].state # "new"
  <2> DEFINE x == [[m.items[g] EXCEPT !.state = "removed"] EXCEPT !.place = "none"]
  <2>1. Removed(m, g).items = [m.items EXCEPT ![g] = x]
    BY <1>2 DEF Removed, Memories, Items
  <2>2. x.count = m.items[g].count /\ x.entry = m.items[g].entry
    BY DEF Items
  <2> HIDE DEF x
  <2> QED
    BY <2>1, <2>2 DEF Memories
<1> QED
  BY <1>1, <1>2

LEMMA MovedCounts ==
  ASSUME NEW m \in Memories, NEW g \in Guids, m.items[g] \in Items, NEW p \in Places
  PROVE  Moved(m, g, p).items[g].count = m.items[g].count
<1> DEFINE k == [m EXCEPT !.items = [m.items EXCEPT ![g].place = p]]
<1>1. k \in Memories /\ k.items[g] = [m.items[g] EXCEPT !.place = p]
  BY PlacedDoes
<1>2. k.items[g] \in Items /\ k.items[g].count = m.items[g].count
  BY <1>1 DEF Items, Places
<1>3. Moved(m, g, p) = Changed(k, g)
  BY DEF Moved
<1> HIDE DEF k
<1>4. Changed(k, g).items[g] =
        [k.items[g] EXCEPT !.state = IF k.items[g].state = "new" THEN "new" ELSE "changed"]
  BY <1>1, <1>2, ChangedDoes
<1> QED
  BY <1>2, <1>3, <1>4 DEF Items

LEMMA StoreItemCounts ==
  ASSUME NEW m \in Memories, NEW g \in Guids, NEW into \in Guids, m.items[g] \in Items,
         into # g => m.items[into] \in Items /\ m.items[into].place = "bag",
         NEW n, n = StoreItem(m, g, into)
  PROVE  /\ n.items[into].count =
              IF into = g THEN m.items[g].count
              ELSE (m.items[into].count + m.items[g].count) % CountModulus
         /\ into # g => \/ n.items[g] = Null
                        \/ /\ n.items[g].count = m.items[g].count
                           /\ n.items[g].entry = m.items[g].entry
<1>1. CASE into = g
  <2>1. "bag" \in Places
    BY DEF Places
  <2> QED
    BY <1>1, <2>1, MovedCounts DEF StoreItem
<1>2. CASE into # g
  <2> DEFINE sum == (m.items[into].count + m.items[g].count) % CountModulus
             k == [m EXCEPT !.items = [m.items EXCEPT ![into].count = sum]]
             l == Removed(k, g)
  <2>1. sum \in Counts
    <3>1. m.items[into].count \in Counts /\ m.items[g].count \in Nat
      BY <1>2, CountAssumption DEF Items, Counts
    <3> QED
      BY <3>1, CountsAreModular
  <2>2. n = Changed(l, into)
    BY <1>2 DEF StoreItem, Merged, Memories
  <2>3. /\ k \in Memories /\ k.items[into] = [m.items[into] EXCEPT !.count = sum]
        /\ k.items[g] = m.items[g]
    BY <1>2, <2>1, CountedDoes
  <2> HIDE DEF k
  <2>4. /\ l \in Memories /\ Same(k, l, into)
        /\ \/ l.items[g] = Null
           \/ l.items[g].count = m.items[g].count /\ l.items[g].entry = m.items[g].entry
    BY <1>2, <2>3, RemovedDoes, RemovedCounts
  <2>5. l.items[into] \in Items /\ l.items[into].count = sum
    BY <1>2, <2>1, <2>3, <2>4 DEF Same, Items
  <2> HIDE DEF l
  <2>6. /\ n.items[into] =
             [l.items[into] EXCEPT !.state = IF l.items[into].state = "new" THEN "new" ELSE "changed"]
        /\ n.items[g] = l.items[g]
    BY <1>2, <2>2, <2>4, <2>5, ChangedDoes DEF Same
  <2> QED
    BY <1>2, <2>4, <2>5, <2>6 DEF Items
<1> QED
  BY <1>1, <1>2

\* A stack merged where CanStoreItem allows it fits its prototype.
LEMMA StoreItemFits ==
  ASSUME NEW m \in Memories, NEW g \in Guids, NEW into \in Guids, m.items[g] \in Items,
         into # g => /\ m.items[into] \in Items /\ m.items[into].place = "bag"
                     /\ m.items[into].entry = m.items[g].entry
                     /\ (m.items[into].count + m.items[g].count) % CountModulus
                          <= Stackable[m.items[g].entry],
         \A h \in Guids : Fits(m.items[h]), NEW n, n = StoreItem(m, g, into), NEW h \in Guids
  PROVE  Fits(n.items[h])
<1>1. /\ Kept(m, n, into) /\ n.items[into].place = "bag"
      /\ into # g => Gone(m, n, g)
      /\ \A k \in Guids \ {g, into} : Same(m, n, k)
  BY StoreItemDoes
<1>2. /\ n.items[into].count =
           IF into = g THEN m.items[g].count
           ELSE (m.items[into].count + m.items[g].count) % CountModulus
      /\ into # g => \/ n.items[g] = Null
                     \/ /\ n.items[g].count = m.items[g].count
                        /\ n.items[g].entry = m.items[g].entry
  BY StoreItemCounts
<1>3. Fits(m.items[g]) /\ m.items[g] # Null
  BY NullAssumption
<1>4. CASE h = into
  BY <1>1, <1>2, <1>3, <1>4 DEF Fits, Kept, Wearers
<1>5. CASE h = g /\ h # into
  BY <1>1, <1>2, <1>3, <1>5 DEF Fits, Gone, Wearers
<1>6. CASE h \notin {g, into}
  BY <1>1, <1>6 DEF Same
<1> QED
  BY <1>4, <1>5, <1>6

LEMMA CanStoreItemFits ==
  ASSUME NEW its, NEW g \in Guids, NEW e, NEW n, NEW into \in CanStoreItem(its, g, e, n), into # g
  PROVE  /\ into \in At(its, "bag") /\ its[into].entry = e
         /\ (its[into].count + n) % CountModulus <= Stackable[e]
<1>1. into \in Fitting(its, g, e, n)
  BY DEF CanStoreItem
<1> QED
  BY <1>1 DEF Fitting

LEMMA AddNewInventoryItemFits ==
  ASSUME Inv, Stacked, NEW g \in Guids, NEW e \in Entries, NEW n \in 0..MaxAsked,
         AddNewInventoryItem(g, e, n)
  PROVE  \A h \in Guids : Fits(items'[h])
<1> DEFINE created == [entry |-> e, count |-> CreatedCount(e, n), place |-> "none", state |-> "new"]
           m == [Memory EXCEPT !.items = [items EXCEPT ![g] = created]]
<1>1. PICK into \in CanStoreItem(items, g, e, created.count) : items' = StoreItem(m, g, into).items
  BY DEF AddNewInventoryItem, Remember
<1>2. created \in Items /\ Fits(created) /\ created.entry = e
  BY CountAssumption, PrototypeAssumption DEF Items, Counts, CreatedCount, Fits, Wearers
<1>3. /\ m \in Memories /\ m.items[g] = created /\ \A h \in Guids \ {g} : m.items[h] = items[h]
  <2> HIDE DEF created
  <2>1. m = [items |-> [items EXCEPT ![g] = created], queue |-> queue]
    BY DEF Memory
  <2> QED
    BY <1>2, <2>1 DEF Inv, TypeOK, Memories
<1> HIDE DEF m, created
<1>4. into \in Guids
  BY CanStoreItemFinds, <1>1 DEF At
<1>5. into # g => /\ m.items[into] \in Items /\ m.items[into].place = "bag"
                  /\ m.items[into].entry = e
                  /\ (m.items[into].count + created.count) % CountModulus <= Stackable[e]
  <2> HAVE into # g
  <2>1. /\ into \in At(items, "bag") /\ items[into].entry = e
        /\ (items[into].count + created.count) % CountModulus <= Stackable[e]
    BY <1>1, CanStoreItemFits
  <2> QED
    BY <1>3, <2>1 DEF At, Inv, TypeOK
<1>6. \A h \in Guids : Fits(m.items[h])
  BY <1>2, <1>3 DEF Stacked
<1> QED
  BY <1>1, <1>2, <1>3, <1>4, <1>5, <1>6, StoreItemFits

\* A stack something is taken from gets smaller, or can wrap only where a client
\* names the amount: equipment is not consumed.
LEMMA TakenFromFits ==
  ASSUME Inv, Stacked, NEW g \in Guids, NEW n \in Nat, g \in At(items, "bag"),
         n <= items[g].count \/ EquipSlot[items[g].entry] = None,
         Remember(TakenFrom(Memory, g, n))
  PROVE  \A h \in Guids : Fits(items'[h])
<1> DEFINE left == (items[g].count - n) % CountModulus
           k == [Memory EXCEPT !.items = [Memory.items EXCEPT ![g].count = left]]
<1>1. Memory \in Memories /\ Memory.items = items /\ items[g] \in Items
  BY MemoryIsOne DEF Memory, At, Inv, TypeOK
<1>2. items[g].count \in Counts /\ left \in Counts
  BY <1>1, CountsAreModular DEF Items
<1>3. /\ k \in Memories /\ k.items[g] = [items[g] EXCEPT !.count = left]
      /\ \A h \in Guids \ {g} : k.items[h] = items[h]
  BY <1>1, <1>2, CountedDoes
<1>4. TakenFrom(Memory, g, n) = IF left = 0 THEN Removed(k, g) ELSE Changed(k, g)
  BY <1>1 DEF TakenFrom
<1>5. EquipSlot[items[g].entry] # None => left <= items[g].count
  <2> HAVE EquipSlot[items[g].entry] # None
  <2>1. items[g].count - n \in Counts /\ items[g].count - n <= items[g].count
    BY <1>2, CountAssumption DEF Counts
  <2> QED
    BY <2>1, Residue
<1>6. items[g].place = "bag" /\ items[g] # Null /\ Fits(items[g])
  BY DEF At, Stacked
<1> HIDE DEF left, k
<1>7. /\ k.items[g] \in Items /\ k.items[g].count = left /\ k.items[g].entry = items[g].entry
      /\ k.items[g].place = "bag"
  BY <1>1, <1>2, <1>3, <1>6 DEF Items
<1>8. EquipSlot[items[g].entry] # None => left <= Stackable[items[g].entry]
  BY <1>1, <1>2, <1>5, <1>6, CountAssumption, PrototypeAssumption DEF Fits, Items, Counts
<1>9. CASE left = 0
  <2>1. items' = Removed(k, g).items
    BY <1>4, <1>9 DEF Remember
  <2>2. /\ Gone(k, Removed(k, g), g) /\ \A h \in Guids \ {g} : Same(k, Removed(k, g), h)
        /\ \/ Removed(k, g).items[g] = Null
           \/ /\ Removed(k, g).items[g].count = left
              /\ Removed(k, g).items[g].entry = items[g].entry
    BY <1>3, <1>7, RemovedDoes, RemovedCounts
  <2>3. Fits(items'[g])
    BY <1>8, <2>1, <2>2 DEF Fits, Gone, Wearers
  <2> QED
    BY <1>3, <2>1, <2>2, <2>3 DEF Same, Stacked
<1>10. CASE left # 0
  <2>1. items' = Changed(k, g).items
    BY <1>4, <1>10 DEF Remember
  <2>2. /\ Changed(k, g).items[g] =
             [k.items[g] EXCEPT !.state = IF k.items[g].state = "new" THEN "new" ELSE "changed"]
        /\ \A h \in Guids \ {g} : Same(k, Changed(k, g), h)
    BY <1>3, <1>7, ChangedDoes
  <2>3. /\ items'[g].count = left /\ items'[g].entry = items[g].entry /\ items'[g].place = "bag"
    BY <1>7, <2>1, <2>2 DEF Items
  <2>4. Fits(items'[g])
    BY <1>8, <2>3 DEF Fits, Wearers
  <2> QED
    BY <1>3, <2>1, <2>2, <2>4 DEF Same, Stacked
<1> QED
  BY <1>9, <1>10

\* What an item is taken off into, and that this changes no other.
LEMMA TakeOffCounts ==
  ASSUME Inv, Stacked, NEW g \in Guids, NEW w \in Wearers, TakeOff(g, w)
  PROVE  /\ \A h \in Guids : Fits(items'[h])
         /\ items[g] \in Items /\ items[g].place = w
         /\ \E into \in Guids :
              /\ \A h \in Guids \ {g, into} : items'[h] = items[h]
              /\ items'[into] \in Items /\ items'[into].place = "bag"
              /\ items'[into].entry = items[g].entry
              /\ into = g => items'[g].count = items[g].count
              /\ into # g => /\ items'[g] = Null \/ items'[g].place = "none"
                             /\ items[into] \in Items /\ items[into].place = "bag"
                             /\ items[into].entry = items[g].entry
                             /\ items'[into].count = items[into].count + items[g].count
<1>1. PICK into \in CanStoreItem(items, g, items[g].entry, items[g].count) :
        Remember(StoreItem(Memory, g, into))
  BY DEF TakeOff
<1>2. /\ items[g] \in Items /\ items[g].place = w /\ items[g] # Null /\ Fits(items[g])
      /\ items[g].count \in Counts
  BY DEF TakeOff, At, Inv, TypeOK, Wearers, Stacked, Items
<1>3. Memory \in Memories /\ Memory.items = items
  BY MemoryIsOne DEF Memory
<1>4. into \in Guids
  BY CanStoreItemFinds, <1>1 DEF At
<1>5. into # g => /\ items[into] \in Items /\ items[into].place = "bag"
                  /\ items[into].entry = items[g].entry /\ Fits(items[into])
                  /\ (items[into].count + items[g].count) % CountModulus
                       <= Stackable[items[g].entry]
  <2> HAVE into # g
  <2>1. /\ into \in At(items, "bag") /\ items[into].entry = items[g].entry
        /\ (items[into].count + items[g].count) % CountModulus <= Stackable[items[g].entry]
    BY <1>1, CanStoreItemFits
  <2> QED
    BY <1>4, <2>1 DEF At, Inv, TypeOK, Stacked
<1> DEFINE s == StoreItem(Memory, g, into)
<1>6. items' = s.items /\ \A h \in Guids : Fits(s.items[h])
  BY <1>1, <1>2, <1>3, <1>4, <1>5, StoreItemFits DEF Remember, Stacked
<1>7. /\ Kept(Memory, s, into) /\ s.items[into].place = "bag"
      /\ into # g => Gone(Memory, s, g)
      /\ \A h \in Guids \ {g, into} : Same(Memory, s, h)
  BY <1>2, <1>3, <1>4, <1>5, StoreItemDoes
<1>8. s.items[into].count = IF into = g THEN items[g].count
                            ELSE (items[into].count + items[g].count) % CountModulus
  BY <1>2, <1>3, <1>4, <1>5, StoreItemCounts
<1> HIDE DEF s
<1>9. into # g => items'[into].count = items[into].count + items[g].count
  <2> HAVE into # g
  <2>1. EquipSlot[items[g].entry] # None /\ items[g].entry \in Entries
    BY <1>2 DEF Fits, Items
  <2>2. /\ items[into].count \in Counts
        /\ items[into].count <= Stackable[items[g].entry]
        /\ items[g].count <= Stackable[items[g].entry]
    BY <1>2, <1>5, <2>1, NullAssumption DEF Fits, Items
  <2>3. items[into].count + items[g].count \in Counts
    <3>1. Stackable[items[g].entry] \in Nat
      BY <2>1, PrototypeAssumption, CountAssumption
    <3>2. Stackable[items[g].entry] + Stackable[items[g].entry] < CountModulus
      BY <2>1, StackAssumption
    <3> QED
      BY <1>2, <2>2, <3>1, <3>2, CountAssumption DEF Counts
  <2> QED
    BY <1>6, <1>8, <2>3, Residue
<1>10. items'[into].entry = items[g].entry
  BY <1>3, <1>5, <1>6, <1>7 DEF Kept
<1> QED
  BY <1>2, <1>3, <1>4, <1>5, <1>6, <1>7, <1>8, <1>9, <1>10 DEF Kept, Gone, Same

\* Whatever is moved keeps its count.
LEMMA PutOnCounts ==
  ASSUME Inv, Stacked, NEW g \in Guids, NEW w \in Wearers, PutOn(g, w), NEW h \in Guids
  PROVE  /\ items[h] = Null => items'[h] = Null
         /\ items[h] # Null => /\ items'[h] \in Items /\ items'[h].entry = items[h].entry
                               /\ items'[h].count = items[h].count
                               /\ items'[h].place # "none" <=> items[h].place # "none"
         /\ Fits(items'[h])
<1> DEFINE gone == WornInstead(g, w)
           d == Displaced(Memory, gone)
           s == Moved(d, g, w)
<1>1. Memory \in Memories /\ Memory.items = items
  BY MemoryIsOne DEF Memory
<1>2. /\ items[g] \in Items /\ items[g].place = "bag" /\ items[g] # Null /\ w \in Places
      /\ EquipSlot[items[g].entry] # None
  BY DEF PutOn, At, Inv, TypeOK, Wearers, Places
<1>3. /\ gone \in SUBSET Guids /\ g \notin gone
      /\ \A k \in gone : items[k] \in Items /\ items[k].place = w /\ items[k] # Null
  BY <1>2 DEF WornInstead, At, Inv, TypeOK, Wearers
<1>4. items' = s.items
  BY DEF PutOn, Remember
<1> HIDE DEF gone
<1>5. /\ d \in Memories
      /\ \A k \in gone : Kept(Memory, d, k) /\ d.items[k].place = "bag"
      /\ \A k \in Guids \ gone : Same(Memory, d, k)
  BY <1>1, <1>3, DisplacedDoes
<1>6. \A k \in gone : d.items[k].count = items[k].count
  <2> TAKE k \in gone
  <2>1. d.items[k] = Moved(Memory, k, "bag").items[k]
    BY <1>3 DEF Displaced
  <2>2. k \in Guids /\ "bag" \in Places /\ Memory.items[k] \in Items
    BY <1>1, <1>3 DEF Places
  <2>3. Moved(Memory, k, "bag").items[k].count = Memory.items[k].count
    BY <1>1, <2>2, MovedCounts
  <2> QED
    BY <1>1, <2>1, <2>3
<1> HIDE DEF d
<1>7. d.items[g] = items[g]
  BY <1>1, <1>3, <1>5 DEF Same
<1>8. /\ Kept(d, s, g) /\ s.items[g].place = w /\ s.items[g].count = items[g].count
      /\ \A k \in Guids \ {g} : Same(d, s, k)
  BY <1>2, <1>5, <1>7, MovedDoes, MovedCounts
<1> HIDE DEF s
<1>9. Fits(items[h])
  BY DEF Stacked
<1>10. CASE h = g
  <2>1. /\ items'[h] \in Items /\ items'[h].entry = items[h].entry /\ items'[h].place = w
        /\ items'[h].count = items[h].count
    BY <1>4, <1>7, <1>8, <1>10 DEF Kept
  <2> QED
    BY <1>2, <1>9, <1>10, <2>1 DEF Fits, Wearers
<1>11. CASE h \in gone
  <2>1. /\ items'[h] \in Items /\ items'[h].entry = items[h].entry /\ items'[h].place = "bag"
        /\ items'[h].count = items[h].count
    BY <1>1, <1>3, <1>4, <1>5, <1>6, <1>8, <1>11 DEF Kept, Same
  <2> QED
    BY <1>3, <1>9, <1>11, <2>1 DEF Fits, Wearers
<1>12. CASE h \notin gone \cup {g}
  <2>1. items'[h] = items[h]
    BY <1>1, <1>4, <1>5, <1>8, <1>12 DEF Same
  <2> QED
    BY <1>9, <2>1 DEF Inv, TypeOK
<1> QED
  BY <1>10, <1>11, <1>12

\* Rows are handed over as the items are.
LEMMA HandOverFits ==
  ASSUME Inv, Stacked, NEW op, HandOver(op), NEW g \in Guids,
         op.items[g].kind \in {"insert", "update"} => Fits(op.items[g].row)
  PROVE  \A i \in 1..Len(views') : Fits(views'[i][g])
<1>1. /\ views \in Seq([Guids -> Rows \cup {Null}]) /\ Len(views) \in 1..Len(views)
      /\ views' = Append(views, Written(views[Len(views)], op.items))
  BY DEF HandOver, Inv, TypeOK, Queued, Chained
<1>2. ASSUME NEW i \in 1..Len(views'), i # Len(views') PROVE Fits(views'[i][g])
  <2>1. i \in 1..Len(views) /\ views'[i] = views[i]
    BY <1>1, <1>2
  <2> QED
    BY <2>1 DEF Stacked
<1>3. views'[Len(views')] = Written(views[Len(views)], op.items)
  BY <1>1
<1>4. Fits(Null)
  BY DEF Fits
<1>5. Fits(Written(views[Len(views)], op.items)[g])
  <2>1. Fits(views[Len(views)][g])
    BY <1>1 DEF Stacked
  <2> QED
    BY <1>4, <2>1 DEF Written
<1> QED
  BY <1>2, <1>3, <1>5

LEMMA SaveToDBFits ==
  ASSUME Inv, Stacked, SaveToDB
  PROVE  \A i \in 1..Len(views') : \A g \in Guids : Fits(views'[i][g])
<1> SUFFICES ASSUME NEW g \in Guids PROVE \A i \in 1..Len(views') : Fits(views'[i][g])
  OBVIOUS
<1> DEFINE op == [items |-> [h \in Guids |-> ChangeOf(h)],
                  pet |-> IF petState = "changed" THEN petMods ELSE Null]
<1>1. HandOver(op) /\ op.items[g] = ChangeOf(g)
  BY DEF SaveToDB
<1> HIDE DEF op
<1>2. ASSUME ChangeOf(g).kind \in {"insert", "update"} PROVE Fits(ChangeOf(g).row)
  <2>1. items[g] \in Items /\ ChangeOf(g).row = RowOf(items[g]) /\ items[g] # Null
    BY <1>2 DEF ChangeOf, Keep, Inv, TypeOK
  <2>2. Fits(items[g])
    BY DEF Stacked
  <2> QED
    BY <2>1, <2>2 DEF Fits, RowOf
<1> QED
  BY <1>1, <1>2, HandOverFits

LEMMA LoadRowFits ==
  ASSUME Inv, Stacked, NEW g \in Guids, LoadRow(g), LoadHolds(g) \/ LoadMerges(g) \/ LoadRefuses(g)
  PROVE  Stacked'
<1>1. rows[g] \in Rows /\ rows[g] # Null /\ Fits(rows[g])
  <2>1. rows = views[1] /\ 1 \in 1..Len(views)
    BY DEF Inv, TypeOK, Queued, Chained
  <2> QED
    BY <2>1, LoadingFacts DEF Stacked
<1>2. CASE LoadHolds(g)
  <2>1. views' = views /\ items' = [items EXCEPT ![g] = Loaded(g)]
    BY <1>2 DEF LoadHolds, database
  <2>2. Fits(Loaded(g))
    BY <1>1 DEF Fits, Loaded
  <2> QED
    BY <2>1, <2>2 DEF Stacked, Inv, TypeOK
<1>3. CASE LoadMerges(g)
  <2>1. PICK h \in CanStoreItem(items, g, rows[g].entry, rows[g].count) \ {g} :
          items' = Merged(items, h, rows[g].count)
    BY <1>3 DEF LoadMerges
  <2>2. /\ h \in At(items, "bag") /\ items[h].entry = rows[g].entry
        /\ (items[h].count + rows[g].count) % CountModulus <= Stackable[rows[g].entry]
    BY <2>1, CanStoreItemFits
  <2>3. h \in Guids /\ items[h] \in Items /\ items[h].place = "bag"
    BY <2>2 DEF At, Inv, TypeOK
  <2> DEFINE x == [items[h] EXCEPT !.count = (@ + rows[g].count) % CountModulus]
  <2>4. items' = [items EXCEPT ![h] = x]
    BY <2>1 DEF Merged
  <2>5. Fits(x)
    BY <2>2, <2>3 DEF Fits, Items, Wearers
  <2> HIDE DEF x
  <2>6. views' = views
    BY <1>3 DEF LoadMerges, database
  <2> QED
    BY <2>4, <2>5, <2>6 DEF Stacked, Inv, TypeOK
<1>4. CASE LoadRefuses(g)
  <2> DEFINE op == [items |-> [h \in Guids |-> IF h = g THEN [kind |-> "delete"] ELSE Keep],
                    pet |-> Null]
  <2>1. HandOver(op) /\ items' = items
    BY <1>4 DEF LoadRefuses
  <2>2. \A h \in Guids : op.items[h].kind \notin {"insert", "update"}
    BY DEF Keep
  <2> HIDE DEF op
  <2> QED
    BY <2>1, <2>2, HandOverFits DEF Stacked
<1> QED
  BY <1>2, <1>3, <1>4

LEMMA StackedStep == Inv /\ Stacked /\ [Next]_vars => Stacked'
<1> SUFFICES ASSUME Inv, Stacked, [Next]_vars PROVE Stacked'
  OBVIOUS
<1> DEFINE ItemsFit == \A g \in Guids : Fits(items'[g])
           ViewsFitToo == \A i \in 1..Len(views') : \A g \in Guids : Fits(views'[i][g])
<1>1. ASSUME UNCHANGED <<items, views>> PROVE Stacked'
  BY <1>1 DEF Stacked
<1>2. ASSUME UNCHANGED views, ItemsFit PROVE Stacked'
  BY <1>2 DEF Stacked
<1>3. ASSUME NEW g \in Guids, NEW e \in Entries, NEW n \in 0..MaxAsked, AddNewInventoryItem(g, e, n)
      PROVE  Stacked'
  BY <1>2, <1>3, AddNewInventoryItemFits DEF AddNewInventoryItem, Playing, database
<1>4. ASSUME NEW g \in Guids, NEW n \in 0..MaxAsked,
             Drop(g, n) \/ Consume(g, n)
      PROVE  Stacked'
  <2>1. n \in Nat
    BY CountAssumption
  <2>2. /\ g \in At(items, "bag") /\ Remember(TakenFrom(Memory, g, n)) /\ UNCHANGED views
        /\ n <= items[g].count \/ EquipSlot[items[g].entry] = None
    BY <1>4 DEF Drop, Consume, Playing, database
  <2> QED
    BY <1>2, <2>1, <2>2, TakenFromFits
<1>5. ASSUME NEW g \in Guids, Equip(g) \/ PetEquip(g) \/ Unequip(g) \/ PetUnequip(g) PROVE Stacked'
  <2>1. UNCHANGED views /\ \E w \in Wearers : PutOn(g, w) \/ TakeOff(g, w)
    BY <1>5 DEF Equip, PetEquip, Unequip, PetUnequip, Playing, database, Wearers
  <2> QED
    BY <1>2, <2>1, PutOnCounts, TakeOffCounts
<1>6. CASE Save
  <2>1. ItemsFit
    <3> SUFFICES ASSUME NEW g \in Guids PROVE Fits(items'[g])
      OBVIOUS
    <3>1. Fits(items[g]) /\ items[g] \in Items \cup {Null} /\ Fits(Null)
      BY DEF Stacked, Inv, TypeOK, Fits
    <3>2. items'[g] \in {items[g], Null, [items[g] EXCEPT !.state = "unchanged"]}
      BY <1>6 DEF Save
    <3>3. CASE items[g] \in Items /\ items'[g] = [items[g] EXCEPT !.state = "unchanged"]
      BY <3>1, <3>3, NullAssumption DEF Fits, Items
    <3>4. CASE items[g] = Null
      BY <1>6, <3>1, <3>4 DEF Save
    <3> QED
      BY <3>1, <3>2, <3>3, <3>4
  <2> QED
    BY <1>6, <2>1, SaveToDBFits DEF Save, Stacked
<1>7. ASSUME Forget PROVE ItemsFit
  BY <1>7 DEF Forget, Fits
<1>8. CASE Logout
  BY <1>7, <1>8, SaveToDBFits DEF Logout, Stacked
<1>9. CASE Crash \/ \E g \in Guids : SellNew(g)
  <2>1. Crash
    BY <1>9 DEF SellNew
  <2>2. rows = views[1] /\ 1 \in 1..Len(views)
    BY DEF Inv, TypeOK, Queued, Chained
  <2>3. views' = <<rows>>
    BY <2>1 DEF Crash
  <2> QED
    BY <1>7, <2>1, <2>2, <2>3 DEF Crash, Stacked
<1>10. CASE Write
  <2>1. items' = items /\ views' = Tail(views)
    BY <1>10 DEF Write, memory
  <2>2. views \in Seq([Guids -> Rows \cup {Null}]) /\ Len(views) >= 1
    BY DEF Inv, TypeOK, Queued, Chained
  <2>3. \A i \in 1..Len(views') : i + 1 \in 1..Len(views) /\ views'[i] = views[i + 1]
    BY <2>1, <2>2
  <2> QED
    BY <2>1, <2>3 DEF Stacked
<1>11. CASE PetChanges \/ Login \/ FinishLoading \/ UNCHANGED vars
  BY <1>1, <1>11 DEF PetChanges, Login, FinishLoading, vars, memory, database, Playing
<1> QED
  BY <1>3, <1>4, <1>5, <1>6, <1>8, <1>9, <1>10, <1>11, LoadRowFits DEF Next

LEMMA StackedHolds == Spec => []Stacked
<1>1. Init => Stacked
  <2> SUFFICES ASSUME Init PROVE Stacked
    OBVIOUS
  <2>1. \A g \in Guids : items[g] = Null /\ rows[g] = Null
    BY DEF Init
  <2>2. Len(views) = 1 /\ views[1] = rows
    BY DEF Init
  <2> QED
    BY <2>1, <2>2 DEF Stacked, Fits
<1> QED
  BY <1>1, InvHolds, StackedStep, PTL DEF Spec

-----------------------------------------------------------------------------
\* Goods, piece by piece

Holds(its, e, g) == its[g] # Null /\ its[g].entry = e /\ its[g].place \in Places

LEMMA HeldPieces ==
  ASSUME NEW its, NEW e
  PROVE  /\ Held(its, e) = Cardinality(Pieces(its, e, Places))
         /\ \A g \in Guids : \A i : <<g, i>> \in Pieces(its, e, Places) <=>
              Holds(its, e, g) /\ i \in 1..its[g].count
         /\ \A x \in Pieces(its, e, Places) :
              \E g \in Guids : \E i \in 1..its[g].count : Holds(its, e, g) /\ x = <<g, i>>
BY DEF Held, Pieces, Holds, Places

LEMMA FinitelyManyPieces ==
  ASSUME NEW its \in [Guids -> Items \cup {Null}], NEW e
  PROVE  IsFiniteSet(Pieces(its, e, Places))
<1>1. IsFiniteSet(Guids \X (1..CountModulus))
  <2>1. 1 \in Int /\ CountModulus \in Int
    BY CountAssumption
  <2>2. IsFiniteSet(1..CountModulus)
    BY <2>1, FS_Interval
  <2> QED
    BY <2>2, BagAssumption, FS_Product
<1>2. Pieces(its, e, Places) \subseteq Guids \X (1..CountModulus)
  <2> SUFFICES ASSUME NEW x \in Pieces(its, e, Places) PROVE x \in Guids \X (1..CountModulus)
    OBVIOUS
  <2>1. PICK g \in Guids : \E i \in 1..its[g].count : Holds(its, e, g) /\ x = <<g, i>>
    BY HeldPieces
  <2>2. its[g].count \in 0..(CountModulus - 1)
    BY <2>1 DEF Holds, Items, Counts
  <2>3. \A i \in 1..its[g].count : i \in 1..CountModulus
    BY <2>2, CountAssumption
  <2> QED
    BY <2>1, <2>3
<1> QED
  BY <1>1, <1>2, FS_Subset

\* Moved about, the goods are the same pieces.
LEMMA SamePieces ==
  ASSUME NEW its, NEW jts, NEW e,
         \A g \in Guids : Holds(its, e, g) <=> Holds(jts, e, g),
         \A g \in Guids : Holds(its, e, g) => its[g].count = jts[g].count
  PROVE  Held(jts, e) = Held(its, e)
<1>1. {h \in Guids : its[h] # Null /\ its[h].entry = e /\ its[h].place \in Places}
        = {h \in Guids : jts[h] # Null /\ jts[h].entry = e /\ jts[h].place \in Places}
  BY DEF Holds
<1>2. Pieces(its, e, Places) = Pieces(jts, e, Places)
  BY <1>1 DEF Pieces, Holds
<1> QED
  BY <1>2, HeldPieces

\* Merged, the pieces of one stack come after those of the other.
LEMMA MergedPieces ==
  ASSUME NEW its \in [Guids -> Items \cup {Null}], NEW jts, NEW e,
         NEW g \in Guids, NEW h \in Guids \ {g},
         Holds(its, e, g), Holds(its, e, h), Holds(jts, e, h), ~Holds(jts, e, g),
         jts[h].count = its[h].count + its[g].count,
         \A k \in Guids \ {g, h} : jts[k] = its[k]
  PROVE  Held(jts, e) = Held(its, e)
<1>1. its[g].count \in Nat /\ its[h].count \in Nat
  BY CountAssumption DEF Holds, Items, Counts
<1> DEFINE S == Pieces(its, e, Places)
           T == Pieces(jts, e, Places)
           To(x) == IF x[1] = g THEN <<h, its[h].count + x[2]>> ELSE x
           f == [x \in S |-> To(x)]
<1>2. \A x \in S : \E k \in Guids, i \in Nat :
        Holds(its, e, k) /\ i \in 1..its[k].count /\ x = <<k, i>>
  <2> TAKE x \in S
  <2>1. PICK k \in Guids : \E i \in 1..its[k].count : Holds(its, e, k) /\ x = <<k, i>>
    BY HeldPieces
  <2>2. its[k].count \in Nat
    BY <2>1, CountAssumption DEF Holds, Items, Counts
  <2> QED
    BY <2>1, <2>2
<1>3. ASSUME NEW x \in S PROVE To(x) \in T
  <2>1. PICK k \in Guids, i \in Nat : Holds(its, e, k) /\ i \in 1..its[k].count /\ x = <<k, i>>
    BY <1>2, <1>3
  <2>2. CASE k = g
    <3>1. To(x) = <<h, its[h].count + i>> /\ its[h].count + i \in 1..jts[h].count
      BY <1>1, <2>1, <2>2
    <3> QED
      BY <3>1, HeldPieces
  <2>3. CASE k = h
    <3>1. To(x) = <<h, i>> /\ i \in 1..jts[h].count
      BY <1>1, <2>1, <2>3
    <3> QED
      BY <3>1, HeldPieces
  <2>4. CASE k \notin {g, h}
    <3>1. To(x) = <<k, i>> /\ i \in 1..jts[k].count /\ Holds(jts, e, k)
      BY <2>1, <2>4 DEF Holds
    <3> QED
      BY <3>1, HeldPieces
  <2> QED
    BY <2>2, <2>3, <2>4
<1>4. ASSUME NEW x \in S, NEW y \in S, To(x) = To(y) PROVE x = y
  <2>1. PICK k \in Guids, i \in Nat : i \in 1..its[k].count /\ x = <<k, i>>
    BY <1>2, <1>4
  <2>2. PICK l \in Guids, j \in Nat : j \in 1..its[l].count /\ y = <<l, j>>
    BY <1>2, <1>4
  <2> QED
    BY <1>1, <1>4, <2>1, <2>2
<1>5. ASSUME NEW y \in T PROVE \E x \in S : To(x) = y
  <2>1. PICK k \in Guids : \E i \in 1..jts[k].count : Holds(jts, e, k) /\ y = <<k, i>>
    BY <1>5, HeldPieces
  <2>2. PICK i \in 1..jts[k].count : Holds(jts, e, k) /\ y = <<k, i>>
    BY <2>1
  <2>3. k # g
    BY <2>2
  <2>4. CASE k = h /\ i > its[h].count
    <3>1. i - its[h].count \in 1..its[g].count
      BY <1>1, <2>2, <2>4
    <3>2. <<g, i - its[h].count>> \in S
      BY <3>1, HeldPieces
    <3>3. To(<<g, i - its[h].count>>) = y
      BY <1>1, <2>2, <2>4
    <3> QED
      BY <3>2, <3>3
  <2>5. CASE ~(k = h /\ i > its[h].count)
    <3>1. Holds(its, e, k) /\ i \in 1..its[k].count
      BY <1>1, <2>2, <2>3, <2>5 DEF Holds
    <3>2. y \in S
      BY <2>2, <3>1, HeldPieces
    <3> QED
      BY <2>2, <2>3, <3>2
  <2> QED
    BY <2>4, <2>5
<1>6. f \in Bijection(S, T)
  <2> HIDE DEF To, S, T
  <2>1. f \in [S -> T]
    BY <1>3
  <2>2. \A x, y \in S : f[x] = f[y] => x = y
    BY <1>4
  <2>3. \A y \in T : \E x \in S : f[x] = y
    BY <1>5
  <2> HIDE DEF f
  <2> QED
    BY <2>1, <2>2, <2>3, Fun_IsBij
<1>7. IsFiniteSet(S)
  BY FinitelyManyPieces
<1>8. Cardinality(T) = Cardinality(S)
  <2> HIDE DEF f, S, T
  <2>1. ExistsBijection(S, T)
    BY <1>6 DEF ExistsBijection
  <2> QED
    BY <1>7, <2>1, FS_Bijection
<1> QED
  BY <1>8, HeldPieces

\* Items, rows, modifiers and operations keep their types; above all a row
\* that is written has a place and a count that fits its column.
THEOREM TypesAreKept == Spec => []TypeOK
<1>1. Inv => TypeOK
  BY DEF Inv
<1> QED
  BY <1>1, InvHolds, PTL

\* For any items and amounts, and however many saves wait to be written: the
\* update queue covers every difference between what the player holds and
\* the rows there are going to be, but for the stacks merged by a login.
THEOREM ChangesAreQueued == Spec => []EveryChangeIsQueued
<1>1. Inv => EveryChangeIsQueued
  BY DEF Inv, Queued
<1> QED
  BY <1>1, InvHolds, PTL

\* The modifiers are those of what is worn: exactly for the player, at least
\* for the pet.
THEOREM ModifiersAreHeld == Spec => []ModifiersHold
<1>1. Inv => ModifiersHold
  BY DEF Inv
<1> QED
  BY <1>1, InvHolds, PTL

\* One item per slot in memory and in the rows, now and after each operation
\* still to be written, and no more items in the bag than it has slots.
THEOREM SlotsAreKept == Spec => []OnePerSlot
<1>1. Inv => OnePerSlot
  BY DEF Inv
<1> QED
  BY <1>1, InvHolds, PTL

\* Putting on, exchanging and taking off - also into a stack of the same kind -
\* leaves the player and its pet as many pieces of everything as before, for any
\* prototypes of which two stacks do not wrap a uint32.
THEOREM GoodsAreMoved == Spec => GoodsMove
<1>1. ASSUME Inv, Stacked, [Next]_vars
      PROVE  [stage = "playing" /\ stage' = "playing" /\ <<selfMods, petMods>>' # <<selfMods, petMods>> =>
                \A e \in Entries : Held(items', e) = Held(items, e)]_vars
  <2> SUFFICES ASSUME Next, stage = "playing", stage' = "playing",
                      <<selfMods, petMods>>' # <<selfMods, petMods>>, NEW e \in Entries
               PROVE  Held(items', e) = Held(items, e)
    BY <1>1
  <2>1. PICK g \in Guids, w \in Wearers : PutOn(g, w) \/ TakeOff(g, w)
    BY DEF Next, AddNewInventoryItem, Drop, Consume, Equip, PetEquip, Unequip, PetUnequip,
           PetChanges, Save, Logout, Forget, Write, Crash, SellNew, Login, LoadRow, FinishLoading,
           Quiet, Wearers
  <2>2. ASSUME PutOn(g, w) PROVE Held(items', e) = Held(items, e)
    <3>1. \A h \in Guids : /\ Holds(items, e, h) <=> Holds(items', e, h)
                           /\ Holds(items, e, h) => items[h].count = items'[h].count
      <4> TAKE h \in Guids
      <4>1. /\ items[h] = Null => items'[h] = Null
            /\ items[h] # Null => /\ items'[h] \in Items /\ items'[h].entry = items[h].entry
                                  /\ items'[h].count = items[h].count
                                  /\ items'[h].place # "none" <=> items[h].place # "none"
        BY <1>1, <2>2, PutOnCounts
      <4>2. items[h] \in Items \cup {Null} /\ \A i \in Items : i # Null /\ (i.place \in Places <=> i.place # "none")
        BY <1>1, NullAssumption DEF Inv, TypeOK, Items, Places
      <4> QED
        BY <4>1, <4>2 DEF Holds
    <3> QED
      BY <3>1, SamePieces
  <2>3. ASSUME TakeOff(g, w) PROVE Held(items', e) = Held(items, e)
    <3>1. /\ items[g] \in Items /\ items[g].place = w
          /\ \E into \in Guids :
               /\ \A h \in Guids \ {g, into} : items'[h] = items[h]
               /\ items'[into] \in Items /\ items'[into].place = "bag"
               /\ items'[into].entry = items[g].entry
               /\ into = g => items'[g].count = items[g].count
               /\ into # g => /\ items'[g] = Null \/ items'[g].place = "none"
                              /\ items[into] \in Items /\ items[into].place = "bag"
                              /\ items[into].entry = items[g].entry
                              /\ items'[into].count = items[into].count + items[g].count
      BY <1>1, <2>3, TakeOffCounts
    <3>2. PICK into \in Guids :
            /\ \A h \in Guids \ {g, into} : items'[h] = items[h]
            /\ items'[into] \in Items /\ items'[into].place = "bag"
            /\ items'[into].entry = items[g].entry
            /\ into = g => items'[g].count = items[g].count
            /\ into # g => /\ items'[g] = Null \/ items'[g].place = "none"
                           /\ items[into] \in Items /\ items[into].place = "bag"
                           /\ items[into].entry = items[g].entry
                           /\ items'[into].count = items[into].count + items[g].count
      BY <3>1
    <3>3. "bag" \in Places /\ w \in Places /\ "none" \notin Places
      BY DEF Wearers, Places
    <3>4. CASE into # g /\ e = items[g].entry
      <4>1. /\ Holds(items, e, g) /\ Holds(items, e, into) /\ Holds(items', e, into)
            /\ ~Holds(items', e, g)
        BY <3>1, <3>2, <3>3, <3>4, NullAssumption DEF Holds
      <4>2. items \in [Guids -> Items \cup {Null}] /\ into \in Guids \ {g}
        BY <1>1, <3>4 DEF Inv, TypeOK
      <4>3. /\ items'[into].count = items[into].count + items[g].count
            /\ \A k \in Guids \ {g, into} : items'[k] = items[k]
        BY <3>2, <3>4
      <4> QED
        BY <4>1, <4>2, <4>3, MergedPieces
    <3>5. CASE ~(into # g /\ e = items[g].entry)
      <4>1. \A h \in Guids : /\ Holds(items, e, h) <=> Holds(items', e, h)
                             /\ Holds(items, e, h) => items[h].count = items'[h].count
        <5> TAKE h \in Guids
        <5>1. CASE h \notin {g, into}
          BY <3>2, <5>1 DEF Holds
        <5>2. CASE into = g /\ h = g
          BY <3>1, <3>2, <3>3, <5>2, NullAssumption DEF Holds
        <5>3. CASE into # g /\ h \in {g, into}
          <6>1. e # items[g].entry
            BY <3>5, <5>3
          <6> QED
            BY <3>1, <3>2, <3>3, <5>3, <6>1 DEF Holds
        <5> QED
          BY <5>1, <5>2, <5>3
      <4> QED
        BY <4>1, SamePieces
    <3> QED
      BY <3>4, <3>5
  <2> QED
    BY <2>1, <2>2, <2>3
<1> QED
  BY <1>1, InvHolds, StackedHolds, PTL DEF Spec, GoodsMove

LEMMA GrownByAbsorbing == Spec => [](absorbed = {} => grown = {})
<1>1. Init => (absorbed = {} => grown = {})
  BY DEF Init
<1>2. (absorbed = {} => grown = {}) /\ [Next]_vars => (absorbed = {} => grown = {})'
  BY DEF Next, AddNewInventoryItem, Drop, Consume, PutOn, Equip, PetEquip, TakeOff, Unequip,
         PetUnequip, PetChanges, Save, Logout, Forget, Write, Crash, SellNew, Login, LoadHolds,
         LoadMerges, LoadRefuses, FinishLoading, Playing, Requeued, observed, vars
<1> QED
  BY <1>1, <1>2, PTL DEF Spec

\* What a save leaves is what the player holds, piece for piece, however much of
\* it was handed over and not yet written, unless the login has merged stacks.
THEOREM SavesAreComplete == Spec => SaveStoresUnmerged
<1>1. ASSUME Inv, absorbed = {} => grown = {}, [Next]_vars
      PROVE  [stage = "playing" /\ Len(pending') > Len(pending) /\ absorbed = {} =>
                \A e \in Entries : Held(Last', e) = Held(items, e)]_vars
  <2> SUFFICES ASSUME Next, stage = "playing", Len(pending') > Len(pending), absorbed = {},
                      NEW e \in Entries
               PROVE  Held(Last', e) = Held(items, e)
    BY <1>1
  <2>1. Len(pending) \in Nat
    BY <1>1 DEF Inv, TypeOK
  <2>2. ~Write
    <3>1. pending # <<>> => Len(Tail(pending)) < Len(pending)
      BY <1>1 DEF Inv, TypeOK
    <3> QED
      BY <2>1, <3>1 DEF Write
  <2>3. ~Crash /\ \A g \in Guids : ~SellNew(g)
    <3>1. pending' = <<>> => Len(pending') = 0
      OBVIOUS
    <3> QED
      BY <2>1, <3>1 DEF Crash, SellNew
  <2>4. pending' # pending
    BY <2>1
  <2>5. SaveToDB
    BY <2>2, <2>3, <2>4
    DEF Next, AddNewInventoryItem, Drop, Consume, Equip, PetEquip, Unequip, PetUnequip,
        PetChanges, Save, Logout, Login, LoadRow, FinishLoading, Playing, database
  <2>6. SavedAs(Last')
    BY <1>1, <2>5, SaveToDBDoes
  <2>7. todo = {}
    BY <1>1 DEF Inv, Queued, Staged
  <2>8. ASSUME NEW g \in Guids
        PROVE  /\ Holds(items, e, g) <=> Holds(Last', e, g)
               /\ Holds(items, e, g) => items[g].count = Last'[g].count
    <3>1. items[g] \in Items \cup {Null} /\ Consistent(g)
      BY <1>1, <2>7 DEF Inv, TypeOK, Queued, EveryChangeIsQueued, Consistent
    <3>2. CASE items[g] = Null
      <4>1. Last'[g] = Null
        BY <2>6, <3>1, <3>2 DEF SavedAs, Consistent
      <4> QED
        BY <3>2, <4>1 DEF Holds
    <3>3. CASE items[g] # Null /\ items[g].state = "removed"
      <4>1. Last'[g] = Null /\ items[g].place = "none"
        BY <2>6, <3>1, <3>3 DEF SavedAs, Consistent
      <4> QED
        BY <4>1 DEF Holds, Places
    <3>4. CASE items[g] # Null /\ items[g].state # "removed"
      <4>1. Last'[g] = RowOf(items[g]) /\ Last'[g] # Null
        BY <1>1, <2>6, <3>4 DEF SavedAs
      <4> QED
        BY <3>4, <4>1 DEF Holds, RowOf
    <3> QED
      BY <3>2, <3>3, <3>4
  <2> QED
    BY <2>8, SamePieces
<1> QED
  BY <1>1, InvHolds, GrownByAbsorbing, PTL DEF Spec, SaveStoresUnmerged
=============================================================================
