--------------------------- MODULE BattlesProofs ---------------------------
(***************************************************************************)
(* The pointers between players and battles, for any number of players and *)
(* engines.                                                                *)
(*                                                                         *)
(* The three invariants of Battles are inductive together.  While nobody   *)
(* is enlisted twice, OneBattleEach also says that no pointer of a battle  *)
(* dangles: a master drives and so is in the world, and whoever has a      *)
(* master is on the list of a battle with that master.                     *)
(***************************************************************************)
EXTENDS Battles, TLAPS

Inv == TypeOK /\ DriversAreMasters /\ OneBattleEach

-----------------------------------------------------------------------------
LEMMA Initially == Init => Inv
<1>1. Init => TypeOK /\ DriversAreMasters
  BY DEF Init, TypeOK, DriversAreMasters
<1>2. Init => OneBattleEach
  BY DEF Init, OneBattleEach
<1> QED
  BY <1>1, <1>2 DEF Inv

\* While nobody is enlisted twice no pointer dangles, and a battle has one driver.
LEMMA NothingDangles ==
  ASSUME Inv, ~reused
  PROVE  /\ \A e \in Engines : master[e] # Freed /\ (master[e] # Null => engineOf[master[e]] = e)
         /\ \A q \in Players : masterOf[q] # Freed
<1>1. ASSUME NEW e \in Engines, master[e] # Null
      PROVE  master[e] \in online /\ master[e] # Freed /\ engineOf[master[e]] = e
  <2>1. PICK p \in online : engineOf[p] = e
    BY <1>1 DEF Inv, OneBattleEach, Driven
  <2>2. p \in Players /\ e # Null
    BY PointersAssumption DEF Inv, TypeOK
  <2>3. master[e] = p
    BY <2>1, <2>2 DEF Inv, DriversAreMasters
  <2> QED
    BY <2>1, <2>2, <2>3, PointersAssumption
<1>2. ASSUME NEW q \in Players, masterOf[q] # Null PROVE masterOf[q] # Freed
  <2>1. PICK e \in Engines : q \in list[e]
    BY <1>2 DEF Inv, OneBattleEach
  <2>2. masterOf[q] = master[e]
    BY <2>1 DEF Inv, OneBattleEach
  <2> QED
    BY <1>1, <1>2, <2>2
<1> QED
  BY <1>1, <1>2, PointersAssumption

LEMMA BreakKeeps == ASSUME Inv, Break PROVE Inv'
  BY DEF Break, pointers, Inv, TypeOK, DriversAreMasters, OneBattleEach, Driven

LEMMA LoginKeeps == ASSUME Inv, NEW p \in Players, Login(p) PROVE Inv'
<1>1. TypeOK'
  BY DEF Login, pointers, Inv, TypeOK
<1>2. DriversAreMasters'
  BY DEF Login, pointers, Inv, DriversAreMasters
<1>3. OneBattleEach'
  BY DEF Login, pointers, Inv, OneBattleEach, Driven
<1> QED
  BY <1>1, <1>2, <1>3 DEF Inv

-----------------------------------------------------------------------------
\* Battles begin and end

LEMMA EngageKeeps ==
  ASSUME Inv, NEW p \in Players, NEW S \in SUBSET online, p \in S, Engage(p, S)
  PROVE  Inv'
<1>1. PICK e \in Engines : /\ master[e] = Null
                           /\ master' = [master EXCEPT ![e] = p]
                           /\ list' = [list EXCEPT ![e] = S]
                           /\ engineOf' = [engineOf EXCEPT ![p] = e]
  BY DEF Engage
<1>2. /\ p \in online /\ engineOf[p] = Null /\ online' = online /\ broken' = broken
      /\ masterOf' = [q \in Players |-> IF q \in S THEN p ELSE masterOf[q]]
      /\ reused' = (reused \/ \E q \in S : masterOf[q] # Null \/ engineOf[q] # Null)
  BY DEF Engage
<1>3. /\ p # Null /\ p # Freed /\ e # Null
      /\ master'[e] = p /\ \A f \in Engines \ {e} : master'[f] = master[f]
      /\ list'[e] = S /\ \A f \in Engines \ {e} : list'[f] = list[f]
      /\ engineOf'[p] = e /\ \A q \in Players \ {p} : engineOf'[q] = engineOf[q]
  BY <1>1, PointersAssumption DEF Inv, TypeOK
<1>4. TypeOK'
  BY <1>1, <1>2 DEF Inv, TypeOK
<1>5. DriversAreMasters'
  BY <1>1, <1>2, <1>3, PointersAssumption DEF Inv, DriversAreMasters, TypeOK
<1>6. OneBattleEach'
  <2> SUFFICES ASSUME ~reused' PROVE
        /\ \A f \in Engines : master'[f] # Null => Driven(f)'
        /\ \A f \in Engines :
             list'[f] = {q \in Players : masterOf'[q] # Null /\ masterOf'[q] = master'[f]}
        /\ \A q \in Players : masterOf'[q] # Null => \E f \in Engines : q \in list'[f]
        /\ \A f \in Engines : \A q \in list'[f] : engineOf'[q] \in {Null, f}
    BY DEF OneBattleEach
  <2>1. ~reused /\ \A q \in S : masterOf[q] = Null /\ engineOf[q] = Null
    BY <1>2
  <2>2. ASSUME NEW f \in Engines, master'[f] # Null PROVE Driven(f)'
    <3>1. CASE f = e
      BY <1>2, <1>3, <3>1 DEF Driven
    <3>2. CASE f # e
      <4>1. PICK r \in online : engineOf[r] = f
        BY <1>3, <2>1, <2>2, <3>2 DEF Inv, OneBattleEach, Driven
      <4>2. r # p /\ r \in Players
        BY <1>2, <4>1, PointersAssumption DEF Inv, TypeOK
      <4> QED
        BY <1>2, <1>3, <4>1, <4>2 DEF Driven
    <3> QED
      BY <3>1, <3>2
  <2>3. \A f \in Engines : master[f] # p
    <3>1. ASSUME NEW f \in Engines, master[f] = p PROVE FALSE
      <4>1. engineOf[p] = f
        BY <1>3, <2>1, <3>1, NothingDangles
      <4> QED
        BY <1>2, <4>1, PointersAssumption
    <3> QED
      BY <3>1
  <2>4. \A q \in Players : masterOf[q] # p
    <3>1. ASSUME NEW q \in Players, masterOf[q] = p PROVE FALSE
      <4>1. PICK f \in Engines : q \in list[f]
        BY <1>3, <2>1, <3>1 DEF Inv, OneBattleEach
      <4>2. master[f] = p
        BY <2>1, <3>1, <4>1 DEF Inv, OneBattleEach
      <4> QED
        BY <2>3, <4>2
    <3> QED
      BY <3>1
  <2>5. ASSUME NEW f \in Engines
        PROVE  list'[f] = {q \in Players : masterOf'[q] # Null /\ masterOf'[q] = master'[f]}
    <3>1. CASE f = e
      <4>1. S \subseteq Players
        BY DEF Inv, TypeOK
      <4> QED
        BY <1>2, <1>3, <2>4, <3>1, <4>1
    <3>2. CASE f # e
      <4>1. list'[f] = {q \in Players : masterOf[q] # Null /\ masterOf[q] = master[f]}
        BY <1>3, <2>1, <3>2 DEF Inv, OneBattleEach
      <4>2. \A q \in Players : /\ masterOf'[q] # Null /\ masterOf'[q] = master[f]
                               <=> masterOf[q] # Null /\ masterOf[q] = master[f]
        BY <1>2, <2>1, <2>3
      <4> QED
        BY <1>3, <3>2, <4>1, <4>2
    <3> QED
      BY <3>1, <3>2
  <2>6. ASSUME NEW q \in Players, masterOf'[q] # Null PROVE \E f \in Engines : q \in list'[f]
    <3>1. CASE q \in S
      BY <1>3, <3>1
    <3>2. CASE q \notin S
      <4>1. PICK f \in Engines : q \in list[f]
        BY <1>2, <2>1, <2>6, <3>2 DEF Inv, OneBattleEach
      <4>2. master[f] # Null
        BY <2>1, <4>1 DEF Inv, OneBattleEach
      <4> QED
        BY <1>1, <1>3, <4>1, <4>2
    <3> QED
      BY <3>1, <3>2
  <2>7. ASSUME NEW f \in Engines, NEW q \in list'[f] PROVE engineOf'[q] \in {Null, f}
    <3>1. q \in Players
      BY <2>5
    <3>2. CASE f = e
      BY <1>3, <2>1, <3>1, <3>2
    <3>3. CASE f # e
      <4>1. q \in list[f] /\ masterOf[q] # Null /\ engineOf[q] \in {Null, f}
        BY <1>3, <2>1, <2>7, <3>3 DEF Inv, OneBattleEach
      <4>2. q # p
        BY <2>1, <4>1
      <4> QED
        BY <1>3, <3>1, <4>1, <4>2
    <3> QED
      BY <3>2, <3>3
  <2> QED
    BY <2>2, <2>5, <2>6, <2>7
<1> QED
  BY <1>4, <1>5, <1>6 DEF Inv

LEMMA EscapeKeeps == ASSUME Inv, NEW e \in Engines, NEW q \in Players, Escape(e, q) PROVE Inv'
<1>1. /\ q \in list[e]
      /\ list' = [list EXCEPT ![e] = @ \ {q}] /\ masterOf' = [masterOf EXCEPT ![q] = Null]
      /\ online' = online /\ engineOf' = engineOf /\ master' = master
      /\ reused' = reused /\ broken' = broken
  BY DEF Escape, LeaveBattle
<1>2. /\ list'[e] = list[e] \ {q} /\ \A f \in Engines \ {e} : list'[f] = list[f]
      /\ masterOf'[q] = Null /\ \A r \in Players \ {q} : masterOf'[r] = masterOf[r]
  BY <1>1 DEF Inv, TypeOK
<1>3. TypeOK' /\ DriversAreMasters'
  BY <1>1 DEF Inv, TypeOK, DriversAreMasters
<1>4. OneBattleEach'
  <2> SUFFICES ASSUME ~reused PROVE
        /\ \A f \in Engines : master[f] # Null => Driven(f)
        /\ \A f \in Engines :
             list'[f] = {r \in Players : masterOf'[r] # Null /\ masterOf'[r] = master[f]}
        /\ \A r \in Players : masterOf'[r] # Null => \E f \in Engines : r \in list'[f]
        /\ \A f \in Engines : \A r \in list'[f] : engineOf[r] \in {Null, f}
    BY <1>1 DEF OneBattleEach, Driven
  <2>1. \A f \in Engines \ {e} : q \notin list[f]
    <3>1. ASSUME NEW f \in Engines, q \in list[f] PROVE f = e
      <4>1. masterOf[q] # Null /\ masterOf[q] = master[e] /\ masterOf[q] = master[f]
        BY <1>1, <3>1 DEF Inv, OneBattleEach
      <4> QED
        BY <4>1, NothingDangles
    <3> QED
      BY <3>1
  <2>2. \A f \in Engines : list'[f] = list[f] \ {q}
    BY <1>2, <2>1
  <2>3. \A f \in Engines :
          list[f] = {r \in Players : masterOf[r] # Null /\ masterOf[r] = master[f]}
    BY DEF Inv, OneBattleEach
  <2>4. \A f \in Engines :
          list'[f] = {r \in Players : masterOf'[r] # Null /\ masterOf'[r] = master[f]}
    BY <1>2, <2>2, <2>3
  <2>5. \A r \in Players : masterOf'[r] # Null => \E f \in Engines : r \in list'[f]
    BY <1>2, <2>2 DEF Inv, OneBattleEach
  <2> QED
    BY <2>2, <2>4, <2>5 DEF Inv, OneBattleEach
<1> QED
  BY <1>3, <1>4 DEF Inv

LEMMA ConcludeKeeps == ASSUME Inv, NEW p \in Players, Conclude(p) PROVE Inv'
<1> DEFINE e == engineOf[p]
<1>1. /\ p \in online /\ e # Null /\ e \in Engines
      /\ masterOf' = [q \in Players |-> IF q \in list[e] THEN Null ELSE masterOf[q]]
      /\ list' = [list EXCEPT ![e] = {}] /\ master' = [master EXCEPT ![e] = Null]
      /\ engineOf' = [engineOf EXCEPT ![p] = Null]
      /\ online' = online /\ reused' = reused /\ broken' = broken
  BY DEF Conclude, BattleStop, Inv, TypeOK
<1>2. /\ list'[e] = {} /\ \A f \in Engines \ {e} : list'[f] = list[f]
      /\ master'[e] = Null /\ \A f \in Engines \ {e} : master'[f] = master[f]
      /\ engineOf'[p] = Null /\ \A q \in Players \ {p} : engineOf'[q] = engineOf[q]
      /\ master[e] = p /\ engineOf[p] = e
  BY <1>1 DEF Inv, TypeOK, DriversAreMasters
<1> HIDE DEF e
<1>3. TypeOK'
  BY <1>1 DEF Inv, TypeOK
<1>4. DriversAreMasters'
  BY <1>1, <1>2 DEF Inv, DriversAreMasters, TypeOK
<1>5. OneBattleEach'
  <2> SUFFICES ASSUME ~reused PROVE
        /\ \A f \in Engines : master'[f] # Null => Driven(f)'
        /\ \A f \in Engines :
             list'[f] = {q \in Players : masterOf'[q] # Null /\ masterOf'[q] = master'[f]}
        /\ \A q \in Players : masterOf'[q] # Null => \E f \in Engines : q \in list'[f]
        /\ \A f \in Engines : \A q \in list'[f] : engineOf'[q] \in {Null, f}
    BY <1>1 DEF OneBattleEach
  <2>1. \A f \in Engines \ {e} : master[f] # p
    BY <1>1, <1>2, NothingDangles, PointersAssumption
  <2>2. \A f \in Engines :
          list[f] = {q \in Players : masterOf[q] # Null /\ masterOf[q] = master[f]}
    BY DEF Inv, OneBattleEach
  <2>3. ASSUME NEW f \in Engines, master'[f] # Null PROVE Driven(f)'
    <3>1. f # e
      BY <1>2, <2>3
    <3>2. PICK r \in online : engineOf[r] = f
      BY <1>2, <2>3, <3>1 DEF Inv, OneBattleEach, Driven
    <3>3. r # p /\ r \in Players
      BY <3>1, <3>2 DEF Inv, TypeOK, e
    <3> QED
      BY <1>1, <1>2, <3>2, <3>3 DEF Driven
  <2>4. ASSUME NEW f \in Engines
        PROVE  list'[f] = {q \in Players : masterOf'[q] # Null /\ masterOf'[q] = master'[f]}
    <3>1. CASE f = e
      BY <1>2, <3>1
    <3>2. CASE f # e
      <4>1. \A q \in Players : masterOf[q] = master[f] => masterOf'[q] = masterOf[q]
        BY <1>1, <1>2, <2>1, <2>2, <3>2
      <4>2. \A q \in Players : masterOf'[q] # Null => masterOf'[q] = masterOf[q]
        BY <1>1
      <4> QED
        BY <1>2, <2>2, <3>2, <4>1, <4>2
    <3> QED
      BY <3>1, <3>2
  <2>5. ASSUME NEW q \in Players, masterOf'[q] # Null PROVE \E f \in Engines : q \in list'[f]
    <3>1. q \notin list[e] /\ masterOf[q] # Null
      BY <1>1, <2>5
    <3> QED
      BY <1>2, <3>1 DEF Inv, OneBattleEach
  <2>6. ASSUME NEW f \in Engines, NEW q \in list'[f] PROVE engineOf'[q] \in {Null, f}
    <3>1. q \in Players /\ q \in list[f]
      BY <1>2, <2>2, <2>6
    <3> QED
      BY <1>2, <3>1 DEF Inv, OneBattleEach
  <2> QED
    BY <2>3, <2>4, <2>5, <2>6
<1> QED
  BY <1>3, <1>4, <1>5 DEF Inv

-----------------------------------------------------------------------------
\* A player logs out by way of the pointers "b"

\* The pointers have their types and everybody else drives the engine it is the
\* master of.
Sound(b, p) ==
  /\ b.engineOf \in [Players -> Engines \cup {Null}]
  /\ b.masterOf \in [Players -> online \cup {Null, Freed}]
  /\ b.master \in [Engines -> online \cup {Null, Freed}]
  /\ b.list \in [Engines -> SUBSET (online \cup {Freed})]
  /\ \A q \in Players \ {p} :
       b.engineOf[q] # Null => q \in online /\ b.master[b.engineOf[q]] = q

\* Once p is gone, the pointers agree.
Agree(b, p) ==
  /\ \A f \in Engines : b.master[f] # Null =>
       b.master[f] \in online \ {p} /\ b.engineOf[b.master[f]] = f
  /\ \A f \in Engines : b.list[f] \ {p} =
       {r \in Players \ {p} : b.masterOf[r] # Null /\ b.masterOf[r] = b.master[f]}
  /\ \A r \in Players \ {p} : b.masterOf[r] # Null => \E f \in Engines : r \in b.list[f]
  /\ \A f \in Engines : \A r \in b.list[f] \ {p} : b.engineOf[r] \in {Null, f}
  /\ \A f \in Engines : p \in b.list[f] => b.masterOf[p] # Null /\ b.masterOf[p] = b.master[f]

LEMMA LeaveKeeps ==
  ASSUME Inv, NEW p \in Players, NEW b,
         b = [engineOf |-> b.engineOf, masterOf |-> b.masterOf, master |-> b.master, list |-> b.list],
         Sound(b, p), ~reused => Agree(b, p), Leave(b, p)
  PROVE  Inv'
<1>1. CASE b.masterOf[p] = Freed
  BY <1>1, BreakKeeps DEF Leave
<1>2. CASE b.masterOf[p] # Freed
  <2> DEFINE m == b.masterOf[p]
             l == Left(b, p).list
  <2>1. /\ online' = online \ {p} /\ reused' = reused /\ broken' = broken
        /\ engineOf' = [Left(b, p).engineOf EXCEPT ![p] = Null]
        /\ masterOf' = [q \in Players |-> IF q = p THEN Null
                          ELSE IF Left(b, p).masterOf[q] = p THEN Freed ELSE Left(b, p).masterOf[q]]
        /\ master' = [e \in Engines |-> IF Left(b, p).master[e] = p THEN Freed
                                         ELSE Left(b, p).master[e]]
        /\ list' = [e \in Engines |-> IF p \in l[e] THEN (l[e] \ {p}) \cup {Freed} ELSE l[e]]
    BY <1>2 DEF Leave, Forget
  <2>2. m \in Players \cup {Null}
    BY <1>2 DEF Sound, Inv, TypeOK
  <2>3. /\ Left(b, p).engineOf = b.engineOf /\ Left(b, p).masterOf = b.masterOf
        /\ Left(b, p).master = b.master
        /\ l \in [Engines -> SUBSET (online \cup {Freed})]
        /\ \A f \in Engines : l[f] \ {p} = b.list[f] \ {p}
        /\ m # Null => \A f \in Engines : b.engineOf[m] = f => p \notin l[f]
    <3>1. CASE m = Null \/ b.engineOf[m] = Null
      <4>1. Left(b, p) = b
        BY <3>1 DEF Left
      <4>2. \A f \in Engines : f # Null
        BY PointersAssumption
      <4> QED
        BY <3>1, <4>1, <4>2 DEF Sound
    <3>2. CASE m # Null /\ b.engineOf[m] # Null
      <4> DEFINE g == b.engineOf[m]
                 k == [b.list EXCEPT ![g] = @ \ {p}]
      <4>1. g \in Engines
        BY <2>2, <3>2 DEF Sound
      <4>2. Left(b, p) = [b EXCEPT !.list = k]
        BY <3>2 DEF Left
      <4>3. /\ k \in [Engines -> SUBSET (online \cup {Freed})]
            /\ k[g] = b.list[g] \ {p} /\ \A f \in Engines \ {g} : k[f] = b.list[f]
        BY <4>1 DEF Sound
      <4>4. /\ [b EXCEPT !.list = k].engineOf = b.engineOf
            /\ [b EXCEPT !.list = k].masterOf = b.masterOf
            /\ [b EXCEPT !.list = k].master = b.master
            /\ [b EXCEPT !.list = k].list = k
        <5> HIDE DEF k
        <5> QED
          OBVIOUS
      <4> QED
        BY <4>1, <4>2, <4>3, <4>4
    <3> QED
      BY <3>1, <3>2
  <2> HIDE DEF l
  <2>4. TypeOK'
    <3>1. \A q \in Players : masterOf'[q] \in online' \cup {Null, Freed}
      BY <2>1, <2>3 DEF Sound
    <3>2. \A f \in Engines : /\ master'[f] \in online' \cup {Null, Freed}
                              /\ list'[f] \in SUBSET (online' \cup {Freed})
      BY <2>1, <2>3 DEF Sound
    <3>3. engineOf' \in [Players -> Engines \cup {Null}]
      BY <2>1, <2>3 DEF Sound
    <3> QED
      BY <2>1, <3>1, <3>2, <3>3 DEF Inv, TypeOK
  <2>5. DriversAreMasters'
    <3> SUFFICES ASSUME NEW q \in Players, engineOf'[q] # Null
                 PROVE  q \in online' /\ master'[engineOf'[q]] = q
      BY DEF DriversAreMasters
    <3>1. q # p /\ engineOf'[q] = b.engineOf[q]
      BY <2>1, <2>3 DEF Sound
    <3>2. b.engineOf[q] \in Engines /\ q \in online /\ b.master[b.engineOf[q]] = q
      BY <3>1 DEF Sound
    <3> QED
      BY <2>1, <2>3, <3>1, <3>2
  <2>6. OneBattleEach'
    <3> SUFFICES ASSUME ~reused PROVE
          /\ \A f \in Engines : master'[f] # Null => Driven(f)'
          /\ \A f \in Engines :
               list'[f] = {q \in Players : masterOf'[q] # Null /\ masterOf'[q] = master'[f]}
          /\ \A q \in Players : masterOf'[q] # Null => \E f \in Engines : q \in list'[f]
          /\ \A f \in Engines : \A q \in list'[f] : engineOf'[q] \in {Null, f}
      BY <2>1 DEF OneBattleEach
    <3>1. \A f \in Engines : p \notin l[f]
      <4>1. ASSUME NEW f \in Engines, p \in l[f] PROVE FALSE
        <5>1. p \in b.list[f]
          <6>1. CASE m = Null \/ b.engineOf[m] = Null
            BY <4>1, <6>1 DEF Left, l
          <6>2. CASE m # Null /\ b.engineOf[m] # Null
            BY <4>1, <6>2 DEF Left, l, Sound
          <6> QED
            BY <6>1, <6>2
        <5>2. m # Null /\ b.engineOf[m] = f
          BY <5>1 DEF Agree
        <5> QED
          BY <2>3, <4>1, <5>2
      <4> QED
        BY <4>1
    <3>2. \A f \in Engines : list'[f] = b.list[f] \ {p}
      BY <2>1, <2>3, <3>1
    <3>3. \A f \in Engines : master'[f] = b.master[f]
      <4>1. \A f \in Engines : b.master[f] # p
        BY PointersAssumption DEF Agree
      <4> QED
        BY <2>1, <2>3, <4>1
    <3>4. \A q \in Players \ {p} : masterOf'[q] = b.masterOf[q] /\ engineOf'[q] = b.engineOf[q]
      <4>1. ASSUME NEW q \in Players \ {p}, b.masterOf[q] = p PROVE FALSE
        <5>1. p # Null
          BY PointersAssumption
        <5>2. PICK f \in Engines : q \in b.list[f] \ {p}
          BY <4>1, <5>1 DEF Agree
        <5>3. b.master[f] = p
          BY <4>1, <5>2 DEF Agree
        <5> QED
          BY <5>1, <5>3 DEF Agree
      <4> QED
        BY <2>1, <2>3, <4>1 DEF Sound
    <3>5. masterOf'[p] = Null
      BY <2>1
    <3>6. ASSUME NEW f \in Engines, master'[f] # Null PROVE Driven(f)'
      <4>1. b.master[f] \in online \ {p} /\ b.engineOf[b.master[f]] = f
        BY <3>3, <3>6 DEF Agree
      <4>2. b.master[f] \in Players
        BY <4>1 DEF Inv, TypeOK
      <4> QED
        BY <2>1, <3>4, <4>1, <4>2 DEF Driven
    <3>7. \A f \in Engines :
            list'[f] = {q \in Players : masterOf'[q] # Null /\ masterOf'[q] = master'[f]}
      BY <3>2, <3>3, <3>4, <3>5 DEF Agree
    <3>8. \A q \in Players : masterOf'[q] # Null => \E f \in Engines : q \in list'[f]
      BY <3>2, <3>4, <3>5 DEF Agree
    <3>9. \A f \in Engines : \A q \in list'[f] : engineOf'[q] \in {Null, f}
      <4>1. ASSUME NEW f \in Engines, NEW q \in list'[f] PROVE engineOf'[q] \in {Null, f}
        BY <3>2, <3>4, <3>7, <4>1 DEF Agree
      <4> QED
        BY <4>1
    <3> QED
      BY <3>6, <3>7, <3>8, <3>9
  <2> QED
    BY <2>4, <2>5, <2>6 DEF Inv
<1> QED
  BY <1>1, <1>2

LEMMA LogoutMemberKeeps == ASSUME Inv, NEW p \in Players, LogoutMember(p) PROVE Inv'
<1> DEFINE b == Pointers
<1>1. engineOf[p] = Null /\ Leave(b, p)
  BY DEF LogoutMember
<1>2. /\ b.engineOf = engineOf /\ b.masterOf = masterOf /\ b.master = master /\ b.list = list
      /\ b = [engineOf |-> b.engineOf, masterOf |-> b.masterOf, master |-> b.master, list |-> b.list]
  BY DEF Pointers
<1> HIDE DEF b
<1>3. Sound(b, p)
  BY <1>2 DEF Sound, Inv, TypeOK, DriversAreMasters
<1>4. ASSUME ~reused PROVE Agree(b, p)
  <2>1. ASSUME NEW f \in Engines, master[f] # Null
        PROVE  master[f] \in online \ {p} /\ engineOf[master[f]] = f
    BY <1>1, <1>4, <2>1, NothingDangles, PointersAssumption DEF Inv, TypeOK
  <2>2. \A f \in Engines :
          list[f] = {r \in Players : masterOf[r] # Null /\ masterOf[r] = master[f]}
    BY <1>4 DEF Inv, OneBattleEach
  <2>3. \A f \in Engines : list[f] \ {p} =
          {r \in Players \ {p} : masterOf[r] # Null /\ masterOf[r] = master[f]}
    BY <2>2
  <2> QED
    BY <1>2, <1>4, <2>1, <2>2, <2>3 DEF Agree, Inv, OneBattleEach
<1> QED
  BY <1>1, <1>2, <1>3, <1>4, LeaveKeeps

\* While nobody is enlisted twice the lists of two battles have nobody in common.
LEMMA ListsAreDisjoint ==
  ASSUME Inv, ~reused, NEW e \in Engines, NEW f \in Engines, NEW r \in list[e], r \in list[f]
  PROVE  e = f
<1>1. masterOf[r] # Null /\ masterOf[r] = master[e] /\ masterOf[r] = master[f]
  BY DEF Inv, OneBattleEach
<1> QED
  BY <1>1, NothingDangles

LEMMA HandedOver ==
  ASSUME Inv, NEW p \in Players, NEW e \in Engines, engineOf[p] = e, NEW q \in list[e] \ {p},
         Freed \notin list[e], Leave(NewMaster(e, q), p)
  PROVE  Inv'
<1> DEFINE b == NewMaster(e, q)
<1>1. /\ b.engineOf = [engineOf EXCEPT ![q] = e] /\ b.master = [master EXCEPT ![e] = q]
      /\ b.masterOf = [r \in Players |-> IF r \in list[e] THEN q ELSE masterOf[r]]
      /\ b.list = list
      /\ b = [engineOf |-> b.engineOf, masterOf |-> b.masterOf, master |-> b.master, list |-> b.list]
  <2> DEFINE x == [engineOf EXCEPT ![q] = e]
             y == [master EXCEPT ![e] = q]
             z == [r \in Players |-> IF r \in list[e] THEN q ELSE masterOf[r]]
  <2>1. b = [engineOf |-> x, masterOf |-> z, master |-> y, list |-> list]
    BY DEF NewMaster
  <2> HIDE DEF b, x, y, z
  <2>2. /\ b.engineOf = x /\ b.master = y /\ b.masterOf = z /\ b.list = list
        /\ b = [engineOf |-> b.engineOf, masterOf |-> b.masterOf, master |-> b.master, list |-> b.list]
    BY <2>1
  <2> QED
    BY <2>2 DEF x, y, z
<1>2. Leave(b, p)
  OBVIOUS
<1> HIDE DEF b
<1>3. /\ q \in online /\ q \in Players /\ q # Null /\ e # Null /\ master[e] = p
  BY PointersAssumption DEF Inv, TypeOK, DriversAreMasters
<1>4. /\ b.engineOf[q] = e /\ \A r \in Players \ {q} : b.engineOf[r] = engineOf[r]
      /\ b.master[e] = q /\ \A f \in Engines \ {e} : b.master[f] = master[f]
      /\ \A r \in Players : r \in list[e] => b.masterOf[r] = q
      /\ \A r \in Players : r \notin list[e] => b.masterOf[r] = masterOf[r]
  BY <1>1, <1>3 DEF Inv, TypeOK
<1>5. Sound(b, p)
  <2>1. ASSUME NEW r \in Players \ {p}, b.engineOf[r] # Null
        PROVE  r \in online /\ b.master[b.engineOf[r]] = r
    <3>1. CASE r = q
      BY <1>3, <1>4, <3>1
    <3>2. CASE r # q
      <4>1. /\ b.engineOf[r] = engineOf[r] /\ engineOf[r] \in Engines
            /\ r \in online /\ master[engineOf[r]] = r
        BY <1>4, <2>1, <3>2 DEF Inv, TypeOK, DriversAreMasters
      <4>2. engineOf[r] # e
        BY <1>3, <4>1
      <4> QED
        BY <1>4, <4>1, <4>2
    <3> QED
      BY <3>1, <3>2
  <2> QED
    BY <1>1, <1>3, <2>1 DEF Sound, Inv, TypeOK
<1>6. ASSUME ~reused PROVE Agree(b, p)
  <2>1. \A f \in Engines :
          list[f] = {r \in Players : masterOf[r] # Null /\ masterOf[r] = master[f]}
    BY <1>6 DEF Inv, OneBattleEach
  <2>2. engineOf[q] \in {Null, e}
    BY <1>6 DEF Inv, OneBattleEach
  <2>3. ASSUME NEW f \in Engines, b.master[f] # Null
        PROVE  b.master[f] \in online \ {p} /\ b.engineOf[b.master[f]] = f
    <3>1. CASE f = e
      BY <1>3, <1>4, <3>1
    <3>2. CASE f # e
      <4>1. master[f] # Null /\ master[f] # Freed /\ engineOf[master[f]] = f
        BY <1>4, <1>6, <2>3, <3>2, NothingDangles
      <4>2. master[f] \in online /\ master[f] \in Players
        BY <4>1 DEF Inv, TypeOK
      <4>3. master[f] # p /\ master[f] # q
        BY <2>2, <3>2, <4>1, PointersAssumption
      <4> QED
        BY <1>4, <3>2, <4>1, <4>2, <4>3
    <3> QED
      BY <3>1, <3>2
  <2>4. \A r \in Players : r \notin list[e] => masterOf[r] # q
    <3>1. ASSUME NEW r \in Players, r \notin list[e], masterOf[r] = q PROVE FALSE
      <4>1. PICK f \in Engines : r \in list[f]
        BY <1>3, <1>6, <3>1 DEF Inv, OneBattleEach
      <4>2. master[f] = q
        BY <2>1, <3>1, <4>1
      <4>3. engineOf[q] = f
        BY <1>3, <1>6, <4>2, NothingDangles
      <4> QED
        BY <2>2, <3>1, <4>1, <4>3, PointersAssumption
    <3> QED
      BY <3>1
  <2>5. ASSUME NEW f \in Engines
        PROVE  list[f] \ {p} =
                 {r \in Players \ {p} : b.masterOf[r] # Null /\ b.masterOf[r] = b.master[f]}
    <3>1. CASE f = e
      BY <1>3, <1>4, <2>1, <2>4, <3>1
    <3>2. CASE f # e
      <4>1. \A r \in list[f] : r \notin list[e]
        BY <1>6, <3>2, ListsAreDisjoint
      <4>2. b.master[f] = master[f] /\ (master[f] # Null => master[f] # q)
        BY <1>3, <1>4, <1>6, <2>2, <3>2, NothingDangles, PointersAssumption
      <4>3. \A r \in Players : /\ b.masterOf[r] # Null /\ b.masterOf[r] = master[f]
                               <=> masterOf[r] # Null /\ masterOf[r] = master[f]
        BY <1>3, <1>4, <2>1, <4>1, <4>2
      <4> QED
        BY <2>1, <4>2, <4>3
    <3> QED
      BY <3>1, <3>2
  <2>6. ASSUME NEW r \in Players \ {p}, b.masterOf[r] # Null PROVE \E f \in Engines : r \in list[f]
    <3>1. CASE r \in list[e]
      BY <3>1
    <3>2. CASE r \notin list[e]
      BY <1>4, <1>6, <2>6, <3>2 DEF Inv, OneBattleEach
    <3> QED
      BY <3>1, <3>2
  <2>7. ASSUME NEW f \in Engines, NEW r \in list[f] \ {p} PROVE b.engineOf[r] \in {Null, f}
    <3>1. CASE r = q
      BY <1>4, <1>6, <3>1, ListsAreDisjoint
    <3>2. CASE r # q
      <4>1. r \in Players
        BY <2>1
      <4> QED
        BY <1>4, <1>6, <3>2, <4>1 DEF Inv, OneBattleEach
    <3> QED
      BY <3>1, <3>2
  <2>8. ASSUME NEW f \in Engines, p \in list[f]
        PROVE  b.masterOf[p] # Null /\ b.masterOf[p] = b.master[f]
    <3>1. CASE f = e
      BY <1>3, <1>4, <2>8, <3>1
    <3>2. CASE f # e
      <4>1. p \notin list[e]
        BY <1>6, <2>8, <3>2, ListsAreDisjoint
      <4> QED
        BY <1>4, <2>1, <2>8, <3>2, <4>1
    <3> QED
      BY <3>1, <3>2
  <2> QED
    BY <1>1, <2>3, <2>5, <2>6, <2>7, <2>8 DEF Agree
<1> QED
  BY <1>1, <1>2, <1>5, <1>6, LeaveKeeps

LEMMA Deleted ==
  ASSUME Inv, NEW p \in Players, NEW e \in Engines, engineOf[p] = e, list[e] \ {p} = {},
         Leave(NoNewMaster(e, p), p)
  PROVE  Inv'
<1> DEFINE b == NoNewMaster(e, p)
<1>1. /\ b.engineOf = [engineOf EXCEPT ![p] = Null] /\ b.master = [master EXCEPT ![e] = Null]
      /\ b.masterOf = masterOf /\ b.list = [list EXCEPT ![e] = {}]
      /\ b = [engineOf |-> b.engineOf, masterOf |-> b.masterOf, master |-> b.master, list |-> b.list]
  <2> DEFINE x == [engineOf EXCEPT ![p] = Null]
             y == [master EXCEPT ![e] = Null]
             z == [list EXCEPT ![e] = {}]
  <2>1. b = [engineOf |-> x, masterOf |-> masterOf, master |-> y, list |-> z]
    BY DEF NoNewMaster
  <2> HIDE DEF b, x, y, z
  <2>2. /\ b.engineOf = x /\ b.master = y /\ b.masterOf = masterOf /\ b.list = z
        /\ b = [engineOf |-> b.engineOf, masterOf |-> b.masterOf, master |-> b.master, list |-> b.list]
    BY <2>1
  <2> QED
    BY <2>2 DEF x, y, z
<1>2. Leave(b, p)
  OBVIOUS
<1> HIDE DEF b
<1>3. /\ e # Null /\ p # Null /\ master[e] = p
      /\ \A r \in Players \ {p} : b.engineOf[r] = engineOf[r]
      /\ b.master[e] = Null /\ \A f \in Engines \ {e} : b.master[f] = master[f]
      /\ b.list[e] = {} /\ \A f \in Engines \ {e} : b.list[f] = list[f]
  BY <1>1, PointersAssumption DEF Inv, TypeOK, DriversAreMasters
<1>4. Sound(b, p)
  <2>1. ASSUME NEW r \in Players \ {p}, b.engineOf[r] # Null
        PROVE  r \in online /\ b.master[b.engineOf[r]] = r
    <3>1. /\ b.engineOf[r] = engineOf[r] /\ engineOf[r] \in Engines
          /\ r \in online /\ master[engineOf[r]] = r
      BY <1>3, <2>1 DEF Inv, TypeOK, DriversAreMasters
    <3> QED
      BY <1>3, <3>1
  <2> QED
    BY <1>1, <2>1 DEF Sound, Inv, TypeOK
<1>5. ASSUME ~reused PROVE Agree(b, p)
  <2>1. \A f \in Engines :
          list[f] = {r \in Players : masterOf[r] # Null /\ masterOf[r] = master[f]}
    BY <1>5 DEF Inv, OneBattleEach
  <2>2. ASSUME NEW f \in Engines, b.master[f] # Null
        PROVE  b.master[f] \in online \ {p} /\ b.engineOf[b.master[f]] = f
    <3>1. f # e /\ b.master[f] = master[f]
      BY <1>3, <2>2
    <3>2. master[f] # Freed /\ engineOf[master[f]] = f
      BY <1>5, <2>2, <3>1, NothingDangles
    <3>3. master[f] \in online /\ master[f] \in Players /\ master[f] # p
      BY <2>2, <3>1, <3>2 DEF Inv, TypeOK
    <3> QED
      BY <1>3, <3>1, <3>2, <3>3
  <2>3. ASSUME NEW f \in Engines
        PROVE  b.list[f] \ {p} =
                 {r \in Players \ {p} : masterOf[r] # Null /\ masterOf[r] = b.master[f]}
    <3>1. CASE f = e
      BY <1>3, <3>1
    <3>2. CASE f # e
      BY <1>3, <2>1, <3>2
    <3> QED
      BY <3>1, <3>2
  <2>4. ASSUME NEW r \in Players \ {p}, masterOf[r] # Null PROVE \E f \in Engines : r \in b.list[f]
    <3>1. PICK f \in Engines : r \in list[f]
      BY <1>5, <2>4 DEF Inv, OneBattleEach
    <3>2. f # e
      BY <3>1
    <3> QED
      BY <1>3, <3>1, <3>2
  <2>5. ASSUME NEW f \in Engines, NEW r \in b.list[f] \ {p} PROVE b.engineOf[r] \in {Null, f}
    <3>1. f # e /\ r \in list[f] /\ r \in Players
      BY <1>3, <2>1, <2>5
    <3> QED
      BY <1>3, <1>5, <2>5, <3>1 DEF Inv, OneBattleEach
  <2>6. ASSUME NEW f \in Engines, p \in b.list[f]
        PROVE  masterOf[p] # Null /\ masterOf[p] = b.master[f]
    BY <1>3, <2>1, <2>6
  <2> QED
    BY <1>1, <2>2, <2>3, <2>4, <2>5, <2>6 DEF Agree
<1> QED
  BY <1>1, <1>2, <1>4, <1>5, LeaveKeeps

LEMMA LogoutDriverKeeps == ASSUME Inv, NEW p \in Players, LogoutDriver(p) PROVE Inv'
<1> DEFINE e == engineOf[p]
<1>1. e \in Engines
  BY DEF LogoutDriver, Inv, TypeOK
<1>2. CASE Break
  BY <1>2, BreakKeeps
<1>3. CASE Freed \notin list[e] /\ \E q \in Heirs(e, p) : Leave(NewMaster(e, q), p)
  BY <1>1, <1>3, HandedOver DEF Heirs
<1>4. CASE Heirs(e, p) = {} /\ Leave(NoNewMaster(e, p), p)
  BY <1>1, <1>4, Deleted DEF Heirs
<1> QED
  BY <1>2, <1>3, <1>4 DEF LogoutDriver

-----------------------------------------------------------------------------
\* The theorems

LEMMA StepsKeep == Inv /\ [Next]_vars => Inv'
<1> SUFFICES ASSUME Inv, [Next]_vars PROVE Inv'
  OBVIOUS
<1>1. CASE UNCHANGED vars
  BY <1>1 DEF vars, pointers, Inv, TypeOK, DriversAreMasters, OneBattleEach, Driven
<1>2. ASSUME NEW p \in Players, Login(p) PROVE Inv'
  BY <1>2, LoginKeeps
<1>3. ASSUME NEW p \in Players, EngageCreature(p) PROVE Inv'
  BY <1>3, EngageKeeps DEF EngageCreature
<1>4. ASSUME NEW p \in Players, NEW q \in Players, EngagePlayer(p, q) PROVE Inv'
  <2>1. PICK mates \in SUBSET online : p \in mates /\ Engage(p, mates \cup {q})
    BY <1>4 DEF EngagePlayer
  <2>2. mates \cup {q} \in SUBSET online
    BY <1>4 DEF EngagePlayer, MayFight
  <2> QED
    BY <2>1, <2>2, EngageKeeps
<1>5. ASSUME NEW p \in Players, Conclude(p) PROVE Inv'
  BY <1>5, ConcludeKeeps
<1>6. ASSUME NEW p \in Players, UpdateBreaks(p) \/ CommandBreaks(p) PROVE Inv'
  BY <1>6, BreakKeeps DEF UpdateBreaks, CommandBreaks
<1>7. ASSUME NEW p \in Players, LogoutMember(p) \/ LogoutDriver(p) PROVE Inv'
  BY <1>7, LogoutMemberKeeps, LogoutDriverKeeps
<1>8. ASSUME NEW e \in Engines, NEW q \in Players, Escape(e, q) PROVE Inv'
  BY <1>8, EscapeKeeps
<1> QED
  BY <1>1, <1>2, <1>3, <1>4, <1>5, <1>6, <1>7, <1>8 DEF Next

LEMMA Always == Spec => []Inv
  BY Initially, StepsKeep, PTL DEF Spec

\* The pointers of players and battles keep their types: those of a player that has
\* logged out are gone or known to dangle (~Player).
THEOREM TypesAreKept == Spec => []TypeOK
<1>1. Inv => TypeOK
  BY DEF Inv
<1> QED
  BY <1>1, Always, PTL

\* PlayerBattleClass never dangles, and no two players drive the same engine, even
\* if players are enlisted twice (Engage, FindNewMaster, Player::Update, ~Player).
THEOREM DriversKeepMasters == Spec => []DriversAreMasters
<1>1. Inv => DriversAreMasters
  BY DEF Inv
<1> QED
  BY <1>1, Always, PTL

\* That Engage enlists players of other battles is the only way for the pointers of
\* JoinBattle, LeaveBattle and FindNewMaster to disagree.
THEOREM BattlesStayApart == Spec => []OneBattleEach
<1>1. Inv => OneBattleEach
  BY DEF Inv
<1> QED
  BY <1>1, Always, PTL

\* Player.cpp:120: "Leave from battle if any".  No engine keeps a pointer to a player
\* that has logged out.
NoneLeftBehind == \A e \in Engines : Freed \notin list[e]

\* Nobody is left behind in a battle as long as nobody is enlisted (Engage) that has
\* to do with another one.  Otherwise a player leaves only the battle of its last
\* master.
THEOREM NobodyLeftBehind == Spec => [](~reused => NoneLeftBehind)
<1>1. Inv => (~reused => NoneLeftBehind)
  <2> SUFFICES ASSUME Inv, ~reused, NEW e \in Engines PROVE Freed \notin list[e]
    BY DEF NoneLeftBehind
  <2> QED
    BY PointersAssumption DEF Inv, OneBattleEach
<1> QED
  BY <1>1, Always, PTL
=============================================================================
