----------------------------- MODULE WorldProofs -----------------------------
(***************************************************************************)
(* Proofs about World for any number of connections, names, zones and      *)
(* items.                                                                  *)
(***************************************************************************)
EXTENDS World, TLAPS

(* Type correctness of the server's maps and of every Player. *)
THEOREM TypeCorrect == Spec => []TypeOK
<1>1. Init => TypeOK
  BY WorldAssumption DEF Init, TypeOK, PC, LoggedIn, InRoom
<1>2. TypeOK /\ [Next]_vars => TypeOK'
  <2> SUFFICES ASSUME TypeOK, [Next]_vars PROVE TypeOK'
    OBVIOUS
  <2> USE WorldAssumption DEF TypeOK, PC, LoggedIn, InRoom, Goto
  <2>1. ASSUME NEW c \in Conns, Accept(c) PROVE TypeOK'
    BY <2>1 DEF Accept
  <2>2. ASSUME NEW c \in Conns, AbandonLogin(c) PROVE TypeOK'
    BY <2>2 DEF AbandonLogin
  <2>3. ASSUME NEW c \in Conns, NEW n \in Names, Connect(c, n) PROVE TypeOK'
    BY <2>3 DEF Connect
  <2>4. ASSUME NEW c \in Conns, NEW z \in Zones, Move(c, z) PROVE TypeOK'
    BY <2>4 DEF Move, LeaveRoomFor
  <2>5. ASSUME NEW c \in Conns, StartFight(c) PROVE TypeOK'
    BY <2>5 DEF StartFight
  <2>6. ASSUME NEW c \in Conns, EndFight(c) PROVE TypeOK'
    BY <2>6 DEF EndFight
  <2>7. ASSUME NEW c \in Conns, LoseFight(c) PROVE TypeOK'
    BY <2>7 DEF LoseFight, LeaveRoomFor
  <2>8. ASSUME NEW c \in Conns, NEW i \in Items, ItemTake(c, i) PROVE TypeOK'
    BY <2>8 DEF ItemTake
  <2>9. ASSUME NEW c \in Conns, NEW i \in Items, ItemDrop(c, i) PROVE TypeOK'
    <3>1. /\ pc' \in [Conns -> PC] /\ hand' \in [Conns -> SUBSET Items]
          /\ inventory' \in [Conns -> SUBSET Items]
      BY <2>9 DEF ItemDrop
    <3>2. /\ pc[c] = "play" /\ pc'[c] = "drop" /\ hand'[c] = {i} /\ i \notin inventory'[c]
          /\ UNCHANGED <<name, currLoc, onlinePlayers, inZone, zoneItems, ongoingBattles>>
      BY <2>9 DEF ItemDrop
    <3>3. \A d \in Conns \ {c} :
             pc'[d] = pc[d] /\ hand'[d] = hand[d] /\ inventory'[d] = inventory[d]
      BY <2>9 DEF ItemDrop
    <3>4. \A d \in Conns : pc'[d] \in LoggedIn <=> name'[d] # None
      BY <3>2, <3>3
    <3>5. \A d \in Conns : pc'[d] \notin {"drop", "return"} => hand'[d] = {}
      BY <3>2, <3>3
    <3>6. \A d \in Conns : pc'[d] = "drop" =>
              \E j \in Items \ inventory'[d] : hand'[d] = {j}
      <4>1. ASSUME NEW d \in Conns \ {c}, pc'[d] = "drop"
            PROVE  \E j \in Items \ inventory'[d] : hand'[d] = {j}
        <5>1. pc[d] = "drop" /\ hand'[d] = hand[d] /\ inventory'[d] = inventory[d]
          BY <3>3, <4>1
        <5>2. PICK j \in Items \ inventory[d] : hand[d] = {j}  BY <5>1
        <5> QED BY <5>1, <5>2
      <4>2. i \in Items \ inventory'[c] /\ hand'[c] = {i}  BY <3>2
      <4> QED BY <4>1, <4>2
    <3> QED BY <3>1, <3>2, <3>4, <3>5, <3>6
  <2>10. ASSUME NEW c \in Conns, Disconnect(c) PROVE TypeOK'
    BY <2>10 DEF Disconnect
  <2>11. ASSUME NEW c \in Conns, EnterRoom(c) PROVE TypeOK'
    BY <2>11 DEF EnterRoom
  <2>12. ASSUME NEW c \in Conns, PutDown(c) PROVE TypeOK'
    BY <2>12 DEF PutDown
  <2>13. ASSUME NEW c \in Conns, CleanupFight(c) PROVE TypeOK'
    BY <2>13 DEF CleanupFight
  <2>14. ASSUME NEW c \in Conns, CleanupZone(c) PROVE TypeOK'
    <3>1. AtHome(c) \subseteq Items /\ CrossZoneItems(c) \subseteq Items
      BY DEF AtHome, CrossZoneItems
    <3>2. zoneItems' \in [Zones -> SUBSET Items] /\ hand' \in [Conns -> SUBSET Items]
      BY <2>14, <3>1 DEF CleanupZone
    <3>3. inZone' \in [Zones -> [Names -> Conns \cup {None}]]
      BY <2>14 DEF CleanupZone
    <3>4. pc' \in [Conns -> PC] /\ pc'[c] = "return" /\ pc[c] = "leaving"
      BY <2>14 DEF CleanupZone
    <3>5. \A d \in Conns \ {c} : pc'[d] = pc[d] /\ hand'[d] = hand[d]
      BY <2>14 DEF CleanupZone
    <3>6. name[c] # None /\ UNCHANGED <<name, currLoc, inventory, onlinePlayers, ongoingBattles>>
      BY <2>14 DEF CleanupZone
    <3>7. \A d \in Conns : pc'[d] \in LoggedIn <=> name'[d] # None
      BY <3>4, <3>5, <3>6
    <3>8. \A d \in Conns : pc'[d] \notin {"drop", "return"} => hand'[d] = {}
      BY <3>4, <3>5
    <3>9. \A d \in Conns : pc'[d] = "drop" =>
              \E i \in Items \ inventory'[d] : hand'[d] = {i}
      <4>1. TAKE d \in Conns
      <4>2. HAVE pc'[d] = "drop"
      <4>3. d \in Conns \ {c}
        BY <3>4, <4>2
      <4>4. pc[d] = "drop" /\ hand'[d] = hand[d]
        BY <3>5, <4>2, <4>3
      <4>5. PICK i \in Items \ inventory[d] : hand[d] = {i}
        BY <4>4
      <4>6. QED
        BY <3>6, <4>4, <4>5
    <3>10. /\ name' \in [Conns -> Names \cup {None}]
           /\ currLoc' \in [Conns -> Zones]
           /\ inventory' \in [Conns -> SUBSET Items]
           /\ onlinePlayers' \in [Names -> Conns \cup {None}]
           /\ ongoingBattles' \subseteq Names
      BY <3>6
    <3>11. QED
      BY <3>2, <3>3, <3>4, <3>7, <3>8, <3>9, <3>10, Zenon
  <2>15. ASSUME NEW c \in Conns, NEW i \in Items, ReturnItem(c, i) PROVE TypeOK'
    BY <2>15, SMTT(30) DEF ReturnItem, ReturnZone
  <2>16. ASSUME NEW c \in Conns, GoOffline(c) PROVE TypeOK'
    BY <2>16 DEF GoOffline, AllReturned, NameFreed
  <2>17. CASE UNCHANGED vars
    BY <2>17 DEF vars
  <2>18. QED
    BY <2>1, <2>2, <2>3, <2>4, <2>5, <2>6, <2>7, <2>8, <2>9, <2>10, <2>11,
       <2>12, <2>13, <2>14, <2>15, <2>16, <2>17 DEF Next, Command, Continue
<1>3. QED
  BY <1>1, <1>2, PTL DEF Spec

(* The inductive invariant of the sessions: each part needs the others.    *)
(* Presence needs Registered, for no two sessions write one InZone key.    *)
SessionInv == TypeOK /\ Registered /\ Presence /\ FightersInRoom

(* Every step keeps the registry, the room lists and the fights consistent. *)
LEMMA SessionStep == SessionInv /\ [Next]_vars /\ TypeOK' => SessionInv'
<1> SUFFICES ASSUME SessionInv, [Next]_vars, TypeOK' PROVE SessionInv'
  OBVIOUS
<1> USE WorldAssumption DEF SessionInv, TypeOK, PC, LoggedIn, InRoom, Goto
<1>1. ASSUME NEW c \in Conns, Accept(c) PROVE SessionInv'
  <2>1. Registered'
    BY <1>1 DEF Accept, Registered
  <2>2. Presence'
    BY <1>1 DEF Accept, Presence, Registered
  <2>3. FightersInRoom'
    BY <1>1 DEF Accept, FightersInRoom, Registered, Presence
  <2>4. QED
    BY <2>1, <2>2, <2>3
<1>2. ASSUME NEW c \in Conns, AbandonLogin(c) PROVE SessionInv'
  <2>1. Registered'
    BY <1>2 DEF AbandonLogin, Registered
  <2>2. Presence'
    BY <1>2 DEF AbandonLogin, Presence, Registered
  <2>3. FightersInRoom'
    BY <1>2 DEF AbandonLogin, FightersInRoom, Registered, Presence
  <2>4. QED
    BY <2>1, <2>2, <2>3
<1>3. ASSUME NEW c \in Conns, NEW n \in Names, Connect(c, n) PROVE SessionInv'
  <2>1. Registered'
    BY <1>3 DEF Connect, NameFree, Registered
  <2>2. Presence'
    BY <1>3 DEF Connect, NameFree, Presence, Registered
  <2>3. FightersInRoom'
    BY <1>3 DEF Connect, NameFree, FightersInRoom, Registered, Presence
  <2>4. QED
    BY <2>1, <2>2, <2>3
<1>4. ASSUME NEW c \in Conns, NEW z \in Zones, Move(c, z) PROVE SessionInv'
  <2>1. Registered'
    BY <1>4 DEF Move, LeaveRoomFor, PlayerInBattle, Registered
  <2>2. Presence'
    BY <1>4 DEF Move, LeaveRoomFor, PlayerInBattle, Presence, Registered
  <2>3. FightersInRoom'
    BY <1>4 DEF Move, LeaveRoomFor, PlayerInBattle, FightersInRoom, Registered, Presence
  <2>4. QED
    BY <2>1, <2>2, <2>3
<1>5. ASSUME NEW c \in Conns, StartFight(c) PROVE SessionInv'
  <2>1. Registered'
    BY <1>5 DEF StartFight, Registered
  <2>2. Presence'
    BY <1>5 DEF StartFight, Presence, Registered
  <2>3. FightersInRoom'
    BY <1>5 DEF StartFight, FightersInRoom, Registered, Presence
  <2>4. QED
    BY <2>1, <2>2, <2>3
<1>6. ASSUME NEW c \in Conns, EndFight(c) PROVE SessionInv'
  <2>1. Registered'
    BY <1>6 DEF EndFight, Registered
  <2>2. Presence'
    BY <1>6 DEF EndFight, Presence, Registered
  <2>3. FightersInRoom'
    BY <1>6 DEF EndFight, FightersInRoom, Registered, Presence
  <2>4. QED
    BY <2>1, <2>2, <2>3
<1>7. ASSUME NEW c \in Conns, LoseFight(c) PROVE SessionInv'
  <2>1. Registered'
    BY <1>7 DEF LoseFight, LeaveRoomFor, Registered
  <2>2. Presence'
    BY <1>7 DEF LoseFight, LeaveRoomFor, Presence, Registered
  <2>3. FightersInRoom'
    BY <1>7 DEF LoseFight, LeaveRoomFor, FightersInRoom, Registered, Presence
  <2>4. QED
    BY <2>1, <2>2, <2>3
<1>8. ASSUME NEW c \in Conns, NEW i \in Items, ItemTake(c, i) PROVE SessionInv'
  <2>1. Registered'
    BY <1>8 DEF ItemTake, Registered
  <2>2. Presence'
    BY <1>8 DEF ItemTake, Presence, Registered
  <2>3. FightersInRoom'
    BY <1>8 DEF ItemTake, FightersInRoom, Registered, Presence
  <2>4. QED
    BY <2>1, <2>2, <2>3
<1>9. ASSUME NEW c \in Conns, NEW i \in Items, ItemDrop(c, i) PROVE SessionInv'
  <2>1. Registered'
    BY <1>9 DEF ItemDrop, PlayerInBattle, Registered
  <2>2. Presence'
    BY <1>9 DEF ItemDrop, PlayerInBattle, Presence, Registered
  <2>3. FightersInRoom'
    BY <1>9 DEF ItemDrop, PlayerInBattle, FightersInRoom, Registered, Presence
  <2>4. QED
    BY <2>1, <2>2, <2>3
<1>10. ASSUME NEW c \in Conns, Disconnect(c) PROVE SessionInv'
  <2>1. Registered'
    BY <1>10 DEF Disconnect, Registered
  <2>2. Presence'
    BY <1>10 DEF Disconnect, Presence, Registered
  <2>3. FightersInRoom'
    BY <1>10 DEF Disconnect, FightersInRoom, Registered, Presence
  <2>4. QED
    BY <2>1, <2>2, <2>3
<1>11. ASSUME NEW c \in Conns, EnterRoom(c) PROVE SessionInv'
  <2>1. Registered'
    BY <1>11 DEF EnterRoom, Registered
  <2>2. Presence'
    BY <1>11 DEF EnterRoom, Presence, Registered
  <2>3. FightersInRoom'
    BY <1>11 DEF EnterRoom, FightersInRoom, Registered, Presence
  <2>4. QED
    BY <2>1, <2>2, <2>3
<1>12. ASSUME NEW c \in Conns, PutDown(c) PROVE SessionInv'
  <2>1. Registered'
    BY <1>12 DEF PutDown, Registered
  <2>2. Presence'
    BY <1>12 DEF PutDown, Presence, Registered
  <2>3. FightersInRoom'
    BY <1>12 DEF PutDown, FightersInRoom, Registered, Presence
  <2>4. QED
    BY <2>1, <2>2, <2>3
<1>13. ASSUME NEW c \in Conns, CleanupFight(c) PROVE SessionInv'
  <2>1. Registered'
    BY <1>13 DEF CleanupFight, Registered
  <2>2. Presence'
    BY <1>13 DEF CleanupFight, Presence, Registered
  <2>3. FightersInRoom'
    BY <1>13 DEF CleanupFight, FightersInRoom, Registered, Presence
  <2>4. QED
    BY <2>1, <2>2, <2>3
<1>14. ASSUME NEW c \in Conns, CleanupZone(c) PROVE SessionInv'
  <2>1. Registered'
    BY <1>14 DEF CleanupZone, Registered
  <2>2. Presence'
    BY <1>14 DEF CleanupZone, Presence, Registered
  <2>3. FightersInRoom'
    BY <1>14 DEF CleanupZone, FightersInRoom, Registered, Presence
  <2>4. QED
    BY <2>1, <2>2, <2>3
<1>15. ASSUME NEW c \in Conns, NEW i \in Items, ReturnItem(c, i) PROVE SessionInv'
  <2>1. Registered'
    BY <1>15 DEF ReturnItem, Registered
  <2>2. Presence'
    BY <1>15 DEF ReturnItem, Presence, Registered
  <2>3. FightersInRoom'
    BY <1>15 DEF ReturnItem, FightersInRoom, Registered, Presence
  <2>4. QED
    BY <2>1, <2>2, <2>3
<1>16. ASSUME NEW c \in Conns, GoOffline(c) PROVE SessionInv'
  <2>1. Registered'
    BY <1>16 DEF GoOffline, NameFreed, Registered
  <2>2. Presence'
    BY <1>16 DEF GoOffline, NameFreed, Presence, Registered
  <2>3. FightersInRoom'
    <3> SUFFICES ASSUME NEW n \in ongoingBattles
                 PROVE  \E d \in Conns : /\ onlinePlayers'[n] = d
                                         /\ pc'[d] \in {"play", "quit"}
                                         /\ currLoc'[d] \in EnemyZones
                                         /\ inZone'[currLoc'[d]][n] = d
      BY <1>16 DEF GoOffline, FightersInRoom
    <3>1. PICK d \in Conns : /\ onlinePlayers[n] = d
                            /\ pc[d] \in {"play", "quit"}
                            /\ currLoc[d] \in EnemyZones
                            /\ inZone[currLoc[d]][n] = d
      BY DEF FightersInRoom
    <3>2. d # c /\ name[c] # n
      BY <1>16, <3>1 DEF GoOffline, Registered
    <3>3. QED
      BY <1>16, <3>1, <3>2 DEF GoOffline, NameFreed
  <2>4. QED
    BY <2>1, <2>2, <2>3
<1>17. CASE UNCHANGED vars
  BY <1>17 DEF vars, Registered, Presence, FightersInRoom
<1>18. QED
  BY <1>1, <1>2, <1>3, <1>4, <1>5, <1>6, <1>7, <1>8, <1>9, <1>10, <1>11, <1>12, <1>13, <1>14, <1>15, <1>16, <1>17
     DEF Next, Command, Continue

(* SessionsSound holds of every behaviour. *)
THEOREM SessionsCorrect == Spec => []SessionsSound
<1>1. Init => SessionInv
  BY WorldAssumption DEF Init, SessionInv, TypeOK, PC, LoggedIn, InRoom,
     Registered, Presence, FightersInRoom
<1>2. SessionInv => SessionsSound
  BY DEF SessionInv, SessionsSound
<1>3. QED
  BY <1>1, <1>2, SessionStep, TypeCorrect, PTL DEF Spec

(* The inductive invariant of the items. *)
ItemInv == TypeOK /\ ItemsConserved

(* Zones and sessions can hold items; Held(h) is what h holds. *)
Holder == Zones \cup Conns
Held(h) == IF h \in Zones THEN zoneItems[h] ELSE Bagged(h) \cup hand[h]

(* A step that takes every item of S to the holder f[i], and no other one. *)
Moves(S, f) ==
    \A i \in Items, k \in Holder :
        i \in Held(k)' <=> IF i \in S THEN k = f[i] ELSE i \in Held(k)

(* The set Holders(i) of one element, as a predicate. *)
LEMMA OneHolder ==
  ItemsConserved <=> \A i \in Items : \E h \in Holder :
                       \A k \in Holder : i \in Held(k) <=> k = h
<1>1. ASSUME NEW i \in Items
      PROVE  Holders(i) = {h \in Holder : i \in Held(h)}
  BY WorldAssumption DEF Holders, Held, Holder
<1>2. QED
  BY <1>1 DEF ItemsConserved, Holder

(* What each action does to the items: nothing, or one of the three moves  *)
(* of ItemCustody.                                                         *)
TakeMove(c, i) ==
    /\ i \in Obtainable
    /\ \E z \in Zones : i \in Held(z)
    /\ Moves({i}, [j \in Items |-> c])
DropMove(c, i) ==
    /\ i \in Held(c)
    /\ \E z \in Zones : Moves({i}, [j \in Items |-> z])
ReturnMove(c, S) ==
    /\ S \subseteq Held(c)
    /\ Moves(S, BaseLoc)

ItemMove ==
    \/ Moves({}, BaseLoc)
    \/ \E c \in Conns, i \in Items : TakeMove(c, i) \/ DropMove(c, i)
    \/ \E c \in Conns, S \in SUBSET Items : ReturnMove(c, S)

(* Every step moves items in one of the three ways, or not at all. *)
LEMMA StepMoves == ItemInv /\ [Next]_vars => ItemMove
<1> SUFFICES ASSUME TypeOK, ItemsConserved, [Next]_vars PROVE ItemMove
  BY DEF ItemInv
<1>0. ASSUME NEW i \in Items, NEW h \in Holder, NEW k \in Holder,
             i \in Held(h), i \in Held(k)
      PROVE  h = k
  BY <1>0, OneHolder
<1> USE WorldAssumption
    DEF TypeOK, PC, LoggedIn, InRoom, Goto, Held, Holder, Bagged
<1>1. ASSUME NEW c \in Conns, Accept(c) PROVE Moves({}, BaseLoc)
  BY <1>1 DEF Accept, Moves
<1>2. ASSUME NEW c \in Conns, AbandonLogin(c) PROVE Moves({}, BaseLoc)
  BY <1>2 DEF AbandonLogin, Moves
<1>3. ASSUME NEW c \in Conns, NEW n \in Names, Connect(c, n) PROVE Moves({}, BaseLoc)
  BY <1>3 DEF Connect, Moves
<1>4. ASSUME NEW c \in Conns, NEW z \in Zones, Move(c, z) PROVE Moves({}, BaseLoc)
  BY <1>4 DEF Move, LeaveRoomFor, Moves
<1>5. ASSUME NEW c \in Conns, StartFight(c) PROVE Moves({}, BaseLoc)
  BY <1>5 DEF StartFight, Moves
<1>6. ASSUME NEW c \in Conns, EndFight(c) PROVE Moves({}, BaseLoc)
  BY <1>6 DEF EndFight, Moves
<1>7. ASSUME NEW c \in Conns, LoseFight(c) PROVE Moves({}, BaseLoc)
  BY <1>7 DEF LoseFight, LeaveRoomFor, Moves
<1>8. ASSUME NEW c \in Conns, NEW i \in Items, ItemDrop(c, i) PROVE Moves({}, BaseLoc)
  BY <1>8 DEF ItemDrop, Moves
<1>9. ASSUME NEW c \in Conns, Disconnect(c) PROVE Moves({}, BaseLoc)
  BY <1>9 DEF Disconnect, Moves
<1>10. ASSUME NEW c \in Conns, EnterRoom(c) PROVE Moves({}, BaseLoc)
  BY <1>10 DEF EnterRoom, Moves
<1>11. ASSUME NEW c \in Conns, CleanupFight(c) PROVE Moves({}, BaseLoc)
  BY <1>11 DEF CleanupFight, Moves
<1>12. ASSUME NEW c \in Conns, GoOffline(c) PROVE Moves({}, BaseLoc)
  BY <1>12 DEF GoOffline, AllReturned, Moves
<1>13. ASSUME NEW c \in Conns, NEW i \in Items, ItemTake(c, i)
       PROVE  TakeMove(c, i)
  <2>1. i \in Obtainable /\ i \in Held(currLoc[c])
    BY <1>13 DEF ItemTake, CanTake
  <2>2. ASSUME NEW j \in Items, NEW z \in Zones
        PROVE  j \in Held(z)' <=> j # i /\ j \in Held(z)
    BY <1>0, <1>13, <2>1 DEF ItemTake
  <2>3. ASSUME NEW j \in Items, NEW d \in Conns
        PROVE  j \in Held(d)' <=> IF j = i THEN d = c ELSE j \in Held(d)
    BY <1>0, <1>13, <2>1 DEF ItemTake
  <2>4. QED
    BY <2>1, <2>2, <2>3 DEF TakeMove, Moves
<1>14. ASSUME NEW c \in Conns, PutDown(c)
       PROVE  ItemMove
  <2>1. PICK i \in Items, loc \in Zones :
          hand[c] = {i} /\ i \notin inventory[c] /\ loc = currLoc[c]
    BY <1>14 DEF PutDown
  <2>2. i \in Held(c)
    BY <2>1
  <2>3. ASSUME NEW j \in Items, NEW z \in Zones
        PROVE  j \in Held(z)' <=> IF j = i THEN z = loc ELSE j \in Held(z)
    <3>1. j \in Held(z)' <=> j \in Held(z) \/ (z = loc /\ j = i)
      BY <1>14, <2>1 DEF PutDown
    <3>2. i \notin Held(z)
      BY <1>0, <2>2
    <3>3. QED
      BY <3>1, <3>2
  <2>4. ASSUME NEW j \in Items, NEW d \in Conns
        PROVE  j \in Held(d)' <=> j # i /\ j \in Held(d)
    BY <1>0, <1>14, <2>1, <2>2 DEF PutDown
  <2>5. Moves({i}, [j \in Items |-> loc])
    BY <2>3, <2>4 DEF Moves
  <2>6. DropMove(c, i)
    BY <2>2, <2>5 DEF DropMove
  <2>7. QED
    BY <2>6 DEF ItemMove
<1>15. ASSUME NEW c \in Conns, CleanupZone(c)
       PROVE  ItemMove
  <2>0. AtHome(c) \in SUBSET Items /\ AtHome(c) \subseteq Held(c)
    BY <1>15 DEF CleanupZone, AtHome
  <2>1. PICK S \in SUBSET Items : S = AtHome(c)
    BY <2>0
  <2>2. ASSUME NEW j \in Items, NEW z \in Zones
        PROVE  j \in Held(z)' <=> IF j \in S THEN z = BaseLoc[j] ELSE j \in Held(z)
    <3>1. j \in Held(z)' <=> j \in Held(z) \/ (z = currLoc[c] /\ j \in S)
      BY <1>15, <2>1 DEF CleanupZone
    <3>2. j \in S => j \notin Held(z) /\ currLoc[c] = BaseLoc[j]
      BY <1>0, <2>0, <2>1 DEF AtHome
    <3>3. QED
      BY <3>1, <3>2
  <2>3. ASSUME NEW j \in Items, NEW d \in Conns
        PROVE  j \in Held(d)' <=> j \notin S /\ j \in Held(d)
    BY <1>0, <1>15, <2>0, <2>1 DEF CleanupZone, AtHome, CrossZoneItems
  <2>4. ReturnMove(c, S)
    BY <2>0, <2>1, <2>2, <2>3 DEF ReturnMove, Moves
  <2>5. QED
    BY <2>4 DEF ItemMove
<1>16. ASSUME NEW c \in Conns, NEW i \in Items, ReturnItem(c, i)
       PROVE  ItemMove
  <2>1. i \in Held(c)
    BY <1>16 DEF ReturnItem
  <2>2. ASSUME NEW j \in Items, NEW z \in Zones
        PROVE  j \in Held(z)' <=> IF j = i THEN z = BaseLoc[j] ELSE j \in Held(z)
    BY <1>0, <1>16, <2>1 DEF ReturnItem, ReturnZone
  <2>3. ASSUME NEW j \in Items, NEW d \in Conns
        PROVE  j \in Held(d)' <=> j # i /\ j \in Held(d)
    BY <1>0, <1>16, <2>1 DEF ReturnItem
  <2>4. ReturnMove(c, {i})
    BY <2>1, <2>2, <2>3 DEF ReturnMove, Moves
  <2>5. QED
    BY <2>4 DEF ItemMove
<1>17. CASE UNCHANGED vars
  BY <1>17 DEF vars, Moves, ItemMove
<1>18. ASSUME NEW c \in Conns, Command(c) PROVE ItemMove
  BY <1>1, <1>2, <1>3, <1>4, <1>5, <1>6, <1>7, <1>8, <1>9, <1>13, <1>18
     DEF Command, ItemMove
<1>19. ASSUME NEW c \in Conns, Continue(c) PROVE ItemMove
  BY <1>10, <1>11, <1>12, <1>14, <1>15, <1>16, <1>19 DEF Continue, ItemMove
<1>20. QED
  BY <1>17, <1>18, <1>19 DEF Next

(* A move keeps the number of holders of each item at one. *)
LEMMA MovesKeepOne ==
  ASSUME NEW CONSTANT S, NEW CONSTANT f \in [Items -> Holder],
         ItemsConserved, Moves(S, f)
  PROVE  ItemsConserved'
<1>1. (\A i \in Items : \E h \in Holder :
         \A k \in Holder : i \in Held(k) <=> k = h)'
  <2> SUFFICES ASSUME NEW i \in Items
               PROVE  \E h \in Holder : \A k \in Holder : i \in Held(k)' <=> k = h
    BY DEF Holder
  <2>1. PICK h \in Holder : \A k \in Holder : i \in Held(k) <=> k = h
    BY OneHolder
  <2>2. CASE i \in S
    BY <2>2 DEF Moves
  <2>3. CASE i \notin S
    BY <2>1, <2>3 DEF Moves
  <2>4. QED
    BY <2>2, <2>3
<1>2. (ItemsConserved <=> \A i \in Items : \E h \in Holder :
                            \A k \in Holder : i \in Held(k) <=> k = h)'
  BY OneHolder, PTL
<1>3. QED
  BY <1>1, <1>2

(* Every step leaves each item with exactly one holder. *)
LEMMA ItemStep == ItemInv /\ [Next]_vars /\ TypeOK' => ItemInv'
<1> SUFFICES ASSUME ItemInv, [Next]_vars, TypeOK' PROVE ItemsConserved'
  BY DEF ItemInv
<1> USE WorldAssumption DEF ItemInv, Holder
<1>1. ASSUME Moves({}, BaseLoc) PROVE ItemsConserved'
  BY <1>1, MovesKeepOne
<1>2. ASSUME NEW c \in Conns, NEW i \in Items, TakeMove(c, i)
      PROVE  ItemsConserved'
  BY <1>2, MovesKeepOne DEF TakeMove
<1>3. ASSUME NEW c \in Conns, NEW i \in Items, DropMove(c, i)
      PROVE  ItemsConserved'
  <2>1. PICK z \in Zones : Moves({i}, [j \in Items |-> z])
    BY <1>3 DEF DropMove
  <2>2. QED
    BY <2>1, MovesKeepOne
<1>4. ASSUME NEW c \in Conns, NEW S \in SUBSET Items, ReturnMove(c, S)
      PROVE  ItemsConserved'
  BY <1>4, MovesKeepOne DEF ReturnMove
<1>5. QED
  BY <1>1, <1>2, <1>3, <1>4, StepMoves DEF ItemMove

(* No item is lost or duplicated, for any number of sessions and items. *)
THEOREM ItemsCorrect == Spec => []ItemsConserved
<1>1. Init => ItemInv
  <2> SUFFICES ASSUME Init PROVE ItemInv
    OBVIOUS
  <2>1. TypeOK
    BY WorldAssumption DEF Init, TypeOK, PC, LoggedIn, InRoom
  <2>2. ASSUME NEW i \in Items PROVE Holders(i) = {BaseLoc[i]}
    BY WorldAssumption DEF Init, Holders, Bagged, LoggedIn, InRoom
  <2>3. QED
    BY <2>1, <2>2, WorldAssumption DEF ItemInv, ItemsConserved
<1>2. ItemInv => ItemsConserved
  BY DEF ItemInv
<1>3. QED
  BY <1>1, <1>2, ItemStep, TypeCorrect, PTL DEF Spec

(* The refinement mapping: an item's custody is its one holder. *)
custody == [i \in Items |-> CustodyOf(i)]

(* The custody of an item is a holder, and the only one. *)
LEMMA CustodyHeld ==
  ItemsConserved => \A i \in Items : /\ custody[i] \in Holder
                                     /\ \A k \in Holder : i \in Held(k) <=> k = custody[i]
<1> SUFFICES ASSUME ItemsConserved, NEW i \in Items
             PROVE  /\ custody[i] \in Holder
                    /\ \A k \in Holder : i \in Held(k) <=> k = custody[i]
  OBVIOUS
<1>1. PICK h \in Holder : \A k \in Holder : i \in Held(k) <=> k = h
  BY OneHolder
<1>2. Holders(i) = {h}
  BY <1>1, WorldAssumption DEF Holders, Held, Holder
<1>3. custody[i] = h
  BY <1>2 DEF custody, CustodyOf, Holder
<1>4. QED
  BY <1>1, <1>3

(* A move of items is the same change of the mapped variable. *)
LEMMA MovesCustody ==
  ASSUME NEW CONSTANT S, NEW CONSTANT f \in [Items -> Holder],
         ItemsConserved, ItemsConserved', Moves(S, f)
  PROVE  custody' = [i \in Items |-> IF i \in S THEN f[i] ELSE custody[i]]
<1>1. \A i \in Items : /\ custody'[i] \in Holder
                       /\ \A k \in Holder : i \in Held(k)' <=> k = custody'[i]
  <2>1. (ItemsConserved => \A i \in Items :
           /\ custody[i] \in Holder
           /\ \A k \in Holder : i \in Held(k) <=> k = custody[i])'
    BY CustodyHeld, PTL
  <2>2. QED
    BY <2>1 DEF Holder
<1>2. ASSUME NEW i \in Items
      PROVE  custody'[i] = IF i \in S THEN f[i] ELSE custody[i]
  BY <1>1, CustodyHeld DEF Moves
<1>3. QED
  BY <1>2 DEF custody

(* One item moves: the mapped variable changes at that item. *)
LEMMA MoveOneCustody ==
  ASSUME NEW CONSTANT i \in Items, NEW CONSTANT h \in Holder,
         ItemsConserved, ItemsConserved', Moves({i}, [j \in Items |-> h])
  PROVE  custody' = [custody EXCEPT ![i] = h]
<1>1. custody' = [j \in Items |-> IF j \in {i} THEN [k \in Items |-> h][j]
                                               ELSE custody[j]]
  BY MovesCustody
<1>2. custody = [j \in Items |-> custody[j]]
  BY DEF custody
<1> HIDE DEF custody
<1>3. QED
  BY <1>1, <1>2

(* World implements ItemCustody: every step is one of its steps or leaves  *)
(* the custody of every item alone.                                        *)
THEOREM ItemsRefine == Spec => Custody
<1>1. Init => Abstract!Init
  <2> SUFFICES ASSUME Init PROVE custody = BaseLoc
    BY DEF Abstract!Init, custody
  <2>1. ASSUME NEW i \in Items PROVE Holders(i) = {BaseLoc[i]}
    BY WorldAssumption DEF Init, Holders, Bagged, LoggedIn, InRoom
  <2>2. QED
    BY <2>1, WorldAssumption DEF custody, CustodyOf
<1>2. ItemInv /\ ItemsConserved' /\ [Next]_vars => [Abstract!Next]_custody
  <2> SUFFICES ASSUME ItemInv, ItemsConserved', [Next]_vars
               PROVE  [Abstract!Next]_custody
    OBVIOUS
  <2> USE WorldAssumption DEF ItemInv, Holder
  <2>1. \A i \in Items : /\ custody[i] \in Holder
                         /\ \A k \in Holder : i \in Held(k) <=> k = custody[i]
    BY CustodyHeld
  <2>2. ASSUME Moves({}, BaseLoc) PROVE custody' = custody
    BY <2>2, MovesCustody DEF custody
  <2>3. ASSUME NEW c \in Conns, NEW i \in Items, TakeMove(c, i)
        PROVE  Abstract!Take(c, i)
    <3>1. custody' = [custody EXCEPT ![i] = c]
      BY <2>3, MoveOneCustody DEF TakeMove
    <3>2. i \in Obtainable /\ custody[i] \in Zones
      BY <2>1, <2>3 DEF TakeMove
    <3>3. QED
      BY <3>1, <3>2 DEF Abstract!Take, custody
  <2>4. ASSUME NEW c \in Conns, NEW i \in Items, DropMove(c, i)
        PROVE  Abstract!Drop(c, i)
    <3>1. PICK z \in Zones : Moves({i}, [j \in Items |-> z])
      BY <2>4 DEF DropMove
    <3>2. custody' = [custody EXCEPT ![i] = z]
      BY <3>1, MoveOneCustody
    <3>3. custody[i] = c
      BY <2>1, <2>4 DEF DropMove
    <3>4. QED
      BY <3>2, <3>3 DEF Abstract!Drop, custody
  <2>5. ASSUME NEW c \in Conns, NEW S \in SUBSET Items, ReturnMove(c, S)
        PROVE  Abstract!Return(c, S)
    <3>1. custody' = [i \in Items |-> IF i \in S THEN BaseLoc[i] ELSE custody[i]]
      BY <2>5, MovesCustody DEF ReturnMove
    <3>2. \A i \in S : custody[i] = c
      BY <2>1, <2>5 DEF ReturnMove
    <3>3. QED
      BY <3>1, <3>2 DEF Abstract!Return, custody
  <2>6. QED
    BY <2>2, <2>3, <2>4, <2>5, StepMoves DEF ItemMove, Abstract!Next
<1>3. QED
  BY <1>1, <1>2, TypeCorrect, ItemsCorrect, PTL DEF Spec, Custody, Abstract!Spec, ItemInv, custody
==============================================================================
