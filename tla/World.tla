-------------------------------- MODULE World --------------------------------
(***************************************************************************)
(* Sessions, zones and items of the server: CONNECT, MOVE, the respawn of  *)
(* a defeated player, TAKE, DROP, QUIT or a lost connection, and the       *)
(* cleanup that follows.                                                   *)
(*                                                                         *)
(* Every connection has one goroutine that runs its commands one after the *)
(* other and at the end its cleanup.  Goroutines share the maps            *)
(* onlinePlayers, InZone and Items; a step of this model is one critical   *)
(* section (onlinePlayersMu or one ZoneMu) of one goroutine together with  *)
(* the code before it that touches only that goroutine's own Player.       *)
(*                                                                         *)
(* A connection that has ended may be followed by a new one: a member of   *)
(* Conns stands for a goroutine slot, and is reused.                       *)
(***************************************************************************)
EXTENDS FiniteSets

CONSTANTS
    Conns,        \* goroutine slots: connections being served
    Names,        \* valid user names
    Zones,        \* zone IDs of the world
    Exits,        \* Exits[z]: the zones that the exits of z lead to
    StartZone,    \* startingZone
    RespawnZone,  \* respawnZone
    EnemyZones,   \* zones that hold an attackable enemy
    Items,        \* item IDs
    BaseLoc,      \* BaseLoc[i]: the zone an item is loaded into
    Obtainable,   \* items with Obtainable set
    None          \* nil

ASSUME WorldAssumption ==
    /\ Exits \in [Zones -> SUBSET Zones]
    /\ StartZone \in Zones
    /\ RespawnZone \in Zones
    /\ EnemyZones \subseteq Zones
    /\ BaseLoc \in [Items -> Zones]
    /\ Obtainable \subseteq Items
    /\ None \notin Conns
    /\ None \notin Names
    /\ Conns \cap Zones = {}

VARIABLES
    pc,             \* pc[c]: where the goroutine of c is
    name,           \* name[c]: Username of c's Player, None before login
    currLoc,        \* currLoc[c]: CurrLoc of c's Player
    inventory,      \* inventory[c]: keys of c's Player.Inventory
    hand,           \* hand[c]: items a local variable of c's goroutine holds
    onlinePlayers,  \* onlinePlayers[n]: the session registered under n
    inZone,         \* inZone[z][n]: the session that zone z's InZone has under n
    zoneItems,      \* zoneItems[z]: keys of zone z's Items
    ongoingBattles  \* the names that are keys of OngoingBattles

vars == <<pc, name, currLoc, inventory, hand, onlinePlayers, inZone,
          zoneItems, ongoingBattles>>

(***************************************************************************)
(* Program counter of a connection's goroutine:                            *)
(*   "none"     no connection                                              *)
(*   "login"    greeted, waiting for CONNECT                               *)
(*   "play"     logged in, waiting for a command                           *)
(*   "enter"    in shiftZone between the two zones                         *)
(*   "drop"     in itemDrop, item out of the bag and not yet in the zone   *)
(*   "quit"     reader loop left, cleanup not begun                        *)
(*   "leaving"  in cleanup, fight ended, still in the zone                 *)
(*   "return"   in cleanup, zone left, returning items of other zones      *)
(***************************************************************************)
InRoom   == {"play", "drop", "quit", "leaving"}
LoggedIn == InRoom \cup {"enter", "return"}
PC       == LoggedIn \cup {"none", "login"}

(* A session's bag counts until the cleanup has handed it out; the map     *)
(* Inventory of the dead Player object is never cleared.                   *)
Bagged(c) == IF pc[c] \in LoggedIn \ {"return"} THEN inventory[c] ELSE {}

Init ==
    /\ pc = [c \in Conns |-> "none"]
    /\ name = [c \in Conns |-> None]
    /\ currLoc = [c \in Conns |-> StartZone]
    /\ inventory = [c \in Conns |-> {}]
    /\ hand = [c \in Conns |-> {}]
    /\ onlinePlayers = [n \in Names |-> None]
    /\ inZone = [z \in Zones |-> [n \in Names |-> None]]
    /\ zoneItems = [z \in Zones |-> {i \in Items : BaseLoc[i] = z}]
    /\ ongoingBattles = {}

Goto(c, l) == pc' = [pc EXCEPT ![c] = l]

(* A definition named ...Fault is a seeded fault: a mutation run puts it   *)
(* in the place of the definition that follows it.                         *)

------------------------------------------------------------------------------
(* Before login *)

(* The accept loop starts the goroutine of a new connection. *)
Accept(c) ==
    /\ pc[c] = "none"
    /\ Goto(c, "login")
    /\ UNCHANGED <<name, currLoc, inventory, hand, onlinePlayers, inZone,
                   zoneItems, ongoingBattles>>

(* Before login the connection ends by QUIT, too many attempts, a failed   *)
(* write of "OK connected", an idle timeout or because the client left:    *)
(* player is nil, there is nothing to clean up.                            *)
AbandonLogin(c) ==
    /\ pc[c] = "login"
    /\ Goto(c, "none")
    /\ UNCHANGED <<name, currLoc, inventory, hand, onlinePlayers, inZone,
                   zoneItems, ongoingBattles>>

(* CONNECT n: processConn checks the name, registers the new Player and    *)
(* puts it into the starting zone, holding onlinePlayersMu throughout.  A  *)
(* name in use is refused and leaves the connection where it is.           *)
NameFreeFault(n) == TRUE
NameFree(n) == onlinePlayers[n] = None

Connect(c, n) ==
    /\ pc[c] = "login"
    /\ NameFree(n)
    /\ Goto(c, "play")
    /\ name' = [name EXCEPT ![c] = n]
    /\ currLoc' = [currLoc EXCEPT ![c] = StartZone]
    /\ inventory' = [inventory EXCEPT ![c] = {}]
    /\ onlinePlayers' = [onlinePlayers EXCEPT ![n] = c]
    /\ inZone' = [inZone EXCEPT ![StartZone][n] = c]
    /\ UNCHANGED <<hand, zoneItems, ongoingBattles>>

------------------------------------------------------------------------------
(* Changing zones *)

(* shiftZone, first half: delete the player from the old zone's InZone     *)
(* under its ZoneMu, then set CurrLoc, which only the player's own         *)
(* goroutine reads.                                                        *)
LeaveRoomForFault(c, newLoc) ==
    /\ Goto(c, "enter")
    /\ currLoc' = [currLoc EXCEPT ![c] = newLoc]
    /\ UNCHANGED inZone

LeaveRoomFor(c, newLoc) ==
    /\ Goto(c, "enter")
    /\ inZone' = [inZone EXCEPT ![currLoc[c]][name[c]] = None]
    /\ currLoc' = [currLoc EXCEPT ![c] = newLoc]

(* shiftZone, second half: enter the new zone under its ZoneMu. *)
EnterRoom(c) ==
    /\ pc[c] = "enter"
    /\ Goto(c, "play")
    /\ inZone' = [inZone EXCEPT ![currLoc[c]][name[c]] = c]
    /\ UNCHANGED <<name, currLoc, inventory, hand, onlinePlayers, zoneItems,
                   ongoingBattles>>

(* MOVE, TAKE and DROP ask playerInBattle first. *)
PlayerInBattleFault(c) == FALSE
PlayerInBattle(c) == name[c] \in ongoingBattles

(* MOVE: refused during a fight and without an exit in that direction. *)
Move(c, newLoc) ==
    /\ pc[c] = "play"
    /\ ~PlayerInBattle(c)
    /\ newLoc \in Exits[currLoc[c]]
    /\ LeaveRoomFor(c, newLoc)
    /\ UNCHANGED <<name, inventory, hand, onlinePlayers, zoneItems,
                   ongoingBattles>>

------------------------------------------------------------------------------
(* Fights, as far as zones and sessions are concerned (see module Battle) *)

(* ATTACK that starts a fight with an enemy of the player's zone. *)
StartFight(c) ==
    /\ pc[c] = "play"
    /\ name[c] \notin ongoingBattles
    /\ currLoc[c] \in EnemyZones
    /\ ongoingBattles' = ongoingBattles \cup {name[c]}
    /\ UNCHANGED <<pc, name, currLoc, inventory, hand, onlinePlayers, inZone,
                   zoneItems>>

(* FLEE, or ATTACK whose round defeats the enemy: the fight is removed. *)
EndFight(c) ==
    /\ pc[c] = "play"
    /\ name[c] \in ongoingBattles
    /\ ongoingBattles' = ongoingBattles \ {name[c]}
    /\ UNCHANGED <<pc, name, currLoc, inventory, hand, onlinePlayers, inZone,
                   zoneItems>>

(* ATTACK whose round defeats the player: processBattle removes the fight  *)
(* before it sends the result, then respawnPlayer shifts the player to the *)
(* respawn zone, be it the zone the player is in.                          *)
LoseFight(c) ==
    /\ pc[c] = "play"
    /\ name[c] \in ongoingBattles
    /\ ongoingBattles' = ongoingBattles \ {name[c]}
    /\ LeaveRoomFor(c, RespawnZone)
    /\ UNCHANGED <<name, inventory, hand, onlinePlayers, zoneItems>>

------------------------------------------------------------------------------
(* Items *)

(* TAKE: under the ZoneMu of the player's zone the item must be there and  *)
(* be obtainable; it moves into the bag before the lock is released.       *)
CanTakeFault(c, i) == i \in zoneItems[currLoc[c]]
CanTake(c, i) == i \in zoneItems[currLoc[c]] /\ i \in Obtainable

ItemTake(c, i) ==
    /\ pc[c] = "play"
    /\ ~PlayerInBattle(c)
    /\ CanTake(c, i)
    /\ zoneItems' = [zoneItems EXCEPT ![currLoc[c]] = @ \ {i}]
    /\ inventory' = [inventory EXCEPT ![c] = @ \cup {i}]
    /\ UNCHANGED <<pc, name, currLoc, hand, onlinePlayers, inZone,
                   ongoingBattles>>

(* DROP, first half: the item leaves the bag under PlayerMu. *)
ItemDrop(c, i) ==
    /\ pc[c] = "play"
    /\ ~PlayerInBattle(c)
    /\ i \in inventory[c]
    /\ Goto(c, "drop")
    /\ inventory' = [inventory EXCEPT ![c] = @ \ {i}]
    /\ hand' = [hand EXCEPT ![c] = {i}]
    /\ UNCHANGED <<name, currLoc, onlinePlayers, inZone, zoneItems,
                   ongoingBattles>>

(* DROP, second half: the item enters the zone under its ZoneMu. *)
PutDown(c) ==
    /\ pc[c] = "drop"
    /\ Goto(c, "play")
    /\ zoneItems' = [zoneItems EXCEPT ![currLoc[c]] = @ \cup hand[c]]
    /\ hand' = [hand EXCEPT ![c] = {}]
    /\ UNCHANGED <<name, currLoc, inventory, onlinePlayers, inZone,
                   ongoingBattles>>

------------------------------------------------------------------------------
(* The end of a session *)

(* QUIT, a closed or idle connection, a ban or an internal error: the      *)
(* reader loop ends between two commands, never inside one.                *)
Disconnect(c) ==
    /\ pc[c] = "play"
    /\ Goto(c, "quit")
    /\ UNCHANGED <<name, currLoc, inventory, hand, onlinePlayers, inZone,
                   zoneItems, ongoingBattles>>

(* cleanupPlayerData, fight: a fight still registered is terminated. *)
CleanupFight(c) ==
    /\ pc[c] = "quit"
    /\ Goto(c, "leaving")
    /\ ongoingBattles' = ongoingBattles \ {name[c]}
    /\ UNCHANGED <<name, currLoc, inventory, hand, onlinePlayers, inZone,
                   zoneItems>>

(* cleanupPlayerData, zone: under the ZoneMu of the player's zone delete   *)
(* the player from InZone and put back the items whose base location this  *)
(* zone is; the others are collected in crossZoneItems.                    *)
AtHome(c) == {i \in inventory[c] : BaseLoc[i] = currLoc[c]}
CrossZoneItemsFault(c) == {}
CrossZoneItems(c) == inventory[c] \ AtHome(c)

CleanupZone(c) ==
    /\ pc[c] = "leaving"
    /\ Goto(c, "return")
    /\ inZone' = [inZone EXCEPT ![currLoc[c]][name[c]] = None]
    /\ zoneItems' = [zoneItems EXCEPT ![currLoc[c]] = @ \cup AtHome(c)]
    /\ hand' = [hand EXCEPT ![c] = CrossZoneItems(c)]
    /\ UNCHANGED <<name, currLoc, inventory, onlinePlayers, ongoingBattles>>

(* cleanupPlayerData, cross-zone items: each one enters its base location  *)
(* under that zone's ZoneMu, in any order.                                 *)
ReturnZoneFault(c, i) == currLoc[c]
ReturnZone(c, i) == BaseLoc[i]

ReturnItem(c, i) ==
    /\ pc[c] = "return"
    /\ i \in hand[c]
    /\ zoneItems' = [zoneItems EXCEPT ![ReturnZone(c, i)] = @ \cup {i}]
    /\ hand' = [hand EXCEPT ![c] = @ \ {i}]
    /\ UNCHANGED <<pc, name, currLoc, inventory, onlinePlayers, inZone,
                   ongoingBattles>>

(* cleanupPlayerData, online list: the name becomes free under             *)
(* onlinePlayersMu, and the goroutine ends.  The Player object is garbage. *)
AllReturnedFault(c) == TRUE
AllReturned(c) == hand[c] = {}

NameFreedFault(c) == onlinePlayers
NameFreed(c) == [onlinePlayers EXCEPT ![name[c]] = None]

GoOffline(c) ==
    /\ pc[c] = "return"
    /\ AllReturned(c)
    /\ Goto(c, "none")
    /\ onlinePlayers' = NameFreed(c)
    /\ name' = [name EXCEPT ![c] = None]
    /\ currLoc' = [currLoc EXCEPT ![c] = StartZone]
    /\ inventory' = [inventory EXCEPT ![c] = {}]
    /\ UNCHANGED <<hand, inZone, zoneItems, ongoingBattles>>

------------------------------------------------------------------------------
(* What a client or the network causes. *)
Command(c) ==
    \/ Accept(c)
    \/ AbandonLogin(c)
    \/ \E n \in Names : Connect(c, n)
    \/ \E z \in Zones : Move(c, z)
    \/ StartFight(c)
    \/ EndFight(c)
    \/ LoseFight(c)
    \/ \E i \in Items : ItemTake(c, i) \/ ItemDrop(c, i)
    \/ Disconnect(c)

(* What the goroutine goes on to do by itself. *)
Continue(c) ==
    \/ EnterRoom(c)
    \/ PutDown(c)
    \/ CleanupFight(c)
    \/ CleanupZone(c)
    \/ \E i \in Items : ReturnItem(c, i)
    \/ GoOffline(c)

Next == \E c \in Conns : Command(c) \/ Continue(c)

Spec == Init /\ [][Next]_vars

(* The scheduler runs every runnable goroutine: one inside a command or    *)
(* its cleanup goes on.  Two things that would keep it from that are       *)
(* assumed away, since no action here stands for them.  A PlayerMu that a  *)
(* circle of GROUP JOINs keeps for ever (module Groups, NoCircle): the     *)
(* names of a room are read under its ZoneMu, and a cleanup reads the      *)
(* player's own and passes groupLeave.  And a client that stops reading    *)
(* what is written to it under a ZoneMu.  Otherwise nothing is assumed of  *)
(* clients.                                                                *)
FairSpec == Spec /\ \A c \in Conns : WF_vars(Continue(c))

------------------------------------------------------------------------------
(* Properties *)

(* Every variable has the shape of the Go value it models; a session has a *)
(* Player from login to the end of its cleanup, and holds items in a local *)
(* variable only inside itemDrop and cleanupPlayerData.                    *)
TypeOK ==
    /\ pc \in [Conns -> PC]
    /\ name \in [Conns -> Names \cup {None}]
    /\ currLoc \in [Conns -> Zones]
    /\ inventory \in [Conns -> SUBSET Items]
    /\ hand \in [Conns -> SUBSET Items]
    /\ onlinePlayers \in [Names -> Conns \cup {None}]
    /\ inZone \in [Zones -> [Names -> Conns \cup {None}]]
    /\ zoneItems \in [Zones -> SUBSET Items]
    /\ ongoingBattles \subseteq Names
    /\ \A c \in Conns : pc[c] \in LoggedIn <=> name[c] # None
    /\ \A c \in Conns : pc[c] \notin {"drop", "return"} => hand[c] = {}
    /\ \A c \in Conns : pc[c] = "drop" => \E i \in Items \ inventory[c] : hand[c] = {i}

(* The online list and the sessions agree: a name is registered to exactly *)
(* the session that logged in under it, from CONNECT until the very end of *)
(* its cleanup.  Hence no two sessions ever share a name, although every   *)
(* map of the server is keyed by it.                                       *)
Registered ==
    \A c \in Conns, n \in Names :
        onlinePlayers[n] = c <=> pc[c] \in LoggedIn /\ name[c] = n

(* The room lists and the sessions agree: a session that waits for a       *)
(* command is in the InZone of its CurrLoc and in no other one; one that   *)
(* is between two rooms or past the zone part of its cleanup is in none,   *)
(* so LOOK and WHO never show a player twice or after it is gone.          *)
Presence ==
    \A c \in Conns, z \in Zones, n \in Names :
        inZone[z][n] = c <=> pc[c] \in InRoom /\ name[c] = n /\ currLoc[c] = z

(* Where an item is: in zones' Items, and in sessions' bags and hands. *)
Holders(i) ==
    {z \in Zones : i \in zoneItems[z]} \cup
    {c \in Conns : i \in Bagged(c) \cup hand[c]}

(* No item is ever lost or duplicated, whatever TAKE, DROP and cleanup of  *)
(* several sessions do at once: it has exactly one holder.                 *)
ItemsConserved ==
    \A i \in Items : \E h \in Zones \cup Conns : Holders(i) = {h}

(* A fight registered under a name belongs to a session of that name that  *)
(* stands in a room with an enemy and is not inside another command: no    *)
(* MOVE, respawn or cleanup leaves a fight behind that a later session of  *)
(* the same name would inherit.                                            *)
FightersInRoom ==
    \A n \in ongoingBattles :
        \E c \in Conns :
            /\ onlinePlayers[n] = c
            /\ pc[c] \in {"play", "quit"}
            /\ currLoc[c] \in EnemyZones
            /\ inZone[currLoc[c]][n] = c

(* The server's three views of a session agree at every step: the online   *)
(* list, the room lists and the list of fights.                            *)
SessionsSound == Registered /\ Presence /\ FightersInRoom

(* The items as the abstract specification sees them. *)
CustodyOf(i) == CHOOSE h \in Zones \cup Conns : h \in Holders(i)
Abstract == INSTANCE ItemCustody WITH custody <- [i \in Items |-> CustodyOf(i)]

(* Items as an outside observer sees them behave as ItemCustody says: only *)
(* obtainable items move, a session gains an item only out of a zone, and  *)
(* gives it to one zone by DROP or to its base location by cleanup.        *)
Custody == Abstract!Spec

(* Every item a departing session carries comes back to its base location, *)
(* unless a lock on the way is held for ever (see FairSpec).               *)
ItemsComeHome ==
    \A c \in Conns, i \in Items :
        (pc[c] = "quit" /\ i \in inventory[c]) ~> i \in zoneItems[BaseLoc[i]]

(* The name of a session that ended becomes free again, with the same      *)
(* exception.                                                              *)
NameComesFree ==
    \A c \in Conns, n \in Names :
        (pc[c] = "quit" /\ name[c] = n) ~> onlinePlayers[n] = None
==============================================================================
