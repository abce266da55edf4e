------------------------------- MODULE Battle --------------------------------
(***************************************************************************)
(* Fights.  A player's connection goroutine (ATTACK, FLEE, TALK to a       *)
(* healer, MOVE, the end of the connection) and the goroutine of each      *)
(* fight (processBattle) meet on two unbuffered channels, PlayerAttack and *)
(* BattleRoundResult, and share the NPC's flag Occupied and the map        *)
(* OngoingBattles with everybody else.                                     *)
(*                                                                         *)
(* A step is one critical section or one meeting on a channel.  A player   *)
(* is identified with its name: module World shows that no two sessions    *)
(* share one.  A BattleField object is a member of Fields, used again only *)
(* when nothing refers to it any more.                                     *)
(***************************************************************************)
EXTENDS Integers

CONSTANTS
    Players,       \* player names
    NPCs,          \* the attackable NPCs of role enemy
    Fields,        \* BattleField objects; bounds the fights alive at once
    Zones,
    NPCZone,       \* NPCZone[n]: BaseLoc of an NPC
    HealerZones,   \* zones that hold a healer
    StartZone, RespawnZone,
    MaxHP,         \* a player's MaxHP
    NPCMaxHP,      \* Stats.HP of the NPCs
    PlayerDamage,  \* Strength + 1..BattleSkill of a player
    NPCDamage,     \* Strength + 1..BattleSkill of an NPC
    None           \* nil

ASSUME BattleAssumption ==
    /\ NPCZone \in [NPCs -> Zones]
    /\ HealerZones \subseteq Zones
    /\ StartZone \in Zones /\ RespawnZone \in Zones
    /\ MaxHP \in Nat \ {0} /\ NPCMaxHP \in Nat \ {0}
    /\ PlayerDamage \subseteq Nat /\ NPCDamage \subseteq Nat
    /\ None \notin Fields \cup Players \cup NPCs

(* Nobody can be healed to another status in the middle of a fight: a      *)
(* world, like the one shipped, that has no healer where an enemy is.      *)
ASSUME HealersApart == \A n \in NPCs : NPCZone[n] \notin HealerZones

VARIABLES
    pc,        \* pc[p]: where p's connection goroutine is
    at,        \* at[p]: the BattleField in a local variable of that goroutine
    loc,       \* loc[p]: CurrLoc
    hp,        \* hp[p]: CurrHP
    status,    \* status[p]: Status
    ongoing,   \* ongoing[p]: OngoingBattles[p]
    occupied,  \* occupied[n]: Occupied
    owner,     \* owner[f]: the Player of BattleField f
    npc,       \* npc[f]: its NPC
    npcHP,     \* npcHP[f]: its NPCCurrHP
    closed,    \* closed[f]: its PlayerAttack is closed
    gor,       \* gor[f]: where its processBattle goroutine is
    result     \* result[f]: the RoundResult that goroutine has computed

playerVars == <<loc, hp, status>>
fieldVars  == <<owner, npc, npcHP, closed>>
vars == <<pc, at, playerVars, ongoing, occupied, fieldVars, gor, result>>

(***************************************************************************)
(* A connection goroutine is                                               *)
(*   "offline" not logged in          "idle"      waiting for a command    *)
(*   "claimed", "registered"          in ATTACK, starting a fight          *)
(*   "send", "recv", "reply"          in ATTACK, playing a round           *)
(*   "fleeFree", "fleeClose"          in FLEE                              *)
(*   "quitFree", "quitClose", "quit"  in cleanupPlayerData                 *)
(* A fight's goroutine is                                                  *)
(*   "none"    not running            "wait"      waiting for an attack    *)
(*   "round"   resolving a round      "again"     sending a result         *)
(*   "release", "settle", "last"      ending a decided fight               *)
(***************************************************************************)
PC == {"offline", "idle", "claimed", "registered", "send", "recv", "reply",
       "fleeFree", "fleeClose", "quitFree", "quitClose", "quit"}
Gor == {"none", "wait", "round", "again", "release", "settle", "last"}
Status == {"healthy", "weakened", "injured", "engaged"}

(* RoundResult, without the rolls. *)
Result == [playerHP : Nat, npcHP : Nat, dealt : Nat, taken : Nat,
           playerDodged : BOOLEAN, npcDodged : BOOLEAN]
NoResult == [playerHP |-> 0, npcHP |-> 0, dealt |-> 0, taken |-> 0,
             playerDodged |-> FALSE, npcDodged |-> FALSE]

Init ==
    /\ pc = [p \in Players |-> "offline"]
    /\ at = [p \in Players |-> None]
    /\ loc = [p \in Players |-> StartZone]
    /\ hp = [p \in Players |-> MaxHP]
    /\ status = [p \in Players |-> "healthy"]
    /\ ongoing = [p \in Players |-> None]
    /\ occupied = [n \in NPCs |-> FALSE]
    /\ owner = [f \in Fields |-> None]
    /\ npc = [f \in Fields |-> None]
    /\ npcHP = [f \in Fields |-> 0]
    /\ closed = [f \in Fields |-> FALSE]
    /\ gor = [f \in Fields |-> "none"]
    /\ result = [f \in Fields |-> NoResult]

Goto(p, l) == pc' = [pc EXCEPT ![p] = l]
GorGoto(f, l) == gor' = [gor EXCEPT ![f] = l]

(* setPlayerHPStatus: the status that HP h gives. *)
HPStatus(h) ==
    IF 10 * h <= 3 * MaxHP THEN "injured"
    ELSE IF 10 * h <= 6 * MaxHP THEN "weakened"
    ELSE "healthy"

(* BattleField f is garbage. *)
Discard(f) ==
    /\ owner' = [owner EXCEPT ![f] = None]
    /\ npc' = [npc EXCEPT ![f] = None]
    /\ npcHP' = [npcHP EXCEPT ![f] = 0]
    /\ closed' = [closed EXCEPT ![f] = FALSE]

(* A definition named ...Fault is a seeded fault: a mutation run puts it   *)
(* in the place of the definition that follows it.                         *)

------------------------------------------------------------------------------
(* Sessions, as far as fights are concerned (see module World) *)

(* CONNECT: a new Player at the starting zone. *)
Login(p) ==
    /\ pc[p] = "offline"
    /\ Goto(p, "idle")
    /\ loc' = [loc EXCEPT ![p] = StartZone]
    /\ hp' = [hp EXCEPT ![p] = MaxHP]
    /\ status' = [status EXCEPT ![p] = "healthy"]
    /\ UNCHANGED <<at, ongoing, occupied, fieldVars, gor, result>>

(* MOVE, refused by playerInBattle. *)
CanMoveFault(p) == TRUE
CanMove(p) == ongoing[p] = None

Move(p, z) ==
    /\ pc[p] = "idle"
    /\ CanMove(p)
    /\ loc' = [loc EXCEPT ![p] = z]
    /\ UNCHANGED <<pc, at, hp, status, ongoing, occupied, fieldVars, gor, result>>

(* TALK to a healer below MaxHP, allowed during a fight too: full HP, and  *)
(* the status is recalculated from it.                                     *)
Heal(p) ==
    /\ pc[p] = "idle"
    /\ loc[p] \in HealerZones
    /\ hp[p] < MaxHP
    /\ hp' = [hp EXCEPT ![p] = MaxHP]
    /\ status' = [status EXCEPT ![p] = HPStatus(MaxHP)]
    /\ UNCHANGED <<pc, at, loc, ongoing, occupied, fieldVars, gor, result>>

------------------------------------------------------------------------------
(* ATTACK in the connection goroutine *)

(* A player who is not engaged asks canBeFought, which claims a free NPC   *)
(* of the player's zone under NPCMu; then a new BattleField is made.       *)
CanBeFoughtFault(n) == TRUE
CanBeFought(n) == ~occupied[n]

Unused(f) == /\ gor[f] = "none"
             /\ \A p \in Players : at[p] # f /\ ongoing[p] # f

AttackNew(p, n, f) ==
    /\ pc[p] = "idle"
    /\ status[p] # "engaged"
    /\ loc[p] = NPCZone[n]
    /\ CanBeFought(n)
    /\ Unused(f)
    /\ Goto(p, "claimed")
    /\ occupied' = [occupied EXCEPT ![n] = TRUE]
    /\ at' = [at EXCEPT ![p] = f]
    /\ owner' = [owner EXCEPT ![f] = p]
    /\ npc' = [npc EXCEPT ![f] = n]
    /\ npcHP' = [npcHP EXCEPT ![f] = NPCMaxHP]
    /\ UNCHANGED <<playerVars, ongoing, closed, gor, result>>

(* The fight is entered into OngoingBattles, under its mutex. *)
Register(p) ==
    /\ pc[p] = "claimed"
    /\ Goto(p, "registered")
    /\ ongoing' = [ongoing EXCEPT ![p] = at[p]]
    /\ UNCHANGED <<at, playerVars, occupied, fieldVars, gor, result>>

(* The player becomes engaged, the room is told, and the goroutine of the  *)
(* fight is started.                                                       *)
Engage(p) ==
    /\ pc[p] = "registered"
    /\ Goto(p, "send")
    /\ status' = [status EXCEPT ![p] = "engaged"]
    /\ GorGoto(at[p], "wait")
    /\ UNCHANGED <<at, loc, hp, ongoing, occupied, fieldVars, result>>

(* An engaged player's ATTACK looks its fight up; the target is ignored.   *)
(* Without an entry the answer is an internal error.                       *)
AttackAgain(p) ==
    /\ pc[p] = "idle"
    /\ status[p] = "engaged"
    /\ ongoing[p] # None
    /\ Goto(p, "send")
    /\ at' = [at EXCEPT ![p] = ongoing[p]]
    /\ UNCHANGED <<playerVars, ongoing, occupied, fieldVars, gor, result>>

(* The two goroutines meet on PlayerAttack. *)
SendAttack(p) ==
    /\ pc[p] = "send"
    /\ gor[at[p]] = "wait"
    /\ ~closed[at[p]]
    /\ Goto(p, "recv")
    /\ GorGoto(at[p], "round")
    /\ UNCHANGED <<at, playerVars, ongoing, occupied, fieldVars, result>>

(* They meet on BattleRoundResult; the fight goes on, or its goroutine     *)
(* ends.                                                                   *)
AfterResultFault(f) == "none"
AfterResult(f) == IF gor[f] = "again" THEN "wait" ELSE "none"

ReceiveResult(p) ==
    /\ pc[p] = "recv"
    /\ gor[at[p]] \in {"again", "last"}
    /\ Goto(p, "reply")
    /\ GorGoto(at[p], AfterResult(at[p]))
    /\ UNCHANGED <<at, playerVars, ongoing, occupied, fieldVars, result>>

(* The round is reported; a defeated player respawns. *)
Reply(p) ==
    /\ pc[p] = "reply"
    /\ Goto(p, "idle")
    /\ loc' = IF result[at[p]].playerHP <= 0
              THEN [loc EXCEPT ![p] = RespawnZone] ELSE loc
    /\ result' = [result EXCEPT ![at[p]] = NoResult]
    /\ at' = [at EXCEPT ![p] = None]
    /\ IF gor[at[p]] = "none" THEN Discard(at[p]) ELSE UNCHANGED fieldVars
    /\ UNCHANGED <<hp, status, ongoing, occupied, gor>>

------------------------------------------------------------------------------
(* processBattle, the goroutine of a fight *)

(* calcDmgDealt *)
Dealt(damage, dodged) == IF dodged THEN 0 ELSE damage
LeftFault(h, damage) == h - damage
Left(h, damage) == IF damage >= h THEN 0 ELSE h - damage

(* A round in which the player (first) or the NPC strikes first, a tie     *)
(* being the player's: h and e are the HP before it, hit and blow the      *)
(* damage rolled, playerDodges and npcDodges the dodges.  The second side  *)
(* strikes only if it still stands, and a dodge of a strike that never     *)
(* came is not reported.  life is the player's HP, which may be negative.  *)
RoundFault(h, e, first, hit, blow, playerDodges, npcDodges) ==
    LET dealt == Dealt(hit, npcDodges)
        taken == Dealt(blow, playerDodges)
    IN  [life |-> h - taken, npcHP |-> Left(e, dealt), dealt |-> dealt,
         taken |-> taken, playerDodged |-> playerDodges, npcDodged |-> npcDodges]

Round(h, e, first, hit, blow, playerDodges, npcDodges) ==
    LET dealt == Dealt(hit, npcDodges)
        taken == Dealt(blow, playerDodges)
        npcStrikes == ~first \/ Left(e, dealt) > 0
        playerStrikes == first \/ h - taken > 0
    IN  [life         |-> IF npcStrikes THEN h - taken ELSE h,
         npcHP        |-> IF playerStrikes THEN Left(e, dealt) ELSE e,
         dealt        |-> IF playerStrikes THEN dealt ELSE 0,
         taken        |-> IF npcStrikes THEN taken ELSE 0,
         playerDodged |-> npcStrikes /\ playerDodges,
         npcDodged    |-> playerStrikes /\ npcDodges]

(* One round; the reported player HP is not negative. *)
ResolveRound(f) ==
    /\ gor[f] = "round"
    /\ \E hit \in PlayerDamage, blow \in NPCDamage,
          first, playerDodges, npcDodges \in BOOLEAN :
        LET r == Round(hp[owner[f]], npcHP[f], first, hit, blow,
                       playerDodges, npcDodges)
        IN  /\ hp' = [hp EXCEPT ![owner[f]] = r.life]
            /\ npcHP' = [npcHP EXCEPT ![f] = r.npcHP]
            /\ result' = [result EXCEPT ![f] =
                   [playerHP |-> IF r.life < 0 THEN 0 ELSE r.life,
                    npcHP |-> r.npcHP, dealt |-> r.dealt, taken |-> r.taken,
                    playerDodged |-> r.playerDodged,
                    npcDodged |-> r.npcDodged]]
            /\ GorGoto(f, IF r.life <= 0 \/ r.npcHP = 0 THEN "release" ELSE "again")
    /\ UNCHANGED <<pc, at, loc, status, ongoing, occupied, owner, npc, closed>>

(* The fight is decided: the NPC is free again, under NPCMu ... *)
ReleaseFault(f) == occupied
Release(f) == [occupied EXCEPT ![npc[f]] = FALSE]

ReleaseNPC(f) ==
    /\ gor[f] = "release"
    /\ GorGoto(f, "settle")
    /\ occupied' = Release(f)
    /\ UNCHANGED <<pc, at, playerVars, ongoing, fieldVars, result>>

(* ... then the entry in OngoingBattles is deleted, a defeated player gets *)
(* half of MaxHP, rounded up, and the status is recalculated.              *)
AfterFightFault(h) == h
AfterFight(h) == IF h <= 0 THEN (MaxHP + 1) \div 2 ELSE h

Settle(f) ==
    /\ gor[f] = "settle"
    /\ GorGoto(f, "last")
    /\ ongoing' = [ongoing EXCEPT ![owner[f]] = None]
    /\ hp' = [hp EXCEPT ![owner[f]] = AfterFight(@)]
    /\ status' = [status EXCEPT ![owner[f]] = HPStatus(AfterFight(hp[owner[f]]))]
    /\ UNCHANGED <<pc, at, loc, occupied, fieldVars, result>>

(* PlayerAttack was closed: the goroutine returns. *)
Stop(f) ==
    /\ gor[f] = "wait"
    /\ closed[f]
    /\ GorGoto(f, "none")
    /\ Discard(f)
    /\ UNCHANGED <<pc, at, playerVars, ongoing, occupied, result>>

------------------------------------------------------------------------------
(* FLEE and the end of a connection *)

(* terminateBattle: the entry in OngoingBattles is deleted ... *)
UnregisterFault(p, l) ==
    /\ Goto(p, l)
    /\ at' = [at EXCEPT ![p] = ongoing[p]]
    /\ UNCHANGED <<playerVars, ongoing, occupied, fieldVars, gor, result>>

Unregister(p, l) ==
    /\ Goto(p, l)
    /\ at' = [at EXCEPT ![p] = ongoing[p]]
    /\ ongoing' = [ongoing EXCEPT ![p] = None]
    /\ UNCHANGED <<playerVars, occupied, fieldVars, gor, result>>

(* ... then the NPC is free again, and the room is told. *)
FreeNPC(p, l) ==
    /\ Goto(p, l)
    /\ occupied' = [occupied EXCEPT ![npc[at[p]]] = FALSE]
    /\ UNCHANGED <<at, playerVars, ongoing, fieldVars, gor, result>>

(* close(PlayerAttack) *)
ClosedFault(p) == closed
Closed(p) == [closed EXCEPT ![at[p]] = TRUE]

(* FLEE: terminateBattle, then PlayerAttack is closed and the status is    *)
(* recalculated.                                                           *)
Flee(p) ==
    /\ pc[p] = "idle"
    /\ ongoing[p] # None
    /\ Unregister(p, "fleeFree")

FleeFree(p) ==
    /\ pc[p] = "fleeFree"
    /\ FreeNPC(p, "fleeClose")

FleeStatusFault(p) == status
FleeStatus(p) == [status EXCEPT ![p] = HPStatus(hp[p])]

FleeClose(p) ==
    /\ pc[p] = "fleeClose"
    /\ Goto(p, "idle")
    /\ closed' = Closed(p)
    /\ status' = FleeStatus(p)
    /\ at' = [at EXCEPT ![p] = None]
    /\ UNCHANGED <<loc, hp, ongoing, occupied, owner, npc, npcHP, gor, result>>

(* The connection ends between two commands; cleanupPlayerData terminates  *)
(* the fight if there is one.                                              *)
Disconnect(p) ==
    /\ pc[p] = "idle"
    /\ IF ongoing[p] # None
       THEN Unregister(p, "quitFree")
       ELSE /\ Goto(p, "quit")
            /\ UNCHANGED <<at, playerVars, ongoing, occupied, fieldVars, gor, result>>

QuitFree(p) ==
    /\ pc[p] = "quitFree"
    /\ FreeNPC(p, "quitClose")

QuitClose(p) ==
    /\ pc[p] = "quitClose"
    /\ Goto(p, "quit")
    /\ closed' = Closed(p)
    /\ at' = [at EXCEPT ![p] = None]
    /\ UNCHANGED <<playerVars, ongoing, occupied, owner, npc, npcHP, gor, result>>

(* The rest of the cleanup: the name is free again. *)
GoOffline(p) ==
    /\ pc[p] = "quit"
    /\ Goto(p, "offline")
    /\ UNCHANGED <<at, playerVars, ongoing, occupied, fieldVars, gor, result>>

------------------------------------------------------------------------------
Command(p) ==
    \/ Login(p)
    \/ \E z \in Zones : Move(p, z)
    \/ Heal(p)
    \/ \E n \in NPCs, f \in Fields : AttackNew(p, n, f)
    \/ AttackAgain(p)
    \/ Flee(p)
    \/ Disconnect(p)

(* What a connection goroutine goes on to do by itself ... *)
Continue(p) ==
    \/ Register(p)
    \/ Engage(p)
    \/ SendAttack(p)
    \/ ReceiveResult(p)
    \/ Reply(p)
    \/ FleeFree(p)
    \/ FleeClose(p)
    \/ QuitFree(p)
    \/ QuitClose(p)
    \/ GoOffline(p)

(* ... and a fight's goroutine. *)
Fight(f) ==
    \/ ResolveRound(f)
    \/ ReleaseNPC(f)
    \/ Settle(f)
    \/ Stop(f)

Next ==
    \/ \E p \in Players : Command(p) \/ Continue(p)
    \/ \E f \in Fields : Fight(f)

Spec == Init /\ [][Next]_vars

(* Every runnable goroutine is scheduled; nothing is assumed of players but*)
(* that they read.  A PlayerMu or GroupMu that a circle of GROUP JOINs     *)
(* keeps for ever (module Groups, NoCircle) is outside this module.        *)
FairSpec ==
    /\ Spec
    /\ \A p \in Players : WF_vars(Continue(p))
    /\ \A f \in Fields : WF_vars(Fight(f))

------------------------------------------------------------------------------
(* Properties *)

(* Shapes, and which BattleField a goroutine refers to at which point. *)
TypeOK ==
    /\ pc \in [Players -> PC]
    /\ at \in [Players -> Fields \cup {None}]
    /\ loc \in [Players -> Zones]
    /\ hp \in [Players -> Int]
    /\ status \in [Players -> Status]
    /\ ongoing \in [Players -> Fields \cup {None}]
    /\ occupied \in [NPCs -> BOOLEAN]
    /\ owner \in [Fields -> Players \cup {None}]
    /\ npc \in [Fields -> NPCs \cup {None}]
    /\ npcHP \in [Fields -> Nat]
    /\ closed \in [Fields -> BOOLEAN]
    /\ gor \in [Fields -> Gor]
    /\ result \in [Fields -> Result]
    /\ \A p \in Players : at[p] = None <=> pc[p] \in {"offline", "idle", "quit"}

(* Fight f has claimed its NPC and not given it back: it is being started, *)
(* is waiting for its player, in a round, or being terminated.             *)
Holds(f) ==
    \/ gor[f] \in {"round", "again", "release"}
    \/ gor[f] = "wait" /\ ongoing[owner[f]] = f
    \/ \E p \in Players :
         at[p] = f /\ pc[p] \in {"claimed", "registered", "fleeFree", "quitFree"}

(* A one-on-one fight: an NPC is marked occupied exactly while a fight     *)
(* holds it, and never do two fights hold the same NPC.  So no FLEE,       *)
(* defeat or lost connection leaves an NPC occupied for ever, and none     *)
(* frees an NPC that somebody else has claimed meanwhile.                  *)
OneFightPerNPC ==
    /\ \A n \in NPCs : occupied[n] <=> \E f \in Fields : Holds(f) /\ npc[f] = n
    /\ \A f, g \in Fields : Holds(f) /\ Holds(g) /\ npc[f] = npc[g] => f = g

(* A player between two commands is engaged exactly if OngoingBattles has  *)
(* a fight for it; that fight is the player's own, its goroutine waits for *)
(* an attack on an open channel, and its NPC is undefeated and in the room *)
(* the player is in.  So ATTACK never answers with an internal error, and  *)
(* never meets the fight of an earlier session of the same name.           *)
EngagedIffFighting ==
    \A p \in Players : pc[p] = "idle" =>
        /\ status[p] = "engaged" <=> ongoing[p] # None
        /\ \A f \in Fields : ongoing[p] = f =>
             /\ owner[f] = p
             /\ gor[f] = "wait" /\ ~closed[f]
             /\ npcHP[f] > 0
             /\ loc[p] = NPCZone[npc[f]]

(* The channel PlayerAttack is never closed twice and never sent on after  *)
(* it was closed, either of which would panic and end the server.          *)
NoPanic ==
    \A p \in Players :
        pc[p] \in {"send", "fleeClose", "quitClose"} => ~closed[at[p]]

(* A player that waits for a command is alive, has at most MaxHP, and the  *)
(* status outside a fight is the one that the HP gives.                    *)
HPSound ==
    \A p \in Players : pc[p] = "idle" =>
        /\ hp[p] \in 1..MaxHP
        /\ status[p] \in {"engaged", HPStatus(hp[p])}

(* The fights, the NPCs and the players agree, with the types above.       *)
FightsSound == TypeOK /\ OneFightPerNPC /\ EngagedIffFighting /\ HPSound

(* What ATTACK answers is true of the state the player is in then: both    *)
(* sides never fall in one round; the HP reported is the player's HP, or 0 *)
(* with half of MaxHP restored; the status is engaged exactly if the fight *)
(* goes on; no dodge is reported of a strike that hit or never came.       *)
ReplyTruthful ==
    \A p \in Players : pc[p] = "reply" =>
        LET r == result[at[p]]
        IN  /\ r.playerHP > 0 \/ r.npcHP > 0
            /\ hp[p] = IF r.playerHP = 0 THEN (MaxHP + 1) \div 2 ELSE r.playerHP
            /\ status[p] = "engaged" <=> r.playerHP > 0 /\ r.npcHP > 0
            /\ ongoing[p] = at[p] <=> r.playerHP > 0 /\ r.npcHP > 0
            /\ r.playerDodged => r.taken = 0
            /\ r.npcDodged => r.dealt = 0 /\ r.npcHP > 0

(* Every command is answered and every cleanup ends: the goroutines never  *)
(* wait for each other for ever.                                           *)
CommandsEnd ==
    \A p \in Players :
        pc[p] \notin {"idle", "offline"} ~> pc[p] \in {"idle", "offline"}

(* No goroutine of a fight outlives its player's session for ever. *)
NoGoroutineLeak ==
    \A f \in Fields :
        (gor[f] # "none" /\ pc[owner[f]] = "offline") ~> gor[f] = "none"
==============================================================================
