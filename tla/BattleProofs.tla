---------------------------- MODULE BattleProofs -----------------------------
(***************************************************************************)
(* Proofs about Battle for any number of players, NPCs and fights, and any *)
(* hit points and damage.                                                  *)
(***************************************************************************)
EXTENDS Battle, TLAPS

(***************************************************************************)
(* The inductive invariant.  A BattleField belongs to one player, and a    *)
(* player's goroutine and OngoingBattles refer only to its own; so a step  *)
(* of one player, or of its fight, leaves all others alone.                *)
(***************************************************************************)

Refers(p, f) == at[p] = f \/ ongoing[p] = f

(* The goroutine of f is at work, which it is only while its player waits  *)
(* for the result; and a channel is closed only when nobody has it.        *)
Running(f) == gor[f] \in {"round", "again", "release", "settle", "last"}

FieldInv(f) ==
    /\ \A p \in Players : Refers(p, f) => owner[f] = p
    /\ gor[f] # "none" => owner[f] \in Players
    /\ Running(f) => pc[owner[f]] = "recv" /\ at[owner[f]] = f
    /\ closed[f] => gor[f] = "wait" /\ \A p \in Players : ~Refers(p, f)

Fit(p) == hp[p] \in 1..MaxHP
Calm(p) == Fit(p) /\ ongoing[p] = None /\ status[p] = HPStatus(hp[p])

(* f is a fight of p with an NPC that stands before it. *)
Open(p, f) ==
    /\ npc[f] \in NPCs /\ ~closed[f]
    /\ npcHP[f] > 0 /\ loc[p] = NPCZone[npc[f]]
Fighting(p, f) == Fit(p) /\ ongoing[p] = f /\ status[p] = "engaged" /\ Open(p, f)

Honest(r) ==
    /\ r.playerHP > 0 \/ r.npcHP > 0
    /\ r.playerDodged => r.taken = 0
    /\ r.npcDodged => r.dealt = 0 /\ r.npcHP > 0
Over(r) == r.playerHP = 0 \/ r.npcHP = 0

(* The fight of p goes on after result r, or is decided, or settled.       *)
GoesOn(p, f, r) == Fighting(p, f) /\ Honest(r) /\ ~Over(r) /\ hp[p] = r.playerHP
Decided(p, f, r) ==
    /\ ongoing[p] = f /\ status[p] = "engaged" /\ npc[f] \in NPCs /\ ~closed[f]
    /\ Honest(r) /\ Over(r)
    /\ hp[p] <= MaxHP
    /\ IF r.playerHP = 0 THEN hp[p] <= 0 ELSE hp[p] = r.playerHP
Settled(p, f, r) ==
    /\ Calm(p) /\ ~closed[f]
    /\ Honest(r) /\ Over(r)
    /\ hp[p] = IF r.playerHP = 0 THEN (MaxHP + 1) \div 2 ELSE r.playerHP

InRound(p, f) ==
    /\ Running(f)
    /\ gor[f] = "round" => Fighting(p, f)
    /\ gor[f] = "again" => GoesOn(p, f, result[f])
    /\ gor[f] \in {"release", "settle"} => Decided(p, f, result[f])
    /\ gor[f] = "last" => Settled(p, f, result[f])

PlayerInv(p) ==
    /\ pc[p] \in {"offline", "quit"} => ongoing[p] = None
    /\ pc[p] = "idle" =>
         \/ Calm(p)
         \/ ongoing[p] \in Fields /\ Fighting(p, ongoing[p]) /\ gor[ongoing[p]] = "wait"
    /\ pc[p] = "claimed" => Calm(p) /\ Open(p, at[p]) /\ gor[at[p]] = "none"
    /\ pc[p] = "registered" =>
         Fit(p) /\ ongoing[p] = at[p] /\ Open(p, at[p]) /\ gor[at[p]] = "none"
    /\ pc[p] = "send" => Fighting(p, at[p]) /\ gor[at[p]] = "wait"
    /\ pc[p] = "recv" => InRound(p, at[p])
    /\ pc[p] = "reply" =>
         \/ GoesOn(p, at[p], result[at[p]]) /\ gor[at[p]] = "wait"
         \/ Settled(p, at[p], result[at[p]]) /\ gor[at[p]] = "none"
    /\ pc[p] \in {"fleeFree", "fleeClose", "quitFree", "quitClose"} =>
         /\ Fit(p) /\ ongoing[p] = None
         /\ npc[at[p]] \in NPCs /\ ~closed[at[p]] /\ gor[at[p]] = "wait"

(* Holds of module Battle, said of the fight's owner. *)
OwnerHolds(f) ==
    /\ owner[f] \in Players
    /\ \/ gor[f] \in {"round", "again", "release"}
       \/ gor[f] = "wait" /\ ongoing[owner[f]] = f
       \/ /\ at[owner[f]] = f
          /\ pc[owner[f]] \in {"claimed", "registered", "fleeFree", "quitFree"}

NPCInv ==
    /\ \A f \in Fields : OwnerHolds(f) => npc[f] \in NPCs /\ occupied[npc[f]]
    /\ \A n \in NPCs : occupied[n] => \E f \in Fields : OwnerHolds(f) /\ npc[f] = n
    /\ \A f, g \in Fields : OwnerHolds(f) /\ OwnerHolds(g) /\ npc[f] = npc[g] => f = g

BattleInv ==
    /\ TypeOK
    /\ \A f \in Fields : FieldInv(f)
    /\ \A p \in Players : PlayerInv(p)
    /\ NPCInv
------------------------------------------------------------------------------
(* A step of player p and of the BattleField f that it is using.           *)

Frame(p, f) ==
    /\ \A q \in Players \ {p} :
         /\ pc'[q] = pc[q] /\ at'[q] = at[q] /\ ongoing'[q] = ongoing[q]
         /\ loc'[q] = loc[q] /\ hp'[q] = hp[q] /\ status'[q] = status[q]
    /\ \A g \in Fields \ {f} :
         /\ owner'[g] = owner[g] /\ npc'[g] = npc[g] /\ npcHP'[g] = npcHP[g]
         /\ closed'[g] = closed[g] /\ gor'[g] = gor[g] /\ result'[g] = result[g]

Near(p, f) == at[p] \in {f, None} /\ ongoing[p] \in {f, None}
Alone(p, f) == \A q \in Players \ {p} : ~Refers(q, f)

(* Such a step leaves the other players and BattleFields in order.         *)
LEMMA OthersKept ==
    ASSUME BattleInv, TypeOK', NEW p \in Players, NEW f \in Fields \cup {None},
           Frame(p, f), Near(p, f), Near(p, f)', f \in Fields => Alone(p, f)
    PROVE  /\ \A q \in Players \ {p} : PlayerInv(q)'
           /\ \A g \in Fields \ {f} : FieldInv(g)'
           /\ \A g \in Fields \ {f} : OwnerHolds(g)' <=> OwnerHolds(g)
PROOF
<1>1. None \notin Fields /\ None \notin Players  BY BattleAssumption DEF BattleAssumption
<1>2. ASSUME NEW q \in Players \ {p}
      PROVE  PlayerInv(q)'
  <2>1. PlayerInv(q) /\ (at[q] = None <=> pc[q] \in {"offline", "idle", "quit"})
        /\ at[q] \in Fields \cup {None} /\ ongoing[q] \in Fields \cup {None}
    BY DEF BattleInv, TypeOK
  <2>2. at[q] # f \/ at[q] = None
    BY DEF Alone, Refers
  <2>3. ongoing[q] # f \/ ongoing[q] = None
    BY DEF Alone, Refers
  <2>4. at'[q] = at[q] /\ ongoing'[q] = ongoing[q] /\ pc'[q] = pc[q]
        /\ loc'[q] = loc[q] /\ hp'[q] = hp[q] /\ status'[q] = status[q]
    BY DEF Frame
  <2>5. ASSUME NEW g \in Fields \ {f}
        PROVE  /\ npc'[g] = npc[g] /\ npcHP'[g] = npcHP[g]
               /\ closed'[g] = closed[g] /\ gor'[g] = gor[g] /\ result'[g] = result[g]
    BY DEF Frame
  <2>6. CASE pc[q] \in {"offline", "idle", "quit"}
    <3>1. ongoing[q] \in Fields => ongoing[q] \in Fields \ {f}  BY <1>1, <2>3
    <3> QED BY <2>1, <2>4, <2>5, <2>6, <3>1 DEF PlayerInv, Calm, Fit, Fighting, Open
  <2>7. CASE pc[q] \notin {"offline", "idle", "quit"}
    <3>1. at[q] \in Fields \ {f}  BY <2>1, <2>2, <2>7
    <3> QED BY <2>1, <2>4, <2>5, <2>7, <3>1
        DEF PlayerInv, Calm, Fit, Fighting, Open, InRound, Running, GoesOn, Decided, Settled
  <2> QED BY <2>6, <2>7
<1>3. ASSUME NEW g \in Fields \ {f}
      PROVE  FieldInv(g)' /\ (OwnerHolds(g)' <=> OwnerHolds(g))
  <2>1. FieldInv(g) /\ ~Refers(p, g) /\ ~Refers(p, g)'
    BY <1>1 DEF BattleInv, Near, Refers
  <2>2. \A q \in Players : Refers(q, g)' <=> Refers(q, g)
    BY <2>1 DEF Frame, Refers
  <2>3. owner'[g] = owner[g] /\ closed'[g] = closed[g] /\ gor'[g] = gor[g]
    BY DEF Frame
  <2>4. \A q \in Players \ {p} :
          pc'[q] = pc[q] /\ at'[q] = at[q] /\ ongoing'[q] = ongoing[q]
    BY DEF Frame
  <2>5. Running(g) => owner[g] \in Players \ {p}
    BY <2>1 DEF FieldInv, Running, Refers
  <2>6. FieldInv(g)'
    BY <2>1, <2>2, <2>3, <2>4, <2>5 DEF FieldInv, Running
  <2>7. OwnerHolds(g)' <=> OwnerHolds(g)
    <3>1. CASE owner[g] = p
      BY <2>1, <2>3, <3>1 DEF OwnerHolds, Refers
    <3>2. CASE owner[g] # p
      BY <2>3, <2>4, <3>2 DEF OwnerHolds
    <3> QED BY <3>1, <3>2
  <2> QED BY <2>6, <2>7
<1> QED BY <1>2, <1>3

(* A step that neither takes nor frees an NPC.                             *)
LEMMA QuietStep ==
    ASSUME BattleInv, TypeOK', NEW p \in Players, NEW f \in Fields \cup {None},
           Frame(p, f), Near(p, f), Near(p, f)', f \in Fields => Alone(p, f),
           PlayerInv(p)', f \in Fields => FieldInv(f)',
           f \in Fields => (OwnerHolds(f)' <=> OwnerHolds(f)),
           f \in Fields /\ OwnerHolds(f) => npc'[f] = npc[f],
           occupied' = occupied
    PROVE  BattleInv'
PROOF
<1>1. \A q \in Players : PlayerInv(q)'  BY OthersKept
<1>2. \A g \in Fields : FieldInv(g)'  BY OthersKept
<1>3. \A g \in Fields : OwnerHolds(g)' <=> OwnerHolds(g)  BY OthersKept
<1>4. \A g \in Fields : OwnerHolds(g) => npc'[g] = npc[g]  BY DEF Frame
<1>5. NPCInv  BY DEF BattleInv
<1>6. NPCInv'  BY <1>3, <1>4, <1>5 DEF NPCInv
<1> QED BY <1>1, <1>2, <1>6 DEF BattleInv

(* A step that frees the NPC of the fight.                                 *)
LEMMA FreeingStep ==
    ASSUME BattleInv, TypeOK', NEW p \in Players, NEW f \in Fields,
           Frame(p, f), Near(p, f), Near(p, f)', Alone(p, f),
           PlayerInv(p)', FieldInv(f)',
           OwnerHolds(f), ~OwnerHolds(f)',
           occupied' = [occupied EXCEPT ![npc[f]] = FALSE]
    PROVE  BattleInv'
PROOF
<1>1. \A q \in Players : PlayerInv(q)'  BY OthersKept
<1>2. \A g \in Fields : FieldInv(g)'  BY OthersKept
<1>3. \A g \in Fields : OwnerHolds(g)' <=> g # f /\ OwnerHolds(g)  BY OthersKept
<1>4. \A g \in Fields \ {f} : npc'[g] = npc[g]  BY DEF Frame
<1>5. NPCInv /\ occupied \in [NPCs -> BOOLEAN]  BY DEF BattleInv, TypeOK
<1>6. npc[f] \in NPCs  BY <1>5 DEF NPCInv
<1>7. \A n \in NPCs : occupied'[n] <=> n # npc[f] /\ occupied[n]  BY <1>5, <1>6
<1>8. NPCInv'
  <2>1. ASSUME NEW g \in Fields, OwnerHolds(g)'
        PROVE  npc'[g] \in NPCs /\ occupied'[npc'[g]]
    <3>1. g # f /\ OwnerHolds(g) /\ npc'[g] = npc[g]  BY <1>3, <1>4, <2>1
    <3>2. npc[g] \in NPCs /\ occupied[npc[g]] /\ npc[g] # npc[f]
      BY <1>5, <3>1 DEF NPCInv
    <3> QED BY <1>7, <3>1, <3>2
  <2>2. ASSUME NEW n \in NPCs, occupied'[n]
        PROVE  \E g \in Fields : OwnerHolds(g)' /\ npc'[g] = n
    <3>1. PICK g \in Fields : OwnerHolds(g) /\ npc[g] = n
      BY <1>5, <1>7, <2>2 DEF NPCInv
    <3>2. g # f  BY <1>7, <2>2, <3>1
    <3> QED BY <1>3, <1>4, <3>1, <3>2
  <2>3. ASSUME NEW g \in Fields, NEW h \in Fields,
               OwnerHolds(g)', OwnerHolds(h)', npc'[g] = npc'[h]
        PROVE  g = h
    BY <1>3, <1>4, <1>5, <2>3 DEF NPCInv
  <2> QED BY <2>1, <2>2, <2>3 DEF NPCInv
<1> QED BY <1>1, <1>2, <1>8 DEF BattleInv

(* A step that takes a free NPC for a fight.                               *)
LEMMA TakingStep ==
    ASSUME BattleInv, TypeOK', NEW p \in Players, NEW f \in Fields, NEW n \in NPCs,
           Frame(p, f), Near(p, f), Near(p, f)', Alone(p, f),
           PlayerInv(p)', FieldInv(f)',
           ~OwnerHolds(f), OwnerHolds(f)', npc'[f] = n, ~occupied[n],
           occupied' = [occupied EXCEPT ![n] = TRUE]
    PROVE  BattleInv'
PROOF
<1>1. \A q \in Players : PlayerInv(q)'  BY OthersKept
<1>2. \A g \in Fields : FieldInv(g)'  BY OthersKept
<1>3. \A g \in Fields : OwnerHolds(g)' <=> g = f \/ OwnerHolds(g)  BY OthersKept
<1>4. \A g \in Fields \ {f} : npc'[g] = npc[g]  BY DEF Frame
<1>5. NPCInv /\ occupied \in [NPCs -> BOOLEAN]  BY DEF BattleInv, TypeOK
<1>6. \A m \in NPCs : occupied'[m] <=> m = n \/ occupied[m]  BY <1>5
<1>7. \A g \in Fields : OwnerHolds(g) => g # f /\ npc[g] \in NPCs /\ npc[g] # n
  BY <1>5 DEF NPCInv
<1>8. NPCInv'
  <2>1. ASSUME NEW g \in Fields, OwnerHolds(g)'
        PROVE  npc'[g] \in NPCs /\ occupied'[npc'[g]]
    <3>1. CASE g = f  BY <1>6, <3>1
    <3>2. CASE g # f  BY <1>3, <1>4, <1>5, <1>6, <2>1, <3>2 DEF NPCInv
    <3> QED BY <3>1, <3>2
  <2>2. ASSUME NEW m \in NPCs, occupied'[m]
        PROVE  \E g \in Fields : OwnerHolds(g)' /\ npc'[g] = m
    <3>1. CASE m = n  BY <3>1
    <3>2. CASE m # n  BY <1>3, <1>4, <1>5, <1>6, <1>7, <2>2, <3>2 DEF NPCInv
    <3> QED BY <3>1, <3>2
  <2>3. ASSUME NEW g \in Fields, NEW h \in Fields,
               OwnerHolds(g)', OwnerHolds(h)', npc'[g] = npc'[h]
        PROVE  g = h
    BY <1>3, <1>4, <1>5, <1>7, <2>3 DEF NPCInv
  <2> QED BY <2>1, <2>2, <2>3 DEF NPCInv
<1> QED BY <1>1, <1>2, <1>8 DEF BattleInv

------------------------------------------------------------------------------
(* The actions, one by one *)

(* The BattleField a player uses is at hand, or the one in OngoingBattles. *)
LEMMA InUse ==
    ASSUME BattleInv, NEW p \in Players
    PROVE  /\ at[p] \in Fields \cup {None} /\ ongoing[p] \in Fields \cup {None}
           /\ PlayerInv(p)
           /\ at[p] = None => pc[p] \in {"offline", "idle", "quit"}
           /\ pc[p] \in {"offline", "idle", "quit"} => at[p] = None
           /\ at[p] # None => Near(p, at[p])
           /\ at[p] = None => Near(p, ongoing[p])
PROOF
<1>1. /\ at[p] \in Fields \cup {None} /\ ongoing[p] \in Fields \cup {None}
      /\ PlayerInv(p) /\ pc[p] \in PC
      /\ (at[p] = None <=> pc[p] \in {"offline", "idle", "quit"})
  BY DEF BattleInv, TypeOK
<1>2. ASSUME at[p] # None
      PROVE  ongoing[p] \in {at[p], None}
  <2>1. CASE pc[p] = "recv"
    <3>1. InRound(p, at[p])  BY <1>1, <2>1 DEF PlayerInv
    <3> QED BY <3>1 DEF InRound, Running, Fighting, GoesOn, Decided, Settled, Calm
  <2>2. CASE pc[p] # "recv"
    BY <1>1, <1>2, <2>2 DEF PlayerInv, PC, Fighting, GoesOn, Settled, Calm
  <2> QED BY <2>1, <2>2
<1> QED BY <1>1, <1>2 DEF Near

LEMMA NobodyElse ==
    ASSUME BattleInv, NEW p \in Players, NEW f \in Fields, Refers(p, f)
    PROVE  owner[f] = p /\ Alone(p, f)
PROOF BY DEF BattleInv, FieldInv, Alone

LEMMA StatusOfHP ==
    ASSUME NEW h \in Int
    PROVE  HPStatus(h) \in Status \ {"engaged"}
PROOF BY BattleAssumption DEF HPStatus, Status, BattleAssumption

LEMMA LoginKeeps ==
    ASSUME BattleInv, NEW p \in Players, Login(p)
    PROVE  BattleInv'
PROOF
<1> USE DEF Login, Goto, playerVars, fieldVars
<1>1. TypeOK /\ PlayerInv(p)  BY DEF BattleInv
<1>2. HPStatus(MaxHP) = "healthy" /\ MaxHP \in Nat \ {0}
  BY BattleAssumption DEF HPStatus, BattleAssumption
<1>3. TypeOK'  BY <1>1, <1>2, BattleAssumption DEF TypeOK, PC, Status, BattleAssumption
<1>4. ongoing[p] = None /\ at[p] = None  BY <1>1 DEF TypeOK, PlayerInv
<1>5. Frame(p, None) /\ Near(p, None) /\ Near(p, None)'
  BY <1>1, <1>4 DEF Frame, Near, TypeOK
<1>6. pc'[p] = "idle" /\ hp'[p] = MaxHP /\ status'[p] = "healthy" /\ ongoing'[p] = None
  BY <1>1, <1>4 DEF TypeOK
<1>7. Calm(p)'  BY <1>2, <1>6 DEF Calm, Fit, HPStatus
<1>8. PlayerInv(p)'  BY <1>6, <1>7 DEF PlayerInv
<1>9. None \notin Fields  BY BattleAssumption DEF BattleAssumption
<1> QED BY <1>3, <1>5, <1>8, <1>9, QuietStep

LEMMA MoveKeeps ==
    ASSUME BattleInv, NEW p \in Players, NEW z \in Zones, Move(p, z)
    PROVE  BattleInv'
PROOF
<1> USE DEF Move, CanMove, fieldVars
<1>1. TypeOK /\ PlayerInv(p)  BY DEF BattleInv
<1>2. TypeOK'  BY <1>1 DEF TypeOK
<1>3. None \notin Fields  BY BattleAssumption DEF BattleAssumption
<1>4. ongoing[p] = None /\ at[p] = None  BY <1>1 DEF TypeOK
<1>5. Frame(p, None) /\ Near(p, None) /\ Near(p, None)'
  BY <1>1, <1>4 DEF Frame, Near, TypeOK
<1>6. Calm(p)  BY <1>1, <1>3, <1>4 DEF PlayerInv
<1>7. Calm(p)'  BY <1>6 DEF Calm, Fit, HPStatus
<1>8. PlayerInv(p)'  BY <1>7 DEF PlayerInv
<1> QED BY <1>2, <1>3, <1>5, <1>8, QuietStep

LEMMA HealKeeps ==
    ASSUME BattleInv, NEW p \in Players, Heal(p)
    PROVE  BattleInv'
PROOF
<1> USE DEF Heal, fieldVars
<1>1. TypeOK /\ PlayerInv(p)  BY DEF BattleInv
<1>2. MaxHP \in Nat \ {0} /\ HPStatus(MaxHP) \in Status
  BY BattleAssumption, StatusOfHP DEF BattleAssumption
<1>3. TypeOK'  BY <1>1, <1>2 DEF TypeOK
<1>4. None \notin Fields  BY BattleAssumption DEF BattleAssumption
<1>5. Calm(p)  BY <1>1, HealersApart DEF PlayerInv, Fighting, Open
<1>6. ongoing[p] = None /\ at[p] = None  BY <1>1, <1>5 DEF TypeOK, Calm
<1>7. Frame(p, None) /\ Near(p, None) /\ Near(p, None)'
  BY <1>1, <1>6 DEF Frame, Near, TypeOK
<1>8. hp'[p] = MaxHP /\ status'[p] = HPStatus(MaxHP)  BY <1>1 DEF TypeOK
<1>9. Calm(p)'  BY <1>2, <1>6, <1>8 DEF Calm, Fit, HPStatus
<1>10. PlayerInv(p)'  BY <1>9 DEF PlayerInv
<1> QED BY <1>3, <1>4, <1>7, <1>10, QuietStep

LEMMA GoOfflineKeeps ==
    ASSUME BattleInv, NEW p \in Players, GoOffline(p)
    PROVE  BattleInv'
PROOF
<1> USE DEF GoOffline, Goto, playerVars, fieldVars
<1>1. TypeOK /\ PlayerInv(p)  BY DEF BattleInv
<1>2. TypeOK'  BY <1>1 DEF TypeOK, PC
<1>3. ongoing[p] = None /\ at[p] = None  BY <1>1 DEF TypeOK, PlayerInv
<1>4. Frame(p, None) /\ Near(p, None) /\ Near(p, None)'
  BY <1>1, <1>3 DEF Frame, Near, TypeOK
<1>5. PlayerInv(p)'  BY <1>1, <1>3 DEF PlayerInv, TypeOK
<1>6. None \notin Fields  BY BattleAssumption DEF BattleAssumption
<1> QED BY <1>2, <1>4, <1>5, <1>6, QuietStep

LEMMA AttackNewKeeps ==
    ASSUME BattleInv, NEW p \in Players, NEW n \in NPCs, NEW f \in Fields,
           AttackNew(p, n, f)
    PROVE  BattleInv'
PROOF
<1> USE DEF AttackNew, Unused, CanBeFought, Goto, playerVars
<1>1. TypeOK /\ PlayerInv(p) /\ FieldInv(f)  BY DEF BattleInv
<1>2. None \notin Fields /\ NPCMaxHP \in Nat \ {0}
  BY BattleAssumption DEF BattleAssumption
<1>3. TypeOK'  BY <1>1, <1>2 DEF TypeOK, PC
<1>4. Calm(p) /\ at[p] = None /\ ongoing[p] = None
  BY <1>1 DEF PlayerInv, Fighting, Calm, TypeOK
<1>5. /\ pc'[p] = "claimed" /\ at'[p] = f /\ ongoing'[p] = None
      /\ owner'[f] = p /\ npc'[f] = n /\ npcHP'[f] = NPCMaxHP
      /\ occupied' = [occupied EXCEPT ![n] = TRUE]
  BY <1>1, <1>4 DEF TypeOK
<1>6. Frame(p, f) /\ Near(p, f) /\ Near(p, f)'
  BY <1>1, <1>4, <1>5 DEF Frame, Near, TypeOK
<1>7. Alone(p, f)  BY DEF Alone, Refers
<1>8. ~closed[f]  BY <1>1 DEF FieldInv
<1>9. PlayerInv(p)'
  <2>1. Calm(p)'  BY <1>4 DEF Calm, Fit, HPStatus
  <2>2. Open(p, f)'  BY <1>2, <1>5, <1>8 DEF Open
  <2> QED BY <1>5, <2>1, <2>2 DEF PlayerInv
<1>10. FieldInv(f)'
  <2>1. \A q \in Players : Refers(q, f)' => q = p
    BY <1>6, <1>7 DEF Frame, Alone, Refers
  <2> QED BY <1>5, <1>8, <2>1 DEF FieldInv, Running
<1>11. ~OwnerHolds(f)  BY DEF OwnerHolds
<1>12. OwnerHolds(f)'  BY <1>5 DEF OwnerHolds
<1> QED BY <1>3, <1>5, <1>6, <1>7, <1>9, <1>10, <1>11, <1>12, TakingStep

LEMMA RegisterKeeps ==
    ASSUME BattleInv, NEW p \in Players, Register(p)
    PROVE  BattleInv'
PROOF
<1> USE DEF Register, Goto, playerVars, fieldVars
<1> DEFINE f == at[p]
<1>1. TypeOK /\ PlayerInv(p)  BY DEF BattleInv
<1>2. f \in Fields /\ f # None  BY <1>1, InUse
<1>3. owner[f] = p /\ Alone(p, f) /\ FieldInv(f)
  BY <1>2, NobodyElse DEF Refers, BattleInv
<1>4. TypeOK'  BY <1>1, <1>2 DEF TypeOK, PC
<1>5. pc'[p] = "registered" /\ at'[p] = f /\ ongoing'[p] = f  BY <1>1 DEF TypeOK
<1>6. Calm(p) /\ Open(p, f) /\ gor[f] = "none"  BY <1>1 DEF PlayerInv
<1>7. Frame(p, f) /\ Near(p, f) /\ Near(p, f)'
  BY <1>1, <1>5, <1>6 DEF Frame, Near, TypeOK, Calm
<1>8. PlayerInv(p)'
  BY <1>5, <1>6 DEF PlayerInv, Calm, Fit, Open
<1>9. FieldInv(f)'
  <2>1. \A q \in Players : Refers(q, f)' => q = p  BY <1>3, <1>7 DEF Frame, Alone, Refers
  <2> QED BY <1>3, <1>6, <2>1 DEF FieldInv, Running, Open
<1>10. OwnerHolds(f)' /\ OwnerHolds(f)  BY <1>3, <1>5 DEF OwnerHolds
<1> QED BY <1>2, <1>3, <1>4, <1>7, <1>8, <1>9, <1>10, QuietStep

LEMMA EngageKeeps ==
    ASSUME BattleInv, NEW p \in Players, Engage(p)
    PROVE  BattleInv'
PROOF
<1> USE DEF Engage, Goto, GorGoto, fieldVars
<1> DEFINE f == at[p]
<1>1. TypeOK /\ PlayerInv(p)  BY DEF BattleInv
<1>2. f \in Fields /\ f # None  BY <1>1, InUse
<1>3. owner[f] = p /\ Alone(p, f) /\ FieldInv(f)
  BY <1>2, NobodyElse DEF Refers, BattleInv
<1>4. TypeOK'  BY <1>1, <1>2 DEF TypeOK, PC, Status, Gor
<1>5. Fit(p) /\ ongoing[p] = f /\ Open(p, f) /\ gor[f] = "none"
  BY <1>1 DEF PlayerInv
<1>6. pc'[p] = "send" /\ at'[p] = f /\ ongoing'[p] = f /\ status'[p] = "engaged"
      /\ gor'[f] = "wait"
  BY <1>1, <1>2, <1>5 DEF TypeOK
<1>7. Frame(p, f) /\ Near(p, f) /\ Near(p, f)'
  BY <1>1, <1>5, <1>6 DEF Frame, Near, TypeOK
<1>8. PlayerInv(p)'
  BY <1>5, <1>6 DEF PlayerInv, Fighting, Fit, Open
<1>9. FieldInv(f)'
  <2>1. \A q \in Players : Refers(q, f)' => q = p  BY <1>3, <1>7 DEF Frame, Alone, Refers
  <2> QED BY <1>3, <1>5, <1>6, <2>1 DEF FieldInv, Running, Open
<1>10. OwnerHolds(f)' /\ OwnerHolds(f)  BY <1>1, <1>3, <1>6 DEF OwnerHolds
<1> QED BY <1>2, <1>3, <1>4, <1>7, <1>8, <1>9, <1>10, QuietStep

LEMMA AttackAgainKeeps ==
    ASSUME BattleInv, NEW p \in Players, AttackAgain(p)
    PROVE  BattleInv'
PROOF
<1> USE DEF AttackAgain, Goto, playerVars, fieldVars
<1> DEFINE f == ongoing[p]
<1>1. TypeOK /\ PlayerInv(p)  BY DEF BattleInv
<1>2. f \in Fields /\ at[p] = None  BY <1>1 DEF TypeOK
<1>3. owner[f] = p /\ Alone(p, f) /\ FieldInv(f)
  BY <1>2, NobodyElse DEF Refers, BattleInv
<1>4. TypeOK'  BY <1>1, <1>2 DEF TypeOK, PC
<1>5. Fighting(p, f) /\ gor[f] = "wait"  BY <1>1 DEF PlayerInv, Calm
<1>6. pc'[p] = "send" /\ at'[p] = f  BY <1>1 DEF TypeOK
<1>7. Frame(p, f) /\ Near(p, f) /\ Near(p, f)'
  BY <1>1, <1>2, <1>6 DEF Frame, Near, TypeOK
<1>8. PlayerInv(p)'
  BY <1>5, <1>6 DEF PlayerInv, Fighting, Fit, Open
<1>9. FieldInv(f)'
  <2>1. \A q \in Players : Refers(q, f)' => q = p  BY <1>3, <1>7 DEF Frame, Alone, Refers
  <2> QED BY <1>3, <1>5, <2>1 DEF FieldInv, Running, Fighting, Open
<1>10. OwnerHolds(f)' /\ OwnerHolds(f)  BY <1>3, <1>5 DEF OwnerHolds
<1> QED BY <1>2, <1>3, <1>4, <1>7, <1>8, <1>9, <1>10, QuietStep

LEMMA SendAttackKeeps ==
    ASSUME BattleInv, NEW p \in Players, SendAttack(p)
    PROVE  BattleInv'
PROOF
<1> USE DEF SendAttack, Goto, GorGoto, playerVars, fieldVars
<1> DEFINE f == at[p]
<1>1. TypeOK /\ PlayerInv(p)  BY DEF BattleInv
<1>2. f \in Fields /\ f # None  BY <1>1, InUse
<1>3. owner[f] = p /\ Alone(p, f) /\ FieldInv(f)
  BY <1>2, NobodyElse DEF Refers, BattleInv
<1>4. TypeOK'  BY <1>1, <1>2 DEF TypeOK, PC, Gor
<1>5. Fighting(p, f) /\ gor[f] = "wait"  BY <1>1 DEF PlayerInv
<1>6. pc'[p] = "recv" /\ at'[p] = f /\ gor'[f] = "round"  BY <1>1, <1>2 DEF TypeOK
<1>7. Frame(p, f) /\ Near(p, f) /\ Near(p, f)'
  BY <1>1, <1>5, <1>6 DEF Frame, Near, TypeOK, Fighting
<1>8. PlayerInv(p)'
  <2>1. Fighting(p, f)'  BY <1>5 DEF Fighting, Fit, Open
  <2> QED BY <1>6, <2>1 DEF PlayerInv, InRound, Running
<1>9. FieldInv(f)'
  BY <1>3, <1>5, <1>6 DEF FieldInv, Running, Fighting, Open, Refers
<1>10. OwnerHolds(f)' /\ OwnerHolds(f)  BY <1>3, <1>5, <1>6 DEF OwnerHolds, Fighting
<1> QED BY <1>2, <1>3, <1>4, <1>7, <1>8, <1>9, <1>10, QuietStep

LEMMA ReceiveResultKeeps ==
    ASSUME BattleInv, NEW p \in Players, ReceiveResult(p)
    PROVE  BattleInv'
PROOF
<1> USE DEF ReceiveResult, AfterResult, Goto, GorGoto, playerVars, fieldVars
<1> DEFINE f == at[p]
<1>1. TypeOK /\ PlayerInv(p)  BY DEF BattleInv
<1>2. f \in Fields /\ f # None /\ Near(p, f)  BY <1>1, InUse
<1>3. owner[f] = p /\ Alone(p, f) /\ FieldInv(f)
  BY <1>2, NobodyElse DEF Refers, BattleInv
<1>4. TypeOK'  BY <1>1, <1>2 DEF TypeOK, PC, Gor
<1>5. InRound(p, f)  BY <1>1 DEF PlayerInv
<1>6. pc'[p] = "reply" /\ at'[p] = f /\ gor'[f] = AfterResult(f)
  BY <1>1, <1>2 DEF TypeOK
<1>7. Frame(p, f) /\ Near(p, f)'
  BY <1>1, <1>2, <1>6 DEF Frame, Near, TypeOK
<1>8. PlayerInv(p)' /\ ~closed[f]
  <2>1. CASE gor[f] = "again"
    <3>1. GoesOn(p, f, result[f])' /\ ~closed[f]
      BY <1>5, <2>1 DEF InRound, GoesOn, Fighting, Fit, Open, Honest, Over
    <3> QED BY <1>6, <2>1, <3>1 DEF PlayerInv
  <2>2. CASE gor[f] = "last"
    <3>1. Settled(p, f, result[f])' /\ ~closed[f]
      BY <1>5, <2>2 DEF InRound, Settled, Calm, Fit, HPStatus, Honest, Over
    <3> QED BY <1>6, <2>2, <3>1 DEF PlayerInv
  <2> QED BY <2>1, <2>2
<1>9. FieldInv(f)'
  BY <1>1, <1>3, <1>6, <1>8 DEF FieldInv, Running, Refers, TypeOK
<1>10. OwnerHolds(f)' <=> OwnerHolds(f)
  BY <1>3, <1>5, <1>6 DEF OwnerHolds, InRound, GoesOn, Fighting
<1> QED BY <1>2, <1>3, <1>4, <1>7, <1>8, <1>9, <1>10, QuietStep

LEMMA ReplyKeeps ==
    ASSUME BattleInv, NEW p \in Players, Reply(p)
    PROVE  BattleInv'
PROOF
<1> USE DEF Reply, Discard, Goto, fieldVars
<1>1. TypeOK /\ PlayerInv(p)  BY DEF BattleInv
<1>2. PICK f \in Fields : f = at[p]  BY <1>1, InUse
<1>3. owner[f] = p /\ Alone(p, f) /\ FieldInv(f) /\ f # None /\ Near(p, f)
  BY <1>2, NobodyElse, InUse, BattleAssumption DEF Refers, BattleInv, BattleAssumption
<1>4. TypeOK'
  <2>1. RespawnZone \in Zones  BY BattleAssumption DEF BattleAssumption
  <2>2. NoResult \in Result  BY DEF NoResult, Result
  <2>3. None \notin Fields  BY BattleAssumption DEF BattleAssumption
  <2>4. /\ pc' \in [Players -> PC] /\ at' \in [Players -> Fields \cup {None}]
        /\ loc' \in [Players -> Zones] /\ result' \in [Fields -> Result]
    BY <1>1, <2>1, <2>2 DEF TypeOK, PC
  <2>5. /\ owner' \in [Fields -> Players \cup {None}]
        /\ npc' \in [Fields -> NPCs \cup {None}]
        /\ npcHP' \in [Fields -> Nat]
        /\ closed' \in [Fields -> BOOLEAN]
    <3>1. CASE gor[at[p]] = "none"
      <4>1. /\ owner' = [owner EXCEPT ![f] = None] /\ npc' = [npc EXCEPT ![f] = None]
            /\ npcHP' = [npcHP EXCEPT ![f] = 0] /\ closed' = [closed EXCEPT ![f] = FALSE]
        BY <1>2, <3>1
      <4> HIDE DEF Reply
      <4> QED BY <1>1, <4>1 DEF TypeOK
    <3>2. CASE gor[at[p]] # "none"
      BY <1>1, <3>2 DEF TypeOK
    <3> QED BY <3>1, <3>2
  <2>6. \A q \in Players : at'[q] = None <=> pc'[q] \in {"offline", "idle", "quit"}
    BY <1>1 DEF TypeOK
  <2> QED BY <1>1, <2>4, <2>5, <2>6 DEF TypeOK
<1>5. pc'[p] = "idle" /\ at'[p] = None /\ ongoing'[p] = ongoing[p]  BY <1>1 DEF TypeOK
<1>6. Frame(p, f)
  <2>1. \A q \in Players \ {p} :
          /\ pc'[q] = pc[q] /\ at'[q] = at[q] /\ ongoing'[q] = ongoing[q]
          /\ loc'[q] = loc[q] /\ hp'[q] = hp[q] /\ status'[q] = status[q]
    BY <1>1 DEF TypeOK
  <2>2. \A g \in Fields \ {f} :
          /\ owner'[g] = owner[g] /\ npc'[g] = npc[g] /\ npcHP'[g] = npcHP[g]
          /\ closed'[g] = closed[g] /\ gor'[g] = gor[g] /\ result'[g] = result[g]
    BY <1>1, <1>2 DEF TypeOK
  <2> QED BY <2>1, <2>2 DEF Frame
<1>7. Near(p, f)'  BY <1>3, <1>5 DEF Near
<1>8. \/ GoesOn(p, f, result[f]) /\ gor[f] = "wait"
      \/ Settled(p, f, result[f]) /\ gor[f] = "none"
  BY <1>1, <1>2 DEF PlayerInv
<1>9. PlayerInv(p)' /\ FieldInv(f)' /\ (OwnerHolds(f)' <=> OwnerHolds(f))
      /\ (OwnerHolds(f) => npc'[f] = npc[f])
  <2>1. CASE GoesOn(p, f, result[f]) /\ gor[f] = "wait"
    <3>1. result[f].playerHP \in Nat /\ result[f].playerHP > 0
      BY <1>1, <2>1 DEF GoesOn, Over, TypeOK, Result
    <3>2. loc' = loc /\ UNCHANGED fieldVars  BY <1>2, <2>1, <3>1
    <3>3. Fighting(p, f)'  BY <2>1, <3>2 DEF GoesOn, Fighting, Fit, Open
    <3>4. PlayerInv(p)'  BY <1>5, <2>1, <3>3 DEF PlayerInv, Fighting
    <3>5. FieldInv(f)'
      BY <1>3, <1>6, <2>1, <3>2 DEF FieldInv, Running, Refers, Frame, Alone, GoesOn,
         Fighting, Open
    <3>6. OwnerHolds(f)' /\ OwnerHolds(f)
      BY <1>3, <2>1, <3>2 DEF OwnerHolds, GoesOn, Fighting
    <3> QED BY <3>2, <3>4, <3>5, <3>6
  <2>2. CASE Settled(p, f, result[f]) /\ gor[f] = "none"
    <3>1. Calm(p)'  BY <2>2 DEF Settled, Calm, Fit, HPStatus
    <3>2. PlayerInv(p)'  BY <1>5, <3>1 DEF PlayerInv
    <3>3. closed'[f] = FALSE /\ gor'[f] = "none" /\ owner'[f] = None
      BY <1>1, <1>2, <2>2 DEF TypeOK
    <3>4. \A q \in Players : ~Refers(q, f)'
      BY <1>3, <1>5, <1>6, <2>2 DEF Frame, Alone, Refers, Settled, Calm
    <3>5. FieldInv(f)'  BY <3>3, <3>4 DEF FieldInv, Running
    <3>6. ~OwnerHolds(f)' /\ ~OwnerHolds(f)
      BY <1>2, <1>3, <2>2, <3>3, BattleAssumption DEF OwnerHolds, BattleAssumption
    <3> QED BY <3>2, <3>5, <3>6
  <2> QED BY <1>8, <2>1, <2>2
<1> QED BY <1>3, <1>4, <1>6, <1>7, <1>9, QuietStep

(* One round leaves a side standing, adds no HP, and is reported truly.    *)
Sound(r, h) ==
    /\ r.life \in Int /\ r.life <= h
    /\ r.npcHP \in Nat /\ r.dealt \in Nat /\ r.taken \in Nat
    /\ r.playerDodged \in BOOLEAN /\ r.npcDodged \in BOOLEAN
    /\ r.life > 0 \/ r.npcHP > 0
    /\ r.playerDodged => r.taken = 0
    /\ r.npcDodged => r.dealt = 0 /\ r.npcHP > 0

LEMMA RoundSound ==
    ASSUME NEW h \in Nat \ {0}, NEW e \in Nat \ {0}, NEW first \in BOOLEAN,
           NEW hit \in Nat, NEW blow \in Nat,
           NEW playerDodges \in BOOLEAN, NEW npcDodges \in BOOLEAN
    PROVE  Sound(Round(h, e, first, hit, blow, playerDodges, npcDodges), h)
PROOF BY DEF Round, Dealt, Left, Sound

LEMMA ResolveRoundKeeps ==
    ASSUME BattleInv, NEW f \in Fields, ResolveRound(f)
    PROVE  BattleInv'
PROOF
<1> USE DEF ResolveRound, GorGoto
<1>1. TypeOK /\ FieldInv(f)  BY DEF BattleInv
<1>2. PICK p \in Players : p = owner[f]  BY <1>1 DEF FieldInv
<1>3. pc[p] = "recv" /\ at[p] = f  BY <1>1, <1>2 DEF FieldInv, Running
<1>4. PlayerInv(p) /\ f # None /\ Near(p, f) /\ Alone(p, f)
  BY <1>3, InUse, NobodyElse, BattleAssumption DEF Refers, BattleInv, BattleAssumption
<1>5. Fighting(p, f)  BY <1>3, <1>4 DEF PlayerInv, InRound
<1>6. hp[p] \in Nat \ {0} /\ hp[p] <= MaxHP /\ npcHP[f] \in Nat \ {0} /\ MaxHP \in Nat
  BY <1>1, <1>5, BattleAssumption DEF Fighting, Fit, Open, TypeOK, BattleAssumption
<1>7. PICK hit \in PlayerDamage, blow \in NPCDamage,
           first \in BOOLEAN, playerDodges \in BOOLEAN, npcDodges \in BOOLEAN :
        LET r == Round(hp[owner[f]], npcHP[f], first, hit, blow, playerDodges, npcDodges)
        IN  /\ hp' = [hp EXCEPT ![owner[f]] = r.life]
            /\ npcHP' = [npcHP EXCEPT ![f] = r.npcHP]
            /\ result' = [result EXCEPT ![f] =
                   [playerHP |-> IF r.life < 0 THEN 0 ELSE r.life,
                    npcHP |-> r.npcHP, dealt |-> r.dealt, taken |-> r.taken,
                    playerDodged |-> r.playerDodged,
                    npcDodged |-> r.npcDodged]]
            /\ gor' = [gor EXCEPT ![f] =
                   IF r.life <= 0 \/ r.npcHP = 0 THEN "release" ELSE "again"]
  OBVIOUS
<1>8. PICK r : r = Round(hp[p], npcHP[f], first, hit, blow, playerDodges, npcDodges)
  OBVIOUS
<1> DEFINE report == [playerHP |-> IF r.life < 0 THEN 0 ELSE r.life,
                      npcHP |-> r.npcHP, dealt |-> r.dealt, taken |-> r.taken,
                      playerDodged |-> r.playerDodged, npcDodged |-> r.npcDodged]
<1>9. Sound(r, hp[p])
  <2>1. hit \in Nat /\ blow \in Nat  BY BattleAssumption DEF BattleAssumption
  <2> HIDE DEF ResolveRound, GorGoto
  <2> QED BY <1>6, <1>8, <2>1, RoundSound
<1>10. /\ hp' = [hp EXCEPT ![p] = r.life]
      /\ npcHP' = [npcHP EXCEPT ![f] = r.npcHP]
      /\ result' = [result EXCEPT ![f] = report]
      /\ gor' = [gor EXCEPT ![f] =
             IF r.life <= 0 \/ r.npcHP = 0 THEN "release" ELSE "again"]
  BY <1>2, <1>7, <1>8
<1>11. report \in Result  BY <1>9 DEF Result, Sound
<1>12. Honest(report) /\ (Over(report) <=> r.life <= 0 \/ r.npcHP = 0)
       /\ report.playerHP = IF r.life < 0 THEN 0 ELSE r.life
  BY <1>9 DEF Honest, Over, Sound
<1> HIDE DEF report
<1>13. TypeOK'  BY <1>1, <1>9, <1>10, <1>11 DEF TypeOK, Gor, Sound
<1>14. /\ hp'[p] = r.life /\ npcHP'[f] = r.npcHP /\ result'[f] = report
       /\ gor'[f] = IF Over(report) THEN "release" ELSE "again"
  BY <1>1, <1>10, <1>12 DEF TypeOK
<1>15. Frame(p, f)
  BY <1>1, <1>10 DEF Frame, TypeOK
<1>16. Near(p, f)'  BY <1>4 DEF Near
<1>17. PlayerInv(p)'
  <2>1. CASE Over(report)
    <3>1. Decided(p, f, result[f])'
      BY <1>5, <1>6, <1>9, <1>12, <1>14, <2>1
         DEF Decided, Fighting, Open, Honest, Over, Sound
    <3> QED BY <1>3, <1>14, <2>1, <3>1 DEF PlayerInv, InRound, Running
  <2>2. CASE ~Over(report)
    <3>1. GoesOn(p, f, result[f])'
      BY <1>5, <1>6, <1>9, <1>12, <1>14, <2>2
         DEF GoesOn, Fighting, Fit, Open, Honest, Over, Sound
    <3> QED BY <1>3, <1>14, <2>2, <3>1 DEF PlayerInv, InRound, Running
  <2> QED BY <2>1, <2>2
<1>18. FieldInv(f)'
  BY <1>1, <1>2, <1>3, <1>5, <1>14 DEF FieldInv, Running, Refers, Fighting, Open
<1>19. OwnerHolds(f)' /\ OwnerHolds(f)  BY <1>2, <1>14 DEF OwnerHolds
<1> QED BY <1>4, <1>13, <1>15, <1>16, <1>17, <1>18, <1>19, QuietStep

LEMMA ReleaseNPCKeeps ==
    ASSUME BattleInv, NEW f \in Fields, ReleaseNPC(f)
    PROVE  BattleInv'
PROOF
<1> USE DEF ReleaseNPC, Release, GorGoto, playerVars, fieldVars
<1>1. TypeOK /\ FieldInv(f)  BY DEF BattleInv
<1>2. PICK p \in Players : p = owner[f]  BY <1>1 DEF FieldInv
<1>3. pc[p] = "recv" /\ at[p] = f  BY <1>1, <1>2 DEF FieldInv, Running
<1>4. PlayerInv(p) /\ f # None /\ Near(p, f) /\ Alone(p, f)
  BY <1>3, InUse, NobodyElse, BattleAssumption DEF Refers, BattleInv, BattleAssumption
<1>5. Decided(p, f, result[f])  BY <1>3, <1>4 DEF PlayerInv, InRound
<1>6. gor'[f] = "settle"  BY <1>1 DEF TypeOK
<1>7. npc[f] \in NPCs  BY <1>5 DEF Decided
<1>8. TypeOK'  BY <1>1, <1>7 DEF TypeOK, Gor
<1>9. Frame(p, f) /\ Near(p, f)'  BY <1>1, <1>4 DEF Frame, Near, TypeOK
<1>10. PlayerInv(p)'
  <2>1. Decided(p, f, result[f])'  BY <1>5 DEF Decided, Honest, Over
  <2> QED BY <1>3, <1>6, <2>1 DEF PlayerInv, InRound, Running
<1>11. FieldInv(f)'
  BY <1>1, <1>2, <1>3, <1>5, <1>6 DEF FieldInv, Running, Refers, Decided
<1>12. OwnerHolds(f) /\ ~OwnerHolds(f)'  BY <1>2, <1>3, <1>6 DEF OwnerHolds
<1>13. occupied' = [occupied EXCEPT ![npc[f]] = FALSE]  OBVIOUS
<1> QED BY <1>4, <1>8, <1>9, <1>10, <1>11, <1>12, <1>13, FreeingStep

LEMMA SettleKeeps ==
    ASSUME BattleInv, NEW f \in Fields, Settle(f)
    PROVE  BattleInv'
PROOF
<1> USE DEF Settle, GorGoto, fieldVars
<1>1. TypeOK /\ FieldInv(f)  BY DEF BattleInv
<1>2. PICK p \in Players : p = owner[f]  BY <1>1 DEF FieldInv
<1>3. pc[p] = "recv" /\ at[p] = f  BY <1>1, <1>2 DEF FieldInv, Running
<1>4. PlayerInv(p) /\ f # None /\ Near(p, f) /\ Alone(p, f)
  BY <1>3, InUse, NobodyElse, BattleAssumption DEF Refers, BattleInv, BattleAssumption
<1>5. Decided(p, f, result[f])  BY <1>3, <1>4 DEF PlayerInv, InRound
<1>6. MaxHP \in Nat \ {0} /\ (MaxHP + 1) \div 2 \in 1..MaxHP
  BY BattleAssumption DEF BattleAssumption
<1>7. hp[p] \in Int /\ result[f].playerHP \in Nat  BY <1>1 DEF TypeOK, Result
<1>8. AfterFight(hp[p]) \in 1..MaxHP
      /\ AfterFight(hp[p]) = IF result[f].playerHP = 0 THEN (MaxHP + 1) \div 2
                             ELSE result[f].playerHP
  BY <1>5, <1>6, <1>7 DEF AfterFight, Decided
<1>9. HPStatus(AfterFight(hp[p])) \in Status  BY <1>6, <1>8, StatusOfHP
<1>10. /\ gor' = [gor EXCEPT ![f] = "last"]
       /\ ongoing' = [ongoing EXCEPT ![p] = None]
       /\ hp' = [hp EXCEPT ![p] = AfterFight(hp[p])]
       /\ status' = [status EXCEPT ![p] = HPStatus(AfterFight(hp[p]))]
  BY <1>2
<1>11. TypeOK'
  <2>1. gor' \in [Fields -> Gor]  BY <1>1 DEF TypeOK, Gor
  <2>2. ongoing' \in [Players -> Fields \cup {None}]  BY <1>1 DEF TypeOK
  <2>3. hp' \in [Players -> Int]
    <3>1. AfterFight(hp[p]) \in Int  BY <1>6, <1>8
    <3> HIDE DEF Settle
    <3> QED BY <1>1, <1>10, <3>1 DEF TypeOK
  <2>4. status' \in [Players -> Status]
    <3> HIDE DEF Settle
    <3> QED BY <1>1, <1>9, <1>10 DEF TypeOK
  <2> QED BY <1>1, <2>1, <2>2, <2>3, <2>4 DEF TypeOK
<1>12. /\ gor'[f] = "last" /\ ongoing'[p] = None /\ hp'[p] = AfterFight(hp[p])
       /\ status'[p] = HPStatus(hp'[p])
  BY <1>1, <1>10 DEF TypeOK
<1>13. Frame(p, f)  BY <1>1, <1>10 DEF Frame, TypeOK
<1>14. Near(p, f)'  BY <1>4, <1>12 DEF Near
<1>15. PlayerInv(p)'
  <2>1. Calm(p)'  BY <1>8, <1>12 DEF Calm, Fit, HPStatus
  <2>2. Settled(p, f, result[f])'
    BY <1>5, <1>8, <1>12, <2>1 DEF Settled, Decided, Honest, Over
  <2> QED BY <1>3, <1>12, <2>2 DEF PlayerInv, InRound, Running
<1>16. FieldInv(f)'
  BY <1>2, <1>3, <1>4, <1>5, <1>12, <1>13
     DEF FieldInv, Running, Refers, Decided, Frame, Alone
<1>17. ~OwnerHolds(f) /\ ~OwnerHolds(f)'  BY <1>2, <1>3, <1>12 DEF OwnerHolds
<1> QED BY <1>4, <1>11, <1>13, <1>14, <1>15, <1>16, <1>17, QuietStep

LEMMA StopKeeps ==
    ASSUME BattleInv, NEW f \in Fields, Stop(f)
    PROVE  BattleInv'
PROOF
<1> USE DEF Stop, Discard, GorGoto, playerVars
<1>1. TypeOK /\ FieldInv(f)  BY DEF BattleInv
<1>2. PICK p \in Players : p = owner[f]  BY <1>1 DEF FieldInv
<1>3. \A q \in Players : ~Refers(q, f)  BY <1>1 DEF FieldInv
<1>4. None \notin Fields /\ None \notin Players
  BY BattleAssumption DEF BattleAssumption
<1>5. TypeOK'  BY <1>1 DEF TypeOK, Gor
<1>6. \A g \in Fields \ {f} :
        /\ owner'[g] = owner[g] /\ npc'[g] = npc[g] /\ npcHP'[g] = npcHP[g]
        /\ closed'[g] = closed[g] /\ gor'[g] = gor[g] /\ result'[g] = result[g]
  BY <1>1 DEF TypeOK
<1>7. gor'[f] = "none" /\ ~closed'[f] /\ owner'[f] = None  BY <1>1 DEF TypeOK
<1>8. ASSUME NEW q \in Players
      PROVE  PlayerInv(q)'
  <2>1. PlayerInv(q) /\ at[q] \in Fields \cup {None} /\ ongoing[q] \in Fields \cup {None}
        /\ at[q] # f /\ ongoing[q] # f
        /\ (at[q] = None <=> pc[q] \in {"offline", "idle", "quit"})
    BY <1>1, <1>3 DEF BattleInv, TypeOK, Refers
  <2>2. CASE pc[q] \in {"offline", "idle", "quit"}
    BY <1>4, <1>6, <2>1, <2>2 DEF PlayerInv, Calm, Fit, Fighting, Open, HPStatus
  <2>3. CASE pc[q] \notin {"offline", "idle", "quit"}
    <3>1. at[q] \in Fields \ {f}  BY <2>1, <2>3
    <3> QED BY <1>6, <2>1, <2>3, <3>1
        DEF PlayerInv, Calm, Fit, Fighting, Open, InRound, Running, GoesOn, Decided,
            Settled, HPStatus
  <2> QED BY <2>2, <2>3
<1>9. \A g \in Fields : FieldInv(g)'
  <2>1. FieldInv(f)'  BY <1>3, <1>7 DEF FieldInv, Running, Refers
  <2>2. ASSUME NEW g \in Fields \ {f}
        PROVE  FieldInv(g)'
    <3>1. FieldInv(g)  BY DEF BattleInv
    <3> QED BY <1>6, <3>1 DEF FieldInv, Running, Refers
  <2> QED BY <2>1, <2>2
<1>10. \A g \in Fields : OwnerHolds(g)' <=> OwnerHolds(g)
  <2>1. ~OwnerHolds(f)' /\ ~OwnerHolds(f)
    BY <1>2, <1>3, <1>4, <1>7 DEF OwnerHolds, Refers
  <2> QED BY <1>6, <2>1 DEF OwnerHolds
<1>11. \A g \in Fields : OwnerHolds(g) => npc'[g] = npc[g]
  BY <1>2, <1>3, <1>6 DEF OwnerHolds, Refers
<1>12. NPCInv'  BY <1>10, <1>11 DEF NPCInv, BattleInv
<1> QED BY <1>5, <1>8, <1>9, <1>12 DEF BattleInv

(* FLEE and a disconnect begin with the same step.                         *)
LEMMA UnregisterKeeps ==
    ASSUME BattleInv, NEW p \in Players, NEW l \in {"fleeFree", "quitFree"},
           pc[p] = "idle", ongoing[p] # None, Unregister(p, l)
    PROVE  BattleInv'
PROOF
<1> USE DEF Unregister, Goto, playerVars, fieldVars
<1>1. TypeOK /\ PlayerInv(p)  BY DEF BattleInv
<1>2. PICK f \in Fields : f = ongoing[p]  BY <1>1 DEF TypeOK
<1>3. owner[f] = p /\ Alone(p, f) /\ FieldInv(f)
  BY <1>2, NobodyElse DEF Refers, BattleInv
<1>4. f # None  BY <1>2
<1>5. at[p] = None  BY <1>1 DEF TypeOK
<1>6. TypeOK'  BY <1>1, <1>4 DEF TypeOK, PC
<1>7. Fighting(p, f) /\ gor[f] = "wait"  BY <1>1, <1>2 DEF PlayerInv, Calm
<1>8. pc'[p] = l /\ at'[p] = f /\ ongoing'[p] = None  BY <1>1, <1>2 DEF TypeOK
<1>9. Frame(p, f) /\ Near(p, f) /\ Near(p, f)'
  BY <1>1, <1>2, <1>5, <1>8 DEF Frame, Near, TypeOK
<1>10. PlayerInv(p)'  BY <1>7, <1>8 DEF PlayerInv, Fighting, Fit, Open
<1>11. FieldInv(f)'
  BY <1>3, <1>7, <1>8, <1>9 DEF FieldInv, Running, Refers, Frame, Alone, Fighting, Open
<1>12. OwnerHolds(f)' /\ OwnerHolds(f)  BY <1>2, <1>3, <1>7, <1>8 DEF OwnerHolds
<1> QED BY <1>3, <1>6, <1>9, <1>10, <1>11, <1>12, QuietStep

LEMMA FreeNPCKeeps ==
    ASSUME BattleInv, NEW p \in Players, NEW l \in {"fleeClose", "quitClose"},
           pc[p] \in {"fleeFree", "quitFree"}, FreeNPC(p, l)
    PROVE  BattleInv'
PROOF
<1> USE DEF FreeNPC, Goto, playerVars, fieldVars
<1>1. TypeOK /\ PlayerInv(p)  BY DEF BattleInv
<1>2. PICK f \in Fields : f = at[p]  BY <1>1, InUse
<1>3. owner[f] = p /\ Alone(p, f) /\ FieldInv(f) /\ f # None
  BY <1>1, <1>2, NobodyElse DEF Refers, BattleInv, TypeOK
<1>4. /\ Fit(p) /\ ongoing[p] = None
      /\ npc[f] \in NPCs /\ ~closed[f] /\ gor[f] = "wait"
  BY <1>1, <1>2 DEF PlayerInv
<1>5. occupied' = [occupied EXCEPT ![npc[f]] = FALSE]  BY <1>2
<1>6. TypeOK'  BY <1>1, <1>3, <1>4, <1>5 DEF TypeOK, PC
<1>7. pc'[p] = l  BY <1>1 DEF TypeOK
<1>8. Frame(p, f) /\ Near(p, f) /\ Near(p, f)'
  BY <1>1, <1>2, <1>4 DEF Frame, Near, TypeOK
<1>9. PlayerInv(p)'  BY <1>2, <1>4, <1>7 DEF PlayerInv, Fit
<1>10. FieldInv(f)'  BY <1>3, <1>4 DEF FieldInv, Running, Refers
<1>11. OwnerHolds(f) /\ ~OwnerHolds(f)'
  BY <1>2, <1>3, <1>4, <1>7, BattleAssumption DEF OwnerHolds, BattleAssumption
<1> QED BY <1>3, <1>5, <1>6, <1>8, <1>9, <1>10, <1>11, FreeingStep

LEMMA FleeCloseKeeps ==
    ASSUME BattleInv, NEW p \in Players, FleeClose(p)
    PROVE  BattleInv'
PROOF
<1> USE DEF FleeClose, Closed, FleeStatus, Goto
<1>1. TypeOK /\ PlayerInv(p)  BY DEF BattleInv
<1>2. PICK f \in Fields : f = at[p]  BY <1>1, InUse
<1>3. owner[f] = p /\ Alone(p, f) /\ FieldInv(f) /\ f # None
  BY <1>1, <1>2, NobodyElse DEF Refers, BattleInv, TypeOK
<1>4. Fit(p) /\ ongoing[p] = None /\ gor[f] = "wait"
  BY <1>1, <1>2 DEF PlayerInv
<1>5. HPStatus(hp[p]) \in Status  BY <1>1, StatusOfHP DEF TypeOK
<1>6. TypeOK'  BY <1>1, <1>5 DEF TypeOK, PC
<1>7. pc'[p] = "idle" /\ at'[p] = None /\ status'[p] = HPStatus(hp[p])  BY <1>1 DEF TypeOK
<1>8. Frame(p, f) /\ Near(p, f) /\ Near(p, f)'
  BY <1>1, <1>2, <1>4, <1>7 DEF Frame, Near, TypeOK
<1>9. PlayerInv(p)'
  <2>1. Calm(p)'  BY <1>4, <1>7 DEF Calm, Fit, HPStatus
  <2> QED BY <1>7, <2>1 DEF PlayerInv
<1>10. \A q \in Players : ~Refers(q, f)'
  BY <1>3, <1>4, <1>7, <1>8 DEF Refers, Frame, Alone
<1>11. FieldInv(f)'  BY <1>3, <1>4, <1>10 DEF FieldInv, Running
<1>12. ~OwnerHolds(f)' /\ ~OwnerHolds(f)
  BY <1>2, <1>3, <1>4, <1>7 DEF OwnerHolds
<1> QED BY <1>3, <1>6, <1>8, <1>9, <1>11, <1>12, QuietStep

LEMMA QuitCloseKeeps ==
    ASSUME BattleInv, NEW p \in Players, QuitClose(p)
    PROVE  BattleInv'
PROOF
<1> USE DEF QuitClose, Closed, Goto, playerVars
<1>1. TypeOK /\ PlayerInv(p)  BY DEF BattleInv
<1>2. PICK f \in Fields : f = at[p]  BY <1>1, InUse
<1>3. owner[f] = p /\ Alone(p, f) /\ FieldInv(f) /\ f # None
  BY <1>1, <1>2, NobodyElse DEF Refers, BattleInv, TypeOK
<1>4. ongoing[p] = None /\ gor[f] = "wait"
  BY <1>1, <1>2 DEF PlayerInv
<1>5. TypeOK'  BY <1>1 DEF TypeOK, PC
<1>6. pc'[p] = "quit" /\ at'[p] = None  BY <1>1 DEF TypeOK
<1>7. Frame(p, f) /\ Near(p, f) /\ Near(p, f)'
  BY <1>1, <1>2, <1>4, <1>6 DEF Frame, Near, TypeOK
<1>8. PlayerInv(p)'  BY <1>4, <1>6 DEF PlayerInv
<1>9. \A q \in Players : ~Refers(q, f)'
  BY <1>3, <1>4, <1>6, <1>7 DEF Refers, Frame, Alone
<1>10. FieldInv(f)'  BY <1>3, <1>4, <1>9 DEF FieldInv, Running
<1>11. ~OwnerHolds(f)' /\ ~OwnerHolds(f)
  BY <1>2, <1>3, <1>4, <1>6 DEF OwnerHolds
<1> QED BY <1>3, <1>5, <1>7, <1>8, <1>10, <1>11, QuietStep

LEMMA DisconnectKeeps ==
    ASSUME BattleInv, NEW p \in Players, Disconnect(p)
    PROVE  BattleInv'
PROOF
<1>1. CASE ongoing[p] # None  BY <1>1, UnregisterKeeps DEF Disconnect
<1>2. CASE ongoing[p] = None
  <2> USE DEF Disconnect, Goto, playerVars, fieldVars
  <2>1. TypeOK /\ PlayerInv(p)  BY DEF BattleInv
  <2>2. TypeOK'  BY <1>2, <2>1 DEF TypeOK, PC
  <2>3. at[p] = None /\ pc'[p] = "quit"  BY <1>2, <2>1 DEF TypeOK
  <2>4. Frame(p, None) /\ Near(p, None) /\ Near(p, None)'
    BY <1>2, <2>1, <2>3 DEF Frame, Near, TypeOK
  <2>5. PlayerInv(p)'  BY <1>2, <2>3 DEF PlayerInv
  <2>6. None \notin Fields /\ occupied' = occupied
    BY <1>2, BattleAssumption DEF BattleAssumption
  <2> QED BY <2>2, <2>4, <2>5, <2>6, QuietStep
<1> QED BY <1>1, <1>2

------------------------------------------------------------------------------
(* The invariant *)

LEMMA InitEstablishes == Init => BattleInv
PROOF
<1> SUFFICES ASSUME Init  PROVE BattleInv  OBVIOUS
<1> USE DEF Init
<1>1. /\ MaxHP \in Nat \ {0} /\ StartZone \in Zones
      /\ None \notin Fields /\ None \notin Players
  BY BattleAssumption DEF BattleAssumption
<1>2. NoResult \in Result  BY DEF NoResult, Result
<1>3. TypeOK  BY <1>1, <1>2 DEF TypeOK, PC, Status, Gor
<1>4. \A f \in Fields : FieldInv(f)  BY <1>1 DEF FieldInv, Refers, Running
<1>5. \A p \in Players : PlayerInv(p)  BY DEF PlayerInv
<1>6. \A f \in Fields : ~OwnerHolds(f)  BY <1>1 DEF OwnerHolds
<1>7. NPCInv  BY <1>6 DEF NPCInv
<1> QED BY <1>3, <1>4, <1>5, <1>7 DEF BattleInv

LEMMA StutterKeeps == BattleInv /\ UNCHANGED vars => BattleInv'
PROOF
<1> SUFFICES ASSUME BattleInv, UNCHANGED vars  PROVE BattleInv'  OBVIOUS
<1> USE DEF vars, playerVars, fieldVars
<1>1. TypeOK'  BY DEF BattleInv, TypeOK
<1>2. \A f \in Fields : FieldInv(f)'  BY DEF BattleInv, FieldInv, Refers, Running
<1>3. \A p \in Players : PlayerInv(p)'
  BY DEF BattleInv, PlayerInv, Calm, Fit, HPStatus, Fighting, Open, InRound, Running,
         GoesOn, Decided, Settled
<1>4. \A f \in Fields : OwnerHolds(f)' <=> OwnerHolds(f)  BY DEF OwnerHolds
<1>5. NPCInv'  BY <1>4 DEF BattleInv, NPCInv
<1> QED BY <1>1, <1>2, <1>3, <1>5 DEF BattleInv

LEMMA NextKeeps == BattleInv /\ [Next]_vars => BattleInv'
PROOF
<1> SUFFICES ASSUME BattleInv, Next  PROVE BattleInv'
  BY StutterKeeps
<1>1. ASSUME NEW p \in Players, Command(p)
      PROVE  BattleInv'
  <2>1. ASSUME Flee(p)  PROVE BattleInv'  BY <2>1, UnregisterKeeps DEF Flee
  <2> QED BY <1>1, <2>1, LoginKeeps, MoveKeeps, HealKeeps, AttackNewKeeps,
             AttackAgainKeeps, DisconnectKeeps DEF Command
<1>2. ASSUME NEW p \in Players, Continue(p)
      PROVE  BattleInv'
  <2>1. ASSUME FleeFree(p)  PROVE BattleInv'  BY <2>1, FreeNPCKeeps DEF FleeFree
  <2>2. ASSUME QuitFree(p)  PROVE BattleInv'  BY <2>2, FreeNPCKeeps DEF QuitFree
  <2> QED BY <1>2, <2>1, <2>2, RegisterKeeps, EngageKeeps, SendAttackKeeps,
             ReceiveResultKeeps, ReplyKeeps, FleeCloseKeeps, QuitCloseKeeps,
             GoOfflineKeeps DEF Continue
<1>3. ASSUME NEW f \in Fields, Fight(f)
      PROVE  BattleInv'
  BY <1>3, ResolveRoundKeeps, ReleaseNPCKeeps, SettleKeeps, StopKeeps DEF Fight
<1> QED BY <1>1, <1>2, <1>3 DEF Next

(* Fields, players and NPCs keep what each goroutine counts on, at every   *)
(* step of every goroutine: the invariant behind the theorems below.       *)
THEOREM BattleInvariant == Spec => []BattleInv
PROOF
<1> QED BY InitEstablishes, NextKeeps, PTL DEF Spec

------------------------------------------------------------------------------
(* What it says of the fights *)

LEMMA HoldsIsOwnerHolds ==
    ASSUME BattleInv, NEW f \in Fields
    PROVE  Holds(f) <=> OwnerHolds(f)
PROOF
<1>1. FieldInv(f)  BY DEF BattleInv
<1>2. Holds(f) => OwnerHolds(f)
  BY <1>1 DEF Holds, OwnerHolds, FieldInv, Refers
<1>3. OwnerHolds(f) => Holds(f)  BY DEF Holds, OwnerHolds
<1> QED BY <1>2, <1>3

(* Fights, NPCs and players agree in every state: an NPC is occupied       *)
(* exactly while one fight holds it, and a player is engaged exactly while *)
(* OngoingBattles has its fight, which waits for the player in the NPC's   *)
(* room; a waiting player is alive, with the status its HP gives.          *)
THEOREM FightsSoundHolds == Spec => []FightsSound
PROOF
<1>1. BattleInv => FightsSound
  <2> SUFFICES ASSUME BattleInv  PROVE FightsSound  OBVIOUS
  <2>1. TypeOK /\ NPCInv  BY DEF BattleInv
  <2>2. OneFightPerNPC
    <3>1. \A f \in Fields : Holds(f) <=> OwnerHolds(f)  BY HoldsIsOwnerHolds
    <3>2. \A n \in NPCs : occupied[n] <=> \E f \in Fields : Holds(f) /\ npc[f] = n
      BY <2>1, <3>1 DEF NPCInv
    <3>3. \A f, g \in Fields : Holds(f) /\ Holds(g) /\ npc[f] = npc[g] => f = g
      BY <2>1, <3>1 DEF NPCInv
    <3> QED BY <3>2, <3>3 DEF OneFightPerNPC
  <2>3. ASSUME NEW p \in Players, pc[p] = "idle"
        PROVE  /\ hp[p] \in 1..MaxHP /\ status[p] \in {"engaged", HPStatus(hp[p])}
               /\ status[p] = "engaged" <=> ongoing[p] # None
               /\ \A f \in Fields : ongoing[p] = f =>
                    /\ owner[f] = p /\ gor[f] = "wait" /\ ~closed[f]
                    /\ npcHP[f] > 0 /\ loc[p] = NPCZone[npc[f]]
    <3>1. PlayerInv(p) /\ None \notin Fields /\ hp[p] \in Int
      BY <2>1, BattleAssumption DEF BattleInv, BattleAssumption, TypeOK
    <3>2. CASE Calm(p)
      <4>1. status[p] # "engaged"  BY <3>1, <3>2, StatusOfHP DEF Calm
      <4> QED BY <3>1, <3>2, <4>1 DEF Calm, Fit
    <3>3. CASE ongoing[p] \in Fields /\ Fighting(p, ongoing[p])
               /\ gor[ongoing[p]] = "wait"
      <4>1. owner[ongoing[p]] = p  BY <3>3, NobodyElse DEF Refers
      <4> QED BY <3>1, <3>3, <4>1 DEF Fighting, Fit, Open
    <3> QED BY <2>3, <3>1, <3>2, <3>3 DEF PlayerInv
  <2>4. EngagedIffFighting  BY <2>3 DEF EngagedIffFighting
  <2>5. HPSound  BY <2>3 DEF HPSound
  <2> QED BY <2>1, <2>2, <2>4, <2>5 DEF FightsSound
<1> QED BY <1>1, BattleInvariant, PTL

(* PlayerAttack is never closed twice, and never sent on once it is        *)
(* closed: neither FLEE, ATTACK nor a lost connection can end the server.  *)
THEOREM NoPanicHolds == Spec => []NoPanic
PROOF
<1>1. BattleInv => NoPanic
  BY DEF BattleInv, PlayerInv, Fighting, Open, NoPanic
<1> QED BY <1>1, BattleInvariant, PTL

(* What ATTACK reports of a round is true of the player's state when it is *)
(* sent, whatever the dice, the damage and the hit points are.             *)
THEOREM ReplyTruthfulHolds == Spec => []ReplyTruthful
PROOF
<1>1. BattleInv => ReplyTruthful
  <2> SUFFICES ASSUME BattleInv, NEW p \in Players, pc[p] = "reply"
               PROVE  LET r == result[at[p]]
                      IN  /\ r.playerHP > 0 \/ r.npcHP > 0
                          /\ hp[p] = IF r.playerHP = 0 THEN (MaxHP + 1) \div 2
                                     ELSE r.playerHP
                          /\ status[p] = "engaged" <=> r.playerHP > 0 /\ r.npcHP > 0
                          /\ ongoing[p] = at[p] <=> r.playerHP > 0 /\ r.npcHP > 0
                          /\ r.playerDodged => r.taken = 0
                          /\ r.npcDodged => r.dealt = 0 /\ r.npcHP > 0
    BY DEF ReplyTruthful
  <2> DEFINE r == result[at[p]]
  <2>1. PlayerInv(p) /\ at[p] \in Fields /\ at[p] # None
    BY InUse, BattleAssumption DEF BattleInv
  <2>2. r.playerHP \in Nat /\ r.npcHP \in Nat /\ hp[p] \in Int
    BY <2>1 DEF BattleInv, TypeOK, Result
  <2>3. CASE GoesOn(p, at[p], r)
    BY <2>2, <2>3 DEF GoesOn, Fighting, Honest, Over
  <2>4. CASE Settled(p, at[p], r)
    <3>1. status[p] # "engaged"  BY <2>2, <2>4, StatusOfHP DEF Settled, Calm
    <3> QED BY <2>1, <2>2, <2>4, <3>1 DEF Settled, Calm, Honest, Over
  <2> QED BY <2>1, <2>3, <2>4 DEF PlayerInv
<1> QED BY <1>1, BattleInvariant, PTL
==============================================================================
