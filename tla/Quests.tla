-------------------------------- MODULE Quests -------------------------------
(***************************************************************************)
(* The quests of one player: QUEST accepts one, TALK, MOVE and a won fight *)
(* advance it, and its last step pays the reward.                          *)
(*                                                                         *)
(* All of this state belongs to one Player object and is changed only by   *)
(* its connection's goroutine, so one player is enough.  A step is one     *)
(* critical section of PlayerMu: the last step of a quest and its reward   *)
(* are two.  Go visits the entries of a map in random order, so where a    *)
(* handler takes the first match any match may be taken.                   *)
(***************************************************************************)
EXTENDS Integers, Sequences, FiniteSets, FiniteSetsExt

CONSTANTS
    Zones, Exits, StartZone, RespawnZone,
    NPCs,
    Place,        \* Place[n]: the zone that spawns NPC n
    Enemies,      \* NPCs that can be fought
    Quests,
    Giver,        \* Giver[q]: the NPC that has q in its Quests
    Requires,     \* Requires[q]: its prerequisite, or None
    Steps,        \* Steps[q]: its steps, see Step
    KeyItems,
    RewardItem,   \* RewardItem[q]: key item in its reward, or None
    RewardGold,   \* RewardGold[q]: gold in its reward
    SkillBoost,   \* SkillBoost[k] of a key item
    None

(* A step: where or with whom, and the key items it grants and receives.   *)
Step == [action : {"talk_to", "enter_area", "battle"}, target : NPCs \cup Zones,
         grants : SUBSET KeyItems, receives : SUBSET KeyItems]

ASSUME QuestsAssumption ==
    /\ Exits \in [Zones -> SUBSET Zones]
    /\ {StartZone, RespawnZone} \subseteq Zones
    /\ Place \in [NPCs -> Zones]
    /\ Enemies \subseteq NPCs
    /\ Giver \in [Quests -> NPCs \ Enemies]
    /\ Requires \in [Quests -> Quests \cup {None}]
    /\ IsFiniteSet(Quests)
    /\ \A q \in Quests : Steps[q] \in Seq(Step) /\ Steps[q] # <<>>
    /\ \A q \in Quests : \A i \in DOMAIN Steps[q] :
         \/ Steps[q][i].action = "talk_to"
         \/ Steps[q][i].grants = {} /\ Steps[q][i].receives = {}
    /\ RewardItem \in [Quests -> KeyItems \cup {None}]
    /\ RewardGold \in [Quests -> Nat]
    /\ SkillBoost \in [KeyItems -> Nat]
    /\ None \notin Quests \cup KeyItems \cup NPCs
    /\ \A q \in Quests : \A i \in DOMAIN Steps[q] : \A k \in Steps[q][i].receives :
         \E r \in Quests :
           k = RewardItem[r] \/ \E j \in DOMAIN Steps[r] : k \in Steps[r][j].grants

VARIABLES
    currLoc,       \* CurrLoc
    foe,           \* the NPC of the player's fight, or None
    status,        \* status[q]: "none" unless Quests has an entry for q
    stepIndex,     \* stepIndex[q]: StepIndex of that entry
    finished,      \* the quest whose completeQuest is due, or None
    keyInventory,  \* keys of KeyInventory
    gold,          \* Gold
    battleSkill    \* BattleStats.BattleSkill

placeVars == <<currLoc, foe>>
rewardVars == <<keyInventory, gold, battleSkill>>
vars == <<placeVars, status, stepIndex, finished, rewardVars>>

BaseSkill == 7

Init ==
    /\ currLoc = StartZone
    /\ foe = None
    /\ status = [q \in Quests |-> "none"]
    /\ stepIndex = [q \in Quests |-> 0]
    /\ finished = None
    /\ keyInventory = {}
    /\ gold = 0
    /\ battleSkill = BaseSkill

(* A definition named ...Fault is a seeded fault: a mutation run puts it   *)
(* in the place of the definition that follows it.                         *)

------------------------------------------------------------------------------
(* Between two commands no completeQuest is due. *)
Idle == finished = None

(* QUEST n, with n anywhere in the world: the first quest of n that the    *)
(* player does not have and whose prerequisite is completed.               *)
OfferedFault(n) ==
    {q \in Quests : Giver[q] = n /\ status[q] # "active"
        /\ (Requires[q] # None => status[Requires[q]] = "completed")}
Offered(n) ==
    {q \in Quests : Giver[q] = n /\ status[q] = "none"
        /\ (Requires[q] # None => status[Requires[q]] = "completed")}

AcceptQuest(n) ==
    /\ Idle
    /\ foe = None
    /\ \E q \in Offered(n) :
        /\ status' = [status EXCEPT ![q] = "active"]
        /\ stepIndex' = [stepIndex EXCEPT ![q] = 0]
    /\ UNCHANGED <<placeVars, finished, rewardVars>>

(* The active quests whose current step is that action on that target.     *)
Current(q) == Steps[q][stepIndex[q] + 1]
Waiting(action, target) ==
    {q \in Quests : status[q] = "active"
        /\ Current(q).action = action /\ Current(q).target = target}

(* StepIndex++; after the last step completeQuest is due.                  *)
LastStepFault(q) == stepIndex[q] + 1 > Len(Steps[q])
LastStep(q) == stepIndex[q] + 1 >= Len(Steps[q])

Advance(q) ==
    /\ stepIndex' = [stepIndex EXCEPT ![q] = @ + 1]
    /\ finished' = IF LastStep(q) THEN q ELSE None

(* The first quest of S that the handler comes to advances, and no other.  *)
AdvanceOneOfFault(S) ==
    IF S = {} THEN UNCHANGED <<stepIndex, finished>>
    ELSE /\ stepIndex' = [q \in Quests |-> IF q \in S THEN stepIndex[q] + 1
                                          ELSE stepIndex[q]]
         /\ \E q \in S : finished' = IF LastStep(q) THEN q ELSE None
AdvanceOneOf(S) ==
    IF S = {} THEN UNCHANGED <<stepIndex, finished>> ELSE \E q \in S : Advance(q)

(* TALK n: a quest that waits for it advances if the player has all the    *)
(* key items it receives; then it grants its own and takes those.  Other   *)
(* TALKs only choose a line to say.                                        *)
HasAllItemsFault(q) == TRUE
HasAllItems(q) == Current(q).receives \subseteq keyInventory

Talk(n) ==
    /\ Idle
    /\ currLoc = Place[n]
    /\ \E q \in Waiting("talk_to", n) :
        /\ HasAllItems(q)
        /\ Advance(q)
        /\ keyInventory' =
               (keyInventory \cup Current(q).grants) \ Current(q).receives
    /\ UNCHANGED <<placeVars, status, gold, battleSkill>>

(* MOVE, not during a fight. *)
Move(z) ==
    /\ Idle
    /\ foe = None
    /\ z \in Exits[currLoc]
    /\ currLoc' = z
    /\ AdvanceOneOf(Waiting("enter_area", z))
    /\ UNCHANGED <<foe, status, rewardVars>>

(* Fights, as far as quests are concerned (see module Battle): ATTACK may  *)
(* start one, win it, or lose it, which moves the player to the respawn    *)
(* zone and advances nothing; FLEE ends it.                                *)
StartFight(n) ==
    /\ Idle
    /\ foe = None
    /\ n \in Enemies
    /\ currLoc = Place[n]
    /\ foe' = n
    /\ UNCHANGED <<currLoc, status, stepIndex, finished, rewardVars>>

Win ==
    /\ Idle
    /\ foe # None
    /\ foe' = None
    /\ AdvanceOneOf(Waiting("battle", foe))
    /\ UNCHANGED <<currLoc, status, rewardVars>>

Lose ==
    /\ Idle
    /\ foe # None
    /\ foe' = None
    /\ currLoc' = RespawnZone
    /\ UNCHANGED <<status, stepIndex, finished, rewardVars>>

Flee ==
    /\ Idle
    /\ foe # None
    /\ foe' = None
    /\ UNCHANGED <<currLoc, status, stepIndex, finished, rewardVars>>

(* completeQuest: the key item with its boost, the gold, and the status.   *)
RewardItemsFault(q) == {}
RewardItems(q) == {RewardItem[q]} \ {None}

PaidItemFault(q) == {RewardItem[q]}
PaidItem(q) == RewardItems(q)

(* What the key item in the reward of a quest adds to the battle skill.    *)
Boost ==
    [q \in Quests |-> IF RewardItem[q] = None THEN 0 ELSE SkillBoost[RewardItem[q]]]

CompleteQuest ==
    /\ finished # None
    /\ keyInventory' = keyInventory \cup PaidItem(finished)
    /\ battleSkill' = battleSkill + Boost[finished]
    /\ gold' = gold + RewardGold[finished]
    /\ status' = [status EXCEPT ![finished] = "completed"]
    /\ finished' = None
    /\ UNCHANGED <<placeVars, stepIndex>>

Next ==
    \/ \E n \in NPCs : AcceptQuest(n) \/ Talk(n) \/ StartFight(n)
    \/ \E z \in Zones : Move(z)
    \/ Win
    \/ Lose
    \/ Flee
    \/ CompleteQuest

Spec == Init /\ [][Next]_vars

------------------------------------------------------------------------------
(* Every variable is of its type. *)
TypeOK ==
    /\ currLoc \in Zones
    /\ foe \in Enemies \cup {None}
    /\ status \in [Quests -> {"none", "active", "completed"}]
    /\ stepIndex \in [Quests -> Nat]
    /\ finished \in Quests \cup {None}
    /\ keyInventory \subseteq KeyItems
    /\ gold \in Nat
    /\ battleSkill \in Nat

(* TALK, MOVE, a won fight and QUESTS all index Steps[StepIndex] of every  *)
(* active quest without a check: it is in range whenever they can run.     *)
NoPanic ==
    Idle => \A q \in Quests :
        status[q] = "active" => stepIndex[q] < Len(Steps[q])

Completed == {q \in Quests : status[q] = "completed"}
Passed(q) == {i \in DOMAIN Steps[q] : i <= stepIndex[q]}
Ahead(q) == DOMAIN Steps[q] \ Passed(q)

(* The key items of a player are what its progress has earned it: granted  *)
(* by a passed step or paid as a reward, and not handed over since.        *)
KeyItemsFollowProgress ==
    LET granted(q) == UNION {Steps[q][i].grants : i \in Passed(q)}
        handed(q)  == UNION {Steps[q][i].receives : i \in Passed(q)}
    IN  keyInventory = ((UNION {granted(q) : q \in Quests})
                          \cup (UNION {RewardItems(q) : q \in Completed}))
                       \ (UNION {handed(q) : q \in Quests})

(* The sum of f over S.                                                    *)
Total(f, S) == MapThenSumSet(LAMBDA q : f[q], S)

(* Gold and battle skill are those of a new player and the rewards of the  *)
(* completed quests, each paid once.                                       *)
RewardsPaidOnce ==
    /\ gold = Total(RewardGold, Completed)
    /\ battleSkill = BaseSkill + Total(Boost, Completed)

(* The prerequisite of a quest the player has stays completed. *)
PrerequisitesKept ==
    \A q \in Quests :
        status[q] # "none" /\ Requires[q] # None => Requires[q] \in Completed

(* Quest q gives key item k at step i, or, after its last step, as reward. *)
Gives(q, i, k) ==
    IF i \in DOMAIN Steps[q] THEN k \in Steps[q][i].grants ELSE k = RewardItem[q]

Takes(q, i, k) == i \in DOMAIN Steps[q] /\ k \in Steps[q][i].receives

(* No key item is given twice in a world file, or taken twice.  The        *)
(* validator looks for this within one quest only; world.yaml satisfies it.*)
OneOfEach ==
    \A q, r \in Quests : \A i \in 1 .. Len(Steps[q]) + 1, j \in 1 .. Len(Steps[r]) + 1 :
      \A k \in KeyItems :
        (\/ Gives(q, i, k) /\ Gives(r, j, k)
         \/ Takes(q, i, k) /\ Takes(r, j, k)) => q = r /\ i = j

(* No quest becomes impossible: a key item that a step still ahead         *)
(* receives is held, or a quest not completed yet still gives it.          *)
KeyItemsReachable ==
    \A q \in Quests : \A i \in Ahead(q) : \A k \in Steps[q][i].receives :
        \/ k \in keyInventory
        \/ \E r \in Quests \ Completed :
              k = RewardItem[r] \/ \E j \in Ahead(r) : k \in Steps[r][j].grants

Progress(q) ==
    CASE status[q] = "none" -> 0
      [] status[q] = "active" -> 1 + stepIndex[q]
      [] status[q] = "completed" -> 2 + stepIndex[q]

(* Whatever the player does, at most one quest moves, by one stage, and    *)
(* never back: a single kill or visit does not count for two quests, and   *)
(* no quest starts over.                                                   *)
MovesForward ==
    [][\A q \in Quests :
         \/ Progress(q)' = Progress(q)
         \/ /\ Progress(q)' = Progress(q) + 1
            /\ \A r \in Quests \ {q} : Progress(r)' = Progress(r)]_vars
==============================================================================
