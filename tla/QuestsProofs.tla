----------------------------- MODULE QuestsProofs ----------------------------
(***************************************************************************)
(* Proofs about quests, for any world: whatever its quests, their steps    *)
(* and their prerequisites are, Steps[StepIndex] is in range, the order of *)
(* Requires holds, and quests move forward one at a time.  Gold and battle *)
(* skill are the sum of the rewards of the completed quests, and, where no *)
(* key item is given or taken twice, the key items a player carries are    *)
(* those its finished steps and quests gave and no step has taken.         *)
(***************************************************************************)
EXTENDS Quests, FiniteSetTheorems, WellFoundedInduction, TLAPS

(* The types of the variables that say where the quests stand. *)
Typed ==
    /\ finished \in Quests \cup {None}
    /\ status \in [Quests -> {"none", "active", "completed"}]
    /\ stepIndex \in [Quests -> Nat]

(* The step index is in range, except that of the quest that is about to   *)
(* be completed: NoPanic, strengthened to the states between a last step   *)
(* and completeQuest.                                                      *)
InRange ==
    /\ finished # None => status[finished] = "active"
    /\ \A q \in Quests :
         status[q] = "active" /\ q # finished => stepIndex[q] < Len(Steps[q])

QuestInv == Typed /\ InRange /\ PrerequisitesKept

(* The player has what the current step of q receives, and trades it for   *)
(* what the step grants.  Steps other than talk_to trade nothing.          *)
Exchange(q) ==
    \/ /\ Current(q).receives \subseteq keyInventory
       /\ keyInventory' = (keyInventory \cup Current(q).grants) \ Current(q).receives
       /\ UNCHANGED <<gold, battleSkill>>
    \/ Current(q).action # "talk_to" /\ UNCHANGED rewardVars

(* What every action does to the quests, in one of four ways. *)
Accepts(q) ==
    /\ Idle
    /\ status[q] = "none"
    /\ Requires[q] # None => status[Requires[q]] = "completed"
    /\ status' = [status EXCEPT ![q] = "active"]
    /\ stepIndex' = [stepIndex EXCEPT ![q] = 0]
    /\ finished' = finished
    /\ UNCHANGED rewardVars

Advances(q) ==
    /\ Idle
    /\ status[q] = "active"
    /\ Advance(q)
    /\ Exchange(q)
    /\ status' = status

Completes ==
    /\ finished # None
    /\ status' = [status EXCEPT ![finished] = "completed"]
    /\ finished' = None
    /\ stepIndex' = stepIndex
    /\ keyInventory' = keyInventory \cup RewardItems(finished)
    /\ gold' = gold + RewardGold[finished]
    /\ battleSkill' = battleSkill + Boost[finished]

Stays == UNCHANGED <<status, stepIndex, finished, rewardVars>>

(* Quests are distinct from None and have steps. *)
LEMMA WorldFacts ==
    /\ None \notin Quests
    /\ \A q \in Quests : Len(Steps[q]) \in Nat /\ Len(Steps[q]) > 0
    /\ \A q \in Quests : Requires[q] \in Quests \cup {None}
<1>1. \A q \in Quests : Steps[q] \in Seq(Step) /\ Steps[q] # <<>>
  BY QuestsAssumption DEF QuestsAssumption
<1>2. ASSUME NEW q \in Quests PROVE Len(Steps[q]) \in Nat /\ Len(Steps[q]) > 0
  BY <1>1
<1> QED
  BY <1>2, QuestsAssumption DEF QuestsAssumption

(* MOVE and a won fight advance one of the quests that wait, or none. *)
LEMMA OneAdvances ==
    ASSUME NEW action \in {"enter_area", "battle"}, NEW target,
           Idle, AdvanceOneOf(Waiting(action, target)), UNCHANGED <<status, rewardVars>>
    PROVE  Stays \/ \E q \in Quests : Advances(q)
BY DEF AdvanceOneOf, Waiting, Advances, Exchange, Stays

(* Every step of Quests is one of the four. *)
LEMMA QuestStep ==
    ASSUME [Next]_vars
    PROVE  Stays \/ Completes \/ \E q \in Quests : Accepts(q) \/ Advances(q)
<1> DEFINE Goal == Stays \/ Completes \/ \E q \in Quests : Accepts(q) \/ Advances(q)
<1>1. CASE UNCHANGED vars
  BY <1>1 DEF vars, rewardVars, Stays
<1>2. ASSUME NEW n \in NPCs, AcceptQuest(n) PROVE Goal
  BY <1>2 DEF AcceptQuest, Offered, Accepts
<1>3. ASSUME NEW n \in NPCs, Talk(n) PROVE Goal
  BY <1>3 DEF Talk, Waiting, HasAllItems, Advances, Exchange
<1>4. ASSUME NEW n \in NPCs, StartFight(n) PROVE Goal
  BY <1>4 DEF StartFight, Stays
<1>5. ASSUME NEW z \in Zones, Move(z) PROVE Goal
  BY <1>5, OneAdvances DEF Move
<1>6. CASE Win
  BY <1>6, OneAdvances DEF Win
<1>7. CASE Lose \/ Flee
  BY <1>7 DEF Lose, Flee, Stays
<1>8. CASE CompleteQuest
  BY <1>8 DEF CompleteQuest, PaidItem, Completes, placeVars
<1> QED
  BY <1>1, <1>2, <1>3, <1>4, <1>5, <1>6, <1>7, <1>8 DEF Next

(* Each of the four preserves the invariant. *)
LEMMA StepInv ==
    ASSUME QuestInv, [Next]_vars
    PROVE  QuestInv'
<1> USE WorldFacts DEF QuestInv, Typed, InRange, PrerequisitesKept, Completed
<1>1. CASE Stays
  BY <1>1 DEF Stays
<1>2. CASE Completes
  BY <1>2 DEF Completes
<1>3. ASSUME NEW q \in Quests, Accepts(q) PROVE QuestInv'
  BY <1>3 DEF Accepts, Idle
<1>4. ASSUME NEW q \in Quests, Advances(q) PROVE QuestInv'
  <2>1. Typed'
    BY <1>4 DEF Advances, Advance
  <2>2. InRange'
    BY <1>4 DEF Advances, Advance, LastStep, Idle
  <2>3. PrerequisitesKept'
    BY <1>4 DEF Advances
  <2> QED
    BY <2>1, <2>2, <2>3
<1> QED
  BY <1>1, <1>2, <1>3, <1>4, QuestStep

(* QuestInv is an inductive invariant. *)
THEOREM QuestInvariant == Spec => []QuestInv
<1>1. Init => QuestInv
  BY WorldFacts
  DEF Init, QuestInv, Typed, InRange, PrerequisitesKept
<1> QED
  BY <1>1, StepInv, PTL DEF Spec

(* No command indexes Steps out of range, which would end the server.      *)
THEOREM StepsInRange == Spec => []NoPanic
<1>1. QuestInv => NoPanic
  BY WorldFacts DEF QuestInv, Typed, InRange, NoPanic, Idle
<1> QED
  BY <1>1, QuestInvariant, PTL

(* A prerequisite is completed for as long as the player has the quest.    *)
THEOREM PrerequisitesHold == Spec => []PrerequisitesKept
<1>1. QuestInv => PrerequisitesKept
  BY DEF QuestInv
<1> QED
  BY <1>1, QuestInvariant, PTL

(* Every step moves at most one quest, by one stage and never back.        *)
THEOREM ForwardOnly == Spec => MovesForward
<1> DEFINE OneMoves ==
      \A q \in Quests :
         \/ Progress(q)' = Progress(q)
         \/ /\ Progress(q)' = Progress(q) + 1
            /\ \A r \in Quests \ {q} : Progress(r)' = Progress(r)
<1>1. ASSUME QuestInv, [Next]_vars PROVE OneMoves
  <2> USE DEF QuestInv, Typed, InRange, Progress
  <2>1. CASE Stays
    BY <2>1 DEF Stays
  <2>2. CASE Completes
    BY <1>1, <2>2 DEF Completes
  <2>3. ASSUME NEW q \in Quests, Accepts(q) PROVE OneMoves
    BY <1>1, <2>3 DEF Accepts
  <2>4. ASSUME NEW q \in Quests, Advances(q) PROVE OneMoves
    BY <1>1, <2>4 DEF Advances, Advance
  <2> QED
    BY <1>1, <2>1, <2>2, <2>3, <2>4, QuestStep
<1> QED
  BY <1>1, QuestInvariant, PTL DEF Spec, MovesForward

-----------------------------------------------------------------------------
(* Types. *)

LEMMA RewardFacts ==
    ASSUME NEW q \in Quests
    PROVE  /\ RewardGold[q] \in Nat /\ Boost[q] \in Nat
           /\ RewardItems(q) \subseteq KeyItems
           /\ \A i \in DOMAIN Steps[q] :
                /\ Steps[q][i].grants \subseteq KeyItems
                /\ Steps[q][i].receives \subseteq KeyItems
                /\ \/ Steps[q][i].action = "talk_to"
                   \/ Steps[q][i].grants = {} /\ Steps[q][i].receives = {}
PROOF
<1>1. /\ RewardItem \in [Quests -> KeyItems \cup {None}]
      /\ RewardGold \in [Quests -> Nat] /\ SkillBoost \in [KeyItems -> Nat]
      /\ Steps[q] \in Seq(Step)
  BY QuestsAssumption DEF QuestsAssumption
<1>2. RewardGold[q] \in Nat /\ Boost[q] \in Nat /\ RewardItems(q) \subseteq KeyItems
  BY <1>1 DEF Boost, RewardItems
<1>3. ASSUME NEW i \in DOMAIN Steps[q]  PROVE Steps[q][i] \in Step
  BY <1>1
<1>4. \A i \in DOMAIN Steps[q] :
        \/ Steps[q][i].action = "talk_to"
        \/ Steps[q][i].grants = {} /\ Steps[q][i].receives = {}
  BY QuestsAssumption DEF QuestsAssumption
<1> QED BY <1>2, <1>3, <1>4 DEF Step

(* A quest that advances is at a step it has.                              *)
LEMMA AtStep ==
    ASSUME QuestInv, NEW q \in Quests, status[q] = "active", Idle
    PROVE  /\ stepIndex[q] \in Nat /\ stepIndex[q] + 1 \in DOMAIN Steps[q]
           /\ DOMAIN Steps[q] = 1 .. Len(Steps[q]) /\ Len(Steps[q]) \in Nat
PROOF
<1>1. Steps[q] \in Seq(Step)  BY QuestsAssumption DEF QuestsAssumption
<1>2. DOMAIN Steps[q] = 1 .. Len(Steps[q]) /\ Len(Steps[q]) \in Nat  BY <1>1
<1> QED BY <1>2, WorldFacts DEF QuestInv, Typed, InRange, Idle

LEMMA RewardsTyped ==
    ASSUME QuestInv, keyInventory \subseteq KeyItems, gold \in Nat, battleSkill \in Nat,
           [Next]_vars
    PROVE  keyInventory' \subseteq KeyItems /\ gold' \in Nat /\ battleSkill' \in Nat
PROOF
<1> DEFINE Goal == keyInventory' \subseteq KeyItems /\ gold' \in Nat /\ battleSkill' \in Nat
<1>1. CASE Stays  BY <1>1 DEF Stays, rewardVars
<1>2. CASE Completes
  <2>1. finished \in Quests  BY <1>2 DEF Completes, QuestInv, Typed
  <2> QED BY <1>2, <2>1, RewardFacts DEF Completes
<1>3. ASSUME NEW q \in Quests, Accepts(q)  PROVE Goal
  BY <1>3 DEF Accepts, rewardVars
<1>4. ASSUME NEW q \in Quests, Advances(q)  PROVE Goal
  <2>1. Current(q).grants \subseteq KeyItems
    BY <1>4, AtStep, RewardFacts DEF Advances, Current
  <2> QED BY <1>4, <2>1 DEF Advances, Exchange, rewardVars
<1> QED BY <1>1, <1>2, <1>3, <1>4, QuestStep

LEMMA PlacesTyped ==
    ASSUME currLoc \in Zones, foe \in Enemies \cup {None}, [Next]_vars
    PROVE  currLoc' \in Zones /\ foe' \in Enemies \cup {None}
PROOF
<1> DEFINE Goal == currLoc' \in Zones /\ foe' \in Enemies \cup {None}
<1>1. Exits \in [Zones -> SUBSET Zones] /\ RespawnZone \in Zones
  BY QuestsAssumption DEF QuestsAssumption
<1>2. CASE UNCHANGED vars  BY <1>2 DEF vars, placeVars
<1>3. ASSUME NEW n \in NPCs, AcceptQuest(n)  PROVE Goal
  BY <1>3 DEF AcceptQuest, placeVars
<1>4. ASSUME NEW n \in NPCs, Talk(n)  PROVE Goal
  BY <1>4 DEF Talk, placeVars
<1>5. ASSUME NEW n \in NPCs, StartFight(n)  PROVE Goal
  BY <1>5 DEF StartFight
<1>6. ASSUME NEW z \in Zones, Move(z)  PROVE Goal
  BY <1>6 DEF Move
<1>7. CASE Win \/ Lose \/ Flee
  BY <1>1, <1>7 DEF Win, Lose, Flee
<1>8. CASE CompleteQuest
  BY <1>8 DEF CompleteQuest, placeVars
<1> QED BY <1>2, <1>3, <1>4, <1>5, <1>6, <1>7, <1>8 DEF Next

(* The state of a player is well typed, in every world.                    *)
THEOREM QuestsTyped == Spec => []TypeOK
PROOF
<1>1. Init => TypeOK
  BY QuestsAssumption DEF QuestsAssumption, Init, TypeOK, BaseSkill
<1>2. QuestInv /\ TypeOK /\ [Next]_vars => TypeOK'
  <2> SUFFICES ASSUME QuestInv, TypeOK, [Next]_vars  PROVE TypeOK'
    OBVIOUS
  <2>1. Typed'  BY StepInv DEF QuestInv
  <2>2. keyInventory' \subseteq KeyItems /\ gold' \in Nat /\ battleSkill' \in Nat
    BY RewardsTyped DEF TypeOK
  <2>3. currLoc' \in Zones /\ foe' \in Enemies \cup {None}
    BY PlacesTyped DEF TypeOK
  <2> QED BY <2>1, <2>2, <2>3 DEF TypeOK, Typed
<1> QED BY <1>1, <1>2, QuestInvariant, PTL DEF Spec

-----------------------------------------------------------------------------
(* Gold and battle skill.  A sum of numbers over a set is the number of    *)
(* coins in all the purses, which grows as sets do.                        *)

(* Every set of numbers has a least one: the order of Nat is well-founded. *)
LEMMA LeastNumber ==
    ASSUME NEW N \in SUBSET Nat, N # {}
    PROVE  \E n \in N : \A m \in N : n <= m
PROOF
<1> DEFINE Less == {p \in Nat \X Nat : p[1] < p[2]}
<1>1. IsWellFoundedOn(Less, Nat)
  BY NatLessThanWellFounded DEF OpToRel
<1> HIDE DEF Less
<1>2. PICK n \in N : \A m \in N : <<m, n>> \notin Less  BY <1>1, WFMin
<1>3. ASSUME NEW m \in N  PROVE n <= m
  <2>1. m < n => <<m, n>> \in Less  BY DEF Less
  <2> QED BY <1>2, <2>1
<1> QED BY <1>3

(* What holds of 0, and of n + 1 if it holds of n, holds of every number:  *)
(* induction, for a set.                                                   *)
LEMMA Induction ==
    ASSUME NEW S, 0 \in S, \A n \in Nat : n \in S => n + 1 \in S
    PROVE  Nat \subseteq S
PROOF
<1> SUFFICES ASSUME Nat \ S # {}  PROVE FALSE
  OBVIOUS
<1>1. PICK n \in Nat \ S : \A m \in Nat \ S : n <= m
  BY LeastNumber
<1>2. n # 0 /\ n - 1 \in Nat  BY <1>1
<1>3. n - 1 \in S  BY <1>1, <1>2
<1> QED BY <1>1, <1>2, <1>3

Coins(f, S) == {p \in S \X Nat : p[2] \in 1 .. f[p[1]]}

(* One purse more. *)
LEMMA CoinsAdded ==
    ASSUME NEW f, NEW S, IsFiniteSet(Coins(f, S)), NEW x, x \notin S, f[x] \in Nat
    PROVE  /\ IsFiniteSet(Coins(f, S \cup {x}))
           /\ Cardinality(Coins(f, S \cup {x})) = f[x] + Cardinality(Coins(f, S))
           /\ Cardinality(Coins(f, S)) \in Nat
PROOF
<1> DEFINE C == Coins(f, S)
           D == {x} \X (1 .. f[x])
<1>1. Coins(f, S \cup {x}) = C \cup D /\ C \cap D = {}  BY DEF Coins
<1>2. IsFiniteSet(D) /\ Cardinality(D) = f[x]
  <2>1. IsFiniteSet(1 .. f[x]) /\ Cardinality(1 .. f[x]) = f[x]  BY FS_Interval
  <2>2. IsFiniteSet({x}) /\ Cardinality({x}) = 1  BY FS_Singleton
  <2>3. /\ IsFiniteSet(D)
        /\ Cardinality(D) = Cardinality({x}) * Cardinality(1 .. f[x])
    BY <2>1, <2>2, FS_Product
  <2> HIDE DEF D
  <2> QED BY <2>1, <2>2, <2>3
<1>3. Cardinality(C \cap D) = 0  BY <1>1, FS_EmptySet
<1> HIDE DEF C, D
<1>4. IsFiniteSet(C) /\ Cardinality(C) \in Nat  BY FS_CardinalityType DEF C
<1>5. /\ IsFiniteSet(C \cup D)
      /\ Cardinality(C \cup D) = Cardinality(C) + Cardinality(D) - Cardinality(C \cap D)
  BY <1>2, <1>4, FS_Union
<1>6. Cardinality(C \cup D) = f[x] + Cardinality(C)  BY <1>2, <1>3, <1>4, <1>5
<1>7. IsFiniteSet(Coins(f, S \cup {x})) /\ Cardinality(Coins(f, S \cup {x})) = f[x] + Cardinality(C)
  BY <1>1, <1>5, <1>6
<1> QED BY <1>4, <1>7 DEF C

LEMMA CoinsFinite ==
    ASSUME NEW f, NEW T, IsFiniteSet(T), \A x \in T : f[x] \in Nat
    PROVE  \A S \in SUBSET T : IsFiniteSet(Coins(f, S))
PROOF
<1> DEFINE N == {n \in Nat : \A S \in SUBSET T :
                   Cardinality(S) = n => IsFiniteSet(Coins(f, S))}
<1>1. \A S \in SUBSET T : IsFiniteSet(S) /\ Cardinality(S) \in Nat
  BY FS_Subset, FS_CardinalityType
<1>2. 0 \in N
  <2>1. Coins(f, {}) = {}  BY DEF Coins
  <2> QED BY <1>1, <2>1, FS_EmptySet
<1>3. ASSUME NEW n \in Nat, n \in N  PROVE n + 1 \in N
  <2> SUFFICES ASSUME NEW S \in SUBSET T, Cardinality(S) = n + 1
               PROVE  IsFiniteSet(Coins(f, S))
    OBVIOUS
  <2>1. PICK x : x \in S  BY <1>1, FS_EmptySet
  <2>2. Cardinality(S \ {x}) = n
    <3>1. Cardinality(S \ {x}) = Cardinality(S) - 1  BY <1>1, <2>1, FS_RemoveElement
    <3> QED BY <3>1
  <2>3. IsFiniteSet(Coins(f, S \ {x}))  BY <1>3, <2>2
  <2>4. (S \ {x}) \cup {x} = S /\ x \notin S \ {x} /\ f[x] \in Nat  BY <2>1
  <2> QED BY <2>3, <2>4, CoinsAdded
<1> HIDE DEF N
<1>4. Nat \subseteq N  BY <1>2, <1>3, Induction
<1> QED BY <1>1, <1>4 DEF N

(* MapThenSumSet adds the elements one by one, in an order of its own.     *)
Adds(h, f, T) ==
    h = [S \in SUBSET T |->
           IF S = {} THEN 0
           ELSE f[CHOOSE x \in S : TRUE] + h[S \ {CHOOSE x \in S : TRUE}]]

LEMMA TotalCounts ==
    ASSUME NEW f, NEW T, IsFiniteSet(T), \A x \in T : f[x] \in Nat
    PROVE  Total(f, T) = Cardinality(Coins(f, T)) /\ IsFiniteSet(Coins(f, T))
PROOF
<1> DEFINE count == [S \in SUBSET T |-> Cardinality(Coins(f, S))]
<1>1. \A S \in SUBSET T : IsFiniteSet(S) /\ Cardinality(S) \in Nat
  BY FS_Subset, FS_CardinalityType
<1>2. Coins(f, {}) = {} /\ Cardinality({}) = 0  BY FS_EmptySet DEF Coins
<1>3. ASSUME NEW S \in SUBSET T, NEW x \in S
      PROVE  Cardinality(Coins(f, S)) = f[x] + Cardinality(Coins(f, S \ {x}))
  <2>1. IsFiniteSet(Coins(f, S \ {x}))  BY CoinsFinite
  <2>2. (S \ {x}) \cup {x} = S /\ x \notin S \ {x} /\ f[x] \in Nat  OBVIOUS
  <2> QED BY <2>1, <2>2, CoinsAdded
<1>4. Adds(count, f, T)
  <2>1. ASSUME NEW S \in SUBSET T, S # {}
        PROVE  count[S] = f[CHOOSE x \in S : TRUE] + count[S \ {CHOOSE x \in S : TRUE}]
    <3> DEFINE x == CHOOSE x \in S : TRUE
    <3>1. x \in S  BY <2>1
    <3>2. S \ {x} \in SUBSET T  OBVIOUS
    <3> HIDE DEF x
    <3>3. count[S] = f[x] + count[S \ {x}]  BY <1>3, <3>1, <3>2
    <3> QED BY <3>3 DEF x
  <2>2. count[{}] = 0  BY <1>2
  <2> QED BY <2>1, <2>2 DEF Adds
<1> DEFINE h == CHOOSE h : Adds(h, f, T)
<1>5. Adds(h, f, T)
  <2>1. \E g : Adds(g, f, T)
    <3> HIDE DEF count
    <3> QED BY <1>4
  <2> QED BY <2>1
<1>6. Total(f, T) = h[T]
  BY DEF Total, MapThenSumSet, MapThenFoldSet, Adds
<1> HIDE DEF h, count
<1> DEFINE N == {n \in Nat : \A S \in SUBSET T :
                   Cardinality(S) = n => h[S] = Cardinality(Coins(f, S))}
<1>7. 0 \in N
  <2>1. h[{}] = 0  BY <1>5 DEF Adds
  <2> QED BY <1>1, <1>2, <2>1, FS_EmptySet
<1>8. ASSUME NEW n \in Nat, n \in N  PROVE n + 1 \in N
  <2> SUFFICES ASSUME NEW S \in SUBSET T, Cardinality(S) = n + 1
               PROVE  h[S] = Cardinality(Coins(f, S))
    OBVIOUS
  <2> DEFINE x == CHOOSE x \in S : TRUE
  <2>1. S # {} /\ x \in S
    <3>1. S # {}  BY <1>2
    <3>2. \E y : y \in S  BY <3>1
    <3> QED BY <3>1, <3>2
  <2>2. h[S] = f[x] + h[S \ {x}]  BY <1>5, <2>1 DEF Adds
  <2> HIDE DEF x
  <2>3. Cardinality(S \ {x}) = n
    <3>1. Cardinality(S \ {x}) = Cardinality(S) - 1  BY <1>1, <2>1, FS_RemoveElement
    <3> QED BY <3>1
  <2>4. h[S \ {x}] = Cardinality(Coins(f, S \ {x}))  BY <1>8, <2>3
  <2> QED BY <1>3, <2>1, <2>2, <2>4
<1> HIDE DEF N
<1>9. Nat \subseteq N  BY <1>7, <1>8, Induction
<1>10. h[T] = Cardinality(Coins(f, T))  BY <1>1, <1>9 DEF N
<1> QED BY <1>6, <1>10, CoinsFinite

(* A reward is paid for a quest that was not among the completed ones.     *)
LEMMA TotalGrows ==
    ASSUME NEW f, \A q \in Quests : f[q] \in Nat, NEW S \in SUBSET Quests,
           NEW q \in Quests, q \notin S
    PROVE  Total(f, S \cup {q}) = Total(f, S) + f[q]
PROOF
<1>1. IsFiniteSet(S) /\ IsFiniteSet(S \cup {q})
  BY QuestsAssumption, FS_Subset DEF QuestsAssumption
<1>2. /\ Total(f, S) = Cardinality(Coins(f, S)) /\ IsFiniteSet(Coins(f, S))
      /\ Total(f, S \cup {q}) = Cardinality(Coins(f, S \cup {q}))
  BY <1>1, TotalCounts
<1> QED BY <1>2, CoinsAdded

LEMMA TotalIsNumber ==
    ASSUME NEW f, \A q \in Quests : f[q] \in Nat, NEW S \in SUBSET Quests
    PROVE  Total(f, S) \in Nat
PROOF
<1>1. IsFiniteSet(S)  BY QuestsAssumption, FS_Subset DEF QuestsAssumption
<1>2. Total(f, S) = Cardinality(Coins(f, S)) /\ IsFiniteSet(Coins(f, S))
  BY <1>1, TotalCounts
<1> QED BY <1>2, FS_CardinalityType

(* Gold and battle skill are what the completed quests pay, each once: no  *)
(* order of commands completes a quest a second time.                      *)
THEOREM PaidOnce == Spec => []RewardsPaidOnce
PROOF
<1>1. Init => RewardsPaidOnce
  <2> SUFFICES ASSUME Init  PROVE RewardsPaidOnce
    OBVIOUS
  <2>1. Completed = {} /\ gold = 0 /\ battleSkill = BaseSkill  BY DEF Init, Completed
  <2>2. ASSUME NEW f  PROVE Total(f, {}) = 0
    <3>1. Coins(f, {}) = {} /\ IsFiniteSet({}) /\ Cardinality({}) = 0
      BY FS_EmptySet DEF Coins
    <3> QED BY <3>1, TotalCounts
  <2> QED BY <2>1, <2>2 DEF RewardsPaidOnce, BaseSkill
<1>2. QuestInv /\ RewardsPaidOnce /\ [Next]_vars => RewardsPaidOnce'
  <2> SUFFICES ASSUME QuestInv, RewardsPaidOnce, [Next]_vars  PROVE RewardsPaidOnce'
    OBVIOUS
  <2>1. ASSUME Completed' = Completed, gold' = gold, battleSkill' = battleSkill
        PROVE  RewardsPaidOnce'
    BY <2>1 DEF RewardsPaidOnce
  <2>2. CASE Stays  BY <2>1, <2>2 DEF Stays, rewardVars, Completed
  <2>3. ASSUME NEW q \in Quests, Accepts(q)  PROVE RewardsPaidOnce'
    BY <2>1, <2>3 DEF Accepts, rewardVars, Completed, QuestInv, Typed
  <2>4. ASSUME NEW q \in Quests, Advances(q)  PROVE RewardsPaidOnce'
    BY <2>1, <2>4 DEF Advances, Exchange, rewardVars, Completed
  <2>5. CASE Completes
    <3>1. finished \in Quests /\ finished \notin Completed
      BY <2>5 DEF Completes, QuestInv, Typed, InRange, Completed
    <3>2. Completed' = Completed \cup {finished} /\ Completed \subseteq Quests
      BY <2>5, <3>1 DEF Completes, QuestInv, Typed, Completed
    <3>3. \A q \in Quests : RewardGold[q] \in Nat /\ Boost[q] \in Nat  BY RewardFacts
    <3>4. /\ Total(RewardGold, Completed') = Total(RewardGold, Completed) + RewardGold[finished]
          /\ Total(Boost, Completed') = Total(Boost, Completed) + Boost[finished]
      BY <3>1, <3>2, <3>3, TotalGrows
    <3>5. /\ gold' = Total(RewardGold, Completed')
          /\ battleSkill' = BaseSkill + Total(Boost, Completed')
      <4>1. gold' = Total(RewardGold, Completed) + RewardGold[finished]
        BY <2>5 DEF Completes, RewardsPaidOnce
      <4>2. battleSkill' = BaseSkill + Total(Boost, Completed) + Boost[finished]
        BY <2>5 DEF Completes, RewardsPaidOnce
      <4>3. Total(Boost, Completed) \in Nat /\ Boost[finished] \in Nat
        BY <3>1, <3>2, <3>3, TotalIsNumber
      <4> QED BY <3>4, <4>1, <4>2, <4>3 DEF BaseSkill
    <3> QED BY <3>5 DEF RewardsPaidOnce
  <2> QED BY <2>2, <2>3, <2>4, <2>5, QuestStep
<1> QED BY <1>1, <1>2, QuestInvariant, PTL DEF Spec

-----------------------------------------------------------------------------
(* Key items, in worlds where none is given twice or taken twice.          *)

(* Key item k has been given: by a step the player has passed, or in the   *)
(* reward of a completed quest.  It has been taken by a step passed.       *)
GivenAt(q, i, k) ==
    \/ i \in Passed(q) /\ k \in Steps[q][i].grants
    \/ i = Len(Steps[q]) + 1 /\ q \in Completed /\ k \in RewardItems(q)

Given(k) == \E q \in Quests : \E i \in 1 .. Len(Steps[q]) + 1 : GivenAt(q, i, k)

Taken(k) == \E q \in Quests : \E i \in Passed(q) : k \in Steps[q][i].receives

(* The player holds what has been given and not taken; and nothing is      *)
(* taken that was not given before.                                        *)
KeyInv ==
    /\ \A q \in Quests : status[q] = "none" => stepIndex[q] = 0
    /\ \A q \in Quests : status[q] = "completed" => stepIndex[q] >= Len(Steps[q])
    /\ finished # None => stepIndex[finished] >= Len(Steps[finished])
    /\ keyInventory \subseteq KeyItems
    /\ \A k \in KeyItems : k \in keyInventory <=> Given(k) /\ ~Taken(k)
    /\ \A k \in KeyItems : Taken(k) => Given(k)

LEMMA StepsAreNumbered ==
    ASSUME NEW q \in Quests
    PROVE  DOMAIN Steps[q] = 1 .. Len(Steps[q]) /\ Len(Steps[q]) \in Nat
PROOF
<1>1. Steps[q] \in Seq(Step)  BY QuestsAssumption DEF QuestsAssumption
<1> QED BY <1>1

LEMMA GivenIsGiving ==
    ASSUME NEW q \in Quests, NEW i \in 1 .. Len(Steps[q]) + 1, NEW k, GivenAt(q, i, k)
    PROVE  Gives(q, i, k) /\ k \in KeyItems
BY StepsAreNumbered, RewardFacts DEF GivenAt, Gives, Passed, RewardItems

(* What is about to be given has not been given before.                    *)
LEMMA NotGivenYet ==
    ASSUME OneOfEach, NEW q \in Quests, NEW i \in 1 .. Len(Steps[q]) + 1,
           NEW k \in KeyItems, Gives(q, i, k), ~GivenAt(q, i, k)
    PROVE  ~Given(k)
PROOF
<1> SUFFICES ASSUME NEW r \in Quests, NEW j \in 1 .. Len(Steps[r]) + 1, GivenAt(r, j, k)
             PROVE  FALSE
  BY DEF Given
<1>1. Gives(r, j, k)  BY GivenIsGiving
<1>2. q = r /\ i = j  BY <1>1 DEF OneOfEach
<1> QED BY <1>2

LEMMA AdvanceKeys ==
    ASSUME OneOfEach, QuestInv, KeyInv, NEW q \in Quests, Advances(q)
    PROVE  KeyInv'
PROOF
<1> DEFINE n == stepIndex[q] + 1
           g == Current(q).grants
           t == Current(q).receives
<1>1. /\ stepIndex[q] \in Nat /\ n \in DOMAIN Steps[q] /\ n \in 1 .. Len(Steps[q]) + 1
      /\ n # Len(Steps[q]) + 1 /\ g = Steps[q][n].grants /\ t = Steps[q][n].receives
      /\ g \subseteq KeyItems /\ t \subseteq KeyItems
  BY AtStep, StepsAreNumbered, RewardFacts DEF Advances, Current
<1>2. /\ stepIndex' = [stepIndex EXCEPT ![q] = n] /\ status' = status
      /\ status[q] = "active" /\ finished = None
      /\ finished' = IF LastStep(q) THEN q ELSE None
  BY DEF Advances, Advance, Idle
<1>3. stepIndex \in [Quests -> Nat]  BY DEF QuestInv, Typed
<1> HIDE DEF n, g, t
<1>4. /\ n \notin Passed(q) /\ Passed(q)' = Passed(q) \cup {n}
      /\ \A r \in Quests \ {q} : Passed(r)' = Passed(r)
  <2>1. n \notin Passed(q)  BY <1>1 DEF Passed, n
  <2>2. \A i \in DOMAIN Steps[q] : i <= n <=> i <= stepIndex[q] \/ i = n
    BY <1>1, StepsAreNumbered DEF n
  <2> QED BY <1>1, <1>2, <1>3, <2>1, <2>2 DEF Passed
<1>5. Completed' = Completed  BY <1>2 DEF Completed
<1>6. ASSUME NEW k  PROVE Given(k)' <=> Given(k) \/ k \in g
  <2>1. ASSUME NEW r \in Quests, NEW i
        PROVE  GivenAt(r, i, k)' <=> GivenAt(r, i, k) \/ (r = q /\ i = n /\ k \in g)
    BY <1>1, <1>4, <1>5 DEF GivenAt
  <2> QED BY <1>1, <2>1 DEF Given
<1>7. ASSUME NEW k  PROVE Taken(k)' <=> Taken(k) \/ k \in t
  <2>1. \A r \in Quests : \A i : i \in Passed(r)' <=> i \in Passed(r) \/ (r = q /\ i = n)
    BY <1>4
  <2> QED BY <1>1, <2>1 DEF Taken
<1>8. ASSUME NEW k \in KeyItems, k \in g  PROVE ~Given(k)
  <2>1. Gives(q, n, k)  BY <1>1, <1>8 DEF Gives
  <2>2. ~GivenAt(q, n, k)  BY <1>1, <1>4 DEF GivenAt
  <2> QED BY <1>1, <2>1, <2>2, NotGivenYet
<1>9. t \subseteq keyInventory /\ keyInventory' = (keyInventory \cup g) \ t
  <2>1. CASE Current(q).action # "talk_to" /\ UNCHANGED rewardVars
    <3>1. g = {} /\ t = {}  BY <1>1, <2>1, RewardFacts DEF Current, n
    <3> QED BY <2>1, <3>1 DEF rewardVars
  <2>2. CASE /\ t \subseteq keyInventory
             /\ keyInventory' = (keyInventory \cup g) \ t
    BY <2>2
  <2> QED BY <2>1, <2>2 DEF Advances, Exchange, g, t
<1>10. /\ keyInventory' \subseteq KeyItems
       /\ \A k \in KeyItems : k \in keyInventory' <=> Given(k)' /\ ~Taken(k)'
       /\ \A k \in KeyItems : Taken(k)' => Given(k)'
  BY <1>1, <1>6, <1>7, <1>8, <1>9 DEF KeyInv
<1>11. /\ \A r \in Quests : status'[r] = "none" => stepIndex'[r] = 0
       /\ \A r \in Quests : status'[r] = "completed" => stepIndex'[r] >= Len(Steps[r])
       /\ finished' # None => stepIndex'[finished'] >= Len(Steps[finished'])
  <2>1. stepIndex'[q] = n /\ \A r \in Quests \ {q} : stepIndex'[r] = stepIndex[r]
    BY <1>2, <1>3
  <2>2. LastStep(q) => n >= Len(Steps[q])  BY DEF LastStep, n
  <2> QED BY <1>2, <2>1, <2>2 DEF KeyInv
<1> QED BY <1>10, <1>11 DEF KeyInv

LEMMA CompleteKeys ==
    ASSUME OneOfEach, QuestInv, KeyInv, Completes
    PROVE  KeyInv'
PROOF
<1> DEFINE q == finished
           n == Len(Steps[q]) + 1
<1>1. /\ finished \in Quests /\ finished \notin Completed /\ None \notin Quests
      /\ status' = [status EXCEPT ![finished] = "completed"] /\ finished' = None
      /\ stepIndex' = stepIndex /\ keyInventory' = keyInventory \cup RewardItems(finished)
      /\ status \in [Quests -> {"none", "active", "completed"}]
  BY WorldFacts DEF Completes, QuestInv, Typed, InRange, Completed
<1> HIDE DEF q
<1>2. q \in Quests /\ q = finished  BY <1>1 DEF q
<1>3. n \in 1 .. n /\ n \notin DOMAIN Steps[q]  BY <1>2, StepsAreNumbered
<1> HIDE DEF n
<1>4. Completed' = Completed \cup {q}  BY <1>1, <1>2 DEF Completed
<1>5. \A r : Passed(r)' = Passed(r)  BY <1>1 DEF Passed
<1>6. ASSUME NEW k  PROVE Given(k)' <=> Given(k) \/ k \in RewardItems(q)
  <2>1. ASSUME NEW r \in Quests, NEW i
        PROVE  GivenAt(r, i, k)' <=>
                 GivenAt(r, i, k) \/ (r = q /\ i = n /\ k \in RewardItems(q))
    BY <1>1, <1>4, <1>5 DEF GivenAt, n
  <2> QED BY <1>2, <1>3, <2>1 DEF Given, n
<1>7. \A k : Taken(k)' <=> Taken(k)  BY <1>5 DEF Taken
<1>8. ASSUME NEW k \in KeyItems, k \in RewardItems(q)  PROVE ~Given(k)
  <2>1. Gives(q, n, k)  BY <1>3, <1>8 DEF Gives, RewardItems
  <2>2. ~GivenAt(q, n, k)  BY <1>1, <1>2, <1>3 DEF GivenAt, Passed
  <2>3. n \in 1 .. Len(Steps[q]) + 1  BY <1>3 DEF n
  <2> QED BY <1>2, <2>1, <2>2, <2>3, NotGivenYet
<1>9. RewardItems(q) \subseteq KeyItems  BY <1>2, RewardFacts
<1>10. /\ keyInventory' \subseteq KeyItems
       /\ \A k \in KeyItems : k \in keyInventory' <=> Given(k)' /\ ~Taken(k)'
       /\ \A k \in KeyItems : Taken(k)' => Given(k)'
  BY <1>1, <1>2, <1>6, <1>7, <1>8, <1>9 DEF KeyInv
<1>11. /\ \A r \in Quests : status'[r] = "none" => stepIndex'[r] = 0
       /\ \A r \in Quests : status'[r] = "completed" => stepIndex'[r] >= Len(Steps[r])
  BY <1>1 DEF KeyInv
<1> QED BY <1>1, <1>10, <1>11 DEF KeyInv

(* Where neither progress nor key items change. *)
LEMMA KeysStay ==
    ASSUME KeyInv, stepIndex' = stepIndex, keyInventory' = keyInventory, finished' = finished,
           Completed' = Completed, \A q \in Quests : status'[q] = "none" => status[q] = "none"
    PROVE  KeyInv'
PROOF
<1>1. \A q : Passed(q)' = Passed(q)  BY DEF Passed
<1>2. \A q, i, k : GivenAt(q, i, k)' <=> GivenAt(q, i, k)  BY <1>1 DEF GivenAt
<1>3. \A k : (Given(k)' <=> Given(k)) /\ (Taken(k)' <=> Taken(k))
  BY <1>1, <1>2 DEF Given, Taken
<1>4. \A q \in Quests : status'[q] = "completed" => status[q] = "completed"
  BY DEF Completed
<1> QED BY <1>3, <1>4 DEF KeyInv

LEMMA KeyStep ==
    ASSUME OneOfEach, QuestInv, KeyInv, [Next]_vars
    PROVE  KeyInv'
PROOF
<1>1. CASE Stays
  BY <1>1, KeysStay DEF Stays, rewardVars, Completed
<1>2. ASSUME NEW q \in Quests, Accepts(q)  PROVE KeyInv'
  <2>1. /\ status \in [Quests -> {"none", "active", "completed"}]
        /\ stepIndex \in [Quests -> Nat] /\ stepIndex[q] = 0
    BY <1>2 DEF Accepts, QuestInv, Typed, KeyInv
  <2>2. stepIndex' = stepIndex  BY <1>2, <2>1 DEF Accepts
  <2> QED BY <1>2, <2>1, <2>2, KeysStay DEF Accepts, rewardVars, Completed
<1> QED BY <1>1, <1>2, AdvanceKeys, CompleteKeys, QuestStep

LEMMA KeyInit == Init => KeyInv
PROOF
<1> SUFFICES ASSUME Init  PROVE KeyInv
  OBVIOUS
<1>1. \A q \in Quests : Passed(q) = {} /\ q \notin Completed
  BY StepsAreNumbered DEF Init, Passed, Completed
<1>2. \A k : ~Given(k) /\ ~Taken(k)  BY <1>1 DEF Given, GivenAt, Taken
<1> QED BY <1>2 DEF Init, KeyInv

LEMMA KeyItemsInvariant == ASSUME OneOfEach PROVE Spec => [](QuestInv /\ KeyInv)
PROOF
<1>1. KeyInv /\ QuestInv /\ [Next]_vars => KeyInv'  BY KeyStep
<1> QED BY <1>1, KeyInit, QuestInvariant, PTL DEF Spec

(* In such a world, the key items of a player are at every moment those    *)
(* that its steps and rewards have given and no step has taken.            *)
THEOREM KeyItemsEarned == ASSUME OneOfEach PROVE Spec => []KeyItemsFollowProgress
PROOF
<1>1. QuestInv /\ KeyInv => KeyItemsFollowProgress
  <2> SUFFICES ASSUME QuestInv, KeyInv  PROVE KeyItemsFollowProgress
    OBVIOUS
  <2> DEFINE granted(q) == UNION {Steps[q][i].grants : i \in Passed(q)}
             handed(q)  == UNION {Steps[q][i].receives : i \in Passed(q)}
             G == UNION {granted(q) : q \in Quests}
             R == UNION {RewardItems(q) : q \in Completed}
             H == UNION {handed(q) : q \in Quests}
  <2>1. ASSUME NEW k  PROVE k \in G <=> \E q \in Quests : \E i \in Passed(q) :
                                          k \in Steps[q][i].grants
    OBVIOUS
  <2>2. ASSUME NEW k  PROVE k \in R <=> \E q \in Completed : k \in RewardItems(q)
    OBVIOUS
  <2>3. ASSUME NEW k  PROVE k \in H <=> Taken(k)
    BY DEF Taken
  <2> HIDE DEF G, R, H
  <2>4. ASSUME NEW k  PROVE k \in G \cup R <=> Given(k)
    <3>1. \A q \in Quests : \A i \in Passed(q) : i \in 1 .. Len(Steps[q]) + 1
      BY StepsAreNumbered DEF Passed
    <3>2. \A q \in Quests : Len(Steps[q]) + 1 \in 1 .. Len(Steps[q]) + 1
      BY StepsAreNumbered
    <3>3. Completed \subseteq Quests  BY DEF Completed
    <3> QED BY <2>1, <2>2, <3>1, <3>2, <3>3 DEF Given, GivenAt
  <2>5. \A k : Given(k) => k \in KeyItems  BY GivenIsGiving DEF Given
  <2>6. \A k : k \in keyInventory <=> Given(k) /\ ~Taken(k)  BY <2>5 DEF KeyInv
  <2>7. keyInventory = (G \cup R) \ H  BY <2>3, <2>4, <2>6
  <2> QED BY <2>7, Zenon DEF KeyItemsFollowProgress, G, R, H
<1> QED BY <1>1, KeyItemsInvariant, PTL

(* In such a world no quest becomes impossible for want of a key item.     *)
THEOREM KeyItemsStayReachable == ASSUME OneOfEach PROVE Spec => []KeyItemsReachable
PROOF
<1>1. QuestInv /\ KeyInv => KeyItemsReachable
  <2> SUFFICES ASSUME QuestInv, KeyInv, NEW q \in Quests, NEW i \in Ahead(q),
                      NEW k \in Steps[q][i].receives, k \notin keyInventory
               PROVE  \E r \in Quests \ Completed :
                        k = RewardItem[r] \/ \E j \in Ahead(r) : k \in Steps[r][j].grants
    BY DEF KeyItemsReachable
  <2>1. i \in DOMAIN Steps[q] /\ i \notin Passed(q) /\ k \in KeyItems
    BY RewardFacts DEF Ahead
  <2>2. ~Taken(k)
    <3> SUFFICES ASSUME NEW r \in Quests, NEW j \in Passed(r), k \in Steps[r][j].receives
                 PROVE  FALSE
      BY DEF Taken
    <3>1. Takes(q, i, k) /\ Takes(r, j, k) /\ j \in DOMAIN Steps[r]
      BY <2>1 DEF Takes, Passed
    <3>2. i \in 1 .. Len(Steps[q]) + 1 /\ j \in 1 .. Len(Steps[r]) + 1
      BY <2>1, <3>1, StepsAreNumbered
    <3>3. q = r /\ i = j  BY <2>1, <3>1, <3>2 DEF OneOfEach
    <3> QED BY <2>1, <3>3
  <2>3. ~Given(k)  BY <2>1, <2>2 DEF KeyInv
  <2>4. PICK r \in Quests :
          k = RewardItem[r] \/ \E j \in DOMAIN Steps[r] : k \in Steps[r][j].grants
    BY <2>1, QuestsAssumption DEF QuestsAssumption
  <2>5. CASE k = RewardItem[r]
    <3>1. k \in RewardItems(r)
      BY <2>1, <2>5, QuestsAssumption DEF RewardItems, QuestsAssumption
    <3>2. Len(Steps[r]) + 1 \in 1 .. Len(Steps[r]) + 1  BY StepsAreNumbered
    <3>3. r \notin Completed  BY <2>3, <3>1, <3>2 DEF Given, GivenAt
    <3> QED BY <2>5, <3>3
  <2>6. CASE \E j \in DOMAIN Steps[r] : k \in Steps[r][j].grants
    <3>1. PICK j \in DOMAIN Steps[r] : k \in Steps[r][j].grants  BY <2>6
    <3>2. j \in 1 .. Len(Steps[r]) + 1 /\ j \in 1 .. Len(Steps[r])  BY StepsAreNumbered
    <3>3. j \notin Passed(r)  BY <2>3, <3>1, <3>2 DEF Given, GivenAt
    <3>4. r \notin Completed
      <4>1. r \in Completed => stepIndex[r] >= Len(Steps[r])  BY DEF KeyInv, Completed
      <4>2. stepIndex[r] \in Nat /\ Len(Steps[r]) \in Nat
        BY StepsAreNumbered DEF QuestInv, Typed
      <4> QED BY <3>2, <3>3, <4>1, <4>2 DEF Passed
    <3> QED BY <3>1, <3>3, <3>4 DEF Ahead
  <2> QED BY <2>4, <2>5, <2>6
<1> QED BY <1>1, KeyItemsInvariant, PTL
==============================================================================
