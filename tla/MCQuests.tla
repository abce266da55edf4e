------------------------------- MODULE MCQuests ------------------------------
(***************************************************************************)
(* The town, the NPCs and the quests of server/world.yaml, and one quest   *)
(* more, bounty, that its validator would accept: it waits for the same    *)
(* fight as a_lesson_in_manners, and has the same giver.                   *)
(***************************************************************************)
EXTENDS Quests, TLC

CONSTANTS loaf, well, manners, arms, bounty

MCExits ==
    "taverne"         :> {"fountain_square"}
    @@ "fountain_square" :> {"chapel", "old_well", "market_square", "taverne"}
    @@ "chapel"          :> {"churchyard", "fountain_square"}
    @@ "churchyard"      :> {"old_well", "chapel"}
    @@ "old_well"        :> {"churchyard", "mill", "fountain_square", "cistern"}
    @@ "cistern"         :> {"old_well"}
    @@ "market_square"   :> {"fountain_square", "mill", "smithy"}
    @@ "smithy"          :> {"market_square"}
    @@ "mill"            :> {"old_well", "fallow_field", "market_square"}
    @@ "fallow_field"    :> {"mill"}
MCZones == DOMAIN MCExits

MCPlace ==
    "george" :> "taverne" @@ "kassandra" :> "fountain_square"
    @@ "bertha" :> "market_square" @@ "brannoc" :> "smithy"
    @@ "cave_bat" :> "cistern" @@ "ruffian" :> "fallow_field"
MCNPCs == DOMAIN MCPlace

MCQuestSet == {loaf, well, manners, arms, bounty}
MCGiver ==
    loaf :> "george" @@ well :> "kassandra" @@ manners :> "bertha"
    @@ arms :> "brannoc" @@ bounty :> "bertha"
MCRequires == [q \in MCQuestSet |-> IF q = well THEN loaf ELSE None]

Do(action, target) ==
    [action |-> action, target |-> target, grants |-> {}, receives |-> {}]
MCSteps ==
    loaf :> <<[Do("talk_to", "george") EXCEPT !.grants = {"loaf_of_bread"}],
              [Do("talk_to", "kassandra") EXCEPT !.receives = {"loaf_of_bread"}]>>
    @@ well :> <<Do("talk_to", "kassandra"), Do("enter_area", "old_well"),
                 Do("battle", "cave_bat"), Do("talk_to", "kassandra")>>
    @@ manners :> <<Do("talk_to", "bertha"), Do("battle", "ruffian"),
                    Do("talk_to", "bertha")>>
    @@ arms :> <<Do("talk_to", "brannoc"),
                 [Do("talk_to", "brannoc")
                     EXCEPT !.receives = {"rusty_dagger", "small_gem"}]>>
    @@ bounty :> <<Do("battle", "ruffian"), Do("enter_area", "market_square")>>

MCKeyItems == {"loaf_of_bread", "rusty_dagger", "small_gem", "ornate_dagger"}
MCRewardItem ==
    loaf :> "rusty_dagger" @@ well :> "small_gem" @@ arms :> "ornate_dagger"
    @@ [q \in {manners, bounty} |-> None]
MCRewardGold == well :> 20 @@ manners :> 10 @@ [q \in MCQuestSet |-> 0]
MCSkillBoost == [k \in MCKeyItems |-> IF k = "ornate_dagger" THEN 2 ELSE 0]

(* What the theorems about key items suppose of the world. *)
ASSUME OneOfEach
==============================================================================
