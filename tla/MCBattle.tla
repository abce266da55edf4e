------------------------------- MODULE MCBattle ------------------------------
(***************************************************************************)
(* A small instance of Battle: two players, one enemy to compete for, and  *)
(* two BattleFields, so that a player, or its rival, can start a new fight *)
(* while the goroutine of the last one has not ended.  With MaxHP 3 a      *)
(* player is weakened at 1 and healthy at 2, which half of it rounds up    *)
(* to; a blow may be mortal or not, and may leave exactly 0.               *)
(***************************************************************************)
EXTENDS Battle, TLC

CONSTANTS chapel, field, ruffian

MCZones        == {chapel, field}
MCNPCZone      == ruffian :> field
MCPlayerDamage == {1}
MCNPCDamage    == {1, 3}
==============================================================================
