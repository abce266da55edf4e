------------------------------- MODULE MCWorld -------------------------------
(***************************************************************************)
(* A small instance of World.  Three zones in a line: the starting zone, a  *)
(* zone with an enemy, and the respawn zone.  A lamp belongs to the        *)
(* starting zone, a coin to the enemy's zone, and an altar that nobody can *)
(* take to the respawn zone.                                               *)
(***************************************************************************)
EXTENDS World, TLC

CONSTANTS tavern, field, chapel, lamp, coin, altar

MCZones      == {tavern, field, chapel}
MCExits      == (tavern :> {field}) @@ (field :> {tavern, chapel})
                @@ (chapel :> {field})
MCEnemyZones == {field}
MCItems      == {lamp, coin, altar}
MCBaseLoc    == (lamp :> tavern) @@ (coin :> field) @@ (altar :> chapel)
MCObtainable == {lamp, coin}
==============================================================================
