----------------------------- MODULE ItemCustody -----------------------------
(***************************************************************************)
(* What the server promises about world items, seen from outside: an item  *)
(* is a single object that is at every moment in the custody of exactly    *)
(* one zone or one session.  Only obtainable items change custody; a       *)
(* session takes one item at a time out of a zone, and gives items back    *)
(* either to one zone (DROP) or each to its own base location (cleanup).   *)
(* World implements this specification (World!Custody).                    *)
(***************************************************************************)
CONSTANTS Items, Zones, Conns, BaseLoc, Obtainable

VARIABLE custody    \* custody[i]: the zone or the session that has item i

Init == custody = BaseLoc

(* TAKE: a session takes an obtainable item out of a zone. *)
Take(c, i) ==
    /\ i \in Obtainable
    /\ custody[i] \in Zones
    /\ custody' = [custody EXCEPT ![i] = c]

(* DROP: a session leaves an item it has in some zone. *)
Drop(c, i) ==
    /\ custody[i] = c
    /\ \E z \in Zones : custody' = [custody EXCEPT ![i] = z]

(* Cleanup: items of a departing session go back to their base locations. *)
Return(c, S) ==
    /\ \A i \in S : custody[i] = c
    /\ custody' = [i \in Items |-> IF i \in S THEN BaseLoc[i] ELSE custody[i]]

Next ==
    \E c \in Conns :
        \/ \E i \in Items : Take(c, i) \/ Drop(c, i)
        \/ \E S \in SUBSET Items : Return(c, S)

Spec == Init /\ [][Next]_custody
==============================================================================
