---------------------------- MODULE GroupsProofs -----------------------------
(***************************************************************************)
(* Proofs about Groups for any number of sessions and of groups.           *)
(***************************************************************************)
EXTENDS Groups, TLAPS

(***************************************************************************)
(* The inductive invariant.  A group that was taken off the list may still *)
(* be joined by who had looked it up before; all that is left of the       *)
(* agreement then is that its new members are in Members.                  *)
(***************************************************************************)

(* The points at which a goroutine holds the GroupMu of its target. *)
Critical == {"joinTell", "leaveTell", "disbandParties", "disbandEach", "inviteLock"}

Exclusive ==
    \A p, q \in Players :
        pc[p] \in Critical /\ pc[q] \in Critical /\ target[p] = target[q] => p = q

GroupInv(g) ==
    /\ leader[g] = None =>
         /\ members[g] = {}
         /\ \A p \in Players : groupInfo[p] # g /\ target[p] # g /\ parties[p] # g
    /\ \A p \in Players : groupInfo[p] = g => p \in members[g]
    /\ \A p \in Players : parties[p] = g =>
         /\ leader[g] = p /\ p \in members[g]
         /\ \A q \in members[g] : groupInfo[q] = g

(* Only its leader disbands a group, which is listed until then.           *)
Leads(p) ==
    groupInfo[p] # None /\ leader[groupInfo[p]] = p =>
        \/ parties[p] = groupInfo[p]
        \/ pc[p] \in {"create", "disbandEach"} /\ target[p] = groupInfo[p]

Creating(p, g) ==
    /\ groupInfo[p] = g /\ leader[g] = p /\ members[g] = {p} /\ parties[p] = None
    /\ \A q \in Players \ {p} : target[q] # g

Disbanding(p, g) ==
    /\ leader[g] = p /\ parties[p] = None
    /\ groupInfo[p] \in {g, None}
    /\ \A m \in Players : m \in todo[p] <=> groupInfo[m] = g

PlayerInv(p) ==
    /\ Leads(p)
    /\ pc[p] = "create" => Creating(p, target[p])
    /\ pc[p] = "join" /\ leader[target[p]] = p => groupInfo[p] = target[p]
    /\ pc[p] = "leave" => leader[target[p]] # p /\ groupInfo[p] \in {target[p], None}
    /\ pc[p] \in {"leaveTell", "off"} => groupInfo[p] = None
    /\ pc[p] \in {"disband", "disbandParties"} =>
         leader[target[p]] = p /\ parties[p] = target[p]
    /\ pc[p] = "disbandEach" => Disbanding(p, target[p])
    /\ p \in quitting =>
         pc[p] \in {"off", "leave", "leaveTell", "disband", "disbandParties", "disbandEach"}

GroupsInv ==
    /\ TypeOK
    /\ Exclusive
    /\ \A g \in Groups : GroupInv(g)
    /\ \A p \in Players : PlayerInv(p)

------------------------------------------------------------------------------
(* A step of player p that changes its goroutine's locals and nothing else *)

MayHold(p) ==
    pc'[p] \in Critical =>
        \/ pc[p] \in Critical /\ target[p] = target'[p]
        \/ ~GroupMuHeld(target'[p])

MayTarget(p) ==
    target'[p] # None =>
        /\ leader[target'[p]] # None
        /\ \A q \in Players \ {p} : pc[q] = "create" => target[q] # target'[p]

OthersRest(p) ==
    \A q \in Players \ {p} :
        /\ pc'[q] = pc[q] /\ target'[q] = target[q] /\ todo'[q] = todo[q]
        /\ q \in quitting' <=> q \in quitting

(* A GroupMu stays with one goroutine, whatever else the step does.        *)
LEMMA StillExclusive ==
    ASSUME GroupsInv, NEW p \in Players, OthersRest(p), MayHold(p)
    PROVE  Exclusive'
PROOF
<1>1. Exclusive  BY DEF GroupsInv
<1>2. ASSUME NEW q \in Players \ {p}, pc'[p] \in Critical, pc'[q] \in Critical
      PROVE  target'[p] # target'[q]
  <2>1. pc[q] \in Critical /\ target'[q] = target[q]  BY <1>2 DEF OthersRest
  <2>2. CASE pc[p] \in Critical /\ target[p] = target'[p]
    BY <1>1, <2>1, <2>2 DEF Exclusive
  <2>3. CASE ~GroupMuHeld(target'[p])
    BY <2>1, <2>3 DEF GroupMuHeld, Critical
  <2> QED BY <1>2, <2>2, <2>3 DEF MayHold
<1>3. \A q, r \in Players \ {p} :
        pc'[q] \in Critical /\ pc'[r] \in Critical /\ target'[q] = target'[r] => q = r
  BY <1>1 DEF Exclusive, OthersRest
<1> QED BY <1>2, <1>3 DEF Exclusive

LEMMA LocalStep ==
    ASSUME GroupsInv, NEW p \in Players, TypeOK', OthersRest(p), MayHold(p), MayTarget(p),
           UNCHANGED <<groupInfo, parties, leader, members>>, PlayerInv(p)'
    PROVE  GroupsInv'
PROOF
<1>1. Exclusive'  BY StillExclusive
<1>2. ASSUME NEW g \in Groups
      PROVE  GroupInv(g)'
  <2>1. GroupInv(g) /\ g # None  BY GroupsAssumption DEF GroupsInv, GroupsAssumption
  <2> QED BY <2>1 DEF GroupInv, OthersRest, MayTarget
<1>3. ASSUME NEW q \in Players \ {p}
      PROVE  PlayerInv(q)'
  <2>1. PlayerInv(q) /\ TypeOK  BY DEF GroupsInv
  <2>2. pc[q] = "create" => target'[p] # target[q]
    BY <2>1, GroupsAssumption DEF MayTarget, TypeOK, GroupsAssumption
  <2> QED BY <2>1, <2>2 DEF PlayerInv, OthersRest, Leads, Creating, Disbanding
<1> QED BY <1>1, <1>2, <1>3 DEF GroupsInv

(* Who is idle, or is not in the group, may leave and quit.                *)
LEMMA TargetMade ==
    ASSUME GroupsInv, NEW p \in Players
    PROVE  /\ target[p] \in Groups \cup {None} /\ groupInfo[p] \in Groups \cup {None}
           /\ parties[p] \in Groups \cup {None}
           /\ None \notin Groups /\ None \notin Players
           /\ target[p] = None <=> pc[p] \in {"idle", "off"}
           /\ target[p] # None => leader[target[p]] # None
           /\ groupInfo[p] # None => leader[groupInfo[p]] # None
           /\ parties[p] # None =>
                leader[parties[p]] = p /\ groupInfo[p] = parties[p]
           /\ PlayerInv(p)
PROOF
<1>1. TypeOK /\ PlayerInv(p) /\ None \notin Groups /\ None \notin Players
  BY GroupsAssumption DEF GroupsInv, GroupsAssumption
<1>2. \A g \in Groups : GroupInv(g)  BY DEF GroupsInv
<1> QED BY <1>1, <1>2 DEF TypeOK, GroupInv

(* No creator's group is anybody else's, nor on the list.                  *)
LEMMA Unseen ==
    ASSUME GroupsInv, NEW p \in Players, NEW q \in Players, pc[q] = "create", p # q
    PROVE  /\ groupInfo[p] # target[q] /\ target[p] # target[q]
           /\ \A l \in Players : parties[l] # target[q]
PROOF
<1>1. Creating(q, target[q]) /\ target[q] \in Groups /\ None \notin Groups
  BY TargetMade DEF PlayerInv
<1>2. GroupInv(target[q])  BY <1>1 DEF GroupsInv
<1> QED BY <1>1, <1>2 DEF Creating, GroupInv

------------------------------------------------------------------------------
(* The actions, one by one *)

LEMMA InviteKeeps ==
    ASSUME GroupsInv, NEW p \in Players, NEW q \in Players, Invite(p, q)
    PROVE  GroupsInv'
PROOF
<1> USE DEF Invite, Goto
<1>1. TypeOK  BY DEF GroupsInv
<1>2. TypeOK'  BY <1>1, TargetMade DEF TypeOK, PC
<1>3. OthersRest(p)  BY <1>1 DEF OthersRest, TypeOK
<1>4. MayHold(p)  BY <1>1 DEF MayHold, Critical, TypeOK
<1>5. MayTarget(p)  BY <1>1, TargetMade, Unseen DEF MayTarget, TypeOK
<1>6. PlayerInv(p)'
  BY <1>1, <1>2, TargetMade DEF PlayerInv, Leads, Creating, Disbanding, TypeOK
<1> QED BY <1>2, <1>3, <1>4, <1>5, <1>6, LocalStep

LEMMA InviteCheckKeeps ==
    ASSUME GroupsInv, NEW p \in Players, InviteCheck(p)
    PROVE  GroupsInv'
PROOF
<1> USE DEF InviteCheck, Goto, Done
<1>1. TypeOK  BY DEF GroupsInv
<1>2. TypeOK'  BY <1>1, TargetMade DEF TypeOK, PC
<1>3. OthersRest(p)  BY <1>1 DEF OthersRest, TypeOK
<1>4. MayHold(p)  BY <1>1 DEF MayHold, Critical, TypeOK
<1>5. MayTarget(p)  BY <1>1, TargetMade, Unseen DEF MayTarget, TypeOK
<1>6. PlayerInv(p)'
  BY <1>1, <1>2, TargetMade DEF PlayerInv, Leads, Creating, Disbanding, TypeOK
<1> QED BY <1>2, <1>3, <1>4, <1>5, <1>6, LocalStep

LEMMA InviteTellKeeps ==
    ASSUME GroupsInv, NEW p \in Players, InviteTell(p)
    PROVE  GroupsInv'
PROOF
<1> USE DEF InviteTell, Goto, Done
<1>1. TypeOK  BY DEF GroupsInv
<1>2. TypeOK'  BY <1>1, TargetMade DEF TypeOK, PC
<1>3. OthersRest(p)  BY <1>1 DEF OthersRest, TypeOK
<1>4. MayHold(p)  BY <1>1 DEF MayHold, Critical, TypeOK
<1>5. MayTarget(p)  BY <1>1, TargetMade, Unseen DEF MayTarget, TypeOK
<1>6. PlayerInv(p)'
  BY <1>1, <1>2, TargetMade DEF PlayerInv, Leads, Creating, Disbanding, TypeOK
<1> QED BY <1>2, <1>3, <1>4, <1>5, <1>6, LocalStep

LEMMA JoinLookupKeeps ==
    ASSUME GroupsInv, NEW p \in Players, NEW l \in Players, JoinLookup(p, l)
    PROVE  GroupsInv'
PROOF
<1> USE DEF JoinLookup, Goto, Found
<1>1. TypeOK  BY DEF GroupsInv
<1>2. TypeOK'  BY <1>1, TargetMade DEF TypeOK, PC
<1>3. OthersRest(p)  BY <1>1 DEF OthersRest, TypeOK
<1>4. MayHold(p)  BY <1>1 DEF MayHold, Critical, TypeOK
<1>5. MayTarget(p)  BY <1>1, TargetMade, Unseen DEF MayTarget, TypeOK
<1>6. PlayerInv(p)'
  BY <1>1, <1>2, TargetMade DEF PlayerInv, Leads, Creating, Disbanding, TypeOK
<1> QED BY <1>2, <1>3, <1>4, <1>5, <1>6, LocalStep

LEMMA TellKeeps ==
    ASSUME GroupsInv, NEW p \in Players, NEW m \in Players, Tell(p, m)
    PROVE  GroupsInv'
PROOF
<1> USE DEF Tell, Goto
<1>1. TypeOK  BY DEF GroupsInv
<1>2. TypeOK'  BY <1>1, TargetMade DEF TypeOK, PC
<1>3. OthersRest(p)  BY <1>1 DEF OthersRest, TypeOK
<1>4. MayHold(p)  BY <1>1 DEF MayHold, Critical, TypeOK
<1>5. MayTarget(p)  BY <1>1, TargetMade, Unseen DEF MayTarget, TypeOK
<1>6. PlayerInv(p)'
  BY <1>1, <1>2, TargetMade DEF PlayerInv, Leads, Creating, Disbanding, TypeOK
<1> QED BY <1>2, <1>3, <1>4, <1>5, <1>6, LocalStep

LEMMA TellDoneKeeps ==
    ASSUME GroupsInv, NEW p \in Players, TellDone(p)
    PROVE  GroupsInv'
PROOF
<1> USE DEF TellDone, Goto, Done
<1>1. TypeOK  BY DEF GroupsInv
<1>2. TypeOK'  BY <1>1, TargetMade DEF TypeOK, PC
<1>3. OthersRest(p)  BY <1>1 DEF OthersRest, TypeOK
<1>4. MayHold(p)  BY <1>1 DEF MayHold, Critical, TypeOK
<1>5. MayTarget(p)  BY <1>1, TargetMade, Unseen DEF MayTarget, TypeOK
<1>6. PlayerInv(p)'
  BY <1>1, <1>2, TargetMade DEF PlayerInv, Leads, Creating, Disbanding, TypeOK
<1> QED BY <1>2, <1>3, <1>4, <1>5, <1>6, LocalStep

LEMMA DisbandLockKeeps ==
    ASSUME GroupsInv, NEW p \in Players, DisbandLock(p)
    PROVE  GroupsInv'
PROOF
<1> USE DEF DisbandLock, Goto
<1>1. TypeOK  BY DEF GroupsInv
<1>2. TypeOK'  BY <1>1, TargetMade DEF TypeOK, PC
<1>3. OthersRest(p)  BY <1>1 DEF OthersRest, TypeOK
<1>4. MayHold(p)  BY <1>1 DEF MayHold, Critical, TypeOK
<1>5. MayTarget(p)  BY <1>1, TargetMade, Unseen DEF MayTarget, TypeOK
<1>6. PlayerInv(p)'
  BY <1>1, <1>2, TargetMade DEF PlayerInv, Leads, Creating, Disbanding, TypeOK
<1> QED BY <1>2, <1>3, <1>4, <1>5, <1>6, LocalStep

LEMMA DisbandDoneKeeps ==
    ASSUME GroupsInv, NEW p \in Players, DisbandDone(p)
    PROVE  GroupsInv'
PROOF
<1> USE DEF DisbandDone, Goto, Done
<1>1. TypeOK  BY DEF GroupsInv
<1>2. TypeOK'  BY <1>1, TargetMade DEF TypeOK, PC
<1>3. OthersRest(p)  BY <1>1 DEF OthersRest, TypeOK
<1>4. MayHold(p)  BY <1>1 DEF MayHold, Critical, TypeOK
<1>5. MayTarget(p)  BY <1>1, TargetMade, Unseen DEF MayTarget, TypeOK
<1>6. PlayerInv(p)'
  BY <1>1, <1>2, TargetMade DEF PlayerInv, Leads, Creating, Disbanding, TypeOK
<1> QED BY <1>2, <1>3, <1>4, <1>5, <1>6, LocalStep

LEMMA LeaveKeeps ==
    ASSUME GroupsInv, NEW p \in Players, Leave(p)
    PROVE  GroupsInv'
PROOF
<1> USE DEF Leave, Goto, GroupLeave
<1>1. TypeOK  BY DEF GroupsInv
<1>2. TypeOK'  BY <1>1, TargetMade DEF TypeOK, PC
<1>3. OthersRest(p)  BY <1>1 DEF OthersRest, TypeOK
<1>4. MayHold(p)  BY <1>1 DEF MayHold, Critical, TypeOK
<1>5. MayTarget(p)  BY <1>1, TargetMade, Unseen DEF MayTarget, TypeOK
<1>6. PlayerInv(p)'
  BY <1>1, <1>2, TargetMade DEF PlayerInv, Leads, Creating, Disbanding, TypeOK
<1> QED BY <1>2, <1>3, <1>4, <1>5, <1>6, LocalStep

LEMMA QuitKeeps ==
    ASSUME GroupsInv, NEW p \in Players, Quit(p)
    PROVE  GroupsInv'
PROOF
<1> USE DEF Quit, Goto, GroupLeave
<1>1. TypeOK  BY DEF GroupsInv
<1>2. TypeOK'  BY <1>1, TargetMade DEF TypeOK, PC
<1>3. OthersRest(p)  BY <1>1 DEF OthersRest, TypeOK
<1>4. MayHold(p)  BY <1>1 DEF MayHold, Critical, TypeOK
<1>5. MayTarget(p)  BY <1>1, TargetMade, Unseen DEF MayTarget, TypeOK
<1>6. PlayerInv(p)'
  BY <1>1, <1>2, TargetMade DEF PlayerInv, Leads, Creating, Disbanding, TypeOK
<1> QED BY <1>2, <1>3, <1>4, <1>5, <1>6, LocalStep

(* Nobody has heard of the new group.                                      *)
LEMMA CreateKeeps ==
    ASSUME GroupsInv, NEW p \in Players, NEW h \in Groups, Create(p, h)
    PROVE  GroupsInv'
PROOF
<1> USE DEF Create, Goto
<1>1. TypeOK  BY DEF GroupsInv
<1>2. TypeOK'  BY <1>1, TargetMade DEF TypeOK, PC
<1>3. /\ OthersRest(p) /\ MayHold(p)
      /\ \A q \in Players \ {p} : groupInfo'[q] = groupInfo[q]
      /\ \A g \in Groups \ {h} : leader'[g] = leader[g] /\ members'[g] = members[g]
      /\ pc'[p] = "create" /\ target'[p] = h /\ groupInfo'[p] = h
      /\ leader'[h] = p /\ members'[h] = {p}
  BY <1>1 DEF OthersRest, MayHold, Critical, TypeOK
<1>4. Exclusive'  BY <1>3, StillExclusive
<1>5. \A q \in Players : groupInfo[q] # h /\ target[q] # h /\ parties[q] # h
  BY DEF GroupsInv, GroupInv
<1>6. ASSUME NEW g \in Groups
      PROVE  GroupInv(g)'
  <2>1. GroupInv(g) /\ None \notin Players /\ None \notin Groups
    BY TargetMade DEF GroupsInv
  <2>2. CASE g = h  BY <1>3, <1>5, <2>1, <2>2 DEF GroupInv
  <2>3. CASE g # h
    <3>1. \A q \in Players : parties[q] = g => p \notin members[g]
      BY <2>1 DEF GroupInv
    <3> QED BY <1>3, <2>1, <2>3, <3>1 DEF GroupInv, OthersRest
  <2> QED BY <2>2, <2>3
<1>7. PlayerInv(p)'
  <2>1. parties[p] = None  BY TargetMade
  <2>2. p \notin quitting  BY TargetMade DEF PlayerInv
  <2> QED BY <1>3, <1>5, <2>1, <2>2 DEF PlayerInv, Leads, Creating, OthersRest
<1>8. ASSUME NEW q \in Players \ {p}
      PROVE  PlayerInv(q)'
  <2>1. PlayerInv(q) /\ target[q] \in Groups \cup {None} /\ target[q] # h
        /\ groupInfo[q] \in Groups \cup {None} /\ groupInfo[q] # h
        /\ (target[q] = None <=> pc[q] \in {"idle", "off"})
    BY <1>5, TargetMade
  <2>2. pc[q] = "disbandEach" => p \notin todo[q]
    BY <2>1 DEF PlayerInv, Disbanding
  <2> QED BY <1>3, <2>1, <2>2 DEF PlayerInv, OthersRest, Leads, Creating, Disbanding
<1> QED BY <1>2, <1>4, <1>6, <1>7, <1>8 DEF GroupsInv

LEMMA CreateListKeeps ==
    ASSUME GroupsInv, NEW p \in Players, CreateList(p)
    PROVE  GroupsInv'
PROOF
<1> USE DEF CreateList, Done, Goto
<1> DEFINE h == target[p]
<1>1. TypeOK /\ Creating(p, h) /\ h \in Groups /\ None \notin Groups
  BY TargetMade DEF GroupsInv, PlayerInv
<1>2. TypeOK'  BY <1>1, TargetMade DEF TypeOK, PC
<1>3. /\ OthersRest(p) /\ MayHold(p)
      /\ \A q \in Players \ {p} : parties'[q] = parties[q]
      /\ pc'[p] \in {"idle", "off"} /\ target'[p] = None /\ parties'[p] = h
  BY <1>1 DEF OthersRest, MayHold, Critical, TypeOK
<1>4. Exclusive'  BY <1>3, StillExclusive
<1>5. ASSUME NEW g \in Groups
      PROVE  GroupInv(g)'
  <2>1. GroupInv(g)  BY DEF GroupsInv
  <2> QED BY <1>1, <1>3, <2>1 DEF GroupInv, Creating, OthersRest
<1>6. PlayerInv(p)'
  <2>1. p \notin quitting  BY TargetMade DEF PlayerInv
  <2>2. pc'[p] = "idle"  BY <1>1, <2>1 DEF TypeOK
  <2> QED BY <1>1, <1>3, <2>1, <2>2 DEF PlayerInv, Leads, Creating
<1>7. ASSUME NEW q \in Players \ {p}
      PROVE  PlayerInv(q)'
  <2>1. PlayerInv(q) /\ target[q] \in Groups \cup {None}
        /\ (target[q] = None <=> pc[q] \in {"idle", "off"})
    BY TargetMade
  <2> QED BY <1>1, <1>3, <2>1 DEF PlayerInv, OthersRest, Leads, Creating, Disbanding
<1> QED BY <1>2, <1>4, <1>5, <1>6, <1>7 DEF GroupsInv

LEMMA JoinAddKeeps ==
    ASSUME GroupsInv, NEW p \in Players, JoinAdd(p)
    PROVE  GroupsInv'
PROOF
<1> USE DEF JoinAdd, MayJoin, Joined, Done, Goto
<1> DEFINE h == target[p]
<1>1. TypeOK /\ h \in Groups /\ None \notin Groups /\ leader[h] # None
      /\ PlayerInv(p)
  BY TargetMade DEF GroupsInv
<1>2. TypeOK'  BY <1>1, TargetMade DEF TypeOK, PC, Others
<1>3. OthersRest(p) /\ MayHold(p)
  BY <1>1 DEF OthersRest, MayHold, Critical, TypeOK
<1>4. CASE groupInfo[p] # None
  <2>1. MayTarget(p)  BY <1>1, <1>4 DEF MayTarget, TypeOK
  <2>2. PlayerInv(p)'
    BY <1>1, <1>4 DEF PlayerInv, Leads, TypeOK
  <2> QED BY <1>2, <1>3, <1>4, <2>1, <2>2, LocalStep
<1>5. CASE groupInfo[p] = None
  <2>1. /\ \A q \in Players \ {p} : groupInfo'[q] = groupInfo[q]
        /\ \A g \in Groups \ {h} : members'[g] = members[g]
        /\ pc'[p] = "joinTell" /\ target'[p] = h /\ groupInfo'[p] = h
        /\ members'[h] = members[h] \cup {p}
    BY <1>1, <1>5 DEF TypeOK
  <2>2. Exclusive'  BY <1>3, StillExclusive
  <2>3. parties[p] = None /\ leader[h] # p /\ p \notin quitting
    BY <1>1, <1>5, TargetMade DEF PlayerInv
  <2>4. ASSUME NEW g \in Groups
        PROVE  GroupInv(g)'
    <3>1. GroupInv(g) /\ members[g] \subseteq Players  BY <1>1 DEF GroupsInv, TypeOK
    <3>2. g # h => \A q \in Players : parties[q] = g => p \notin members[g]
      BY <1>1, <1>5, <3>1 DEF GroupInv
    <3> HIDE DEF JoinAdd
    <3>3. UNCHANGED <<leader, parties>>  BY DEF JoinAdd
    <3>4. CASE g = h  BY <1>1, <1>3, <2>1, <3>1, <3>3, <3>4 DEF GroupInv, OthersRest
    <3>5. CASE g # h  BY <1>1, <1>3, <2>1, <3>1, <3>2, <3>3, <3>5 DEF GroupInv, OthersRest
    <3> QED BY <3>4, <3>5
  <2>5. PlayerInv(p)'
    BY <1>1, <2>1, <2>3 DEF PlayerInv, Leads
  <2>6. ASSUME NEW q \in Players \ {p}
        PROVE  PlayerInv(q)'
    <3>1. PlayerInv(q) /\ (pc[q] = "create" => target[q] # h)
      BY Unseen, TargetMade
    <3>2. pc[q] = "disbandEach" => target[q] # h
      BY DEF GroupMuHeld
    <3>3. target[q] \in Groups \cup {None} /\ (target[q] = None <=> pc[q] \in {"idle", "off"})
      BY <1>1 DEF TypeOK
    <3> QED BY <1>1, <1>3, <1>5, <2>1, <3>1, <3>2, <3>3
        DEF PlayerInv, OthersRest, Leads, Creating, Disbanding
  <2> QED BY <1>2, <2>2, <2>4, <2>5, <2>6 DEF GroupsInv
<1> QED BY <1>4, <1>5

LEMMA LeaveRemoveKeeps ==
    ASSUME GroupsInv, NEW p \in Players, LeaveRemove(p)
    PROVE  GroupsInv'
PROOF
<1> USE DEF LeaveRemove, Left, Done, Goto
<1> DEFINE h == target[p]
<1>1. TypeOK /\ h \in Groups /\ None \notin Groups /\ leader[h] # None
      /\ PlayerInv(p)
  BY TargetMade DEF GroupsInv
<1>2. TypeOK'  BY <1>1, TargetMade, SMTT(30) DEF TypeOK, PC, Others
<1>3. OthersRest(p) /\ MayHold(p)
  BY <1>1 DEF OthersRest, MayHold, Critical, TypeOK
<1>4. CASE groupInfo[p] # h
  <2>1. MayTarget(p)  BY <1>1, <1>4 DEF MayTarget, TypeOK
  <2>2. PlayerInv(p)'
    BY <1>1, <1>4 DEF PlayerInv, Leads, TypeOK
  <2> QED BY <1>2, <1>3, <1>4, <2>1, <2>2, LocalStep
<1>5. CASE groupInfo[p] = h
  <2>1. /\ \A q \in Players \ {p} : groupInfo'[q] = groupInfo[q]
        /\ \A g \in Groups \ {h} : members'[g] = members[g]
        /\ pc'[p] = "leaveTell" /\ target'[p] = h /\ groupInfo'[p] = None
        /\ members'[h] = members[h] \ {p}
    BY <1>1, <1>5 DEF TypeOK
  <2>2. Exclusive'  BY <1>3, StillExclusive
  <2>3. leader[h] # p  BY <1>1 DEF PlayerInv
  <2>4. ASSUME NEW g \in Groups
        PROVE  GroupInv(g)'
    <3>1. GroupInv(g) /\ members[g] \subseteq Players  BY <1>1 DEF GroupsInv, TypeOK
    <3>2. g # h => \A q \in Players : parties[q] = g => p \notin members[g]
      BY <1>1, <1>5, <3>1 DEF GroupInv
    <3> HIDE DEF LeaveRemove
    <3>3. UNCHANGED <<leader, parties>>  BY DEF LeaveRemove
    <3>4. CASE g = h  BY <1>1, <1>3, <2>1, <2>3, <3>1, <3>3, <3>4 DEF GroupInv, OthersRest
    <3>5. CASE g # h  BY <1>1, <1>3, <2>1, <2>3, <3>1, <3>2, <3>3, <3>5 DEF GroupInv, OthersRest
    <3> QED BY <3>4, <3>5
  <2>5. PlayerInv(p)'
    BY <1>1, <2>1, <2>3 DEF PlayerInv, Leads
  <2>6. ASSUME NEW q \in Players \ {p}
        PROVE  PlayerInv(q)'
    <3>1. PlayerInv(q) /\ (pc[q] = "create" => target[q] # h)
      BY Unseen, TargetMade
    <3>2. pc[q] = "disbandEach" => target[q] # h
      BY DEF GroupMuHeld
    <3>3. target[q] \in Groups \cup {None} /\ (target[q] = None <=> pc[q] \in {"idle", "off"})
      BY <1>1 DEF TypeOK
    <3> QED BY <1>1, <1>3, <1>5, <2>1, <3>1, <3>2, <3>3
        DEF PlayerInv, OthersRest, Leads, Creating, Disbanding
  <2> QED BY <1>2, <2>2, <2>4, <2>5, <2>6 DEF GroupsInv
<1> QED BY <1>4, <1>5

LEMMA DisbandUnlistKeeps ==
    ASSUME GroupsInv, NEW p \in Players, DisbandUnlist(p)
    PROVE  GroupsInv'
PROOF
<1> USE DEF DisbandUnlist, Goto
<1> DEFINE h == target[p]
<1>1. TypeOK /\ h \in Groups /\ None \notin Groups /\ leader[h] = p /\ parties[p] = h
      /\ PlayerInv(p) /\ GroupInv(h)
  BY TargetMade DEF GroupsInv, PlayerInv
<1>2. TypeOK'  BY <1>1, TargetMade DEF TypeOK, PC
<1>3. OthersRest(p) /\ MayHold(p)
  BY <1>1 DEF OthersRest, MayHold, Critical, TypeOK
<1>4. /\ \A q \in Players \ {p} : parties'[q] = parties[q]
      /\ pc'[p] = "disbandEach" /\ target'[p] = h /\ parties'[p] = None
      /\ todo'[p] = members[h]
  BY <1>1 DEF TypeOK
<1>5. Exclusive'  BY <1>3, StillExclusive
<1>6. ASSUME NEW g \in Groups
      PROVE  GroupInv(g)'
  <2>1. GroupInv(g)  BY DEF GroupsInv
  <2> QED BY <1>1, <1>3, <1>4, <2>1 DEF GroupInv, OthersRest
<1>7. PlayerInv(p)'
  <2>1. groupInfo[p] = h /\ \A m \in Players : m \in members[h] <=> groupInfo[m] = h
    BY <1>1 DEF GroupInv
  <2> QED BY <1>1, <1>4, <2>1 DEF PlayerInv, Leads, Disbanding
<1>8. ASSUME NEW q \in Players \ {p}
      PROVE  PlayerInv(q)'
  <2>1. PlayerInv(q)  BY DEF GroupsInv
  <2> QED BY <1>1, <1>3, <1>4, <2>1 DEF PlayerInv, OthersRest, Leads, Creating, Disbanding
<1> QED BY <1>2, <1>5, <1>6, <1>7, <1>8 DEF GroupsInv

LEMMA DisbandEachKeeps ==
    ASSUME GroupsInv, NEW p \in Players, NEW m \in Players, DisbandEach(p, m)
    PROVE  GroupsInv'
PROOF
<1> USE DEF DisbandEach, Cleared
<1> DEFINE h == target[p]
<1>1. TypeOK /\ h \in Groups /\ None \notin Groups /\ leader[h] = p /\ parties[p] = None
      /\ PlayerInv(p) /\ Disbanding(p, h) /\ groupInfo[m] = h
  BY TargetMade DEF GroupsInv, PlayerInv, Disbanding
<1>2. TypeOK'  BY <1>1 DEF TypeOK
<1>3. OthersRest(p) /\ MayHold(p)
  BY <1>1 DEF OthersRest, MayHold, Critical, TypeOK
<1>4. /\ \A q \in Players \ {m} : groupInfo'[q] = groupInfo[q]
      /\ groupInfo'[m] = None /\ todo'[p] = todo[p] \ {m}
  BY <1>1 DEF TypeOK
<1>5. Exclusive'  BY <1>3, StillExclusive
<1>6. ASSUME NEW g \in Groups
      PROVE  GroupInv(g)'
  <2>1. GroupInv(g)  BY DEF GroupsInv
  <2>2. \A q \in Players : parties[q] = g => m \notin members[g]
    BY <1>1, <2>1 DEF GroupInv
  <2> QED BY <1>1, <1>3, <1>4, <2>1, <2>2 DEF GroupInv, OthersRest
<1>7. PlayerInv(p)'
  BY <1>1, <1>4 DEF PlayerInv, Leads, Disbanding
<1>8. ASSUME NEW q \in Players \ {p}
      PROVE  PlayerInv(q)'
  <2>1. PlayerInv(q) /\ (pc[q] = "create" => target[q] # h /\ groupInfo[m] # target[q])
    BY <1>1, TargetMade DEF PlayerInv, Creating
  <2>2. pc[q] = "disbandEach" => target[q] # h
    BY DEF GroupsInv, Exclusive, Critical
  <2>3. pc[q] = "join" /\ leader[target[q]] = q => target[q] # h
    BY <1>1
  <2>4. target[q] \in Groups \cup {None} /\ (target[q] = None <=> pc[q] \in {"idle", "off"})
    BY <1>1 DEF TypeOK
  <2> QED BY <1>1, <1>3, <1>4, <2>1, <2>2, <2>3, <2>4
      DEF PlayerInv, OthersRest, Leads, Creating, Disbanding
<1> QED BY <1>2, <1>5, <1>6, <1>7, <1>8 DEF GroupsInv

------------------------------------------------------------------------------
(* The invariant *)

LEMMA InitEstablishes == Init => GroupsInv
PROOF
<1> SUFFICES ASSUME Init  PROVE GroupsInv  OBVIOUS
<1> USE DEF Init
<1>1. None \notin Groups /\ None \notin Players
  BY GroupsAssumption DEF GroupsAssumption
<1>2. TypeOK  BY DEF TypeOK, PC
<1>3. Exclusive  BY DEF Exclusive, Critical
<1>4. \A g \in Groups : GroupInv(g)  BY <1>1 DEF GroupInv
<1>5. \A p \in Players : PlayerInv(p)  BY DEF PlayerInv, Leads
<1> QED BY <1>2, <1>3, <1>4, <1>5 DEF GroupsInv

LEMMA StutterKeeps == GroupsInv /\ UNCHANGED vars => GroupsInv'
PROOF
<1> SUFFICES ASSUME GroupsInv, UNCHANGED vars  PROVE GroupsInv'  OBVIOUS
<1> USE DEF vars, locals
<1>1. TypeOK'  BY DEF GroupsInv, TypeOK
<1>2. Exclusive'  BY DEF GroupsInv, Exclusive
<1>3. \A g \in Groups : GroupInv(g)'  BY DEF GroupsInv, GroupInv
<1>4. \A p \in Players : PlayerInv(p)'
  BY DEF GroupsInv, PlayerInv, Leads, Creating, Disbanding
<1> QED BY <1>1, <1>2, <1>3, <1>4 DEF GroupsInv

LEMMA NextKeeps == GroupsInv /\ [Next]_vars => GroupsInv'
PROOF
<1> SUFFICES ASSUME GroupsInv, Next  PROVE GroupsInv'
  BY StutterKeeps
<1>1. ASSUME NEW p \in Players, Command(p)
      PROVE  GroupsInv'
  BY <1>1, CreateKeeps, InviteKeeps, JoinLookupKeeps, LeaveKeeps, QuitKeeps DEF Command
<1>2. ASSUME NEW p \in Players, Continue(p)
      PROVE  GroupsInv'
  BY <1>2, CreateListKeeps, InviteCheckKeeps, InviteTellKeeps, JoinAddKeeps,
     LeaveRemoveKeeps, TellKeeps, TellDoneKeeps, DisbandLockKeeps, DisbandUnlistKeeps,
     DisbandEachKeeps, DisbandDoneKeeps DEF Continue
<1> QED BY <1>1, <1>2 DEF Next

(* Listed and disbanded groups, their members and the goroutines at work   *)
(* on them keep what the next critical section counts on.                  *)
THEOREM GroupsInvariant == Spec => []GroupsInv
PROOF
<1> QED BY InitEstablishes, NextKeeps, PTL DEF Spec

------------------------------------------------------------------------------
(* What it says of the groups *)

(* A listed group and its members agree whenever its mutex is free, a      *)
(* player is in Members of its group, and a leader's group is listed under *)
(* the leader's name: no JOIN, LEAVE, disband or lost connection, in any   *)
(* order, leaves the group that JOIN finds in another state.               *)
THEOREM MembershipSoundHolds == Spec => []MembershipSound
PROOF
<1>1. GroupsInv => MembershipSound
  <2> SUFFICES ASSUME GroupsInv  PROVE MembershipSound  OBVIOUS
  <2>1. TypeOK  BY DEF GroupsInv
  <2>2. MembersAgree
    <3>1. ASSUME NEW g \in Listed
          PROVE  /\ members[g] = {p \in Players : groupInfo[p] = g}
                 /\ leader[g] \in members[g]
                 /\ parties[leader[g]] = g
      <4>1. g \in Groups  BY DEF Listed
      <4>2. GroupInv(g) /\ members[g] \subseteq Players
        BY <2>1, <4>1 DEF GroupsInv, TypeOK
      <4>3. PICK l \in Players : parties[l] = g  BY DEF Listed
      <4> QED BY <4>2, <4>3 DEF GroupInv
    <3> QED BY <3>1 DEF MembersAgree
  <2>3. InOwnGroup
    <3>1. ASSUME NEW p \in Players, pc[p] \in {"idle", "off"}, groupInfo[p] # None
          PROVE  /\ p \in members[groupInfo[p]]
                 /\ leader[groupInfo[p]] = p => parties[p] = groupInfo[p]
      <4>1. groupInfo[p] \in Groups /\ PlayerInv(p)  BY <3>1, TargetMade
      <4>2. GroupInv(groupInfo[p])  BY <4>1 DEF GroupsInv
      <4> QED BY <3>1, <4>1, <4>2 DEF GroupInv, PlayerInv, Leads
    <3> QED BY <3>1 DEF InOwnGroup
  <2> QED BY <2>1, <2>2, <2>3 DEF MembershipSound
<1> QED BY <1>1, GroupsInvariant, PTL

(* Whoever has gone is in no group and no listed group has it, also if it  *)
(* was being removed by two goroutines at once, its own and its leader's.  *)
THEOREM GoneForGoodHolds == Spec => []GoneForGood
PROOF
<1>1. GroupsInv => GoneForGood
  <2> SUFFICES ASSUME GroupsInv, NEW p \in Players, pc[p] = "off"
               PROVE  /\ groupInfo[p] = None
                      /\ \A g \in Listed : p \notin members[g]
    BY DEF GoneForGood
  <2>1. groupInfo[p] = None /\ None \notin Groups  BY TargetMade DEF PlayerInv
  <2>2. ASSUME NEW g \in Listed
        PROVE  p \notin members[g]
    <3>1. g \in Groups /\ GroupInv(g)  BY DEF Listed, GroupsInv
    <3>2. PICK l \in Players : parties[l] = g  BY DEF Listed
    <3> QED BY <2>1, <3>1, <3>2 DEF GroupInv
  <2> QED BY <2>1, <2>2
<1> QED BY <1>1, GroupsInvariant, PTL
==============================================================================
