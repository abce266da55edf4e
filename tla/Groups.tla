------------------------------- MODULE Groups --------------------------------
(***************************************************************************)
(* Player groups: GROUP CREATE, INVITE, JOIN, LEAVE, the disbanding of a   *)
(* group by its leader, and the group part of cleanupPlayerData.           *)
(*                                                                         *)
(* The model is at the level of the mutexes: a step ends where a goroutine *)
(* may have to wait for one.  Which goroutine holds which mutex follows    *)
(* from the program counters: a PlayerMu is held over a step only by its   *)
(* own player's goroutine, a GroupMu by the goroutines that PC lists       *)
(* below, and partiesMu by a goroutine that is clearing a group's members. *)
(* A member of Players is one Player object, that is, one session.         *)
(***************************************************************************)
EXTENDS FiniteSets

CONSTANTS
    Players,   \* sessions
    Groups,    \* Group objects; bounds the number of CREATEs
    None       \* nil

ASSUME GroupsAssumption == None \notin Players \cup Groups

VARIABLES
    pc,         \* pc[p]: where p's connection goroutine is
    target,     \* target[p]: the Group in a local variable of that goroutine
    todo,       \* todo[p]: players its loop over Members has still to visit
    quitting,   \* players whose goroutine is in cleanupPlayerData
    groupInfo,  \* groupInfo[p]: GroupInfo
    parties,    \* parties[p]: the group under the key "PT-" + p
    leader,     \* leader[g]: LeaderName, None before the group is made
    members     \* members[g]: Members

locals == <<pc, target, todo, quitting>>
vars == <<locals, groupInfo, parties, leader, members>>

(***************************************************************************)
(*   "idle"     waiting for a command    "off"    session over             *)
(*   "create"   in groupCreate, waiting for partiesMu                      *)
(*   "join"     in groupJoin, group looked up, waiting for its GroupMu     *)
(*   "joinTell", "leaveTell"  joined or left, telling the members          *)
(*   "leave"    in groupLeave, waiting for the GroupMu                     *)
(*   "disband", "disbandParties", "disbandEach"  in groupDisband, waiting  *)
(*              for the GroupMu, for partiesMu, and for each PlayerMu      *)
(*   "invite", "inviteLock"  in groupInvite, waiting for the GroupMu and   *)
(*              for the PlayerMu of the invited player                     *)
(***************************************************************************)
PC == {"idle", "off", "create", "join", "joinTell", "leave", "leaveTell",
       "disband", "disbandParties", "disbandEach", "invite", "inviteLock"}

PlayerMuHeld(p) == pc[p] \in {"create", "joinTell", "leaveTell"}
GroupMuHeld(g) ==
    \E q \in Players :
        /\ target[q] = g
        /\ pc[q] \in {"joinTell", "leaveTell", "disbandParties", "disbandEach",
                      "inviteLock"}
PartiesMuHeld == \E q \in Players : pc[q] = "disbandEach"

Init ==
    /\ pc = [p \in Players |-> "idle"]
    /\ target = [p \in Players |-> None]
    /\ todo = [p \in Players |-> {}]
    /\ quitting = {}
    /\ groupInfo = [p \in Players |-> None]
    /\ parties = [p \in Players |-> None]
    /\ leader = [g \in Groups |-> None]
    /\ members = [g \in Groups |-> {}]

(* p's goroutine goes on at l with g and the players S in its locals. *)
Goto(p, l, g, S) ==
    /\ pc' = [pc EXCEPT ![p] = l]
    /\ target' = [target EXCEPT ![p] = g]
    /\ todo' = [todo EXCEPT ![p] = S]

(* The command, or the cleanup, is over; the mutexes are released. *)
Done(p) == Goto(p, IF p \in quitting THEN "off" ELSE "idle", None, {})

(* A definition named ...Fault is a seeded fault: a mutation run puts it   *)
(* in the place of the definition that follows it.                         *)

------------------------------------------------------------------------------
(* GROUP CREATE: under the own PlayerMu, the new group becomes the         *)
(* player's; holding it, wait for partiesMu and enter the group there.     *)
Create(p, g) ==
    /\ pc[p] = "idle"
    /\ groupInfo[p] = None
    /\ leader[g] = None
    /\ groupInfo' = [groupInfo EXCEPT ![p] = g]
    /\ leader' = [leader EXCEPT ![g] = p]
    /\ members' = [members EXCEPT ![g] = {p}]
    /\ Goto(p, "create", g, {})
    /\ UNCHANGED <<quitting, parties>>

CreateList(p) ==
    /\ pc[p] = "create"
    /\ ~PartiesMuHeld
    /\ parties' = [parties EXCEPT ![p] = target[p]]
    /\ Done(p)
    /\ UNCHANGED <<quitting, groupInfo, leader, members>>

(* GROUP INVITE: the leader of a group holds its GroupMu and waits for the *)
(* PlayerMu of the invited player; nothing changes but the locks.          *)
Invite(p, q) ==
    /\ pc[p] = "idle"
    /\ q # p
    /\ groupInfo[p] # None
    /\ Goto(p, "invite", groupInfo[p], {q})
    /\ UNCHANGED <<quitting, groupInfo, parties, leader, members>>

InviteCheck(p) ==
    /\ pc[p] = "invite"
    /\ ~GroupMuHeld(target[p])
    /\ IF leader[target[p]] = p
       THEN Goto(p, "inviteLock", target[p], todo[p])
       ELSE Done(p)
    /\ UNCHANGED <<quitting, groupInfo, parties, leader, members>>

InviteTell(p) ==
    /\ pc[p] = "inviteLock"
    /\ \A q \in todo[p] : ~PlayerMuHeld(q)
    /\ Done(p)
    /\ UNCHANGED <<quitting, groupInfo, parties, leader, members>>

(* GROUP JOIN l: the group is looked up under partiesMu ... *)
FoundFault(l) == TRUE
Found(l) == parties[l] # None

JoinLookup(p, l) ==
    /\ pc[p] = "idle"
    /\ ~PartiesMuHeld
    /\ Found(l)
    /\ Goto(p, "join", parties[l], {})
    /\ UNCHANGED <<quitting, groupInfo, parties, leader, members>>

(* ... which is then free again.  Under GroupMu and the own PlayerMu the   *)
(* player, unless in a group by now, becomes a member.                     *)
MayJoinFault(p) == TRUE
MayJoin(p) == groupInfo[p] = None

JoinedFault(p) == members
Joined(p) == [members EXCEPT ![target[p]] = @ \cup {p}]

(* Whom groupJoin and groupLeave tell: everybody else in Members. *)
OthersFault(p) == members[target[p]] \cup {p}
Others(p) == members[target[p]] \ {p}

JoinAdd(p) ==
    LET g == target[p] IN
    /\ pc[p] = "join"
    /\ ~GroupMuHeld(g)
    /\ IF MayJoin(p)
       THEN /\ groupInfo' = [groupInfo EXCEPT ![p] = g]
            /\ members' = Joined(p)
            /\ Goto(p, "joinTell", g, Others(p))
       ELSE /\ Done(p)
            /\ UNCHANGED <<groupInfo, members>>
    /\ UNCHANGED <<quitting, parties, leader>>

(* GROUP LEAVE, and the group part of cleanupPlayerData: GroupInfo is read *)
(* first; the leader of a group disbands it.                               *)
GroupLeave(p) ==
    /\ Goto(p, IF leader[groupInfo[p]] = p THEN "disband" ELSE "leave",
            groupInfo[p], {})
    /\ UNCHANGED <<groupInfo, parties, leader, members>>

Leave(p) ==
    /\ pc[p] = "idle"
    /\ groupInfo[p] # None
    /\ GroupLeave(p)
    /\ UNCHANGED quitting

Quit(p) ==
    /\ pc[p] = "idle"
    /\ quitting' = quitting \cup {p}
    /\ IF groupInfo[p] # None
       THEN GroupLeave(p)
       ELSE /\ Goto(p, "off", None, {})
            /\ UNCHANGED <<groupInfo, parties, leader, members>>

(* Under GroupMu and the own PlayerMu the player leaves, unless the group  *)
(* has been disbanded in the meantime.                                     *)
LeftFault(p) == members
Left(p) == [members EXCEPT ![target[p]] = @ \ {p}]

LeaveRemove(p) ==
    LET g == target[p] IN
    /\ pc[p] = "leave"
    /\ ~GroupMuHeld(g)
    /\ IF groupInfo[p] = g
       THEN /\ groupInfo' = [groupInfo EXCEPT ![p] = None]
            /\ members' = Left(p)
            /\ Goto(p, "leaveTell", g, Others(p))
       ELSE /\ Done(p)
            /\ UNCHANGED <<groupInfo, members>>
    /\ UNCHANGED <<quitting, parties, leader>>

(* groupJoin and groupLeave tell the members, taking the PlayerMu of each  *)
(* for its name while they hold the GroupMu and the own PlayerMu.          *)
Tell(p, m) ==
    /\ pc[p] \in {"joinTell", "leaveTell"}
    /\ m \in todo[p]
    /\ ~PlayerMuHeld(m)
    /\ todo' = [todo EXCEPT ![p] = @ \ {m}]
    /\ UNCHANGED <<pc, target, quitting, groupInfo, parties, leader, members>>

TellDone(p) ==
    /\ pc[p] \in {"joinTell", "leaveTell"}
    /\ todo[p] = {}
    /\ Done(p)
    /\ UNCHANGED <<quitting, groupInfo, parties, leader, members>>

(* groupDisband: GroupMu, then partiesMu; the group is taken off the list  *)
(* and each member's GroupInfo is cleared under its PlayerMu.  Members is  *)
(* left as it is.                                                          *)
DisbandLock(p) ==
    /\ pc[p] = "disband"
    /\ ~GroupMuHeld(target[p])
    /\ Goto(p, "disbandParties", target[p], {})
    /\ UNCHANGED <<quitting, groupInfo, parties, leader, members>>

DisbandUnlist(p) ==
    /\ pc[p] = "disbandParties"
    /\ ~PartiesMuHeld
    /\ parties' = [parties EXCEPT ![leader[target[p]]] = None]
    /\ Goto(p, "disbandEach", target[p], members[target[p]])
    /\ UNCHANGED <<quitting, groupInfo, leader, members>>

Cleared(m) == [groupInfo EXCEPT ![m] = None]

DisbandEach(p, m) ==
    /\ pc[p] = "disbandEach"
    /\ m \in todo[p]
    /\ ~PlayerMuHeld(m)
    /\ groupInfo' = Cleared(m)
    /\ todo' = [todo EXCEPT ![p] = @ \ {m}]
    /\ UNCHANGED <<pc, target, quitting, parties, leader, members>>

DisbandDone(p) ==
    /\ pc[p] = "disbandEach"
    /\ todo[p] = {}
    /\ Done(p)
    /\ UNCHANGED <<quitting, groupInfo, parties, leader, members>>

------------------------------------------------------------------------------
Command(p) ==
    \/ \E g \in Groups : Create(p, g)
    \/ \E q \in Players : Invite(p, q) \/ JoinLookup(p, q)
    \/ Leave(p)
    \/ Quit(p)

Continue(p) ==
    \/ CreateList(p)
    \/ InviteCheck(p)
    \/ InviteTell(p)
    \/ JoinAdd(p)
    \/ LeaveRemove(p)
    \/ \E m \in Players : Tell(p, m)
    \/ TellDone(p)
    \/ DisbandLock(p)
    \/ DisbandUnlist(p)
    \/ \E m \in Players : DisbandEach(p, m)
    \/ DisbandDone(p)

Next == \E p \in Players : Command(p) \/ Continue(p)

Spec == Init /\ [][Next]_vars

(* Every runnable goroutine is scheduled, and sync.Mutex hands a contended *)
(* lock to the longest waiter: nobody who waits for a lock that becomes    *)
(* free again and again is passed over for ever.  Nothing is assumed of    *)
(* players.                                                                *)
FairSpec == Spec /\ \A p \in Players : SF_vars(Continue(p))

------------------------------------------------------------------------------
(* Properties *)

(* Shapes, and which locals a goroutine uses at which point. *)
TypeOK ==
    /\ pc \in [Players -> PC]
    /\ target \in [Players -> Groups \cup {None}]
    /\ todo \in [Players -> SUBSET Players]
    /\ quitting \subseteq Players
    /\ groupInfo \in [Players -> Groups \cup {None}]
    /\ parties \in [Players -> Groups \cup {None}]
    /\ leader \in [Groups -> Players \cup {None}]
    /\ members \in [Groups -> SUBSET Players]
    /\ \A p \in Players : target[p] = None <=> pc[p] \in {"idle", "off"}

(* The groups that JOIN can find. *)
Listed == {g \in Groups : \E p \in Players : parties[p] = g}

(* A listed group and its members agree: whenever no goroutine is inside   *)
(* the group's critical section, exactly the players in Members have it as *)
(* their GroupInfo, and its leader is one of them.                         *)
MembersAgree ==
    \A g \in Listed : ~GroupMuHeld(g) =>
        /\ members[g] = {p \in Players : groupInfo[p] = g}
        /\ leader[g] \in members[g]
        /\ parties[leader[g]] = g

(* A player is told by Members, too, of the group it is in, listed or not; *)
(* and the leader of a group leads it as long as it is in it: LEAVE of a   *)
(* leader always finds the group to disband under its own name.            *)
InOwnGroup ==
    \A p \in Players : pc[p] \in {"idle", "off"} /\ groupInfo[p] # None =>
        /\ p \in members[groupInfo[p]]
        /\ leader[groupInfo[p]] = p => parties[p] = groupInfo[p]

(* Groups and players agree on who is in which group and who leads it,     *)
(* with the types above.                                                   *)
MembershipSound == TypeOK /\ MembersAgree /\ InOwnGroup

(* A session that is over is in no group, and no listed group has it. *)
GoneForGood ==
    \A p \in Players : pc[p] = "off" =>
        /\ groupInfo[p] = None
        /\ \A g \in Listed : ~GroupMuHeld(g) => p \notin members[g]

(* "parties holds all active groups, keyed by group ID": the group a       *)
(* player is in between two commands is listed under its leader's key,     *)
(* unless a goroutine is at work on that group.                            *)
GroupsListed ==
    \A p \in Players :
        pc[p] = "idle" /\ groupInfo[p] # None /\ ~GroupMuHeld(groupInfo[p]) =>
            parties[leader[groupInfo[p]]] = groupInfo[p]

(* "GROUP JOIN <leader> replies OK": no players wait for each other's      *)
(* PlayerMu in a circle while each of them tells the members of a group    *)
(* and holds its own.  Such players never answer their clients again.      *)
Waiting(p, S) ==
    /\ pc[p] \in {"joinTell", "leaveTell"}
    /\ todo[p] # {}
    /\ todo[p] \subseteq {q \in S : PlayerMuHeld(q)}

NoCircle ==
    \A S \in SUBSET Players : S # {} => \E p \in S : ~Waiting(p, S)

(* Every GROUP command is answered and every cleanup leaves the group: the *)
(* goroutines never wait for each other's mutexes for ever.                *)
CommandsEnd ==
    \A p \in Players :
        pc[p] \notin {"idle", "off"} ~> pc[p] \in {"idle", "off"}
==============================================================================
