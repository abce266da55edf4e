------------------------------ MODULE Presence -------------------------------
(***************************************************************************)
(* What a player's client is told of the others, and what the GUI makes of *)
(* it: the presence events, room chat and player counts that sessions      *)
(* write to each other's connections, the LOOK and WHO replies, and the    *)
(* counters and the LOOK poll of the GUI.                                  *)
(*                                                                         *)
(* Me is the player whose client is the GUI; its connection carries the    *)
(* lines of wire to the GUI and those of cmds to the server, each in the   *)
(* order they were written.  Every other player is seen only by what its   *)
(* session writes to Me.  A step of a session is one critical section of a *)
(* ZoneMu, or of onlinePlayersMu where it is not held over several steps.  *)
(***************************************************************************)
EXTENDS Integers, Sequences, FiniteSets, SequencesExt

CONSTANTS
    Walkers,      \* the other players
    Me,
    Zones, StartZone, RespawnZone,
    EnemyZones,   \* zones where a fight can be lost
    MaxWire,      \* lines a connection holds before a write to it blocks
    MaxCmds,      \* commands the GUI can have under way (Outgoing)
    MaxWalks,     \* bound on the commands, logins and logouts of Walkers
    MaxAsks,      \* bound on the commands of the GUI's user
    MaxRefused,   \* bound on queries refused by the rate limit
    None

Players == Walkers \cup {Me}

(* What a session answers to MOVE and a lost fight, LOOK and WHO, and      *)
(* everything it may write to Me.  late, since and stale are history: who  *)
(* came or left after LOOK took its names, who logged in after WHO took    *)
(* its number, and whether a newer number was written before it.           *)
Shifts == [type : {"moved", "respawn"}, zone : Zones]
LookReplies == [type : {"look"}, zone : Zones, players : SUBSET Players, late : Int]
WhoReplies == [type : {"who"}, n : Nat, players : SUBSET Players, since : Nat, stale : BOOLEAN]
Replies == Shifts \cup LookReplies \cup WhoReplies

Events == [type : {"enter", "leave", "chat"}, who : Walkers, zone : Zones]
Numbers == [type : {"connected"}] \cup [type : {"stats"}, n : Nat]
Lines == Replies \cup Events \cup Numbers

ASSUME PresenceAssumption ==
    /\ IsFiniteSet(Walkers) /\ Me \notin Walkers
    /\ {StartZone, RespawnZone} \subseteq Zones
    /\ EnemyZones \subseteq Zones \ {RespawnZone}
    /\ None \notin Players \cup Zones \cup Replies
    /\ {MaxWire, MaxCmds, MaxWalks, MaxAsks, MaxRefused} \subseteq Nat

VARIABLES
    pc,          \* pc[p]: where the goroutine of p's connection is
    loc,         \* loc[p]: CurrLoc
    inZone,      \* inZone[z]: InZone of zone z
    online,      \* onlinePlayers
    onlineMu,    \* the player whose login holds onlinePlayersMu, or None
    reply,       \* what Me's goroutine is about to answer, or None
    wire,        \* lines on their way to the GUI
    cmds,        \* commands on their way to the server
    zone,        \* GUI: CurrentZone, None before the first LOOK reply
    count,       \* GUI: InZoneCount
    label,       \* GUI: the online counter, None before the first
    loggedIn,    \* GUI: LoggedIn
    walks, asks, refused,      \* what is left of the bounds
    drift,       \* history: what the last LOOK reply missed, None after a move
    stale        \* history: the last WHO reply counted before an EVT STATS

serverVars == <<pc, loc, inZone, online, onlineMu, reply>>
guiVars == <<zone, count, label, loggedIn>>
historyVars == <<drift, stale>>
vars == <<serverVars, wire, cmds, guiVars, walks, asks, refused, historyVars>>

(***************************************************************************)
(*   "off"      not connected          "in"     waiting for a command      *)
(*   "login"    registered, about to enter the starting zone               *)
(*   "entered"  in the starting zone, about to announce the player count   *)
(*   "limbo"    out of the old zone, about to enter the new one            *)
(*   "answer"   about to write reply   "count"  WHO: players counted       *)
(*   "gone"     out of the zone, about to leave the list of players        *)
(***************************************************************************)
PC == {"off", "in", "login", "entered", "limbo", "answer", "count", "gone"}

(* A walker may be online before Me connects. *)
Init ==
    /\ \E on \in SUBSET Walkers : \E at \in [Walkers -> Zones] :
        /\ online = on
        /\ pc = [p \in Players |-> IF p \in on THEN "in" ELSE "off"]
        /\ loc = [p \in Players |-> IF p \in on THEN at[p] ELSE StartZone]
        /\ inZone = [z \in Zones |-> {p \in on : at[p] = z}]
    /\ onlineMu = None /\ reply = None
    /\ wire = <<>> /\ cmds = <<>>
    /\ zone = None /\ count = 0 /\ label = None /\ loggedIn = FALSE
    /\ walks = MaxWalks /\ asks = MaxAsks /\ refused = MaxRefused
    /\ drift = None /\ stale = FALSE

Goto(p, l) == pc' = [pc EXCEPT ![p] = l]

(* A write blocks, and with it the step, while the connection is full. *)
WriteAll(lines) ==
    /\ Len(wire) + Len(lines) <= MaxWire
    /\ wire' = wire \o lines
Write(line) == WriteAll(<<line>>)

(* The answer that Me's goroutine is working on, if it is of this type. *)
Answering(type) == reply # None /\ reply.type = type

(* The session of p tells everybody else in zone z; a LOOK reply under way *)
(* does not know of it.  n is 1 if p enters and -1 if it leaves.           *)
Tell(z, p, line, n) ==
    IF Me \in inZone[z] \ {p}
    THEN /\ Write(line)
         /\ reply' = IF Answering("look") THEN [reply EXCEPT !.late = @ + n] ELSE reply
    ELSE UNCHANGED <<wire, reply>>

(* EVT STATS to everybody else in S; a WHO reply under way is older. *)
Stats(p, S) ==
    IF Me \in S \ {p}
    THEN /\ Write([type |-> "stats", n |-> Cardinality(S)])
         /\ reply' = IF Answering("who") THEN [reply EXCEPT !.stale = TRUE] ELSE reply
         /\ stale' = FALSE
    ELSE UNCHANGED <<wire, reply, stale>>

Enters(p, z) == [type |-> "enter", who |-> p, zone |-> z]
Leaves(p, z) == [type |-> "leave", who |-> p, zone |-> z]

(* A definition named ...Fault is a seeded fault: a mutation run puts it   *)
(* in the place of the definition that follows it.                         *)

------------------------------------------------------------------------------
(* Login: processConn, which holds onlinePlayersMu to its end *)

Connect(p) ==
    /\ pc[p] = "off"
    /\ onlineMu = None
    /\ onlineMu' = p
    /\ online' = online \cup {p}
    /\ loc' = [loc EXCEPT ![p] = StartZone]
    /\ Goto(p, "login")
    /\ IF p = Me
       THEN WriteAll(<<[type |-> "connected"],
                       [type |-> "stats", n |-> Cardinality(online')]>>)
       ELSE UNCHANGED wire
    /\ reply' = IF Answering("who") THEN [reply EXCEPT !.since = @ + 1] ELSE reply
    /\ UNCHANGED <<inZone, historyVars>>

ConnectEnter(p) ==
    /\ pc[p] = "login"
    /\ Tell(StartZone, p, Enters(p, StartZone), 1)
    /\ inZone' = [inZone EXCEPT ![StartZone] = @ \cup {p}]
    /\ Goto(p, "entered")
    /\ UNCHANGED <<loc, online, onlineMu, historyVars>>

ConnectCount(p) ==
    /\ pc[p] = "entered"
    /\ Stats(p, online)
    /\ onlineMu' = None
    /\ Goto(p, "in")
    /\ UNCHANGED <<loc, inZone, online, drift>>

------------------------------------------------------------------------------
(* Logout: cleanupPlayerData from the player's zone on *)

CleanupZone(p) ==
    /\ pc[p] = "in"
    /\ Tell(loc[p], p, Leaves(p, loc[p]), -1)
    /\ inZone' = [inZone EXCEPT ![loc[p]] = @ \ {p}]
    /\ Goto(p, "gone")
    /\ UNCHANGED <<loc, online, onlineMu, historyVars>>

GoOffline(p) ==
    /\ pc[p] = "gone"
    /\ onlineMu = None
    /\ online' = online \ {p}
    /\ Stats(p, online')
    /\ Goto(p, "off")
    /\ UNCHANGED <<loc, inZone, onlineMu, drift>>

------------------------------------------------------------------------------
(* MOVE and respawn: shiftZone *)

ShiftLeave(p, to) ==
    /\ Tell(loc[p], p, Leaves(p, loc[p]), -1)
    /\ inZone' = [inZone EXCEPT ![loc[p]] = @ \ {p}]
    /\ loc' = [loc EXCEPT ![p] = to]
    /\ Goto(p, "limbo")
    /\ UNCHANGED <<online, onlineMu>>

(* The seeded fault tells the old zone's players of it. *)
ShiftEnterToldFault(p) == Tell(loc[p], p, Leaves(p, loc[p]), 1)
ShiftEnterTold(p) == Tell(loc[p], p, Enters(p, loc[p]), 1)

ShiftEnter(p) ==
    /\ pc[p] = "limbo"
    /\ ShiftEnterTold(p)
    /\ inZone' = [inZone EXCEPT ![loc[p]] = @ \cup {p}]
    /\ Goto(p, IF p = Me THEN "answer" ELSE "in")
    /\ UNCHANGED <<loc, online, onlineMu, historyVars>>

(* CHAT ROOM, which Me hears in the same zone. *)
ChatRoom(p) ==
    /\ pc[p] = "in"
    /\ Me \in inZone[loc[p]]
    /\ Write([type |-> "chat", who |-> p, zone |-> loc[p]])
    /\ UNCHANGED <<serverVars, historyVars>>

------------------------------------------------------------------------------
(* The commands of Me *)

Command(c) ==
    /\ pc[Me] = "in"
    /\ cmds # <<>>
    /\ Head(cmds) = c
    /\ cmds' = Tail(cmds)

(* MOVE, and the respawn that ends a lost fight; the answer follows. *)
MyShift(type, to) ==
    /\ pc' = [pc EXCEPT ![Me] = "limbo"]
    /\ inZone' = [inZone EXCEPT ![loc[Me]] = @ \ {Me}]
    /\ loc' = [loc EXCEPT ![Me] = to]
    /\ reply' = [type |-> type, zone |-> to]
    /\ drift' = None
    /\ UNCHANGED <<online, onlineMu, wire, stale>>

MyMove(to) == Command("MOVE") /\ to # loc[Me] /\ MyShift("moved", to)
MyDefeat == Command("ATTACK") /\ loc[Me] \in EnemyZones /\ MyShift("respawn", RespawnZone)

(* A MOVE that is refused, or an ATTACK that does not lose the fight.      *)
NoShift(c) == Command(c) /\ UNCHANGED <<serverVars, wire, historyVars>>

(* LOOK: the players of the room, taken under its ZoneMu and written after *)
(* it is free again.                                                       *)
Look ==
    /\ Command("LOOK")
    /\ reply' = [type |-> "look", zone |-> loc[Me], players |-> inZone[loc[Me]],
                 late |-> 0]
    /\ Goto(Me, "answer")
    /\ UNCHANGED <<loc, inZone, online, onlineMu, wire, historyVars>>

(* WHO: the number of players, and the names in the room, each under a     *)
(* mutex of its own.  since counts the logins in between.                  *)
OnlineCountFault == Cardinality(online \ {Me})
OnlineCount == Cardinality(online)

WhoCount ==
    /\ Command("WHO")
    /\ onlineMu = None
    /\ reply' = [type |-> "who", n |-> OnlineCount, players |-> {},
                 since |-> 0, stale |-> FALSE]
    /\ Goto(Me, "count")
    /\ UNCHANGED <<loc, inZone, online, onlineMu, wire, historyVars>>

WhoList ==
    /\ pc[Me] = "count"
    /\ reply' = [reply EXCEPT !.players = inZone[loc[Me]]]
    /\ Goto(Me, "answer")
    /\ UNCHANGED <<loc, inZone, online, onlineMu, wire, cmds, historyVars>>

(* A query that finds the bucket empty gets an error the GUI only shows. *)
Refuse(c) ==
    /\ Command(c)
    /\ refused > 0
    /\ refused' = refused - 1
    /\ UNCHANGED <<serverVars, wire, historyVars>>

Answer ==
    /\ pc[Me] = "answer"
    /\ Write(reply)
    /\ Goto(Me, "in")
    /\ reply' = None
    /\ drift' = IF reply.type = "look" THEN reply.late ELSE drift
    /\ stale' = IF reply.type = "who" THEN reply.stale ELSE stale
    /\ UNCHANGED <<loc, inZone, online, onlineMu, cmds>>

------------------------------------------------------------------------------
(* The GUI: one goroutine, run of the CommandRouter.  A command that finds *)
(* Outgoing full is dropped.                                               *)

Send(c) == cmds' = IF Len(cmds) < MaxCmds THEN Append(cmds, c) ELSE cmds

(* A presence event adjusts the counter, and a LOOK reply sets it. *)
CountedFault(n, line) ==
    CASE line.type \in {"enter", "chat"} -> n + 1
      [] line.type = "leave" -> n - 1
      [] line.type = "look" -> Cardinality(line.players)
      [] OTHER -> n
Counted(n, line) ==
    CASE line.type = "enter" -> n + 1
      [] line.type = "leave" -> n - 1
      [] line.type = "look" -> Cardinality(line.players)
      [] OTHER -> n

Labelled(n, line) == IF line.type \in {"stats", "who"} THEN line.n ELSE n

(* Both counters after a line. *)
Updated(counters, line) ==
    [count |-> Counted(counters.count, line), label |-> Labelled(counters.label, line)]

Read ==
    LET line == Head(wire) IN
    /\ wire # <<>>
    /\ wire' = Tail(wire)
    /\ loggedIn' = (loggedIn \/ line.type = "connected")
    /\ zone' = IF line.type \in {"moved", "look"} THEN line.zone ELSE zone
    /\ count' = Counted(count, line)
    /\ label' = Labelled(label, line)
    /\ IF line.type \in {"connected", "moved", "respawn"} THEN Send("LOOK") ELSE UNCHANGED cmds

(* The user's commands; LOOK is also what the poll sends, and what follows *)
(* the reply to a TAKE or DROP.                                            *)
Ask(c) ==
    /\ loggedIn
    /\ asks > 0
    /\ asks' = asks - 1
    /\ Send(c)

PollsFault == loggedIn /\ count > 2
Polls == loggedIn /\ count > 1

Poll ==
    /\ Polls
    /\ Send("LOOK")

------------------------------------------------------------------------------
Walk(p) ==
    \/ Connect(p)
    \/ CleanupZone(p)
    \/ \E z \in Zones \ {loc[p]} : pc[p] = "in" /\ ShiftLeave(p, z) /\ UNCHANGED historyVars
    \/ ChatRoom(p)

Continue(p) ==
    \/ ConnectEnter(p)
    \/ ConnectCount(p)
    \/ GoOffline(p)
    \/ ShiftEnter(p)

Walker(p) ==
    /\ \/ Walk(p) /\ walks > 0 /\ walks' = walks - 1
       \/ Continue(p) /\ UNCHANGED walks
    /\ UNCHANGED <<cmds, guiVars, asks, refused>>

Mine ==
    /\ \/ (Connect(Me) \/ Continue(Me)) /\ UNCHANGED <<cmds, refused>>
       \/ ((\E z \in Zones : MyMove(z)) \/ MyDefeat \/ NoShift("MOVE") \/ NoShift("ATTACK"))
          /\ UNCHANGED refused
       \/ (Look \/ WhoCount) /\ UNCHANGED refused
       \/ (WhoList \/ Answer) /\ UNCHANGED <<cmds, refused>>
       \/ Refuse("LOOK") \/ Refuse("WHO")
    /\ UNCHANGED <<guiVars, walks, asks>>

Gui ==
    /\ \/ Read /\ UNCHANGED asks
       \/ (\E c \in {"MOVE", "ATTACK", "WHO", "LOOK"} : Ask(c)) /\ UNCHANGED <<wire, guiVars>>
       \/ Poll /\ UNCHANGED <<wire, guiVars, asks>>
    /\ UNCHANGED <<serverVars, walks, refused, historyVars>>

Next == (\E p \in Walkers : Walker(p)) \/ Mine \/ Gui

Spec == Init /\ [][Next]_vars

(* A goroutine that has work goes on with it, the GUI reads what it is     *)
(* sent, and its ticker ticks.  Nothing is assumed of the players.         *)
FairSpec ==
    /\ Spec
    /\ \A p \in Walkers : WF_vars(Continue(p) /\ Walker(p))
    /\ WF_vars(Mine /\ pc[Me] # "off")
    /\ WF_vars(Gui /\ Read)
    /\ WF_vars(Gui /\ Poll)

------------------------------------------------------------------------------
(* Properties *)

(* Every variable is of its type, *)
Shapes ==
    /\ pc \in [Players -> PC]
    /\ loc \in [Players -> Zones]
    /\ inZone \in [Zones -> SUBSET Players]
    /\ online \subseteq Players
    /\ onlineMu \in Players \cup {None}
    /\ reply \in Replies \cup {None}
    /\ wire \in Seq(Lines) /\ Len(wire) <= MaxWire
    /\ cmds \in Seq({"MOVE", "ATTACK", "LOOK", "WHO"}) /\ Len(cmds) <= MaxCmds
    /\ zone \in Zones \cup {None}
    /\ count \in Int
    /\ loggedIn \in BOOLEAN /\ stale \in BOOLEAN

(* and only players in a zone, or on their way to or from one, are online. *)
InPlace ==
    /\ \A p \in Players :
        /\ p \in online <=> pc[p] # "off"
        /\ \A z \in Zones :
            p \in inZone[z] <=> loc[p] = z /\ pc[p] \notin {"off", "login", "limbo", "gone"}
    /\ onlineMu # None => pc[onlineMu] \in {"login", "entered"}

TypeOK == Shapes /\ InPlace

(* When the GUI has read all that is on its way, the counter of players in *)
(* the room differs from InZone by exactly what happened between the       *)
(* snapshot of the last LOOK and its reply, and the counter of players     *)
(* online is that of onlinePlayers unless a WHO reply overtook an EVT      *)
(* STATS: no event is lost, told twice or told of another room.            *)
AllRead == FoldLeft(Updated, [count |-> count, label |-> label], wire)

CountsExact ==
    /\ drift # None => AllRead.count = Cardinality(inZone[loc[Me]]) - drift
    /\ Me \in online /\ onlineMu = None /\ ~stale => AllRead.label = Cardinality(online)

(* The counters are exact, with the types above.                           *)
CountersSound == TypeOK /\ CountsExact

(* What players are told of each other is in order: a player whose arrival *)
(* or departure is announced was announced gone or there before, chats     *)
(* only while there, and after a move nothing of the old room arrives.     *)
Announces(i) == wire[i].type \in {"moved", "respawn"}
Of(i, p, z) == wire[i].type \in {"enter", "leave", "chat"} /\ wire[i].who = p /\ wire[i].zone = z

EventsInOrder ==
    \A i, j \in 1..Len(wire) : i < j =>
        /\ \A p \in Walkers, z \in Zones :
            /\ Of(i, p, z) /\ Of(j, p, z)
            /\ (\A k \in (i + 1)..(j - 1) : ~Of(k, p, z) /\ ~Announces(k))
            => (wire[j].type = "enter" <=> wire[i].type = "leave")
        /\ \A z \in Zones :
            /\ Announces(i) /\ wire[i].zone # z
            /\ (\E p \in Walkers : Of(j, p, z))
            => \/ loc[Me] = z
               \/ \E k \in (i + 1)..Len(wire) : Announces(k) /\ wire[k].zone = z

(* WHO names at most as many players as it counts, but for those who       *)
(* logged in between its two halves: it never names one that has left.     *)
WhoAgrees ==
    Answering("who") => Cardinality(reply.players) <= reply.n + reply.since

(* "The number of players in the room": when the others come to rest, the  *)
(* poll brings the GUI's room and counter up to date, whatever LOOK        *)
(* replies were late or refused, unless the counter is at most 1, where    *)
(* the GUI does not poll.                                                  *)
ViewCatchesUp ==
    <>[](count > 1 => zone = loc[Me] /\ count = Cardinality(inZone[loc[Me]]))
==============================================================================
