--------------------------- MODULE PresenceProofs ----------------------------
(***************************************************************************)
(* Proofs about Presence, for any number of players and rooms, and for     *)
(* wires and queues of any length.                                         *)
(*                                                                         *)
(* None of the safety properties is inductive.  What Me was told is on the *)
(* wire, and says what is true only together with what Me's own goroutine  *)
(* is about to answer and with who is in its room: PresenceInv relates all *)
(* of them.  The number the GUI will have read at the end of the wire is   *)
(* a fold over the wire; what a line more at its end and a line less at    *)
(* its front make of a fold is shown once, of FoldLeft.                    *)
(***************************************************************************)
EXTENDS Presence, FiniteSetTheorems, WellFoundedInduction, TLAPS

(* Where the goroutine of a player is that is in the game and in its room. *)
Served == {"in", "answer", "count"}

(* Me has left a room and not yet entered the next one. *)
Shifting == reply # None /\ reply.type \in {"moved", "respawn"}

(* Where Me's goroutine is, against what it is about to answer, and whose  *)
(* login holds onlinePlayersMu.                                            *)
MyPlace ==
    /\ pc[Me] # "gone"
    /\ pc[Me] = "off" => wire = <<>>
    /\ reply # None <=> pc[Me] \in {"limbo", "answer", "count"}
    /\ pc[Me] = "limbo" => Shifting
    /\ pc[Me] = "count" => Answering("who")
    /\ Shifting => reply.zone = loc[Me]
    /\ \A p \in Players :
         /\ pc[p] \in {"login", "entered"} => onlineMu = p
         /\ pc[p] = "login" => loc[p] = StartZone

(* The counter of the room, once all is read. *)
RoomCounted ==
    /\ drift # None => drift \in Int /\ pc[Me] \in Served
    /\ drift # None => AllRead.count = Cardinality(inZone[loc[Me]]) - drift
    /\ Answering("look") =>
         /\ pc[Me] = "answer"
         /\ Cardinality(inZone[loc[Me]]) = Cardinality(reply.players) + reply.late

(* The number of players online, once all is read, also while Me logs in;  *)
(* and that of a WHO reply under way.                                      *)
OnlineCounted ==
    /\ Me \in online /\ onlineMu \in {None, Me} /\ ~stale => AllRead.label = Cardinality(online)
    /\ Answering("who") /\ onlineMu = None /\ ~reply.stale => reply.n = Cardinality(online)

(* A WHO reply under way, against those who logged in since it counted.    *)
WhoBound ==
    Answering("who") =>
        /\ Cardinality(online) <= reply.n + reply.since
        /\ Cardinality(reply.players) <= reply.n + reply.since

(* The order of lines w on their way to a player who is in or on its way   *)
(* to zone z, in the room of the players in there, and whose announcement  *)
(* of z is still to be written if it is shifting.                          *)
Tells(line, p, z) ==
    line.type \in {"enter", "leave", "chat"} /\ line.who = p /\ line.zone = z
Announced(line) == line.type \in {"moved", "respawn"}

(* The last event of a walker in zone z says whether it is there;          *)
Latest(w, i, p, z) ==
    /\ Tells(w[i], p, z)
    /\ \A k \in (i + 1)..Len(w) : ~Tells(w[k], p, z) /\ ~Announced(w[k])

LatestTrue(w, z, room) ==
    \A i \in 1..Len(w), p \in Walkers : Latest(w, i, p, z) =>
        Me \in room /\ (w[i].type = "leave" <=> p \notin room)

(* what there is of another zone comes before the announcement of z;       *)
About(line, y) == \/ Announced(line) /\ line.zone = y
                  \/ \E p \in Walkers : Tells(line, p, y)

OthersBefore(w, z) ==
    \A i \in 1..Len(w), y \in Zones \ {z} : About(w[i], y) =>
        \E k \in (i + 1)..Len(w) : Announced(w[k]) /\ w[k].zone = z

(* and it holds of the lines what EventsInOrder says of them.              *)
Alternate(w) ==
    \A i, j \in 1..Len(w), p \in Walkers, y \in Zones :
        /\ i < j /\ Tells(w[i], p, y) /\ Tells(w[j], p, y)
        /\ \A k \in (i + 1)..(j - 1) : ~Tells(w[k], p, y) /\ ~Announced(w[k])
        => (w[j].type = "enter" <=> w[i].type = "leave")

NoneOfOld(w, z) ==
    \A i, j \in 1..Len(w), p \in Walkers, y \in Zones :
        i < j /\ Announced(w[i]) /\ w[i].zone # y /\ Tells(w[j], p, y)
        => y = z \/ \E k \in (i + 1)..Len(w) : Announced(w[k]) /\ w[k].zone = y

Orderly(w, z, room, shifting) ==
    /\ LatestTrue(w, z, room)
    /\ ~shifting => OthersBefore(w, z)
    /\ Alternate(w) /\ NoneOfOld(w, z)

InOrder == Orderly(wire, loc[Me], inZone[loc[Me]], Shifting)

(* The inductive invariant. *)
PresenceInv ==
    /\ Shapes /\ InPlace /\ MyPlace
    /\ RoomCounted /\ OnlineCounted /\ WhoBound
    /\ InOrder

------------------------------------------------------------------------------
(* Players are finitely many, and so are those in a room or online. *)
LEMMA Counting ==
    ASSUME NEW S \in SUBSET Players
    PROVE  /\ Cardinality(S) \in Nat
           /\ \A p : p \notin S => Cardinality(S \cup {p}) = Cardinality(S) + 1
           /\ \A p \in S : Cardinality(S \ {p}) = Cardinality(S) - 1
           /\ \A T \in SUBSET S : Cardinality(T) <= Cardinality(S)
PROOF
<1>1. IsFiniteSet(Players)  BY PresenceAssumption, FS_AddElement DEF Players
<1>2. IsFiniteSet(S)  BY <1>1, FS_Subset
<1>3. Cardinality(S) \in Nat  BY <1>2, FS_CardinalityType
<1>4. \A p : p \notin S => Cardinality(S \cup {p}) = Cardinality(S) + 1
  BY <1>2, FS_AddElement
<1>5. \A p \in S : Cardinality(S \ {p}) = Cardinality(S) - 1  BY <1>2, FS_RemoveElement
<1>6. \A T \in SUBSET S : Cardinality(T) <= Cardinality(S)  BY <1>2, FS_Subset
<1> QED BY <1>3, <1>4, <1>5, <1>6

------------------------------------------------------------------------------
(* Lines and replies.  What is written is a line. *)
LEMMA LineTypes ==
    /\ \A p \in Walkers, z \in Zones : Enters(p, z) \in Events /\ Leaves(p, z) \in Events
    /\ \A n \in Nat : [type |-> "stats", n |-> n] \in Numbers
    /\ [type |-> "connected"] \in Numbers
    /\ Events \subseteq Lines /\ Numbers \subseteq Lines /\ Replies \subseteq Lines
BY DEF Enters, Leaves, Events, Numbers, Lines

(* A reply is of one kind. *)
LEMMA ReplyKinds ==
    ASSUME reply \in Replies \cup {None}
    PROVE  /\ Answering("look") <=> reply \in LookReplies /\ reply # None
           /\ Answering("who") <=> reply \in WhoReplies /\ reply # None
           /\ Shifting <=> reply \in Shifts /\ reply # None
           /\ reply # None <=> Shifting \/ Answering("look") \/ Answering("who")
           /\ ~(Shifting /\ Answering("look")) /\ ~(Shifting /\ Answering("who"))
           /\ ~(Answering("look") /\ Answering("who"))
BY DEF Replies, LookReplies, WhoReplies, Shifts, Answering, Shifting

(* One line more. *)
Added(line) ==
    /\ wire' \in Seq(Lines) /\ Len(wire') <= MaxWire
    /\ wire' = Append(wire, line)
    /\ Len(wire) \in Nat /\ Len(wire') = Len(wire) + 1
    /\ \A i \in 1..Len(wire) : wire'[i] = wire[i]
    /\ wire'[Len(wire) + 1] = line

(* Write puts its line at the end. *)
LEMMA Writing ==
    ASSUME wire \in Seq(Lines), NEW line \in Lines, Write(line)
    PROVE  Added(line)
PROOF
<1>1. <<line>> \in Seq(Lines) /\ Len(<<line>>) = 1 /\ <<line>>[1] = line  OBVIOUS
<1>2. wire' = wire \o <<line>> /\ Len(wire) + 1 <= MaxWire  BY <1>1 DEF Write, WriteAll
<1>3. wire \o <<line>> = Append(wire, line)  OBVIOUS
<1> QED BY <1>2, <1>3 DEF Added

(* What becomes of a reply when others come and go. *)
SameReply ==
    /\ reply' \in Replies \cup {None}
    /\ reply' # None <=> reply # None
    /\ Shifting' <=> Shifting
    /\ reply # None => reply'.type = reply.type
    /\ Shifting => reply' = reply

(* An arrival or a departure makes a LOOK reply late by one. *)
LEMMA LateReply ==
    ASSUME reply \in Replies \cup {None}, NEW n \in Int, Answering("look"),
           reply' = [reply EXCEPT !.late = @ + n]
    PROVE  /\ SameReply /\ Answering("look")'
           /\ reply'.players = reply.players /\ reply'.late = reply.late + n
PROOF
<1>0. None \notin Replies  BY PresenceAssumption
<1>1. reply \in LookReplies  BY ReplyKinds
<1>2. /\ reply' \in LookReplies /\ reply'.type = reply.type
      /\ reply'.players = reply.players /\ reply'.late = reply.late + n
  BY <1>1 DEF LookReplies
<1>3. reply' \in Replies /\ reply' # None /\ reply.type = "look"
  BY <1>0, <1>1, <1>2 DEF Replies, LookReplies
<1> QED BY <1>2, <1>3 DEF SameReply, Shifting, Answering

(* A newer number makes a WHO reply stale. *)
LEMMA StaleReply ==
    ASSUME reply \in Replies \cup {None}, Answering("who"),
           reply' = [reply EXCEPT !.stale = TRUE]
    PROVE  /\ SameReply /\ Answering("who")' /\ reply'.players = reply.players
           /\ reply'.stale /\ reply'.n = reply.n /\ reply'.since = reply.since
PROOF
<1>0. None \notin Replies  BY PresenceAssumption
<1>1. reply \in WhoReplies  BY ReplyKinds
<1>2. /\ reply' \in WhoReplies /\ reply'.type = reply.type /\ reply'.players = reply.players
      /\ reply'.stale /\ reply'.n = reply.n /\ reply'.since = reply.since
  BY <1>1 DEF WhoReplies
<1>3. reply' \in Replies /\ reply' # None /\ reply.type = "who"
  BY <1>0, <1>1, <1>2 DEF Replies, WhoReplies
<1> QED BY <1>2, <1>3 DEF SameReply, Shifting, Answering

(* A login adds to those that a WHO reply did not count. *)
LEMMA OlderReply ==
    ASSUME reply \in Replies \cup {None}, Answering("who"),
           reply' = [reply EXCEPT !.since = @ + 1]
    PROVE  /\ SameReply /\ Answering("who")' /\ reply'.players = reply.players
           /\ reply'.stale = reply.stale /\ reply'.n = reply.n /\ reply'.since = reply.since + 1
PROOF
<1>0. None \notin Replies  BY PresenceAssumption
<1>1. reply \in WhoReplies  BY ReplyKinds
<1>2. /\ reply' \in WhoReplies /\ reply'.type = reply.type /\ reply'.players = reply.players
      /\ reply'.stale = reply.stale /\ reply'.n = reply.n /\ reply'.since = reply.since + 1
  BY <1>1 DEF WhoReplies
<1>3. reply' \in Replies /\ reply' # None /\ reply.type = "who"
  BY <1>0, <1>1, <1>2 DEF Replies, WhoReplies
<1> QED BY <1>2, <1>3 DEF SameReply, Shifting, Answering

(* Most steps leave the reply alone. *)
LEMMA SameReplyHeld ==
    ASSUME reply \in Replies \cup {None}, reply' = reply  PROVE SameReply
BY DEF SameReply, Shifting

(* Tell and Stats: one line to Me, if it is to hear of it. *)
LEMMA Telling ==
    ASSUME Shapes, NEW z \in Zones, NEW p \in Players, NEW line, NEW n \in Int,
           p \in Walkers => line \in Lines, Tell(z, p, line, n)
    PROVE  /\ SameReply
           /\ p # Me /\ Me \in inZone[z] =>
                /\ Added(line)
                /\ Answering("look") => /\ Answering("look")'
                                        /\ reply'.players = reply.players
                                        /\ reply'.late = reply.late + n
                /\ ~Answering("look") => reply' = reply
           /\ ~(p # Me /\ Me \in inZone[z]) => wire' = wire /\ reply' = reply
PROOF
<1>1. reply \in Replies \cup {None} /\ wire \in Seq(Lines)  BY DEF Shapes
<1>2. CASE Me \in inZone[z] \ {p}
  <2>1. line \in Lines  BY <1>2 DEF Players
  <2>2. Added(line)  BY <1>1, <1>2, <2>1, Writing DEF Tell
  <2>3. CASE Answering("look")
    <3>1. reply' = [reply EXCEPT !.late = @ + n]  BY <1>2, <2>3 DEF Tell
    <3> QED BY <1>1, <1>2, <2>2, <2>3, <3>1, LateReply
  <2>4. CASE ~Answering("look")
    <3>1. reply' = reply  BY <1>2, <2>4 DEF Tell
    <3> QED BY <1>1, <1>2, <2>2, <2>4, <3>1, SameReplyHeld
  <2> QED BY <2>3, <2>4
<1>3. CASE Me \notin inZone[z] \ {p}
  <2>1. wire' = wire /\ reply' = reply  BY <1>3 DEF Tell
  <2> QED BY <1>1, <1>3, <2>1, SameReplyHeld
<1> QED BY <1>2, <1>3

(* Stats: the number of players to all that are online, but for p. *)
LEMMA Announcing ==
    ASSUME Shapes, NEW p \in Players, NEW S \in SUBSET Players, Stats(p, S)
    PROVE  /\ SameReply /\ stale' \in BOOLEAN
           /\ p # Me /\ Me \in S =>
                /\ Added([type |-> "stats", n |-> Cardinality(S)]) /\ ~stale'
                /\ Answering("who") => /\ Answering("who")' /\ reply'.stale
                                       /\ reply'.players = reply.players
                                       /\ reply'.n = reply.n /\ reply'.since = reply.since
                /\ ~Answering("who") => reply' = reply
           /\ ~(p # Me /\ Me \in S) => wire' = wire /\ reply' = reply /\ stale' = stale
PROOF
<1>1. reply \in Replies \cup {None} /\ wire \in Seq(Lines) /\ stale \in BOOLEAN  BY DEF Shapes
<1>2. CASE Me \in S \ {p}
  <2>1. [type |-> "stats", n |-> Cardinality(S)] \in Lines  BY Counting, LineTypes
  <2>2. Added([type |-> "stats", n |-> Cardinality(S)]) /\ stale' = FALSE
    BY <1>1, <1>2, <2>1, Writing DEF Stats
  <2>3. CASE Answering("who")
    <3>1. reply' = [reply EXCEPT !.stale = TRUE]  BY <1>2, <2>3 DEF Stats
    <3> QED BY <1>1, <1>2, <2>2, <2>3, <3>1, StaleReply
  <2>4. CASE ~Answering("who")
    <3>1. reply' = reply  BY <1>2, <2>4 DEF Stats
    <3> QED BY <1>1, <1>2, <2>2, <2>4, <3>1, SameReplyHeld
  <2> QED BY <2>3, <2>4
<1>3. CASE Me \notin S \ {p}
  <2>1. wire' = wire /\ reply' = reply /\ stale' = stale  BY <1>3 DEF Stats
  <2> QED BY <1>1, <1>3, <2>1, SameReplyHeld
<1> QED BY <1>2, <1>3

(* What holds of 0, and of n + 1 if it holds of n, holds of every number: *)
(* induction, for a set, from the order of the natural numbers.            *)
LEMMA Induction ==
    ASSUME NEW S, 0 \in S, \A n \in Nat : n \in S => n + 1 \in S
    PROVE  Nat \subseteq S
PROOF
<1> DEFINE Less == {p \in Nat \X Nat : p[1] < p[2]}
           Rest == Nat \ S
<1>1. IsWellFoundedOn(Less, Nat)
  BY NatLessThanWellFounded DEF OpToRel
<1> HIDE DEF Less
<1>2. SUFFICES ASSUME Rest # {}  PROVE FALSE
  OBVIOUS
<1>3. PICK n \in Rest : \A m \in Rest : <<m, n>> \notin Less
  <2> HIDE DEF Rest
  <2>1. Rest \subseteq Nat  BY DEF Rest
  <2> QED BY <1>1, <1>2, <2>1, WFMin
<1>4. n - 1 \in Nat /\ n - 1 \in S
  <2>1. n \in Nat /\ n # 0  BY <1>3
  <2>2. n - 1 \in Nat /\ <<n - 1, n>> \in Less  BY <2>1 DEF Less
  <2> QED BY <1>3, <2>2
<1> QED BY <1>3, <1>4

(* FoldLeft is defined by a function of the sets of indices that are left. *)
Iterates(f, b, s) ==
    f = [t \in SUBSET DOMAIN s |->
           IF t = {} THEN b ELSE Updated(f[t \ {Max(t)}], s[Max(t)])]

(* The last of the first n indices is n. *)
LEMMA LastIndex ==
    ASSUME NEW n \in Nat, NEW t \in SUBSET (1 .. n), n \in t
    PROVE  Max(t) = n
PROOF
<1>1. n \in t /\ \A y \in t : n >= y  OBVIOUS
<1>2. Max(t) \in t /\ \A y \in t : Max(t) >= y  BY <1>1, Zenon DEF Max
<1>3. n \in Nat /\ t \subseteq Int  OBVIOUS
<1>4. Max(t) >= n /\ n >= Max(t) /\ Max(t) \in Int  BY <1>1, <1>2, <1>3
<1> QED BY <1>3, <1>4

(* There is such a function: it grows with the length of the sequence.     *)
LEMMA IteratesExists ==
    ASSUME NEW b, NEW s, NEW n \in Nat, DOMAIN s = 1 .. n
    PROVE  \E f : Iterates(f, b, s)
PROOF
<1> DEFINE Upto(f, k) ==
             f = [t \in SUBSET (1 .. k) |->
                    IF t = {} THEN b ELSE Updated(f[t \ {Max(t)}], s[Max(t)])]
           S == {k \in Nat : \E f : Upto(f, k)}
<1>1. 0 \in S
  <2>1. \A t \in SUBSET (1 .. 0) : t = {}  OBVIOUS
  <2>2. Upto([t \in SUBSET (1 .. 0) |-> b], 0)  BY <2>1
  <2> QED BY <2>2
<1>2. ASSUME NEW k \in Nat, k \in S  PROVE k + 1 \in S
  <2>1. PICK f : Upto(f, k)  BY <1>2
  <2> DEFINE g == [t \in SUBSET (1 .. k + 1) |->
                     IF k + 1 \in t THEN Updated(f[t \ {k + 1}], s[k + 1]) ELSE f[t]]
  <2>2. \A t \in SUBSET (1 .. k) : t \in SUBSET (1 .. k + 1) /\ k + 1 \notin t
    OBVIOUS
  <2>3. \A t \in SUBSET (1 .. k) : g[t] = f[t]  BY <2>2
  <2>4. \A t \in SUBSET (1 .. k) :
          f[t] = IF t = {} THEN b ELSE Updated(f[t \ {Max(t)}], s[Max(t)])
    BY <2>1
  <2>5. ASSUME NEW t \in SUBSET (1 .. k + 1)
        PROVE  g[t] = IF t = {} THEN b ELSE Updated(g[t \ {Max(t)}], s[Max(t)])
    <3>1. CASE k + 1 \in t
      <4>1. Max(t) = k + 1  BY <3>1, LastIndex
      <4>2. t \ {k + 1} \in SUBSET (1 .. k)  OBVIOUS
      <4> HIDE DEF g
      <4>3. g[t] = Updated(f[t \ {k + 1}], s[k + 1])  BY <3>1 DEF g
      <4> QED BY <2>3, <3>1, <4>1, <4>2, <4>3
    <3>2. CASE k + 1 \notin t
      <4>1. t \in SUBSET (1 .. k)  BY <3>2
      <4>2. t \ {Max(t)} \in SUBSET (1 .. k)  BY <4>1
      <4> QED BY <2>3, <2>4, <4>1, <4>2
    <3> QED BY <3>1, <3>2
  <2>6. Upto(g, k + 1)  BY <2>5
  <2>7. \E h : Upto(h, k + 1)
    <3> HIDE DEF g, Upto
    <3> QED BY <2>6
  <2>8. k + 1 \in Nat  OBVIOUS
  <2> HIDE DEF Upto
  <2> QED BY <2>7, <2>8
<1> HIDE DEF S
<1>3. n \in S  BY <1>1, <1>2, Induction
<1> QED BY <1>3 DEF S, Iterates

(* h is a run of Updated over s: what it comes to after each line.       *)
Runs(h, b, s) ==
    /\ h[0] = b
    /\ \A k \in 1 .. Len(s) : h[k] = Updated(h[k - 1], s[k])

(* The fold is the end of a run. *)
LEMMA FoldRuns ==
    ASSUME NEW b, NEW L, NEW s \in Seq(L)
    PROVE  \E h : Runs(h, b, s) /\ FoldLeft(Updated, b, s) = h[Len(s)]
PROOF
<1>1. Len(s) \in Nat /\ DOMAIN s = 1 .. Len(s)  OBVIOUS
<1> DEFINE f == CHOOSE f : Iterates(f, b, s)
           h == [k \in 0 .. Len(s) |-> f[1 .. k]]
<1>2. Iterates(f, b, s)
  <2>1. \E g : Iterates(g, b, s)  BY <1>1, IteratesExists
  <2> QED BY <2>1
<1>3. FoldLeft(Updated, b, s) = f[1 .. Len(s)]
  BY <1>1 DEF FoldLeft, MapThenFoldSet, Iterates
<1> HIDE DEF f
<1>4. h[0] = b
  <2>1. 1 .. 0 = {} /\ {} \in SUBSET (DOMAIN s)  BY <1>1
  <2> QED BY <1>2, <2>1 DEF Iterates
<1>5. ASSUME NEW k \in 1 .. Len(s)  PROVE h[k] = Updated(h[k - 1], s[k])
  <2>1. k \in Nat /\ k \in 1 .. k /\ 1 .. k \subseteq 1 .. Len(s)  BY <1>1
  <2>2. Max(1 .. k) = k  BY <2>1, LastIndex
  <2>3. 1 .. k \in SUBSET (DOMAIN s) /\ 1 .. k # {}  BY <1>1, <2>1
  <2>4. f[1 .. k] = Updated(f[(1 .. k) \ {k}], s[k])
    BY <1>2, <2>2, <2>3 DEF Iterates
  <2>5. (1 .. k) \ {k} = 1 .. (k - 1)  OBVIOUS
  <2>6. h[k] = f[1 .. k] /\ h[k - 1] = f[1 .. (k - 1)]  BY <1>1
  <2> QED BY <2>4, <2>5, <2>6
<1>6. h[Len(s)] = f[1 .. Len(s)]  BY <1>1
<1> QED BY <1>3, <1>4, <1>5, <1>6 DEF Runs

(* Runs over sequences that begin alike begin alike. *)
AgreeUpto(s, t, n) == \A i \in 1 .. n : s[i] = t[i]
LEMMA RunsAgree ==
    ASSUME NEW b, NEW s, NEW t, NEW n \in Nat, n \in 0 .. Len(s), n \in 0 .. Len(t),
           AgreeUpto(s, t, n), NEW g, NEW h, Runs(g, b, s), Runs(h, b, t)
    PROVE  g[n] = h[n]
PROOF
<1> DEFINE S == {k \in Nat : k <= n => g[k] = h[k]}
<1>1. 0 \in S  BY DEF Runs
<1>2. ASSUME NEW k \in Nat, k \in S  PROVE k + 1 \in S
  <2>1. CASE k + 1 <= n
    <3>1. g[k + 1] = Updated(g[k], s[k + 1]) /\ h[k + 1] = Updated(h[k], t[k + 1])
      <4>1. k + 1 \in 1 .. Len(s) /\ k + 1 \in 1 .. Len(t) /\ (k + 1) - 1 = k  BY <2>1
      <4> QED BY <4>1 DEF Runs
    <3>2. s[k + 1] = t[k + 1]  BY <2>1 DEF AgreeUpto
    <3> QED BY <1>2, <2>1, <3>1, <3>2
  <2> QED BY <2>1
<1> HIDE DEF S
<1>3. n \in S  BY <1>1, <1>2, Induction
<1> QED BY <1>3 DEF S

(* A line more at the end of a sequence. *)
LEMMA FoldAppend ==
    ASSUME NEW b, NEW L, NEW s \in Seq(L), NEW e \in L
    PROVE  FoldLeft(Updated, b, Append(s, e)) = Updated(FoldLeft(Updated, b, s), e)
PROOF
<1> DEFINE n == Len(s)
           t == Append(s, e)
<1>1. t \in Seq(L) /\ n \in Nat /\ Len(t) = n + 1 /\ t[n + 1] = e  OBVIOUS
<1>2. AgreeUpto(s, t, n)  BY DEF AgreeUpto
<1>3. PICK g : Runs(g, b, s) /\ FoldLeft(Updated, b, s) = g[n]  BY FoldRuns
<1> HIDE DEF t
<1>4. PICK h : Runs(h, b, t) /\ FoldLeft(Updated, b, t) = h[n + 1]  BY <1>1, FoldRuns
<1>5. g[n] = h[n]
  <2>1. n \in 0 .. Len(s) /\ n \in 0 .. Len(t)  BY <1>1
  <2>2. Runs(g, b, s) /\ Runs(h, b, t)  BY <1>3, <1>4
  <2> QED BY <1>1, <1>2, <2>1, <2>2, RunsAgree
<1>6. h[n + 1] = Updated(h[n], e)
  <2>1. n + 1 \in 1 .. Len(t) /\ (n + 1) - 1 = n  BY <1>1
  <2> QED BY <1>1, <1>4, <2>1 DEF Runs
<1> QED BY <1>3, <1>4, <1>5, <1>6 DEF t

(* A line less at its front. *)
LEMMA FoldHead ==
    ASSUME NEW b, NEW L, NEW s \in Seq(L), s # <<>>
    PROVE  FoldLeft(Updated, b, s) = FoldLeft(Updated, Updated(b, Head(s)), Tail(s))
PROOF
<1> DEFINE n == Len(s) - 1
           a == Updated(b, Head(s))
           t == Tail(s)
<1>1. /\ t \in Seq(L) /\ n \in Nat /\ Len(t) = n /\ Len(s) = n + 1 /\ Head(s) = s[1]
      /\ \A i \in 1 .. n : t[i] = s[i + 1]
  OBVIOUS
<1>2. PICK g : Runs(g, b, s) /\ FoldLeft(Updated, b, s) = g[n + 1]  BY <1>1, FoldRuns
<1> HIDE DEF n, t
<1>3. PICK h : Runs(h, a, t) /\ FoldLeft(Updated, a, t) = h[n]  BY <1>1, FoldRuns
<1> DEFINE k == [i \in 0 .. n |-> g[i + 1]]
<1>4. k[0] = a
  <2>1. g[1] = Updated(g[1 - 1], s[1])  BY <1>1, <1>2 DEF Runs
  <2> QED BY <1>1, <1>2, <2>1 DEF Runs
<1>5. ASSUME NEW i \in 1 .. n  PROVE k[i] = Updated(k[i - 1], t[i])
  <2>1. i + 1 \in 1 .. Len(s) /\ (i + 1) - 1 = i /\ (i - 1) + 1 = i /\ i - 1 \in 0 .. n
    BY <1>1
  <2>2. g[i + 1] = Updated(g[i], s[i + 1])  BY <1>2, <2>1 DEF Runs
  <2> QED BY <1>1, <2>1, <2>2
<1>6. k[n] = g[n + 1]  BY <1>1
<1> HIDE DEF k
<1>7. Runs(k, a, t)  BY <1>1, <1>4, <1>5 DEF Runs
<1>8. k[n] = h[n]
  <2>1. n \in 0 .. Len(t) /\ AgreeUpto(t, t, n)  BY <1>1 DEF AgreeUpto
  <2>2. Runs(h, a, t)  BY <1>3
  <2> QED BY <1>1, <1>7, <2>1, <2>2, RunsAgree
<1> QED BY <1>2, <1>3, <1>6, <1>8 DEF t
------------------------------------------------------------------------------
(* The counters of the GUI when all on its way is read: a line more counts *)
(* as the GUI will count it.                                               *)
LEMMA ReadAdded ==
    ASSUME wire \in Seq(Lines), NEW line \in Lines, Added(line), UNCHANGED <<count, label>>
    PROVE  /\ AllRead'.count = Counted(AllRead.count, line)
           /\ AllRead'.label = Labelled(AllRead.label, line)
PROOF
<1> DEFINE seen == [count |-> count, label |-> label]
<1>0. wire' = Append(wire, line) /\ seen' = seen  BY DEF Added
<1>1. AllRead = FoldLeft(Updated, seen, wire)
      /\ AllRead' = FoldLeft(Updated, seen, Append(wire, line))
  BY <1>0 DEF AllRead
<1> HIDE DEF seen
<1>2. AllRead' = Updated(AllRead, line)  BY <1>1, FoldAppend
<1> QED BY <1>2 DEF Updated

(* Reading a line changes nothing of what will have been read. *)
LEMMA ReadOne ==
    ASSUME wire \in Seq(Lines), Read  PROVE AllRead' = AllRead
PROOF
<1>1. [count |-> count', label |-> label']
        = Updated([count |-> count, label |-> label], Head(wire))
  BY DEF Read, Updated
<1>2. wire # <<>> /\ wire' = Tail(wire)  BY DEF Read
<1> QED BY <1>1, <1>2, FoldHead DEF AllRead

(* ... and neither does a step that leaves wire and counters alone. *)
LEMMA ReadSame ==
    ASSUME UNCHANGED <<wire, count, label>>  PROVE AllRead' = AllRead
BY DEF AllRead

------------------------------------------------------------------------------
(* The order of the lines, and what may be done to the wire.  The order    *)
(* kept is at least the order promised.                                    *)
LEMMA OrderImplied == InOrder => EventsInOrder
BY DEF InOrder, Orderly, Alternate, NoneOfOld, EventsInOrder, Of, Announces, Tells, Announced

(* A line is about one zone, and either announces it or tells of a walker. *)
LEMMA LineFacts ==
    ASSUME NEW line
    PROVE  /\ \A p, y : Tells(line, p, y) => ~Announced(line) /\ line.zone = y /\ line.who = p
           /\ \A y : About(line, y) => line.zone = y
           /\ \A p \in Walkers : \A y : Tells(line, p, y) => About(line, y)
           /\ \A y : Announced(line) /\ line.zone = y => About(line, y)
BY DEF Tells, Announced, About

(* While Me is elsewhere, who comes and goes is of no account. *)
LEMMA OrderAside ==
    ASSUME NEW w, NEW z, NEW room, NEW after, NEW shifting, Orderly(w, z, room, shifting),
           Me \in room => after = room
    PROVE  Orderly(w, z, after, shifting)
BY DEF Orderly, LatestTrue

(* One line more, that tells nothing of the room. *)
LEMMA OrderOther ==
    ASSUME NEW w \in Seq(Lines), NEW z, NEW room, NEW shifting, Orderly(w, z, room, shifting),
           NEW line \in Lines,
           line.type \notin {"enter", "leave", "chat", "moved", "respawn"}
    PROVE  Orderly(Append(w, line), z, room, shifting)
PROOF
<1> DEFINE v == Append(w, line)
           n == Len(w)
<1>1. /\ n \in Nat /\ Len(v) = n + 1 /\ \A i \in 1..n : v[i] = w[i]
      /\ v[n + 1] = line
  OBVIOUS
<1>2. ~Announced(line) /\ \A p, y : ~Tells(line, p, y)  BY DEF Announced, Tells
<1>3. \A y : ~About(line, y)  BY <1>2 DEF About
<1> HIDE DEF v
<1>4. LatestTrue(v, z, room)
  <2> SUFFICES ASSUME NEW i \in 1..Len(v), NEW p \in Walkers, Latest(v, i, p, z)
               PROVE  Me \in room /\ (v[i].type = "leave" <=> p \notin room)
    BY DEF LatestTrue
  <2>1. i \in 1..n /\ v[i] = w[i]  BY <1>1, <1>2 DEF Latest
  <2>2. Latest(w, i, p, z)  BY <1>1, <2>1 DEF Latest
  <2> QED BY <2>1, <2>2 DEF Orderly, LatestTrue
<1>5. ~shifting => OthersBefore(v, z)
  <2> SUFFICES ASSUME ~shifting, NEW i \in 1..Len(v), NEW y \in Zones \ {z}, About(v[i], y)
               PROVE  \E k \in (i + 1)..Len(v) : Announced(v[k]) /\ v[k].zone = z
    BY DEF OthersBefore
  <2>1. i \in 1..n /\ v[i] = w[i]  BY <1>1, <1>3
  <2>2. PICK k \in (i + 1)..n : Announced(w[k]) /\ w[k].zone = z
    BY <2>1 DEF Orderly, OthersBefore
  <2> QED BY <1>1, <2>1, <2>2
<1>6. Alternate(v)
  <2> SUFFICES ASSUME NEW i \in 1..Len(v), NEW j \in 1..Len(v), NEW p \in Walkers, NEW y \in Zones,
                      i < j, Tells(v[i], p, y), Tells(v[j], p, y),
                      \A k \in (i + 1)..(j - 1) : ~Tells(v[k], p, y) /\ ~Announced(v[k])
               PROVE  v[j].type = "enter" <=> v[i].type = "leave"
    BY DEF Alternate
  <2>1. i \in 1..n /\ j \in 1..n  BY <1>1, <1>2
  <2>2. v[i] = w[i] /\ v[j] = w[j] /\ \A k \in (i + 1)..(j - 1) : v[k] = w[k]
    BY <1>1, <2>1
  <2>3. \A k \in (i + 1)..(j - 1) : ~Tells(w[k], p, y) /\ ~Announced(w[k])
    BY <2>2
  <2>4. Alternate(w)  BY DEF Orderly
  <2> QED BY <1>1, <2>1, <2>2, <2>3, <2>4 DEF Alternate
<1>7. NoneOfOld(v, z)
  <2> SUFFICES ASSUME NEW i \in 1..Len(v), NEW j \in 1..Len(v), NEW p \in Walkers, NEW y \in Zones,
                      i < j, Announced(v[i]), v[i].zone # y, Tells(v[j], p, y)
               PROVE  y = z \/ \E k \in (i + 1)..Len(v) : Announced(v[k]) /\ v[k].zone = y
    BY DEF NoneOfOld
  <2>1. i \in 1..n /\ j \in 1..n  BY <1>1, <1>2
  <2> QED BY <1>1, <2>1 DEF Orderly, NoneOfOld
<1> QED BY <1>4, <1>5, <1>6, <1>7 DEF v, Orderly

(* One line more, of a walker p that comes to the room, leaves it or       *)
(* speaks in it, while Me is there.                                        *)
Happens(line, p, room, after) ==
    \/ line.type = "enter" /\ p \notin room /\ after = room \cup {p}
    \/ line.type = "leave" /\ p \in room /\ after = room \ {p}
    \/ line.type = "chat" /\ p \in room /\ after = room

LEMMA OrderTold ==
    ASSUME NEW w \in Seq(Lines), NEW z \in Zones, NEW room, NEW after, NEW shifting,
           Orderly(w, z, room, shifting),
           NEW line \in Lines, NEW p \in Walkers, Tells(line, p, z),
           Happens(line, p, room, after), Me \in room
    PROVE  Orderly(Append(w, line), z, after, shifting)
PROOF
<1> DEFINE v == Append(w, line)
           n == Len(w)
<1>1. /\ n \in Nat /\ Len(v) = n + 1 /\ \A i \in 1..n : v[i] = w[i]
      /\ v[n + 1] = line
  OBVIOUS
<1>2. /\ ~Announced(line)
      /\ \A q, y : Tells(line, q, y) => q = p /\ y = z
      /\ \A y : About(line, y) => y = z
  BY LineFacts
<1>3. Me \in after /\ (line.type = "leave" <=> p \notin after)
      /\ \A q \in Walkers \ {p} : q \in after <=> q \in room
  BY PresenceAssumption DEF Happens
<1> HIDE DEF v
<1>4. LatestTrue(v, z, after)
  <2> SUFFICES ASSUME NEW i \in 1..Len(v), NEW q \in Walkers, Latest(v, i, q, z)
               PROVE  Me \in after /\ (v[i].type = "leave" <=> q \notin after)
    BY DEF LatestTrue
  <2>1. CASE i = n + 1
    <3>1. q = p  BY <1>1, <1>2, <2>1 DEF Latest
    <3> QED BY <1>1, <1>3, <2>1, <3>1
  <2>2. CASE i \in 1..n
    <3>1. n + 1 \in (i + 1)..Len(v)  BY <1>1, <2>2
    <3>2. q # p  BY <1>1, <3>1 DEF Latest
    <3>3. Latest(w, i, q, z)  BY <1>1, <2>2 DEF Latest
    <3>4. v[i].type = "leave" <=> q \notin room
      BY <1>1, <2>2, <3>3 DEF Orderly, LatestTrue
    <3> QED BY <1>3, <3>2, <3>4
  <2> QED BY <1>1, <2>1, <2>2
<1>5. ~shifting => OthersBefore(v, z)
  <2> SUFFICES ASSUME ~shifting, NEW i \in 1..Len(v), NEW y \in Zones \ {z}, About(v[i], y)
               PROVE  \E k \in (i + 1)..Len(v) : Announced(v[k]) /\ v[k].zone = z
    BY DEF OthersBefore
  <2>1. i \in 1..n /\ v[i] = w[i]  BY <1>1, <1>2
  <2>2. PICK k \in (i + 1)..n : Announced(w[k]) /\ w[k].zone = z
    BY <2>1 DEF Orderly, OthersBefore
  <2> QED BY <1>1, <2>1, <2>2
<1>6. Alternate(v)
  <2> SUFFICES ASSUME NEW i \in 1..Len(v), NEW j \in 1..Len(v), NEW q \in Walkers, NEW y \in Zones,
                      i < j, Tells(v[i], q, y), Tells(v[j], q, y),
                      \A k \in (i + 1)..(j - 1) : ~Tells(v[k], q, y) /\ ~Announced(v[k])
               PROVE  v[j].type = "enter" <=> v[i].type = "leave"
    BY DEF Alternate
  <2>1. i \in 1..n /\ v[i] = w[i]  BY <1>1
  <2>2. CASE j \in 1..n
    BY <1>1, <2>1, <2>2 DEF Orderly, Alternate
  <2>3. CASE j = n + 1
    <3>1. q = p /\ y = z /\ v[j] = line  BY <1>1, <1>2, <2>3
    <3>2. Latest(w, i, p, z)  BY <1>1, <2>1, <2>3, <3>1 DEF Latest
    <3>3. w[i].type = "leave" <=> p \notin room
      BY <2>1, <3>2 DEF Orderly, LatestTrue
    <3> QED BY <2>1, <3>1, <3>3 DEF Happens
  <2> QED BY <1>1, <2>2, <2>3
<1>7. NoneOfOld(v, z)
  <2> SUFFICES ASSUME NEW i \in 1..Len(v), NEW j \in 1..Len(v), NEW q \in Walkers, NEW y \in Zones,
                      i < j, Announced(v[i]), v[i].zone # y, Tells(v[j], q, y)
               PROVE  y = z \/ \E k \in (i + 1)..Len(v) : Announced(v[k]) /\ v[k].zone = y
    BY DEF NoneOfOld
  <2>1. CASE j \in 1..n
    <3>1. i \in 1..n  BY <1>1, <2>1
    <3> QED BY <1>1, <2>1, <3>1 DEF Orderly, NoneOfOld
  <2>2. CASE j = n + 1
    BY <1>1, <1>2, <2>2
  <2> QED BY <1>1, <2>1, <2>2
<1> QED BY <1>4, <1>5, <1>6, <1>7 DEF v, Orderly

(* The announcement of the zone that Me has shifted to.                    *)
LEMMA OrderAnnounced ==
    ASSUME NEW w \in Seq(Lines), NEW z \in Zones, NEW room, NEW shifting,
           Orderly(w, z, room, shifting),
           NEW line \in Lines, Announced(line), line.zone = z
    PROVE  Orderly(Append(w, line), z, room, FALSE)
PROOF
<1> DEFINE v == Append(w, line)
           n == Len(w)
<1>1. /\ n \in Nat /\ Len(v) = n + 1 /\ \A i \in 1..n : v[i] = w[i]
      /\ v[n + 1] = line
  OBVIOUS
<1>2. \A q, y : ~Tells(line, q, y)  BY LineFacts
<1>3. \A y : About(line, y) => y = z  BY LineFacts
<1> HIDE DEF v
<1>4. LatestTrue(v, z, room)
  <2> SUFFICES ASSUME NEW i \in 1..Len(v), NEW q \in Walkers, Latest(v, i, q, z)
               PROVE  FALSE
    BY DEF LatestTrue
  <2>1. CASE i = n + 1
    BY <1>1, <1>2, <2>1 DEF Latest
  <2>2. CASE i \in 1..n
    <3>1. n + 1 \in (i + 1)..Len(v)  BY <1>1, <2>2
    <3> QED BY <1>1, <3>1 DEF Latest
  <2> QED BY <1>1, <2>1, <2>2
<1>5. OthersBefore(v, z)
  <2> SUFFICES ASSUME NEW i \in 1..Len(v), NEW y \in Zones \ {z}, About(v[i], y)
               PROVE  \E k \in (i + 1)..Len(v) : Announced(v[k]) /\ v[k].zone = z
    BY DEF OthersBefore
  <2>1. i \in 1..n  BY <1>1, <1>3
  <2>2. n + 1 \in (i + 1)..Len(v)  BY <1>1, <2>1
  <2> QED BY <1>1, <2>2
<1>6. Alternate(v)
  <2> SUFFICES ASSUME NEW i \in 1..Len(v), NEW j \in 1..Len(v), NEW p \in Walkers, NEW y \in Zones,
                      i < j, Tells(v[i], p, y), Tells(v[j], p, y),
                      \A k \in (i + 1)..(j - 1) : ~Tells(v[k], p, y) /\ ~Announced(v[k])
               PROVE  v[j].type = "enter" <=> v[i].type = "leave"
    BY DEF Alternate
  <2>1. i \in 1..n /\ j \in 1..n  BY <1>1, <1>2
  <2>2. v[i] = w[i] /\ v[j] = w[j] /\ \A k \in (i + 1)..(j - 1) : v[k] = w[k]
    BY <1>1, <2>1
  <2>3. \A k \in (i + 1)..(j - 1) : ~Tells(w[k], p, y) /\ ~Announced(w[k])
    BY <2>2
  <2>4. Alternate(w)  BY DEF Orderly
  <2> QED BY <1>1, <2>1, <2>2, <2>3, <2>4 DEF Alternate
<1>7. NoneOfOld(v, z)
  <2> SUFFICES ASSUME NEW i \in 1..Len(v), NEW j \in 1..Len(v), NEW p \in Walkers, NEW y \in Zones,
                      i < j, Announced(v[i]), v[i].zone # y, Tells(v[j], p, y)
               PROVE  y = z \/ \E k \in (i + 1)..Len(v) : Announced(v[k]) /\ v[k].zone = y
    BY DEF NoneOfOld
  <2>1. i \in 1..n /\ j \in 1..n  BY <1>1, <1>2
  <2> QED BY <1>1, <2>1 DEF Orderly, NoneOfOld
<1> QED BY <1>4, <1>5, <1>6, <1>7 DEF v, Orderly

(* Me leaves zone z for another one, y, that it is not in yet.             *)
LEMMA OrderShift ==
    ASSUME NEW w \in Seq(Lines), NEW z \in Zones, NEW room, Orderly(w, z, room, FALSE),
           NEW y \in Zones \ {z}, NEW after
    PROVE  Orderly(w, y, after, TRUE)
PROOF
<1>1. OthersBefore(w, z)  BY DEF Orderly
<1>2. LatestTrue(w, y, after)
  <2> SUFFICES ASSUME NEW i \in 1..Len(w), NEW p \in Walkers, Latest(w, i, p, y)
               PROVE  FALSE
    BY DEF LatestTrue
  <2>1. About(w[i], y)  BY LineFacts DEF Latest
  <2>2. \E k \in (i + 1)..Len(w) : Announced(w[k])  BY <1>1, <2>1 DEF OthersBefore
  <2> QED BY <2>2 DEF Latest
<1>3. NoneOfOld(w, y)
  <2> SUFFICES ASSUME NEW i \in 1..Len(w), NEW j \in 1..Len(w), NEW p \in Walkers, NEW x \in Zones,
                      i < j, Announced(w[i]), w[i].zone # x, Tells(w[j], p, x)
               PROVE  \E k \in (i + 1)..Len(w) : Announced(w[k]) /\ w[k].zone = x
    BY DEF NoneOfOld
  <2>1. CASE x # z
    BY <2>1 DEF Orderly, NoneOfOld
  <2>2. CASE x = z
    <3>1. w[i].zone \in Zones
      <4>1. w[i] \in Lines  OBVIOUS
      <4> QED BY <4>1 DEF Announced, Lines, Replies, Shifts, LookReplies, WhoReplies, Events, Numbers
    <3>2. About(w[i], w[i].zone) /\ w[i].zone \in Zones \ {z}  BY <2>2, <3>1, LineFacts
    <3> QED BY <1>1, <2>2, <3>2 DEF OthersBefore
  <2> QED BY <2>1, <2>2
<1> QED BY <1>2, <1>3 DEF Orderly

(* The GUI takes the first line from the wire.                             *)
LEMMA OrderHeard ==
    ASSUME NEW w \in Seq(Lines), w # <<>>, NEW z, NEW room, NEW shifting,
           Orderly(w, z, room, shifting)
    PROVE  Orderly(Tail(w), z, room, shifting)
PROOF
<1> DEFINE v == Tail(w)
           n == Len(v)
<1>1. n \in Nat /\ Len(w) = n + 1 /\ \A i \in 1..n : v[i] = w[i + 1]  OBVIOUS
<1> HIDE DEF v
<1>4. LatestTrue(v, z, room)
  <2> SUFFICES ASSUME NEW i \in 1..n, NEW q \in Walkers, Latest(v, i, q, z)
               PROVE  Me \in room /\ (v[i].type = "leave" <=> q \notin room)
    BY DEF LatestTrue
  <2>1. i + 1 \in 1..Len(w) /\ v[i] = w[i + 1]  BY <1>1
  <2>2. ASSUME NEW k \in ((i + 1) + 1)..Len(w)  PROVE ~Tells(w[k], q, z) /\ ~Announced(w[k])
    <3>1. k - 1 \in (i + 1)..n /\ v[k - 1] = w[k]  BY <1>1
    <3> QED BY <3>1 DEF Latest
  <2>3. Latest(w, i + 1, q, z)  BY <2>1, <2>2 DEF Latest
  <2> QED BY <2>1, <2>3 DEF Orderly, LatestTrue
<1>5. ~shifting => OthersBefore(v, z)
  <2> SUFFICES ASSUME ~shifting, NEW i \in 1..n, NEW y \in Zones \ {z}, About(v[i], y)
               PROVE  \E k \in (i + 1)..n : Announced(v[k]) /\ v[k].zone = z
    BY DEF OthersBefore
  <2>1. i + 1 \in 1..Len(w) /\ v[i] = w[i + 1]  BY <1>1
  <2>2. PICK k \in ((i + 1) + 1)..Len(w) : Announced(w[k]) /\ w[k].zone = z
    BY <2>1 DEF Orderly, OthersBefore
  <2>3. k - 1 \in (i + 1)..n /\ v[k - 1] = w[k]  BY <1>1
  <2> QED BY <2>2, <2>3
<1>6. Alternate(v)
  <2> SUFFICES ASSUME NEW i \in 1..n, NEW j \in 1..n, NEW q \in Walkers, NEW y \in Zones,
                      i < j, Tells(v[i], q, y), Tells(v[j], q, y),
                      \A k \in (i + 1)..(j - 1) : ~Tells(v[k], q, y) /\ ~Announced(v[k])
               PROVE  v[j].type = "enter" <=> v[i].type = "leave"
    BY DEF Alternate
  <2>1. /\ i + 1 \in 1..Len(w) /\ v[i] = w[i + 1]
        /\ j + 1 \in 1..Len(w) /\ v[j] = w[j + 1] /\ i + 1 < j + 1
    BY <1>1
  <2>2. ASSUME NEW k \in ((i + 1) + 1)..((j + 1) - 1)
        PROVE  ~Tells(w[k], q, y) /\ ~Announced(w[k])
    <3>1. k - 1 \in (i + 1)..(j - 1) /\ v[k - 1] = w[k]  BY <1>1
    <3> QED BY <3>1
  <2> QED BY <2>1, <2>2 DEF Orderly, Alternate
<1>7. NoneOfOld(v, z)
  <2> SUFFICES ASSUME NEW i \in 1..n, NEW j \in 1..n, NEW q \in Walkers, NEW y \in Zones,
                      i < j, Announced(v[i]), v[i].zone # y, Tells(v[j], q, y), y # z
               PROVE  \E k \in (i + 1)..n : Announced(v[k]) /\ v[k].zone = y
    BY DEF NoneOfOld
  <2>1. /\ i + 1 \in 1..Len(w) /\ v[i] = w[i + 1]
        /\ j + 1 \in 1..Len(w) /\ v[j] = w[j + 1] /\ i + 1 < j + 1
    BY <1>1
  <2>2. PICK k \in ((i + 1) + 1)..Len(w) : Announced(w[k]) /\ w[k].zone = y
    BY <2>1 DEF Orderly, NoneOfOld
  <2>3. k - 1 \in (i + 1)..n /\ v[k - 1] = w[k]  BY <1>1
  <2> QED BY <2>2, <2>3
<1> QED BY <1>4, <1>5, <1>6, <1>7 DEF v, Orderly

(* Before Me is in the game nothing is on the wire.                        *)
LEMMA OrderEmpty ==
    ASSUME NEW z, NEW room, NEW shifting
    PROVE  Orderly(<<>>, z, room, shifting)
PROOF
<1>1. Len(<<>>) = 0 /\ 1..0 = {}  OBVIOUS
<1> QED BY <1>1 DEF Orderly, LatestTrue, OthersBefore, Alternate, NoneOfOld

------------------------------------------------------------------------------
(* Steps of the walkers.  Me is in its own room, and in no other. *)
LEMMA MyRoom ==
    ASSUME Shapes, InPlace
    PROVE  /\ Me \in Players /\ loc[Me] \in Zones /\ inZone[loc[Me]] \in SUBSET Players
           /\ Me \in inZone[loc[Me]] <=> pc[Me] \notin {"off", "login", "limbo", "gone"}
           /\ Me \in online <=> pc[Me] # "off"
           /\ \A z \in Zones : Me \in inZone[z] => z = loc[Me]
           /\ None \notin Players
PROOF
<1>1. Me \in Players /\ None \notin Players  BY PresenceAssumption DEF Players
<1> QED BY <1>1 DEF Shapes, InPlace

(* What Me is told of a walker p in zone z, and what a reply under way     *)
(* then misses.                                                            *)
Told(z, p, line, n) ==
    /\ SameReply
    /\ Me \in inZone[z] =>
         /\ Added(line)
         /\ Answering("look") => /\ Answering("look")'
                                 /\ reply'.players = reply.players
                                 /\ reply'.late = reply.late + n
         /\ ~Answering("look") => reply' = reply
    /\ Me \notin inZone[z] => wire' = wire /\ reply' = reply

(* n is what the line adds to the counter of the GUI.                      *)
Adds(line, n) ==
    n = CASE line.type = "enter" -> 1 [] line.type = "leave" -> -1 [] OTHER -> 0

(* Telling Me of a walker preserves what the invariant says of the lines,  *)
(* the counters and the replies.                                           *)
LEMMA ToldKeeps ==
    ASSUME PresenceInv, NEW z \in Zones, NEW p \in Walkers, NEW n \in Int,
           NEW line \in Events, Tells(line, p, z), Adds(line, n),
           Told(z, p, line, n),
           NEW after, Happens(line, p, inZone[z], after),
           inZone' = [inZone EXCEPT ![z] = after],
           loc'[Me] = loc[Me], pc'[Me] = pc[Me], UNCHANGED <<count, label>>,
           UNCHANGED <<online, onlineMu, historyVars>>
    PROVE  RoomCounted' /\ OnlineCounted' /\ WhoBound' /\ InOrder'
PROOF
<1> DEFINE my == loc[Me]
           room == inZone[my]
<1>1. /\ my \in Zones /\ room \in SUBSET Players
      /\ Me \in inZone[z] => z = my
      /\ Me \in room <=> pc[Me] \notin {"off", "login", "limbo", "gone"}
  BY MyRoom DEF PresenceInv
<1>2. line \in Lines /\ line.type \in {"enter", "leave", "chat"}
  BY LineTypes DEF Events
<1>3. wire \in Seq(Lines) /\ reply \in Replies \cup {None} /\ inZone \in [Zones -> SUBSET Players]
  BY DEF PresenceInv, Shapes
<1>4. reply' \in Replies \cup {None} /\ (Shifting' <=> Shifting)
      /\ (reply # None => reply' # None /\ reply'.type = reply.type)
      /\ (reply = None => reply' = None)
  BY DEF Told, SameReply
<1>4a. /\ Answering("look")' <=> Answering("look")
       /\ Answering("who")' <=> Answering("who")
  BY <1>4 DEF Answering
<1>5. CASE Me \in inZone[z]
  <2>1. z = my /\ Me \in room /\ Added(line) /\ inZone'[loc'[Me]] = after
    BY <1>1, <1>3, <1>5 DEF Told
  <2>2. /\ drift # None => AllRead'.count = AllRead.count + n
        /\ AllRead'.label = AllRead.label
        /\ Cardinality(after) = Cardinality(room) + n
    <3>1. AllRead'.count = Counted(AllRead.count, line) /\ AllRead'.label = Labelled(AllRead.label, line)
      BY <1>2, <1>3, <2>1, ReadAdded
    <3>2. /\ Cardinality(room) \in Nat
          /\ p \notin room => Cardinality(room \cup {p}) = Cardinality(room) + 1
          /\ p \in room => Cardinality(room \ {p}) = Cardinality(room) - 1
      BY <1>1, Counting
    <3>3. drift # None => AllRead.count \in Int
      BY <3>2 DEF PresenceInv, RoomCounted
    <3>4. CASE line.type = "enter"
      BY <2>1, <3>1, <3>2, <3>4 DEF Adds, Happens, Counted, Labelled
    <3>5. CASE line.type = "leave"
      BY <2>1, <3>1, <3>2, <3>3, <3>5 DEF Adds, Happens, Counted, Labelled
    <3>6. CASE line.type = "chat"
      BY <2>1, <3>1, <3>2, <3>3, <3>6 DEF Adds, Happens, Counted, Labelled
    <3> QED BY <1>2, <3>4, <3>5, <3>6
  <2>3. RoomCounted'
    <3>1. drift' = drift  BY DEF historyVars
    <3>2. drift # None => drift \in Int /\ pc'[Me] \in Served  BY DEF PresenceInv, RoomCounted
    <3>3. drift # None => AllRead'.count = Cardinality(after) - drift
      <4>1. Cardinality(room) \in Nat  BY <1>1, Counting
      <4>2. drift # None => AllRead.count = Cardinality(room) - drift
        BY DEF PresenceInv, RoomCounted
      <4> QED BY <2>2, <3>2, <4>1, <4>2
    <3>4. ASSUME Answering("look")'
          PROVE  /\ pc'[Me] = "answer"
                 /\ Cardinality(after) = Cardinality(reply'.players) + reply'.late
      <4>1. Answering("look") /\ reply \in LookReplies  BY <1>3, <1>4a, <3>4, ReplyKinds
      <4>2. reply.late \in Int /\ reply.players \in SUBSET Players  BY <4>1 DEF LookReplies
      <4>3. reply'.players = reply.players /\ reply'.late = reply.late + n
        BY <1>5, <4>1 DEF Told
      <4>4. pc[Me] = "answer" /\ Cardinality(room) = Cardinality(reply.players) + reply.late
        BY <4>1 DEF PresenceInv, RoomCounted
      <4>5. Cardinality(room) \in Nat /\ Cardinality(reply.players) \in Nat
        BY <1>1, <4>2, Counting
      <4> QED BY <2>2, <4>2, <4>3, <4>4, <4>5
    <3> QED BY <2>1, <3>1, <3>2, <3>3, <3>4 DEF RoomCounted
  <2>4. /\ reply' # None => reply' = reply \/ Answering("look")
        /\ Answering("who")' => reply' = reply /\ Answering("who")
    <3>1. ~(Answering("look") /\ Answering("who"))  BY <1>3, ReplyKinds
    <3> QED BY <1>4a, <1>5, <3>1 DEF Told
  <2>5. OnlineCounted'
    BY <2>2, <2>4 DEF PresenceInv, OnlineCounted, historyVars
  <2>6. WhoBound'
    BY <2>4 DEF PresenceInv, WhoBound
  <2>7. InOrder'
    <3>1. Orderly(wire, my, room, Shifting)  BY DEF PresenceInv, InOrder
    <3>2. Orderly(Append(wire, line), my, after, Shifting)
      BY <1>1, <1>2, <1>3, <2>1, <3>1, OrderTold
    <3>3. wire' = Append(wire, line)  BY <2>1 DEF Added
    <3> QED BY <1>4, <2>1, <3>2, <3>3 DEF InOrder, Orderly
  <2> QED BY <2>3, <2>5, <2>6, <2>7
<1>6. CASE Me \notin inZone[z]
  <2>1. wire' = wire /\ reply' = reply /\ AllRead' = AllRead
    BY <1>6, ReadSame DEF Told
  <2>2. Me \in room => inZone'[loc'[Me]] = room
    BY <1>1, <1>3, <1>6
  <2>3. RoomCounted'
    BY <1>1, <1>4a, <2>1, <2>2 DEF PresenceInv, RoomCounted, historyVars, Served
  <2>4. OnlineCounted'
    BY <1>4a, <2>1 DEF PresenceInv, OnlineCounted, historyVars
  <2>5. WhoBound'
    BY <1>4a, <2>1 DEF PresenceInv, WhoBound
  <2>6. InOrder'
    <3>1. Orderly(wire, my, inZone'[loc'[Me]], Shifting)
      BY <2>2, OrderAside DEF PresenceInv, InOrder
    <3> QED BY <1>4, <2>1, <3>1 DEF InOrder, Orderly
  <2> QED BY <2>3, <2>4, <2>5, <2>6
<1> QED BY <1>5, <1>6

(* What a step of a walker leaves of Me's place, and what it may write.    *)
LEMMA WalkerPlace ==
    ASSUME PresenceInv, NEW p \in Walkers, NEW l \in PC \ {"login"},
           Goto(p, l), SameReply, wire' = wire \/ pc[Me] # "off",
           l = "entered" => pc[p] = "login",
           \A q \in Players \ {p} : loc'[q] = loc[q],
           onlineMu' = onlineMu \/ (onlineMu' = None /\ onlineMu \in {p, None} /\ l # "entered")
    PROVE  /\ MyPlace' /\ pc'[Me] = pc[Me] /\ loc'[Me] = loc[Me]
           /\ pc' \in [Players -> PC]
           /\ \A q \in Players : pc'[q] = IF q = p THEN l ELSE pc[q]
PROOF
<1>1. p # Me /\ p \in Players /\ Me \in Players /\ None \notin Players
  BY PresenceAssumption DEF Players
<1>2. pc' = [pc EXCEPT ![p] = l] /\ pc \in [Players -> PC]
  BY DEF Goto, PresenceInv, Shapes
<1>3. pc' \in [Players -> PC] /\ pc'[Me] = pc[Me] /\ loc'[Me] = loc[Me]
      /\ \A q \in Players : pc'[q] = IF q = p THEN l ELSE pc[q]
  BY <1>1, <1>2
<1>4. /\ (reply' # None <=> reply # None) /\ (Shifting' <=> Shifting)
      /\ Shifting => reply' = reply
      /\ Answering("who") => Answering("who")'
  BY DEF SameReply, Answering
<1>5. MyPlace  BY DEF PresenceInv
<1>6. ASSUME NEW q \in Players
      PROVE  /\ pc'[q] \in {"login", "entered"} => onlineMu' = q
             /\ pc'[q] = "login" => loc'[q] = StartZone
  <2>1. /\ pc[q] \in {"login", "entered"} => onlineMu = q
        /\ pc[q] = "login" => loc[q] = StartZone
    BY <1>5 DEF MyPlace
  <2>2. CASE q = p
    BY <1>1, <1>3, <1>5, <2>1, <2>2 DEF MyPlace
  <2>3. CASE q # p
    BY <1>1, <1>3, <2>1, <2>3
  <2> QED BY <2>2, <2>3
<1> QED BY <1>3, <1>4, <1>5, <1>6 DEF MyPlace

(* A walker comes to zone z.                                               *)
LEMMA EnterKeeps ==
    ASSUME PresenceInv, NEW p \in Walkers, UNCHANGED <<cmds, guiVars>>,
           ConnectEnter(p) \/ ShiftEnter(p)
    PROVE  PresenceInv'
PROOF
<1>0. Shapes /\ InPlace /\ MyPlace  BY DEF PresenceInv
<1>1. p # Me /\ p \in Players /\ Me \in Players /\ {StartZone, RespawnZone} \subseteq Zones
  BY PresenceAssumption DEF Players
<1>2. PICK z \in Zones, l \in {"entered", "in"} :
        /\ pc[p] = IF l = "entered" THEN "login" ELSE "limbo"
        /\ loc[p] = z
        /\ Tell(z, p, Enters(p, z), 1)
        /\ inZone' = [inZone EXCEPT ![z] = @ \cup {p}]
        /\ Goto(p, l)
        /\ UNCHANGED <<loc, online, onlineMu, historyVars>>
  <2>1. CASE ConnectEnter(p)
    <3>1. pc[p] = "login" /\ loc[p] = StartZone
      BY <1>0, <1>1, <2>1 DEF ConnectEnter, MyPlace
    <3>2. StartZone \in Zones /\ "entered" \in {"entered", "in"}  BY <1>1
    <3> QED BY <2>1, <3>1, <3>2 DEF ConnectEnter
  <2>2. CASE ShiftEnter(p)
    <3>1. loc[p] \in Zones /\ "in" \in {"entered", "in"}  BY <1>0, <1>1 DEF Shapes
    <3> QED BY <1>1, <2>2, <3>1 DEF ShiftEnter, ShiftEnterTold
  <2> QED BY <2>1, <2>2
<1>3. /\ Enters(p, z) \in Events /\ Enters(p, z) \in Lines
      /\ Tells(Enters(p, z), p, z) /\ Enters(p, z).type = "enter"
  BY LineTypes DEF Enters, Tells
<1>4. Told(z, p, Enters(p, z), 1)
  BY <1>0, <1>1, <1>2, <1>3, Telling DEF Told
<1>5. /\ inZone \in [Zones -> SUBSET Players] /\ inZone' \in [Zones -> SUBSET Players]
      /\ \A y \in Zones : inZone'[y] = IF y = z THEN inZone[y] \cup {p} ELSE inZone[y]
      /\ p \notin inZone[z]
  <2>1. inZone \in [Zones -> SUBSET Players]  BY <1>0 DEF Shapes
  <2>2. pc[p] \in {"login", "limbo"}  BY <1>2
  <2>3. p \notin inZone[z]  BY <1>0, <1>1, <2>2 DEF InPlace
  <2> QED BY <1>1, <1>2, <2>1, <2>3
<1>6. wire' = wire \/ pc[Me] # "off"
  BY <1>0, <1>2, <1>4, MyRoom DEF Told
<1>7. MyPlace' /\ pc'[Me] = pc[Me] /\ loc'[Me] = loc[Me] /\ pc' \in [Players -> PC]
      /\ \A q \in Players : pc'[q] = IF q = p THEN l ELSE pc[q]
  <2>1. SameReply /\ l \in PC \ {"login"}  BY <1>4 DEF Told, PC
  <2> QED BY <1>2, <1>6, <2>1, WalkerPlace
<1>8. Shapes'
  <2>1. reply' \in Replies \cup {None} /\ wire' \in Seq(Lines) /\ Len(wire') <= MaxWire
    BY <1>0, <1>4 DEF Told, SameReply, Added, Shapes
  <2> QED BY <1>0, <1>2, <1>5, <1>7, <2>1 DEF Shapes, guiVars, historyVars
<1>9. InPlace'
  <2>1. onlineMu' = onlineMu /\ online' = online /\ loc' = loc  BY <1>2
  <2>2. ASSUME NEW q \in Players
        PROVE  /\ q \in online' <=> pc'[q] # "off"
               /\ \A y \in Zones :
                    q \in inZone'[y] <=> loc'[q] = y /\ pc'[q] \notin {"off", "login", "limbo", "gone"}
    BY <1>0, <1>1, <1>2, <1>5, <1>7, <2>1 DEF InPlace
  <2>3. onlineMu' # None => pc'[onlineMu'] \in {"login", "entered"}
    <3>1. onlineMu \in Players \cup {None}  BY <1>0 DEF Shapes
    <3>2. l = "in" => pc[p] = "limbo"  BY <1>2
    <3> QED BY <1>0, <1>7, <2>1, <3>1, <3>2 DEF InPlace
  <2> QED BY <2>2, <2>3 DEF InPlace
<1>10. RoomCounted' /\ OnlineCounted' /\ WhoBound' /\ InOrder'
  <2>1. Adds(Enters(p, z), 1)  BY <1>3 DEF Adds
  <2>2. Happens(Enters(p, z), p, inZone[z], inZone[z] \cup {p})
    BY <1>3, <1>5 DEF Happens
  <2>3. inZone' = [inZone EXCEPT ![z] = inZone[z] \cup {p}]  BY <1>2
  <2>4. 1 \in Int  OBVIOUS
  <2>5. UNCHANGED <<count, label, online, onlineMu, historyVars>>  BY <1>2 DEF guiVars
  <2> QED BY <1>3, <1>4, <1>7, <2>1, <2>2, <2>3, <2>4, <2>5, ToldKeeps
<1> QED BY <1>7, <1>8, <1>9, <1>10 DEF PresenceInv

(* A walker leaves its zone, for another one or for good.                  *)
LEMMA LeaveKeeps ==
    ASSUME PresenceInv, NEW p \in Walkers, UNCHANGED <<cmds, guiVars>>,
           \/ CleanupZone(p)
           \/ \E to \in Zones : pc[p] = "in" /\ ShiftLeave(p, to) /\ UNCHANGED historyVars
    PROVE  PresenceInv'
PROOF
<1>0. Shapes /\ InPlace /\ MyPlace  BY DEF PresenceInv
<1>1. p # Me /\ p \in Players /\ Me \in Players
  BY PresenceAssumption DEF Players
<1> DEFINE z == loc[p]
<1>2. PICK l \in {"gone", "limbo"} :
        /\ pc[p] = "in"
        /\ Tell(z, p, Leaves(p, z), -1)
        /\ inZone' = [inZone EXCEPT ![z] = @ \ {p}]
        /\ Goto(p, l)
        /\ loc' = loc \/ \E to \in Zones : loc' = [loc EXCEPT ![p] = to]
        /\ UNCHANGED <<online, onlineMu, historyVars>>
  <2>1. CASE CleanupZone(p)
    <3>1. "gone" \in {"gone", "limbo"}  OBVIOUS
    <3> QED BY <2>1, <3>1 DEF CleanupZone
  <2>2. CASE \E to \in Zones : pc[p] = "in" /\ ShiftLeave(p, to) /\ UNCHANGED historyVars
    <3>1. "limbo" \in {"gone", "limbo"}  OBVIOUS
    <3> QED BY <2>2, <3>1 DEF ShiftLeave
  <2> QED BY <2>1, <2>2
<1>2a. /\ loc' \in [Players -> Zones] /\ z \in Zones
       /\ \A q \in Players \ {p} : loc'[q] = loc[q]
  BY <1>0, <1>1, <1>2 DEF Shapes
<1> HIDE DEF z
<1>3. /\ Leaves(p, z) \in Events /\ Leaves(p, z) \in Lines
      /\ Tells(Leaves(p, z), p, z) /\ Leaves(p, z).type = "leave"
  BY <1>2a, LineTypes DEF Leaves, Tells
<1>4. Told(z, p, Leaves(p, z), -1)
  BY <1>0, <1>1, <1>2, <1>2a, <1>3, Telling DEF Told
<1>5. /\ inZone \in [Zones -> SUBSET Players] /\ inZone' \in [Zones -> SUBSET Players]
      /\ \A y \in Zones : inZone'[y] = IF y = z THEN inZone[y] \ {p} ELSE inZone[y]
      /\ \A y \in Zones : p \in inZone[y] <=> y = z
  <2>1. inZone \in [Zones -> SUBSET Players]  BY <1>0 DEF Shapes
  <2>2. inZone' = [inZone EXCEPT ![z] = @ \ {p}]  BY <1>2 DEF z
  <2>3. \A y \in Zones : p \in inZone[y] <=> y = z  BY <1>0, <1>1, <1>2 DEF InPlace, z
  <2> QED BY <1>2a, <2>1, <2>2, <2>3
<1>6. wire' = wire \/ pc[Me] # "off"
  BY <1>0, <1>2a, <1>4, MyRoom DEF Told
<1>7. MyPlace' /\ pc'[Me] = pc[Me] /\ loc'[Me] = loc[Me] /\ pc' \in [Players -> PC]
      /\ \A q \in Players : pc'[q] = IF q = p THEN l ELSE pc[q]
  <2>1. SameReply /\ l \in PC \ {"login"} /\ l # "entered"  BY <1>4 DEF Told, PC
  <2> QED BY <1>2, <1>2a, <1>6, <2>1, WalkerPlace
<1>8. Shapes'
  <2>1. reply' \in Replies \cup {None} /\ wire' \in Seq(Lines) /\ Len(wire') <= MaxWire
    BY <1>0, <1>4 DEF Told, SameReply, Added, Shapes
  <2> QED BY <1>0, <1>2, <1>2a, <1>5, <1>7, <2>1 DEF Shapes, guiVars, historyVars
<1>9. InPlace'
  <2>1. onlineMu' = onlineMu /\ online' = online  BY <1>2
  <2>2. ASSUME NEW q \in Players
        PROVE  /\ q \in online' <=> pc'[q] # "off"
               /\ \A y \in Zones :
                    q \in inZone'[y] <=> loc'[q] = y /\ pc'[q] \notin {"off", "login", "limbo", "gone"}
    BY <1>0, <1>1, <1>2, <1>2a, <1>5, <1>7, <2>1 DEF InPlace
  <2>3. onlineMu' # None => pc'[onlineMu'] \in {"login", "entered"}
    <3>1. onlineMu \in Players \cup {None}  BY <1>0 DEF Shapes
    <3> QED BY <1>0, <1>2, <1>7, <2>1, <3>1 DEF InPlace
  <2> QED BY <2>2, <2>3 DEF InPlace
<1>10. RoomCounted' /\ OnlineCounted' /\ WhoBound' /\ InOrder'
  <2>1. Adds(Leaves(p, z), -1)  BY <1>3 DEF Adds
  <2>2. Happens(Leaves(p, z), p, inZone[z], inZone[z] \ {p})
    BY <1>2a, <1>3, <1>5 DEF Happens
  <2>3. -1 \in Int  OBVIOUS
  <2> QED BY <1>2, <1>2a, <1>3, <1>4, <1>7, <2>1, <2>2, <2>3, ToldKeeps DEF guiVars
<1> QED BY <1>7, <1>8, <1>9, <1>10 DEF PresenceInv

(* A walker speaks in its zone.                                            *)
LEMMA ChatKeeps ==
    ASSUME PresenceInv, NEW p \in Walkers, UNCHANGED <<cmds, guiVars>>, ChatRoom(p)
    PROVE  PresenceInv'
PROOF
<1>0. Shapes /\ InPlace /\ MyPlace  BY DEF PresenceInv
<1>1. p # Me /\ p \in Players /\ Me \in Players
  BY PresenceAssumption DEF Players
<1> DEFINE z == loc[p]
           line == [type |-> "chat", who |-> p, zone |-> z]
<1>2. /\ pc[p] = "in" /\ Me \in inZone[z] /\ Write(line)
      /\ UNCHANGED <<serverVars, historyVars>>
  BY DEF ChatRoom
<1>3. z \in Zones /\ line \in Events /\ line \in Lines /\ line.type = "chat" /\ Tells(line, p, z)
  BY <1>0, <1>1, LineTypes DEF Shapes, Events, Tells
<1>4. p \in inZone[z] /\ pc[Me] # "off"  BY <1>0, <1>1, <1>2, <1>3, MyRoom DEF InPlace
<1> HIDE DEF z, line
<1>5. Added(line)  BY <1>0, <1>2, <1>3, Writing DEF Shapes
<1>6. Told(z, p, line, 0)
  <2>1. reply' = reply /\ reply \in Replies \cup {None}  BY <1>0, <1>2 DEF serverVars, Shapes
  <2>2. Answering("look") => reply.late \in Int
    BY <2>1, ReplyKinds DEF LookReplies
  <2>3. Answering("look")' <=> Answering("look")  BY <2>1 DEF Answering
  <2> QED BY <1>2, <1>5, <2>1, <2>2, <2>3, SameReplyHeld DEF Told
<1>7. RoomCounted' /\ OnlineCounted' /\ WhoBound' /\ InOrder'
  <2>1. Adds(line, 0)  BY <1>3 DEF Adds
  <2>2. Happens(line, p, inZone[z], inZone[z])  BY <1>3, <1>4 DEF Happens
  <2>3. inZone' = [inZone EXCEPT ![z] = inZone[z]]
    BY <1>0, <1>2, <1>3 DEF Shapes, serverVars
  <2>4. 0 \in Int  OBVIOUS
  <2> QED BY <1>2, <1>3, <1>6, <2>1, <2>2, <2>3, <2>4, ToldKeeps DEF guiVars, serverVars
<1>8. Shapes'
  BY <1>0, <1>2, <1>5 DEF Shapes, Added, guiVars, serverVars, historyVars
<1>9. InPlace' /\ MyPlace'
  BY <1>0, <1>2, <1>4 DEF InPlace, MyPlace, serverVars, Shifting, Answering
<1> QED BY <1>7, <1>8, <1>9 DEF PresenceInv

(* A new number of players, S, is written to all of them but p.            *)
LEMMA StatsKeeps ==
    ASSUME PresenceInv, NEW p \in Walkers, Stats(p, online'),
           online' \in SUBSET online, Me \in online => Me \in online',
           onlineMu' = None, pc'[Me] = pc[Me],
           UNCHANGED <<inZone, loc, drift, count, label>>
    PROVE  /\ SameReply /\ stale' \in BOOLEAN
           /\ wire' \in Seq(Lines) /\ Len(wire') <= MaxWire /\ (wire' = wire \/ pc[Me] # "off")
           /\ RoomCounted' /\ OnlineCounted' /\ WhoBound' /\ InOrder'
PROOF
<1>0. Shapes /\ InPlace /\ MyPlace  BY DEF PresenceInv
<1>1. p # Me /\ p \in Players /\ Me \in Players /\ online' \in SUBSET Players
  BY <1>0, PresenceAssumption DEF Players, Shapes
<1> DEFINE line == [type |-> "stats", n |-> Cardinality(online')]
<1>2. line \in Lines /\ line.type = "stats" /\ line.n = Cardinality(online')
  BY <1>1, Counting, LineTypes
<1>3. /\ SameReply /\ stale' \in BOOLEAN
      /\ Me \in online => /\ Added(line) /\ ~stale'
                          /\ Answering("who") => /\ Answering("who")' /\ reply'.stale
                                                 /\ reply'.players = reply.players
                                                 /\ reply'.n = reply.n /\ reply'.since = reply.since
                          /\ ~Answering("who") => reply' = reply
      /\ Me \notin online => wire' = wire /\ reply' = reply /\ stale' = stale
  BY <1>0, <1>1, Announcing
<1> HIDE DEF line
<1>4. wire \in Seq(Lines) /\ Len(wire) <= MaxWire /\ reply \in Replies \cup {None}
      /\ online \in SUBSET Players
  BY <1>0 DEF Shapes
<1>5. /\ wire' \in Seq(Lines) /\ Len(wire') <= MaxWire /\ (wire' = wire \/ pc[Me] # "off")
  BY <1>0, <1>1, <1>3, <1>4 DEF Added, InPlace
<1>6. /\ AllRead'.count = AllRead.count
      /\ Me \in online => AllRead'.label = Cardinality(online')
  <2>1. CASE Me \in online
    <3>1. AllRead'.count = Counted(AllRead.count, line) /\ AllRead'.label = Labelled(AllRead.label, line)
      BY <1>2, <1>3, <1>4, <2>1, ReadAdded
    <3> QED BY <1>2, <3>1 DEF Counted, Labelled
  <2>2. CASE Me \notin online
    BY <1>3, <2>2, ReadSame
  <2> QED BY <2>1, <2>2
<1>7. /\ Answering("look")' <=> Answering("look")
      /\ Answering("who")' <=> Answering("who")
      /\ Shifting' <=> Shifting
      /\ ~(Answering("look") /\ Answering("who"))
  BY <1>3, <1>4, ReplyKinds DEF SameReply, Answering
<1>8. RoomCounted'
  <2>1. Answering("look") => reply' = reply  BY <1>3, <1>7
  <2> QED BY <1>6, <1>7, <2>1 DEF PresenceInv, RoomCounted
<1>9. OnlineCounted'
  <2>1. Answering("who") => Me \in online
    BY <1>0, <1>1 DEF MyPlace, InPlace, Answering
  <2> QED BY <1>1, <1>3, <1>6, <1>7, <2>1 DEF OnlineCounted
<1>10. WhoBound'
  <2> SUFFICES ASSUME Answering("who")
               PROVE  /\ Cardinality(online') <= reply'.n + reply'.since
                      /\ Cardinality(reply'.players) <= reply'.n + reply'.since
    BY <1>7 DEF WhoBound
  <2>1. reply'.n = reply.n /\ reply'.since = reply.since /\ reply'.players = reply.players
    BY <1>3
  <2>2. reply.n \in Nat /\ reply.since \in Nat  BY <1>4, ReplyKinds DEF WhoReplies
  <2>3. Cardinality(online') \in Nat /\ Cardinality(online) \in Nat
        /\ Cardinality(online') <= Cardinality(online)
    BY <1>1, <1>4, Counting
  <2> QED BY <2>1, <2>2, <2>3 DEF PresenceInv, WhoBound
<1>11. InOrder'
  <2>1. Orderly(wire, loc[Me], inZone[loc[Me]], Shifting)  BY DEF PresenceInv, InOrder
  <2>2. Orderly(wire', loc[Me], inZone[loc[Me]], Shifting)
    <3>1. CASE wire' = wire  BY <2>1, <3>1
    <3>2. CASE wire' = Append(wire, line)
      <4>1. line.type \notin {"enter", "leave", "chat", "moved", "respawn"}  BY <1>2
      <4> QED BY <1>2, <1>4, <2>1, <3>2, <4>1, OrderOther
    <3> QED BY <1>3, <3>1, <3>2 DEF Added
  <2> QED BY <1>7, <2>2 DEF InOrder, Orderly
<1> QED BY <1>3, <1>5, <1>8, <1>9, <1>10, <1>11

(* Once in, a walker has its login counted; once gone, its end. *)
LEMMA CountKeeps ==
    ASSUME PresenceInv, NEW p \in Walkers, UNCHANGED <<cmds, guiVars>>,
           ConnectCount(p) \/ GoOffline(p)
    PROVE  PresenceInv'
PROOF
<1>0. Shapes /\ InPlace /\ MyPlace  BY DEF PresenceInv
<1>1. p # Me /\ p \in Players /\ Me \in Players /\ None \notin Players
  BY PresenceAssumption DEF Players
<1>2. PICK l \in {"in", "off"} :
        /\ pc[p] = IF l = "in" THEN "entered" ELSE "gone"
        /\ onlineMu = IF l = "in" THEN p ELSE None
        /\ online' = IF l = "in" THEN online ELSE online \ {p}
        /\ onlineMu' = None /\ Stats(p, online')
        /\ Goto(p, l)
        /\ UNCHANGED <<inZone, loc, drift>>
  <2>1. CASE ConnectCount(p)
    <3>1. onlineMu = p  BY <1>0, <1>1, <2>1 DEF ConnectCount, MyPlace
    <3>2. online' = online /\ Stats(p, online')  BY <2>1 DEF ConnectCount
    <3> QED BY <2>1, <3>1, <3>2 DEF ConnectCount
  <2>2. CASE GoOffline(p)
    BY <2>2 DEF GoOffline
  <2> QED BY <2>1, <2>2
<1>3. /\ online' \in SUBSET online /\ (Me \in online => Me \in online')
      /\ online' \subseteq Players
  BY <1>0, <1>1, <1>2 DEF Shapes
<1>4. UNCHANGED <<count, label, loggedIn, zone>>  BY DEF guiVars
<1>5. pc'[Me] = pc[Me]  BY <1>0, <1>1, <1>2 DEF Goto, Shapes
<1>6. /\ SameReply /\ stale' \in BOOLEAN
      /\ wire' \in Seq(Lines) /\ Len(wire') <= MaxWire /\ (wire' = wire \/ pc[Me] # "off")
      /\ RoomCounted' /\ OnlineCounted' /\ WhoBound' /\ InOrder'
  BY <1>2, <1>3, <1>4, <1>5, StatsKeeps
<1>7. MyPlace' /\ pc' \in [Players -> PC]
      /\ \A q \in Players : pc'[q] = IF q = p THEN l ELSE pc[q]
  <2>1. l \in PC \ {"login"} /\ l # "entered"  BY DEF PC
  <2>2. \A q \in Players \ {p} : loc'[q] = loc[q]  BY <1>2
  <2>3. onlineMu \in {p, None}  BY <1>2
  <2> QED BY <1>2, <1>6, <2>1, <2>2, <2>3, WalkerPlace
<1>8. Shapes'
  BY <1>0, <1>2, <1>3, <1>4, <1>6, <1>7 DEF Shapes, SameReply
<1>9. InPlace'
  <2>1. ASSUME NEW q \in Players
        PROVE  /\ q \in online' <=> pc'[q] # "off"
               /\ \A y \in Zones :
                    q \in inZone'[y] <=> loc'[q] = y /\ pc'[q] \notin {"off", "login", "limbo", "gone"}
    <3>1. CASE q = p
      BY <1>0, <1>1, <1>2, <1>7, <3>1 DEF InPlace
    <3>2. CASE q # p
      BY <1>0, <1>2, <1>7, <3>2 DEF InPlace
    <3> QED BY <3>1, <3>2
  <2> QED BY <1>2, <2>1 DEF InPlace
<1> QED BY <1>6, <1>7, <1>8, <1>9 DEF PresenceInv

(* A walker logs in.                                                       *)
LEMMA ConnectKeeps ==
    ASSUME PresenceInv, NEW p \in Walkers, UNCHANGED <<cmds, guiVars>>, Connect(p)
    PROVE  PresenceInv'
PROOF
<1>0. Shapes /\ InPlace /\ MyPlace  BY DEF PresenceInv
<1>1. p # Me /\ p \in Players /\ Me \in Players /\ None \notin Players /\ StartZone \in Zones
  BY PresenceAssumption DEF Players
<1>2. /\ pc[p] = "off" /\ onlineMu = None /\ onlineMu' = p
      /\ online' = online \cup {p}
      /\ loc' = [loc EXCEPT ![p] = StartZone]
      /\ pc' = [pc EXCEPT ![p] = "login"]
      /\ wire' = wire
      /\ reply' = IF Answering("who") THEN [reply EXCEPT !.since = @ + 1] ELSE reply
      /\ UNCHANGED <<inZone, drift, stale>>
  BY <1>1 DEF Connect, Goto, historyVars
<1>3. UNCHANGED <<count, label, loggedIn, zone>>  BY DEF guiVars
<1>4. /\ pc' \in [Players -> PC] /\ loc' \in [Players -> Zones]
      /\ pc'[Me] = pc[Me] /\ loc'[Me] = loc[Me]
      /\ \A q \in Players : pc'[q] = IF q = p THEN "login" ELSE pc[q]
      /\ \A q \in Players : loc'[q] = IF q = p THEN StartZone ELSE loc[q]
  BY <1>0, <1>1, <1>2 DEF Shapes, PC
<1>5. reply \in Replies \cup {None} /\ online \in SUBSET Players  BY <1>0 DEF Shapes
<1>6. /\ SameReply
      /\ Answering("who") => /\ reply'.players = reply.players /\ reply'.n = reply.n
                             /\ reply'.since = reply.since + 1
      /\ ~Answering("who") => reply' = reply
  <2>1. CASE Answering("who")  BY <1>2, <1>5, <2>1, OlderReply
  <2>2. CASE ~Answering("who")  BY <1>2, <1>5, <2>2, SameReplyHeld
  <2> QED BY <2>1, <2>2
<1>7. /\ Answering("look")' <=> Answering("look")
      /\ Answering("who")' <=> Answering("who")
      /\ Shifting' <=> Shifting
      /\ ~(Answering("look") /\ Answering("who"))
      /\ Shifting => reply' = reply
      /\ reply' # None <=> reply # None
  BY <1>5, <1>6, ReplyKinds DEF SameReply, Answering
<1>8. Shapes'
  BY <1>0, <1>1, <1>2, <1>3, <1>4, <1>6 DEF Shapes, SameReply
<1>9. InPlace'
  <2>1. ASSUME NEW q \in Players
        PROVE  /\ q \in online' <=> pc'[q] # "off"
               /\ \A y \in Zones :
                    q \in inZone'[y] <=> loc'[q] = y /\ pc'[q] \notin {"off", "login", "limbo", "gone"}
    <3>1. CASE q = p
      BY <1>0, <1>1, <1>2, <1>4, <3>1 DEF InPlace
    <3>2. CASE q # p
      BY <1>0, <1>2, <1>4, <3>2 DEF InPlace
    <3> QED BY <3>1, <3>2
  <2> QED BY <1>1, <1>2, <1>4, <2>1 DEF InPlace
<1>10. MyPlace'
  <2>1. ASSUME NEW q \in Players
        PROVE  /\ pc'[q] \in {"login", "entered"} => onlineMu' = q
               /\ pc'[q] = "login" => loc'[q] = StartZone
    BY <1>0, <1>1, <1>2, <1>4 DEF MyPlace
  <2> QED BY <1>0, <1>2, <1>4, <1>7, <2>1 DEF MyPlace
<1>11. AllRead' = AllRead  BY <1>2, <1>3, ReadSame
<1>12. RoomCounted'
  <2>1. Answering("look") => reply' = reply  BY <1>6, <1>7
  <2> QED BY <1>2, <1>4, <1>7, <1>11, <2>1 DEF PresenceInv, RoomCounted
<1>13. OnlineCounted'
  BY <1>1, <1>2 DEF OnlineCounted
<1>14. WhoBound'
  <2> SUFFICES ASSUME Answering("who")
               PROVE  /\ Cardinality(online') <= reply'.n + reply'.since
                      /\ Cardinality(reply'.players) <= reply'.n + reply'.since
    BY <1>7 DEF WhoBound
  <2>1. reply.n \in Nat /\ reply.since \in Nat /\ reply.players \in SUBSET Players
    BY <1>5, ReplyKinds DEF WhoReplies
  <2>2. p \notin online  BY <1>0, <1>1, <1>2 DEF InPlace
  <2>3. Cardinality(online') = Cardinality(online) + 1 /\ Cardinality(online) \in Nat
    BY <1>2, <1>5, <2>2, Counting
  <2>4. Cardinality(reply.players) \in Nat  BY <2>1, Counting
  <2> QED BY <1>6, <2>1, <2>3, <2>4 DEF PresenceInv, WhoBound
<1>15. InOrder'
  BY <1>2, <1>4, <1>7 DEF PresenceInv, InOrder, Orderly
<1> QED BY <1>8, <1>9, <1>10, <1>12, <1>13, <1>14, <1>15 DEF PresenceInv

(* Every step of a walker preserves the invariant. *)
LEMMA WalkerKeeps ==
    ASSUME PresenceInv, NEW p \in Walkers, Walker(p)  PROVE PresenceInv'
PROOF
<1>1. UNCHANGED <<cmds, guiVars>> /\ (Walk(p) \/ Continue(p))  BY DEF Walker
<1> QED BY <1>1, ConnectKeeps, LeaveKeeps, ChatKeeps, EnterKeeps, CountKeeps DEF Walk, Continue

------------------------------------------------------------------------------
(* Steps of Me and of the GUI, with the commands between the two. *)

CmdsKept == cmds' \in Seq({"MOVE", "ATTACK", "LOOK", "WHO"}) /\ Len(cmds') <= MaxCmds

(* The queue of commands stays one: a command is taken from it, *)
LEMMA CmdsTaken ==
    ASSUME Shapes, NEW c, Command(c)  PROVE CmdsKept
PROOF
<1>1. cmds \in Seq({"MOVE", "ATTACK", "LOOK", "WHO"}) /\ cmds # <<>> /\ cmds' = Tail(cmds)
      /\ Len(cmds) <= MaxCmds /\ MaxCmds \in Nat
  BY PresenceAssumption DEF Shapes, Command
<1> QED BY <1>1 DEF CmdsKept

(* one is sent, *)
LEMMA CmdsSent ==
    ASSUME Shapes, NEW c \in {"MOVE", "ATTACK", "LOOK", "WHO"}, Send(c)  PROVE CmdsKept
PROOF
<1>1. cmds \in Seq({"MOVE", "ATTACK", "LOOK", "WHO"}) /\ Len(cmds) <= MaxCmds /\ MaxCmds \in Nat
      /\ cmds' = IF Len(cmds) < MaxCmds THEN Append(cmds, c) ELSE cmds
  BY PresenceAssumption DEF Shapes, Send
<1> QED BY <1>1 DEF CmdsKept

(* or none. *)
LEMMA CmdsSame == ASSUME Shapes, cmds' = cmds  PROVE CmdsKept
BY DEF Shapes, CmdsKept

(* Me's own goroutine goes to l.                                           *)
LEMMA MyStep ==
    ASSUME Shapes, NEW l \in PC, Goto(Me, l)
    PROVE  /\ Me \in Players /\ pc' \in [Players -> PC] /\ pc'[Me] = l
           /\ \A p \in Players : pc'[p] = IF p = Me THEN l ELSE pc[p]
BY DEF Shapes, Goto, Players

(* Commands refused, and what only the GUI does. *)
LEMMA QuietKeeps ==
    ASSUME PresenceInv, UNCHANGED <<serverVars, wire, guiVars, historyVars>>, CmdsKept
    PROVE  PresenceInv'
PROOF
<1>1. Shapes'  BY DEF PresenceInv, Shapes, serverVars, guiVars, historyVars, CmdsKept
<1>2. InPlace' /\ MyPlace'
  BY DEF PresenceInv, InPlace, MyPlace, serverVars, Shifting, Answering
<1>3. AllRead' = AllRead  BY ReadSame DEF guiVars
<1>4. RoomCounted' /\ OnlineCounted' /\ WhoBound'
  BY <1>3 DEF PresenceInv, RoomCounted, OnlineCounted, WhoBound, serverVars, historyVars, Answering
<1>5. InOrder'
  BY DEF PresenceInv, InOrder, Orderly, serverVars, Shifting
<1> QED BY <1>1, <1>2, <1>4, <1>5 DEF PresenceInv

(* A sequence with one element more. *)
LEMMA AppendTyped ==
    ASSUME NEW T, NEW s \in Seq(T), NEW e \in T  PROVE Append(s, e) \in Seq(T)
OBVIOUS

(* Me logs in: first as online, *)
LEMMA MyConnectKeeps ==
    ASSUME PresenceInv, UNCHANGED <<cmds, guiVars>>, Connect(Me)
    PROVE  PresenceInv'
PROOF
<1>0. Shapes /\ InPlace /\ MyPlace  BY DEF PresenceInv
<1>1. Me \in Players /\ None \notin Players /\ StartZone \in Zones
  BY PresenceAssumption DEF Players
<1> DEFINE n == Cardinality(online')
           hello == [type |-> "connected"]
           stats == [type |-> "stats", n |-> n]
<1>2. /\ pc[Me] = "off" /\ onlineMu = None /\ onlineMu' = Me
      /\ online' = online \cup {Me}
      /\ loc' = [loc EXCEPT ![Me] = StartZone]
      /\ Goto(Me, "login")
      /\ WriteAll(<<hello, stats>>)
      /\ reply' = IF Answering("who") THEN [reply EXCEPT !.since = @ + 1] ELSE reply
      /\ UNCHANGED <<inZone, drift, stale>>
  BY DEF Connect, historyVars
<1>3. UNCHANGED <<count, label, loggedIn, zone>>  BY DEF guiVars
<1>4. wire = <<>> /\ reply = None /\ reply' = None
  BY <1>0, <1>2 DEF MyPlace, Answering
<1>5. /\ pc' \in [Players -> PC] /\ pc'[Me] = "login"
      /\ \A p \in Players : pc'[p] = IF p = Me THEN "login" ELSE pc[p]
  <2>1. "login" \in PC  BY DEF PC
  <2> QED BY <1>0, <1>2, <2>1, MyStep
<1>6. loc' \in [Players -> Zones] /\ loc'[Me] = StartZone
      /\ \A p \in Players : loc'[p] = IF p = Me THEN StartZone ELSE loc[p]
  BY <1>0, <1>1, <1>2 DEF Shapes
<1>7. hello \in Lines /\ stats \in Lines /\ n \in Nat /\ online' \in SUBSET Players
  BY <1>0, <1>1, <1>2, LineTypes, Counting DEF Shapes
<1>8. /\ hello.type = "connected" /\ stats.type = "stats" /\ stats.n = n  OBVIOUS
<1> HIDE DEF hello, stats
<1>9. /\ wire' = Append(Append(<<>>, hello), stats) /\ wire' \in Seq(Lines)
      /\ Len(wire') <= MaxWire
  <2>1. <<hello, stats>> \in Seq(Lines) /\ Len(<<hello, stats>>) = 2  BY <1>7
  <2>2. wire' = <<>> \o <<hello, stats>> /\ Len(wire) + 2 <= MaxWire
    BY <1>2, <1>4, <2>1 DEF WriteAll
  <2>3. <<>> \o <<hello, stats>> = <<hello, stats>>
        /\ <<hello, stats>> = Append(Append(<<>>, hello), stats)
    OBVIOUS
  <2>4. Len(wire) = 0 /\ wire' = <<hello, stats>>  BY <1>4, <2>2, <2>3
  <2> QED BY <2>1, <2>2, <2>3, <2>4
<1>10. Shapes'
  BY <1>0, <1>1, <1>2, <1>3, <1>4, <1>5, <1>6, <1>7, <1>9 DEF Shapes
<1>11. InPlace'
  <2>1. ASSUME NEW q \in Players
        PROVE  /\ q \in online' <=> pc'[q] # "off"
               /\ \A y \in Zones :
                    q \in inZone'[y] <=> loc'[q] = y /\ pc'[q] \notin {"off", "login", "limbo", "gone"}
    <3>1. CASE q = Me
      BY <1>0, <1>1, <1>2, <1>5, <1>6, <3>1 DEF InPlace
    <3>2. CASE q # Me
      BY <1>0, <1>2, <1>5, <1>6, <3>2 DEF InPlace
    <3> QED BY <3>1, <3>2
  <2> QED BY <1>1, <1>2, <1>5, <2>1 DEF InPlace
<1>12. MyPlace'
  <2>1. ASSUME NEW q \in Players
        PROVE  /\ pc'[q] \in {"login", "entered"} => onlineMu' = q
               /\ pc'[q] = "login" => loc'[q] = StartZone
    BY <1>0, <1>1, <1>2, <1>5, <1>6 DEF MyPlace
  <2> QED BY <1>4, <1>5, <2>1 DEF MyPlace, Shifting, Answering
<1>13. drift = None  BY <1>2 DEF PresenceInv, RoomCounted, Served
<1>14. RoomCounted' /\ WhoBound'
  BY <1>2, <1>4, <1>13 DEF RoomCounted, WhoBound, Answering
<1>15. OnlineCounted'
  <2> DEFINE seen == [count |-> count, label |-> label]
             one == Append(<<>>, hello)
  <2>1. seen' = seen  BY <1>3
  <2>2. AllRead' = FoldLeft(Updated, seen, Append(one, stats))  BY <1>9, <2>1 DEF AllRead
  <2>3. one \in Seq(Lines)  BY <1>7
  <2> HIDE DEF seen, one
  <2>4. AllRead' = Updated(FoldLeft(Updated, seen, one), stats)
    BY <1>7, <2>2, <2>3, FoldAppend
  <2>5. AllRead'.label = n  BY <1>8, <2>4 DEF Updated, Labelled
  <2> QED BY <1>4, <2>5 DEF OnlineCounted, Answering
<1>16. InOrder'
  <2> DEFINE empty == <<>>
             one == Append(empty, hello)
             room == inZone'[loc'[Me]]
  <2>1. empty \in Seq(Lines)  OBVIOUS
  <2>2. Orderly(empty, loc'[Me], room, FALSE)  BY OrderEmpty
  <2>3. wire' = Append(one, stats)  BY <1>9
  <2> HIDE DEF empty
  <2>4. one \in Seq(Lines) /\ Orderly(one, loc'[Me], room, FALSE)
    <3>1. hello.type \notin {"enter", "leave", "chat", "moved", "respawn"}  BY <1>8
    <3>2. Orderly(one, loc'[Me], room, FALSE)  BY <1>7, <2>1, <2>2, <3>1, OrderOther
    <3> QED BY <1>7, <2>1, <3>2, AppendTyped
  <2> HIDE DEF one
  <2>5. Orderly(Append(one, stats), loc'[Me], room, FALSE)
    <3>1. stats.type \notin {"enter", "leave", "chat", "moved", "respawn"}  BY <1>8
    <3> QED BY <1>7, <2>4, <3>1, OrderOther
  <2> QED BY <1>4, <2>3, <2>5 DEF InOrder, Orderly, Shifting
<1> QED BY <1>10, <1>11, <1>12, <1>14, <1>15, <1>16 DEF PresenceInv

(* then in its room, *)
LEMMA MyEnterKeeps ==
    ASSUME PresenceInv, UNCHANGED <<cmds, guiVars>>,
           ConnectEnter(Me) \/ ShiftEnter(Me)
    PROVE  PresenceInv'
PROOF
<1>0. Shapes /\ InPlace /\ MyPlace  BY DEF PresenceInv
<1>1. Me \in Players /\ None \notin Players  BY PresenceAssumption DEF Players
<1> DEFINE z == loc[Me]
<1>2. PICK l \in {"entered", "answer"} :
        /\ pc[Me] = IF l = "entered" THEN "login" ELSE "limbo"
        /\ inZone' = [inZone EXCEPT ![z] = @ \cup {Me}]
        /\ Goto(Me, l)
        /\ UNCHANGED <<loc, online, onlineMu, historyVars, wire, reply>>
  <2>1. CASE ConnectEnter(Me)
    <3>1. pc[Me] = "login" /\ loc[Me] = StartZone
      BY <1>0, <1>1, <2>1 DEF ConnectEnter, MyPlace
    <3>2. UNCHANGED <<wire, reply>>  BY <2>1 DEF ConnectEnter, Tell
    <3> QED BY <2>1, <3>1, <3>2 DEF ConnectEnter
  <2>2. CASE ShiftEnter(Me)
    <3>1. UNCHANGED <<wire, reply>>  BY <2>2 DEF ShiftEnter, ShiftEnterTold, Tell
    <3> QED BY <2>2, <3>1 DEF ShiftEnter
  <2> QED BY <2>1, <2>2
<1>3. /\ pc' \in [Players -> PC] /\ pc'[Me] = l
      /\ \A p \in Players : pc'[p] = IF p = Me THEN l ELSE pc[p]
  <2>1. l \in PC  BY DEF PC
  <2> QED BY <1>0, <1>2, <2>1, MyStep
<1>4. /\ z \in Zones /\ inZone \in [Zones -> SUBSET Players] /\ inZone' \in [Zones -> SUBSET Players]
      /\ \A y \in Zones : inZone'[y] = IF y = z THEN inZone[y] \cup {Me} ELSE inZone[y]
  <2>1. z \in Zones /\ inZone \in [Zones -> SUBSET Players]  BY <1>0, <1>1 DEF Shapes
  <2> QED BY <1>1, <1>2, <2>1
<1>5. Me \notin inZone[z]  BY <1>0, <1>2, MyRoom
<1>6. UNCHANGED <<count, label, loggedIn, zone, cmds>>  BY DEF guiVars
<1>7. Shapes'
  BY <1>0, <1>2, <1>3, <1>4, <1>6 DEF Shapes, historyVars
<1>8. InPlace'
  <2>1. ASSUME NEW q \in Players
        PROVE  /\ q \in online' <=> pc'[q] # "off"
               /\ \A y \in Zones :
                    q \in inZone'[y] <=> loc'[q] = y /\ pc'[q] \notin {"off", "login", "limbo", "gone"}
    <3>1. CASE q = Me
      BY <1>0, <1>1, <1>2, <1>3, <1>4, <3>1 DEF InPlace
    <3>2. CASE q # Me
      BY <1>0, <1>2, <1>3, <1>4, <3>2 DEF InPlace
    <3> QED BY <3>1, <3>2
  <2>2. onlineMu' # None => pc'[onlineMu'] \in {"login", "entered"}
    <3>1. onlineMu \in Players \cup {None} /\ onlineMu' = onlineMu  BY <1>0, <1>2 DEF Shapes
    <3>2. l = "answer" => pc[Me] = "limbo"  BY <1>2
    <3> QED BY <1>0, <1>3, <3>1, <3>2 DEF InPlace
  <2> QED BY <2>1, <2>2 DEF InPlace
<1>9. MyPlace'
  <2>1. ASSUME NEW q \in Players
        PROVE  /\ pc'[q] \in {"login", "entered"} => onlineMu' = q
               /\ pc'[q] = "login" => loc'[q] = StartZone
    BY <1>0, <1>1, <1>2, <1>3 DEF MyPlace
  <2>2. Shifting' <=> Shifting  BY <1>2 DEF Shifting
  <2> QED BY <1>0, <1>2, <1>3, <2>1, <2>2 DEF MyPlace
<1>10. AllRead' = AllRead  BY <1>2, <1>6, ReadSame
<1>11. drift = None /\ ~Answering("look") /\ ~Answering("who")
  <2>1. drift = None /\ ~Answering("look")
    BY <1>2 DEF PresenceInv, RoomCounted, Served
  <2>2. pc[Me] = "login" => reply = None  BY <1>0 DEF MyPlace
  <2>3. pc[Me] = "limbo" => Shifting  BY <1>0 DEF MyPlace
  <2> QED BY <1>0, <1>2, <2>1, <2>2, <2>3, ReplyKinds DEF Shapes, Answering
<1>12. RoomCounted' /\ OnlineCounted' /\ WhoBound'
  BY <1>2, <1>10, <1>11 DEF PresenceInv, RoomCounted, OnlineCounted, WhoBound, Answering, historyVars
<1>13. InOrder'
  <2>1. Orderly(wire, z, inZone'[z], Shifting)
    BY <1>5, OrderAside DEF PresenceInv, InOrder
  <2> QED BY <1>2, <2>1 DEF InOrder, Shifting
<1> QED BY <1>7, <1>8, <1>9, <1>12, <1>13 DEF PresenceInv

(* and then with its own login counted. *)
LEMMA MyCountKeeps ==
    ASSUME PresenceInv, UNCHANGED <<cmds, guiVars>>,
           ConnectCount(Me) \/ GoOffline(Me)
    PROVE  PresenceInv'
PROOF
<1>0. Shapes /\ InPlace /\ MyPlace  BY DEF PresenceInv
<1>1. Me \in Players /\ None \notin Players  BY PresenceAssumption DEF Players
<1>2. /\ pc[Me] = "entered" /\ onlineMu' = None /\ Goto(Me, "in")
      /\ UNCHANGED <<loc, inZone, online, drift, wire, reply, stale>>
  <2>1. pc[Me] # "gone"  BY <1>0 DEF MyPlace
  <2> QED BY <2>1 DEF ConnectCount, GoOffline, Stats
<1>3. onlineMu = Me /\ reply = None  BY <1>0, <1>1, <1>2 DEF MyPlace
<1>4. /\ pc' \in [Players -> PC] /\ pc'[Me] = "in"
      /\ \A p \in Players : pc'[p] = IF p = Me THEN "in" ELSE pc[p]
  <2>1. "in" \in PC  BY DEF PC
  <2> QED BY <1>0, <1>2, <2>1, MyStep
<1>5. UNCHANGED <<count, label, loggedIn, zone, cmds>>  BY DEF guiVars
<1>6. Shapes'
  BY <1>0, <1>2, <1>4, <1>5 DEF Shapes
<1>7. InPlace'
  BY <1>0, <1>2, <1>4 DEF InPlace
<1>8. MyPlace'
  <2>1. ASSUME NEW q \in Players
        PROVE  /\ pc'[q] \in {"login", "entered"} => onlineMu' = q
               /\ pc'[q] = "login" => loc'[q] = StartZone
    BY <1>0, <1>1, <1>2, <1>3, <1>4 DEF MyPlace
  <2> QED BY <1>2, <1>3, <1>4, <2>1 DEF MyPlace, Shifting, Answering
<1>9. AllRead' = AllRead  BY <1>2, <1>5, ReadSame
<1>10. RoomCounted' /\ OnlineCounted' /\ WhoBound'
  BY <1>2, <1>3, <1>4, <1>9 DEF PresenceInv, RoomCounted, OnlineCounted, WhoBound, Answering, Served
<1>11. InOrder'
  BY <1>2 DEF PresenceInv, InOrder, Shifting
<1> QED BY <1>6, <1>7, <1>8, <1>10, <1>11 DEF PresenceInv

(* MOVE, and a lost fight: Me leaves its room.                             *)
LEMMA MyShiftKeeps ==
    ASSUME PresenceInv, UNCHANGED guiVars, (\E z \in Zones : MyMove(z)) \/ MyDefeat
    PROVE  PresenceInv'
PROOF
<1>0. Shapes /\ InPlace /\ MyPlace  BY DEF PresenceInv
<1>1. Me \in Players /\ None \notin Players /\ None \notin Replies  BY PresenceAssumption DEF Players
<1>2. PICK type \in {"moved", "respawn"}, to \in Zones \ {loc[Me]} :
        pc[Me] = "in" /\ MyShift(type, to) /\ CmdsKept
  <2>1. CASE \E z \in Zones : MyMove(z)
    BY <1>0, <2>1, CmdsTaken DEF MyMove, Command
  <2>2. CASE MyDefeat
    <3>1. RespawnZone \in Zones \ {loc[Me]} /\ MyShift("respawn", RespawnZone)
          /\ Command("ATTACK")
      BY <2>2, PresenceAssumption DEF MyDefeat
    <3> QED BY <1>0, <3>1, CmdsTaken DEF Command
  <2> QED BY <2>1, <2>2
<1> DEFINE z == loc[Me]
<1>3. /\ pc' = [pc EXCEPT ![Me] = "limbo"] /\ Goto(Me, "limbo")
      /\ inZone' = [inZone EXCEPT ![z] = @ \ {Me}]
      /\ loc' = [loc EXCEPT ![Me] = to]
      /\ reply' = [type |-> type, zone |-> to]
      /\ drift' = None
      /\ UNCHANGED <<online, onlineMu, wire, stale>>
  BY <1>2 DEF MyShift, Goto
<1>4. /\ pc' \in [Players -> PC] /\ pc'[Me] = "limbo"
      /\ \A p \in Players : pc'[p] = IF p = Me THEN "limbo" ELSE pc[p]
  <2>1. "limbo" \in PC  BY DEF PC
  <2> QED BY <1>0, <1>3, <2>1, MyStep
<1>5. /\ loc' \in [Players -> Zones] /\ loc'[Me] = to /\ z \in Zones
      /\ \A p \in Players : loc'[p] = IF p = Me THEN to ELSE loc[p]
  BY <1>0, <1>1, <1>3 DEF Shapes
<1>6. /\ inZone' \in [Zones -> SUBSET Players]
      /\ \A y \in Zones : inZone'[y] = IF y = z THEN inZone[y] \ {Me} ELSE inZone[y]
  BY <1>0, <1>3, <1>5 DEF Shapes
<1>7. /\ reply' \in Replies /\ reply' # None /\ reply'.type \in {"moved", "respawn"} /\ reply'.zone = to
  <2>1. reply' \in Shifts  BY <1>3 DEF Shifts
  <2> QED BY <1>1, <1>3, <2>1 DEF Replies
<1>8. /\ Shifting' /\ ~Answering("look")' /\ ~Answering("who")'
  BY <1>7 DEF Shifting, Answering
<1>9. ~Shifting  BY <1>0, <1>2 DEF MyPlace, Shifting
<1>10. UNCHANGED <<count, label, loggedIn, zone>>  BY DEF guiVars
<1>11. Shapes'
  BY <1>0, <1>2, <1>3, <1>4, <1>5, <1>6, <1>7, <1>10 DEF Shapes, CmdsKept
<1>12. InPlace'
  <2>1. ASSUME NEW q \in Players
        PROVE  /\ q \in online' <=> pc'[q] # "off"
               /\ \A y \in Zones :
                    q \in inZone'[y] <=> loc'[q] = y /\ pc'[q] \notin {"off", "login", "limbo", "gone"}
    <3>1. CASE q = Me
      BY <1>0, <1>1, <1>2, <1>3, <1>4, <1>5, <1>6, <3>1 DEF InPlace
    <3>2. CASE q # Me
      BY <1>0, <1>3, <1>4, <1>5, <1>6, <3>2 DEF InPlace
    <3> QED BY <3>1, <3>2
  <2>2. onlineMu' # None => pc'[onlineMu'] \in {"login", "entered"}
    <3>1. onlineMu \in Players \cup {None} /\ onlineMu' = onlineMu  BY <1>0, <1>3 DEF Shapes
    <3> QED BY <1>0, <1>2, <1>4, <3>1 DEF InPlace
  <2> QED BY <2>1, <2>2 DEF InPlace
<1>13. MyPlace'
  <2>1. ASSUME NEW q \in Players
        PROVE  /\ pc'[q] \in {"login", "entered"} => onlineMu' = q
               /\ pc'[q] = "login" => loc'[q] = StartZone
    BY <1>0, <1>3, <1>4, <1>5 DEF MyPlace
  <2> QED BY <1>4, <1>5, <1>7, <1>8, <2>1 DEF MyPlace
<1>14. AllRead' = AllRead  BY <1>3, <1>10, ReadSame
<1>15. RoomCounted' /\ OnlineCounted' /\ WhoBound'
  BY <1>3, <1>8, <1>14 DEF PresenceInv, RoomCounted, OnlineCounted, WhoBound
<1>16. InOrder'
  <2>1. wire \in Seq(Lines)  BY <1>0 DEF Shapes
  <2>2. Orderly(wire, z, inZone[z], FALSE)  BY <1>9 DEF PresenceInv, InOrder, Orderly
  <2>3. Orderly(wire, to, inZone'[to], TRUE)  BY <1>2, <1>5, <2>1, <2>2, OrderShift
  <2> QED BY <1>3, <1>5, <1>8, <2>3 DEF InOrder, Orderly
<1> QED BY <1>11, <1>12, <1>13, <1>15, <1>16 DEF PresenceInv

(* LOOK and WHO take what they answer, in one moment and in two.           *)
LEMMA MyQueryKeeps ==
    ASSUME PresenceInv, UNCHANGED guiVars,
           Look \/ WhoCount \/ (WhoList /\ UNCHANGED cmds)
    PROVE  PresenceInv'
PROOF
<1>0. Shapes /\ InPlace /\ MyPlace  BY DEF PresenceInv
<1>1. Me \in Players /\ None \notin Replies /\ None \notin Players  BY PresenceAssumption DEF Players
<1> DEFINE z == loc[Me]
<1>2. z \in Zones /\ inZone[z] \in SUBSET Players /\ online \in SUBSET Players
      /\ Cardinality(inZone[z]) \in Nat /\ Cardinality(online) \in Nat
  BY <1>0, MyRoom, Counting DEF Shapes
<1>3. PICK l \in {"answer", "count"} :
        /\ Goto(Me, l) /\ CmdsKept /\ pc[Me] \in {"in", "count"}
        /\ reply' \in LookReplies \cup WhoReplies
        /\ l = "count" => reply'.type = "who"
        /\ UNCHANGED <<loc, inZone, online, onlineMu, wire, historyVars>>
        /\ reply' \in LookReplies =>
             l = "answer" /\ reply'.players = inZone[z] /\ reply'.late = 0
        /\ reply' \in WhoReplies =>
             /\ onlineMu = None /\ ~reply'.stale => reply'.n = Cardinality(online)
             /\ Cardinality(online) <= reply'.n + reply'.since
             /\ Cardinality(reply'.players) <= reply'.n + reply'.since
  <2>1. CASE Look
    <3>1. reply' \in LookReplies /\ reply'.players = inZone[z] /\ reply'.late = 0 /\ reply'.type = "look"
      BY <1>2, <2>1 DEF Look, LookReplies
    <3>2. reply' \notin WhoReplies  BY <3>1 DEF WhoReplies
    <3>3. "answer" \in {"answer", "count"} /\ pc[Me] = "in" /\ CmdsKept
      BY <1>0, <2>1, CmdsTaken DEF Look, Command
    <3> QED BY <2>1, <3>1, <3>2, <3>3 DEF Look
  <2>2. CASE WhoCount
    <3>1. /\ reply' \in WhoReplies /\ reply'.n = Cardinality(online) /\ reply'.since = 0
          /\ reply'.players = {} /\ reply'.type = "who"
      BY <1>2, <2>2 DEF WhoCount, OnlineCount, WhoReplies
    <3>2. reply' \notin LookReplies  BY <3>1 DEF LookReplies
    <3>3. "count" \in {"answer", "count"} /\ pc[Me] = "in" /\ CmdsKept
      BY <1>0, <2>2, CmdsTaken DEF WhoCount, Command
    <3>4. Cardinality({}) = 0  BY FS_EmptySet
    <3> QED BY <1>2, <2>2, <3>1, <3>2, <3>3, <3>4 DEF WhoCount
  <2>3. CASE WhoList /\ UNCHANGED cmds
    <3>1. pc[Me] = "count" /\ reply' = [reply EXCEPT !.players = inZone[z]] /\ CmdsKept
      BY <1>0, <2>3, CmdsSame DEF WhoList
    <3>2. reply \in WhoReplies /\ Answering("who")
      <4>1. Answering("who")  BY <1>0, <3>1 DEF MyPlace
      <4>2. reply \in Replies \cup {None}  BY <1>0 DEF Shapes
      <4> QED BY <4>1, <4>2, ReplyKinds
    <3>3. /\ reply' \in WhoReplies /\ reply'.n = reply.n /\ reply'.since = reply.since
          /\ reply'.stale = reply.stale /\ reply'.players = inZone[z] /\ reply'.type = "who"
          /\ reply.n \in Nat /\ reply.since \in Nat
      BY <1>2, <3>1, <3>2 DEF WhoReplies
    <3>4. reply' \notin LookReplies  BY <3>3 DEF LookReplies
    <3>5. Cardinality(online) <= reply.n + reply.since
      BY <3>2 DEF PresenceInv, WhoBound
    <3>6. inZone[z] \in SUBSET online  BY <1>0, <1>2 DEF InPlace
    <3>7. Cardinality(inZone[z]) <= Cardinality(online)  BY <1>2, <3>6, Counting
    <3>8. onlineMu = None /\ ~reply.stale => reply.n = Cardinality(online)
      BY <3>2 DEF PresenceInv, OnlineCounted
    <3>9. Cardinality(inZone[z]) <= reply.n + reply.since  BY <1>2, <3>3, <3>5, <3>7
    <3>10. "answer" \in {"answer", "count"}  OBVIOUS
    <3> QED BY <2>3, <3>1, <3>3, <3>4, <3>5, <3>8, <3>9, <3>10 DEF WhoList
  <2> QED BY <2>1, <2>2, <2>3
<1>4. /\ pc' \in [Players -> PC] /\ pc'[Me] = l
      /\ \A p \in Players : pc'[p] = IF p = Me THEN l ELSE pc[p]
  <2>1. l \in PC  BY DEF PC
  <2> QED BY <1>0, <1>3, <2>1, MyStep
<1>5. /\ reply' \in Replies /\ reply' # None
      /\ Answering("look")' => reply' \in LookReplies
      /\ Answering("who")' => reply' \in WhoReplies
      /\ reply'.type = "who" => Answering("who")'
      /\ ~Shifting' /\ ~Shifting
  <2>1. /\ reply' \in Replies /\ reply'.type \in {"look", "who"} /\ reply' # None
        /\ reply'.type = "look" => reply' \in LookReplies
        /\ reply'.type = "who" => reply' \in WhoReplies
    BY <1>1, <1>3 DEF Replies, LookReplies, WhoReplies
  <2>2. ~Shifting
    BY <1>0, <1>3, ReplyKinds DEF MyPlace, Shifting, Answering
  <2> QED BY <2>1, <2>2 DEF Answering, Shifting
<1>6. UNCHANGED <<count, label, loggedIn, zone>>  BY DEF guiVars
<1>7. Shapes'
  BY <1>0, <1>3, <1>4, <1>5, <1>6 DEF Shapes, CmdsKept, historyVars
<1>8. InPlace'
  <2>1. ASSUME NEW q \in Players
        PROVE  /\ q \in online' <=> pc'[q] # "off"
               /\ \A y \in Zones :
                    q \in inZone'[y] <=> loc'[q] = y /\ pc'[q] \notin {"off", "login", "limbo", "gone"}
    BY <1>0, <1>3, <1>4 DEF InPlace
  <2>2. onlineMu' # None => pc'[onlineMu'] \in {"login", "entered"}
    <3>1. onlineMu \in Players \cup {None} /\ onlineMu' = onlineMu  BY <1>0, <1>3 DEF Shapes
    <3> QED BY <1>0, <1>3, <1>4, <3>1 DEF InPlace
  <2> QED BY <2>1, <2>2 DEF InPlace
<1>9. MyPlace'
  <2>1. ASSUME NEW q \in Players
        PROVE  /\ pc'[q] \in {"login", "entered"} => onlineMu' = q
               /\ pc'[q] = "login" => loc'[q] = StartZone
    BY <1>0, <1>3, <1>4 DEF MyPlace
  <2> QED BY <1>3, <1>4, <1>5, <2>1 DEF MyPlace
<1>10. AllRead' = AllRead  BY <1>3, <1>6, ReadSame
<1>11. RoomCounted'
  <2>1. drift # None => drift' \in Int /\ pc'[Me] \in Served
    BY <1>3, <1>4 DEF PresenceInv, RoomCounted, Served, historyVars
  <2>2. drift' = drift /\ inZone'[loc'[Me]] = inZone[z]  BY <1>3 DEF historyVars
  <2>3. drift # None => AllRead.count = Cardinality(inZone[z]) - drift
    BY DEF PresenceInv, RoomCounted
  <2>4. ASSUME Answering("look")'
        PROVE  /\ pc'[Me] = "answer"
               /\ Cardinality(inZone[z]) = Cardinality(reply'.players) + reply'.late
    BY <1>2, <1>3, <1>4, <1>5, <2>4
  <2> QED BY <1>10, <2>1, <2>2, <2>3, <2>4 DEF RoomCounted
<1>12. OnlineCounted' /\ WhoBound'
  BY <1>3, <1>5, <1>10 DEF PresenceInv, OnlineCounted, WhoBound, historyVars
<1>13. InOrder'
  BY <1>3, <1>5 DEF PresenceInv, InOrder, Orderly
<1> QED BY <1>7, <1>8, <1>9, <1>11, <1>12, <1>13 DEF PresenceInv

(* The answer is written. *)
LEMMA MyAnswerKeeps ==
    ASSUME PresenceInv, UNCHANGED <<cmds, guiVars>>, Answer
    PROVE  PresenceInv'
PROOF
<1>0. Shapes /\ InPlace /\ MyPlace  BY DEF PresenceInv
<1>1. Me \in Players /\ None \notin Replies /\ None \notin Players  BY PresenceAssumption DEF Players
<1> DEFINE z == loc[Me]
<1>2. /\ pc[Me] = "answer" /\ Write(reply) /\ Goto(Me, "in") /\ reply' = None
      /\ drift' = IF reply.type = "look" THEN reply.late ELSE drift
      /\ stale' = IF reply.type = "who" THEN reply.stale ELSE stale
      /\ UNCHANGED <<loc, inZone, online, onlineMu>>
  BY DEF Answer
<1>3. reply \in Replies /\ reply # None /\ reply \in Lines /\ wire \in Seq(Lines)
      /\ z \in Zones /\ inZone[z] \in SUBSET Players /\ Cardinality(inZone[z]) \in Nat
  BY <1>0, <1>2, LineTypes, MyRoom, Counting DEF MyPlace, Shapes
<1>4. Added(reply)  BY <1>2, <1>3, Writing
<1>5. /\ pc' \in [Players -> PC] /\ pc'[Me] = "in"
      /\ \A p \in Players : pc'[p] = IF p = Me THEN "in" ELSE pc[p]
  <2>1. "in" \in PC  BY DEF PC
  <2> QED BY <1>0, <1>2, <2>1, MyStep
<1>6. /\ AllRead'.count = Counted(AllRead.count, reply)
      /\ AllRead'.label = Labelled(AllRead.label, reply)
  <2>1. count' = count /\ label' = label  BY DEF guiVars
  <2> QED BY <1>3, <1>4, <2>1, ReadAdded
<1>7. /\ reply.type \in {"moved", "respawn", "look", "who"}
      /\ reply.type = "look" => reply \in LookReplies /\ Answering("look") /\ reply.late \in Int
      /\ reply.type = "who" => reply \in WhoReplies /\ Answering("who") /\ reply.stale \in BOOLEAN
      /\ reply.type \in {"moved", "respawn"} => Shifting
      /\ reply.type \notin {"moved", "respawn"} => ~Shifting
  BY <1>3 DEF Replies, Shifts, LookReplies, WhoReplies, Answering, Shifting
<1>8. /\ ~Shifting' /\ ~Answering("look")' /\ ~Answering("who")'
  BY <1>2 DEF Shifting, Answering
<1>9. UNCHANGED <<count, label, loggedIn, zone, cmds>>  BY DEF guiVars
<1>10. Shapes'
  <2>1. stale' \in BOOLEAN  BY <1>0, <1>2, <1>7 DEF Shapes
  <2> QED BY <1>0, <1>2, <1>4, <1>5, <1>9, <2>1 DEF Shapes, Added
<1>11. InPlace'
  <2>1. ASSUME NEW q \in Players
        PROVE  /\ q \in online' <=> pc'[q] # "off"
               /\ \A y \in Zones :
                    q \in inZone'[y] <=> loc'[q] = y /\ pc'[q] \notin {"off", "login", "limbo", "gone"}
    BY <1>0, <1>2, <1>5 DEF InPlace
  <2>2. onlineMu' # None => pc'[onlineMu'] \in {"login", "entered"}
    <3>1. onlineMu \in Players \cup {None} /\ onlineMu' = onlineMu  BY <1>0, <1>2 DEF Shapes
    <3> QED BY <1>0, <1>2, <1>5, <3>1 DEF InPlace
  <2> QED BY <2>1, <2>2 DEF InPlace
<1>12. MyPlace'
  <2>1. ASSUME NEW q \in Players
        PROVE  /\ pc'[q] \in {"login", "entered"} => onlineMu' = q
               /\ pc'[q] = "login" => loc'[q] = StartZone
    BY <1>0, <1>2, <1>5 DEF MyPlace
  <2> QED BY <1>2, <1>5, <1>8, <2>1 DEF MyPlace
<1>13. RoomCounted'
  <2>1. CASE reply.type = "look"
    <3>1. AllRead'.count = Cardinality(reply.players) /\ drift' = reply.late
      BY <1>2, <1>6, <2>1 DEF Counted
    <3>2. Cardinality(inZone[z]) = Cardinality(reply.players) + reply.late
      BY <1>7, <2>1 DEF PresenceInv, RoomCounted
    <3>3. reply.players \in SUBSET Players  BY <1>7, <2>1 DEF LookReplies
    <3>4. Cardinality(reply.players) \in Nat  BY <3>3, Counting
    <3>5. AllRead'.count = Cardinality(inZone[z]) - drift'
      BY <1>3, <1>7, <2>1, <3>1, <3>2, <3>4
    <3> QED BY <1>2, <1>5, <1>7, <1>8, <2>1, <3>1, <3>5 DEF RoomCounted, Served
  <2>2. CASE reply.type # "look"
    <3>1. AllRead'.count = AllRead.count /\ drift' = drift
      BY <1>2, <1>6, <1>7, <2>2 DEF Counted
    <3> QED BY <1>2, <1>5, <1>8, <3>1 DEF PresenceInv, RoomCounted, Served
  <2> QED BY <2>1, <2>2
<1>14. OnlineCounted'
  <2>1. onlineMu # Me  BY <1>0, <1>1, <1>2 DEF InPlace
  <2>2. CASE reply.type = "who"
    <3>1. AllRead'.label = reply.n /\ stale' = reply.stale
      BY <1>2, <1>6, <2>2 DEF Labelled
    <3>2. onlineMu = None /\ ~reply.stale => reply.n = Cardinality(online)
      BY <1>7, <2>2 DEF PresenceInv, OnlineCounted
    <3> QED BY <1>2, <1>8, <2>1, <3>1, <3>2 DEF OnlineCounted
  <2>3. CASE reply.type # "who"
    <3>1. AllRead'.label = AllRead.label /\ stale' = stale
      BY <1>2, <1>6, <1>7, <2>3 DEF Labelled
    <3> QED BY <1>2, <1>8, <3>1 DEF PresenceInv, OnlineCounted
  <2> QED BY <2>2, <2>3
<1>15. WhoBound'  BY <1>8 DEF WhoBound
<1>16. InOrder'
  <2>1. Orderly(wire, z, inZone[z], Shifting)  BY DEF PresenceInv, InOrder
  <2>2. Orderly(Append(wire, reply), z, inZone[z], FALSE)
    <3>1. CASE Shifting
      <4>1. Announced(reply) /\ reply.zone = z
        BY <1>0, <3>1 DEF MyPlace, Shifting, Announced
      <4> QED BY <1>3, <2>1, <4>1, OrderAnnounced
    <3>2. CASE ~Shifting
      <4>1. reply.type \notin {"enter", "leave", "chat", "moved", "respawn"}  BY <1>7, <3>2
      <4>2. Orderly(wire, z, inZone[z], FALSE)  BY <2>1, <3>2 DEF Orderly
      <4> QED BY <1>3, <4>1, <4>2, OrderOther
    <3> QED BY <3>1, <3>2
  <2> QED BY <1>2, <1>4, <1>8, <2>2 DEF Added, InOrder, Orderly
<1> QED BY <1>10, <1>11, <1>12, <1>13, <1>14, <1>15, <1>16 DEF PresenceInv

(* The GUI reads a line. *)
LEMMA ReadKeeps ==
    ASSUME PresenceInv, UNCHANGED <<serverVars, historyVars>>, Read
    PROVE  PresenceInv'
PROOF
<1>0. Shapes /\ InPlace /\ MyPlace  BY DEF PresenceInv
<1> DEFINE line == Head(wire)
<1>1. /\ wire # <<>> /\ wire' = Tail(wire)
      /\ loggedIn' = (loggedIn \/ line.type = "connected")
      /\ zone' = IF line.type \in {"moved", "look"} THEN line.zone ELSE zone
      /\ count' = Counted(count, line)
      /\ CmdsKept
  <2>1. CmdsKept  BY <1>0, CmdsSent, CmdsSame DEF Read
  <2> QED BY <2>1 DEF Read
<1>2. /\ wire \in Seq(Lines) /\ wire' \in Seq(Lines) /\ Len(wire') <= MaxWire /\ line \in Lines
  <2>1. wire \in Seq(Lines) /\ Len(wire) <= MaxWire /\ MaxWire \in Nat
    BY <1>0, PresenceAssumption DEF Shapes
  <2> QED BY <1>1, <2>1
<1> HIDE DEF line
<1>3. count' \in Int
  <2>1. count \in Int  BY <1>0 DEF Shapes
  <2>2. line.type = "look" => line.players \in SUBSET Players
    BY <1>2 DEF Lines, Replies, Shifts, LookReplies, WhoReplies, Events, Numbers
  <2>3. line.type = "look" => Cardinality(line.players) \in Int  BY <2>2, Counting
  <2> QED BY <1>1, <2>1, <2>3 DEF Counted
<1>4. zone' \in Zones \cup {None}
  <2>1. line.type \in {"moved", "look"} => line.zone \in Zones
    BY <1>2 DEF Lines, Replies, Shifts, LookReplies, WhoReplies, Events, Numbers
  <2> QED BY <1>0, <1>1, <2>1 DEF Shapes
<1>5. Shapes'
  BY <1>0, <1>1, <1>2, <1>3, <1>4 DEF Shapes, CmdsKept, serverVars, historyVars
<1>6. InPlace' /\ MyPlace'
  <2>1. pc[Me] # "off"  BY <1>0, <1>1 DEF MyPlace
  <2> QED BY <1>0, <2>1 DEF InPlace, MyPlace, serverVars, Shifting, Answering
<1>7. AllRead' = AllRead  BY <1>2, ReadOne
<1>8. RoomCounted' /\ OnlineCounted' /\ WhoBound'
  BY <1>7 DEF PresenceInv, RoomCounted, OnlineCounted, WhoBound, serverVars, historyVars, Answering
<1>9. InOrder'
  <2>1. Orderly(Tail(wire), loc[Me], inZone[loc[Me]], Shifting)
    BY <1>1, <1>2, OrderHeard DEF PresenceInv, InOrder
  <2> QED BY <1>1, <2>1 DEF InOrder, serverVars, Shifting
<1> QED BY <1>5, <1>6, <1>8, <1>9 DEF PresenceInv

------------------------------------------------------------------------------
(* The theorems.  The invariant holds at the start. *)
LEMMA InitKeeps == Init => PresenceInv
PROOF
<1> SUFFICES ASSUME Init  PROVE PresenceInv
  OBVIOUS
<1>0. /\ Me \in Players /\ Walkers \subseteq Players /\ Me \notin Walkers /\ None \notin Players
      /\ StartZone \in Zones /\ {MaxWire, MaxCmds} \subseteq Nat
  BY PresenceAssumption DEF Players
<1>1. PICK on \in SUBSET Walkers, at \in [Walkers -> Zones] :
        /\ online = on
        /\ pc = [p \in Players |-> IF p \in on THEN "in" ELSE "off"]
        /\ loc = [p \in Players |-> IF p \in on THEN at[p] ELSE StartZone]
        /\ inZone = [z \in Zones |-> {p \in on : at[p] = z}]
  BY DEF Init
<1>2. /\ onlineMu = None /\ reply = None /\ wire = <<>> /\ cmds = <<>>
      /\ zone = None /\ count = 0 /\ loggedIn = FALSE /\ drift = None /\ stale = FALSE
  BY DEF Init
<1>3. /\ wire \in Seq(Lines) /\ Len(wire) <= MaxWire
      /\ cmds \in Seq({"MOVE", "ATTACK", "LOOK", "WHO"}) /\ Len(cmds) <= MaxCmds
  BY <1>0, <1>2
<1>4. Shapes
  <2>1. pc \in [Players -> PC] /\ loc \in [Players -> Zones]
    BY <1>0, <1>1 DEF PC
  <2>2. inZone \in [Zones -> SUBSET Players] /\ online \subseteq Players
    BY <1>0, <1>1
  <2>3. /\ onlineMu \in Players \cup {None} /\ reply \in Replies \cup {None}
        /\ zone \in Zones \cup {None}
    BY <1>2
  <2>4. count \in Int /\ loggedIn \in BOOLEAN /\ stale \in BOOLEAN
    <3>1. 0 \in Int  OBVIOUS
    <3> QED BY <1>2, <3>1, Zenon
  <2> QED BY <1>3, <2>1, <2>2, <2>3, <2>4, Zenon DEF Shapes
<1>5. InPlace
  <2>1. ASSUME NEW p \in Players
        PROVE  /\ p \in online <=> pc[p] # "off"
               /\ \A z \in Zones :
                    p \in inZone[z] <=> loc[p] = z /\ pc[p] \notin {"off", "login", "limbo", "gone"}
    BY <1>0, <1>1
  <2> QED BY <1>2, <2>1 DEF InPlace
<1>6. pc[Me] = "off" /\ \A p \in Players : pc[p] \in {"in", "off"}
  BY <1>0, <1>1
<1>7. MyPlace
  BY <1>2, <1>6 DEF MyPlace, Shifting, Answering
<1>8. Me \notin online  BY <1>0, <1>1
<1>9. RoomCounted /\ OnlineCounted /\ WhoBound
  BY <1>2, <1>8 DEF RoomCounted, OnlineCounted, WhoBound, Answering
<1>10. InOrder  BY <1>2, OrderEmpty DEF InOrder
<1> QED BY <1>4, <1>5, <1>7, <1>9, <1>10 DEF PresenceInv

(* Every step of Me's goroutine preserves the invariant, *)
LEMMA MineKeeps == ASSUME PresenceInv, Mine  PROVE PresenceInv'
PROOF
<1>0. Shapes /\ UNCHANGED guiVars  BY DEF PresenceInv, Mine
<1>1. CASE (Connect(Me) \/ Continue(Me)) /\ UNCHANGED <<cmds, refused>>
  BY <1>0, <1>1, MyConnectKeeps, MyEnterKeeps, MyCountKeeps DEF Continue
<1>2. CASE ((\E z \in Zones : MyMove(z)) \/ MyDefeat \/ NoShift("MOVE") \/ NoShift("ATTACK"))
           /\ UNCHANGED refused
  <2>1. CASE (\E z \in Zones : MyMove(z)) \/ MyDefeat  BY <1>0, <2>1, MyShiftKeeps
  <2>2. ASSUME NEW c, NoShift(c)  PROVE PresenceInv'
    <3>1. CmdsKept  BY <1>0, <2>2, CmdsTaken DEF NoShift
    <3>2. UNCHANGED <<serverVars, wire, guiVars, historyVars>>  BY <1>0, <2>2 DEF NoShift
    <3> QED BY <3>1, <3>2, QuietKeeps
  <2> QED BY <1>2, <2>1, <2>2
<1>3. CASE (Look \/ WhoCount) /\ UNCHANGED refused
  BY <1>0, <1>3, MyQueryKeeps
<1>4. CASE (WhoList \/ Answer) /\ UNCHANGED <<cmds, refused>>
  BY <1>0, <1>4, MyQueryKeeps, MyAnswerKeeps
<1>5. ASSUME NEW c, Refuse(c)  PROVE PresenceInv'
  <2>1. CmdsKept  BY <1>0, <1>5, CmdsTaken DEF Refuse
  <2>2. UNCHANGED <<serverVars, wire, guiVars, historyVars>>  BY <1>0, <1>5 DEF Refuse
  <2> QED BY <2>1, <2>2, QuietKeeps
<1> QED BY <1>1, <1>2, <1>3, <1>4, <1>5 DEF Mine

(* and so does every step of the GUI. *)
LEMMA GuiKeeps == ASSUME PresenceInv, Gui  PROVE PresenceInv'
PROOF
<1>0. Shapes /\ UNCHANGED <<serverVars, historyVars>>  BY DEF PresenceInv, Gui
<1>1. CASE Read  BY <1>0, <1>1, ReadKeeps
<1>2. CASE (\E c \in {"MOVE", "ATTACK", "WHO", "LOOK"} : Ask(c)) /\ UNCHANGED <<wire, guiVars>>
  <2>1. CmdsKept  BY <1>0, <1>2, CmdsSent DEF Ask
  <2> QED BY <1>0, <1>2, <2>1, QuietKeeps
<1>3. CASE Poll /\ UNCHANGED <<wire, guiVars, asks>>
  <2>1. CmdsKept  BY <1>0, <1>3, CmdsSent DEF Poll
  <2> QED BY <1>0, <1>3, <2>1, QuietKeeps
<1> QED BY <1>1, <1>2, <1>3 DEF Gui

(* What is on the wire, the rooms, the GUI's counters and a reply under    *)
(* way fit together at every moment.                                       *)
THEOREM PresenceInvariant == Spec => []PresenceInv
PROOF
<1>1. PresenceInv /\ [Next]_vars => PresenceInv'
  <2> SUFFICES ASSUME PresenceInv, [Next]_vars  PROVE PresenceInv'
    OBVIOUS
  <2>1. CASE Next
    BY <2>1, WalkerKeeps, MineKeeps, GuiKeeps DEF Next
  <2>2. CASE UNCHANGED vars
    <3>1. CmdsKept  BY <2>2, CmdsSame DEF PresenceInv, vars
    <3> QED BY <2>2, <3>1, QuietKeeps DEF vars
  <2> QED BY <2>1, <2>2
<1> QED BY <1>1, InitKeeps, PTL DEF Spec

(* The GUI's counters are exact once it has read all that is on its way:   *)
(* the sessions' events, with the replies that passed them, add up.        *)
THEOREM CountersStaySound == Spec => []CountersSound
PROOF
<1>1. PresenceInv => CountersSound
  BY DEF PresenceInv, CountersSound, TypeOK, CountsExact, RoomCounted, OnlineCounted
<1> QED BY <1>1, PresenceInvariant, PTL

(* Who enters was not there, who leaves or speaks was, and nothing of the  *)
(* old room comes after the new one is announced.                          *)
THEOREM EventsStayInOrder == Spec => []EventsInOrder
PROOF
<1>1. PresenceInv => EventsInOrder  BY OrderImplied DEF PresenceInv
<1> QED BY <1>1, PresenceInvariant, PTL

(* WHO names at most as many players as it counts and as log in between    *)
(* its two halves.                                                         *)
THEOREM WhoStaysWithinCount == Spec => []WhoAgrees
PROOF
<1>1. PresenceInv => WhoAgrees  BY DEF PresenceInv, WhoBound, WhoAgrees
<1> QED BY <1>1, PresenceInvariant, PTL
==============================================================================
