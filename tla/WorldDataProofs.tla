--------------------------- MODULE WorldDataProofs ---------------------------
(***************************************************************************)
(* Proofs about the checks of the world, for any finite world file.  Of    *)
(* the map: the verdict of the breadth-first walk is right, no walk meets  *)
(* a zone that does not exist, and the depth-first walk always finds its   *)
(* loop.  Of the data: what Validate accepts is sound and what is sound is *)
(* accepted.  The latter needs that a chain of requirements which has not  *)
(* ended after as many links as there are quests runs in a circle, and     *)
(* that the fold over the steps of a quest which Validate computes counts  *)
(* each key item; both are inductions over the natural numbers.            *)
(*                                                                         *)
(* MapVerdict says nothing of the walk under way.  The invariant below     *)
(* does: what the walk knows lies in every set that holds the starting     *)
(* zone and its own exits, every exit of a visited zone is known or about  *)
(* to be looked at, and no zone is met twice, so that counting the visited *)
(* zones is the same as comparing the sets.                                *)
(***************************************************************************)
EXTENDS WorldData, FiniteSetTheorems, WellFoundedInduction, TLAPS

-----------------------------------------------------------------------------
(* Sequences without repetition. *)

NoRepeat(s) == \A i, j \in 1..Len(s) : s[i] = s[j] => i = j

Apart(s, t) == \A i \in 1..Len(s), j \in 1..Len(t) : s[i] # t[j]

LEMMA AppendTyped ==
    ASSUME NEW T, NEW s \in Seq(T), NEW e \in T
    PROVE  Append(s, e) \in Seq(T)
OBVIOUS

LEMMA SingleTyped == ASSUME NEW T, NEW e \in T PROVE <<e>> \in Seq(T)
OBVIOUS

LEMMA ReplaceTyped ==
    ASSUME NEW T, NEW s \in Seq(T), NEW i \in 1..Len(s), NEW e \in T
    PROVE  [s EXCEPT ![i] = e] \in Seq(T)
OBVIOUS

LEMMA AppendItems ==
    ASSUME NEW T, NEW s \in Seq(T), NEW e \in T
    PROVE  /\ Len(s) \in Nat /\ Len(Append(s, e)) = Len(s) + 1
           /\ \A i \in 1..Len(s) : Append(s, e)[i] = s[i]
           /\ Append(s, e)[Len(s) + 1] = e
OBVIOUS

LEMMA ContainsAppend ==
    ASSUME NEW T, NEW s \in Seq(T), NEW e \in T
    PROVE  \A x : Contains(Append(s, e), x) <=> Contains(s, x) \/ x = e
<1>1. \A x : Contains(s, x) \/ x = e => Contains(Append(s, e), x)
  BY AppendItems DEF Contains
<1>2. ASSUME NEW x, Contains(Append(s, e), x) PROVE Contains(s, x) \/ x = e
  <2>1. PICK i \in 1..Len(s) + 1 : Append(s, e)[i] = x
    BY <1>2, AppendItems DEF Contains
  <2>2. i \in 1..Len(s) \/ i = Len(s) + 1
    BY AppendItems
  <2> QED
    BY <2>1, <2>2, AppendItems DEF Contains
<1> QED
  BY <1>1, <1>2

LEMMA NoRepeatAppend ==
    ASSUME NEW T, NEW s \in Seq(T), NEW e \in T, NoRepeat(s), ~Contains(s, e)
    PROVE  NoRepeat(Append(s, e))
<1>1. \A i \in 1..Len(s) + 1 : i \in 1..Len(s) \/ i = Len(s) + 1
  BY AppendItems
<1> QED
  BY <1>1, AppendItems DEF NoRepeat, Contains

LEMMA ContainsTail ==
    ASSUME NEW T, NEW s \in Seq(T), s # <<>>
    PROVE  /\ Tail(s) \in Seq(T)
           /\ Head(s) \in T
           /\ \A x : Contains(s, x) <=> Contains(Tail(s), x) \/ x = Head(s)
BY DEF Contains

LEMMA NoRepeatTail ==
    ASSUME NEW T, NEW s \in Seq(T), s # <<>>, NoRepeat(s)
    PROVE  NoRepeat(Tail(s)) /\ ~Contains(Tail(s), Head(s))
BY DEF NoRepeat, Contains

(* A sequence without repetition is as long as a finite set it is drawn    *)
(* from exactly if it holds all of the set.                                *)
LEMMA CountIsCover ==
    ASSUME NEW T, IsFiniteSet(T), NEW s \in Seq(T), NoRepeat(s)
    PROVE  Len(s) = Cardinality(T) <=> \A x \in T : Contains(s, x)
<1>1. s \in Injection(1..Len(s), T)
  BY DEF NoRepeat, Injection, IsInjective
<1>2. Len(s) \in Nat /\ Cardinality(1..Len(s)) = Len(s)
  <2>1. Len(s) \in Nat
    OBVIOUS
  <2>2. Cardinality(1..Len(s)) = IF 1 > Len(s) THEN 0 ELSE Len(s) - 1 + 1
    BY <2>1, FS_Interval
  <2> QED
    BY <2>1, <2>2
<1>3. Len(s) = Cardinality(T) <=> s \in Surjection(1..Len(s), T)
  BY <1>1, <1>2, FS_Injection
<1>4. s \in Surjection(1..Len(s), T) <=> \A x \in T : Contains(s, x)
  BY DEF Surjection, Contains
<1> QED
  BY <1>3, <1>4

-----------------------------------------------------------------------------
(* The invariant. *)

Frame == [zone : world.zones, left : SUBSET world.zones]

MapTyped ==
    /\ world \in Worlds
    /\ visited \in Seq(world.zones)
    /\ queue \in Seq(world.zones)
    /\ left \subseteq world.zones
    /\ stack \in Seq(Frame)

(* The walks begin after validation, on what it let through.               *)
InOrder ==
    /\ phase \in {"parse", "validate"} =>
         visited = <<>> /\ queue = <<>> /\ left = {} /\ stack = <<>>
    /\ Validated => ExitsOK

NoneTwice == NoRepeat(visited) /\ NoRepeat(queue) /\ Apart(visited, queue)

HoldsItsExits(S) == StartZone \in S /\ \A z \in S : world.exits[z] \subseteq S

(* Nothing out of reach is known.                                          *)
WalkSound ==
    phase = "bfs" => \A S \in SUBSET world.zones : HoldsItsExits(S) =>
      left \subseteq S /\ \A x : Known(x) => x \in S

(* Nothing in reach is forgotten.                                          *)
WalkComplete ==
    phase = "bfs" =>
      /\ Known(StartZone)
      /\ \A z : Contains(visited, z) =>
           \A e \in world.exits[z] : Known(e) \/ e \in left

(* mapLooper has only ever gone down: no zone has been left, and the one   *)
(* it is in has all its exits still to try.                                *)
Descending ==
    /\ explored = {}
    /\ phase = "dfs" =>
         /\ stack # <<>>
         /\ Last(stack).left = world.exits[Last(stack).zone]

MapInv ==
    /\ MapTyped /\ InOrder /\ NoneTwice
    /\ WalkSound /\ WalkComplete /\ Descending
    /\ MapVerdict /\ WalksSucceed

(* The invariant holds in the initial states. *)
LEMMA InitInv == Init => MapInv
<1> SUFFICES ASSUME Init PROVE MapInv
  OBVIOUS
<1>1. MapTyped
  BY DEF Init, MapTyped, Frame
<1>2. why \notin {"requires", "data", "unconnected", "noloop"} /\ phase = "parse"
  BY WorldDataAssumption DEF WorldDataAssumption, Init
<1>3. InOrder /\ WalkSound /\ WalkComplete /\ Descending
  BY <1>2 DEF InOrder, WalkSound, WalkComplete, Descending, Init, Validated
<1>4. NoneTwice
  BY DEF NoneTwice, NoRepeat, Apart, Init
<1>5. MapVerdict /\ WalksSucceed
  BY <1>2 DEF MapVerdict, WalksSucceed
<1> QED
  BY <1>1, <1>3, <1>4, <1>5 DEF MapInv

(* What a step that stays out of the walks keeps: it only leads from       *)
(* parsing to validation, or to a refusal of another kind.                 *)
LEMMA OutsideTheWalks ==
    ASSUME MapInv, UNCHANGED <<world, bfsVars, dfsVars>>,
           \/ /\ phase \in {"parse", "validate"}
              /\ phase' \in {"parse", "validate"} /\ why' = why
              /\ phase' = "parse" => phase = "parse"
           \/ phase' = "refused" /\ why' \in {"requires", "data"}
           \/ phase' = phase /\ why' = why
    PROVE  MapInv'
<1> USE DEF MapInv, bfsVars, dfsVars
<1>1. MapTyped'
  BY DEF MapTyped, Frame
<1>2. InOrder'
  BY DEF InOrder, Validated, ExitsOK, Missing
<1>3. NoneTwice'
  BY DEF NoneTwice, NoRepeat, Apart
<1>4. WalkSound' /\ WalkComplete'
  BY DEF WalkSound, WalkComplete, HoldsItsExits, Known, Contains
<1>5. Descending'
  BY DEF Descending, Last
<1>6. MapVerdict' /\ WalksSucceed'
  BY DEF MapVerdict, WalksSucceed, Connected
<1> QED
  BY <1>1, <1>2, <1>3, <1>4, <1>5, <1>6

(* Validation gives the walk its first zone, the starting zone. *)
LEMMA ValidateInv == ASSUME MapInv, Validate PROVE MapInv'
<1>1. CASE phase' = "refused"
  BY <1>1, OutsideTheWalks DEF Validate, Refuse, bfsVars
<1>2. CASE phase' # "refused"
  <2>1. /\ ExitsOK /\ phase = "validate" /\ phase' = "bfs" /\ queue' = <<StartZone>>
        /\ UNCHANGED <<world, why, visited, left, stack, explored>>
    BY <1>2 DEF Validate, Refuse, dfsVars
  <2>2. visited = <<>> /\ left = {} /\ stack = <<>> /\ StartZone \in world.zones
    BY <2>1 DEF MapInv, InOrder, ExitsOK, Missing
  <2>3. MapTyped'
    <3>1. <<StartZone>> \in Seq(world.zones)
      BY <2>2, SingleTyped
    <3>2. queue' \in Seq(world.zones)
      BY <2>1, <3>1
    <3> QED
      BY <2>1, <3>2 DEF MapInv, MapTyped, Frame
  <2>4. InOrder'
    BY <2>1 DEF InOrder, Validated, ExitsOK, Missing
  <2>5. NoneTwice'
    BY <2>1, <2>2 DEF NoneTwice, NoRepeat, Apart
  <2>6. \A x : ~Contains(visited', x) /\ (Contains(queue', x) <=> x = StartZone)
    BY <2>1, <2>2 DEF Contains
  <2>7. \A x : Known(x)' <=> x = StartZone
    BY <2>6 DEF Known
  <2>8. WalkSound' /\ WalkComplete'
    BY <2>1, <2>2, <2>6, <2>7 DEF WalkSound, WalkComplete, HoldsItsExits
  <2>9. Descending' /\ MapVerdict' /\ WalksSucceed'
    BY <2>1 DEF MapInv, Descending, MapVerdict, WalksSucceed, Connected
  <2> QED
    BY <2>3, <2>4, <2>5, <2>8, <2>9 DEF MapInv
<1> QED
  BY <1>1, <1>2

(* The zone at the head of the queue is visited, and its exits looked at. *)
LEMMA VisitInv == ASSUME MapInv, Visit PROVE MapInv'
<1> DEFINE zone == Head(queue)
<1> USE DEF MapInv
<1>1. /\ queue \in Seq(world.zones) /\ visited \in Seq(world.zones)
      /\ phase = "bfs" /\ left = {} /\ queue # <<>>
      /\ ExitsOK
  BY DEF MapTyped, Visit, InOrder, Validated
<1>2. /\ Tail(queue) \in Seq(world.zones) /\ zone \in world.zones
      /\ \A x : Contains(queue, x) <=> Contains(Tail(queue), x) \/ x = zone
  BY <1>1, ContainsTail
<1>3. /\ visited' = Append(visited, zone) /\ queue' = Tail(queue)
      /\ phase' = phase /\ left' = world.exits[zone]
      /\ UNCHANGED <<world, why, stack, explored>>
  BY <1>2 DEF Visit, Missing, dfsVars
<1>4. \A x : Contains(visited', x) <=> Contains(visited, x) \/ x = zone
  BY <1>1, <1>2, <1>3, ContainsAppend
<1>5. \A x : Known(x)' <=> Known(x)
  BY <1>2, <1>3, <1>4 DEF Known
<1>6. MapTyped'
  <2>1. left' \subseteq world.zones
    BY <1>1, <1>2, <1>3 DEF ExitsOK, Missing
  <2> QED
    BY <1>1, <1>2, <1>3, <2>1 DEF MapTyped, Frame
<1>7. InOrder'
  BY <1>1, <1>3 DEF InOrder, Validated, ExitsOK, Missing
<1>8. NoneTwice'
  <2>1. ~Contains(visited, zone)
    BY <1>1 DEF NoneTwice, Apart, Contains
  <2>2. NoRepeat(visited')
    BY <1>1, <1>2, <1>3, <2>1, NoRepeatAppend DEF NoneTwice
  <2>3. NoRepeat(queue') /\ ~Contains(queue', zone)
    BY <1>1, <1>3, NoRepeatTail DEF NoneTwice
  <2>4. \A x : ~(Contains(visited, x) /\ Contains(queue, x))
    BY DEF NoneTwice, Apart, Contains
  <2>5. \A x : ~(Contains(visited', x) /\ Contains(queue', x))
    BY <1>2, <1>3, <1>4, <2>3, <2>4
  <2>6. Apart(visited', queue')
    BY <2>5 DEF Apart, Contains
  <2> QED
    BY <2>2, <2>3, <2>6 DEF NoneTwice
<1>9. WalkSound'
  <2> SUFFICES ASSUME NEW S \in SUBSET world.zones, HoldsItsExits(S)
               PROVE  world.exits[zone] \subseteq S /\ \A x : Known(x) => x \in S
    BY <1>1, <1>3, <1>5 DEF WalkSound, HoldsItsExits
  <2>1. \A x : Known(x) => x \in S
    BY <1>1 DEF WalkSound
  <2>2. zone \in S
    BY <1>2, <2>1 DEF Known
  <2> QED
    BY <2>1, <2>2 DEF HoldsItsExits
<1>10. WalkComplete'
  BY <1>1, <1>3, <1>4, <1>5 DEF WalkComplete
<1>11. Descending' /\ MapVerdict' /\ WalksSucceed'
  BY <1>1, <1>3 DEF Descending, MapVerdict, WalksSucceed, Connected
<1> QED
  BY <1>6, <1>7, <1>8, <1>9, <1>10, <1>11

(* An exit that is not known yet joins the queue. *)
LEMMA LookAtExitInv == ASSUME MapInv, NEW e \in left, LookAtExit(e) PROVE MapInv'
<1> USE DEF MapInv
<1>1. /\ queue \in Seq(world.zones) /\ visited \in Seq(world.zones)
      /\ phase = "bfs" /\ e \in world.zones
      /\ left' = left \ {e} /\ phase' = phase
      /\ UNCHANGED <<world, why, visited, stack, explored>>
  BY DEF MapTyped, LookAtExit, dfsVars
<1>2. queue' = IF Known(e) THEN queue ELSE Append(queue, e)
  BY DEF LookAtExit
<1>3. \A x : Contains(Append(queue, e), x) <=> Contains(queue, x) \/ x = e
  BY <1>1, ContainsAppend
<1>4. \A x : Contains(visited', x) <=> Contains(visited, x)
  BY <1>1
<1>5. \A x : Known(x)' <=> Known(x) \/ x = e
  BY <1>2, <1>3, <1>4 DEF Known
<1>6. MapTyped'
  <2>1. Append(queue, e) \in Seq(world.zones)
    BY <1>1, AppendTyped
  <2>2. queue' \in Seq(world.zones)
    BY <1>1, <1>2, <2>1
  <2> QED
    BY <1>1, <2>2 DEF MapTyped, Frame
<1>7. InOrder'
  BY <1>1 DEF InOrder, Validated, ExitsOK, Missing
<1>8. NoneTwice'
  <2>1. CASE Known(e)
    BY <1>1, <1>2, <2>1 DEF NoneTwice
  <2>2. CASE ~Known(e)
    <3>1. NoRepeat(queue')
      BY <1>1, <1>2, <2>2, NoRepeatAppend DEF NoneTwice, Known
    <3>2. \A x : ~(Contains(visited, x) /\ Contains(queue, x))
      BY DEF NoneTwice, Apart, Contains
    <3>3. \A x : ~(Contains(visited', x) /\ Contains(queue', x))
      BY <1>2, <1>3, <1>4, <2>2, <3>2 DEF Known
    <3>4. Apart(visited', queue')
      BY <3>3 DEF Apart, Contains
    <3> QED
      BY <1>1, <3>1, <3>4 DEF NoneTwice
  <2> QED
    BY <2>1, <2>2
<1>9. WalkSound'
  BY <1>1, <1>5 DEF WalkSound, HoldsItsExits
<1>10. WalkComplete'
  BY <1>1, <1>4, <1>5 DEF WalkComplete
<1>11. Descending' /\ MapVerdict' /\ WalksSucceed'
  BY <1>1 DEF Descending, MapVerdict, WalksSucceed, Connected
<1> QED
  BY <1>6, <1>7, <1>8, <1>9, <1>10, <1>11

(* When the walk is over the visited zones hold their exits, so that they  *)
(* are all the zones in reach. *)
LEMMA WalkedInv == ASSUME MapInv, Walked PROVE MapInv'
<1> USE DEF MapInv
<1>1. /\ visited \in Seq(world.zones) /\ NoRepeat(visited)
      /\ phase = "bfs" /\ left = {} /\ queue = <<>>
      /\ ExitsOK /\ world \in Worlds
  BY DEF MapTyped, Walked, InOrder, Validated, NoneTwice
<1>2. \A x : Known(x) <=> Contains(visited, x)
  BY <1>1 DEF Known, Contains
<1>3. Len(visited) = Cardinality(world.zones) <=> \A x \in world.zones : Contains(visited, x)
  BY <1>1, CountIsCover, WorldDataAssumption DEF WorldDataAssumption
<1>4. (\A x \in world.zones : Contains(visited, x)) <=> Connected
  <2>1. ASSUME \A x \in world.zones : Contains(visited, x) PROVE Connected
    <3> SUFFICES ASSUME NEW S \in SUBSET world.zones, HoldsItsExits(S)
                 PROVE  world.zones \subseteq S
      BY DEF Connected, HoldsItsExits
    <3> QED
      BY <1>1, <1>2, <2>1 DEF WalkSound
  <2>2. ASSUME Connected PROVE \A x \in world.zones : Contains(visited, x)
    <3> DEFINE V == {x \in world.zones : Contains(visited, x)}
    <3>1. StartZone \in V
      BY <1>1, <1>2 DEF WalkComplete, ExitsOK, Missing
    <3>2. \A z \in V : world.exits[z] \subseteq V
      BY <1>1, <1>2 DEF WalkComplete, ExitsOK, Missing
    <3>3. V = world.zones
      BY <2>2, <3>1, <3>2 DEF Connected
    <3> QED
      BY <3>3
  <2> QED
    BY <2>1, <2>2
<1>5. CASE Len(visited) # Cardinality(world.zones)
  <2>1. phase' = "refused" /\ why' = "unconnected" /\ ~Connected
        /\ UNCHANGED <<world, visited, queue, left, stack, explored>>
    BY <1>3, <1>4, <1>5 DEF Walked, Refuse, bfsVars, dfsVars
  <2>2. MapTyped'
    BY <2>1 DEF MapTyped, Frame
  <2>3. InOrder' /\ NoneTwice' /\ Descending'
    BY <1>1, <2>1 DEF InOrder, NoneTwice, Descending, ExitsOK, Missing
  <2>4. WalkSound' /\ WalkComplete'
    BY <2>1 DEF WalkSound, WalkComplete
  <2>5. MapVerdict' /\ WalksSucceed'
    BY <2>1 DEF MapVerdict, WalksSucceed, Connected
  <2> QED
    BY <2>2, <2>3, <2>4, <2>5
<1>6. CASE Len(visited) = Cardinality(world.zones)
  <2> DEFINE root == [zone |-> StartZone, left |-> world.exits[StartZone]]
  <2>1. /\ phase' = "dfs" /\ stack' = <<root>> /\ Connected
        /\ UNCHANGED <<world, why, visited, queue, left, explored>>
    BY <1>3, <1>4, <1>6 DEF Walked, bfsVars
  <2>2. root \in Frame
    BY <1>1 DEF Frame, ExitsOK, Missing
  <2>3. MapTyped'
    <3>1. <<root>> \in Seq(Frame)
      BY <2>2, SingleTyped
    <3>2. stack' \in Seq(Frame) /\ Frame' = Frame
      BY <2>1, <3>1 DEF Frame
    <3> QED
      BY <2>1, <3>2 DEF MapTyped
  <2>4. InOrder' /\ NoneTwice'
    BY <1>1, <2>1 DEF InOrder, NoneTwice, ExitsOK, Missing
  <2>5. WalkSound' /\ WalkComplete'
    BY <2>1 DEF WalkSound, WalkComplete
  <2>6. Descending'
    <3>1. Last(stack') = root /\ stack' # <<>>
      BY <2>1 DEF Last
    <3> QED
      BY <2>1, <3>1 DEF Descending
  <2>7. MapVerdict' /\ WalksSucceed'
    BY <2>1 DEF MapVerdict, WalksSucceed, Connected
  <2> QED
    BY <2>3, <2>4, <2>5, <2>6, <2>7
<1> QED
  BY <1>5, <1>6

(* mapLooper ends at a zone on its path, or goes down to a new one. *)
LEMMA MapLooperInv == ASSUME MapInv, MapLooper PROVE MapInv'
<1> DEFINE top == Last(stack)
<1> USE DEF MapInv
<1>1. /\ phase = "dfs" /\ ExitsOK /\ Connected
      /\ stack \in Seq(Frame) /\ stack # <<>>
      /\ top.left = world.exits[top.zone] /\ explored = {}
  BY DEF MapTyped, MapLooper, InOrder, Validated, Descending, MapVerdict
<1>2. top \in Frame /\ Len(stack) \in 1..Len(stack)
  BY <1>1 DEF Last
<1>3. top.zone \in world.zones /\ top.left # {} /\ top.left \subseteq world.zones
  BY <1>1, <1>2 DEF Frame, ExitsOK
<1>4. PICK e \in top.left : TryExit(top, e)
  BY <1>3 DEF MapLooper
<1>5. UNCHANGED <<world, why, visited, queue, left>> /\ e \in world.zones
  BY <1>3 DEF MapLooper, bfsVars
<1> DEFINE tried == [stack EXCEPT ![Len(stack)].left = @ \ {e}]
           down == [zone |-> e, left |-> world.exits[e]]
<1>6. CASE OnPath(e)
  <2>1. phase' = "listen" /\ UNCHANGED <<stack, explored>>
    BY <1>4, <1>6 DEF TryExit, dfsVars
  <2>2. MapTyped'
    BY <1>5, <2>1 DEF MapTyped, Frame
  <2>3. InOrder' /\ NoneTwice' /\ Descending'
    BY <1>1, <1>5, <2>1 DEF InOrder, NoneTwice, Descending, ExitsOK, Missing
  <2>4. WalkSound' /\ WalkComplete' /\ MapVerdict' /\ WalksSucceed'
    BY <1>1, <1>5, <2>1 DEF WalkSound, WalkComplete, MapVerdict, WalksSucceed, Connected
  <2> QED
    BY <2>2, <2>3, <2>4
<1>7. CASE ~OnPath(e)
  <2>1. phase' = "dfs" /\ stack' = Append(tried, down) /\ explored' = {}
    BY <1>1, <1>4, <1>5, <1>7 DEF TryExit, Missing
  <2>2. tried \in Seq(Frame)
    <3>1. [top EXCEPT !.left = @ \ {e}] \in Frame
      BY <1>2 DEF Frame
    <3>2. tried = [stack EXCEPT ![Len(stack)] = [top EXCEPT !.left = @ \ {e}]]
      BY <1>1 DEF Last
    <3>3. [stack EXCEPT ![Len(stack)] = [top EXCEPT !.left = @ \ {e}]] \in Seq(Frame)
      BY <1>1, <1>2, <3>1, ReplaceTyped
    <3> HIDE DEF tried
    <3> QED
      BY <3>2, <3>3
  <2>3. down \in Frame
    BY <1>1, <1>5 DEF Frame, ExitsOK, Missing
  <2>4. MapTyped'
    <3>1. Append(tried, down) \in Seq(Frame)
      BY <2>2, <2>3, AppendTyped
    <3>2. stack' \in Seq(Frame) /\ Frame' = Frame
      BY <1>5, <2>1, <3>1 DEF Frame
    <3> QED
      BY <1>5, <3>2 DEF MapTyped
  <2>5. InOrder' /\ NoneTwice'
    BY <1>1, <1>5, <2>1 DEF InOrder, NoneTwice, ExitsOK, Missing
  <2>6. Descending'
    <3>1. stack' # <<>> /\ Last(stack') = down
      BY <2>1, <2>2 DEF Last
    <3> QED
      BY <1>5, <2>1, <3>1 DEF Descending
  <2>7. WalkSound' /\ WalkComplete' /\ MapVerdict' /\ WalksSucceed'
    BY <1>1, <1>5, <2>1 DEF WalkSound, WalkComplete, MapVerdict, WalksSucceed, Connected
  <2> QED
    BY <2>4, <2>5, <2>6, <2>7
<1> QED
  BY <1>6, <1>7

(* Every step keeps the invariant. *)
LEMMA NextInv == ASSUME MapInv, [Next]_vars PROVE MapInv'
<1>1. CASE UNCHANGED vars
  BY <1>1, OutsideTheWalks DEF vars
<1>2. ASSUME NEW q \in todo, BeginChain(q) PROVE MapInv'
  BY <1>2, OutsideTheWalks DEF BeginChain
<1>3. CASE LeaveChain
  BY <1>3, OutsideTheWalks DEF LeaveChain
<1>4. CASE FollowChain
  BY <1>4, OutsideTheWalks DEF FollowChain
<1>5. CASE BadChain
  BY <1>5, OutsideTheWalks DEF BadChain, Refuse
<1>6. CASE Parsed
  BY <1>6, OutsideTheWalks DEF Parsed
<1> QED
  BY <1>1, <1>2, <1>3, <1>4, <1>5, <1>6, ValidateInv, VisitInv, LookAtExitInv,
     WalkedInv, MapLooperInv DEF Next

LEMMA InvHolds == Spec => []MapInv
BY InitInv, NextInv, PTL DEF Spec

-----------------------------------------------------------------------------
(* The breadth-first walk finds out whether every zone can be reached from *)
(* the starting zone, for every world file and every order of its exits.   *)
THEOREM MapVerdictHolds == Spec => []MapVerdict
<1>1. MapInv => MapVerdict
  BY DEF MapInv
<1> QED
  BY <1>1, InvHolds, PTL

(* No walk over a validated map dereferences a zone that does not exist,   *)
(* and mapLoopExists is never false: with an exit in every zone, the walk  *)
(* only goes down until it meets its own path.                             *)
THEOREM WalksSucceedHolds == Spec => []WalksSucceed
<1>1. MapInv => WalksSucceed
  BY DEF MapInv
<1> QED
  BY <1>1, InvHolds, PTL
-----------------------------------------------------------------------------
(* The data.  The chains of the quests, and the fold over the steps of    *)
(* each.  A chain is given up when it ends or when it has more links than  *)
(* there are quests, and then some circle lies beside the quest it started *)
(* from: the invariant keeps the quests met, all different, or that circle.*)

(* The sets of quests that wait for themselves: what one of them requires  *)
(* is one of them.                                                         *)
Circles ==
    {S \in SUBSET world.quests : S # {} /\ \A q \in S : world.requires[q] \in S}

(* What ParseYmlData has found of q: it requires a quest or nothing, and   *)
(* no circle turns on it.                                                  *)
Cleared(q) ==
    /\ world.requires[q] \in world.quests \cup {None}
    /\ \A S \in Circles : q \in S => \E T \in Circles : T \subseteq S /\ T # S

(* The quests met on the chain of key, none of them twice: each requires   *)
(* another of them or the current one.                                     *)
Met(P) ==
    /\ P \subseteq world.quests \ {key} /\ Cardinality(P) = steps
    /\ \A p \in P \cup {key} : world.requires[p] \in P \cup {current}
    /\ \A S \in Circles : key \in S => P \subseteq S

(* A circle the chain of key has entered, and key is not part of.          *)
Aside(T) ==
    /\ T \in Circles /\ key \notin T
    /\ \A S \in Circles : key \in S => T \subseteq S

Following ==
    /\ \A S \in Circles : key \in S => current \in S
    /\ \E q \in world.quests : world.requires[q] = current
    /\ world.requires[key] \in world.quests
          \/ (steps = 0 /\ current = world.requires[key])
    /\ (\E P : Met(P)) \/ (\E T : Aside(T))

ChainInv ==
    phase = "parse" =>
      /\ \A q \in world.quests : q \notin todo /\ q # key => Cleared(q)
      /\ key # None => Following

DataInv ==
    /\ TypeOK /\ ChainInv
    /\ phase = "validate" \/ Validated => RequiresSound
    /\ Validated => KeyItemsBalanced
    /\ why = "requires" => ~RequiresSound

-----------------------------------------------------------------------------
(* The steps of a quest. *)

(* Every set of numbers has a least one: the order of Nat is well-founded. *)
LEMMA LeastNumber ==
    ASSUME NEW N \in SUBSET Nat, N # {}
    PROVE  \E n \in N : \A m \in N : n <= m
PROOF
<1> DEFINE Less == {p \in Nat \X Nat : p[1] < p[2]}
<1>1. IsWellFoundedOn(Less, Nat)
  BY NatLessThanWellFounded DEF OpToRel
<1> HIDE DEF Less
<1>2. PICK n \in N : \A m \in N : <<m, n>> \notin Less  BY <1>1, WFMin
<1>3. ASSUME NEW m \in N  PROVE n <= m
  <2>1. m < n => <<m, n>> \in Less  BY DEF Less
  <2> QED BY <1>2, <2>1
<1> QED BY <1>3

(* What holds of 0, and of n + 1 if it holds of n, holds of every number:  *)
(* induction, for a set.                                                   *)
LEMMA Induction ==
    ASSUME NEW S, 0 \in S, \A n \in Nat : n \in S => n + 1 \in S
    PROVE  Nat \subseteq S
PROOF
<1> SUFFICES ASSUME Nat \ S # {}  PROVE FALSE
  OBVIOUS
<1>1. PICK n \in Nat \ S : \A m \in Nat \ S : n <= m
  BY LeastNumber
<1>2. n # 0 /\ n - 1 \in Nat  BY <1>1
<1>3. n - 1 \in S  BY <1>1, <1>2
<1> QED BY <1>1, <1>2, <1>3

(* FoldLeft is defined by a function of the sets of indices that are left. *)
Iterates(f, b, s) ==
    f = [t \in SUBSET DOMAIN s |->
           IF t = {} THEN b ELSE CheckStep(f[t \ {Max(t)}], s[Max(t)])]

LEMMA LastIndex ==
    ASSUME NEW n \in Nat, NEW t \in SUBSET (1 .. n), n \in t
    PROVE  Max(t) = n
PROOF
<1>1. n \in t /\ \A y \in t : n >= y  OBVIOUS
<1>2. Max(t) \in t /\ \A y \in t : Max(t) >= y  BY <1>1, Zenon DEF Max
<1>3. n \in Nat /\ t \subseteq Int  OBVIOUS
<1>4. Max(t) >= n /\ n >= Max(t) /\ Max(t) \in Int  BY <1>1, <1>2, <1>3
<1> QED BY <1>3, <1>4

(* There is such a function: it grows with the length of the sequence.     *)
LEMMA IteratesExists ==
    ASSUME NEW b, NEW s, NEW n \in Nat, DOMAIN s = 1 .. n
    PROVE  \E f : Iterates(f, b, s)
PROOF
<1> DEFINE Upto(f, k) ==
             f = [t \in SUBSET (1 .. k) |->
                    IF t = {} THEN b ELSE CheckStep(f[t \ {Max(t)}], s[Max(t)])]
           S == {k \in Nat : \E f : Upto(f, k)}
<1>1. 0 \in S
  <2>1. \A t \in SUBSET (1 .. 0) : t = {}  OBVIOUS
  <2>2. Upto([t \in SUBSET (1 .. 0) |-> b], 0)  BY <2>1
  <2> QED BY <2>2
<1>2. ASSUME NEW k \in Nat, k \in S  PROVE k + 1 \in S
  <2>1. PICK f : Upto(f, k)  BY <1>2
  <2> DEFINE g == [t \in SUBSET (1 .. k + 1) |->
                     IF k + 1 \in t THEN CheckStep(f[t \ {k + 1}], s[k + 1]) ELSE f[t]]
  <2>2. \A t \in SUBSET (1 .. k) : t \in SUBSET (1 .. k + 1) /\ k + 1 \notin t
    OBVIOUS
  <2>3. \A t \in SUBSET (1 .. k) : g[t] = f[t]  BY <2>2
  <2>4. \A t \in SUBSET (1 .. k) :
          f[t] = IF t = {} THEN b ELSE CheckStep(f[t \ {Max(t)}], s[Max(t)])
    BY <2>1
  <2>5. ASSUME NEW t \in SUBSET (1 .. k + 1)
        PROVE  g[t] = IF t = {} THEN b ELSE CheckStep(g[t \ {Max(t)}], s[Max(t)])
    <3>1. CASE k + 1 \in t
      <4>1. Max(t) = k + 1  BY <3>1, LastIndex
      <4>2. t \ {k + 1} \in SUBSET (1 .. k)  OBVIOUS
      <4> HIDE DEF g
      <4>3. g[t] = CheckStep(f[t \ {k + 1}], s[k + 1])  BY <3>1 DEF g
      <4> QED BY <2>3, <3>1, <4>1, <4>2, <4>3
    <3>2. CASE k + 1 \notin t
      <4>1. t \in SUBSET (1 .. k)  BY <3>2
      <4>2. t \ {Max(t)} \in SUBSET (1 .. k)  BY <4>1
      <4> QED BY <2>3, <2>4, <4>1, <4>2
    <3> QED BY <3>1, <3>2
  <2>6. Upto(g, k + 1)  BY <2>5
  <2>7. \E h : Upto(h, k + 1)
    <3> HIDE DEF g, Upto
    <3> QED BY <2>6
  <2>8. k + 1 \in Nat  OBVIOUS
  <2> HIDE DEF Upto
  <2> QED BY <2>7, <2>8
<1> HIDE DEF S
<1>3. n \in S  BY <1>1, <1>2, Induction
<1> QED BY <1>3 DEF S, Iterates

(* h is a run of CheckStep over s: what it comes to after each step.        *)
Runs(h, b, s) ==
    /\ h[0] = b
    /\ \A k \in 1 .. Len(s) : h[k] = CheckStep(h[k - 1], s[k])

(* The fold is the end of a run. *)
LEMMA FoldRuns ==
    ASSUME NEW b, NEW L, NEW s \in Seq(L)
    PROVE  \E h : Runs(h, b, s) /\ FoldLeft(CheckStep, b, s) = h[Len(s)]
PROOF
<1>1. Len(s) \in Nat /\ DOMAIN s = 1 .. Len(s)  OBVIOUS
<1> DEFINE f == CHOOSE f : Iterates(f, b, s)
           h == [k \in 0 .. Len(s) |-> f[1 .. k]]
<1>2. Iterates(f, b, s)
  <2>1. \E g : Iterates(g, b, s)  BY <1>1, IteratesExists
  <2> QED BY <2>1
<1>3. FoldLeft(CheckStep, b, s) = f[1 .. Len(s)]
  BY <1>1 DEF FoldLeft, MapThenFoldSet, Iterates
<1> HIDE DEF f
<1>4. h[0] = b
  <2>1. 1 .. 0 = {} /\ {} \in SUBSET (DOMAIN s)  BY <1>1
  <2> QED BY <1>2, <2>1 DEF Iterates
<1>5. ASSUME NEW k \in 1 .. Len(s)  PROVE h[k] = CheckStep(h[k - 1], s[k])
  <2>1. k \in Nat /\ k \in 1 .. k /\ 1 .. k \subseteq 1 .. Len(s)  BY <1>1
  <2>2. Max(1 .. k) = k  BY <2>1, LastIndex
  <2>3. 1 .. k \in SUBSET (DOMAIN s) /\ 1 .. k # {}  BY <1>1, <2>1
  <2>4. f[1 .. k] = CheckStep(f[(1 .. k) \ {k}], s[k])
    BY <1>2, <2>2, <2>3 DEF Iterates
  <2>5. (1 .. k) \ {k} = 1 .. (k - 1)  OBVIOUS
  <2>6. h[k] = f[1 .. k] /\ h[k - 1] = f[1 .. (k - 1)]  BY <1>1
  <2> QED BY <2>4, <2>5, <2>6
<1>6. h[Len(s)] = f[1 .. Len(s)]  BY <1>1
<1> QED BY <1>3, <1>4, <1>5, <1>6 DEF Runs

(* What a step grants leaves the hand only by being received, and what is  *)
(* received was granted; no check that fails is forgotten.                 *)
LEMMA BalancedSteps ==
    ASSUME NEW L, NEW s \in Seq(L),
           FoldLeft(CheckStep, [hand |-> {}, ok |-> TRUE], s) = [hand |-> {}, ok |-> TRUE]
    PROVE  \A i \in 1 .. Len(s) :
             /\ \A k \in s[i].grants : \E j \in i .. Len(s) : k \in s[j].receives
             /\ \A k \in s[i].receives :
                  \/ k \in GrantedKeyItems
                  \/ \E j \in 1 .. Len(s) : k \in s[j].grants
PROOF
<1> DEFINE n == Len(s)
           b == [hand |-> {}, ok |-> TRUE]
<1>1. n \in Nat  OBVIOUS
<1>2. PICK h : Runs(h, b, s) /\ FoldLeft(CheckStep, b, s) = h[n]
  BY FoldRuns
<1>3. h[n] = b  BY <1>2
<1>4. h[0] = b /\ \A k \in 1 .. n : h[k] = CheckStep(h[k - 1], s[k])
  BY <1>2 DEF Runs
<1> HIDE DEF n
<1>5. ASSUME NEW k \in Nat, k + 1 <= n
      PROVE  /\ h[k + 1].hand = (h[k].hand \cup s[k + 1].grants) \ s[k + 1].receives
             /\ h[k + 1].ok <=>
                  /\ h[k].ok
                  /\ s[k + 1].grants \cap h[k].hand = {}
                  /\ s[k + 1].receives \ (h[k].hand \cup s[k + 1].grants)
                       \subseteq GrantedKeyItems
  <2>1. k + 1 \in 1 .. n /\ (k + 1) - 1 = k  BY <1>1, <1>5
  <2>2. h[k + 1] = CheckStep(h[k], s[k + 1])  BY <1>4, <2>1
  <2>3. CheckStep(h[k], s[k + 1]).hand = (h[k].hand \cup s[k + 1].grants) \ s[k + 1].receives
    BY Zenon DEF CheckStep
  <2>4. CheckStep(h[k], s[k + 1]).ok =
          (/\ h[k].ok
           /\ s[k + 1].grants \cap h[k].hand = {}
           /\ s[k + 1].receives \ (h[k].hand \cup s[k + 1].grants)
                \subseteq GrantedKeyItems)
    BY Zenon DEF CheckStep
  <2> QED BY <2>2, <2>3, <2>4
<1>6. \A k \in 0 .. n : h[k].ok
  <2> DEFINE S == {k \in Nat : k <= n => h[n - k].ok}
  <2>1. 0 \in S  BY <1>1, <1>3
  <2>2. ASSUME NEW k \in Nat, k \in S  PROVE k + 1 \in S
    <3> SUFFICES ASSUME k + 1 <= n  PROVE h[n - (k + 1)].ok
      OBVIOUS
    <3>1. n - (k + 1) \in Nat /\ (n - (k + 1)) + 1 = n - k /\ n - k <= n /\ k <= n
      BY <1>1
    <3>2. h[n - k].ok  BY <2>2, <3>1
    <3> HIDE DEF S
    <3> QED BY <1>5, <3>1, <3>2
  <2> HIDE DEF S
  <2>3. Nat \subseteq S  BY <2>1, <2>2, Induction
  <2> SUFFICES ASSUME NEW k \in 0 .. n  PROVE h[k].ok
    OBVIOUS
  <2>4. n - k \in Nat /\ n - k <= n /\ n - (n - k) = k  BY <1>1
  <2> QED BY <2>3, <2>4 DEF S
<1>7. ASSUME NEW i \in 1 .. n, NEW k \in s[i].grants,
             \A j \in i .. n : k \notin s[j].receives
      PROVE  FALSE
  <2> DEFINE S == {m \in Nat : i <= m /\ m <= n => k \in h[m].hand}
  <2>1. 0 \in S  OBVIOUS
  <2>2. ASSUME NEW m \in Nat, m \in S  PROVE m + 1 \in S
    <3> SUFFICES ASSUME i <= m + 1, m + 1 <= n  PROVE k \in h[m + 1].hand
      OBVIOUS
    <3>1. m + 1 \in i .. n  BY <1>1
    <3>2. k \notin s[m + 1].receives  BY <1>7, <3>1
    <3>3. k \in h[m].hand \/ m + 1 = i  BY <1>1, <2>2
    <3> HIDE DEF S
    <3> QED BY <1>5, <1>7, <3>2, <3>3
  <2> HIDE DEF S
  <2>3. n \in S  BY <1>1, <2>1, <2>2, Induction
  <2>4. k \in h[n].hand  BY <1>1, <2>3 DEF S
  <2> QED BY <1>3, <2>4
<1>8. ASSUME NEW i \in 1 .. n, NEW k \in s[i].receives, k \notin GrantedKeyItems
      PROVE  \E j \in 1 .. n : k \in s[j].grants
  <2> SUFFICES ASSUME \A j \in 1 .. n : k \notin s[j].grants  PROVE FALSE
    OBVIOUS
  <2> DEFINE S == {m \in Nat : m <= n => k \notin h[m].hand}
  <2>1. 0 \in S  BY <1>4
  <2>2. ASSUME NEW m \in Nat, m \in S  PROVE m + 1 \in S
    <3> SUFFICES ASSUME m + 1 <= n  PROVE k \notin h[m + 1].hand
      OBVIOUS
    <3>1. m + 1 \in 1 .. n /\ m <= n  BY <1>1
    <3>2. k \notin h[m].hand  BY <2>2, <3>1
    <3> HIDE DEF S
    <3> QED BY <1>5, <3>1, <3>2
  <2> HIDE DEF S
  <2>3. Nat \subseteq S  BY <2>1, <2>2, Induction
  <2>4. i - 1 \in Nat /\ (i - 1) + 1 = i /\ i - 1 <= n /\ i <= n /\ i \in 0 .. n  BY <1>1
  <2>5. k \notin h[i - 1].hand  BY <2>3, <2>4 DEF S
  <2>6. s[i].receives \ (h[i - 1].hand \cup s[i].grants) \subseteq GrantedKeyItems
    <3>1. h[(i - 1) + 1].ok  BY <1>6, <2>4
    <3>2. s[(i - 1) + 1].receives \ (h[i - 1].hand \cup s[(i - 1) + 1].grants)
            \subseteq GrantedKeyItems
      BY <1>5, <2>4, <3>1
    <3> QED BY <2>4, <3>2
  <2> QED BY <1>8, <2>5, <2>6
<1> QED BY <1>7, <1>8 DEF n

LEMMA GrantedSomewhere ==
    ASSUME NEW k \in GrantedKeyItems
    PROVE  \E r \in world.quests :
             world.reward[r] = k \/ \E j \in DOMAIN world.steps[r] : k \in world.steps[r][j].grants
PROOF
<1> DEFINE actions == UNION {Range(world.steps[r]) : r \in world.quests}
           paid == {world.reward[r] : r \in world.quests}
<1>1. k \in (UNION {step.grants : step \in actions}) \cup (paid \ {None})
  BY Zenon DEF GrantedKeyItems
<1>2. ASSUME NEW step \in actions, k \in step.grants
      PROVE  \E r \in world.quests : \E j \in DOMAIN world.steps[r] :
               k \in world.steps[r][j].grants
  <2>1. PICK r \in world.quests : step \in Range(world.steps[r])  BY <1>2
  <2> QED BY <1>2, <2>1 DEF Range
<1>3. k \in paid => \E r \in world.quests : world.reward[r] = k  OBVIOUS
<1> HIDE DEF actions, paid
<1>4. k \in paid \/ \E step \in actions : k \in step.grants  BY <1>1
<1> QED BY <1>2, <1>3, <1>4, Zenon

(* The check of every quest's steps is the balance of the key items.       *)
LEMMA CheckedIsBalanced ==
    ASSUME world \in Worlds, \A q \in world.quests : KeyItemsOK(q)
    PROVE  KeyItemsBalanced
PROOF
<1> SUFFICES ASSUME NEW q \in world.quests, NEW i \in DOMAIN world.steps[q]
             PROVE  /\ \A k \in world.steps[q][i].grants :
                         \E j \in i .. Len(world.steps[q]) : k \in world.steps[q][j].receives
                    /\ \A k \in world.steps[q][i].receives : \E r \in world.quests :
                         \/ world.reward[r] = k
                         \/ \E j \in DOMAIN world.steps[r] : k \in world.steps[r][j].grants
  BY DEF KeyItemsBalanced
<1> DEFINE s == world.steps[q]
<1>1. \A r \in world.quests : world.steps[r] \in Seq(Range(world.steps[r]))
  BY WorldDataAssumption DEF WorldDataAssumption
<1>2. s \in Seq(Range(s))  BY <1>1
<1>3. FoldLeft(CheckStep, [hand |-> {}, ok |-> TRUE], s) = [hand |-> {}, ok |-> TRUE]
  BY DEF KeyItemsOK
<1> HIDE DEF s
<1>4. \A j \in 1 .. Len(s) :
        /\ \A k \in s[j].grants : \E m \in j .. Len(s) : k \in s[m].receives
        /\ \A k \in s[j].receives :
             \/ k \in GrantedKeyItems
             \/ \E m \in 1 .. Len(s) : k \in s[m].grants
  BY <1>2, <1>3, BalancedSteps
<1>5. DOMAIN s = 1 .. Len(s) /\ i \in DOMAIN s  BY <1>2 DEF s
<1>6. \A k \in s[i].grants : \E j \in i .. Len(s) : k \in s[j].receives
  BY <1>4, <1>5
<1>7. ASSUME NEW k \in s[i].receives
      PROVE  \E r \in world.quests :
               world.reward[r] = k \/ \E j \in DOMAIN world.steps[r] : k \in world.steps[r][j].grants
  <2>1. CASE k \in GrantedKeyItems  BY <2>1, GrantedSomewhere
  <2>2. CASE \E m \in 1 .. Len(s) : k \in s[m].grants
    BY <1>5, <2>2 DEF s
  <2> QED BY <1>4, <1>5, <1>7, <2>1, <2>2
<1> QED BY <1>6, <1>7 DEF s

-----------------------------------------------------------------------------
(* The chains of the quests. *)

LEMMA LeastCircle ==
    ASSUME world \in Worlds, Circles # {}
    PROVE  \E S \in Circles : \A T \in Circles : T \subseteq S => T = S
PROOF
<1> DEFINE Sizes == {Cardinality(S) : S \in Circles}
<1>1. \A S \in Circles : IsFiniteSet(S) /\ Cardinality(S) \in Nat
  BY FS_Subset, FS_CardinalityType, WorldDataAssumption DEF Circles, WorldDataAssumption
<1>2. Sizes \in SUBSET Nat /\ Sizes # {}  BY <1>1
<1>3. PICK n \in Sizes : \A m \in Sizes : n <= m
  <2> HIDE DEF Sizes
  <2> QED BY <1>2, LeastNumber
<1>4. PICK S \in Circles : Cardinality(S) = n  BY <1>3
<1>5. ASSUME NEW T \in Circles, T \subseteq S  PROVE T = S
  <2>1. Cardinality(S) <= Cardinality(T)  BY <1>3, <1>4
  <2>2. T # S => Cardinality(T) < Cardinality(S)  BY <1>1, <1>5, FS_Subset
  <2> QED BY <1>1, <2>1, <2>2
<1> QED BY <1>5

(* No circle is left if none turns on any quest: a least one would.        *)
LEMMA AllCleared ==
    ASSUME world \in Worlds, \A q \in world.quests : Cleared(q)
    PROVE  RequiresSound
PROOF
<1>1. Circles = {}
  <2> SUFFICES ASSUME Circles # {}  PROVE FALSE
    OBVIOUS
  <2>1. PICK S \in Circles : \A T \in Circles : T \subseteq S => T = S  BY LeastCircle
  <2>2. PICK q \in world.quests : q \in S  BY DEF Circles
  <2> QED BY <2>1, <2>2 DEF Cleared
<1> QED BY <1>1 DEF RequiresSound, Circles, Cleared

LEMMA CircleIsUnsound ==
    ASSUME Circles # {}  PROVE ~RequiresSound
BY DEF Circles, RequiresSound

LEMMA QuestsFinite ==
    ASSUME world \in Worlds
    PROVE  /\ IsFiniteSet(world.quests) /\ Cardinality(world.quests) \in Nat
           /\ None \notin world.quests
           /\ None \notin {"requires", "data", "unconnected", "noloop"}
BY WorldDataAssumption, FS_CardinalityType DEF WorldDataAssumption

LEMMA BeginChainData ==
    ASSUME DataInv, world \in Worlds, NEW q \in todo, BeginChain(q)
    PROVE  DataInv'
PROOF
<1>1. /\ phase = "parse" /\ key = None /\ q \in world.quests
      /\ phase' = phase /\ why' = why /\ world' = world /\ explored' = explored
      /\ todo' = todo \ {q} /\ key' = q /\ current' = world.requires[q] /\ steps' = 0
  BY DEF BeginChain, DataInv, TypeOK, dfsVars
<1>2. TypeOK'  BY <1>1, QuestsFinite DEF DataInv, TypeOK
<1>3. \A r \in world.quests : r \notin todo' /\ r # key' => Cleared(r)
  BY <1>1, QuestsFinite DEF DataInv, ChainInv
<1>4. \A r : Cleared(r)' <=> Cleared(r)  BY <1>1 DEF Cleared, Circles
<1>5. Following'
  <2>1. Met({})'
    <3>1. Cardinality({}) = 0  BY FS_EmptySet
    <3> QED BY <1>1, <3>1 DEF Met
  <2>2. \A S \in Circles' : q \in S => world.requires[q] \in S  BY <1>1 DEF Circles
  <2> QED BY <1>1, <2>1, <2>2 DEF Following
<1>6. ChainInv'  BY <1>1, <1>3, <1>4, <1>5 DEF ChainInv
<1>7. ~Validated' /\ phase' # "validate" /\ why' # "requires"
  <2>1. why = None  BY <1>1 DEF DataInv, TypeOK
  <2> QED BY <1>1, <2>1, QuestsFinite DEF Validated
<1> QED BY <1>2, <1>6, <1>7 DEF DataInv

(* A chain that is longer than there are quests has entered a circle.      *)
LEMMA LeaveChainData ==
    ASSUME DataInv, world \in Worlds, LeaveChain
    PROVE  DataInv'
PROOF
<1>1. /\ phase = "parse" /\ key # None /\ key \in world.quests /\ Enough
      /\ phase' = phase /\ why' = why /\ world' = world /\ explored' = explored
      /\ todo' = todo /\ key' = None /\ current' = current /\ steps' = steps
  BY DEF LeaveChain, DataInv, TypeOK, dfsVars
<1>2. TypeOK'  BY <1>1 DEF DataInv, TypeOK
<1>3. Following /\ steps \in Nat  BY <1>1, QuestsFinite DEF DataInv, ChainInv, TypeOK
<1>4. world.requires[key] \in world.quests \cup {None}
  <2>1. Cardinality(world.quests) # 0  BY <1>1, QuestsFinite, FS_EmptySet
  <2> QED BY <1>1, <1>3, <2>1, QuestsFinite DEF Following, Enough
<1>5. ASSUME NEW S \in Circles, key \in S
      PROVE  \E T \in Circles : T \subseteq S /\ T # S
  <2>1. current \in S  BY <1>3, <1>5 DEF Following
  <2>2. current # None  BY <2>1, QuestsFinite DEF Circles
  <2>3. steps >= Cardinality(world.quests)  BY <1>1, <2>2 DEF Enough
  <2>4. ASSUME NEW P, Met(P)  PROVE FALSE
    <3>1. /\ IsFiniteSet(world.quests \ {key})
          /\ Cardinality(world.quests \ {key}) = Cardinality(world.quests) - 1
      BY <1>1, QuestsFinite, FS_RemoveElement
    <3>2. Cardinality(P) <= Cardinality(world.quests \ {key})
      BY <2>4, <3>1, FS_Subset DEF Met
    <3> QED BY <1>3, <2>3, <2>4, <3>1, <3>2, QuestsFinite DEF Met
  <2>5. PICK T : Aside(T)  BY <1>3, <2>4 DEF Following
  <2> QED BY <1>5, <2>5 DEF Aside
<1>6. Cleared(key)  BY <1>4, <1>5 DEF Cleared
<1>7. \A r : Cleared(r)' <=> Cleared(r)  BY <1>1 DEF Cleared, Circles
<1>8. ChainInv'
  BY <1>1, <1>6, <1>7 DEF DataInv, ChainInv
<1>9. ~Validated' /\ phase' # "validate" /\ why' # "requires"
  <2>1. why = None  BY <1>1 DEF DataInv, TypeOK
  <2> QED BY <1>1, <2>1, QuestsFinite DEF Validated
<1> QED BY <1>2, <1>8, <1>9 DEF DataInv

(* The chain meets a new quest, or closes a circle beside its start.       *)
LEMMA FollowChainData ==
    ASSUME DataInv, world \in Worlds, FollowChain
    PROVE  DataInv'
PROOF
<1>1. /\ phase = "parse" /\ key # None /\ key \in world.quests
      /\ ~Enough /\ current # key /\ current \in world.quests
      /\ phase' = phase /\ why' = why /\ world' = world /\ explored' = explored
      /\ todo' = todo /\ key' = key
      /\ current' = world.requires[current] /\ steps' = steps + 1
  BY DEF FollowChain, DataInv, TypeOK, dfsVars
<1>2. steps \in Nat /\ steps < Cardinality(world.quests)
  BY <1>1, QuestsFinite DEF DataInv, TypeOK, Enough
<1>3. TypeOK'  BY <1>1, <1>2, QuestsFinite DEF DataInv, TypeOK
<1>4. Following  BY <1>1 DEF DataInv, ChainInv
<1>5. Circles' = Circles  BY <1>1 DEF Circles
<1>6. \A S \in Circles : key \in S => current \in S /\ current' \in S
  BY <1>1, <1>4 DEF Following, Circles
<1>7. ASSUME NEW T, Aside(T)  PROVE Aside(T)'
  BY <1>1, <1>5, <1>7 DEF Aside
<1>8. ASSUME NEW P, Met(P), current \in P  PROVE Aside(P)'
  <2>1. P \in Circles  BY <1>8 DEF Met, Circles
  <2> QED BY <1>1, <1>5, <1>8, <2>1 DEF Aside, Met
<1>9. ASSUME NEW P, Met(P), current \notin P, NEW Q, Q = P \cup {current}
      PROVE  Met(Q)'
  <2>1. IsFiniteSet(P)  BY <1>9, QuestsFinite, FS_Subset DEF Met
  <2>2. Cardinality(Q) = steps + 1
    BY <1>2, <1>9, <2>1, FS_AddElement DEF Met
  <2>3. Q \subseteq world.quests \ {key}  BY <1>1, <1>9 DEF Met
  <2>4. \A p \in Q \cup {key} : world.requires[p] \in Q \cup {current'}
    BY <1>1, <1>9 DEF Met
  <2>5. \A S \in Circles : key \in S => Q \subseteq S
    BY <1>6, <1>9 DEF Met
  <2> QED BY <1>1, <1>5, <2>2, <2>3, <2>4, <2>5 DEF Met
<1>10. (\E P : Met(P)') \/ (\E T : Aside(T)')
  BY <1>4, <1>7, <1>8, <1>9 DEF Following
<1>11. Following'
  BY <1>1, <1>4, <1>5, <1>6, <1>10 DEF Following
<1>12. \A r : Cleared(r)' <=> Cleared(r)  BY <1>1 DEF Cleared, Circles
<1>13. ChainInv'  BY <1>1, <1>11, <1>12 DEF DataInv, ChainInv
<1>14. ~Validated' /\ phase' # "validate" /\ why' # "requires"
  <2>1. why = None  BY <1>1 DEF DataInv, TypeOK
  <2> QED BY <1>1, <2>1, QuestsFinite DEF Validated
<1> QED BY <1>3, <1>13, <1>14 DEF DataInv

(* A chain is refused only if it leads nowhere or closes on its start.     *)
LEMMA BadChainData ==
    ASSUME DataInv, world \in Worlds, BadChain
    PROVE  DataInv'
PROOF
<1>1. /\ phase = "parse" /\ key # None /\ key \in world.quests /\ current # None
      /\ current = key \/ current \notin world.quests
      /\ phase' = "refused" /\ why' = "requires"
      /\ UNCHANGED <<world, todo, key, current, steps, explored>>
  BY DEF BadChain, Refuse, Enough, DataInv, TypeOK, chainVars, dfsVars
<1>2. TypeOK'  BY <1>1, QuestsFinite DEF DataInv, TypeOK
<1>3. Following  BY <1>1 DEF DataInv, ChainInv
<1>4. ~RequiresSound
  <2>1. CASE current \notin world.quests
    <3>1. PICK q \in world.quests : world.requires[q] = current  BY <1>3 DEF Following
    <3> QED BY <1>1, <2>1, <3>1 DEF RequiresSound
  <2>2. CASE current = key
    <3>1. ASSUME NEW P, Met(P)  PROVE P \cup {key} \in Circles
      BY <1>1, <2>2, <3>1 DEF Met, Circles
    <3>2. Circles # {}  BY <1>3, <3>1 DEF Following, Aside
    <3> QED BY <3>2, CircleIsUnsound
  <2> QED BY <1>1, <2>1, <2>2
<1>5. ~RequiresSound'  BY <1>1, <1>4 DEF RequiresSound
<1> QED BY <1>1, <1>2, <1>5 DEF DataInv, ChainInv, Validated

LEMMA ParsedData ==
    ASSUME DataInv, world \in Worlds, Parsed
    PROVE  DataInv'
PROOF
<1>1. /\ phase = "parse" /\ key = None /\ todo = {} /\ phase' = "validate"
      /\ UNCHANGED <<world, why, todo, key, current, steps, explored>>
  BY DEF Parsed, chainVars, dfsVars
<1>2. why = None /\ None # "requires" /\ None # "unconnected" /\ None # "noloop"
  BY <1>1, QuestsFinite DEF DataInv, TypeOK
<1>3. TypeOK'  BY <1>1, <1>2 DEF DataInv, TypeOK
<1>4. RequiresSound
  <2>1. \A q \in world.quests : Cleared(q)
    BY <1>1, QuestsFinite DEF DataInv, ChainInv
  <2> QED BY <2>1, AllCleared
<1>5. RequiresSound'  BY <1>1, <1>4 DEF RequiresSound
<1> QED BY <1>1, <1>2, <1>3, <1>5 DEF DataInv, ChainInv, Validated

LEMMA ValidateData ==
    ASSUME DataInv, world \in Worlds, Validate
    PROVE  DataInv'
PROOF
<1>1. /\ phase = "validate" /\ UNCHANGED <<world, todo, key, current, steps, explored>>
      /\ RequiresSound /\ why = None /\ None # "requires" /\ None # "data"
  BY QuestsFinite DEF Validate, Refuse, DataInv, TypeOK, chainVars, dfsVars
<1>2. CASE phase' = "refused" /\ why' = "data"
  <2>1. TypeOK'  BY <1>1, <1>2 DEF DataInv, TypeOK
  <2> QED BY <1>2, <2>1 DEF DataInv, ChainInv, Validated
<1>3. CASE /\ phase' = "bfs" /\ why' = why
           /\ \A q \in world.quests : KeyItemsOK(q)
  <2>1. TypeOK'  BY <1>1, <1>3 DEF DataInv, TypeOK
  <2>2. KeyItemsBalanced  BY <1>3, CheckedIsBalanced
  <2>3. RequiresSound' /\ KeyItemsBalanced'
    BY <1>1, <1>3, <2>2 DEF RequiresSound, KeyItemsBalanced
  <2> QED BY <1>1, <1>3, <2>1, <2>3 DEF DataInv, ChainInv
<1> QED BY <1>2, <1>3 DEF Validate, Refuse

(* The walks only read the world. *)
LEMMA WalksData ==
    ASSUME DataInv, world \in Worlds, explored' = {},
           UNCHANGED <<world, chainVars>>, phase \in {"bfs", "dfs"},
           \/ phase' \in {"bfs", "dfs", "listen", "panicked"} /\ why' = why
           \/ phase' = "refused" /\ why' \in {"unconnected", "noloop"}
    PROVE  DataInv'
PROOF
<1>1. /\ Validated /\ why = None /\ None # "requires" /\ None # "unconnected"
      /\ None # "noloop"
  BY QuestsFinite DEF DataInv, TypeOK, Validated
<1>2. TypeOK'  BY <1>1 DEF DataInv, TypeOK, chainVars
<1>3. RequiresSound' /\ KeyItemsBalanced'
  BY <1>1 DEF DataInv, RequiresSound, KeyItemsBalanced
<1> QED BY <1>1, <1>2, <1>3 DEF DataInv, ChainInv

LEMMA NextData == ASSUME MapInv, DataInv, [Next]_vars PROVE DataInv'
PROOF
<1>1. world \in Worlds /\ explored' = {}
  BY NextInv DEF MapInv, MapTyped, Descending
<1>2. CASE UNCHANGED vars
  <2>1. UNCHANGED <<world, phase, why, todo, key, current, steps, explored>>
    BY <1>2 DEF vars, chainVars, dfsVars
  <2>2. TypeOK'  BY <2>1 DEF DataInv, TypeOK
  <2>3. ChainInv'
    <3>1. \A r : Cleared(r)' <=> Cleared(r)  BY <2>1 DEF Cleared, Circles
    <3>2. \A S : (Met(S)' <=> Met(S)) /\ (Aside(S)' <=> Aside(S))
      BY <2>1 DEF Met, Aside, Circles
    <3>3. Circles' = Circles  BY <2>1 DEF Circles
    <3>4. Following => Following'  BY <2>1, <3>2, <3>3 DEF Following
    <3> QED BY <2>1, <3>1, <3>4 DEF DataInv, ChainInv
  <2>4. Validated' <=> Validated  BY <2>1 DEF Validated
  <2>5. /\ RequiresSound' <=> RequiresSound
        /\ KeyItemsBalanced' <=> KeyItemsBalanced
    BY <2>1 DEF RequiresSound, KeyItemsBalanced
  <2> QED BY <2>1, <2>2, <2>3, <2>4, <2>5 DEF DataInv
<1>3. CASE \/ Visit \/ Walked \/ (\E e \in left : LookAtExit(e)) \/ MapLooper
  <2>1. /\ UNCHANGED <<world, chainVars>> /\ phase \in {"bfs", "dfs"}
        /\ \/ phase' \in {"bfs", "dfs", "listen", "panicked"} /\ why' = why
           \/ phase' = "refused" /\ why' \in {"unconnected", "noloop"}
    <3>1. CASE Visit  BY <3>1 DEF Visit
    <3>2. CASE Walked  BY <3>2 DEF Walked, Refuse
    <3>3. CASE \E e \in left : LookAtExit(e)  BY <3>3 DEF LookAtExit
    <3>4. CASE MapLooper
      BY <3>4 DEF MapLooper, NoLoopHere, TryExit, Refuse
    <3> QED BY <1>3, <3>1, <3>2, <3>3, <3>4
  <2> QED BY <1>1, <2>1, WalksData
<1> QED
  BY <1>1, <1>2, <1>3, BeginChainData, LeaveChainData, FollowChainData, BadChainData,
     ParsedData, ValidateData DEF Next

LEMMA InitData == Init => DataInv
PROOF
<1> SUFFICES ASSUME Init  PROVE DataInv
  OBVIOUS
<1>1. /\ world \in Worlds /\ phase = "parse" /\ why = None /\ todo = world.quests
      /\ key = None /\ steps = 0 /\ explored = {}
  BY DEF Init
<1>2. TypeOK  BY <1>1, QuestsFinite DEF TypeOK
<1>3. ChainInv  BY <1>1 DEF ChainInv
<1> QED BY <1>1, <1>2, <1>3, QuestsFinite DEF DataInv, Validated

(* Whatever world file is read: what the server accepts has prerequisites  *)
(* that can be completed one by one and key items that come back; and a    *)
(* file is refused for its prerequisites only if some cannot be met.       *)
THEOREM DataStaysSound == Spec => []DataSound
PROOF
<1>1. MapInv /\ DataInv => DataSound
  BY DEF MapInv, InOrder, DataInv, DataSound, DataVerdict
<1>2. Init => MapInv /\ DataInv  BY InitInv, InitData
<1>3. MapInv /\ DataInv /\ [Next]_vars => (MapInv /\ DataInv)'  BY NextInv, NextData
<1> QED BY <1>1, <1>2, <1>3, PTL DEF Spec
==============================================================================
