------------------------------ MODULE WorldData ------------------------------
(***************************************************************************)
(* The start-up of the server: ParseYmlData and ValidateWorldData read the *)
(* world file, validateMapConnectivity walks the map breadth first, and    *)
(* mapLoopExists depth first; any error ends the process before it         *)
(* listens.  The other modules assume of the world what these checks let   *)
(* through.  A Go map is ranged over in any order.  No entry of the file   *)
(* is null: the parser would panic at it.                                  *)
(*                                                                         *)
(* A world is a record: zones, with the exits and the items of each;       *)
(* quests, with what each requires, the key items its steps grant and      *)
(* receive, and its reward; fieldsOK, whether the checks of single entries *)
(* (names, stats, roles, minimums) pass.  NPCs are left out: every quest   *)
(* is that of one NPC.                                                     *)
(***************************************************************************)
EXTENDS Integers, Sequences, SequencesExt, FiniteSets

CONSTANTS Worlds, StartZone, RespawnZone, None

ASSUME WorldDataAssumption ==
    \A w \in Worlds :
      /\ IsFiniteSet(w.zones)
      /\ DOMAIN w.exits = w.zones
      /\ IsFiniteSet(w.quests)
      /\ \A q \in w.quests : w.steps[q] \in Seq(Range(w.steps[q]))
      /\ None \notin w.quests \cup {"requires", "data", "unconnected", "noloop"}

VARIABLES
    world,
    phase,      \* how far main has come; "refused" and "panicked" are ends
    why,        \* why the world was refused
    todo,       \* the quests whose chain is still to be followed
    key, current, steps,    \* the quest, and how far up its chain
    visited, queue,         \* of validateMapConnectivity
    left,       \* the exits its loop has still to look at
    stack,      \* the calls of mapLooper: a zone and the exits left to try
    explored    \* fullyExplored; onPath is the zones of the stack

chainVars == <<todo, key, current, steps>>
bfsVars == <<visited, queue, left>>
dfsVars == <<stack, explored>>
vars == <<world, phase, why, chainVars, bfsVars, dfsVars>>

Init ==
    /\ world \in Worlds
    /\ phase = "parse" /\ why = None
    /\ todo = world.quests /\ key = None /\ current = None /\ steps = 0
    /\ visited = <<>> /\ queue = <<>> /\ left = {}
    /\ stack = <<>> /\ explored = {}

Refuse(reason) ==
    /\ phase' = "refused" /\ why' = reason
    /\ UNCHANGED <<world, chainVars, bfsVars, dfsVars>>

(* zones[name] is nil.                                                     *)
Missing(name) == name \notin world.zones

-----------------------------------------------------------------------------
(* ParseYmlData follows Requires of each quest, up to its end.             *)

BeginChain(q) ==
    /\ phase = "parse" /\ key = None
    /\ q \in todo
    /\ todo' = todo \ {q}
    /\ key' = q /\ current' = world.requires[q] /\ steps' = 0
    /\ UNCHANGED <<world, phase, why, bfsVars, dfsVars>>

(* Mutant: only the first link of a chain is followed.                     *)
EnoughFault == current = None \/ (current # key /\ steps >= 1)

(* The chain of key has no more to say: it ended, or it entered a circle   *)
(* that key is not part of.                                                *)
Enough == current = None \/ (current # key /\ steps >= Cardinality(world.quests))

LeaveChain ==
    /\ phase = "parse" /\ key # None
    /\ Enough
    /\ key' = None
    /\ UNCHANGED <<world, phase, why, todo, current, steps, bfsVars, dfsVars>>

(* Mutant: steps is not counted up.                                        *)
FollowChainFault ==
    /\ phase = "parse" /\ key # None
    /\ ~Enough /\ current # key /\ current \in world.quests
    /\ current' = world.requires[current]
    /\ UNCHANGED <<world, phase, why, todo, key, steps, bfsVars, dfsVars>>

FollowChain ==
    /\ phase = "parse" /\ key # None
    /\ ~Enough /\ current # key /\ current \in world.quests
    /\ steps' = steps + 1
    /\ current' = world.requires[current]
    /\ UNCHANGED <<world, phase, why, todo, key, bfsVars, dfsVars>>

BadChain ==
    /\ phase = "parse" /\ key # None
    /\ ~Enough
    /\ current = key \/ current \notin world.quests
    /\ Refuse("requires")

Parsed ==
    /\ phase = "parse" /\ key = None /\ todo = {}
    /\ phase' = "validate"
    /\ UNCHANGED <<world, why, chainVars, bfsVars, dfsVars>>

-----------------------------------------------------------------------------
(* ValidateWorldData.                                                      *)

ExitsOK ==
    /\ ~Missing(StartZone) /\ ~Missing(RespawnZone)
    /\ \A z \in world.zones :
         world.exits[z] # {} /\ \A e \in world.exits[z] : ~Missing(e)

(* No item is met in two zones.                                            *)
ItemsOK ==
    \A y, z \in world.zones : y # z => world.items[y] \cap world.items[z] = {}

GrantedKeyItems ==
    LET actions == UNION {Range(world.steps[q]) : q \in world.quests} IN
      (UNION {step.grants : step \in actions})
      \cup ({world.reward[q] : q \in world.quests} \ {None})

(* One step: seen.hand is sameQuestKeyItems.                               *)
CheckStep(seen, step) ==
    LET hand == seen.hand \cup step.grants IN
      [hand |-> hand \ step.receives,
       ok   |-> /\ seen.ok
                /\ step.grants \cap seen.hand = {}
                /\ step.receives \ hand \subseteq GrantedKeyItems]

KeyItemsOK(q) ==
    FoldLeft(CheckStep, [hand |-> {}, ok |-> TRUE], world.steps[q])
      = [hand |-> {}, ok |-> TRUE]

Validate ==
    /\ phase = "validate"
    /\ IF world.fieldsOK /\ ExitsOK /\ ItemsOK /\ \A q \in world.quests : KeyItemsOK(q)
       THEN /\ phase' = "bfs"
            /\ queue' = <<StartZone>>
            /\ UNCHANGED <<world, why, chainVars, visited, left, dfsVars>>
       ELSE Refuse("data")

-----------------------------------------------------------------------------
(* validateMapConnectivity.                                                *)

Visit ==
    /\ phase = "bfs" /\ left = {} /\ queue # <<>>
    /\ LET zone == Head(queue) IN
         /\ visited' = Append(visited, zone)
         /\ queue' = Tail(queue)
         /\ IF Missing(zone)
            THEN phase' = "panicked" /\ left' = left
            ELSE phase' = phase /\ left' = world.exits[zone]
    /\ UNCHANGED <<world, why, chainVars, dfsVars>>

(* Mutant: a zone that waits in the queue is queued again.                 *)
KnownFault(z) == Contains(visited, z)

Known(z) == Contains(visited, z) \/ Contains(queue, z)

LookAtExit(e) ==
    /\ phase = "bfs" /\ e \in left
    /\ left' = left \ {e}
    /\ queue' = IF Known(e) THEN queue ELSE Append(queue, e)
    /\ UNCHANGED <<world, phase, why, chainVars, visited, dfsVars>>

Walked ==
    /\ phase = "bfs" /\ left = {} /\ queue = <<>>
    /\ IF Len(visited) # Cardinality(world.zones)
       THEN Refuse("unconnected")
       ELSE /\ phase' = "dfs"
            /\ stack' = <<[zone |-> StartZone, left |-> world.exits[StartZone]]>>
            /\ UNCHANGED <<world, why, chainVars, bfsVars, explored>>

-----------------------------------------------------------------------------
(* mapLoopExists.                                                          *)

OnPath(z) == \E i \in 1..Len(stack) : stack[i].zone = z

(* The loop over the exits is over: mapLooper returns false.               *)
NoLoopHere(top) ==
    IF Len(stack) = 1
    THEN Refuse("noloop")
    ELSE /\ explored' = explored \cup {top.zone}
         /\ stack' = Front(stack)
         /\ UNCHANGED <<world, phase, why, chainVars, bfsVars>>

TryExit(top, e) ==
    LET tried == [stack EXCEPT ![Len(stack)].left = @ \ {e}] IN
      IF OnPath(e)
      THEN phase' = "listen" /\ UNCHANGED dfsVars
      ELSE IF e \in explored
      THEN phase' = phase /\ stack' = tried /\ explored' = explored
      ELSE IF Missing(e)
      THEN phase' = "panicked" /\ UNCHANGED dfsVars
      ELSE /\ phase' = phase /\ explored' = explored
           /\ stack' = Append(tried, [zone |-> e, left |-> world.exits[e]])

MapLooper ==
    /\ phase = "dfs"
    /\ LET top == Last(stack) IN
         IF top.left = {} THEN NoLoopHere(top)
         ELSE /\ \E e \in top.left : TryExit(top, e)
              /\ UNCHANGED <<world, why, chainVars, bfsVars>>

Next ==
    \/ \E q \in todo : BeginChain(q)
    \/ LeaveChain \/ FollowChain \/ BadChain \/ Parsed
    \/ Validate
    \/ Visit \/ Walked
    \/ \E e \in left : LookAtExit(e)
    \/ MapLooper

Spec == Init /\ [][Next]_vars

(* main runs these one after the other, on its own goroutine.              *)
FairSpec == Spec /\ WF_vars(Next)

-----------------------------------------------------------------------------
TypeOK ==
    /\ phase \in {"parse", "validate", "bfs", "dfs", "listen", "refused", "panicked"}
    /\ why \in {None, "requires", "data", "unconnected", "noloop"}
    /\ why # None <=> phase = "refused"
    /\ todo \subseteq world.quests /\ key \in world.quests \cup {None}
    /\ steps \in 0..Cardinality(world.quests)
    /\ explored \subseteq world.zones

(* The checks of ValidateWorldData have been passed.                       *)
Validated ==
    phase \in {"bfs", "dfs", "listen", "panicked"} \/ why \in {"unconnected", "noloop"}

(* Every zone can be reached from the starting zone: no set of zones that  *)
(* holds the starting zone and every exit of its own lacks one.            *)
Connected ==
    \A S \in SUBSET world.zones :
      StartZone \in S /\ (\A z \in S : world.exits[z] \subseteq S) => S = world.zones

(* Any quest can be reached by completing those it requires, one by one:   *)
(* no set of quests waits for itself, and none waits for a name unknown.   *)
RequiresSound ==
    /\ \A q \in world.quests : world.requires[q] \in world.quests \cup {None}
    /\ \A S \in (SUBSET world.quests) \ {{}} : \E q \in S : world.requires[q] \notin S

(* What a step grants, a later step of the quest takes back; what a step   *)
(* takes, some step grants or some quest pays.                             *)
KeyItemsBalanced ==
    \A q \in world.quests : \A i \in DOMAIN world.steps[q] :
      /\ \A k \in world.steps[q][i].grants :
           \E j \in i..Len(world.steps[q]) : k \in world.steps[q][j].receives
      /\ \A k \in world.steps[q][i].receives : \E r \in world.quests :
           \/ world.reward[r] = k
           \/ \E j \in DOMAIN world.steps[r] : k \in world.steps[r][j].grants

(* The breadth-first walk is right, both ways and whatever the order in    *)
(* which maps are ranged over: the server goes on only if every zone can   *)
(* be reached from the starting zone, and refuses a map for that reason    *)
(* only if one cannot.                                                     *)
MapVerdict ==
    /\ phase \in {"dfs", "listen"} \/ why = "noloop" => Connected
    /\ why = "unconnected" => ~Connected

(* The walks never meet a zone that does not exist, and the depth-first    *)
(* one never fails: with an exit in every zone there is always a loop, so  *)
(* that NO_MAP_LOOP_DETECTED is never logged.                              *)
WalksSucceed == phase # "panicked" /\ why # "noloop"

(* What validation lets through is what the other modules assume: chains   *)
(* of quests that end, key items that come back; a file is refused for its *)
(* chains only if one is circular or leads nowhere; and the walks over the *)
(* map succeed.                                                            *)
DataVerdict ==
    /\ Validated => RequiresSound /\ KeyItemsBalanced
    /\ why = "requires" => ~RequiresSound
    /\ WalksSucceed

(* The verdict on the data, with the types above.                          *)
DataSound == TypeOK /\ DataVerdict

(* Every world file without null entries is accepted or refused: the       *)
(* chains, the queue and the recursion end, whatever circles it holds.     *)
LoaderEnds == <>(phase \in {"listen", "refused"})
==============================================================================
