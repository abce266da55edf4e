# Verification of the TAP server

This directory holds TLA+ models of the text-adventure server in `server/`
and of the graphical client in `GUI/`, configurations that check them with TLC,
and proofs checked with TLAPS. File references are to the repository root.

## 1. Inventory

The server is one Go process. Every TCP connection has a goroutine
(`handleTCPConn`) that reads a line, runs its command to the end and reads the
next one; every fight has a goroutine (`processBattle`). They share maps under
one mutex each, and objects with a mutex of their own.

| Component | State | Operations | Hard behaviour | What makes it correct |
|---|---|---|---|---|
| Sessions (`loginConnection.go`, `player.go`) | `onlinePlayers`, `Player` | CONNECT, end of connection, `cleanupPlayerData` | a name is the key of every map and is reused; cleanup is a series of critical sections | one session per name; cleanup removes every trace before the name is free |
| Zones (`zones.go`) | `InZone`, `CurrLoc` | MOVE, respawn, LOOK, WHO | leaving and entering are two critical sections | a player is listed in the room it is in and in no other |
| World items (`items.go`) | `Zone.Items`, `Inventory` | TAKE, DROP, return at cleanup | DROP and the return pass items through local variables | no item is lost or duplicated; they come home |
| Fights (`battle.go`, FLEE) | `OngoingBattles`, `BattleField`, `NPC.Occupied`, HP, `Status` | ATTACK, FLEE, disconnect, fight goroutine | rendezvous on unbuffered channels, `close`, claim and release of NPCs | one fight per NPC; no panic, no stuck player, no leaked goroutine; replies are true |
| Groups (`groups.go`) | `parties`, `Members`, `GroupInfo` | CREATE, INVITE, JOIN, LEAVE, disband, cleanup | three kinds of mutex taken in nested fashion, lookups used after unlock | members and `GroupInfo` agree; commands end |
| Chat (`chat.go`) | none | broadcasts under a room's, the group's or the registry's mutex | writes to sockets while holding a mutex | the right recipients |
| Quests, key items (`quests.go`, `NPCs.go`) | `Player.Quests`, `KeyInventory`, `Gold` | QUEST, TALK, MOVE and winning a fight advance a step | eligibility checked before it is used; which quest advances depends on map order | accepted once, paid once, in the order of `Requires`; no step out of range |
| Rate limits, softbans (`security.go`) | token buckets, `TimeoutEnd`, strikes, `softbannedPlayers` | every input, every connection | two buckets share one timeout; bans overwrite each other | a flood is stopped, a slow client never punished |
| Start-up, accept loop, shutdown (`server.go`) | `netConns`, `shuttingDown`, listener | accept, signal, ban cleaner | accept races shutdown | every connection is closed, the process ends |
| World loading (`parser.go`, `worldDataValidator.go`, `world.yaml`) | the world | parse, validate, connectivity, cycle check | graph algorithms over data | what it accepts satisfies what the server assumes; it ends |
| GUI: view of the room (`replyHandlers.go`, `serverPoll.go`) | room, players in it, players online | presence events, LOOK and WHO replies, poll | a reply and an event pass each other | the view catches up with the server's state |
| GUI: connection and fight screen (`commandRouter.go`, `serverConnection.go`, `loginScreen.go`, `battleScreen.go`) | fight mode, two timers, login flags, two goroutines per connection | router loop, login, QUIT, timers | timers, replies, errors and the end of the window race | the user is always answered; no goroutine is left behind |
| CLI clients (`CLI/`) | none | relay lines | | |

The components interact by plain calls inside one goroutine, by the shared
maps, by the two channels of a fight, and by events written to other players'
sockets. Three interactions matter most and are modelled: the cleanup of a
session cuts across fights, groups, rooms and items; a fight shares the NPC
with all other players; groups refer to `Player` objects of sessions that may
have ended. `PROJECT.json` lists every hazard at its line.

## 2. Plan

The modules, in the order of what can go wrong and how much hangs on it.
No module has `RECURSIVE` operators, and each takes the world as `CONSTANTS` with
a named assumption, so that it can be checked and proved about alike.

| # | Module | Of | State of work |
|---|---|---|---|
| 1 | `ItemCustody`, `World` | sessions, rooms and items, composed; abstract specification of the items and its implementation | written, checked, proved (`WorldProofs`) |
| 2 | `Battle` | fights: connection goroutine, fight goroutine, NPC | written, checked, proved (`BattleProofs`) |
| 3 | `Groups` | groups at the level of the mutexes | written, checked, proved (`GroupsProofs`) |
| 4 | `Quests` | quests and key items of a player | written, checked, proved (`QuestsProofs`) |
| 5 | `Lifecycle` | accept loop, connection loop, shutdown | written, checked, proved (`AcceptLoopProofs`) |
| 6 | `Security` | token buckets, timeout, strikes, bans, connection floods, the cleaner | written, checked, proved (`AcceptLoopProofs`) |
| 7 | `Presence` | server and GUI composed: room events, LOOK and WHO on the wire against the counts of the GUI | written, checked, proved (`PresenceProofs`) |
| 8 | `Router` | the GUI's connection: login, QUIT, the goroutines of a connection, the fight screen and its timers | written, checked, proved (`RouterProofs`) |
| 9 | `WorldData` | start-up: chains of requirements, validation, both walks over the map | written, checked, proved (`WorldDataProofs`) |

"Proved" is said of every invariant and action property of the module's run; what is
temporal stays with TLC (section 6 says why). Left to do: an abstract specification of
what a fight and a group promise, with the detailed module shown to implement it; the
properties the four hazards without one ask for (TALK to a healer during a fight, a
client that stops reading, an early hide of the log, a third press of Connect) would
fail, as section 5 says, and need a doc that promises the opposite to be a finding.

## 3. Modules and code

Conventions. A step is one critical section, or one meeting on a channel,
together with the code before it that touches only the goroutine's own data.
Definitions keep the names of the code where it has one. A `...Fault`
definition is a plausible bug, put in the place of the definition after it to
see that the property it is meant for fails: every property of a passing run
has such a fault.

**World** (`loginConnection.go`, `zones.go`, `items.go`, `player.go`). `pc[c]`
says where the goroutine of connection `c` is. `Connect` is `processConn`, all
of it under `onlinePlayersMu`. `Move` and `LoseFight` do the first half of
`shiftZone`, `EnterRoom` the second; between them the player is in no room.
`ItemTake` is one section of the `ZoneMu`; `ItemDrop` and `PutDown` are the two
of `itemDrop`. The cleanup is `Disconnect`, `CleanupFight`, `CleanupZone`,
`ReturnItem` for each item of another zone in any order (the code ranges over a
map), `GoOffline`. Fights appear only as far as they restrict MOVE and have to be
cleaned up; Battle has the rest. A slot of `Conns` is reused, so names are too.

**ItemCustody** is what the server promises of items: each has exactly one
holder, a zone or a session, and moves by one TAKE, one DROP, or the return of
several at once when a session ends. World implements it with the one zone or
bag or local variable that has the item as its custody (`World!Custody`).

**Battle** (`battle.go`, FLEE in `commandDispatch.go`, TALK to a healer, the
fight part of the cleanup). `Players` are names, which World shows to be unique.
`AttackNew`, `Register`, `Engage` are the critical sections of the first ATTACK,
`AttackAgain` the later ones; `SendAttack` and `ReceiveResult` are the meetings
on the channels and `Reply` what follows them, the respawn included. The goroutine
`processBattle` is `ResolveRound`, `ReleaseNPC`, `Settle` and, when the channel
is closed, `Stop`. `Round` is the arithmetic of a round over all dice:
initiative, hit or dodge, damage. FLEE and the cleanup are three steps each.

**Groups** (`groups.go`). A step ends where a goroutine may wait for one of the
three kinds of mutex; who holds which follows from `pc`. A member of `Players` is
one session: that the next session of a name is another `Player` object is what
World is about.

**Quests** (`quests.go`, `getNPCQuest`, `getDialogue`, the hooks in MOVE and in
a won fight). One player: the state is its own and only its goroutine changes
it. Where the code takes the first match of a map, any match is taken.
`finished` is the quest between its last step and `completeQuest`, which are two
critical sections. The world is the constants. `Total` sums a reward over the completed
quests, `Boost` is what a quest's key item adds to the battle skill. `OneOfEach` says that
no key item is given, or taken, twice in the whole file: the validator looks for that
within one quest only, the shipped world satisfies it (TLC evaluates it in `MCQuests`).

**Lifecycle** (`server.go`, `handleTCPConn`). `main`, the signal goroutine and a
goroutine per connection. The loop of a connection is `SetReadDeadline` (which
fails on a closed socket), `Scan` (which may still deliver a line that was
buffered before the socket was closed), and `Login` or another `Command`.
`Cleanup` is World's whole cleanup in one step. `Stick` and `StickSignal` are the waits
that never end: a goroutine at a `PlayerMu` that a circle of GROUP JOINs keeps
(`groups_stuck`; the cleanup passes `groupLeave`, `player.go:146`), or at what such a
goroutine holds, or writing to a client that does not read; the signal goroutine at
`onlinePlayersMu`, at `getPlayerName` or at the last line it writes to each player
(`server.go:130`). Any command may get stuck in the model, which is more than the code
can do.

**Security** (`security.go`, the first half of `commandDispatch`, the accept
loop's checks). `Input`, `StrikeInput`, `Query` and `RejectQuery` are the four ways
an input can go through the two buckets and the timeout. `BanForStrikes` is the
second half of `handleSoftban`; `Track`, `BanForFlood` and `TurnAway` or `Serve`
are the accept loop's three looks at the maps; `Clean` is the cleaner. Buckets
are refilled when they are used, as in the code; `Recent` is the loop of
`trackConnCount`, which keeps the attempts of the window. `granted`, `queriesGranted` and
`since` are history that the properties need. The clock stands still
while the accept loop admits one connection.

**Presence** (`zones.go`, the announcements of `loginConnection.go` and
`player.go`, CHAT ROOM; `replyHandlers.go`, `serverPoll.go`). One client, `Me`, and
other players that walk. `wire` is everything the server has written to `Me` and
the GUI has not read, in the order it was written; a full wire blocks the writer,
as a socket does. `ShiftLeave` and `ShiftEnter` are the two halves of `shiftZone`;
`Look` and `Answer`, and `WhoCount`, `WhoList` and `Answer`, are the separate moments
of LOOK and WHO. `Read` is the reply handlers, `Poll` the ticker. `drift` and `stale`
are history: how many events the last LOOK reply did not know of, and whether the
last number of players came after a newer one. `Lines` is what may be written; `Updated`
is what a line makes of the GUI's two counters, `AllRead` what all of `wire` will.

**Router** (`GUI/commandRouter.go`, `serverConnection.go`, `loginScreen.go`,
`battleScreen.go`, `gui.go`). One action per channel of the router's `select`,
with the handler it calls; the reader and the writer of each connection; the two
timers of the fight screen, which fire at any time and leave a signal in a channel
of capacity one. The connection `tc` of the router is one of `Conns`, and the
goroutines of an earlier one may still be running. The server is what it can
answer: a session, a fight, an error at any command, an end or a hang at any time.

**WorldData** (`parser.go`, `worldDataValidator.go`, start-up in `server.go`). The
world file is a record chosen once. `BeginChain`, `FollowChain`, `LeaveChain`,
`BadChain` follow the requirements of each quest; `Validate` is one step; `Visit`
and `LookAtExit` are the breadth-first walk, `MapLooper` is one turn of the
recursion of `mapLooper`, whose calls are the stack. Where the code ranges over a
map any order is taken.

How they fit: Lifecycle starts and ends the goroutines that World runs; World's
`Connect` and `GoOffline` are Battle's and Groups' sessions; World's `StartFight`,
`EndFight`, `LoseFight` are Battle seen from outside; Quests sees Battle as won,
lost or fled. Presence is World's rooms seen through one connection, Router the
other end of Lifecycle's. WorldData shows of the world file what the
assumptions on the constants of World, Battle and Quests ask.

## 4. Runs

| Run | Instance | Shows |
|---|---|---|
| `world` | 2 connections, 2 names, 3 zones, 3 items | `SessionsSound`: one session per name, every player is in the one room it should be in, no fight is left behind. `ItemsConserved`. `Custody`: the refinement. `ItemsComeHome`, `NameComesFree`: a cleanup that has begun returns everything and frees the name |
| `battle` | 2 players, 1 enemy, 2 BattleFields | `FightsSound`: one fight per NPC, `engaged` exactly during a fight, HP. `NoPanic`: no double close, no send on a closed channel. `ReplyTruthful`. `CommandsEnd`: every ATTACK is answered. `NoGoroutineLeak` |
| `groups` | 3 sessions, 2 groups | `MembershipSound`, `GoneForGood` |
| `groups_live` | 2 sessions, 2 groups | `CommandsEnd` |
| `groups_ghost` | 2 sessions, 1 group | violated: `GroupsListed` |
| `groups_stuck` | 3 sessions, 2 groups | violated: `NoCircle` |
| `quests` | `world.yaml` and one quest more | `NoPanic`, `KeyItemsFollowProgress`, `RewardsPaidOnce`, `PrerequisitesKept`, `KeyItemsReachable`, `MovesForward` |
| `lifecycle` | 3 connections, 2 retries | `NoneEscapes`: what is served after the shutdown is closed. `CleanExit`. `ShutdownEnds`: after a signal the process ends, unless the signal goroutine or every handler that is left is stuck |
| `security` | 2 sessions of a host, scaled limits | `BucketsSound`, `NotBeforeABurst`, `BanKept`, `FloodTurnedAway` |
| `presence` | the client and 1 other player, 3 lines on the wire | `CountersSound`: the count of the room is exact but for the events the last LOOK did not know of. `EventsInOrder`: who enters was not there, who leaves or chats was. `WhoAgrees`. `ViewCatchesUp`: with the others at rest, room and counts become right while the poll runs |
| `router` | 2 connections, `Outgoing` of 2 | `RouterSound`: fight mode follows the fight. `LogGoes`, `UserAnswered`: a press, a QUIT or the close button comes to an end. `GoroutinesEnd` |
| `worlddata` | five families of world files, below | `MapVerdict`, `DataSound`: what is accepted is sound, and what is sound is accepted. `LoaderEnds` |

The type invariant is a conjunct of the `...Sound` invariant where it is not
listed by itself.

**Bounds.** World: two connections under two names give a competitor for a name
while its old session is still being cleaned up. Section 6 proves the safety of every
module for any number of each; the bounds serve the liveness. One
item is at home where it is picked up, one is not, one cannot be taken. Battle: the
enemy can be claimed by the other player at each moment of the end of a fight, and
two BattleFields let a player be in a new fight while the goroutine of the old
one has not ended. With `MaxHP` 3 a blow of 1 or 3 leaves a player whole, hurt or
beaten, at exactly 0 or below, with a half that is rounded up; the enemy takes two
blows. Groups: two groups and three players are the least in which two players can wait
for each other; with two players `CommandsEnd` holds. The number of `GROUP
CREATE`s is bounded by `Groups`. Quests: the data is the shipped world; `bounty`
waits for the same fight as `a_lesson_in_manners` and has the same giver, which no
two shipped quests do. Lifecycle: `MaxRetries` is 2 for the code's 5, which
changes only how often it counts; a connection is accepted once. Security: the
limits are scaled down so that a burst, a timeout, a second one started during it,
a ban of either kind and its expiry fit into `MaxTime` ticks; `MaxAttempts` bounds
the connections of a host within a window, of which the code keeps all.
Presence: one walker that takes three walks (`MaxWalks`) can leave, return and go
while one LOOK is under way; `MaxWire` 3 lets a reply be overtaken by two events
and still blocks a writer; `MaxCmds`, `MaxAsks` and `MaxRefused` bound the queue,
the user's commands and the queries refused for their rate. Router: a second
connection is enough to meet what the first one left behind (goroutines, signals,
queued presses); `MaxOut` 2 stands for 16 and can be full; `MaxPresses` 2 fills
`LoginRequests`, and of a third press section 5 says what it does; `MaxDrops` 1 is
one lost connection or one server that hangs; `MaxCmds` is 2, an ATTACK with a
FLEE, MOVE or QUIT. WorldData: all maps over a few zones and one that may be
missing, all graphs of requirements of a few quests (circles, chains into a circle
and into nothing), key items and items of a few steps and zones (`MCWorldData`).

`CHECK_DEADLOCK FALSE` is set where the system really stops: every session of
Groups may have ended, the process of Lifecycle exits, the start-up of WorldData is
over, and the models of clients come to rest when the bounds on their users are
used up.

**Fairness.** World, Battle, Lifecycle: weak fairness of each goroutine that can
go on without a client, because the Go scheduler is preemptive and, with one exception,
no section in them is held open by another one for ever. The exception is the circle of
`groups_stuck`: two JOINs that keep their `PlayerMu` and two `GroupMu`s for ever hold up
whoever reads the name of one of the two players, which rooms do under their `ZoneMu`
(`zones.go:178`, `player.go:161`), and whoever leaves one of the two groups, which a
cleanup does (`player.go:146`). World and Battle assume that it does not happen, so that
`ItemsComeHome`, `NameComesFree`, and Battle's `CommandsEnd` and `NoGoroutineLeak` are
claims about a server without such a circle. Lifecycle does not assume it: there a
command, a cleanup and the signal goroutine may get stuck, and `ShutdownEnds` says what
is left then. Groups: strong fairness, because its
steps wait for mutexes that are taken again and again; `sync.Mutex` in starvation
mode hands a lock to the longest waiter. Writes to sockets are taken to end, again but in
Lifecycle: the server sets no write deadline, so a client that stops reading for good is
outside the other liveness claims. Nothing is assumed of clients, nor of the signal. Presence, Router:
weak fairness of each goroutine, ticker and timer, because `select` chooses among
the channels that are ready at random and serves each of them sooner or later;
nothing is assumed of the user or of the other players. A server that hangs gets
no fairness. WorldData is one goroutine.

## 5. What does not hold

- `groups_ghost`: a JOIN that waits for the `GroupMu` while the leader disbands
  the group joins a group that `parties` no longer has.
- `groups_stuck`: such groups keep their `Members`. Two players who end up in each
  other's each hold their own `PlayerMu` and wait for that of the other one. `wg.Wait`
  (`server.go:228`) waits for their handlers, so that a signal does not end the process
  then: the exception in `ShutdownEnds`. The same holds of a client that stops reading
  while the signal goroutine writes to it, before it has closed the other connections.

Seen in the code while modelling, and not claims of a run:

*Fights and limits.* TALK to a healer sets the status from the HP also during a
fight (`NPCs.go:227`), which clears `engaged` and lets ATTACK start a second fight;
the shipped world has no healer in an enemy's room, and the validator does not
forbid one. The 20th rejected query starts a timeout with no strikes
(`security.go:91`) also while another one is running, so that "the 10th becomes a
20-minute IP ban" of the README does not count the strikes before it; and a ban for
strikes of 20 minutes may replace a longer one for a flood.

*The GUI's view.* A LOOK reply that passes an event leaves the count of the room
wrong until the next poll; if it is wrong at 1 or less the poll does not run
(`serverPoll.go:28`) although the room is shared: `ViewCatchesUp` excludes
exactly this, which is the part of that hazard no property catches. A WHO reply may overwrite a newer EVT STATS, and its count may be
smaller than its list by those who log in between the two. A defeat in the respawn
zone itself would be announced to nobody who can tell; the shipped world has no
enemy there, and the validator does not forbid one. The label "In Party" and
`resolveEmptyList` (which takes "OK []" for the answer to the last query asked)
have the same race.

*The GUI's connection.* Any ERR clears `Quitting` (`replyHandlers.go:400`): if it
comes between QUIT and "OK bye", the latter is shown as a line of dialogue and the
login screen follows instead of the end of the program. `Quitting` stays set when
QUIT itself was dropped for a full queue. With a third press of Connect while two
are queued the UI goroutine blocks on `LoginRequests` (`stuck`); it goes on when
the router reads on, but not while the router is in `gracefulQuit`, whose
`Win.Close` it then never runs. A login request that is queued while the end of
the old connection is handled leaves Connect enabled during the next login. A
hide signal of an earlier fight may hide the log of the next finished one early. No
property is about these two: `UserAnswered` excludes `stuck`, and that the log goes away
(`LogGoes`) is what an early hide does.

*The validator.* `NO_MAP_LOOP_DETECTED` can never be logged: every zone has an
exit, so there is always a loop (`WalksSucceed`, proved). It lets pass: a quest
without steps, which the server would index out of range; an NPC in two zones or
in none; a quest that is required but offered by no NPC; a step that receives a key
item before it is granted, or twice, for `grantedKeyItems` is global and knows no
order. An entry without a value (`null`) panics the parser, which follows the pointer
(for a quest at `parser.go:172` or, as a prerequisite, at 192): `LoaderEnds` is about files
without one.

## 6. Proofs

TLAPS proves these for every value of the constants that satisfies the
assumptions named in the module; they cover every invariant and every action property
that a passing run checks. Of the world (`WorldAssumption`, `BattleAssumption`,
`QuestsAssumption`) the assumptions say what the validator guarantees: for Quests that
the quests are finitely many, that only steps of talk_to trade key items, and that
whatever a step receives some step grants or some quest pays; and besides that every
quest has a step, and for Battle `HealersApart`: no healer stands where an
enemy does. Both hold of the shipped world, and the validator asks neither
(section 5). The two theorems about key items have `OneOfEach` as their hypothesis.
`WorldDataAssumption` says that a file is finite, names the exits of its zones and has
its steps in sequences; `SecurityAssumption` that the limits are positive and rates of
refill not negative; `RouterAssumption` that its queue has room; `PresenceAssumption` that
the players are finitely many, and that no enemy stands in the respawn zone, again as
in the shipped world.
`LifecycleAssumption` and `GroupsAssumption` only keep names apart from
`NoConn` and `None`, or numbers in their sets.

| Theorem | States |
|---|---|
| `WorldProofs!TypeCorrect` | `[]TypeOK` |
| `WorldProofs!SessionsCorrect` | `SessionsSound`: `Registered`, `Presence`, `FightersInRoom` |
| `WorldProofs!ItemsCorrect` | `ItemsConserved` |
| `WorldProofs!ItemsRefine` | `Custody`: World implements ItemCustody |
| `BattleProofs!FightsSoundHolds`, `NoPanicHolds`, `ReplyTruthfulHolds` | `FightsSound`, `NoPanic`, `ReplyTruthful` |
| `GroupsProofs!MembershipSoundHolds`, `GoneForGoodHolds` | `MembershipSound`, `GoneForGood` |
| `QuestsProofs!QuestsTyped`, `StepsInRange`, `PrerequisitesHold`, `ForwardOnly` | `TypeOK`, `NoPanic`, `PrerequisitesKept`, `MovesForward` |
| `QuestsProofs!PaidOnce` | `RewardsPaidOnce` |
| `QuestsProofs!KeyItemsEarned`, `KeyItemsStayReachable` | `KeyItemsFollowProgress`, `KeyItemsReachable`, of a world with `OneOfEach` |
| `AcceptLoopProofs!LifecycleTyped`, `NoConnectionEscapes`, `ExitsClean` | `LifecycleTypeOK`, `NoneEscapes`, `CleanExit` |
| `AcceptLoopProofs!BucketsStaySound`, `NoEarlyTimeout` | `BucketsSound`, `NotBeforeABurst` |
| `AcceptLoopProofs!BansKept`, `FloodsTurnedAway` | `BanKept`, `FloodTurnedAway` |
| `PresenceProofs!CountersStaySound`, `EventsStayInOrder`, `WhoStaysWithinCount` | `CountersSound`, `EventsInOrder`, `WhoAgrees` |
| `RouterProofs!RouterStaysSound` | `RouterSound` |
| `WorldDataProofs!MapVerdictHolds`, `DataStaysSound` | `MapVerdict`, `DataSound` |

*Sessions.* `Presence` is not inductive without `Registered`: an action writes
`inZone[z][name]`, and another player's entry is untouched only because no two
sessions share a name. `FightersInRoom` needs both. Their conjunction with
`TypeOK` is `SessionInv`.

*Items.* Every step is shown to be one of three moves, TAKE, DROP or a return
(`StepMoves`); a move keeps the number of holders of each item at one
(`MovesKeepOne`) and is the same change of the mapped variable (`MovesCustody`,
`MoveOneCustody`). The refinement follows step by step.

*Fights.* `FightsSound` says nothing of the moments between two critical sections, so
`BattleInv` does, once per place of a connection's goroutine (`PlayerInv`), of a
fight's (`FieldInv`) and per NPC (`NPCInv`). Two facts carry it: whatever refers to a
BattleField is its owner's, so that a step of one player leaves the fights of all
others as they were (`OthersKept`); and an occupied NPC has exactly one fight that
answers for it (`OwnerHolds`), from the claim to whoever frees it. A round leaves a
result that fits the HP, which is why `Settle` and the reply agree.

*Groups.* `MembershipSound` is about listed groups; a disbanded one, which a JOIN that
waited for its mutex may still enter (section 5), keeps only "who has it as its
`GroupInfo` is in `Members`". `GroupsInv` says this of every group, that one goroutine
at a time is past its `GroupMu` (`Exclusive`), and for a disband under way, that the
players it has still to visit are exactly those whose `GroupInfo` is the group.

*Security.* What was granted, times its cost, with what the bucket would hold if it
were filled now, stays between one capacity and one capacity with all that was
refilled; the lower bound is `NotBeforeABurst`, the upper one `RateBounded`. Between the
count of a flood and the look at the bans the host is banned (`FloodInv`), since every
writer of `softbannedPlayers` leaves a ban in force, if another one (`BansOverwritten`).
The types need two facts more (`TypeInv`): strikes stay below `MaxStrikes` while no ban is
under way, and what `Recent`, a fold, leaves of a list of moments is one.

*Presence.* None of its invariants is inductive. `PresenceInv` says where the goroutine
of `Me` is against what it is about to answer (`MyPlace`), and relates the wire to the
rooms at every moment. For the counters (`RoomCounted`, `OnlineCounted`): what the GUI
will have counted when it has read all that is on the wire, which a step of the GUI does
not change and a line more changes as the server's room does. A LOOK reply on its way
carries the distance to the room (`late`), which becomes `drift` when it is written. For
the order (`Orderly`): the last line about a walker tells whether it is there, and
lines about another zone come before the announcement of the present one; a step does to
the wire one of the things that the `Order...` lemmas name, and each of them keeps the
order. `WhoBound` speaks of a WHO reply while it is made.

*Router.* `RouterInv`, the types with the two facts they contain and with what the fight
screen shows, is inductive as it stands; each part is kept by the seven groups of
events. That the screen never misses a fight needs `TrackInv`: what the screen will show
when it has read the lines ahead is whether the server is fighting. It holds from
"connected" on, before which no line of a fight is written, and which is ahead of all of
them when the router does not look at them yet.

*Quests.* Every step does one of four things to the quests (`QuestStep`). The
step index is out of range exactly between a last step and `completeQuest`, so
`InRange` speaks of every active quest but `finished`. A prerequisite stays
completed because a quest in the map `Quests` is never offered again. Gold and skill
are the sum over the completed quests because the sum over a set grows by what is added
to the set (`TotalGrows`); a sum is the number of coins in all the purses
(`TotalCounts`), and for numbers of elements the library has theorems. For key items `KeyInv`
says that the player holds exactly what was given and not taken, and that nothing
was taken before it was given: with `OneOfEach` what is given now was never given
before (`NotGivenYet`), so it is not yet taken either. What a step ahead receives was
given and not taken, and so is held, or it is still to come from a step or a reward ahead.

*Lifecycle.* `CloseConns` closes what is in `netConns`; that this is everything
needs `Tracked`, `netConns` is exactly what is served. That nothing comes after
needs `Ending`, `shuttingDown` is set in the same critical section.

*World data.* The walk is sound because everything it has seen is in every closed
set of zones with the starting zone, and complete because what it has visited is
closed but for the queue and the exits it is still looking at; that comparing two
numbers decides it needs that no zone is seen twice, across `visited` and `queue`
together, and the lemma that a sequence without repetition is as long as its range.
`WalksSucceed` holds because `mapLooper` only ever goes down (`Descending`): the last
zone of the stack has all its exits still to try, `Validate` has checked that it has
one and that it leads to a zone, which is on the path, where the search ends, or new.
The verdict on the chains of requirements: a chain that is followed keeps the set of
quests it has met, each of which requires another one or the current one (`Met`), and so
it is at most as long as there are quests; once it is longer it has met a quest twice
and some circle lies on it, or beside the quest it started from (`Aside`). If there is a
circle there is a least one (`LeastCircle`), and the chain of a quest on it cannot have
ended well (`AllCleared`). That `Validate` accepts exactly the balanced key items
follows its fold over the steps (`BalancedSteps`).

*Induction over data.* The library's induction theorems take an operator as parameter,
which the installed provers cannot instantiate. The proofs above use it in another form: a
set that holds 0, and n + 1 with each n, holds all of Nat (`Induction`), which
follows from the well-foundedness of < by its lemma about sets. `FoldLeft` and
`MapThenSumSet` are unfolded to the recursive function they choose, which is shown to
exist (`IteratesExists`), and from there to a run, a function from the numbers of steps
to the values (`FoldRuns`); what holds of a fold is shown of its run.

Only model-checked: everything temporal (`ItemsComeHome`, `NameComesFree`, the
`CommandsEnd`s, `NoGoroutineLeak`, `ShutdownEnds`, `ViewCatchesUp`, `LogGoes`,
`UserAnswered`, `GoroutinesEnd`, `LoaderEnds`), for liveness and `ENABLED` are beyond
the prover, and the two violations of section 5, which are no theorems.

## 7. Not modelled

- INVENTORY, QUESTS, KEYITEMS, EXAMINE, STATUS, GOLD and the other queries that
  change no state and whose answer is taken at one moment.
- CHAT GLOBAL and CHAT GROUP, the announcements of a fight's start and end: the same
  pattern as CHAT ROOM, under another mutex, and no state.
- The validator's checks of single entries (names, descriptions, numbers, roles,
  minimums), which are one flag of WorldData, and NPCs there.
- Rate limits and bans appear in the other modules as an end of the connection or
  a command that is not run. The bucket of the login (`handleLogin`) only ends a
  connection.
- `GUI/serverResponseParser.go` and the reply handlers that fill lists and labels:
  conversions of text; layout and drawing of the GUI; the CLI clients, which relay
  lines.
- Sockets: their buffers (but for `wire` in Presence), and clients that stop reading
  for good (but for what they do to the shutdown, in Lifecycle).
- World files with `null` entries.
- Strings: the wording of replies, logs and dialogue lines, and which line of an
  NPC comes next (`ChatIndex`).
