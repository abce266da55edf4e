---------------------------- MODULE RouterProofs -----------------------------
(***************************************************************************)
(* Proofs about the router of the GUI, for any number of connections and   *)
(* any capacity of its queues.                                             *)
(*                                                                         *)
(* The types of Router with the two facts they contain, that a connection  *)
(* the router has let go of is shut down and that it leaves no flag and no *)
(* fight behind, are inductive; so is what the fight screen shows.         *)
(*                                                                         *)
(* That the screen never misses a fight needs the lines between the server *)
(* and the screen: TrackInv follows the screen through the lines that are  *)
(* written, sent, queued and read, as a fold over the lines ahead.  The    *)
(* lemmas on folds come from induction, which is stated here for sets of   *)
(* numbers and follows from the well-foundedness of the order on Nat.      *)
(***************************************************************************)
EXTENDS Router, WellFoundedInduction, TLAPS

Flags ==
    /\ button \in BOOLEAN /\ stuck \in BOOLEAN /\ loginReq \in BOOLEAN
    /\ quitReq \in BOOLEAN /\ greeted \in BOOLEAN /\ loggedIn \in BOOLEAN
    /\ pending \in BOOLEAN /\ quitting \in BOOLEAN
    /\ timeoutSig \in BOOLEAN /\ hideSig \in BOOLEAN

Places ==
    /\ router \in {"run", "wait", "bye"}
    /\ screen \in {"login", "game", "closed"}
    /\ tap \in Cmds \cup {None}
    /\ tc \in Conns \cup {0}

FightShown == fight \in Fights /\ Shown(fight)

(* A connection that is not the router's has been shut down. *)
LetGo ==
    /\ reader \in [Conns -> {"off", "on", "ended"}]
    /\ writer \in [Conns -> {"off", "on", "failed", "ended"}]
    /\ done \in [Conns -> BOOLEAN]
    /\ \A c \in Conns : c # tc /\ reader[c] # "off" => done[c]

Servers ==
    /\ fighting \in [Conns -> BOOLEAN]
    /\ srv \in [Conns -> {"off", "accepted", "login", "in", "hung", "closed"}]

Sent == out \in [Conns -> {q \in Seq(Cmds) : Len(q) <= MaxOut}]
Written == wire \in [Conns -> Seq(Lines)]

(* No connection, no state of one. *)
Clean ==
    tc = 0 => /\ ~greeted /\ ~loggedIn /\ ~pending /\ ~quitting
              /\ ~fight.open /\ ~fight.inBattle

RouterInv ==
    /\ Flags /\ Places /\ FightShown /\ LetGo /\ Servers /\ Sent /\ Written /\ Clean

------------------------------------------------------------------------------
(* The fight screen: each of its operations keeps what it shows.           *)

LEMMA FightMoves ==
    ASSUME NEW f \in Fights, Shown(f)
    PROVE  /\ LeaveBattleMode(f) \in Fights /\ ~LeaveBattleMode(f).inBattle
           /\ Shown(LeaveBattleMode(f))
           /\ \A line \in Lines : FightAfter(f, line) \in Fights
                                  /\ Shown(FightAfter(f, line))
PROOF
<1>1. ASSUME NEW g \in Fights, Shown(g)
      PROVE  /\ LeaveBattleMode(g) \in Fights /\ ~LeaveBattleMode(g).inBattle
             /\ EndBattleMode(g) \in Fights /\ ~EndBattleMode(g).inBattle
  BY <1>1 DEF Fights, Shown, LeaveBattleMode, EndBattleMode
<1>2. ASSUME NEW g \in Fights, Shown(g)
      PROVE  /\ EnterBattleMode(g) \in Fights /\ Shown(EnterBattleMode(g))
  BY <1>2 DEF Fights, Shown, EnterBattleMode
<1>3. ASSUME NEW g \in Fights, Shown(g)
      PROVE  /\ RestartBattleTimer(g) \in Fights /\ Shown(RestartBattleTimer(g))
  BY <1>3 DEF Fights, Shown, RestartBattleTimer
<1>4. ASSUME NEW line \in Lines
      PROVE  HandleBattle(f, line) \in Fights /\ Shown(HandleBattle(f, line))
  BY <1>1, <1>2, <1>3 DEF HandleBattle, Shown
<1>5. ASSUME NEW line \in Lines
      PROVE  FightAfter(f, line) \in Fights /\ Shown(FightAfter(f, line))
  BY <1>1, <1>4 DEF FightAfter, Shown
<1> QED BY <1>1, <1>5 DEF Shown

------------------------------------------------------------------------------
(* The next-state relation in seven groups. *)
Ends == TapConnRequest \/ HandleQuit \/ GiveUp \/ Close
Timers == BattleTimerFires \/ HideTimerFires \/ BattleScreenTimeout \/ BattleLogHide
Outside == \E c \in Conns : Write(c) \/ Released(c) \/ Server(c) \/ Drop(c)

LEMMA ConnFacts == 0 \notin Conns /\ MaxOut \in Nat \ {0}
PROOF BY RouterAssumption DEF RouterAssumption, Conns

LEMMA ResetFight ==
    ASSUME RouterInv, Reset
    PROVE  FightShown' /\ Clean'
PROOF
<1>1. LeaveBattleMode(fight) \in Fights /\ ~LeaveBattleMode(fight).inBattle
  BY FightMoves DEF RouterInv, FightShown
<1>2. /\ fight' \in Fights /\ ~fight'.inBattle /\ ~fight'.open
  BY <1>1 DEF Reset, Fights
<1> QED BY <1>2 DEF Reset, StillPending, FightShown, Shown, Clean

(* A full queue stays as it is. *)
LEMMA SendKeeps ==
    ASSUME RouterInv, tc \in Conns, NEW cmd \in Cmds, Send(cmd)
    PROVE  Sent'
PROOF
<1> USE DEF RouterInv, Sent
<1>1. CASE HasRoom
  <2>1. out[tc] \in Seq(Cmds) /\ Len(out[tc]) < MaxOut  BY <1>1 DEF HasRoom
  <2>2. Append(out[tc], cmd) \in Seq(Cmds) /\ Len(Append(out[tc], cmd)) <= MaxOut
    BY <2>1, ConnFacts
  <2> QED BY <1>1, <2>2 DEF Send
<1>2. CASE ~HasRoom  BY <1>2 DEF Send
<1> QED BY <1>1, <1>2

LEMMA ServerSteps ==
    ASSUME RouterInv, NEW c \in Conns, Server(c)
    PROVE  Servers' /\ Written'
PROOF
<1> USE DEF RouterInv, Servers, Written
<1>1. ASSUME NEW lines \in Seq(Lines), NEW l \in {"login", "in", "closed"},
             NEW b \in BOOLEAN, ServerStep(c, lines, l, b)
      PROVE  Servers' /\ Written'
  BY <1>1 DEF ServerStep
<1>2. \A x, y \in Lines : <<x>> \in Seq(Lines) /\ <<x, y>> \in Seq(Lines)
  OBVIOUS
<1>3. {"hello", "connected", "err", "bye", "round", "won", "lost", "respawn",
       "fled", "moved"} = Lines
  BY DEF Lines
<1>4. CASE Greet(c)  BY <1>1, <1>2, <1>3, <1>4 DEF Greet
<1>5. CASE HandleLogin(c)  BY <1>1, <1>2, <1>3, <1>5 DEF HandleLogin
<1>6. CASE Dispatch(c)
  <2>1. fighting[c] \in BOOLEAN  OBVIOUS
  <2> QED BY <1>1, <1>2, <1>3, <1>6, <2>1 DEF Dispatch
<1> QED BY <1>4, <1>5, <1>6 DEF Server

LEMMA DropSteps ==
    ASSUME RouterInv, NEW c \in Conns, Drop(c)
    PROVE  Servers' /\ Written'
PROOF
<1> USE DEF RouterInv, Servers, Written
<1>1. \A k \in 0 .. Len(wire[c]) : SubSeq(wire[c], 1, k) \in Seq(Lines)
  <2>1. wire[c] \in Seq(Lines)  OBVIOUS
  <2> QED BY <2>1
<1>2. CASE srv' = [srv EXCEPT ![c] = "hung"] /\ UNCHANGED <<wire, fighting>>
  BY <1>2
<1>3. CASE /\ \E k \in 0 .. Len(wire[c]) : wire' = [wire EXCEPT ![c] = SubSeq(@, 1, k)]
           /\ srv' = [srv EXCEPT ![c] = "closed"]
           /\ fighting' = [fighting EXCEPT ![c] = FALSE]
  BY <1>1, <1>3
<1> QED BY <1>2, <1>3 DEF Drop

(* Neither the server nor the goroutines of a connection touch the router. *)
LEMMA OutsideApart ==
    ASSUME Outside
    PROVE  UNCHANGED <<router, uiVars, tc, flagVars, fight, signalVars>>
PROOF
<1> PICK c \in Conns : Write(c) \/ Released(c) \/ Server(c) \/ Drop(c)
  BY DEF Outside
<1>1. CASE Write(c)  BY <1>1 DEF Write
<1>2. CASE Released(c)  BY <1>2 DEF Released
<1>3. CASE Server(c)
  <2>1. PICK lines, l, b : ServerStep(c, lines, l, b)
    BY <1>3 DEF Server, Greet, HandleLogin, Dispatch
  <2> QED BY <2>1 DEF ServerStep
<1>4. CASE Drop(c)  BY <1>4 DEF Drop
<1> QED BY <1>1, <1>2, <1>3, <1>4

LEMMA FlagsKept ==
    ASSUME RouterInv, Next
    PROVE  Flags'
PROOF
<1> USE DEF RouterInv, Flags, uiVars, flagVars, signalVars
<1>1. CASE User
  <2>1. CASE Press  BY <2>1 DEF Press
  <2>2. CASE CloseWindow  BY <2>2 DEF CloseWindow
  <2>3. ASSUME NEW cmd \in Cmds, Tap(cmd)  PROVE Flags'
    BY <2>3 DEF Tap
  <2> QED BY <1>1, <2>1, <2>2, <2>3 DEF User
<1>2. CASE HandleLoginRequest
  <2>1. /\ loginReq' = stuck /\ stuck' = FALSE
        /\ UNCHANGED <<quitReq, loggedIn, quitting, signalVars, greeted>>
    <3>1. TakeLoginReq /\ UNCHANGED greeted
      BY <1>2, Zenon DEF HandleLoginRequest, Dial, DialFails, LoginAgain
    <3> QED BY <3>1, Zenon DEF TakeLoginReq
  <2>2. pending' \in {pending, TRUE}
    BY <1>2 DEF HandleLoginRequest, Dial, DialFails, LoginAgain
  <2>3. button' \in BOOLEAN
    <3>1. CASE LoginAgain
      <4>1. button' = (button \/ ~HasRoom) \/ button' = button
        BY <3>1, Zenon DEF LoginAgain
      <4>2. (button \/ ~HasRoom) \in BOOLEAN  BY Zenon
      <4> QED BY <4>1, <4>2, Zenon
    <3> QED BY <1>2, <3>1 DEF HandleLoginRequest, Dial, DialFails
  <2> QED BY <2>1, <2>2, <2>3
<1>3. CASE HandleServerResponse
  <2>1. CASE Greeting
    <3>1. button' \in BOOLEAN /\ greeted' \in BOOLEAN /\ pending' \in BOOLEAN
      BY <2>1, Zenon DEF Greeting
    <3> QED BY <2>1, <3>1 DEF Greeting, Receive
  <2>2. CASE Connected  BY <2>2 DEF Connected, Receive
  <2>3. CASE Bye  BY <2>3 DEF Bye, Receive, Reset, StillPending
  <2>4. ASSUME NEW line \in Lines, BeforeLogin(line)  PROVE Flags'
    <3>1. button' \in BOOLEAN  BY <2>4, Zenon DEF BeforeLogin, LoginError
    <3> QED BY <2>4, <3>1 DEF BeforeLogin, Receive
  <2>5. ASSUME NEW line \in Lines, Reply(line)  PROVE Flags'
    <3>1. quitting' \in BOOLEAN  BY <2>5, Zenon DEF Reply
    <3> QED BY <2>5, <3>1 DEF Reply, Receive
  <2>6. ASSUME NEW line \in Lines, WaitForBye(line)  PROVE Flags'
    BY <2>6 DEF WaitForBye, Receive
  <2> QED BY <1>3, <2>1, <2>2, <2>3, <2>4, <2>5, <2>6 DEF HandleServerResponse
<1>4. CASE HandleServerErr
  BY <1>4 DEF HandleServerErr, ReadError, WriteError, ConnectionLost, Reset,
     StillPending
<1>5. CASE Ends
  <2>1. CASE TapConnRequest
    <3>1. quitting' \in BOOLEAN  BY <2>1, Zenon DEF TapConnRequest
    <3> QED BY <2>1, <3>1 DEF TapConnRequest
  <2>2. CASE HandleQuit \/ GiveUp \/ Close
    <3>1. /\ quitReq' \in {quitReq, FALSE}
          /\ UNCHANGED <<button, stuck, loginReq, flagVars, signalVars>>
      BY <2>2 DEF HandleQuit, GiveUp, Close
    <3> QED BY <3>1
  <2> QED BY <1>5, <2>1, <2>2 DEF Ends
<1>6. CASE Timers
  <2>1. timeoutSig' \in {timeoutSig, TRUE, FALSE} /\ hideSig' \in {hideSig, TRUE, FALSE}
    BY <1>6 DEF Timers, BattleTimerFires, HideTimerFires, BattleScreenTimeout,
                BattleLogHide
  <2>2. UNCHANGED <<button, stuck, loginReq, quitReq, flagVars>>
    BY <1>6 DEF Timers, BattleTimerFires, HideTimerFires, BattleScreenTimeout,
                BattleLogHide
  <2> QED BY <2>1, <2>2
<1>7. CASE Outside  BY <1>7, OutsideApart
<1> QED BY <1>1, <1>2, <1>3, <1>4, <1>5, <1>6, <1>7 DEF Next, Ends, Timers, Outside

LEMMA PlacesKept ==
    ASSUME RouterInv, Next
    PROVE  Places'
PROOF
<1> USE DEF RouterInv, Places, uiVars
<1>1. CASE User
  BY <1>1 DEF User, Press, CloseWindow, Tap
<1>2. CASE HandleLoginRequest
  BY <1>2 DEF HandleLoginRequest, Dial, DialFails, LoginAgain, TakeLoginReq
<1>3. CASE HandleServerResponse
  BY <1>3 DEF HandleServerResponse, Greeting, Connected, Bye, BeforeLogin,
     Reply, WaitForBye, Receive, Reset
<1>4. CASE HandleServerErr
  BY <1>4 DEF HandleServerErr, ReadError, WriteError, ConnectionLost, Reset
<1>5. CASE Ends
  BY <1>5 DEF Ends, TapConnRequest, HandleQuit, GiveUp, Close
<1>6. CASE Timers
  BY <1>6 DEF Timers, BattleTimerFires, HideTimerFires, BattleScreenTimeout,
     BattleLogHide
<1>7. CASE Outside  BY <1>7, OutsideApart
<1> QED BY <1>1, <1>2, <1>3, <1>4, <1>5, <1>6, <1>7 DEF Next, Ends, Timers, Outside

LEMMA FightShownKept ==
    ASSUME RouterInv, Next
    PROVE  FightShown'
PROOF
<1> USE DEF RouterInv, FightShown
<1>1. CASE User
  BY <1>1 DEF User, Press, CloseWindow, Tap
<1>2. CASE HandleLoginRequest
  BY <1>2 DEF HandleLoginRequest, Dial, DialFails, LoginAgain, TakeLoginReq
<1>3. CASE HandleServerResponse
  <2>1. CASE Bye  BY <2>1, ResetFight DEF Bye, Receive
  <2>2. ASSUME NEW line \in Lines, Reply(line)  PROVE FightShown'
    <3>1. fight' = FightAfter(fight, line)  BY <2>2 DEF Reply
    <3> QED BY <3>1, FightMoves
  <2> QED BY <1>3, <2>1, <2>2 DEF HandleServerResponse, Greeting, Connected,
                                  BeforeLogin, WaitForBye
<1>4. CASE HandleServerErr
  BY <1>4, ResetFight DEF HandleServerErr, ReadError, WriteError, ConnectionLost
<1>5. CASE Ends
  BY <1>5 DEF Ends, TapConnRequest, HandleQuit, GiveUp, Close
<1>6. CASE Timers
  <2>1. CASE BattleTimerFires  BY <2>1 DEF BattleTimerFires, Fights, Shown
  <2>2. CASE HideTimerFires  BY <2>2 DEF HideTimerFires, Fights, Shown
  <2>3. CASE BattleScreenTimeout
    <3>1. fight' \in {fight, LeaveBattleMode(fight)}
      BY <2>3 DEF BattleScreenTimeout
    <3> QED BY <3>1, FightMoves
  <2>4. CASE BattleLogHide  BY <2>4 DEF BattleLogHide, MayHide, Fights, Shown
  <2> QED BY <1>6, <2>1, <2>2, <2>3, <2>4 DEF Timers
<1>7. CASE Outside  BY <1>7, OutsideApart
<1> QED BY <1>1, <1>2, <1>3, <1>4, <1>5, <1>6, <1>7 DEF Next, Ends, Timers, Outside

LEMMA LetGoKept ==
    ASSUME RouterInv, Next
    PROVE  LetGo'
PROOF
<1> USE DEF RouterInv, LetGo, goVars
<1>1. CASE User
  BY <1>1 DEF User, Press, CloseWindow, Tap
<1>2. CASE HandleLoginRequest
  BY <1>2, ConnFacts DEF HandleLoginRequest, Dial, DialFails, LoginAgain
<1>3. CASE HandleServerResponse
  BY <1>3 DEF HandleServerResponse, Greeting, Connected, Bye, BeforeLogin,
     Reply, WaitForBye, Receive, Reset, Shutdown
<1>4. CASE HandleServerErr
  <2>1. /\ tc \in Conns /\ tc' = 0
        /\ done' = [done EXCEPT ![tc] = TRUE]
    BY <1>4, ConnFacts DEF HandleServerErr, ReadError, WriteError, ConnectionLost, Reset,
                           Shutdown, Places
  <2>2. CASE ReadError  BY <2>1, <2>2 DEF ReadError
  <2>3. CASE WriteError  BY <2>1, <2>3 DEF WriteError
  <2> QED BY <1>4, <2>2, <2>3 DEF HandleServerErr
<1>5. CASE Ends
  BY <1>5 DEF Ends, TapConnRequest, HandleQuit, GiveUp, Close, Shutdown
<1>6. CASE Timers
  BY <1>6 DEF Timers, BattleTimerFires, HideTimerFires, BattleScreenTimeout,
     BattleLogHide
<1>7. CASE Outside
  <2> PICK c \in Conns : Write(c) \/ Released(c) \/ Server(c) \/ Drop(c)
    BY <1>7 DEF Outside
  <2>1. UNCHANGED tc  BY <1>7, OutsideApart
  <2>2. CASE Write(c)  BY <2>1, <2>2 DEF Write
  <2>3. CASE Released(c)  BY <2>1, <2>3 DEF Released
  <2>4. CASE Server(c)
    <3>1. PICK lines, l, b : ServerStep(c, lines, l, b)
      BY <2>4 DEF Server, Greet, HandleLogin, Dispatch
    <3> QED BY <3>1 DEF ServerStep
  <2>5. CASE Drop(c)  BY <2>5 DEF Drop
  <2> QED BY <2>2, <2>3, <2>4, <2>5
<1> QED BY <1>1, <1>2, <1>3, <1>4, <1>5, <1>6, <1>7 DEF Next, Ends, Timers, Outside

LEMMA ServersKept ==
    ASSUME RouterInv, Next
    PROVE  Servers'
PROOF
<1> USE DEF RouterInv, Servers, srvVars
<1>1. CASE User
  BY <1>1 DEF User, Press, CloseWindow, Tap
<1>2. CASE HandleLoginRequest
  BY <1>2 DEF HandleLoginRequest, Dial, DialFails, LoginAgain, TakeLoginReq
<1>3. CASE HandleServerResponse
  BY <1>3 DEF HandleServerResponse, Greeting, Connected, Bye, BeforeLogin,
     Reply, WaitForBye, Receive
<1>4. CASE HandleServerErr
  BY <1>4 DEF HandleServerErr, ReadError, WriteError, ConnectionLost
<1>5. CASE Ends
  BY <1>5 DEF Ends, TapConnRequest, HandleQuit, GiveUp, Close
<1>6. CASE Timers
  BY <1>6 DEF Timers, BattleTimerFires, HideTimerFires, BattleScreenTimeout,
     BattleLogHide
<1>7. CASE Outside
  <2> PICK c \in Conns : Write(c) \/ Released(c) \/ Server(c) \/ Drop(c)
    BY <1>7 DEF Outside
  <2>1. CASE Write(c)  BY <2>1 DEF Write
  <2>2. CASE Released(c)  BY <2>2 DEF Released
  <2>3. CASE Server(c)  BY <2>3, ServerSteps
  <2>4. CASE Drop(c)  BY <2>4, DropSteps
  <2> QED BY <2>1, <2>2, <2>3, <2>4
<1> QED BY <1>1, <1>2, <1>3, <1>4, <1>5, <1>6, <1>7 DEF Next, Ends, Timers, Outside

LEMMA SentKept ==
    ASSUME RouterInv, Next
    PROVE  Sent'
PROOF
<1> USE DEF RouterInv, Sent
<1>1. CASE User
  BY <1>1 DEF User, Press, CloseWindow, Tap
<1>2. CASE HandleLoginRequest
  <2>1. CASE LoginAgain
    <3>1. tc \in Conns  BY <2>1, ConnFacts DEF LoginAgain, Places
    <3>2. CASE UNCHANGED out  BY <3>2
    <3>3. CASE Send("CONNECT")  BY <3>1, <3>3, SendKeeps DEF Cmds
    <3> QED BY <2>1, <3>2, <3>3 DEF LoginAgain
  <2> QED BY <1>2, <2>1 DEF HandleLoginRequest, Dial, DialFails
<1>3. CASE HandleServerResponse
  <2>1. CASE Greeting
    <3>1. tc \in Conns  BY <2>1, ConnFacts DEF Greeting, Receive, Places
    <3>2. CASE UNCHANGED out  BY <3>2
    <3>3. CASE Send("CONNECT")  BY <3>1, <3>3, SendKeeps DEF Cmds
    <3> QED BY <2>1, <3>2, <3>3 DEF Greeting
  <2> QED BY <1>3, <2>1 DEF HandleServerResponse, Connected, Bye, BeforeLogin,
                            Reply, WaitForBye
<1>4. CASE HandleServerErr
  BY <1>4 DEF HandleServerErr, ReadError, WriteError, ConnectionLost
<1>5. CASE Ends
  <2>1. ASSUME tc # 0, NEW cmd \in Cmds, Send(cmd)  PROVE Sent'
    BY <2>1, SendKeeps DEF Places
  <2>2. CASE TapConnRequest
    <3>1. tap \in Cmds  BY <2>2 DEF TapConnRequest, Places
    <3> QED BY <2>1, <2>2, <3>1 DEF TapConnRequest
  <2>3. CASE HandleQuit  BY <2>1, <2>3 DEF HandleQuit, Cmds
  <2> QED BY <1>5, <2>2, <2>3 DEF Ends, GiveUp, Close
<1>6. CASE Timers
  BY <1>6 DEF Timers, BattleTimerFires, HideTimerFires, BattleScreenTimeout,
     BattleLogHide
<1>7. CASE Outside
  <2> PICK c \in Conns : Write(c) \/ Released(c) \/ Server(c) \/ Drop(c)
    BY <1>7 DEF Outside
  <2>1. CASE out[c] # <<>> /\ out' = [out EXCEPT ![c] = Tail(@)]
    <3>1. out[c] \in Seq(Cmds) /\ Len(out[c]) <= MaxOut  OBVIOUS
    <3>2. Tail(out[c]) \in Seq(Cmds) /\ Len(Tail(out[c])) <= MaxOut
      BY <2>1, <3>1, ConnFacts
    <3> QED BY <2>1, <3>2
  <2>2. CASE UNCHANGED out  BY <2>2
  <2> QED BY <2>1, <2>2 DEF Write, Released, Server, Greet, HandleLogin,
                            Dispatch, Handles, Drop
<1> QED BY <1>1, <1>2, <1>3, <1>4, <1>5, <1>6, <1>7 DEF Next, Ends, Timers, Outside

LEMMA WrittenKept ==
    ASSUME RouterInv, Next
    PROVE  Written'
PROOF
<1> USE DEF RouterInv, Written
<1>1. CASE User
  BY <1>1 DEF User, Press, CloseWindow, Tap
<1>2. CASE HandleLoginRequest
  BY <1>2 DEF HandleLoginRequest, Dial, DialFails, LoginAgain, TakeLoginReq
<1>3. CASE HandleServerResponse
  <2>1. PICK line \in Lines : Receive(line)
    BY <1>3 DEF HandleServerResponse, Greeting, Connected, Bye, BeforeLogin,
                Reply, WaitForBye, Lines
  <2>2. tc \in Conns /\ wire[tc] \in Seq(Lines) /\ wire[tc] # <<>>
    BY <2>1, ConnFacts DEF Receive, Places
  <2>3. Tail(wire[tc]) \in Seq(Lines)  BY <2>2
  <2> QED BY <2>1, <2>3 DEF Receive
<1>4. CASE HandleServerErr
  BY <1>4 DEF HandleServerErr, ReadError, WriteError, ConnectionLost
<1>5. CASE Ends
  BY <1>5 DEF Ends, TapConnRequest, HandleQuit, GiveUp, Close
<1>6. CASE Timers
  BY <1>6 DEF Timers, BattleTimerFires, HideTimerFires, BattleScreenTimeout,
     BattleLogHide
<1>7. CASE Outside
  <2> PICK c \in Conns : Write(c) \/ Released(c) \/ Server(c) \/ Drop(c)
    BY <1>7 DEF Outside
  <2>1. CASE Write(c)  BY <2>1 DEF Write
  <2>2. CASE Released(c)  BY <2>2 DEF Released
  <2>3. CASE Server(c)  BY <2>3, ServerSteps
  <2>4. CASE Drop(c)  BY <2>4, DropSteps
  <2> QED BY <2>1, <2>2, <2>3, <2>4
<1> QED BY <1>1, <1>2, <1>3, <1>4, <1>5, <1>6, <1>7 DEF Next, Ends, Timers, Outside

LEMMA CleanKept ==
    ASSUME RouterInv, Next
    PROVE  Clean'
PROOF
<1> USE DEF RouterInv, Clean, flagVars
<1>1. CASE User
  BY <1>1 DEF User, Press, CloseWindow, Tap
<1>2. CASE HandleLoginRequest
  BY <1>2, ConnFacts DEF HandleLoginRequest, Dial, DialFails, LoginAgain,
     TakeLoginReq
<1>3. CASE HandleServerResponse
  <2>1. CASE Bye  BY <2>1, ResetFight DEF Bye, Receive
  <2>2. (UNCHANGED tc /\ tc # 0) \/ Bye
    BY <1>3 DEF HandleServerResponse, Greeting, Connected, BeforeLogin, Reply,
                WaitForBye, Receive
  <2> QED BY <2>1, <2>2
<1>4. CASE HandleServerErr
  BY <1>4, ResetFight DEF HandleServerErr, ReadError, WriteError, ConnectionLost
<1>5. CASE Ends
  BY <1>5 DEF Ends, TapConnRequest, HandleQuit, GiveUp, Close
<1>6. CASE Timers
  <2>1. UNCHANGED <<tc, flagVars>>
    BY <1>6 DEF Timers, BattleTimerFires, HideTimerFires, BattleScreenTimeout,
                BattleLogHide
  <2>2. ~fight.open => ~fight'.open
    BY <1>6 DEF Timers, BattleTimerFires, HideTimerFires, BattleScreenTimeout,
                BattleLogHide, LeaveBattleMode, FightShown, Fights
  <2>3. ~fight.inBattle => ~fight'.inBattle
    BY <1>6 DEF Timers, BattleTimerFires, HideTimerFires, BattleScreenTimeout,
                BattleLogHide, LeaveBattleMode, FightShown, Fights
  <2> QED BY <2>1, <2>2, <2>3
<1>7. CASE Outside  BY <1>7, OutsideApart
<1> QED BY <1>1, <1>2, <1>3, <1>4, <1>5, <1>6, <1>7 DEF Next, Ends, Timers, Outside

LEMMA InitInv == Init => RouterInv
PROOF
<1> SUFFICES ASSUME Init PROVE RouterInv
  OBVIOUS
<1>1. Flags  BY DEF Init, Flags
<1>2. Places /\ Servers  BY DEF Init, Places, Servers
<1>3. FightShown /\ Clean  BY DEF Init, FightShown, Shown, Fights, NoFight, Clean
<1>4. LetGo  BY DEF Init, LetGo
<1>5. Sent /\ Written
  <2>1. <<>> \in Seq(Cmds) /\ Len(<<>>) <= MaxOut /\ <<>> \in Seq(Lines)  BY ConnFacts
  <2> QED BY <2>1 DEF Init, Sent, Written
<1> QED BY <1>1, <1>2, <1>3, <1>4, <1>5 DEF RouterInv

(* Types, the end of what the router lets go of, and the fight screen are  *)
(* kept by every event, whatever the server, the user and the timers do.   *)
THEOREM RouterInvariant == Spec => []RouterInv
PROOF
<1>1. RouterInv /\ [Next]_vars => RouterInv'
  <2> SUFFICES ASSUME RouterInv, [Next]_vars PROVE RouterInv'
    OBVIOUS
  <2>1. CASE Next
    BY <2>1, FlagsKept, PlacesKept, FightShownKept, LetGoKept, ServersKept, SentKept,
       WrittenKept, CleanKept DEF RouterInv
  <2>2. CASE UNCHANGED vars
    BY <2>2 DEF RouterInv, Flags, Places, FightShown, Shown, LetGo, Servers,
                Sent, Written,
                Clean, vars, uiVars, flagVars, signalVars, goVars, srvVars, boundVars
  <2> QED BY <2>1, <2>2
<1> QED BY InitInv, <1>1, PTL DEF Spec

(* A connection the router has let go of has been shut down, and without a *)
(* connection no greeting, login, pending login, QUIT or fight is left for *)
(* the next one; and all queues keep to their capacity.                    *)
THEOREM NothingLeftBehind == Spec => []TypeOK
PROOF
<1>1. RouterInv => TypeOK
  <2> SUFFICES ASSUME RouterInv PROVE TypeOK
    OBVIOUS
  <2>1. {button, stuck, loginReq, quitReq, greeted, loggedIn, pending, quitting,
         timeoutSig, hideSig} \subseteq BOOLEAN
    BY DEF RouterInv, Flags
  <2>2. \A c \in Conns :
          /\ out[c] \in Seq(Cmds) /\ Len(out[c]) <= MaxOut
          /\ wire[c] \in Seq(Lines)
          /\ c # tc /\ reader[c] # "off" => done[c]
    BY DEF RouterInv, Sent, Written, LetGo
  <2>3. fight \in Fights  BY DEF RouterInv, FightShown
  <2>4. tc = 0 => ~(greeted \/ loggedIn \/ pending \/ quitting \/ fight.open \/ fight.inBattle)
    BY Zenon DEF RouterInv, Clean
  <2> QED BY <2>1, <2>2, <2>3, <2>4 DEF TypeOK, RouterInv, Places, LetGo, Servers
<1> QED BY <1>1, RouterInvariant, PTL

(* As long as fight mode is on, the fight is open and the battle log shown,*)
(* also if a timer of an earlier fight fires late.                         *)
THEOREM FightModeShown == Spec => []Shown(fight)
PROOF
<1>1. RouterInv => Shown(fight)  BY DEF RouterInv, FightShown
<1> QED BY <1>1, RouterInvariant, PTL

------------------------------------------------------------------------------
(* The fight tracked.  What the fight screen comes to when all lines on    *)
(* their way have been read is a fold over them; the server adds to it at  *)
(* one end what the router takes from it at the other.                     *)

(* What holds of 0, and of n + 1 if it holds of n, holds of every number: *)
(* induction, for a set, from the order of the natural numbers.            *)
LEMMA Induction ==
    ASSUME NEW S, 0 \in S, \A n \in Nat : n \in S => n + 1 \in S
    PROVE  Nat \subseteq S
PROOF
<1> DEFINE Less == {p \in Nat \X Nat : p[1] < p[2]}
           Rest == Nat \ S
<1>1. IsWellFoundedOn(Less, Nat)
  BY NatLessThanWellFounded DEF OpToRel
<1> HIDE DEF Less
<1>2. SUFFICES ASSUME Rest # {}  PROVE FALSE
  OBVIOUS
<1>3. PICK n \in Rest : \A m \in Rest : <<m, n>> \notin Less
  <2> HIDE DEF Rest
  <2>1. Rest \subseteq Nat  BY DEF Rest
  <2> QED BY <1>1, <1>2, <2>1, WFMin
<1>4. n - 1 \in Nat /\ n - 1 \in S
  <2>1. n \in Nat /\ n # 0  BY <1>3
  <2>2. n - 1 \in Nat /\ <<n - 1, n>> \in Less  BY <2>1 DEF Less
  <2> QED BY <1>3, <2>2
<1> QED BY <1>3, <1>4

(* FoldLeft is defined by a function of the sets of indices that are left. *)
Iterates(f, b, s) ==
    f = [t \in SUBSET DOMAIN s |->
           IF t = {} THEN b ELSE FightAfter(f[t \ {Max(t)}], s[Max(t)])]

LEMMA LastIndex ==
    ASSUME NEW n \in Nat, NEW t \in SUBSET (1 .. n), n \in t
    PROVE  Max(t) = n
PROOF
<1>1. n \in t /\ \A y \in t : n >= y  OBVIOUS
<1>2. Max(t) \in t /\ \A y \in t : Max(t) >= y  BY <1>1, Zenon DEF Max
<1>3. n \in Nat /\ t \subseteq Int  OBVIOUS
<1>4. Max(t) >= n /\ n >= Max(t) /\ Max(t) \in Int  BY <1>1, <1>2, <1>3
<1> QED BY <1>3, <1>4

(* There is such a function: it grows with the length of the sequence.     *)
LEMMA IteratesExists ==
    ASSUME NEW b, NEW s, NEW n \in Nat, DOMAIN s = 1 .. n
    PROVE  \E f : Iterates(f, b, s)
PROOF
<1> DEFINE Upto(f, k) ==
             f = [t \in SUBSET (1 .. k) |->
                    IF t = {} THEN b ELSE FightAfter(f[t \ {Max(t)}], s[Max(t)])]
           S == {k \in Nat : \E f : Upto(f, k)}
<1>1. 0 \in S
  <2>1. \A t \in SUBSET (1 .. 0) : t = {}  OBVIOUS
  <2>2. Upto([t \in SUBSET (1 .. 0) |-> b], 0)  BY <2>1
  <2> QED BY <2>2
<1>2. ASSUME NEW k \in Nat, k \in S  PROVE k + 1 \in S
  <2>1. PICK f : Upto(f, k)  BY <1>2
  <2> DEFINE g == [t \in SUBSET (1 .. k + 1) |->
                     IF k + 1 \in t THEN FightAfter(f[t \ {k + 1}], s[k + 1]) ELSE f[t]]
  <2>2. \A t \in SUBSET (1 .. k) : t \in SUBSET (1 .. k + 1) /\ k + 1 \notin t
    OBVIOUS
  <2>3. \A t \in SUBSET (1 .. k) : g[t] = f[t]  BY <2>2
  <2>4. \A t \in SUBSET (1 .. k) :
          f[t] = IF t = {} THEN b ELSE FightAfter(f[t \ {Max(t)}], s[Max(t)])
    BY <2>1
  <2>5. ASSUME NEW t \in SUBSET (1 .. k + 1)
        PROVE  g[t] = IF t = {} THEN b ELSE FightAfter(g[t \ {Max(t)}], s[Max(t)])
    <3>1. CASE k + 1 \in t
      <4>1. Max(t) = k + 1  BY <3>1, LastIndex
      <4>2. t \ {k + 1} \in SUBSET (1 .. k)  OBVIOUS
      <4> HIDE DEF g
      <4>3. g[t] = FightAfter(f[t \ {k + 1}], s[k + 1])  BY <3>1 DEF g
      <4> QED BY <2>3, <3>1, <4>1, <4>2, <4>3
    <3>2. CASE k + 1 \notin t
      <4>1. t \in SUBSET (1 .. k)  BY <3>2
      <4>2. t \ {Max(t)} \in SUBSET (1 .. k)  BY <4>1
      <4> QED BY <2>3, <2>4, <4>1, <4>2
    <3> QED BY <3>1, <3>2
  <2>6. Upto(g, k + 1)  BY <2>5
  <2>7. \E h : Upto(h, k + 1)
    <3> HIDE DEF g, Upto
    <3> QED BY <2>6
  <2>8. k + 1 \in Nat  OBVIOUS
  <2> HIDE DEF Upto
  <2> QED BY <2>7, <2>8
<1> HIDE DEF S
<1>3. n \in S  BY <1>1, <1>2, Induction
<1> QED BY <1>3 DEF S, Iterates

(* h is a run of FightAfter over s: what it comes to after each line.       *)
Runs(h, b, s) ==
    /\ h[0] = b
    /\ \A k \in 1 .. Len(s) : h[k] = FightAfter(h[k - 1], s[k])

(* The fold is the end of a run. *)
LEMMA FoldRuns ==
    ASSUME NEW b, NEW L, NEW s \in Seq(L)
    PROVE  \E h : Runs(h, b, s) /\ FoldLeft(FightAfter, b, s) = h[Len(s)]
PROOF
<1>1. Len(s) \in Nat /\ DOMAIN s = 1 .. Len(s)  OBVIOUS
<1> DEFINE f == CHOOSE f : Iterates(f, b, s)
           h == [k \in 0 .. Len(s) |-> f[1 .. k]]
<1>2. Iterates(f, b, s)
  <2>1. \E g : Iterates(g, b, s)  BY <1>1, IteratesExists
  <2> QED BY <2>1
<1>3. FoldLeft(FightAfter, b, s) = f[1 .. Len(s)]
  BY <1>1 DEF FoldLeft, MapThenFoldSet, Iterates
<1> HIDE DEF f
<1>4. h[0] = b
  <2>1. 1 .. 0 = {} /\ {} \in SUBSET (DOMAIN s)  BY <1>1
  <2> QED BY <1>2, <2>1 DEF Iterates
<1>5. ASSUME NEW k \in 1 .. Len(s)  PROVE h[k] = FightAfter(h[k - 1], s[k])
  <2>1. k \in Nat /\ k \in 1 .. k /\ 1 .. k \subseteq 1 .. Len(s)  BY <1>1
  <2>2. Max(1 .. k) = k  BY <2>1, LastIndex
  <2>3. 1 .. k \in SUBSET (DOMAIN s) /\ 1 .. k # {}  BY <1>1, <2>1
  <2>4. f[1 .. k] = FightAfter(f[(1 .. k) \ {k}], s[k])
    BY <1>2, <2>2, <2>3 DEF Iterates
  <2>5. (1 .. k) \ {k} = 1 .. (k - 1)  OBVIOUS
  <2>6. h[k] = f[1 .. k] /\ h[k - 1] = f[1 .. (k - 1)]  BY <1>1
  <2> QED BY <2>4, <2>5, <2>6
<1>6. h[Len(s)] = f[1 .. Len(s)]  BY <1>1
<1> QED BY <1>3, <1>4, <1>5, <1>6 DEF Runs

(* Runs over sequences that begin alike begin alike. *)
AgreeUpto(s, t, n) == \A i \in 1 .. n : s[i] = t[i]

LEMMA RunsAgree ==
    ASSUME NEW b, NEW s, NEW t, NEW n \in Nat, n \in 0 .. Len(s), n \in 0 .. Len(t),
           AgreeUpto(s, t, n), NEW g, NEW h, Runs(g, b, s), Runs(h, b, t)
    PROVE  g[n] = h[n]
PROOF
<1> DEFINE S == {k \in Nat : k <= n => g[k] = h[k]}
<1>1. 0 \in S  BY DEF Runs
<1>2. ASSUME NEW k \in Nat, k \in S  PROVE k + 1 \in S
  <2>1. CASE k + 1 <= n
    <3>1. g[k + 1] = FightAfter(g[k], s[k + 1]) /\ h[k + 1] = FightAfter(h[k], t[k + 1])
      <4>1. k + 1 \in 1 .. Len(s) /\ k + 1 \in 1 .. Len(t) /\ (k + 1) - 1 = k  BY <2>1
      <4> QED BY <4>1 DEF Runs
    <3>2. s[k + 1] = t[k + 1]  BY <2>1 DEF AgreeUpto
    <3> QED BY <1>2, <2>1, <3>1, <3>2
  <2> QED BY <2>1
<1> HIDE DEF S
<1>3. n \in S  BY <1>1, <1>2, Induction
<1> QED BY <1>3 DEF S

(* A line more at the end, and one less at the front. *)
LEMMA FoldAppend ==
    ASSUME NEW b, NEW L, NEW s \in Seq(L), NEW e \in L
    PROVE  FoldLeft(FightAfter, b, Append(s, e)) = FightAfter(FoldLeft(FightAfter, b, s), e)
PROOF
<1> DEFINE n == Len(s)
           t == Append(s, e)
<1>1. t \in Seq(L) /\ n \in Nat /\ Len(t) = n + 1 /\ t[n + 1] = e  OBVIOUS
<1>2. AgreeUpto(s, t, n)  BY DEF AgreeUpto
<1>3. PICK g : Runs(g, b, s) /\ FoldLeft(FightAfter, b, s) = g[n]  BY FoldRuns
<1> HIDE DEF t
<1>4. PICK h : Runs(h, b, t) /\ FoldLeft(FightAfter, b, t) = h[n + 1]  BY <1>1, FoldRuns
<1>5. g[n] = h[n]
  <2>1. n \in 0 .. Len(s) /\ n \in 0 .. Len(t)  BY <1>1
  <2>2. Runs(g, b, s) /\ Runs(h, b, t)  BY <1>3, <1>4
  <2> QED BY <1>1, <1>2, <2>1, <2>2, RunsAgree
<1>6. h[n + 1] = FightAfter(h[n], e)
  <2>1. n + 1 \in 1 .. Len(t) /\ (n + 1) - 1 = n  BY <1>1
  <2> QED BY <1>1, <1>4, <2>1 DEF Runs
<1> QED BY <1>3, <1>4, <1>5, <1>6 DEF t

LEMMA FoldHead ==
    ASSUME NEW b, NEW L, NEW s \in Seq(L), s # <<>>
    PROVE  FoldLeft(FightAfter, b, s) = FoldLeft(FightAfter, FightAfter(b, Head(s)), Tail(s))
PROOF
<1> DEFINE n == Len(s) - 1
           a == FightAfter(b, Head(s))
           t == Tail(s)
<1>1. /\ t \in Seq(L) /\ n \in Nat /\ Len(t) = n /\ Len(s) = n + 1 /\ Head(s) = s[1]
      /\ \A i \in 1 .. n : t[i] = s[i + 1]
  OBVIOUS
<1>2. PICK g : Runs(g, b, s) /\ FoldLeft(FightAfter, b, s) = g[n + 1]  BY <1>1, FoldRuns
<1> HIDE DEF n, t
<1>3. PICK h : Runs(h, a, t) /\ FoldLeft(FightAfter, a, t) = h[n]  BY <1>1, FoldRuns
<1> DEFINE k == [i \in 0 .. n |-> g[i + 1]]
<1>4. k[0] = a
  <2>1. g[1] = FightAfter(g[1 - 1], s[1])  BY <1>1, <1>2 DEF Runs
  <2> QED BY <1>1, <1>2, <2>1 DEF Runs
<1>5. ASSUME NEW i \in 1 .. n  PROVE k[i] = FightAfter(k[i - 1], t[i])
  <2>1. i + 1 \in 1 .. Len(s) /\ (i + 1) - 1 = i /\ (i - 1) + 1 = i /\ i - 1 \in 0 .. n
    BY <1>1
  <2>2. g[i + 1] = FightAfter(g[i], s[i + 1])  BY <1>2, <2>1 DEF Runs
  <2> QED BY <1>1, <2>1, <2>2
<1>6. k[n] = g[n + 1]  BY <1>1
<1> HIDE DEF k
<1>7. Runs(k, a, t)  BY <1>1, <1>4, <1>5 DEF Runs
<1>8. k[n] = h[n]
  <2>1. n \in 0 .. Len(t) /\ AgreeUpto(t, t, n)  BY <1>1 DEF AgreeUpto
  <2>2. Runs(h, a, t)  BY <1>3
  <2> QED BY <1>1, <1>7, <2>1, <2>2, RunsAgree
<1> QED BY <1>2, <1>3, <1>6, <1>8 DEF t
(* The fight screen once the lines w have been read. *)
Ahead(f, w) == FoldLeft(FightAfter, f, w)

FightLines == {"round", "won", "lost", "fled", "moved", "respawn"}

LEMMA OneLine ==
    ASSUME NEW f \in Fights, Shown(f), NEW line \in Lines
    PROVE  /\ line = "round" => FightAfter(f, line).open
           /\ line \in FightLines \ {"round"} => ~FightAfter(f, line).open
           /\ line \notin FightLines => FightAfter(f, line) = f
PROOF
<1>1. ASSUME NEW g \in Fights  PROVE ~EndBattleMode(g).open
  BY <1>1 DEF Fights, EndBattleMode, LeaveBattleMode
<1>2. ASSUME NEW g \in Fights  PROVE RestartBattleTimer(g) \in Fights
  BY <1>2 DEF Fights, RestartBattleTimer
<1>3. EnterBattleMode(f) \in Fights /\ EnterBattleMode(f).open
  BY DEF Fights, EnterBattleMode, Shown
<1>4. line = "round" => FightAfter(f, line) = RestartBattleTimer(EnterBattleMode(f))
  BY DEF FightAfter, HandleBattle, LastRound
<1>5. line = "round" => FightAfter(f, line).open
  BY <1>3, <1>4 DEF RestartBattleTimer, Fights
<1>6. line \in {"won", "lost"} => ~FightAfter(f, line).open
  BY <1>1, <1>2, <1>3 DEF FightAfter, HandleBattle, LastRound
<1>7. line \in {"fled", "moved", "respawn"} => ~FightAfter(f, line).open
  BY <1>1 DEF FightAfter
<1>8. line \notin FightLines => FightAfter(f, line) = f
  BY DEF FightAfter, FightLines
<1> QED BY <1>5, <1>6, <1>7, <1>8 DEF FightLines

(* Two screens that are open alike stay so, whatever their timers: a timer *)
(* never changes where the lines to come will lead.                        *)
LEMMA AheadAlike ==
    ASSUME NEW f \in Fights, Shown(f), NEW g \in Fights, Shown(g), f.open = g.open,
           NEW w \in Seq(Lines)
    PROVE  /\ Ahead(f, w) \in Fights /\ Shown(Ahead(f, w))
           /\ Ahead(f, w).open = Ahead(g, w).open
PROOF
<1>1. PICK h : Runs(h, f, w) /\ Ahead(f, w) = h[Len(w)]  BY FoldRuns DEF Ahead
<1>2. PICK k : Runs(k, g, w) /\ Ahead(g, w) = k[Len(w)]  BY FoldRuns DEF Ahead
<1> DEFINE Alike(n) == /\ h[n] \in Fights /\ Shown(h[n]) /\ k[n] \in Fights /\ Shown(k[n])
                       /\ h[n].open = k[n].open
           S == {n \in Nat : n <= Len(w) => Alike(n)}
<1>3. 0 \in S  BY <1>1, <1>2 DEF Runs
<1>4. ASSUME NEW n \in Nat, n \in S  PROVE n + 1 \in S
  <2> SUFFICES ASSUME n + 1 <= Len(w)  PROVE Alike(n + 1)
    OBVIOUS
  <2>1. n + 1 \in 1 .. Len(w) /\ (n + 1) - 1 = n /\ Alike(n) /\ w[n + 1] \in Lines
    BY <1>4
  <2>2. h[n + 1] = FightAfter(h[n], w[n + 1]) /\ k[n + 1] = FightAfter(k[n], w[n + 1])
    BY <1>1, <1>2, <2>1 DEF Runs
  <2>3. /\ FightAfter(h[n], w[n + 1]) \in Fights /\ Shown(FightAfter(h[n], w[n + 1]))
        /\ FightAfter(k[n], w[n + 1]) \in Fights /\ Shown(FightAfter(k[n], w[n + 1]))
    BY <2>1, FightMoves
  <2>4. FightAfter(h[n], w[n + 1]).open = FightAfter(k[n], w[n + 1]).open
    <3>1. CASE w[n + 1] = "round"
      <4>1. FightAfter(h[n], w[n + 1]).open /\ FightAfter(k[n], w[n + 1]).open
        BY <2>1, <3>1, OneLine
      <4> QED BY <2>3, <4>1 DEF Fights
    <3>2. CASE w[n + 1] \in FightLines \ {"round"}
      <4>1. ~FightAfter(h[n], w[n + 1]).open /\ ~FightAfter(k[n], w[n + 1]).open
        BY <2>1, <3>2, OneLine
      <4> QED BY <2>3, <4>1 DEF Fights
    <3>3. CASE w[n + 1] \notin FightLines  BY <2>1, <3>3, OneLine
    <3> QED BY <3>1, <3>2, <3>3
  <2> QED BY <2>2, <2>3, <2>4
<1> HIDE DEF S
<1>5. Len(w) \in S  BY <1>3, <1>4, Induction
<1>6. Alike(Len(w))  BY <1>5 DEF S
<1> QED BY <1>1, <1>2, <1>6

(* Lines that are not of a fight change nothing. *)
Quiet(w) == \A i \in 1 .. Len(w) : w[i] \notin FightLines

LEMMA AheadQuiet ==
    ASSUME NEW f \in Fights, Shown(f), NEW w \in Seq(Lines), Quiet(w)
    PROVE  Ahead(f, w) = f
PROOF
<1>1. PICK h : Runs(h, f, w) /\ Ahead(f, w) = h[Len(w)]  BY FoldRuns DEF Ahead
<1> DEFINE S == {n \in Nat : n <= Len(w) => h[n] = f}
<1>2. 0 \in S  BY <1>1 DEF Runs
<1>3. ASSUME NEW n \in Nat, n \in S  PROVE n + 1 \in S
  <2> SUFFICES ASSUME n + 1 <= Len(w)  PROVE h[n + 1] = f
    OBVIOUS
  <2>1. /\ n + 1 \in 1 .. Len(w) /\ (n + 1) - 1 = n /\ h[n] = f
        /\ w[n + 1] \in Lines /\ w[n + 1] \notin FightLines
    BY <1>3 DEF Quiet
  <2>2. h[n + 1] = FightAfter(h[n], w[n + 1])  BY <1>1, <2>1 DEF Runs
  <2> QED BY <2>1, <2>2, OneLine
<1> HIDE DEF S
<1>4. Len(w) \in S  BY <1>2, <1>3, Induction
<1> QED BY <1>1, <1>4 DEF S

LEMMA AheadRead ==
    ASSUME NEW f, NEW w \in Seq(Lines), w # <<>>
    PROVE  Ahead(f, w) = Ahead(FightAfter(f, Head(w)), Tail(w))
PROOF BY FoldHead DEF Ahead

LEMMA AheadWritten ==
    ASSUME NEW f, NEW w \in Seq(Lines), NEW line \in Lines
    PROVE  Ahead(f, w \o <<line>>) = FightAfter(Ahead(f, w), line)
PROOF
<1>1. w \o <<line>> = Append(w, line)  OBVIOUS
<1>2. Ahead(f, Append(w, line)) = FightAfter(Ahead(f, w), line)  BY FoldAppend DEF Ahead
<1> QED BY <1>1, <1>2

------------------------------------------------------------------------------
(* The invariant.  The router looks at a line of a fight only once it has  *)
(* read "connected"; so before its session begins the server has written   *)
(* none, and from then on "connected" is ahead of them all.                *)

Announced(w) ==
    \E j \in 1 .. Len(w) : w[j] = "connected" /\ \A i \in 1 .. (j - 1) : w[i] \notin FightLines

Serving == tc # 0 /\ router = "run"

Undialled == \A c \in Conns : reader[c] = "off" => srv[c] = "off" /\ wire[c] = <<>>

BeforeSession ==
    Serving /\ srv[tc] \in {"accepted", "login"} => ~fight.open /\ Quiet(wire[tc])

InSession ==
    Serving /\ srv[tc] = "in" =>
        /\ loggedIn \/ Announced(wire[tc])
        /\ Ahead(fight, wire[tc]).open = fighting[tc]

TrackInv == Undialled /\ BeforeSession /\ InSession

(* Nothing that leaves the server's session of the router and its lines    *)
(* alone, and the fight as open as it is, disturbs the invariant.          *)
LEMMA TrackApart ==
    ASSUME RouterInv, TrackInv, RouterInv', Undialled',
           Serving' => /\ Serving /\ UNCHANGED <<tc, wire, srv, fighting, loggedIn>>
                       /\ fight'.open = fight.open
    PROVE  TrackInv'
PROOF
<1>1. BeforeSession'  BY DEF TrackInv, BeforeSession
<1>2. InSession'
  <2> SUFFICES ASSUME Serving', (srv[tc] = "in")'
               PROVE  /\ (loggedIn \/ Announced(wire[tc]))'
                      /\ (Ahead(fight, wire[tc]).open = fighting[tc])'
    BY DEF InSession
  <2>1. /\ Serving /\ srv[tc] = "in" /\ UNCHANGED <<tc, wire, fighting, loggedIn>>
        /\ fight'.open = fight.open
    OBVIOUS
  <2>2. /\ fight \in Fights /\ Shown(fight) /\ fight' \in Fights /\ Shown(fight')
        /\ wire[tc] \in Seq(Lines)
    BY <2>1 DEF RouterInv, FightShown, Shown, Written, Places, Serving
  <2>3. Ahead(fight', wire[tc]).open = Ahead(fight, wire[tc]).open
    BY <2>1, <2>2, AheadAlike
  <2>4. (loggedIn \/ Announced(wire[tc])) /\ Ahead(fight, wire[tc]).open = fighting[tc]
    BY <2>1 DEF TrackInv, InSession
  <2>5. wire'[tc'] = wire[tc] /\ fighting'[tc'] = fighting[tc] /\ loggedIn' = loggedIn
    BY <2>1
  <2> QED BY <2>3, <2>4, <2>5
<1> QED BY <1>1, <1>2 DEF TrackInv

(* The router reads a line, and takes it into account if it is logged in.  *)
LEMMA TrackRead ==
    ASSUME RouterInv, TrackInv, RouterInv', NEW line \in Lines, Receive(line), router = "run",
           tc' = tc,
           \/ loggedIn /\ loggedIn' /\ fight' = FightAfter(fight, line)
           \/ ~loggedIn /\ fight' = fight /\ (loggedIn' <=> line = "connected")
    PROVE  TrackInv'
PROOF
<1> DEFINE w == wire[tc]
<1>1. /\ tc \in Conns /\ w \in Seq(Lines) /\ w # <<>> /\ Head(w) = line
      /\ wire' = [wire EXCEPT ![tc] = Tail(w)] /\ wire'[tc] = Tail(w)
      /\ UNCHANGED <<reader, srv, fighting>>
      /\ reader[tc] = "on"
      /\ fight \in Fights /\ Shown(fight)
  BY ConnFacts DEF Receive, RouterInv, Written, Places, FightShown, srvVars
<1>2. Tail(w) \in Seq(Lines) /\ Len(Tail(w)) = Len(w) - 1 /\ Len(w) \in Nat /\ Head(w) = w[1]
      /\ \A i \in 1 .. Len(Tail(w)) : Tail(w)[i] = w[i + 1]
  BY <1>1
<1>3. Undialled'
  BY <1>1 DEF TrackInv, Undialled, RouterInv, Written
<1> HIDE DEF w
<1>4. BeforeSession'
  <2> SUFFICES ASSUME srv[tc] \in {"accepted", "login"}
               PROVE  ~fight'.open /\ Quiet(Tail(w))
    BY <1>1 DEF BeforeSession
  <2>1. ~fight.open /\ Quiet(w)
    BY <1>1 DEF TrackInv, BeforeSession, Serving, w, Receive
  <2>2. Quiet(Tail(w))  BY <1>2, <2>1 DEF Quiet
  <2>3. line \notin FightLines
    <3>1. 1 \in 1 .. Len(w)  BY <1>1, <1>2
    <3> QED BY <1>1, <1>2, <2>1, <3>1 DEF Quiet
  <2>4. fight' = fight  BY <1>1, <2>3, OneLine
  <2> QED BY <2>1, <2>2, <2>4
<1>5. InSession'
  <2> SUFFICES ASSUME srv[tc] = "in"
               PROVE  /\ loggedIn' \/ Announced(Tail(w))
                      /\ Ahead(fight', Tail(w)).open = fighting[tc]
    BY <1>1 DEF InSession
  <2>1. (loggedIn \/ Announced(w)) /\ Ahead(fight, w).open = fighting[tc]
    BY <1>1 DEF TrackInv, InSession, Serving, w, Receive
  <2>2. Ahead(fight, w) = Ahead(FightAfter(fight, line), Tail(w))
    BY <1>1, AheadRead
  <2>3. CASE loggedIn  BY <2>1, <2>2, <2>3
  <2>4. CASE ~loggedIn
    <3>1. PICK j \in 1 .. Len(w) :
            w[j] = "connected" /\ \A i \in 1 .. (j - 1) : w[i] \notin FightLines
      BY <2>1, <2>4 DEF Announced
    <3>2. line \notin FightLines
      <4>1. CASE j = 1  BY <1>1, <1>2, <3>1, <4>1 DEF FightLines
      <4>2. CASE j # 1
        <5>1. 1 \in 1 .. (j - 1)  BY <4>2
        <5> QED BY <1>1, <1>2, <3>1, <5>1
      <4> QED BY <4>1, <4>2
    <3>3. FightAfter(fight, line) = fight  BY <1>1, <3>2, OneLine
    <3>4. line # "connected" => Announced(Tail(w))
      <4> SUFFICES ASSUME line # "connected"  PROVE Announced(Tail(w))
        OBVIOUS
      <4>1. j # 1  BY <1>1, <1>2, <3>1
      <4>2. j - 1 \in 1 .. Len(Tail(w))  BY <1>2, <4>1
      <4>3. Tail(w)[j - 1] = "connected"  BY <1>2, <3>1, <4>2
      <4>4. ASSUME NEW i \in 1 .. ((j - 1) - 1)  PROVE Tail(w)[i] \notin FightLines
        <5>1. i \in 1 .. Len(Tail(w)) /\ i + 1 \in 1 .. (j - 1)  BY <1>2
        <5> QED BY <1>2, <3>1, <5>1
      <4> QED BY <4>2, <4>3, <4>4 DEF Announced
    <3> QED BY <2>1, <2>2, <2>4, <3>3, <3>4
  <2> QED BY <2>3, <2>4
<1> QED BY <1>3, <1>4, <1>5 DEF TrackInv

(* The server writes its lines. *)
LEMMA TrackWritten ==
    ASSUME RouterInv, TrackInv, NEW c \in Conns, Server(c)
    PROVE  TrackInv'
PROOF
<1>1. UNCHANGED <<router, tc, loggedIn, fight, reader>>
  <2>1. PICK lines, l, b : ServerStep(c, lines, l, b)
    BY DEF Server, Greet, HandleLogin, Dispatch
  <2> QED BY <2>1 DEF ServerStep, flagVars, goVars
<1>2. srv[c] \in {"accepted", "login", "in"}
  BY DEF Server, Greet, HandleLogin, Dispatch, Handles
<1> DEFINE w == wire[c]
<1>3. w \in Seq(Lines) /\ fight \in Fights /\ Shown(fight) /\ Len(w) \in Nat
  BY DEF RouterInv, Written, FightShown
<1>4. ASSUME NEW lines, NEW l, NEW b, ServerStep(c, lines, l, b)
      PROVE  /\ wire' = [wire EXCEPT ![c] = w \o lines] /\ wire'[c] = w \o lines
             /\ srv' = [srv EXCEPT ![c] = l] /\ srv'[c] = l
             /\ fighting' = [fighting EXCEPT ![c] = b] /\ fighting'[c] = b
             /\ \A d \in Conns \ {c} : /\ wire'[d] = wire[d] /\ srv'[d] = srv[d]
                                       /\ fighting'[d] = fighting[d]
  BY <1>4 DEF ServerStep, RouterInv, Written, Servers
<1>5. \A d \in Conns \ {c} : /\ wire'[d] = wire[d] /\ srv'[d] = srv[d]
                             /\ fighting'[d] = fighting[d]
  <2>1. PICK lines, l, b : ServerStep(c, lines, l, b)
    BY DEF Server, Greet, HandleLogin, Dispatch
  <2> QED BY <1>4, <2>1
<1>6. Undialled'
  BY <1>1, <1>2, <1>5 DEF TrackInv, Undialled
<1>7. CASE tc # c
  <2>1. Serving => tc \in Conns \ {c}  BY <1>7 DEF Serving, RouterInv, Places
  <2>2. BeforeSession' /\ InSession'
    BY <1>1, <1>5, <2>1 DEF TrackInv, BeforeSession, InSession, Serving
  <2> QED BY <1>6, <2>2 DEF TrackInv
<1> HIDE DEF w
<1>8. CASE tc = c /\ srv[c] \in {"accepted", "login"}
  <2>1. Serving => ~fight.open /\ Quiet(w)
    BY <1>8 DEF TrackInv, BeforeSession, w
  <2>2. ASSUME NEW line \in Lines, line \notin FightLines, NEW l, NEW b,
               ServerStep(c, <<line>>, l, b), b = FALSE, l = "in" => line = "connected"
        PROVE  BeforeSession' /\ InSession'
    <3> DEFINE lines == <<line>>
    <3>0. ServerStep(c, lines, l, b)  BY <2>2
    <3> HIDE DEF lines
    <3>a. wire'[c] = w \o lines /\ srv'[c] = l /\ fighting'[c] = b  BY <1>4, <3>0
    <3>1. wire'[c] = w \o <<line>> /\ srv'[c] = l /\ fighting'[c] = FALSE
      BY <2>2, <3>a DEF lines
    <3>2. Quiet(w) => Quiet(w \o <<line>>)  BY <1>3, <2>2 DEF Quiet
    <3>3. Quiet(w) => (line = "connected" => Announced(w \o <<line>>))
      <4> SUFFICES ASSUME Quiet(w), line = "connected"  PROVE Announced(w \o <<line>>)
        OBVIOUS
      <4> DEFINE v == w \o <<line>>
      <4>1. Len(v) = Len(w) + 1 /\ v[Len(w) + 1] = line
            /\ \A i \in 1 .. Len(w) : v[i] = w[i]
        BY <1>3
      <4> HIDE DEF v
      <4>2. Len(w) + 1 \in 1 .. Len(v) /\ (Len(w) + 1) - 1 = Len(w)  BY <1>3, <4>1
      <4>3. \A i \in 1 .. ((Len(w) + 1) - 1) : v[i] \notin FightLines
        BY <4>1, <4>2 DEF Quiet
      <4>4. Announced(v)  BY <4>1, <4>2, <4>3 DEF Announced
      <4> QED BY <4>4 DEF v
    <3>4. Quiet(w) => Ahead(fight, w \o <<line>>) = fight
      <4>1. w \o <<line>> \in Seq(Lines)  BY <1>3
      <4> QED BY <1>3, <3>2, <4>1, AheadQuiet
    <3>5. BeforeSession'  BY <1>1, <1>8, <2>1, <3>1, <3>2 DEF BeforeSession, Serving
    <3>6. InSession'
      <4> SUFFICES ASSUME Serving, l = "in"
                   PROVE  /\ Announced(w \o <<line>>)
                          /\ Ahead(fight, w \o <<line>>).open = FALSE
        BY <1>1, <1>8, <3>1 DEF InSession, Serving
      <4>1. fight.open = FALSE  BY <1>3, <2>1 DEF Fights
      <4> QED BY <2>1, <2>2, <3>3, <3>4, <4>1
    <3> QED BY <3>5, <3>6
  <2>3. {"hello", "err", "connected", "bye"} \subseteq Lines
        /\ {"hello", "err", "connected", "bye"} \cap FightLines = {}
    BY DEF Lines, FightLines
  <2>4. CASE Greet(c)
    <3>1. PICK line \in {"hello", "err"}, l \in {"login", "closed"} :
            ServerStep(c, <<line>>, l, FALSE)
      BY <2>4 DEF Greet
    <3> QED BY <1>6, <2>2, <2>3, <3>1 DEF TrackInv
  <2>5. CASE HandleLogin(c)
    <3>1. \/ ServerStep(c, <<"connected">>, "in", FALSE)
          \/ ServerStep(c, <<"err">>, "login", FALSE)
          \/ ServerStep(c, <<"bye">>, "closed", FALSE)
      BY <2>5 DEF HandleLogin
    <3> QED BY <1>6, <2>2, <2>3, <3>1 DEF TrackInv
  <2>6. ~Dispatch(c)  BY <1>8 DEF Dispatch, Handles
  <2> QED BY <2>4, <2>5, <2>6 DEF Server
<1>9. CASE tc = c /\ srv[c] = "in"
  <2>1. Serving => /\ loggedIn \/ Announced(w)
                   /\ Ahead(fight, w).open = fighting[c]
    BY <1>9 DEF TrackInv, InSession, w
  <2>2. Ahead(fight, w) \in Fights /\ Shown(Ahead(fight, w))  BY <1>3, AheadAlike
  <2>4. ASSUME NEW lines \in Seq(Lines), NEW b \in BOOLEAN, NEW l \in {"in", "closed"},
               ServerStep(c, lines, l, b),
               Serving /\ l = "in" => (Ahead(fight, w \o lines).open <=> b)
        PROVE  TrackInv'
    <3>1. wire'[c] = w \o lines /\ srv'[c] = l /\ fighting'[c] = b  BY <1>4, <2>4
    <3>2. Announced(w) => Announced(w \o lines)
      <4> SUFFICES ASSUME Announced(w)  PROVE Announced(w \o lines)
        OBVIOUS
      <4> DEFINE v == w \o lines
      <4>1. PICK j \in 1 .. Len(w) :
              w[j] = "connected" /\ \A i \in 1 .. (j - 1) : w[i] \notin FightLines
        BY DEF Announced
      <4>2. Len(v) >= Len(w) /\ Len(v) \in Nat /\ \A i \in 1 .. Len(w) : v[i] = w[i]
        BY <1>3
      <4> HIDE DEF v
      <4>3. j \in 1 .. Len(v) /\ v[j] = "connected"
            /\ \A i \in 1 .. (j - 1) : v[i] \notin FightLines
        BY <1>3, <4>1, <4>2
      <4>4. Announced(v)  BY <4>3 DEF Announced
      <4> QED BY <4>4 DEF v
    <3>3. BeforeSession'  BY <1>1, <1>9, <3>1 DEF BeforeSession
    <3>4. InSession'
      <4> SUFFICES ASSUME Serving, l = "in"
                   PROVE  /\ loggedIn \/ Announced(w \o lines)
                          /\ Ahead(fight, w \o lines).open = b
        BY <1>1, <1>9, <3>1 DEF InSession, Serving
      <4>1. Ahead(fight, w \o lines) \in Fights
        <5>1. w \o lines \in Seq(Lines)  BY <1>3, <2>4
        <5> QED BY <1>3, <5>1, AheadAlike
      <4>2. Ahead(fight, w \o lines).open \in BOOLEAN  BY <4>1 DEF Fights
      <4> QED BY <2>1, <2>4, <3>2, <4>2
    <3> QED BY <1>6, <3>3, <3>4 DEF TrackInv
  <2>5. \A line \in Lines : Ahead(fight, w \o <<line>>) = FightAfter(Ahead(fight, w), line)
    BY <1>3, AheadWritten
  <2>6. {"err", "bye", "round", "won", "lost", "respawn", "fled", "moved"} \subseteq Lines
    BY DEF Lines
  <2>7. \A line \in Lines : <<line>> \in Seq(Lines)  OBVIOUS
  <2>8. CASE ServerStep(c, <<"err">>, "in", fighting[c])
    <3>1. Ahead(fight, w \o <<"err">>) = Ahead(fight, w)
      BY <2>2, <2>5, <2>6, OneLine DEF FightLines
    <3>2. fighting[c] \in BOOLEAN  BY DEF RouterInv, Servers
    <3> QED BY <2>1, <2>4, <2>6, <2>7, <2>8, <3>1, <3>2
  <2>9. CASE ServerStep(c, <<"bye">>, "closed", FALSE)
    BY <2>4, <2>6, <2>7, <2>9
  <2>10. CASE ServerStep(c, <<"round">>, "in", TRUE)
    <3>1. Ahead(fight, w \o <<"round">>).open  BY <2>2, <2>5, <2>6, OneLine
    <3> QED BY <2>4, <2>6, <2>7, <2>10, <3>1
  <2>11. ASSUME NEW line \in {"won", "fled", "moved"}, ServerStep(c, <<line>>, "in", FALSE)
         PROVE  TrackInv'
    <3>1. ~Ahead(fight, w \o <<line>>).open
      BY <2>2, <2>5, <2>6, <2>11, OneLine DEF FightLines
    <3> QED BY <2>4, <2>6, <2>7, <2>11, <3>1
  <2>12. CASE ServerStep(c, <<"lost", "respawn">>, "in", FALSE)
    <3> DEFINE v == w \o <<"lost">>
    <3>1. v \in Seq(Lines) /\ v \o <<"respawn">> = w \o <<"lost", "respawn">>
          /\ <<"lost", "respawn">> \in Seq(Lines)
      BY <1>3, <2>6
    <3> HIDE DEF v
    <3>2. Ahead(fight, v) \in Fights /\ Shown(Ahead(fight, v))  BY <1>3, <3>1, AheadAlike
    <3>3. Ahead(fight, v \o <<"respawn">>) = FightAfter(Ahead(fight, v), "respawn")
      BY <2>6, <3>1, AheadWritten
    <3>4. ~Ahead(fight, v \o <<"respawn">>).open
      BY <2>6, <3>2, <3>3, OneLine DEF FightLines
    <3> QED BY <2>4, <2>12, <3>1, <3>4
  <2> QED BY <1>9, <2>8, <2>9, <2>10, <2>11, <2>12
      DEF Server, Greet, HandleLogin, Dispatch, Handles
<1> QED BY <1>2, <1>7, <1>8, <1>9

(* The other goroutines of a connection, and the end of a session.         *)
LEMMA TrackOutside ==
    ASSUME RouterInv, TrackInv, RouterInv', Outside
    PROVE  TrackInv'
PROOF
<1> PICK c \in Conns : Write(c) \/ Released(c) \/ Server(c) \/ Drop(c)
  BY DEF Outside
<1>1. UNCHANGED <<router, tc, loggedIn, fight>>  BY OutsideApart DEF flagVars
<1>2. CASE Write(c) \/ Released(c)
  <2>1. UNCHANGED <<wire, srv, fighting>>  BY <1>2 DEF Write, Released, srvVars
  <2>2. Undialled'
    BY <1>2, <2>1 DEF Write, Released, TrackInv, Undialled, RouterInv, LetGo
  <2> QED BY <1>1, <2>1, <2>2, TrackApart DEF Serving
<1>3. CASE Server(c)  BY <1>3, TrackWritten
<1>4. CASE Drop(c)
  <2>1. /\ srv[c] # "off" /\ UNCHANGED reader
        /\ srv' = [srv EXCEPT ![c] = "closed"] \/ srv' = [srv EXCEPT ![c] = "hung"]
        /\ \A d \in Conns \ {c} : /\ wire'[d] = wire[d] /\ srv'[d] = srv[d]
                                  /\ fighting'[d] = fighting[d]
        /\ srv'[c] \in {"closed", "hung"}
    BY <1>4 DEF Drop, goVars, RouterInv, Servers, Written
  <2>2. Undialled'  BY <2>1 DEF TrackInv, Undialled
  <2>3. tc \in (Conns \ {c}) \cup {0, c}  BY DEF RouterInv, Places
  <2>4. BeforeSession' /\ InSession'
    BY <1>1, <2>1, <2>3 DEF TrackInv, BeforeSession, InSession, Serving
  <2> QED BY <2>2, <2>4 DEF TrackInv
<1> QED BY <1>2, <1>3, <1>4

LEMMA TrackKept ==
    ASSUME RouterInv, TrackInv, RouterInv', Next
    PROVE  TrackInv'
PROOF
<1>1. ASSUME UNCHANGED <<reader, srv, wire>>  PROVE Undialled'
  BY <1>1 DEF TrackInv, Undialled
<1>2. CASE User
  <2>1. UNCHANGED <<router, tc, loggedIn, fight, reader, srv, wire, fighting>>
    BY <1>2 DEF User, Press, CloseWindow, Tap, flagVars, goVars, srvVars
  <2> QED BY <1>1, <2>1, TrackApart DEF Serving
<1>3. CASE HandleLoginRequest
  <2>1. CASE DialFails \/ LoginAgain
    <3>1. UNCHANGED <<router, tc, loggedIn, fight, reader, srv, wire, fighting>>
      BY <2>1 DEF DialFails, LoginAgain, TakeLoginReq, goVars
    <3> QED BY <1>1, <3>1, TrackApart DEF Serving
  <2>2. CASE Dial
    <3>1. PICK c \in Conns : /\ reader[c] = "off" /\ tc' = c
                             /\ reader' = [reader EXCEPT ![c] = "on"]
                             /\ srv' = [srv EXCEPT ![c] = "accepted"]
      BY <2>2 DEF Dial
    <3>2. UNCHANGED <<fight, wire, fighting>> /\ tc = 0  BY <2>2 DEF Dial, TakeLoginReq
    <3>3. wire[c] = <<>> /\ ~fight.open /\ srv'[c] = "accepted" /\ reader'[c] = "on"
      BY <3>1, <3>2 DEF TrackInv, Undialled, RouterInv, Clean, Servers, LetGo
    <3>4. Quiet(<<>>)  BY DEF Quiet
    <3>5. Undialled'
      BY <3>1, <3>2, <3>3 DEF TrackInv, Undialled, RouterInv, Servers, LetGo
    <3>6. BeforeSession' /\ InSession'
      BY <3>1, <3>2, <3>3, <3>4 DEF BeforeSession, InSession
    <3> QED BY <3>5, <3>6 DEF TrackInv
  <2> QED BY <1>3, <2>1, <2>2 DEF HandleLoginRequest
<1>4. CASE HandleServerResponse
  <2>1. {"hello", "connected", "bye"} \subseteq Lines  BY DEF Lines
  <2>2. CASE Greeting
    BY <2>1, <2>2, TrackRead DEF Greeting
  <2>3. CASE Connected
    BY <2>1, <2>3, TrackRead DEF Connected
  <2>4. ASSUME NEW line \in Lines, BeforeLogin(line)  PROVE TrackInv'
    BY <2>4, TrackRead DEF BeforeLogin, flagVars
  <2>5. ASSUME NEW line \in Lines, Reply(line)  PROVE TrackInv'
    BY <2>5, TrackRead DEF Reply
  <2>6. ASSUME NEW line \in Lines, Receive(line), ~Serving'
        PROVE  TrackInv'
    <3>1. Undialled'
      BY <2>6 DEF TrackInv, Undialled, Receive, srvVars, RouterInv, Written
    <3> QED BY <2>6, <3>1 DEF TrackInv, BeforeSession, InSession
  <2>7. CASE Bye  BY <2>1, <2>6, <2>7 DEF Bye, Serving
  <2>8. ASSUME NEW line \in Lines, WaitForBye(line)  PROVE TrackInv'
    BY <2>6, <2>8 DEF WaitForBye, Serving
  <2> QED BY <1>4, <2>2, <2>3, <2>4, <2>5, <2>7, <2>8 DEF HandleServerResponse
<1>5. CASE HandleServerErr
  <2>1. ~Serving'
    BY <1>5 DEF HandleServerErr, ReadError, WriteError, ConnectionLost, Reset, Serving
  <2>2. UNCHANGED <<wire, srv>> /\ \A c \in Conns : reader'[c] = "off" => reader[c] = "off"
    BY <1>5 DEF HandleServerErr, ReadError, WriteError, ConnectionLost, srvVars, RouterInv, LetGo
  <2>3. Undialled'  BY <2>2 DEF TrackInv, Undialled
  <2> QED BY <2>1, <2>3 DEF TrackInv, BeforeSession, InSession
<1>6. CASE Ends
  <2>1. UNCHANGED <<tc, loggedIn, fight, reader, srv, wire, fighting>>
    BY <1>6 DEF Ends, TapConnRequest, HandleQuit, GiveUp, Close, flagVars, goVars, srvVars
  <2>2. router' = "run" => router = "run"
    BY <1>6 DEF Ends, TapConnRequest, HandleQuit, GiveUp, Close
  <2> QED BY <1>1, <2>1, <2>2, TrackApart DEF Serving
<1>7. CASE Timers
  <2>1. UNCHANGED <<router, tc, loggedIn, reader, srv, wire, fighting>>
    BY <1>7 DEF Timers, BattleTimerFires, HideTimerFires, BattleScreenTimeout,
                BattleLogHide, flagVars, goVars, srvVars
  <2>2. fight'.open = fight.open
    BY <1>7 DEF Timers, BattleTimerFires, HideTimerFires, BattleScreenTimeout,
                BattleLogHide, LeaveBattleMode, RouterInv, FightShown, Fights
  <2> QED BY <1>1, <2>1, <2>2, TrackApart DEF Serving
<1>8. CASE Outside  BY <1>8, TrackOutside
<1> QED BY <1>2, <1>3, <1>4, <1>5, <1>6, <1>7, <1>8 DEF Next, Ends, Timers, Outside

(* However its lines, the timers and the commands on their way interleave, *)
(* the GUI has not lost track of the fight: when it has read what is on    *)
(* its way, the fight is open exactly if the server has the player in one. *)
(* With the types and with what fight mode shows this is RouterSound.      *)
THEOREM RouterStaysSound == Spec => []RouterSound
PROOF
<1>1. Init => TrackInv
  BY DEF Init, TrackInv, Undialled, BeforeSession, InSession, Serving
<1>2. RouterInv /\ TrackInv /\ RouterInv' /\ [Next]_vars => TrackInv'
  <2> SUFFICES ASSUME RouterInv, TrackInv, RouterInv', [Next]_vars  PROVE TrackInv'
    OBVIOUS
  <2>1. CASE Next  BY <2>1, TrackKept
  <2>2. CASE UNCHANGED vars
    <3>1. UNCHANGED <<router, tc, loggedIn, fight, reader, srv, wire, fighting>>
      BY <2>2 DEF vars, flagVars, goVars, srvVars
    <3>2. Undialled'  BY <3>1 DEF TrackInv, Undialled
    <3> QED BY <3>1, <3>2, TrackApart DEF Serving
  <2> QED BY <2>1, <2>2
<1>3. TrackInv => FightTracked
  BY DEF TrackInv, InSession, Serving, FightTracked, Ahead
<1>4. TypeOK /\ Shown(fight) /\ TrackInv => RouterSound  BY <1>3 DEF RouterSound
<1> QED BY <1>1, <1>2, <1>4, RouterInvariant, NothingLeftBehind, FightModeShown, PTL DEF Spec
==============================================================================
