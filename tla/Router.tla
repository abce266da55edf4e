------------------------------- MODULE Router --------------------------------
(***************************************************************************)
(* The GUI's side of a connection: the login and the QUIT of the user, the *)
(* goroutines of a connection, and the fight screen with its two timers.   *)
(* One goroutine, run of the CommandRouter, handles them all, one event at *)
(* a time; fyne.Do is taken to act at once, but for the end of the window, *)
(* which needs the UI goroutine.  The server appears as what it writes to  *)
(* a connection: a session, a fight, an end at any time.                   *)
(*                                                                         *)
(* Left out: the queries the GUI sends by itself and their replies (module *)
(* Presence), and the buttons by which the user opens and closes panels.   *)
(***************************************************************************)
EXTENDS Integers, Sequences, SequencesExt

CONSTANTS
    MaxConns,    \* bound on the connections dialled
    MaxOut,      \* capacity of Outgoing
    MaxPresses,  \* bound on the presses of Connect
    MaxCmds,     \* bound on the commands of the user
    MaxDrops,    \* bound on connections lost, and on servers that hang
    None

ASSUME RouterAssumption ==
    /\ MaxOut \in Nat \ {0}
    /\ {MaxConns, MaxPresses, MaxCmds, MaxDrops} \subseteq Nat

Conns == 1..MaxConns

VARIABLES
    router,     \* "run", "wait" in gracefulQuit, or "bye" about to close
    screen,     \* "login", "game" or "closed"
    button,     \* the Connect button is enabled
    stuck,      \* the UI goroutine waits for room in LoginRequests
    loginReq,   \* LoginRequests is full (capacity 1)
    quitReq,    \* QuitRequest is full (capacity 1)
    tap,        \* the command in TapConnRequests, or None
    tc,         \* the connection of the router, 0 for none
    greeted, loggedIn, pending, quitting,    \* GotGreeting, ..., Quitting
    fight,      \* the fight screen: see NoFight
    timeoutSig, hideSig,    \* battleScreenTimeout and battleLogHide are full
    reader, writer,         \* the goroutines of each connection
    done,       \* done[c]: shutdown of c has run
    out,        \* out[c]: Outgoing and the way to the server
    wire,       \* wire[c]: lines on their way from the server
    srv,        \* srv[c]: the server's session
    fighting,   \* fighting[c]: the session is in OngoingBattles
    presses, cmds, drops    \* what is left of the bounds

uiVars == <<screen, button, stuck, loginReq, quitReq, tap>>
flagVars == <<greeted, loggedIn, pending, quitting>>
signalVars == <<timeoutSig, hideSig>>
goVars == <<reader, writer, done>>
srvVars == <<srv, fighting>>
boundVars == <<presses, cmds, drops>>
vars == <<router, uiVars, tc, flagVars, fight, signalVars, goVars, out, wire,
          srvVars, boundVars>>

(* InBattle, FightOpen (and the FLEE button), the battle log is shown,     *)
(* BattleTimer and BattleLogHideTimer run, and BattleIdleTimeout has       *)
(* passed since LastAttack.                                                *)
NoFight == [inBattle |-> FALSE, open |-> FALSE, log |-> FALSE,
            timer |-> FALSE, hide |-> FALSE, idle |-> TRUE]

Fights == [inBattle : BOOLEAN, open : BOOLEAN, log : BOOLEAN,
           timer : BOOLEAN, hide : BOOLEAN, idle : BOOLEAN]

Init ==
    /\ router = "run" /\ screen = "login" /\ button = TRUE
    /\ stuck = FALSE /\ loginReq = FALSE /\ quitReq = FALSE /\ tap = None
    /\ tc = 0
    /\ greeted = FALSE /\ loggedIn = FALSE /\ pending = FALSE /\ quitting = FALSE
    /\ fight = NoFight
    /\ timeoutSig = FALSE /\ hideSig = FALSE
    /\ reader = [c \in Conns |-> "off"] /\ writer = [c \in Conns |-> "off"]
    /\ done = [c \in Conns |-> FALSE]
    /\ out = [c \in Conns |-> <<>>] /\ wire = [c \in Conns |-> <<>>]
    /\ srv = [c \in Conns |-> "off"] /\ fighting = [c \in Conns |-> FALSE]
    /\ presses = MaxPresses /\ cmds = MaxCmds /\ drops = MaxDrops

(* The end of the window is the end of the program. *)
Running == screen # "closed"

(* A definition named ...Fault is a seeded fault: a mutation run puts it   *)
(* in the place of the definition that follows it.                         *)

------------------------------------------------------------------------------
(* The fight screen *)

(* setBattleMode: a mode that is on already is left alone.  The seeded     *)
(* fault does not start the timer that hides the log.                      *)
LeaveBattleModeFault(f) ==
    IF f.inBattle THEN [f EXCEPT !.inBattle = FALSE, !.timer = FALSE] ELSE f
LeaveBattleMode(f) ==
    IF f.inBattle
    THEN [f EXCEPT !.inBattle = FALSE, !.timer = FALSE, !.hide = TRUE]
    ELSE f

EnterBattleMode(f) ==
    IF f.inBattle
    THEN f
    ELSE [f EXCEPT !.inBattle = TRUE, !.open = TRUE, !.log = TRUE, !.hide = FALSE]

EndBattleMode(f) ==
    LeaveBattleMode(IF f.open THEN [f EXCEPT !.open = FALSE, !.log = TRUE, !.hide = TRUE]
                    ELSE f)

RestartBattleTimer(f) == [f EXCEPT !.idle = FALSE, !.timer = TRUE]

(* A round ends the fight if either side is at 0 HP. *)
LastRoundFault(line) == line = "lost"
LastRound(line) == line \in {"won", "lost"}

HandleBattle(f, line) ==
    LET g == RestartBattleTimer(EnterBattleMode(f)) IN
    IF LastRound(line) THEN EndBattleMode(g) ELSE g

(* What a line of the server does to the fight screen. *)
FightAfter(f, line) ==
    CASE line \in {"round", "won", "lost"} -> HandleBattle(f, line)
      [] line \in {"fled", "moved", "respawn"} -> EndBattleMode(f)
      [] OTHER -> f

BattleTimerFires ==
    /\ Running /\ fight.timer
    /\ fight' = [fight EXCEPT !.timer = FALSE, !.idle = TRUE]
    /\ timeoutSig' = TRUE
    /\ UNCHANGED <<router, uiVars, tc, flagVars, hideSig, goVars, out, wire,
                   srvVars, boundVars>>

HideTimerFires ==
    /\ Running /\ fight.hide
    /\ fight' = [fight EXCEPT !.hide = FALSE]
    /\ hideSig' = TRUE
    /\ UNCHANGED <<router, uiVars, tc, flagVars, timeoutSig, goVars, out, wire,
                   srvVars, boundVars>>

BattleScreenTimeout ==
    /\ router = "run"
    /\ timeoutSig
    /\ timeoutSig' = FALSE
    /\ fight' = IF fight.idle THEN LeaveBattleMode(fight) ELSE fight
    /\ UNCHANGED <<router, uiVars, tc, flagVars, hideSig, goVars, out, wire,
                   srvVars, boundVars>>

(* The signal may be an old one: a fight that began after it keeps its log.*)
MayHide == ~fight.inBattle

BattleLogHide ==
    /\ router = "run"
    /\ hideSig
    /\ hideSig' = FALSE
    /\ fight' = IF MayHide THEN [fight EXCEPT !.log = FALSE] ELSE fight
    /\ UNCHANGED <<router, uiVars, tc, flagVars, timeoutSig, goVars, out, wire,
                   srvVars, boundVars>>

------------------------------------------------------------------------------
(* The end of a connection *)

(* shutdown closes the connection and releases its goroutines.  The fault  *)
(* leaves them alone.                                                      *)
ShutdownFault == done
Shutdown == [done EXCEPT ![tc] = TRUE]

(* resetServerState *)
StillPending == FALSE

Reset ==
    /\ done' = Shutdown
    /\ tc' = 0
    /\ greeted' = FALSE /\ loggedIn' = FALSE /\ quitting' = FALSE
    /\ pending' = StillPending
    /\ fight' = [LeaveBattleMode(fight) EXCEPT !.open = FALSE, !.log = FALSE, !.idle = TRUE]

(* handleServerErr *)
ConnectionLost ==
    /\ screen' = "login" /\ button' = TRUE
    /\ Reset
    /\ UNCHANGED <<router, stuck, loginReq, quitReq, tap, signalVars, out, wire,
                   srvVars, boundVars>>

(* The reader offers an error at the end of the input, the writer after a  *)
(* write that failed; the router takes one, and Done releases the other.   *)
ReadError ==
    /\ router = "run" /\ tc # 0
    /\ reader[tc] = "on" /\ wire[tc] = <<>> /\ srv[tc] = "closed"
    /\ reader' = [reader EXCEPT ![tc] = "ended"]
    /\ UNCHANGED writer
    /\ ConnectionLost

WriteError ==
    /\ router = "run" /\ tc # 0
    /\ writer[tc] = "failed"
    /\ writer' = [writer EXCEPT ![tc] = "ended"]
    /\ UNCHANGED reader
    /\ ConnectionLost

Write(c) ==
    /\ Running
    /\ writer[c] = "on" /\ ~done[c]
    /\ srv[c] = "closed"
    /\ out[c] # <<>>
    /\ out' = [out EXCEPT ![c] = Tail(@)]
    /\ \E l \in {"on", "failed"} : writer' = [writer EXCEPT ![c] = l]
    /\ UNCHANGED <<router, uiVars, tc, flagVars, fight, signalVars, reader, done,
                   wire, srvVars, boundVars>>

Released(c) ==
    /\ Running
    /\ done[c]
    /\ reader[c] # "ended" \/ writer[c] # "ended"
    /\ reader' = [reader EXCEPT ![c] = "ended"]
    /\ writer' = [writer EXCEPT ![c] = "ended"]
    /\ UNCHANGED <<router, uiVars, tc, flagVars, fight, signalVars, done, out,
                   wire, srvVars, boundVars>>

------------------------------------------------------------------------------
(* Login *)

(* sendButtonCommandToServer never blocks: a full queue is an error. *)
HasRoom == Len(out[tc]) < MaxOut
Send(cmd) == out' = IF HasRoom THEN [out EXCEPT ![tc] = Append(@, cmd)] ELSE out

(* The handler of the Connect button; it waits while LoginRequests is full.*)
Press ==
    /\ screen = "login" /\ button /\ ~stuck
    /\ presses > 0
    /\ presses' = presses - 1
    /\ button' = FALSE
    /\ loginReq' = TRUE
    /\ stuck' = loginReq
    /\ UNCHANGED <<router, screen, quitReq, tap, tc, flagVars, fight, signalVars, goVars,
                   out, wire, srvVars, cmds, drops>>

(* handleLoginRequest: a press that waits follows at once. *)
TakeLoginReq ==
    /\ router = "run"
    /\ loginReq
    /\ loginReq' = stuck
    /\ stuck' = FALSE
    /\ UNCHANGED <<router, screen, quitReq, tap, loggedIn, quitting, fight, signalVars,
                   wire, fighting, boundVars>>

Dial ==
    /\ tc = 0
    /\ TakeLoginReq
    /\ \E c \in Conns :
        /\ reader[c] = "off" /\ \A d \in 1..(c - 1) : reader[d] # "off"
        /\ tc' = c
        /\ reader' = [reader EXCEPT ![c] = "on"]
        /\ writer' = [writer EXCEPT ![c] = "on"]
        /\ srv' = [srv EXCEPT ![c] = "accepted"]
    /\ pending' = TRUE
    /\ UNCHANGED <<button, greeted, done, out>>

(* LoginScreen.showErr enables the button again. *)
DialFails ==
    /\ tc = 0
    /\ TakeLoginReq
    /\ button' = TRUE
    /\ UNCHANGED <<tc, greeted, pending, goVars, out, srv>>

LoginAgain ==
    /\ tc # 0
    /\ TakeLoginReq
    /\ IF greeted
       THEN Send("CONNECT") /\ button' = (button \/ ~HasRoom) /\ UNCHANGED pending
       ELSE pending' = TRUE /\ UNCHANGED <<out, button>>
    /\ UNCHANGED <<tc, greeted, goVars, srv>>

------------------------------------------------------------------------------
(* handleServerResponse *)

Receive(line) ==
    /\ tc # 0
    /\ reader[tc] = "on"
    /\ wire[tc] # <<>>
    /\ Head(wire[tc]) = line
    /\ wire' = [wire EXCEPT ![tc] = Tail(@)]
    /\ UNCHANGED <<stuck, loginReq, quitReq, tap, signalVars, reader, writer, srvVars, boundVars>>

Greeting ==
    /\ router = "run" /\ ~loggedIn
    /\ Receive("hello")
    /\ greeted' = TRUE
    /\ pending' = FALSE
    /\ IF pending
       THEN Send("CONNECT") /\ button' = (button \/ ~HasRoom)
       ELSE UNCHANGED <<out, button>>
    /\ UNCHANGED <<router, screen, tc, loggedIn, quitting, fight, done>>

Connected ==
    /\ router = "run" /\ ~loggedIn
    /\ Receive("connected")
    /\ loggedIn' = TRUE
    /\ screen' = "game"
    /\ UNCHANGED <<router, button, tc, greeted, pending, quitting, fight, done, out>>

LoginErrorFault(line) == button
LoginError(line) == button \/ line = "err"

BeforeLogin(line) ==
    /\ router = "run" /\ ~loggedIn
    /\ line \notin {"hello", "connected"}
    /\ Receive(line)
    /\ button' = LoginError(line)
    /\ UNCHANGED <<router, screen, tc, flagVars, fight, done, out>>

(* The reply to QUIT, unless an error came in between: it is no longer     *)
(* expected then, and the end of the connection is what follows.  The      *)
(* router goes back to its loop until Win.Close, without a connection: the *)
(* model stops it here, for what is still queued can change nothing then.  *)
Bye ==
    /\ router = "run" /\ loggedIn /\ quitting
    /\ Receive("bye")
    /\ Reset
    /\ router' = "bye"
    /\ UNCHANGED <<screen, button, out>>

Reply(line) ==
    /\ router = "run" /\ loggedIn
    /\ ~(quitting /\ line = "bye")
    /\ Receive(line)
    /\ fight' = FightAfter(fight, line)
    /\ quitting' = (quitting /\ line # "err")
    /\ UNCHANGED <<router, screen, button, tc, greeted, loggedIn, pending, done, out>>

------------------------------------------------------------------------------
(* The user's commands, and the end of the window *)

(* A button or the command entry; it does not wait for room either. *)
Tap(cmd) ==
    /\ screen = "game" /\ ~stuck
    /\ tap = None
    /\ cmds > 0
    /\ cmds' = cmds - 1
    /\ tap' = cmd
    /\ UNCHANGED <<router, screen, button, stuck, loginReq, quitReq, tc, flagVars,
                   fight, signalVars, goVars, out, wire, srvVars, presses, drops>>

(* handleTapConnRequest *)
TapConnRequest ==
    /\ router = "run"
    /\ tap # None
    /\ tap' = None
    /\ IF tc # 0
       THEN Send(tap) /\ quitting' = (quitting \/ tap = "QUIT")
       ELSE UNCHANGED <<out, quitting>>
    /\ UNCHANGED <<router, screen, button, stuck, loginReq, quitReq, tc, greeted,
                   loggedIn, pending, fight, signalVars, goVars, wire, srvVars, boundVars>>

(* The close intercept does not block. *)
CloseWindow ==
    /\ screen # "closed" /\ ~stuck
    /\ quitReq' = TRUE
    /\ UNCHANGED <<router, screen, button, stuck, loginReq, tap, tc, flagVars, fight,
                   signalVars, goVars, out, wire, srvVars, boundVars>>

(* handleQuit, to the loop of gracefulQuit; the command may not be sent. *)
HandleQuit ==
    /\ router = "run"
    /\ quitReq
    /\ quitReq' = FALSE
    /\ IF tc = 0
       THEN router' = "bye" /\ UNCHANGED <<out, done>>
       ELSE IF HasRoom
            THEN router' = "wait" /\ Send("QUIT") /\ UNCHANGED done
            ELSE router' = "bye" /\ done' = Shutdown /\ UNCHANGED out
    /\ UNCHANGED <<screen, button, stuck, loginReq, tap, tc, flagVars, fight, signalVars,
                   reader, writer, wire, srvVars, boundVars>>

(* gracefulQuit: "OK bye", an error or the deadline ends it. *)
WaitForBye(line) ==
    /\ router = "wait"
    /\ Receive(line)
    /\ IF line = "bye"
       THEN router' = "bye" /\ done' = Shutdown
       ELSE UNCHANGED <<router, done>>
    /\ UNCHANGED <<screen, button, tc, flagVars, fight, out>>

QuitError ==
    \/ reader[tc] = "on" /\ wire[tc] = <<>> /\ srv[tc] = "closed"
    \/ writer[tc] = "failed"

DeadlinePasses == TRUE

GiveUp ==
    /\ router = "wait"
    /\ QuitError \/ DeadlinePasses
    /\ router' = "bye"
    /\ done' = Shutdown
    /\ UNCHANGED <<uiVars, tc, flagVars, fight, signalVars, reader, writer, out, wire,
                   srvVars, boundVars>>

(* Win.Close runs on the UI goroutine, and with it the program ends. *)
Close ==
    /\ router = "bye" /\ screen # "closed"
    /\ ~stuck
    /\ screen' = "closed"
    /\ UNCHANGED <<router, button, stuck, loginReq, quitReq, tap, tc, flagVars, fight,
                   signalVars, goVars, out, wire, srvVars, boundVars>>

------------------------------------------------------------------------------
(* The server's session of connection c *)

Cmds == {"CONNECT", "ATTACK", "FLEE", "MOVE", "QUIT"}

(* It writes lines, goes to state l and is in a fight or not. *)
ServerStep(c, lines, l, inFight) ==
    /\ wire' = [wire EXCEPT ![c] = @ \o lines]
    /\ srv' = [srv EXCEPT ![c] = l]
    /\ fighting' = [fighting EXCEPT ![c] = inFight]
    /\ UNCHANGED <<router, uiVars, tc, flagVars, fight, signalVars, goVars, presses, cmds>>

Greet(c) ==
    /\ Running /\ srv[c] = "accepted" /\ ~done[c]
    /\ \/ ServerStep(c, <<"hello">>, "login", FALSE)
       \/ ServerStep(c, <<"err">>, "closed", FALSE)
    /\ UNCHANGED <<out, drops>>

Handles(c, l) ==
    /\ Running /\ srv[c] = l /\ ~done[c]
    /\ out[c] # <<>>
    /\ out' = [out EXCEPT ![c] = Tail(@)]
    /\ UNCHANGED drops

HandleLogin(c) ==
    /\ Handles(c, "login")
    /\ CASE Head(out[c]) = "CONNECT" -> \/ ServerStep(c, <<"connected">>, "in", FALSE)
                                       \/ ServerStep(c, <<"err">>, "login", FALSE)
         [] Head(out[c]) = "QUIT" -> ServerStep(c, <<"bye">>, "closed", FALSE)
         [] OTHER -> ServerStep(c, <<"err">>, "login", FALSE)

(* A round is answered, and the respawn after it announced; a command may  *)
(* fail, and one that does changes nothing.                                *)
Dispatch(c) ==
    /\ Handles(c, "in")
    /\ LET cmd == Head(out[c]) IN
       \/ cmd # "QUIT" /\ ServerStep(c, <<"err">>, "in", fighting[c])
       \/ cmd = "QUIT" /\ ServerStep(c, <<"bye">>, "closed", FALSE)
       \/ /\ cmd = "ATTACK"
          /\ \/ ServerStep(c, <<"round">>, "in", TRUE)
             \/ ServerStep(c, <<"won">>, "in", FALSE)
             \/ ServerStep(c, <<"lost", "respawn">>, "in", FALSE)
       \/ cmd = "FLEE" /\ fighting[c] /\ ServerStep(c, <<"fled">>, "in", FALSE)
       \/ cmd = "MOVE" /\ ~fighting[c] /\ ServerStep(c, <<"moved">>, "in", FALSE)

(* The server or the network ends the connection, and lines on their way   *)
(* may be lost, or the session waits for ever for a mutex.                 *)
Drop(c) ==
    /\ Running /\ srv[c] \in {"accepted", "login", "in"} /\ ~done[c]
    /\ drops > 0
    /\ drops' = drops - 1
    /\ \/ /\ \E k \in 0..Len(wire[c]) : wire' = [wire EXCEPT ![c] = SubSeq(@, 1, k)]
          /\ srv' = [srv EXCEPT ![c] = "closed"]
          /\ fighting' = [fighting EXCEPT ![c] = FALSE]
       \/ srv' = [srv EXCEPT ![c] = "hung"] /\ UNCHANGED <<wire, fighting>>
    /\ UNCHANGED <<router, uiVars, tc, flagVars, fight, signalVars, goVars, out,
                   presses, cmds>>

------------------------------------------------------------------------------
Lines == {"hello", "connected", "err", "bye", "round", "won", "lost", "respawn",
          "fled", "moved"}

HandleServerResponse ==
    \/ Greeting \/ Connected \/ Bye
    \/ \E line \in Lines : BeforeLogin(line) \/ Reply(line) \/ WaitForBye(line)

User == Press \/ CloseWindow \/ \E cmd \in Cmds \ {"CONNECT"} : Tap(cmd)
HandleLoginRequest == Dial \/ DialFails \/ LoginAgain
HandleServerErr == ReadError \/ WriteError
Server(c) == Greet(c) \/ HandleLogin(c) \/ Dispatch(c)

Next ==
    \/ User
    \/ HandleLoginRequest \/ HandleServerResponse \/ HandleServerErr
    \/ TapConnRequest \/ HandleQuit \/ GiveUp \/ Close
    \/ BattleTimerFires \/ HideTimerFires \/ BattleScreenTimeout \/ BattleLogHide
    \/ \E c \in Conns : Write(c) \/ Released(c) \/ Server(c) \/ Drop(c)

Spec == Init /\ [][Next]_vars

(* The router's select serves each channel that stays ready sooner or      *)
(* later; timers fire, goroutines go on, and a server that does not hang   *)
(* answers.  Nothing is assumed of the user.                               *)
FairSpec ==
    /\ Spec
    /\ WF_vars(HandleLoginRequest) /\ WF_vars(HandleServerResponse)
    /\ WF_vars(HandleServerErr) /\ WF_vars(TapConnRequest)
    /\ WF_vars(HandleQuit) /\ WF_vars(GiveUp) /\ WF_vars(Close)
    /\ WF_vars(BattleTimerFires) /\ WF_vars(HideTimerFires)
    /\ WF_vars(BattleScreenTimeout) /\ WF_vars(BattleLogHide)
    /\ \A c \in Conns : WF_vars(Write(c)) /\ WF_vars(Released(c)) /\ WF_vars(Server(c))

------------------------------------------------------------------------------
(* Properties *)

(* Shapes; and a connection that is not the router's has been shut down,   *)
(* and leaves nothing behind for the next login.                           *)
TypeOK ==
    /\ router \in {"run", "wait", "bye"}
    /\ screen \in {"login", "game", "closed"}
    /\ {button, stuck, loginReq, quitReq, greeted, loggedIn, pending, quitting,
        timeoutSig, hideSig} \subseteq BOOLEAN
    /\ fight \in Fights
    /\ tap \in Cmds \cup {None}
    /\ tc \in Conns \cup {0}
    /\ reader \in [Conns -> {"off", "on", "ended"}]
    /\ writer \in [Conns -> {"off", "on", "failed", "ended"}]
    /\ done \in [Conns -> BOOLEAN]
    /\ fighting \in [Conns -> BOOLEAN]
    /\ srv \in [Conns -> {"off", "accepted", "login", "in", "hung", "closed"}]
    /\ \A c \in Conns :
        /\ out[c] \in Seq(Cmds) /\ Len(out[c]) <= MaxOut
        /\ wire[c] \in Seq(Lines)
        /\ c # tc /\ reader[c] # "off" => done[c]
    /\ tc = 0 => ~(greeted \/ loggedIn \/ pending \/ quitting \/ fight.open \/ fight.inBattle)

(* When the GUI has read all that is on its way, the fight is open and    *)
(* FLEE enabled exactly while the server has the player in a fight,        *)
(* whatever timers fired in between.                                       *)
FightTracked ==
    tc # 0 /\ router = "run" /\ srv[tc] = "in" =>
        FoldLeft(FightAfter, fight, wire[tc]).open = fighting[tc]

(* "Fight mode": as long as it is on, the fight is open and the battle log *)
(* is shown, whatever signal of an old fight comes late.                   *)
Shown(f) == f.inBattle => f.open /\ f.log

(* What the router remembers is true of the connection it has, with the    *)
(* types above: after a reset nothing of the old one is left.              *)
RouterSound == TypeOK /\ FightTracked /\ Shown(fight)

(* The battle log does not stay for ever: the fight ends, or the player is *)
(* idle and fight mode is left; each starts the timer that hides it.       *)
LogGoes == []<>(~fight.log \/ router # "run")

(* Nothing the user asks for goes unanswered, unless the UI goroutine is   *)
(* stuck.  Connect brings the game, or an error and an enabled button, and *)
(* QUIT, like any other end of the session, brings back the login screen   *)
(* or ends the program, unless the server hangs; closing the window ends   *)
(* it whatever the server does.                                            *)
Hung == \E c \in Conns : srv[c] = "hung"
SessionOver(c) == srv[c] = "closed" \/ Contains(out[c], "QUIT")
Closing == quitReq \/ router # "run"

UserAnswered ==
    /\ []<>(button \/ screen # "login" \/ Hung \/ stuck)
    /\ []<>(Running /\ tc # 0 => ~SessionOver(tc) \/ Hung)
    /\ []<>(Closing => screen = "closed" \/ stuck)

(* The goroutines of a connection end once the router has let go of it,    *)
(* also if both have an error to report and nobody to take it.             *)
Ended(c) == reader[c] = "ended" /\ writer[c] = "ended"

GoroutinesEnd ==
    []<>(Running => \A c \in Conns : reader[c] # "off" /\ tc # c => Ended(c))
==============================================================================
