------------------------------ MODULE Lifecycle ------------------------------
(***************************************************************************)
(* The life of the server process: the accept loop of main, the goroutine  *)
(* that waits for a signal, and the goroutine of each connection, down to  *)
(* the end of the process.                                                 *)
(*                                                                         *)
(* A step is one call on the listener or a socket, or one critical section *)
(* of netConnsMu or onlinePlayersMu.  What a command does while it runs,   *)
(* and the steps of a cleanup, are in module World.  A command, a cleanup  *)
(* or the signal goroutine may also be held up for ever ("stuck"): by a    *)
(* PlayerMu that two GROUP JOINs keep (module Groups, NoCircle), by what   *)
(* their goroutines hold besides, or by a client that has stopped reading, *)
(* for the server sets no write deadline.                                  *)
(***************************************************************************)
EXTENDS Naturals

CONSTANTS
    Conns,       \* connections; each is accepted at most once
    MaxRetries,  \* maxRetries
    NoConn

ASSUME LifecycleAssumption == MaxRetries \in Nat \ {0} /\ NoConn \notin Conns

VARIABLES
    listening,     \* the listener is open
    main,          \* where main is
    conn,          \* the connection main is admitting, or NoConn
    currRetries,   \* Accept errors in a row
    signal,        \* where the signal goroutine is
    toCleanUp,     \* its list of players, by connection
    shuttingDown,
    netConns,
    socket,        \* socket[c]: "unused", "open" or "closed"
    handler,       \* handler[c]: where handleTCPConn is
    online         \* onlinePlayers, by connection

mainVars == <<main, conn, currRetries>>
signalVars == <<signal, toCleanUp, shuttingDown>>
connVars == <<netConns, socket, handler, online>>
lifecycleVars == <<listening, mainVars, signalVars, connVars>>

LifecycleInit ==
    /\ listening = TRUE
    /\ main = "accept"
    /\ conn = NoConn
    /\ currRetries = 0
    /\ signal = "none"
    /\ toCleanUp = {}
    /\ shuttingDown = FALSE
    /\ netConns = {}
    /\ socket = [c \in Conns |-> "unused"]
    /\ handler = [c \in Conns |-> "none"]
    /\ online = {}

(* A definition named ...Fault is a seeded fault: a mutation run puts it   *)
(* in the place of the definition that follows it.                         *)

CloseSockets(C) == socket' = [c \in Conns |-> IF c \in C THEN "closed" ELSE socket[c]]
Running == main # "exited"

------------------------------------------------------------------------------
(* main *)

Accept(c) ==
    /\ main = "accept"
    /\ listening
    /\ socket[c] = "unused"
    /\ socket' = [socket EXCEPT ![c] = "open"]
    /\ conn' = c
    /\ currRetries' = 0
    /\ main' = "admit"
    /\ UNCHANGED <<listening, signalVars, netConns, handler, online>>

(* Accept fails for another reason than a closed listener. *)
TooManyErrorsFault(n) == n > MaxRetries
TooManyErrors(n) == n >= MaxRetries

AcceptError ==
    /\ main = "accept"
    /\ listening
    /\ currRetries' = currRetries + 1
    /\ main' = IF TooManyErrors(currRetries') THEN "wait" ELSE "accept"
    /\ UNCHANGED <<listening, conn, signalVars, connVars>>

AcceptClosed ==
    /\ main = "accept"
    /\ ~listening
    /\ main' = "wait"
    /\ UNCHANGED <<listening, conn, currRetries, signalVars, connVars>>

(* The host floods or is softbanned (see module Security). *)
TurnAwayConn ==
    /\ main = "admit"
    /\ CloseSockets({conn})
    /\ main' = "accept"
    /\ conn' = NoConn
    /\ UNCHANGED <<listening, currRetries, signalVars, netConns, handler, online>>

(* The critical section of netConnsMu, and the start of handleTCPConn.     *)
AdmitFault == TRUE
Admit == ~shuttingDown

ServeConn ==
    /\ main = "admit"
    /\ IF Admit
       THEN /\ netConns' = netConns \cup {conn}
            /\ handler' = [handler EXCEPT ![conn] = "top"]
            /\ UNCHANGED socket
       ELSE /\ CloseSockets({conn})
            /\ UNCHANGED <<netConns, handler>>
    /\ main' = "accept"
    /\ conn' = NoConn
    /\ UNCHANGED <<listening, currRetries, signalVars, online>>

(* wg.Wait, and the end of main, which ends the process.                   *)
Served == {c \in Conns : handler[c] \notin {"none", "done"}}

Exit ==
    /\ main = "wait"
    /\ Served = {}
    /\ main' = "exited"
    /\ listening' = FALSE
    /\ UNCHANGED <<conn, currRetries, signalVars, connVars>>

------------------------------------------------------------------------------
(* The goroutine that waits for SIGINT or SIGTERM *)

Signal ==
    /\ signal = "none"
    /\ signal' = "received"
    /\ UNCHANGED <<listening, mainVars, toCleanUp, shuttingDown, connVars>>

CloseListener ==
    /\ signal = "received"
    /\ listening' = FALSE
    /\ signal' = "list"
    /\ UNCHANGED <<mainVars, toCleanUp, shuttingDown, connVars>>

ListPlayers ==
    /\ signal = "list"
    /\ toCleanUp' = online
    /\ signal' = "players"
    /\ UNCHANGED <<listening, mainVars, shuttingDown, connVars>>

ClosePlayer(c) ==
    /\ signal = "players"
    /\ c \in toCleanUp
    /\ CloseSockets({c})
    /\ toCleanUp' = toCleanUp \ {c}
    /\ UNCHANGED <<listening, mainVars, signal, shuttingDown, netConns, handler, online>>

(* The critical section of netConnsMu. *)
ToCloseFault == online
ToClose == netConns

CloseConns ==
    /\ signal = "players"
    /\ toCleanUp = {}
    /\ shuttingDown' = TRUE
    /\ CloseSockets(ToClose)
    /\ signal' = "done"
    /\ UNCHANGED <<listening, mainVars, toCleanUp, netConns, handler, online>>

(* The goroutine waits for ever: for onlinePlayersMu, which a stuck one    *)
(* may hold, or at a player, to write its last line or to read its name    *)
(* under its PlayerMu.  netConnsMu is never held for long.                 *)
StickSignal ==
    /\ \/ signal = "list" /\ \E c \in Conns : handler[c] = "stuck"
       \/ signal = "players" /\ toCleanUp # {}
    /\ signal' = "stuck"
    /\ UNCHANGED <<listening, mainVars, toCleanUp, shuttingDown, connVars>>

------------------------------------------------------------------------------
(* handleTCPConn *)

Goto(c, h) == handler' = [handler EXCEPT ![c] = h]

(* SetReadDeadline: it fails on a closed socket. *)
SetReadDeadline(c) ==
    /\ handler[c] = "top"
    /\ Goto(c, IF socket[c] = "open" THEN "scan" ELSE "cleanup")
    /\ UNCHANGED <<listening, mainVars, signalVars, netConns, socket, online>>

(* A line: the scanner may have it in its buffer when the socket is closed. *)
Scan(c) ==
    /\ handler[c] = "scan"
    /\ Goto(c, "line")
    /\ UNCHANGED <<listening, mainVars, signalVars, netConns, socket, online>>

(* No more lines: the client has gone, 15 minutes have passed, a line is   *)
(* too long for the fifth time.                                            *)
EndOfInput(c) ==
    /\ handler[c] = "scan"
    /\ Goto(c, "cleanup")
    /\ UNCHANGED <<listening, mainVars, signalVars, netConns, socket, online>>

ReadError(c) == socket[c] = "closed" /\ EndOfInput(c)

(* The line is a CONNECT that succeeds.                                    *)
Login(c) ==
    /\ handler[c] = "line"
    /\ c \notin online
    /\ online' = online \cup {c}
    /\ Goto(c, "top")
    /\ UNCHANGED <<listening, mainVars, signalVars, netConns, socket>>

(* Any other line: QUIT, an internal error, a ban or a login refused too   *)
(* often close the socket, the others do not.                              *)
Command(c) ==
    /\ handler[c] = "line"
    /\ socket' \in {socket, [socket EXCEPT ![c] = "closed"]}
    /\ Goto(c, "top")
    /\ UNCHANGED <<listening, mainVars, signalVars, netConns, online>>

(* cleanupPlayerData, if the connection has a player.                      *)
LeftOnlineFault(c) == online
LeftOnline(c) == online \ {c}

Cleanup(c) ==
    /\ handler[c] = "cleanup"
    /\ online' = LeftOnline(c)
    /\ Goto(c, "untrack")
    /\ UNCHANGED <<listening, mainVars, signalVars, netConns, socket>>

(* The deferred function and wg.Done. *)
Untrack(c) ==
    /\ handler[c] = "untrack"
    /\ CloseSockets({c})
    /\ netConns' = netConns \ {c}
    /\ Goto(c, "done")
    /\ UNCHANGED <<listening, mainVars, signalVars, online>>

(* A command or the cleanup waits for ever: GROUP JOIN and LEAVE, and the  *)
(* groupLeave of the cleanup, for a PlayerMu (module Groups), any of them  *)
(* for what such a goroutine holds, or for a client to read.  It may have  *)
(* entered the player into the list, or deleted it, before that.           *)
Stick(c) ==
    /\ \/ handler[c] = "line" /\ online' \in {online, online \cup {c}}
       \/ handler[c] = "cleanup" /\ online' \in {online, LeftOnline(c)}
    /\ Goto(c, "stuck")
    /\ UNCHANGED <<listening, mainVars, signalVars, netConns, socket>>

------------------------------------------------------------------------------
Main == AcceptError \/ AcceptClosed \/ TurnAwayConn \/ ServeConn \/ Exit
Shutdown == CloseListener \/ ListPlayers \/ CloseConns \/ \E c \in Conns : ClosePlayer(c)
(* What a handler does without a client. *)
Proceed(c) ==
    SetReadDeadline(c) \/ ReadError(c) \/ Login(c) \/ Command(c) \/ Cleanup(c) \/ Untrack(c)

LifecycleNext ==
    /\ Running
    /\ \/ Main
       \/ Signal
       \/ Shutdown
       \/ StickSignal
       \/ \E c \in Conns :
            Accept(c) \/ Proceed(c) \/ Scan(c) \/ EndOfInput(c) \/ Stick(c)

LifecycleSpec == LifecycleInit /\ [][LifecycleNext]_lifecycleVars

(* Goroutines that can run do run.  Nothing is assumed of clients, of the  *)
(* signal, or of the outcome of Accept while the listener is open, nor     *)
(* that a command, a cleanup or the signal goroutine does not get stuck.   *)
Fairness ==
    /\ WF_lifecycleVars(Running /\ (AcceptClosed \/ TurnAwayConn \/ ServeConn \/ Exit))
    /\ WF_lifecycleVars(Running /\ Shutdown)
    /\ \A c \in Conns : WF_lifecycleVars(Running /\ Proceed(c))

LiveLifecycle == LifecycleSpec /\ Fairness

------------------------------------------------------------------------------
(* Every variable is of its type. *)
LifecycleTypeOK ==
    /\ listening \in BOOLEAN
    /\ main \in {"accept", "admit", "wait", "exited"}
    /\ conn \in Conns \cup {NoConn}
    /\ currRetries \in 0 .. MaxRetries
    /\ signal \in {"none", "received", "list", "players", "done", "stuck"}
    /\ toCleanUp \subseteq Conns
    /\ shuttingDown \in BOOLEAN
    /\ netConns \subseteq Conns
    /\ socket \in [Conns -> {"unused", "open", "closed"}]
    /\ handler \in [Conns -> {"none", "top", "scan", "line", "cleanup", "untrack",
                           "done", "stuck"}]
    /\ online \subseteq Conns

(* Once the signal goroutine is through, no connection that is served is   *)
(* open, not even one that was being accepted, or was logging in, while    *)
(* the goroutine made its lists: wg.Wait has nothing to wait for.          *)
NoneEscapes == signal = "done" => \A c \in Served : socket[c] = "closed"

(* The process ends with every player cleaned up, and therefore with all   *)
(* their items, groups and fights returned.                                *)
CleanExit == main = "exited" => online = {} /\ netConns = {}

(* After a signal the process ends, unless the signal goroutine is stuck   *)
(* or only stuck handlers are left, for which wg.Wait then waits for ever: *)
(* no client that is idle, busy or just arriving keeps the process alive,  *)
(* with or without a stuck one beside it.                                  *)
OnlyStuckLeft == Served # {} /\ \A c \in Served : handler[c] = "stuck"
ShutdownEnds ==
    signal # "none" ~> \/ main = "exited"
                       \/ signal = "stuck"
                       \/ main = "wait" /\ OnlyStuckLeft
==============================================================================
