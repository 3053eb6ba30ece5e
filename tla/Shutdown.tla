------------------------------ MODULE Shutdown -------------------------------
(***************************************************************************)
(* The logger of log.go, and the end of a process in main.go: once the     *)
(* kill signal has come, main tells the components one after the other to  *)
(* terminate, over channels without a buffer, and returns.                 *)
(*                                                                         *)
(* Everyone logs through one bounded channel, which the logger empties; a  *)
(* component that waits for room there does not read its terminate channel.*)
(***************************************************************************)
EXTENDS Naturals, Sequences

CONSTANTS
  Modes,      (* dev, or the role in a cluster: first node or joiner       *)
  HTTPLogs,   (* the settings of EnableHTTPLogs                            *)
  BufferSize, (* capacity of the log channel and of logQueue: 4096         *)
  MaxLog      (* bound on the messages the components log                  *)

ASSUME ShutdownAssumption ==
  /\ Modes \subseteq {"dev", "first", "joiner"}
  /\ HTTPLogs \subseteq BOOLEAN
  /\ BufferSize \in Nat \ {0}
  /\ MaxLog \in Nat

VARIABLES
  main,     (* where main is                                               *)
  turn,     (* the component main is about to tell                         *)
  loop,     (* loop[c]: where the loop of component c is                   *)
  config,   (* the mode of this process, and whether it has logQueue       *)
  said,     (* the number of messages logged so far                        *)
  logs,     (* the channel Log.c; messages are numbered as they come       *)
  written,  (* what was printed, in order                                  *)
  logQueue, (* the messages kept for /api/v1/perf/logs                     *)
  writer    (* where Log.Start is                                          *)

vars == <<main, turn, loop, config, said, logs, written, logQueue, writer>>

-----------------------------------------------------------------------------
(* The order of the calls of the last loop of main.                        *)
Order == <<"api", "kv", "cluster", "plugins", "tokens", "log">>
Component == {Order[i] : i \in 1..5}

(* A dev node whose Cluster.Start returns and leaves no one behind.        *)
StartAlone(c, m) == IF c = "cluster" /\ m = "dev" THEN "done" ELSE "run"

(* In dev mode a goroutine takes the place of the loop of Cluster.Start.   *)
Start(c, m) == "run"

Init ==
  /\ config \in [mode : Modes, httpLogs : HTTPLogs]
  /\ main = "serve"
  /\ turn = 1
  /\ loop = [c \in Component |-> Start(c, config.mode)]
  /\ said = 0
  /\ logs = <<>>
  /\ written = <<>>
  /\ logQueue = <<>>
  /\ writer = "run"

Alive == main # "gone"

Room == Len(logs) < BufferSize

(* l.c <- message                                                          *)
Put == Room /\ said' = said + 1 /\ logs' = Append(logs, said + 1)

-----------------------------------------------------------------------------
Kill ==
  /\ main = "serve"
  /\ main' = "killed"
  /\ UNCHANGED <<turn, loop, config, said, logs, written, logQueue, writer>>

(* "Got kill signal from OS, shutting down..."                             *)
WarnOfKill ==
  /\ main = "killed"
  /\ Put
  /\ main' = "warn"
  /\ UNCHANGED <<turn, loop, config, written, logQueue, writer>>

(* "Shutting down ...", for each component.                                *)
Warn ==
  /\ main = "warn"
  /\ Put
  /\ main' = "tell"
  /\ UNCHANGED <<turn, loop, config, written, logQueue, writer>>

(* TERMINATOR[t] <- true meets the select of the loop of t.                *)
Tell ==
  /\ main = "tell" /\ turn < Len(Order)
  /\ loop[Order[turn]] = "run"
  /\ loop' = [loop EXCEPT ![Order[turn]] =
                IF Order[turn] \in {"api", "plugins"} THEN "ending" ELSE "done"]
  /\ turn' = turn + 1
  /\ main' = "warn"
  /\ UNCHANGED <<config, said, logs, written, logQueue, writer>>

TellLog ==
  /\ main = "tell" /\ turn = Len(Order)
  /\ writer = "run"
  /\ writer' = "skip"
  /\ main' = "return"
  /\ UNCHANGED <<turn, loop, config, said, logs, written, logQueue>>

Return ==
  /\ main = "return"
  /\ main' = "gone"
  /\ UNCHANGED <<turn, loop, config, said, logs, written, logQueue, writer>>

-----------------------------------------------------------------------------
(* A component comes to a point where it logs, and returns to its loop, or *)
(* to its end: watch and Plugins.Start work on after they were told.       *)
Say(c) ==
  /\ Alive /\ loop[c] \in {"run", "ending"}
  /\ said < MaxLog
  /\ loop' = [loop EXCEPT ![c] = IF @ = "run" THEN "say" ELSE "say last"]
  /\ UNCHANGED <<main, turn, config, said, logs, written, logQueue, writer>>

Said(c) ==
  /\ Alive /\ loop[c] \in {"say", "say last"}
  /\ Put
  /\ loop' = [loop EXCEPT ![c] = IF @ = "say" THEN "run" ELSE "done"]
  /\ UNCHANGED <<main, turn, config, written, logQueue, writer>>

(* The first node of a cluster comes round to clusterReady <- true again,  *)
(* which no one receives any more.                                         *)
ReadyAgain ==
  /\ Alive /\ config.mode = "first" /\ loop["cluster"] = "run"
  /\ loop' = [loop EXCEPT !["cluster"] = "stuck"]
  /\ UNCHANGED <<main, turn, config, said, logs, written, logQueue, writer>>

(* One of the receives of routeLogs.                                       *)
ReadLogs ==
  /\ Alive /\ logQueue # <<>>
  /\ logQueue' = Tail(logQueue)
  /\ UNCHANGED <<main, turn, loop, config, said, logs, written, writer>>

-----------------------------------------------------------------------------
Take(printed, kept) ==
  /\ Alive /\ writer = "run" /\ logs # <<>> /\ config.httpLogs
  /\ logs' = Tail(logs)
  /\ written' = IF printed THEN Append(written, Head(logs)) ELSE written
  /\ logQueue' = IF kept THEN Append(logQueue, Head(logs)) ELSE logQueue
  /\ UNCHANGED <<main, turn, loop, config, said, writer>>

HasRoom == Len(logQueue) < BufferSize

(* An off-by-one in the check of the length.                               *)
WriteTooMany == Take(TRUE, Len(logQueue) <= BufferSize)

(* A logger that waits until there is room in logQueue.                    *)
WriteWhenRoom == HasRoom /\ Take(TRUE, TRUE)

(* Nothing is printed while logQueue is full.                              *)
WriteIfRoom == Take(HasRoom, HasRoom)

(* Log.Start prints a message and keeps it for the API while there is room.*)
Write == Take(TRUE, HasRoom)

(* Without EnableHTTPLogs logQueue is nil: its length is 0, and the send   *)
(* to it waits for ever.                                                   *)
WriteAndWait ==
  /\ Alive /\ writer = "run" /\ logs # <<>> /\ ~ config.httpLogs
  /\ logs' = Tail(logs)
  /\ written' = Append(written, Head(logs))
  /\ writer' = "stuck"
  /\ UNCHANGED <<main, turn, loop, config, said, logQueue>>

(* for range l.c receives a message and drops it ...                       *)
DrainSkips ==
  /\ Alive /\ writer = "skip" /\ logs # <<>>
  /\ logs' = Tail(logs)
  /\ writer' = "print"
  /\ UNCHANGED <<main, turn, loop, config, said, written, logQueue>>

(* ... and its body receives the next one and prints it.                   *)
DrainPrints ==
  /\ Alive /\ writer = "print" /\ logs # <<>>
  /\ written' = Append(written, Head(logs))
  /\ logs' = Tail(logs)
  /\ writer' = "skip"
  /\ UNCHANGED <<main, turn, loop, config, said, logQueue>>

-----------------------------------------------------------------------------
Main == WarnOfKill \/ Warn \/ Tell \/ TellLog \/ Return
Logger == Write \/ WriteAndWait \/ DrainSkips \/ DrainPrints

Next ==
  \/ Kill \/ Main \/ Logger \/ ReadyAgain \/ ReadLogs
  \/ \E c \in Component : Say(c) \/ Said(c)

Spec == Init /\ [][Next]_vars

(* Goroutines that can run do; the signal need not come, no one need log,  *)
(* and no one need read the logs.                                          *)
FairSpec ==
  /\ Spec
  /\ WF_vars(Main) /\ WF_vars(Logger) /\ WF_vars(ReadyAgain)
  /\ \A c \in Component : WF_vars(Said(c))

-----------------------------------------------------------------------------
TypeOK ==
  /\ main \in {"serve", "killed", "warn", "tell", "return", "gone"}
  /\ turn \in 1..Len(Order)
  /\ loop \in [Component -> {"run", "say", "ending", "say last", "stuck", "done"}]
  /\ config \in [mode : Modes, httpLogs : HTTPLogs]
  /\ said \in Nat
  /\ logs \in Seq(1..said) /\ Len(logs) <= BufferSize
  /\ written \in Seq(1..said)
  /\ logQueue \in Seq(1..said) /\ Len(logQueue) <= BufferSize
  /\ writer \in {"run", "stuck", "skip", "print"}

(* Until the logger itself is told to terminate no message is lost,        *)
(* printed twice or out of order, whether or not someone reads logQueue.   *)
LogsKept ==
  writer \in {"run", "stuck"} => written \o logs = [i \in 1..said |-> i]

(* Once the signal has been taken the process ends, however full the log   *)
(* channel is: whoever waits for room in it is served, because the logger  *)
(* is told last, and each component then comes round to its select.  (The  *)
(* exceptions are a first node whose Cluster.Start is blocked, and a       *)
(* logger that is; see TerminateIsRead and LoggingGoesOn.)                 *)
ShutdownCompletes ==
  (main = "killed") ~>
    (main = "gone" \/ loop["cluster"] = "stuck" \/ writer = "stuck")

Saying(c) == loop[c] \in {"say", "say last"}

(* A component that logs goes on, before, during and after the shutdown,   *)
(* whether or not anyone reads /api/v1/perf/logs (log.go, Start and print).*)
LogCallsReturn ==
  \A c \in Component :
    Saying(c) ~> (~ Saying(c) \/ main = "gone" \/ writer = "stuck")

-----------------------------------------------------------------------------
(* cluster.go, in Start: ensure something is there to read the terminate   *)
(* signal.                                                                 *)
TerminateIsRead == (main = "killed") ~> (main = "gone")

(* functions.go: the setting is there to "Enable an HTTP endpoint for      *)
(* getting logs"; so a process that has none would log like any other.     *)
LoggingGoesOn ==
  \A c \in Component : Saying(c) ~> (~ Saying(c) \/ main = "gone")

(* log.go, at the terminator: finish writing logs before quitting.         *)
EveryLogWritten ==
  main = "gone" => \A i \in 1..said : \E j \in DOMAIN written : written[j] = i
=============================================================================
