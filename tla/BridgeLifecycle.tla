--------------------------- MODULE BridgeLifecycle ---------------------------
(***************************************************************************)
(* service::lifecycle::run of huly-bridge around its event loop: start-up, *)
(* the reconnect loop with its backoff, the two tasks that live from boot  *)
(* to shutdown (watchdog, JWT broker), signals and the shutdown sequence.  *)
(*                                                                         *)
(* The event loop is that of EventLoop, started again for each connection; *)
(* the NATS client and its buffer outlive the connections.  Requests to    *)
(* the accounts service and the transactor succeed or fail; a signal may   *)
(* arrive at any time, once.                                               *)
(***************************************************************************)
EXTENDS EventLoop

CONSTANTS
    BaseDelay,  \* reconnect_delay_ms
    MaxBackoff, \* MAX_BACKOFF_MS
    U32Max,     \* where consecutive_failures saturates
    U64Max,     \* where the product in calculate_backoff saturates
    MaxPings    \* bound: watchdog pings

ASSUME LifecycleAssumption ==
    /\ {BaseDelay, MaxBackoff, U32Max, U64Max, MaxPings} \subseteq Nat
    /\ {BaseDelay, MaxBackoff} \subseteq 0 .. U64Max

(* Arithmetic the provers have no rule for: what a power of two is. *)
ASSUME PowerAssumption == \A n \in 0 .. U32Max : 2 ^ n \in Nat /\ 2 ^ (n + 1) = 2 * 2 ^ n

VARIABLES
    stage,      \* where run() is
    exit,       \* how the process ended: "none", "ok", "error" or "killed"
    failures,   \* consecutive_failures
    delay,      \* the last backoff it slept, 0 before the first
    handlers,   \* the signal handlers are installed, for the process's life
    signalled,  \* SIGTERM or SIGINT was sent
    heard,      \* the live shutdown_signal() future has it
    watchdog,   \* "off", "running" or "ended"
    pings,      \* WATCHDOG=1 notifications sent
    mint,       \* the JWT broker: "off", "subscribing", "listening" or "ended"
    takenAtStop,\* history: events NATS had taken when the shutdown flush began
    flushed     \* the shutdown flush succeeded

taskVars == <<watchdog, pings, mint>>
signalVars == <<handlers, signalled, heard>>
stopVars == <<takenAtStop, flushed>>
backoffVars == <<failures, delay>>
runVars == <<stage, exit, backoffVars, signalVars, taskVars, stopVars>>
vars == <<eventLoopVars, runVars>>

Stages == {"auth", "nats", "backoff", "resolving", "connecting", "connected",
           "flushing", "joinWatchdog", "joinMint", "exited"}

TypeOK ==
    /\ EventLoopTypeOK
    /\ stage \in Stages
    /\ exit \in {"none", "ok", "error", "killed"}
    /\ exit = "none" <=> stage # "exited"
    /\ failures \in 0 .. U32Max
    /\ delay \in 0 .. MaxBackoff
    /\ {handlers, signalled, heard, flushed} \subseteq BOOLEAN
    /\ watchdog \in {"off", "running", "ended"}
    /\ pings \in 0 .. MaxPings
    /\ mint \in {"off", "subscribing", "listening", "ended"}
    /\ takenAtStop \in 0 .. MaxEvents

(* No connection yet: no sender, no loop. *)
Init ==
    /\ NothingYet
    /\ loop = "stopped"
    /\ senderGone = TRUE
    /\ stage = "auth"
    /\ exit = "none"
    /\ failures = 0
    /\ delay = 0
    /\ handlers = FALSE
    /\ signalled = FALSE
    /\ heard = FALSE
    /\ watchdog = "off"
    /\ pings = 0
    /\ mint = "off"
    /\ takenAtStop = 0
    /\ flushed = FALSE

-----------------------------------------------------------------------------
(* Start-up: any failure ends the process with an error. *)

Exit(status) ==
    /\ stage' = "exited"
    /\ exit' = status

(* Authentication with the accounts service. *)
Authenticate ==
    /\ stage = "auth"
    /\ \/ stage' = "nats" /\ UNCHANGED exit
       \/ Exit("error")
    /\ UNCHANGED <<eventLoopVars, backoffVars, signalVars, taskVars, stopVars>>

(* The NATS connection, then the watchdog and the JWT broker, whose configuration may be bad. *)
ConnectNats ==
    /\ stage = "nats"
    /\ \/ /\ stage' = "resolving"
          /\ watchdog' = "running"
          /\ mint' = "subscribing"
          /\ UNCHANGED exit
       \/ /\ Exit("error")
          /\ UNCHANGED <<watchdog, mint>>
    /\ UNCHANGED <<eventLoopVars, backoffVars, signalVars, pings, stopVars>>

-----------------------------------------------------------------------------
(* The connection loop.  Nothing cancels the token while it runs. *)

(* Mutant: no MAX_BACKOFF_MS. *)
UncappedBackoff(n) ==
    BaseDelay * 2 ^ n

(* Mutant: plain u64 arithmetic, which wraps. *)
WrappingBackoff(n) ==
    LET product == (BaseDelay * 2 ^ n) % (U64Max + 1)
    IN  IF product > MaxBackoff THEN MaxBackoff ELSE product

Saturated(n) == IF n > U64Max THEN U64Max ELSE n

CalculateBackoff(n) ==
    LET product == Saturated(BaseDelay * Saturated(2 ^ n))
    IN  IF product > MaxBackoff THEN MaxBackoff ELSE product

(* `continue` after n failures in a row: the loop comes round and starts to sleep. *)
BackOff(n) ==
    /\ stage' = "backoff"
    /\ failures' = n
    /\ delay' = CalculateBackoff(n)

OneMoreFailure == IF failures < U32Max THEN failures + 1 ELSE U32Max

SleepElapsed ==
    /\ stage = "backoff"
    /\ stage' = "resolving"
    /\ UNCHANGED <<eventLoopVars, exit, backoffVars, signalVars, taskVars, stopVars>>

(* selectWorkspace or getLoginInfoByToken. *)
ResolveWorkspace ==
    /\ stage = "resolving"
    /\ \/ stage' = "connecting" /\ UNCHANGED backoffVars
       \/ BackOff(OneMoreFailure)
    /\ UNCHANGED <<eventLoopVars, exit, signalVars, taskVars, stopVars>>

ConnectFailed ==
    /\ stage = "connecting"
    /\ BackOff(OneMoreFailure)
    /\ UNCHANGED <<eventLoopVars, exit, signalVars, taskVars, stopVars>>

(* The WebSocket is up: a new channel, a new event loop, and the first poll of shutdown_signal() *)
(* installs the handlers, which stay; it does not see signals sent before.                       *)
Connected ==
    /\ stage = "connecting"
    /\ stage' = "connected"
    /\ failures' = 0
    /\ senderGone' = FALSE
    /\ channel' = <<>>
    /\ loop' = "select"
    /\ forwarded' = 0
    /\ failed' = 0
    /\ handlers' = TRUE
    /\ heard' = FALSE
    /\ UNCHANGED <<arrived, overflow, current, attempt, gaveUp, discarded, cancelled, natsVars,
                   exit, delay, signalled, taskVars, stopVars>>

(* Mutant: the bridge reconnects as soon as the connection is lost. *)
EventLoopForsaken ==
    /\ stage = "connected"
    /\ senderGone
    /\ BackOff(failures)
    /\ UNCHANGED <<eventLoopVars, exit, signalVars, taskVars, stopVars>>

(* The event loop returned because the reader is gone; the connection is dropped.  Should a *)
(* signal be there too, select! may still take this branch.                                 *)
EventLoopFinished ==
    /\ stage = "connected"
    /\ loop = "stopped"
    /\ BackOff(failures)
    /\ UNCHANGED <<eventLoopVars, exit, signalVars, taskVars, stopVars>>

-----------------------------------------------------------------------------
(* Signals and shutdown. *)

(* Before the handlers are installed a signal kills the process; while no shutdown_signal() *)
(* future exists it is consumed without effect.                                             *)
Signal ==
    /\ ~signalled
    /\ stage # "exited"
    /\ signalled' = TRUE
    /\ heard' = (handlers /\ stage = "connected")
    /\ IF handlers THEN UNCHANGED <<stage, exit>> ELSE Exit("killed")
    /\ UNCHANGED <<eventLoopVars, backoffVars, handlers, taskVars, stopVars>>

(* The loop is left: the connection is dropped, which aborts its reader, the event loop is *)
(* detached, the token is cancelled and the flush begins.                                  *)
BeginShutdown ==
    /\ stage = "connected"
    /\ heard
    /\ stage' = "flushing"
    /\ senderGone' = TRUE
    /\ cancelled' = TRUE
    /\ takenAtStop' = Len(accepted)
    /\ UNCHANGED <<arrived, overflow, channel, loopVars, natsVars, exit, backoffVars,
                   signalVars, taskVars, flushed>>

(* Mutant: the flush is requested, not awaited. *)
FlushUnawaited ==
    /\ stage = "flushing"
    /\ stage' = "joinWatchdog"
    /\ flushed' = TRUE
    /\ UNCHANGED <<eventLoopVars, exit, backoffVars, signalVars, taskVars, takenAtStop>>

(* flush() succeeds once the client has sent what it had taken when asked. *)
Flush ==
    /\ stage = "flushing"
    /\ Len(accepted) - buffered >= takenAtStop
    /\ stage' = "joinWatchdog"
    /\ flushed' = TRUE
    /\ UNCHANGED <<eventLoopVars, exit, backoffVars, signalVars, taskVars, takenAtStop>>

(* An error is logged and the shutdown goes on. *)
FlushFailed ==
    /\ stage = "flushing"
    /\ stage' = "joinWatchdog"
    /\ UNCHANGED <<eventLoopVars, exit, backoffVars, signalVars, taskVars, stopVars>>

(* Both joins are under a timeout, so they end whatever the task does. *)
JoinWatchdog ==
    /\ stage = "joinWatchdog"
    /\ stage' = "joinMint"
    /\ UNCHANGED <<eventLoopVars, exit, backoffVars, signalVars, taskVars, stopVars>>

(* Mutant: the broker is joined without a timeout. *)
JoinMintUnbounded ==
    /\ stage = "joinMint"
    /\ mint = "ended"
    /\ Exit("ok")
    /\ UNCHANGED <<eventLoopVars, backoffVars, signalVars, taskVars, stopVars>>

(* run() returns; the runtime drops every task that is left. *)
JoinMint ==
    /\ stage = "joinMint"
    /\ Exit("ok")
    /\ UNCHANGED <<eventLoopVars, backoffVars, signalVars, taskVars, stopVars>>

-----------------------------------------------------------------------------
(* The tasks beside the loop, while the process lives. *)

WatchdogTick ==
    /\ watchdog = "running"
    /\ \/ /\ pings < MaxPings
          /\ pings' = pings + 1
          /\ UNCHANGED watchdog
       \/ /\ cancelled
          /\ watchdog' = "ended"
          /\ UNCHANGED pings
    /\ UNCHANGED <<eventLoopVars, stage, exit, backoffVars, signalVars, mint, stopVars>>

(* run_mint_responder: the subscription may fail or end, the token may be cancelled. *)
MintStep ==
    /\ \/ mint = "subscribing" /\ mint' \in {"listening", "ended"}
       \/ mint = "listening" /\ mint' = "ended"
    /\ UNCHANGED <<eventLoopVars, stage, exit, backoffVars, signalVars, watchdog, pings, stopVars>>

(* The event loop, the reader that feeds it and the NATS client. *)
EventStep ==
    /\ Arrive \/ SenderGone \/ LoopStep \/ NatsStep
    /\ UNCHANGED runVars

RunStep ==
    \/ Authenticate \/ ConnectNats
    \/ SleepElapsed \/ ResolveWorkspace \/ ConnectFailed \/ Connected
    \/ EventLoopFinished
    \/ BeginShutdown \/ Flush \/ JoinWatchdog \/ JoinMint

Next ==
    \/ RunStep \/ FlushFailed \/ Signal
    \/ stage # "exited" /\ (WatchdogTick \/ MintStep \/ EventStep)

(***************************************************************************)
(* The main task and the event loop are polled; requests to the accounts   *)
(* service and the transactor end, well or badly; the NATS client          *)
(* reconnects and sends, and answers a flush it can serve.  Nothing is     *)
(* assumed of the broker, of the server or of signals.                     *)
(***************************************************************************)
Fairness ==
    /\ WF_vars(RunStep)
    /\ WF_vars(stage # "exited" /\ Receive /\ UNCHANGED runVars)
    /\ WF_vars(stage # "exited" /\ Stop /\ UNCHANGED runVars)
    /\ WF_vars(stage # "exited" /\ PublishOk /\ UNCHANGED runVars)
    /\ WF_vars(stage # "exited" /\ BackoffElapsed /\ UNCHANGED runVars)
    /\ WF_vars(stage # "exited" /\ NatsReconnect /\ UNCHANGED runVars)
    /\ SF_vars(stage # "exited" /\ Drain /\ UNCHANGED runVars)

Spec == Init /\ [][Next]_vars
FairSpec == Spec /\ Fairness

-----------------------------------------------------------------------------
(* What NATS had taken when the shutdown began has been sent when the process ends after a    *)
(* successful flush: the token is cancelled and the flush awaited before run() returns.       *)
FlushCoversForwarded ==
    exit = "ok" /\ flushed => Len(accepted) - buffered >= takenAtStop

(* The backoff only shrinks after a connection that was up: saturating arithmetic never makes *)
(* a long series of failures retry faster than a short one.                                   *)
BackoffNeverShrinks ==
    [][delay' < delay => stage = "connected"]_vars

(* When the transactor's connection is gone, run() gets back to connecting: first the event   *)
(* loop resolves its backlog, however often NATS goes away meanwhile, unless a signal ends it. *)
DropLeadsToReconnect ==
    stage = "connected" /\ senderGone ~> stage \in {"resolving", "flushing", "exited"}

(* Once shutdown has begun the process ends, even when the broker never answers.              *)
ShutdownEnds ==
    stage = "flushing" ~> stage = "exited"

-----------------------------------------------------------------------------
(* What the documentation says. *)

(* README 594-601: on SIGTERM or SIGINT the service stops and exits. *)
SignalStops ==
    signalled ~> stage = "exited"

(* README 594-601: the shutdown waits up to 10 s for the event loop to drain.  An event that  *)
(* could be published at once when the process exits was not waited for.                      *)
EventLoopDrained ==
    exit = "ok" /\ natsUp /\ buffered < BufferCap => channel = <<>> /\ current = 0

(* README 603-608: the ping is skipped while Huly or NATS is disconnected. *)
PingsOnlyWhenConnected ==
    [][pings' > pings => stage = "connected" /\ natsUp]_vars
=============================================================================
