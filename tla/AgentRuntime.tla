---- MODULE AgentRuntime ----
(***************************************************************************)
(* The agent's process: AgentRuntime (agent/src/runtime), the shutdown of  *)
(* index.ts, the signal handlers and the part of readEnv that a running    *)
(* process can meet, composed with the collections of FileIntegrity that   *)
(* the intervals and signals start.  Metric collections are WorkerManager, *)
(* the connection is TcpClient, and the mutex of the shared metrics is     *)
(* SharedMetrics: here it only matters whether it can still be had.        *)
(*                                                                         *)
(* Signals arrive at any time, also while stop() awaits the workers or the *)
(* client.                                                                 *)
(***************************************************************************)
EXTENDS FileIntegrity

CONSTANTS
  Periods,      \* valid intervals
  Default,      \* the interval of envSchema
  Invalid,      \* a configuration that envSchema.parse rejects
  Unreadable,   \* no configuration file, or one that is not JSON
  MaxSignals    \* SIGHUPs (bound)

ASSUME PeriodsAssumption == Default \in Periods /\ {Invalid, Unreadable} \intersect Periods = {}
ASSUME SignalsAssumption == MaxSignals \in Nat

VARIABLES
  process,       \* "starting", "running", "exited", "failed" or "blocked": its main
                 \* thread waits for a mutex that nobody will unlock
  config,        \* the interval of this.config
  timer,         \* metricsTimer and securityTimer; 0 for null
  live,          \* intervals that have not been cleared
  armed,         \* intervals made so far
  shuttingDown,
  stopStep,      \* what stop() awaits
  signals,
  orphaned,      \* the mutex of the shared metrics is held by a terminated worker
  hupInStop      \* history: SIGHUP was handled during the shutdown

timerVars == <<timer, live, armed>>
runtimeVars == <<process, config, timerVars, shuttingDown, stopStep, signals, orphaned, hupInStop>>
vars == <<fileVars, runtimeVars>>

Kinds == {"metrics", "security"}

Init ==
  /\ FileInit
  /\ process = "starting"
  /\ config = Default
  /\ timer = [k \in Kinds |-> 0]
  /\ live = {}
  /\ armed = 0
  /\ shuttingDown = FALSE
  /\ stopStep = "none"
  /\ signals = 0
  /\ orphaned = FALSE
  /\ hupInStop = FALSE

(* What the configuration file may say when it is read. *)
ConfigFiles == Periods \union {Unreadable, Invalid}

(* readEnv, where the environment does not set the interval: it would win. *)
ReadEnv(file) == IF file = Unreadable THEN Default ELSE file

(* scheduleTimers with interval p, when the intervals in kept go on. *)
ScheduleTimers(p, kept) ==
  /\ live' = kept \union {[id |-> armed + 1, kind |-> k, period |-> p] : k \in Kinds}
  /\ timer' = [k \in Kinds |-> armed + 1]
  /\ armed' = armed + 1

(* The live intervals whose handle is in its field. *)
Held == {t \in live : timer[t.kind] = t.id}

(* bootstrap, up to the end of runtime.start(); without a valid configuration
   it rejects, which ends the process. *)
Start(file) ==
  /\ process = "starting"
  /\ IF ReadEnv(file) = Invalid
     THEN /\ process' = "failed"
          /\ UNCHANGED <<fileVars, config, timerVars>>
     ELSE /\ process' = "running"
          /\ config' = ReadEnv(file)
          /\ ScheduleTimers(ReadEnv(file), live)
          /\ Ask(1)
  /\ UNCHANGED <<shuttingDown, stopStep, signals, orphaned, hupInStop>>

(* The security interval fires. *)
IntervalFires ==
  /\ process = "running"
  /\ \E t \in live : t.kind = "security"
  /\ \E c \in FileCollections : Ask(c)
  /\ UNCHANGED runtimeVars

(* SIGUSR1: forceCollect *)
ForceCollect ==
  /\ process = "running"
  /\ \E c \in FileCollections : Ask(c)
  /\ UNCHANGED runtimeVars

\* Mutant: the intervals are armed without clearing the ones before.
ResetTimersKeeps(p) == ScheduleTimers(p, live)

ResetTimers(p) == ScheduleTimers(p, live \ Held)

(* SIGHUP: reloadConfig; what readEnv throws ends the process. *)
Reload(file) ==
  /\ process = "running"
  /\ signals < MaxSignals
  /\ signals' = signals + 1
  /\ IF ReadEnv(file) = Invalid
     THEN /\ process' = "failed"
          /\ UNCHANGED <<config, timerVars, hupInStop>>
     ELSE /\ config' = ReadEnv(file)
          /\ ResetTimers(ReadEnv(file))
          /\ hupInStop' = (IF shuttingDown THEN TRUE ELSE hupInStop)
          /\ UNCHANGED process
  /\ UNCHANGED <<fileVars, shuttingDown, stopStep, orphaned>>

(* SIGUSR2: dumpState takes the mutex on the main thread.  A dump that gets it
   changes nothing; one that cannot never returns. *)
DumpState ==
  /\ process = "running"
  /\ process' = IF orphaned THEN "blocked" ELSE process
  /\ UNCHANGED <<fileVars, config, timerVars, shuttingDown, stopStep, signals, orphaned, hupInStop>>

\* Mutant: the flag is set before it is tested.
ShutdownSetsFirst ==
  /\ process = "running"
  /\ shuttingDown' = TRUE
  /\ UNCHANGED <<fileVars, process, config, timerVars, stopStep, signals, orphaned, hupInStop>>

(* SIGTERM or SIGINT: shutdown, and stop() up to its first await.  Once
   shuttingDown is set another signal changes nothing. *)
Shutdown ==
  /\ process = "running"
  /\ ~shuttingDown
  /\ shuttingDown' = TRUE
  /\ live' = live \ Held
  /\ timer' = [k \in Kinds |-> 0]
  /\ stopStep' = "workers"
  /\ UNCHANGED <<fileVars, process, config, armed, signals, orphaned, hupInStop>>

(* terminate() stops a metric worker between lock and unlock. *)
CutInsideLock ==
  /\ process = "running"
  /\ stopStep = "workers"
  /\ orphaned' = TRUE
  /\ UNCHANGED <<fileVars, process, config, timerVars, shuttingDown, stopStep, signals, hupInStop>>

WorkersStopped ==
  /\ process = "running"
  /\ stopStep = "workers"
  /\ stopStep' = "client"
  /\ WorkerTerminates
  /\ UNCHANGED <<process, config, timerVars, shuttingDown, signals, orphaned, hupInStop>>

(* client.stop() resolves, and the process exits. *)
ClientStopped ==
  /\ process = "running"
  /\ stopStep = "client"
  /\ stopStep' = "done"
  /\ process' = "exited"
  /\ UNCHANGED <<fileVars, config, timerVars, shuttingDown, signals, orphaned, hupInStop>>

Next ==
  \/ FileChanges /\ UNCHANGED runtimeVars
  \/ process = "running" /\ FileNext /\ UNCHANGED runtimeVars
  \/ \E file \in ConfigFiles : Start(file) \/ Reload(file)
  \/ IntervalFires \/ ForceCollect \/ DumpState
  \/ Shutdown \/ CutInsideLock \/ WorkersStopped \/ ClientStopped

Spec == Init /\ [][Next]_vars

(* terminate() and socket.end() are done at some time. *)
FairSpec == Spec /\ WF_vars(WorkersStopped) /\ WF_vars(ClientStopped)

----
(* Through any number of reloads, at most one interval of each kind runs, with
   the period read last; and once a shutdown has begun none does, unless SIGHUP
   was handled while stop() awaited something, which arms them again. *)
IntervalsAccounted ==
  /\ \A t, u \in live : t.kind = u.kind => t = u
  /\ \A t \in live : t.period = config
  /\ shuttingDown /\ live # {} => hupInStop

(* A process that was told to shut down ends, whatever collections are under
   way and whatever signals come in between; unless SIGUSR2 makes it wait for
   the mutex after a metric worker was terminated inside. *)
ShutdownExits ==
  shuttingDown ~> process \in {"exited", "failed"} \/ (process = "blocked" /\ orphaned)
====
