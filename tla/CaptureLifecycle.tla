-------------------------- MODULE CaptureLifecycle --------------------------
(***************************************************************************)
(* The desktop host's capture threads: the worker that owns the capture    *)
(* scheduler (capture_worker.rs), the dispatcher that turns its events     *)
(* into published status (capture_lifecycle.rs), the main thread (Tauri    *)
(* commands, tray, exit) and the timer thread of --run-seconds (app.rs,    *)
(* main.rs).                                                               *)
(*                                                                         *)
(* A status is published in two steps under two different locks: the       *)
(* lifecycle's own copy first, then the sink's copy, which is the one the  *)
(* UI and the tray read.                                                   *)
(***************************************************************************)
EXTENDS Naturals, Sequences

CONSTANTS Timer,          \* TRUE iff the process was launched with --run-seconds
          EventCapacity,  \* STATUS_EVENT_CAPACITY
          MayPanic        \* TRUE iff a tick may panic

ASSUME LifecycleAssumption ==
    Timer \in BOOLEAN /\ EventCapacity \in Nat \ {0} /\ MayPanic \in BOOLEAN

Callers == IF Timer THEN {"main", "timer"} ELSE {"main"}
NoOne   == "noone"

VARIABLES
    up,             \* the process runs
    instanceLock,   \* the advisory lock of the data directory is held
    lifecycle,      \* ShellCaptureState.lifecycle is Some
    shellLock,      \* the caller inside that mutex
    pc,             \* what each caller does next
    wanted,         \* the flag of the set_paused call in progress
    commands,       \* command_tx .. command_rx
    worker,         \* what the worker thread does next
    paused,         \* its local flag
    events,         \* events buffered in event_tx .. event_rx
    dispatcher,     \* what the status dispatcher does next
    isPaused,       \* its local flag
    status,         \* CaptureLifecycle.status
    shown,          \* the sink's copy: what the UI and the tray read
    told            \* auxiliary: the last set_paused that returned said "paused"

hostVars   == <<up, instanceLock, lifecycle, shellLock>>
callVars   == <<pc, wanted, told>>
workerVars == <<worker, paused>>
dispVars   == <<dispatcher, isPaused>>
statusVars == <<status, shown>>
vars == <<hostVars, callVars, commands, workerVars, events, dispVars, statusVars>>

States      == {"Stopped", "Starting", "Blocked", "Running", "Paused"}
WorkerEnded == {"done", "failed", "dead"}
WorkerPcs   == WorkerEnded \cup {"absent", "decide", "ticking", "poll", "waiting", "drain"}
CallerPcs   == {"idle", "starting", "opened", "awaitAck", "acked", "emit",
                "sendShutdown", "join", "joinDispatcher", "storeStopped", "emitStopped",
                "returned"}
Commands    == {"pause", "resume", "shutdown"}   \* SetPaused{true}, {false}, Shutdown
PauseCmd(b) == IF b THEN "pause" ELSE "resume"

TypeOK ==
    /\ up \in BOOLEAN /\ instanceLock \in BOOLEAN /\ lifecycle \in BOOLEAN
    /\ shellLock \in {"main", "timer", NoOne}
    /\ pc \in [Callers -> CallerPcs]
    /\ wanted \in BOOLEAN /\ told \in BOOLEAN
    /\ commands \in Seq(Commands) /\ Len(commands) <= 1
    /\ worker \in WorkerPcs /\ paused \in BOOLEAN
    /\ events \in 0..EventCapacity
    /\ dispatcher \in {"absent", "recv", "read", "store", "emit", "done"}
    /\ isPaused \in BOOLEAN
    /\ status \in States /\ shown \in States

Init ==
    /\ up = TRUE /\ instanceLock = FALSE /\ lifecycle = FALSE /\ shellLock = NoOne
    /\ pc = [c \in Callers |-> "idle"]
    /\ wanted = FALSE /\ told = FALSE
    /\ commands = <<>>
    /\ worker = "absent" /\ paused = FALSE
    /\ events = 0
    /\ dispatcher = "absent" /\ isPaused = FALSE
    /\ status = "Stopped" /\ shown = "Stopped"

Goto(c, p) == pc' = [pc EXCEPT ![c] = p]

-----------------------------------------------------------------------------
(* ShellCaptureState::start and CaptureLifecycle::start, on the main thread *)

\* InstanceLock::acquire: a lock that is held, by this process too, refuses the start.
AcquireLock == ~instanceLock /\ instanceLock' = TRUE

StartCapture ==
    /\ pc["main"] = "idle" /\ shellLock = NoOne
    /\ ~lifecycle /\ AcquireLock
    /\ status' = "Starting" /\ shown' = "Starting"
    /\ Goto("main", "starting")
    /\ UNCHANGED <<up, lifecycle, shellLock, wanted, told, commands, workerVars,
                   events, dispVars>>

OpenFails ==
    /\ pc["main"] = "starting"
    /\ status' = "Blocked" /\ shown' = "Blocked"
    /\ Goto("main", "idle")
    /\ UNCHANGED <<hostVars, wanted, told, commands, workerVars, events, dispVars>>

\* The worker ticks as soon as its scheduler is open.
OpenSucceeds ==
    /\ pc["main"] = "starting"
    /\ worker' = "decide" /\ paused' = FALSE
    /\ Goto("main", "opened")
    /\ UNCHANGED <<hostVars, wanted, told, commands, events, dispVars, statusVars>>

PublishRunning ==
    /\ pc["main"] = "opened" /\ shellLock = NoOne
    /\ status' = "Running" /\ shown' = "Running"
    /\ dispatcher' = "recv"
    /\ lifecycle' = TRUE
    /\ Goto("main", "idle")
    /\ UNCHANGED <<up, instanceLock, shellLock, wanted, told, commands, workerVars,
                   events, isPaused>>

-----------------------------------------------------------------------------
(* set_paused: UI command or tray toggle, on the main thread.               *)

\* Regression: the call returns without waiting for the acknowledgement.
SetPausedNoAck(b) ==
    /\ pc["main"] = "idle" /\ shellLock = NoOne
    /\ lifecycle /\ worker \notin WorkerEnded
    /\ shellLock' = "main"
    /\ wanted' = b /\ told' = b
    /\ commands' = Append(commands, PauseCmd(b))
    /\ Goto("main", "acked")
    /\ UNCHANGED <<up, instanceLock, lifecycle, workerVars, events, dispVars, statusVars>>

\* The call keeps the shell's mutex to its end.
SetPaused(b) ==
    /\ pc["main"] = "idle" /\ shellLock = NoOne
    /\ lifecycle /\ worker \notin WorkerEnded
    /\ shellLock' = "main"
    /\ wanted' = b
    /\ commands' = Append(commands, PauseCmd(b))
    /\ told' = FALSE
    /\ Goto("main", "awaitAck")
    /\ UNCHANGED <<up, instanceLock, lifecycle, workerVars, events, dispVars, statusVars>>

\* Regression: a clone of the acknowledgement's sender outlives the worker.
AckNeverLost ==
    /\ pc["main"] = "awaitAck" /\ worker \in WorkerEnded
    /\ UNCHANGED vars

\* The worker ended with the command unanswered: Unavailable.
AckLost ==
    /\ pc["main"] = "awaitAck" /\ worker \in WorkerEnded
    /\ shellLock' = NoOne
    /\ Goto("main", "idle")
    /\ UNCHANGED <<up, instanceLock, lifecycle, wanted, told, commands, workerVars,
                   events, dispVars, statusVars>>

StorePaused ==
    /\ pc["main"] = "acked"
    /\ status' = IF wanted THEN "Paused" ELSE "Running"
    /\ Goto("main", "emit")
    /\ UNCHANGED <<hostVars, wanted, told, commands, workerVars, events, dispVars, shown>>

EmitPaused ==
    /\ pc["main"] = "emit"
    /\ shown' = IF wanted THEN "Paused" ELSE "Running"
    /\ shellLock' = NoOne
    /\ Goto("main", "idle")
    /\ UNCHANGED <<up, instanceLock, lifecycle, wanted, told, commands, workerVars,
                   events, dispVars, status>>

-----------------------------------------------------------------------------
(* shutdown, by the exit path of main or by the timer thread.               *)

MayStop(c) == c = "main" \/ instanceLock

\* `take` ends the mutex's scope: a second caller finds nothing to stop.
TakeLifecycle(c) ==
    /\ pc[c] = "idle" /\ shellLock = NoOne /\ MayStop(c)
    /\ c = "timer" => pc["main"] \notin {"starting", "opened"}
    /\ lifecycle' = FALSE
    /\ Goto(c, IF lifecycle THEN "sendShutdown" ELSE "returned")
    /\ UNCHANGED <<up, instanceLock, shellLock, wanted, told, commands, workerVars,
                   events, dispVars, statusVars>>

\* Regressions: shutdown does not wait for the worker, or for the dispatcher.
SendWithoutJoin(c) ==
    /\ pc[c] = "sendShutdown"
    /\ commands' = IF worker \in WorkerEnded THEN commands ELSE Append(commands, "shutdown")
    /\ Goto(c, "returned")
    /\ UNCHANGED <<hostVars, wanted, told, workerVars, events, dispVars, statusVars>>
JoinWorkerOnly(c) ==
    /\ pc[c] = "join" /\ worker \in WorkerEnded
    /\ Goto(c, IF worker = "done" THEN "storeStopped" ELSE "returned")
    /\ UNCHANGED <<hostVars, wanted, told, commands, workerVars, events, dispVars, statusVars>>

SendShutdown(c) ==
    /\ pc[c] = "sendShutdown"
    /\ commands' = IF worker \in WorkerEnded THEN commands ELSE Append(commands, "shutdown")
    /\ Goto(c, "join")
    /\ UNCHANGED <<hostVars, wanted, told, workerVars, events, dispVars, statusVars>>

\* A failed drain or a panic leaves shutdown by `?`.
JoinWorker(c) ==
    /\ pc[c] = "join" /\ worker \in WorkerEnded
    /\ Goto(c, IF worker = "done" THEN "joinDispatcher" ELSE "returned")
    /\ UNCHANGED <<hostVars, wanted, told, commands, workerVars, events, dispVars, statusVars>>

JoinDispatcher(c) ==
    /\ pc[c] = "joinDispatcher" /\ dispatcher = "done"
    /\ Goto(c, "storeStopped")
    /\ UNCHANGED <<hostVars, wanted, told, commands, workerVars, events, dispVars, statusVars>>

StoreStopped(c) ==
    /\ pc[c] = "storeStopped"
    /\ status' = "Stopped"
    /\ Goto(c, "emitStopped")
    /\ UNCHANGED <<hostVars, wanted, told, commands, workerVars, events, dispVars, shown>>

EmitStopped(c) ==
    /\ pc[c] = "emitStopped"
    /\ shown' = "Stopped"
    /\ Goto(c, "returned")
    /\ UNCHANGED <<hostVars, wanted, told, commands, workerVars, events, dispVars, status>>

\* ExitRequested: the process goes when main's shutdown has returned.
Exit ==
    /\ pc["main"] = "returned"
    /\ up' = FALSE
    /\ UNCHANGED <<instanceLock, lifecycle, shellLock, callVars, commands, workerVars,
                   events, dispVars, statusVars>>

-----------------------------------------------------------------------------
(* run_capture_loop.                                                        *)

\* apply_command; the acknowledgement is a rendezvous with the caller.
ApplyCommand ==
    /\ commands # <<>>
    /\ commands' = Tail(commands)
    /\ IF Head(commands) = "shutdown"
       THEN worker' = "drain" /\ UNCHANGED <<paused, pc, told>>
       ELSE /\ worker' = "decide"
            /\ paused' = (Head(commands) = "pause")
            /\ told' = paused'
            /\ Goto("main", "acked")
    /\ UNCHANGED <<hostVars, wanted, events, dispVars, statusVars>>

\* The sampling policy chooses between a capture and a wait.
Decide ==
    /\ worker = "decide" /\ ~paused
    /\ worker' \in {"ticking", "waiting"}
    /\ UNCHANGED <<hostVars, callVars, commands, paused, events, dispVars, statusVars>>

\* Regression: a blocking send into a buffer without a cap.
FinishTickUnbounded ==
    /\ worker = "ticking"
    /\ worker' = "poll"
    /\ events' = events + 1
    /\ UNCHANGED <<hostVars, callVars, commands, paused, dispVars, statusVars>>

\* try_send: a full buffer drops the event.
FinishTick ==
    /\ worker = "ticking"
    /\ worker' = "poll"
    /\ events' = IF events < EventCapacity THEN events + 1 ELSE events
    /\ UNCHANGED <<hostVars, callVars, commands, paused, dispVars, statusVars>>

Panic ==
    /\ MayPanic /\ worker = "ticking"
    /\ worker' = "dead"
    /\ UNCHANGED <<hostVars, callVars, commands, paused, events, dispVars, statusVars>>

\* Regression: a paused worker waits for a resume only.
PausedTakesResumeOnly ==
    /\ \/ worker \in {"poll", "waiting"}
       \/ worker = "decide" /\ paused /\ commands # <<>> /\ Head(commands) # "shutdown"
    /\ ApplyCommand

\* try_recv after a tick, recv_timeout while waiting, recv while paused.
TakeCommand ==
    /\ worker \in {"poll", "waiting"} \/ (worker = "decide" /\ paused)
    /\ ApplyCommand

NoCommand ==
    /\ worker \in {"poll", "waiting"}
    /\ commands = <<>>
    /\ worker' = "decide"
    /\ UNCHANGED <<hostVars, callVars, commands, paused, events, dispVars, statusVars>>

\* finish: flush_on_shutdown drains every pending batch, or fails.
Finish ==
    /\ worker = "drain"
    /\ worker' \in {"done", "failed"}
    /\ UNCHANGED <<hostVars, callVars, commands, paused, events, dispVars, statusVars>>

-----------------------------------------------------------------------------
(* The status dispatcher.                                                   *)

ReceiveEvent ==
    /\ dispatcher = "recv" /\ events > 0
    /\ events' = events - 1
    /\ dispatcher' = "read"
    /\ UNCHANGED <<hostVars, callVars, commands, workerVars, isPaused, statusVars>>

\* The lock is released between this read and the publication.
ReadStatus ==
    /\ dispatcher = "read"
    /\ isPaused' = (status = "Paused")
    /\ dispatcher' = "store"
    /\ UNCHANGED <<hostVars, callVars, commands, workerVars, events, statusVars>>

StoreEvent ==
    /\ dispatcher = "store"
    /\ status' = IF isPaused THEN "Paused" ELSE "Running"
    /\ dispatcher' = "emit"
    /\ UNCHANGED <<hostVars, callVars, commands, workerVars, events, isPaused, shown>>

EmitEvent ==
    /\ dispatcher = "emit"
    /\ shown' = IF isPaused THEN "Paused" ELSE "Running"
    /\ dispatcher' = "recv"
    /\ UNCHANGED <<hostVars, callVars, commands, workerVars, events, isPaused, status>>

\* The worker's end drops event_tx; what is buffered is delivered first.
DispatcherEnds ==
    /\ dispatcher = "recv" /\ events = 0 /\ worker \in WorkerEnded
    /\ dispatcher' = "done"
    /\ UNCHANGED <<hostVars, callVars, commands, workerVars, events, isPaused, statusVars>>

-----------------------------------------------------------------------------
StartStep      == OpenFails \/ OpenSucceeds \/ PublishRunning
PauseStep      == AckLost \/ StorePaused \/ EmitPaused
StopStep(c)    == \/ SendShutdown(c) \/ JoinWorker(c) \/ JoinDispatcher(c)
                  \/ StoreStopped(c) \/ EmitStopped(c)
WorkerStep     == Decide \/ FinishTick \/ Panic \/ TakeCommand \/ NoCommand \/ Finish
DispatcherStep == ReceiveEvent \/ ReadStatus \/ StoreEvent \/ EmitEvent \/ DispatcherEnds

Next ==
    /\ up
    /\ \/ StartCapture \/ StartStep
       \/ \E b \in BOOLEAN : SetPaused(b)
       \/ PauseStep
       \/ \E c \in Callers : TakeLifecycle(c) \/ StopStep(c)
       \/ Exit
       \/ WorkerStep
       \/ DispatcherStep

Spec == Init /\ [][Next]_vars

\* Every thread that can run does; nobody is bound to call anything.
FairSpec ==
    /\ Spec
    /\ WF_vars(up /\ WorkerStep)
    /\ WF_vars(up /\ DispatcherStep)
    /\ WF_vars(up /\ (StartStep \/ PauseStep \/ Exit \/ StopStep("main")))
    /\ Timer => WF_vars(up /\ StopStep("timer"))

-----------------------------------------------------------------------------
(* Properties                                                               *)

\* Once set_paused(true) has been acknowledged no capture begins until the
\* owner asks to resume (capture_worker.rs: the command is acknowledged only
\* after the worker has observed it).
PauseIsObeyed == [][worker # "ticking" /\ worker' = "ticking" => ~told]_vars

\* "Stopped" is the last status of the process: no event still in the channel
\* or in the dispatcher's hands overwrites it.
StoppedIsFinal ==
    [][instanceLock /\ shown = "Stopped" => shown' = "Stopped" /\ status' = "Stopped"]_vars

\* The process does not go before the worker has drained, or failed to
\* (capture_lifecycle.rs: performs the mandatory drain before the app exits),
\* with one exception: while the timer's own shutdown waits for the worker, a
\* Quit finds no lifecycle and exits over it.
TimerWaits == Timer /\ pc["timer"] \in {"sendShutdown", "join"}
DrainBeforeExit == ~up => worker \in WorkerEnded \cup {"absent"} \/ TimerWaits

\* A pause or resume request is answered, even when the worker ends meanwhile.
ControlReturns == pc["main"] = "awaitAck" ~> pc["main"] # "awaitAck"

\* A shutdown that took the lifecycle returns: worker drained or failed,
\* dispatcher gone; or the other thread's exit ended the process first.
StopReturns ==
    \A c \in Callers : pc[c] = "sendShutdown" ~> (pc[c] = "returned" \/ ~up)

\* With every event delivered and no call in progress, a caller can truthfully
\* present the paused state: captures do not go on under it
\* (capture_worker.rs:85: acknowledged only after the worker observed it).
Settled == /\ \A c \in Callers : pc[c] = "idle"
           /\ dispatcher = "recv" /\ events = 0
PausedShownMeansPaused ==
    [][Settled /\ worker # "ticking" /\ worker' = "ticking"
        => ~(status = "Paused" /\ shown = "Paused")]_vars
=============================================================================
