----------------------- MODULE CaptureLifecycleProofs -----------------------
(***************************************************************************)
(* Proofs about CaptureLifecycle, for every event capacity, with and       *)
(* without the timer thread and panics.                                    *)
(***************************************************************************)
EXTENDS CaptureLifecycle, SequenceTheorems, TLAPS

PausePcs == {"awaitAck", "acked", "emit"}
StopPcs  == {"sendShutdown", "join", "joinDispatcher", "storeStopped", "emitStopped"}

\* Before the instance lock is taken nothing has been started.
NothingBeforeLock ==
    ~instanceLock => /\ ~lifecycle /\ worker = "absent" /\ dispatcher = "absent"
                     /\ pc["main"] \in {"idle", "returned"}
                     /\ (Timer => pc["timer"] = "idle")

\* While main starts the worker no other thread is at work.
StartIsExclusive ==
    /\ pc["main"] \in {"starting", "opened"} =>
         /\ instanceLock /\ ~lifecycle /\ dispatcher = "absent"
         /\ (Timer => pc["timer"] = "idle")
    /\ pc["main"] = "starting" => worker = "absent"
    /\ pc["main"] = "opened" => worker # "absent"

\* A pause call holds the mutex around a live lifecycle to its end.
PauseHoldsLock ==
    pc["main"] \in PausePcs <=> shellLock = "main"
PauseNeedsLifecycle ==
    pc["main"] \in PausePcs => lifecycle /\ worker # "absent"

\* A lifecycle in the mutex has not been stopped.
LifecycleIsLive ==
    lifecycle => /\ worker # "absent" /\ instanceLock
                 /\ \A c \in Callers : pc[c] \notin StopPcs

\* Only one thread stops the worker.
OneStopper ==
    \A c \in Callers, d \in Callers : pc[c] \in StopPcs /\ pc[d] \in StopPcs => c = d

StopNeedsWorker ==
    \A c \in Callers : pc[c] \in StopPcs => instanceLock /\ worker # "absent"

\* A live worker has at most the command of the call in progress.
CommandHasCaller ==
    (commands # <<>> /\ worker \notin WorkerEnded) =>
        \/ /\ pc["main"] = "awaitAck" /\ commands = <<PauseCmd(wanted)>>
        \/ /\ \E c \in Callers : pc[c] = "join"
           /\ commands = <<"shutdown">>

\* What the caller was told last, the worker's flag says.
ToldIsTrue == /\ told => paused
              /\ worker = "absent" => ~told /\ commands = <<>>

CoreInv == /\ NothingBeforeLock /\ StartIsExclusive /\ PauseHoldsLock
           /\ PauseNeedsLifecycle /\ LifecycleIsLive /\ OneStopper
           /\ StopNeedsWorker /\ CommandHasCaller /\ ToldIsTrue

\* The dispatcher ends after the worker, and a clean stop waits for both.
DispatcherOutlivesWorker ==
    dispatcher = "done" => worker \in WorkerEnded /\ events = 0
StopOrder ==
    \A c \in Callers :
        /\ pc[c] \in {"storeStopped", "emitStopped"} => dispatcher = "done"
        /\ pc[c] \in {"joinDispatcher", "storeStopped", "emitStopped"} => worker = "done"
        /\ pc[c] = "emitStopped" => status = "Stopped"
StoppedIsQuiet ==
    instanceLock /\ shown = "Stopped" =>
        /\ status = "Stopped" /\ dispatcher = "done" /\ ~lifecycle
        /\ pc["main"] \notin {"starting", "opened"}
        /\ \A c \in Callers : pc[c] \notin StopPcs

\* A worker out of the mutex has not begun, has ended, or has its stopper waiting.
ReturnedMeansEnded ==
    (~lifecycle /\ pc["main"] \in {"idle", "returned"})
        => worker \in WorkerEnded \cup {"absent"} \/ TimerWaits
DownMeansReturned ==
    /\ ~up => pc["main"] = "returned"
    /\ pc["main"] = "returned" => ~lifecycle

StopInv == /\ DispatcherOutlivesWorker /\ StopOrder /\ StoppedIsQuiet
           /\ ReturnedMeansEnded /\ DownMeansReturned

IInv == TypeOK /\ CoreInv /\ StopInv

-----------------------------------------------------------------------------
\* Each step keeps the types.
LEMMA TypeStep ==
    ASSUME TypeOK, CoreInv, [Next]_vars
    PROVE  TypeOK'
<1> USE LifecycleAssumption DEF TypeOK, Goto, hostVars, callVars, workerVars, dispVars, statusVars, Callers, NoOne, CallerPcs, States, WorkerPcs, WorkerEnded, Commands
<1>1. CASE StartCapture
  BY <1>1 DEF StartCapture, AcquireLock
<1>2. CASE OpenFails
  BY <1>2 DEF OpenFails
<1>3. CASE OpenSucceeds
  <2>1. paused' \in BOOLEAN
    BY <1>3 DEF OpenSucceeds
  <2>2. pc' \in [Callers -> CallerPcs] /\ worker' \in WorkerPcs
    BY <1>3 DEF OpenSucceeds
  <2>3. UNCHANGED <<hostVars, wanted, told, commands, events, dispVars, statusVars>>
    BY <1>3 DEF OpenSucceeds
  <2>4. QED
    BY <2>1, <2>2, <2>3
<1>4. CASE PublishRunning
  BY <1>4 DEF PublishRunning
<1>5. ASSUME NEW b \in BOOLEAN, SetPaused(b) PROVE TypeOK'
  <2>1. commands = <<>>
    BY <1>5 DEF SetPaused, CoreInv, CommandHasCaller, LifecycleIsLive, StopPcs
  <2>2. commands' = <<PauseCmd(b)>> /\ PauseCmd(b) \in Commands
    BY <1>5, <2>1 DEF SetPaused, PauseCmd
  <2>3. commands' \in Seq(Commands) /\ Len(commands') <= 1
    BY <2>2
  <2>4. wanted' \in BOOLEAN
    BY <1>5 DEF SetPaused
  <2>5. told' \in BOOLEAN
    BY <1>5 DEF SetPaused
  <2>6. pc' \in [Callers -> CallerPcs] /\ shellLock' = "main"
    BY <1>5 DEF SetPaused
  <2>7. UNCHANGED <<up, instanceLock, lifecycle, workerVars, events, dispVars, statusVars>>
    BY <1>5 DEF SetPaused
  <2>8. QED
    BY <2>3, <2>4, <2>5, <2>6, <2>7
<1>6. CASE AckLost
  BY <1>6 DEF AckLost
<1>7. CASE StorePaused
  BY <1>7 DEF StorePaused
<1>8. CASE EmitPaused
  BY <1>8 DEF EmitPaused
<1>9. ASSUME NEW c \in Callers, TakeLifecycle(c) PROVE TypeOK'
  <2>1. lifecycle' \in BOOLEAN
    BY <1>9 DEF TakeLifecycle
  <2>2. pc' \in [Callers -> CallerPcs]
    BY <1>9 DEF TakeLifecycle
  <2>3. UNCHANGED <<up, instanceLock, shellLock, wanted, told, commands, workerVars,
                    events, dispVars, statusVars>>
    BY <1>9 DEF TakeLifecycle
  <2>4. QED
    BY <2>1, <2>2, <2>3
<1>10. ASSUME NEW c \in Callers, SendShutdown(c) PROVE TypeOK'
  <2>1. CASE worker \in WorkerEnded
    BY <1>10, <2>1 DEF SendShutdown
  <2>2. CASE worker \notin WorkerEnded
    <3>1. commands = <<>>
      BY <1>10, <2>2 DEF SendShutdown, CoreInv, CommandHasCaller, PauseNeedsLifecycle,
         LifecycleIsLive, OneStopper, PausePcs, StopPcs
    <3>2. commands' = <<"shutdown">>
      BY <1>10, <2>2, <3>1 DEF SendShutdown
    <3>3. commands' \in Seq(Commands) /\ Len(commands') <= 1
      BY <3>2
    <3>4. pc' \in [Callers -> CallerPcs]
      BY <1>10 DEF SendShutdown
    <3>5. UNCHANGED <<hostVars, wanted, told, workerVars, events, dispVars, statusVars>>
      BY <1>10 DEF SendShutdown
    <3>6. QED
      BY <3>3, <3>4, <3>5
  <2>3. QED
    BY <2>1, <2>2
<1>11. ASSUME NEW c \in Callers, JoinWorker(c) PROVE TypeOK'
  BY <1>11 DEF JoinWorker
<1>12. ASSUME NEW c \in Callers, JoinDispatcher(c) PROVE TypeOK'
  BY <1>12 DEF JoinDispatcher
<1>13. ASSUME NEW c \in Callers, StoreStopped(c) PROVE TypeOK'
  BY <1>13 DEF StoreStopped
<1>14. ASSUME NEW c \in Callers, EmitStopped(c) PROVE TypeOK'
  BY <1>14 DEF EmitStopped
<1>15. CASE Exit
  <2>1. up' \in BOOLEAN
    BY <1>15 DEF Exit
  <2>2. UNCHANGED <<instanceLock, lifecycle, shellLock, callVars, commands,
                    workerVars, events, dispVars, statusVars>>
    BY <1>15 DEF Exit
  <2>3. QED
    BY <2>1, <2>2
<1>16. CASE Decide
  BY <1>16 DEF Decide
<1>17. CASE FinishTick
  BY <1>17 DEF FinishTick
<1>18. CASE Panic
  BY <1>18 DEF Panic
<1>19. CASE TakeCommand
  <2>1. commands # <<>> /\ commands' = Tail(commands)
    BY <1>19 DEF TakeCommand, ApplyCommand
  <2>2. commands' \in Seq(Commands) /\ Len(commands') <= 1
    BY <2>1
  <2>3. UNCHANGED <<hostVars, wanted, events, dispVars, statusVars>>
    BY <1>19 DEF TakeCommand, ApplyCommand
  <2>4. paused' \in BOOLEAN
    BY <1>19 DEF TakeCommand, ApplyCommand
  <2>5. told' \in BOOLEAN
    BY <1>19, <2>4 DEF TakeCommand, ApplyCommand
  <2>6. pc' \in [Callers -> CallerPcs] /\ worker' \in WorkerPcs
    BY <1>19 DEF TakeCommand, ApplyCommand
  <2>7. QED
    BY <2>2, <2>3, <2>4, <2>5, <2>6
<1>20. CASE NoCommand
  BY <1>20 DEF NoCommand
<1>21. CASE Finish
  BY <1>21 DEF Finish
<1>22. CASE ReceiveEvent
  BY <1>22 DEF ReceiveEvent
<1>23. CASE ReadStatus
  BY <1>23 DEF ReadStatus
<1>24. CASE StoreEvent
  BY <1>24 DEF StoreEvent
<1>25. CASE EmitEvent
  BY <1>25 DEF EmitEvent
<1>26. CASE DispatcherEnds
  BY <1>26 DEF DispatcherEnds
<1>27. CASE UNCHANGED vars
  BY <1>27 DEF vars
<1>28. QED
  BY <1>1, <1>2, <1>3, <1>4, <1>5, <1>6, <1>7, <1>8, <1>9, <1>10, <1>11, <1>12,
     <1>13, <1>14, <1>15, <1>16, <1>17, <1>18, <1>19, <1>20, <1>21, <1>22, <1>23,
     <1>24, <1>25, <1>26, <1>27
     DEF Next, StartStep, PauseStep, StopStep, WorkerStep, DispatcherStep

-----------------------------------------------------------------------------
\* Each step keeps the relations between the threads.
LEMMA CoreStep ==
    ASSUME TypeOK, CoreInv, [Next]_vars
    PROVE  CoreInv'
<1> USE LifecycleAssumption DEF TypeOK, CoreInv, NothingBeforeLock, StartIsExclusive, PauseHoldsLock,
              PauseNeedsLifecycle, LifecycleIsLive, OneStopper, StopNeedsWorker, CommandHasCaller,
              ToldIsTrue,
              PausePcs, StopPcs, WorkerEnded, Goto, hostVars, callVars, workerVars, dispVars, statusVars, Callers, NoOne, CallerPcs
<1>1. CASE StartCapture
  BY <1>1 DEF StartCapture, AcquireLock
<1>2. CASE OpenFails
  BY <1>2 DEF OpenFails
<1>3. CASE OpenSucceeds
  BY <1>3 DEF OpenSucceeds
<1>4. CASE PublishRunning
  BY <1>4 DEF PublishRunning
<1>5. ASSUME NEW b \in BOOLEAN, SetPaused(b) PROVE CoreInv'
  <2>1. commands = <<>>
    BY <1>5 DEF SetPaused
  <2>2. commands' = <<PauseCmd(b)>> /\ wanted' = b /\ pc'["main"] = "awaitAck"
    BY <1>5, <2>1 DEF SetPaused
  <2>3. CommandHasCaller'
    BY <2>2
  <2>4. ToldIsTrue'
    BY <1>5 DEF SetPaused
  <2>5. (PauseHoldsLock /\ PauseNeedsLifecycle)'
    BY <1>5 DEF SetPaused
  <2>6. (NothingBeforeLock /\ StartIsExclusive /\ LifecycleIsLive /\ OneStopper /\ StopNeedsWorker)'
    BY <1>5 DEF SetPaused
  <2>7. QED
    BY <2>3, <2>4, <2>5, <2>6
<1>6. CASE AckLost
  BY <1>6 DEF AckLost
<1>7. CASE StorePaused
  BY <1>7 DEF StorePaused
<1>8. CASE EmitPaused
  BY <1>8 DEF EmitPaused
<1>9. ASSUME NEW c \in Callers, TakeLifecycle(c) PROVE CoreInv'
  BY <1>9 DEF TakeLifecycle, MayStop
<1>10. ASSUME NEW c \in Callers, SendShutdown(c) PROVE CoreInv'
  <2>1. ~lifecycle /\ worker # "absent" /\ pc["main"] \notin PausePcs
    BY <1>10 DEF SendShutdown
  <2>2. worker \notin WorkerEnded => commands = <<>>
    BY <1>10, <2>1 DEF SendShutdown
  <2>3. worker \notin WorkerEnded => commands' = <<"shutdown">>
    BY <1>10, <2>2 DEF SendShutdown
  <2>4. pc'[c] = "join" /\ UNCHANGED <<hostVars, wanted, told, workerVars, dispVars>>
    BY <1>10 DEF SendShutdown
  <2>5. CommandHasCaller'
    BY <2>3, <2>4
  <2>6. ToldIsTrue'
    BY <2>1, <2>4
  <2>7. (PauseHoldsLock /\ PauseNeedsLifecycle)'
    BY <1>10, <2>1 DEF SendShutdown
  <2>8. (NothingBeforeLock /\ StartIsExclusive /\ LifecycleIsLive /\ OneStopper /\ StopNeedsWorker)'
    BY <1>10 DEF SendShutdown
  <2>9. QED
    BY <2>5, <2>6, <2>7, <2>8
<1>11. ASSUME NEW c \in Callers, JoinWorker(c) PROVE CoreInv'
  BY <1>11 DEF JoinWorker
<1>12. ASSUME NEW c \in Callers, JoinDispatcher(c) PROVE CoreInv'
  BY <1>12 DEF JoinDispatcher
<1>13. ASSUME NEW c \in Callers, StoreStopped(c) PROVE CoreInv'
  BY <1>13 DEF StoreStopped
<1>14. ASSUME NEW c \in Callers, EmitStopped(c) PROVE CoreInv'
  BY <1>14 DEF EmitStopped
<1>15. CASE Exit
  BY <1>15 DEF Exit
<1>16. CASE Decide
  BY <1>16 DEF Decide
<1>17. CASE FinishTick
  BY <1>17 DEF FinishTick
<1>18. CASE Panic
  BY <1>18 DEF Panic
<1>19. CASE TakeCommand
  BY <1>19 DEF TakeCommand, ApplyCommand
<1>20. CASE NoCommand
  BY <1>20 DEF NoCommand
<1>21. CASE Finish
  BY <1>21 DEF Finish
<1>22. CASE ReceiveEvent
  BY <1>22 DEF ReceiveEvent
<1>23. CASE ReadStatus
  BY <1>23 DEF ReadStatus
<1>24. CASE StoreEvent
  BY <1>24 DEF StoreEvent
<1>25. CASE EmitEvent
  BY <1>25 DEF EmitEvent
<1>26. CASE DispatcherEnds
  BY <1>26 DEF DispatcherEnds
<1>27. CASE UNCHANGED vars
  BY <1>27 DEF vars
<1>28. QED
  BY <1>1, <1>2, <1>3, <1>4, <1>5, <1>6, <1>7, <1>8, <1>9, <1>10, <1>11, <1>12,
     <1>13, <1>14, <1>15, <1>16, <1>17, <1>18, <1>19, <1>20, <1>21, <1>22, <1>23,
     <1>24, <1>25, <1>26, <1>27
     DEF Next, StartStep, PauseStep, StopStep, WorkerStep, DispatcherStep

-----------------------------------------------------------------------------
\* Each step keeps the order in which a stop ends the threads.
LEMMA StopStepInv ==
    ASSUME TypeOK, CoreInv, StopInv, [Next]_vars
    PROVE  StopInv'
<1> USE LifecycleAssumption DEF TypeOK, CoreInv, NothingBeforeLock, StartIsExclusive, PauseHoldsLock,
              PauseNeedsLifecycle, LifecycleIsLive, OneStopper, StopNeedsWorker, StopInv, DispatcherOutlivesWorker,
              StopOrder, StoppedIsQuiet, ReturnedMeansEnded, TimerWaits, DownMeansReturned,
              PausePcs, StopPcs, WorkerEnded, Goto, hostVars, callVars, workerVars, dispVars, statusVars, Callers, NoOne, CallerPcs
<1>1. CASE StartCapture
  BY <1>1 DEF StartCapture, AcquireLock
<1>2. CASE OpenFails
  BY <1>2 DEF OpenFails
<1>3. CASE OpenSucceeds
  BY <1>3 DEF OpenSucceeds
<1>4. CASE PublishRunning
  BY <1>4 DEF PublishRunning
<1>5. ASSUME NEW b \in BOOLEAN, SetPaused(b) PROVE StopInv'
  BY <1>5 DEF SetPaused
<1>6. CASE AckLost
  BY <1>6 DEF AckLost
<1>7. CASE StorePaused
  BY <1>7 DEF StorePaused
<1>8. CASE EmitPaused
  BY <1>8 DEF EmitPaused
<1>9. ASSUME NEW c \in Callers, TakeLifecycle(c) PROVE StopInv'
  BY <1>9 DEF TakeLifecycle, MayStop
<1>10. ASSUME NEW c \in Callers, SendShutdown(c) PROVE StopInv'
  BY <1>10 DEF SendShutdown
<1>11. ASSUME NEW c \in Callers, JoinWorker(c) PROVE StopInv'
  BY <1>11 DEF JoinWorker
<1>12. ASSUME NEW c \in Callers, JoinDispatcher(c) PROVE StopInv'
  BY <1>12 DEF JoinDispatcher
<1>13. ASSUME NEW c \in Callers, StoreStopped(c) PROVE StopInv'
  BY <1>13 DEF StoreStopped
<1>14. ASSUME NEW c \in Callers, EmitStopped(c) PROVE StopInv'
  BY <1>14 DEF EmitStopped
<1>15. CASE Exit
  BY <1>15 DEF Exit
<1>16. CASE Decide
  BY <1>16 DEF Decide
<1>17. CASE FinishTick
  BY <1>17 DEF FinishTick
<1>18. CASE Panic
  BY <1>18 DEF Panic
<1>19. CASE TakeCommand
  <2>1. worker \notin WorkerEnded \cup {"absent"} /\ UNCHANGED <<hostVars, events, dispVars, statusVars>>
    BY <1>19 DEF TakeCommand, ApplyCommand
  <2>2. pc' = pc \/ pc' = [pc EXCEPT !["main"] = "acked"]
    BY <1>19 DEF TakeCommand, ApplyCommand
  <2>3. dispatcher # "done" /\ \A c \in Callers :
          pc[c] \notin {"joinDispatcher", "storeStopped", "emitStopped"}
    BY <2>1
  <2>4. worker' # "absent"
    BY <1>19 DEF TakeCommand, ApplyCommand
  <2>5. pc' # pc => pc["main"] = "awaitAck"
    BY <1>19, <2>1 DEF TakeCommand, ApplyCommand, CommandHasCaller, PauseCmd
  <2>6. QED
    BY <2>1, <2>2, <2>3, <2>4, <2>5
<1>20. CASE NoCommand
  BY <1>20 DEF NoCommand
<1>21. CASE Finish
  BY <1>21 DEF Finish
<1>22. CASE ReceiveEvent
  BY <1>22 DEF ReceiveEvent
<1>23. CASE ReadStatus
  BY <1>23 DEF ReadStatus
<1>24. CASE StoreEvent
  BY <1>24 DEF StoreEvent
<1>25. CASE EmitEvent
  BY <1>25 DEF EmitEvent
<1>26. CASE DispatcherEnds
  BY <1>26 DEF DispatcherEnds
<1>27. CASE UNCHANGED vars
  BY <1>27 DEF vars
<1>28. QED
  BY <1>1, <1>2, <1>3, <1>4, <1>5, <1>6, <1>7, <1>8, <1>9, <1>10, <1>11, <1>12,
     <1>13, <1>14, <1>15, <1>16, <1>17, <1>18, <1>19, <1>20, <1>21, <1>22, <1>23,
     <1>24, <1>25, <1>26, <1>27
     DEF Next, StartStep, PauseStep, StopStep, WorkerStep, DispatcherStep

-----------------------------------------------------------------------------
\* The inductive invariant holds in every reachable state.
LEMMA InvariantAlways == Spec => []IInv
<1>1. Init => IInv
  <2> USE LifecycleAssumption DEF Init, Callers
  <2>1. Init => TypeOK
    <3> SUFFICES ASSUME Init PROVE TypeOK
      OBVIOUS
    <3>1. commands \in Seq(Commands) /\ Len(commands) <= 1
      OBVIOUS
    <3>2. pc \in [Callers -> CallerPcs] /\ worker \in WorkerPcs
          /\ status \in States /\ shown \in States /\ events \in 0..EventCapacity
      BY DEF CallerPcs, WorkerPcs, States
    <3>3. up \in BOOLEAN /\ instanceLock \in BOOLEAN /\ lifecycle \in BOOLEAN
          /\ wanted \in BOOLEAN /\ told \in BOOLEAN /\ paused \in BOOLEAN
          /\ isPaused \in BOOLEAN
      BY Zenon
    <3>4. QED
      BY <3>1, <3>2, <3>3 DEF TypeOK
  <2>2. Init => CoreInv
    BY DEF CoreInv, NothingBeforeLock, StartIsExclusive, PauseHoldsLock,
       PauseNeedsLifecycle, LifecycleIsLive, OneStopper, StopNeedsWorker,
       CommandHasCaller, ToldIsTrue, PausePcs, StopPcs, NoOne
  <2>3. Init => StopInv
    BY DEF StopInv, DispatcherOutlivesWorker, StopOrder, StoppedIsQuiet,
       ReturnedMeansEnded, TimerWaits, DownMeansReturned, StopPcs
  <2>4. QED
    BY <2>1, <2>2, <2>3 DEF IInv
<1>2. IInv /\ [Next]_vars => IInv'
  BY TypeStep, CoreStep, StopStepInv DEF IInv
<1>3. QED
  BY <1>1, <1>2, PTL DEF Spec

\* Type correctness; in particular the command channel never holds two
\* commands, so that try_recv once per tick is enough.
THEOREM TypeCorrect == Spec => []TypeOK
<1>1. IInv => TypeOK
  BY DEF IInv
<1>2. QED
  BY <1>1, InvariantAlways, PTL

\* An acknowledged pause is obeyed: no tick begins before a resume is asked for.
THEOREM PauseIsObeyedAlways == Spec => PauseIsObeyed
<1>1. IInv /\ [Next]_vars => (worker # "ticking" /\ worker' = "ticking" => ~told)
  <2> SUFFICES ASSUME IInv, [Next]_vars, worker # "ticking", worker' = "ticking"
               PROVE  ~told
    OBVIOUS
  <2>1. CASE Decide
    BY <2>1 DEF Decide, IInv, CoreInv, ToldIsTrue
  <2>2. CASE ~Decide
    BY <2>2 DEF Next, StartCapture, AcquireLock, StartStep, OpenFails, OpenSucceeds, PublishRunning,
       SetPaused, PauseStep, AckLost, StorePaused, EmitPaused, TakeLifecycle, StopStep,
       SendShutdown, JoinWorker, JoinDispatcher, StoreStopped, EmitStopped, Exit,
       WorkerStep, FinishTick, Panic, TakeCommand, ApplyCommand, NoCommand, Finish,
       DispatcherStep, ReceiveEvent, ReadStatus, StoreEvent, EmitEvent, DispatcherEnds,
       vars, workerVars
  <2>3. QED
    BY <2>1, <2>2
<1>2. QED
  BY <1>1, InvariantAlways, PTL DEF Spec, PauseIsObeyed

\* Nothing is published after "Stopped": shutdown publishes it only when worker
\* and dispatcher have both ended, and no start or pause can follow.
THEOREM StoppedIsFinalAlways == Spec => StoppedIsFinal
<1>1. IInv /\ [Next]_vars
        => (instanceLock /\ shown = "Stopped" => shown' = "Stopped" /\ status' = "Stopped")
  <2> SUFFICES ASSUME IInv, [Next]_vars, instanceLock, shown = "Stopped"
               PROVE  shown' = "Stopped" /\ status' = "Stopped"
    OBVIOUS
  <2>1. /\ status = "Stopped" /\ dispatcher = "done" /\ ~lifecycle
        /\ pc["main"] \notin {"starting", "opened", "acked", "emit"}
    BY DEF IInv, StopInv, StoppedIsQuiet, CoreInv, PauseNeedsLifecycle, PausePcs
  <2>2. QED
    BY <2>1 DEF Next, StartCapture, AcquireLock, StartStep, OpenFails, OpenSucceeds, PublishRunning,
       SetPaused, PauseStep, AckLost, StorePaused, EmitPaused, TakeLifecycle, StopStep,
       SendShutdown, JoinWorker, JoinDispatcher, StoreStopped, EmitStopped, Exit,
       WorkerStep, Decide, FinishTick, Panic, TakeCommand, ApplyCommand, NoCommand, Finish,
       DispatcherStep, ReceiveEvent, ReadStatus, StoreEvent, EmitEvent, DispatcherEnds,
       vars, statusVars
<1>2. QED
  BY <1>1, InvariantAlways, PTL DEF Spec, StoppedIsFinal

\* The process never goes before the drain, unless a timer's shutdown is waiting
\* for it; without the timer thread, never at all.
THEOREM DrainBeforeExitAlways == Spec => []DrainBeforeExit
<1>1. IInv => DrainBeforeExit
  BY DEF IInv, StopInv, DownMeansReturned, ReturnedMeansEnded, DrainBeforeExit
<1>2. QED
  BY <1>1, InvariantAlways, PTL
=============================================================================
