---------------------------- MODULE ModelWorker ----------------------------
(***************************************************************************)
(* The model workers of one process (model_worker.rs): each handle owns a  *)
(* priority queue, a condition variable and one thread that loads the GGUF *)
(* model when a job needs it and unloads it after an idle timeout.         *)
(*                                                                         *)
(* A client submits one job at a time and blocks in recv.  Every access to *)
(* the queue is under its mutex; the shutdown flag and the notifications   *)
(* are not, so they are steps of their own.                                *)
(*                                                                         *)
(* External: LlamaBackend of llama-cpp-2, a token for the process-wide     *)
(* llama.cpp state.  init() fails while another token is alive, and        *)
(* dropping the token gives it back.                                       *)
(***************************************************************************)
EXTENDS Naturals

CONSTANTS Workers,    \* the model worker handles of the process
          Clients,    \* the threads that submit jobs
          WorkerOf,   \* WorkerOf[c]: the handle client c submits to
          PriorityOf, \* PriorityOf[c]: 0 Backfill .. 3 Interactive
          MayPanic    \* TRUE iff the model may panic on the worker thread

NoOne == "noone"

ASSUME WorkersAssumption ==
    /\ WorkerOf \in [Clients -> Workers]
    /\ PriorityOf \in [Clients -> 0..3]
    /\ MayPanic \in BOOLEAN
    /\ NoOne \notin Workers \cup Clients

VARIABLES
    pc,       \* what each client does next
    ahead,    \* ahead[c]: the clients whose waiting jobs have a lower seq than c's
    queue,    \* Shared.queue
    shutdown, \* Shared.shutdown
    worker,   \* what each worker thread does next
    job,      \* the job it popped
    loaded,   \* its model is loaded
    dropping, \* how far the drop of each handle is
    backend   \* who holds the llama.cpp backend

clientVars == <<pc, ahead>>
modelVars  == <<loaded, backend>>
vars == <<clientVars, queue, shutdown, worker, job, modelVars, dropping>>

Of(w)    == {c \in Clients : WorkerOf[c] = w}
Ended    == {"returned", "panicked"}
Awake    == {"top", "check", "look", "init", "file", "run"}

\* Types; a job is in the queue and in the hands of the handle it was submitted to, and
\* no other (model_worker.rs:69: each handle has its own Shared).
TypeOK ==
    /\ pc \in [Clients -> {"idle", "ticket", "notify", "recv"}]
    /\ ahead \in [Clients -> SUBSET Clients]
    /\ queue \in [Workers -> SUBSET Clients] /\ \A w \in Workers : queue[w] \subseteq Of(w)
    /\ shutdown \in [Workers -> BOOLEAN]
    /\ worker \in [Workers -> Awake \cup {"waiting", "woken"} \cup Ended]
    /\ job \in [Workers -> Clients \cup {NoOne}]
    /\ \A w \in Workers : job[w] \in Of(w) \cup {NoOne}
    /\ loaded \in [Workers -> BOOLEAN]
    /\ dropping \in [Workers -> {"no", "notify", "join", "done"}]
    /\ backend \in Workers \cup {NoOne}

Init ==
    /\ pc = [c \in Clients |-> "idle"]
    /\ ahead = [c \in Clients |-> {}]
    /\ queue = [w \in Workers |-> {}]
    /\ shutdown = [w \in Workers |-> FALSE]
    /\ worker = [w \in Workers |-> "top"]
    /\ job = [w \in Workers |-> NoOne]
    /\ loaded = [w \in Workers |-> FALSE]
    /\ dropping = [w \in Workers |-> "no"]
    /\ backend = NoOne

Step(w, from, to) == worker[w] = from /\ worker' = [worker EXCEPT ![w] = to]
Client(c, from, to) == pc[c] = from /\ pc' = [pc EXCEPT ![c] = to]

-----------------------------------------------------------------------------
(* ModelWorkerHandle::submit; a borrow keeps the handle alive throughout   *)

Waiting(c) == pc[c] = "ticket" \/ c \in queue[WorkerOf[c]]

\* seq.fetch_add, before the queue is locked.
Submit(c) ==
    /\ dropping[WorkerOf[c]] = "no"
    /\ Client(c, "idle", "ticket")
    /\ ahead' = [ahead EXCEPT ![c] = {d \in Of(WorkerOf[c]) : Waiting(d)}]
    /\ UNCHANGED <<queue, shutdown, worker, job, modelVars, dropping>>

\* Regression: notifies before it pushes.
PushAfterNotify(c) ==
    /\ worker[WorkerOf[c]] # "look"
    /\ Client(c, "ticket", "recv")
    /\ queue' = [queue EXCEPT ![WorkerOf[c]] = @ \cup {c}]
    /\ UNCHANGED <<ahead, shutdown, worker, job, modelVars, dropping>>

Push(c) ==
    /\ worker[WorkerOf[c]] # "look"      \* the worker holds the mutex there
    /\ Client(c, "ticket", "notify")
    /\ queue' = [queue EXCEPT ![WorkerOf[c]] = @ \cup {c}]
    /\ UNCHANGED <<ahead, shutdown, worker, job, modelVars, dropping>>

Wake(w) == worker' = [worker EXCEPT ![w] = IF @ = "waiting" THEN "woken" ELSE @]

\* The job may be answered before its own notification: recv then returns at once.
Notify(c) ==
    /\ Client(c, "notify", IF c \in queue[WorkerOf[c]] \/ job[WorkerOf[c]] = c
                           THEN "recv" ELSE "idle")
    /\ Wake(WorkerOf[c])
    /\ UNCHANGED <<ahead, queue, shutdown, job, modelVars, dropping>>

-----------------------------------------------------------------------------
(* Drop for ModelWorkerHandle: no client can be inside submit              *)

DropHandle(w) ==
    /\ dropping[w] = "no" /\ \A c \in Of(w) : pc[c] = "idle"
    /\ shutdown' = [shutdown EXCEPT ![w] = TRUE]
    /\ dropping' = [dropping EXCEPT ![w] = "notify"]
    /\ UNCHANGED <<clientVars, queue, worker, job, modelVars>>

NotifyAll(w) ==
    /\ dropping[w] = "notify"
    /\ dropping' = [dropping EXCEPT ![w] = "join"]
    /\ Wake(w)
    /\ UNCHANGED <<clientVars, queue, shutdown, job, modelVars>>

Join(w) ==
    /\ dropping[w] = "join" /\ worker[w] \in Ended
    /\ dropping' = [dropping EXCEPT ![w] = "done"]
    /\ UNCHANGED <<clientVars, queue, shutdown, worker, job, modelVars>>

-----------------------------------------------------------------------------
(* run_worker                                                              *)

\* Dropping the model gives the backend back.
DropModel(w) ==
    /\ loaded' = [loaded EXCEPT ![w] = FALSE]
    /\ backend' = IF backend = w THEN NoOne ELSE backend

\* The flag is read at the head of the loop, and again under the mutex.
ReadShutdown(w) ==
    \/ /\ shutdown[w]
       /\ Step(w, "top", "returned") \/ Step(w, "check", "returned")
       /\ DropModel(w)
       /\ UNCHANGED <<clientVars, queue, shutdown, job, dropping>>
    \/ /\ ~shutdown[w]
       /\ Step(w, "top", "check") \/ Step(w, "check", "look")
       /\ UNCHANGED <<clientVars, queue, shutdown, job, modelVars, dropping>>

\* Regression: the comparison of priorities the wrong way round.
BackfillFirst(c, w) ==
    /\ c \in queue[w]
    /\ \A d \in queue[w] :
          \/ PriorityOf[d] > PriorityOf[c]
          \/ PriorityOf[d] = PriorityOf[c] /\ d \notin ahead[c]

\* The order of Job: priority, then the lower seq.
Best(c, w) ==
    /\ c \in queue[w]
    /\ \A d \in queue[w] :
          \/ PriorityOf[d] < PriorityOf[c]
          \/ PriorityOf[d] = PriorityOf[c] /\ d \notin ahead[c]

Pop(w) == \E c \in Clients :
    /\ IF loaded[w] THEN Step(w, "look", "run") ELSE Step(w, "look", "init")
    /\ Best(c, w)
    /\ job' = [job EXCEPT ![w] = c]
    /\ queue' = [queue EXCEPT ![w] = @ \ {c}]
    /\ ahead' = [d \in Clients |-> ahead[d] \ {c}]
    /\ UNCHANGED <<pc, shutdown, modelVars, dropping>>

\* wait_timeout gives the mutex up and sleeps in one step.
Wait(w) ==
    /\ queue[w] = {}
    /\ Step(w, "look", "waiting")
    /\ UNCHANGED <<clientVars, queue, shutdown, job, modelVars, dropping>>

\* A late notification finds the queue empty, as a spurious wakeup would.
WakesUp(w) ==
    /\ Step(w, "woken", "check")
    /\ UNCHANGED <<clientVars, queue, shutdown, job, modelVars, dropping>>

\* Regression: a timeout that unloads nothing does not end the wait.
TimeoutOnlyToUnload(w) ==
    /\ loaded[w]
    /\ Step(w, "waiting", "check")
    /\ IF queue[w] = {} THEN DropModel(w) ELSE UNCHANGED modelVars
    /\ UNCHANGED <<clientVars, queue, shutdown, job, dropping>>

\* Regression: the timeout keeps the model.
TimeoutKeepsModel(w) ==
    /\ Step(w, "waiting", "check")
    /\ UNCHANGED <<clientVars, queue, shutdown, job, modelVars, dropping>>

Timeout(w) ==
    /\ Step(w, "waiting", "check")
    /\ IF queue[w] = {} THEN DropModel(w) ELSE UNCHANGED modelVars
    /\ UNCHANGED <<clientVars, queue, shutdown, job, dropping>>

\* job.respond: the client returns now if it is in recv, else when it gets there.
Answer(w) ==
    /\ pc' = [c \in Clients |-> IF c = job[w] /\ pc[c] = "recv" THEN "idle" ELSE pc[c]]
    /\ job' = [job EXCEPT ![w] = NoOne]

\* GgufEmbedder::load, first half: LlamaBackend::init.
InitBackend(w) ==
    \/ /\ backend = NoOne
       /\ Step(w, "init", "file")
       /\ backend' = w
       /\ UNCHANGED <<clientVars, queue, shutdown, job, loaded, dropping>>
    \/ /\ backend # NoOne
       /\ Step(w, "init", "top")
       /\ Answer(w)
       /\ UNCHANGED <<ahead, queue, shutdown, modelVars, dropping>>

\* Regression: a failed load_from_file leaks the backend.
LeakBackend(w) ==
    \/ /\ Step(w, "file", "run")
       /\ loaded' = [loaded EXCEPT ![w] = TRUE]
       /\ UNCHANGED <<clientVars, queue, shutdown, job, backend, dropping>>
    \/ /\ Step(w, "file", "top")
       /\ Answer(w)
       /\ UNCHANGED <<ahead, queue, shutdown, loaded, backend, dropping>>

\* Second half: load_from_file; an error drops the backend on the way out.
LoadFile(w) ==
    \/ /\ Step(w, "file", "run")
       /\ loaded' = [loaded EXCEPT ![w] = TRUE]
       /\ UNCHANGED <<clientVars, queue, shutdown, job, backend, dropping>>
    \/ /\ Step(w, "file", "top")
       /\ Answer(w) /\ DropModel(w)
       /\ UNCHANGED <<ahead, queue, shutdown, dropping>>

\* embed_documents or embed_query, with a vector or an error as the answer.
Embed(w) ==
    /\ Step(w, "run", "top")
    /\ Answer(w)
    /\ UNCHANGED <<ahead, queue, shutdown, modelVars, dropping>>

\* Unwinding drops the job's sender and the model; the queue outlives the thread.
Panic(w) ==
    /\ MayPanic
    /\ Step(w, "run", "panicked")
    /\ Answer(w) /\ DropModel(w)
    /\ UNCHANGED <<ahead, queue, shutdown, dropping>>

-----------------------------------------------------------------------------
WorkerStep(w) ==
    \/ ReadShutdown(w) \/ Pop(w) \/ Wait(w) \/ WakesUp(w) \/ Timeout(w)
    \/ InitBackend(w) \/ LoadFile(w) \/ Embed(w)

Next ==
    \/ \E c \in Clients : Submit(c) \/ Push(c) \/ Notify(c)
    \/ \E w \in Workers : \/ WorkerStep(w) \/ Panic(w)
                          \/ DropHandle(w) \/ NotifyAll(w) \/ Join(w)

Spec == Init /\ [][Next]_vars

\* Threads run when they can, and wait_timeout returns in the end.  Nobody has
\* to submit or to drop a handle, and a panic need not happen.
FairSpec ==
    /\ Spec
    /\ \A c \in Clients : WF_vars(Push(c)) /\ WF_vars(Notify(c))
    /\ \A w \in Workers : /\ WF_vars(WorkerStep(w)) /\ WF_vars(NotifyAll(w))
                          /\ WF_vars(Join(w))

-----------------------------------------------------------------------------
(* Properties                                                              *)

\* No lost wakeup for jobs: while the worker sleeps, every job in its queue has
\* a client that is about to notify it (submit pushes under the mutex that
\* wait_timeout gives up, and notifies afterwards).
NoSleepOnWork == \A w \in Workers :
    worker[w] = "waiting" => \A c \in queue[w] : pc[c] = "notify"

\* The llama.cpp backend is held exactly by the worker whose model is loaded or
\* being loaded: an error, an idle unload, a drop or a panic never leaks it, so
\* a failed load does not poison later ones.
BackendHeldByModel == \A w \in Workers :
    backend = w <=> loaded[w] \/ worker[w] = "file"

Interactive(c) == PriorityOf[c] = 3

\* A person's query is always answered, whatever backfill work keeps arriving,
\* unless the worker thread panicked.
InteractiveAnswered == \A c \in Clients :
    Interactive(c) /\ pc[c] \in {"notify", "recv"}
        ~> pc[c] = "idle" \/ worker[WorkerOf[c]] = "panicked"

\* Idle RAM is reclaimed: a model never stays loaded with no job for ever.
IdleModelReclaimed == \A w \in Workers :
    []<>(~loaded[w] \/ queue[w] # {} \/ job[w] # NoOne)

\* Dropping a handle joins the thread: never an orphan, never a wait for ever,
\* even when the flag is set between the worker's check and its wait.
DropReturns == \A w \in Workers : dropping[w] = "notify" ~> dropping[w] = "done"
=============================================================================
