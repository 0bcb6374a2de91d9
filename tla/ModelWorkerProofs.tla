------------------------- MODULE ModelWorkerProofs -------------------------
(***************************************************************************)
(* Safety of ModelWorker for any number of handles and clients, any        *)
(* priorities, with and without panics.  IInv adds to the three properties *)
(* what the pc of a worker says about its model; it is inductive.          *)
(***************************************************************************)
EXTENDS ModelWorker, TLAPS

\* A thread that is about to load has no model.
LoadsWhenUnloaded == \A w \in Workers : worker[w] \in {"init", "file"} => ~loaded[w]

\* A job, queued or popped, is that of a client inside submit, and not both.
JobsHaveOwners == \A w \in Workers :
    /\ \A c \in queue[w] : pc[c] \in {"notify", "recv"}
    /\ job[w] \notin queue[w]
    /\ job[w] \in Clients => pc[job[w]] \in {"notify", "recv"}

IInv == TypeOK /\ JobsHaveOwners /\ NoSleepOnWork /\ BackendHeldByModel /\ LoadsWhenUnloaded

\* Every initial state, handles just spawned, satisfies the invariant.
LEMMA InitInv == Init => IInv
  BY WorkersAssumption DEF Init, IInv, TypeOK, NoSleepOnWork, BackendHeldByModel,
     LoadsWhenUnloaded, JobsHaveOwners, Awake, Ended, Of

\* Dropping a model leaves the flags and the backend well typed.
LEMMA DropModelType ==
  ASSUME TypeOK, NEW w \in Workers, DropModel(w)
  PROVE  loaded' \in [Workers -> BOOLEAN] /\ backend' \in Workers \cup {NoOne}
<1>1. loaded' \in [Workers -> BOOLEAN]
  BY DEF TypeOK, DropModel
<1>2. backend' \in Workers \cup {NoOne}
  BY DEF TypeOK, DropModel
<1> QED
  BY <1>1, <1>2

\* Every step keeps the type invariant.
LEMMA TypeStep == IInv /\ [Next]_vars => TypeOK'
<1> SUFFICES ASSUME IInv, [Next]_vars PROVE TypeOK'
  OBVIOUS
<1> USE WorkersAssumption DEF IInv, TypeOK, Awake, Ended, Of
<1>1. CASE \E c \in Clients : Submit(c)
  <2> PICK c \in Clients : Submit(c)
    BY <1>1
  <2>1. pc' \in [Clients -> {"idle", "ticket", "notify", "recv"}]
    BY DEF Submit, Client
  <2> QED
    BY <2>1 DEF Submit, modelVars
<1>2. CASE \E c \in Clients : Push(c)
  BY <1>2 DEF Push, Client, modelVars
<1>3. CASE \E c \in Clients : Notify(c)
  BY <1>3 DEF Notify, Client, Wake, modelVars
<1>4. CASE \E w \in Workers : ReadShutdown(w)
  <2> PICK w \in Workers : ReadShutdown(w)
    BY <1>4
  <2>1. loaded' \in [Workers -> BOOLEAN] /\ backend' \in Workers \cup {NoOne}
    <3>1. CASE DropModel(w)
      BY <3>1, DropModelType
    <3>2. CASE UNCHANGED modelVars
      BY <3>2 DEF modelVars
    <3> QED
      BY <3>1, <3>2 DEF ReadShutdown
  <2>2. worker' \in [Workers -> Awake \cup {"waiting", "woken"} \cup Ended]
    BY DEF ReadShutdown, Step
  <2>3. UNCHANGED <<pc, ahead, queue, shutdown, job, dropping>>
    BY DEF ReadShutdown, clientVars
  <2> QED
    BY <2>1, <2>2, <2>3
<1>5. CASE \E w \in Workers : Pop(w)
  BY <1>5 DEF Pop, Step, Best, modelVars
<1>6. CASE \E w \in Workers : Wait(w)
  BY <1>6 DEF Wait, Step, modelVars, clientVars
<1>7. CASE \E w \in Workers : WakesUp(w)
  BY <1>7 DEF WakesUp, Step, modelVars, clientVars
<1>8. CASE \E w \in Workers : Timeout(w)
  <2> PICK w \in Workers : Timeout(w)
    BY <1>8
  <2>1. loaded' \in [Workers -> BOOLEAN] /\ backend' \in Workers \cup {NoOne}
    <3>1. CASE DropModel(w)
      BY <3>1, DropModelType
    <3>2. CASE UNCHANGED modelVars
      BY <3>2 DEF modelVars
    <3> QED
      BY <3>1, <3>2 DEF Timeout
  <2>2. worker' \in [Workers -> Awake \cup {"waiting", "woken"} \cup Ended]
    BY DEF Timeout, Step
  <2>3. UNCHANGED <<pc, ahead, queue, shutdown, job, dropping>>
    BY DEF Timeout, clientVars
  <2> QED
    BY <2>1, <2>2, <2>3
<1>9. CASE \E w \in Workers : InitBackend(w)
  BY <1>9 DEF InitBackend, Step, Answer, clientVars, modelVars
<1>10. CASE \E w \in Workers : LoadFile(w)
  <2> PICK w \in Workers : LoadFile(w)
    BY <1>10
  <2>1. loaded' \in [Workers -> BOOLEAN] /\ backend' \in Workers \cup {NoOne}
    <3>1. CASE DropModel(w)
      BY <3>1, DropModelType
    <3>2. CASE UNCHANGED modelVars
      BY <3>2 DEF modelVars
    <3>3. CASE loaded' = [loaded EXCEPT ![w] = TRUE] /\ backend' = backend
      BY <3>3
    <3> QED
      BY <3>1, <3>2, <3>3 DEF LoadFile
  <2>2. worker' \in [Workers -> Awake \cup {"waiting", "woken"} \cup Ended]
    BY DEF LoadFile, Step
  <2>3. UNCHANGED <<ahead, queue, shutdown, dropping>>
    BY DEF LoadFile, clientVars
  <2>4. pc' \in [Clients -> {"idle", "ticket", "notify", "recv"}]
    BY DEF LoadFile, clientVars, Answer
  <2>5. job' \in [Workers -> Clients \cup {NoOne}]
        /\ \A v \in Workers : job'[v] \in Of(v) \cup {NoOne}
    BY DEF LoadFile, clientVars, Answer
  <2> QED
    BY <2>1, <2>2, <2>3, <2>4, <2>5
<1>11. CASE \E w \in Workers : Embed(w)
  BY <1>11 DEF Embed, Step, Answer, modelVars
<1>12. CASE \E w \in Workers : Panic(w)
  BY <1>12 DEF Panic, Step, Answer, DropModel
<1>13. CASE \E w \in Workers : DropHandle(w)
  BY <1>13 DEF DropHandle, modelVars, clientVars
<1>14. CASE \E w \in Workers : NotifyAll(w)
  BY <1>14 DEF NotifyAll, Wake, modelVars, clientVars
<1>15. CASE \E w \in Workers : Join(w)
  BY <1>15 DEF Join, modelVars, clientVars
<1>16. CASE UNCHANGED vars
  BY <1>16 DEF vars, clientVars, modelVars
<1> QED
  BY <1>1, <1>2, <1>3, <1>4, <1>5, <1>6, <1>7, <1>8, <1>9, <1>10, <1>11, <1>12, <1>13, <1>14, <1>15, <1>16 DEF Next, WorkerStep

\* Every step keeps the sleeping worker's jobs announced.
LEMMA SleepStep == IInv /\ [Next]_vars => NoSleepOnWork'
<1> SUFFICES ASSUME IInv, [Next]_vars PROVE NoSleepOnWork'
  OBVIOUS
<1> USE WorkersAssumption DEF IInv, TypeOK, NoSleepOnWork, Of
<1>1. CASE \E c \in Clients : Submit(c)
  BY <1>1 DEF Submit, Client, Waiting, modelVars
<1>2. CASE \E c \in Clients : Push(c)
  BY <1>2 DEF Push, Client, modelVars
<1>3. CASE \E c \in Clients : Notify(c)
  BY <1>3 DEF Notify, Client, Wake, modelVars
<1>4. CASE \E w \in Workers : ReadShutdown(w)
  BY <1>4 DEF ReadShutdown, Step, DropModel, modelVars, clientVars
<1>5. CASE \E w \in Workers : Pop(w)
  BY <1>5 DEF Pop, Step, Best, modelVars
<1>6. CASE \E w \in Workers : Wait(w)
  BY <1>6 DEF Wait, Step, modelVars, clientVars
<1>7. CASE \E w \in Workers : WakesUp(w)
  BY <1>7 DEF WakesUp, Step, modelVars, clientVars
<1>8. CASE \E w \in Workers : Timeout(w)
  BY <1>8 DEF Timeout, Step, DropModel, modelVars, clientVars
<1>9. CASE \E w \in Workers : InitBackend(w)
  BY <1>9 DEF InitBackend, Step, Answer, clientVars, modelVars
<1>10. CASE \E w \in Workers : LoadFile(w)
  BY <1>10 DEF LoadFile, Step, Answer, DropModel, clientVars
<1>11. CASE \E w \in Workers : Embed(w)
  BY <1>11 DEF Embed, Step, Answer, modelVars
<1>12. CASE \E w \in Workers : Panic(w)
  BY <1>12 DEF Panic, Step, Answer, DropModel
<1>13. CASE \E w \in Workers : DropHandle(w)
  BY <1>13 DEF DropHandle, modelVars, clientVars
<1>14. CASE \E w \in Workers : NotifyAll(w)
  BY <1>14 DEF NotifyAll, Wake, modelVars, clientVars
<1>15. CASE \E w \in Workers : Join(w)
  BY <1>15 DEF Join, modelVars, clientVars
<1>16. CASE UNCHANGED vars
  BY <1>16 DEF vars, clientVars, modelVars
<1> QED
  BY <1>1, <1>2, <1>3, <1>4, <1>5, <1>6, <1>7, <1>8, <1>9, <1>10, <1>11, <1>12, <1>13, <1>14, <1>15, <1>16 DEF Next, WorkerStep

\* Every step keeps every job with its client.
LEMMA OwnersStep == IInv /\ [Next]_vars => JobsHaveOwners'
<1> SUFFICES ASSUME IInv, [Next]_vars PROVE JobsHaveOwners'
  OBVIOUS
<1> USE WorkersAssumption DEF IInv, TypeOK, JobsHaveOwners, Of
<1>1. CASE \E c \in Clients : Submit(c)
  BY <1>1 DEF Submit, Client, Waiting, modelVars
<1>2. CASE \E c \in Clients : Push(c)
  BY <1>2 DEF Push, Client, modelVars
<1>3. CASE \E c \in Clients : Notify(c)
  BY <1>3 DEF Notify, Client, Wake, modelVars
<1>4. CASE \E w \in Workers : ReadShutdown(w)
  BY <1>4 DEF ReadShutdown, Step, DropModel, modelVars, clientVars
<1>5. CASE \E w \in Workers : Pop(w)
  BY <1>5 DEF Pop, Step, Best, modelVars
<1>6. CASE \E w \in Workers : Wait(w)
  BY <1>6 DEF Wait, Step, modelVars, clientVars
<1>7. CASE \E w \in Workers : WakesUp(w)
  BY <1>7 DEF WakesUp, Step, modelVars, clientVars
<1>8. CASE \E w \in Workers : Timeout(w)
  BY <1>8 DEF Timeout, Step, DropModel, modelVars, clientVars
<1>9. CASE \E w \in Workers : InitBackend(w)
  BY <1>9 DEF InitBackend, Step, Answer, clientVars, modelVars
<1>10. CASE \E w \in Workers : LoadFile(w)
  BY <1>10 DEF LoadFile, Step, Answer, DropModel, clientVars
<1>11. CASE \E w \in Workers : Embed(w)
  BY <1>11 DEF Embed, Step, Answer, modelVars
<1>12. CASE \E w \in Workers : Panic(w)
  BY <1>12 DEF Panic, Step, Answer, DropModel
<1>13. CASE \E w \in Workers : DropHandle(w)
  BY <1>13 DEF DropHandle, modelVars, clientVars
<1>14. CASE \E w \in Workers : NotifyAll(w)
  BY <1>14 DEF NotifyAll, Wake, modelVars, clientVars
<1>15. CASE \E w \in Workers : Join(w)
  BY <1>15 DEF Join, modelVars, clientVars
<1>16. CASE UNCHANGED vars
  BY <1>16 DEF vars, clientVars, modelVars
<1> QED
  BY <1>1, <1>2, <1>3, <1>4, <1>5, <1>6, <1>7, <1>8, <1>9, <1>10, <1>11, <1>12, <1>13, <1>14, <1>15, <1>16 DEF Next, WorkerStep

\* Every step keeps the backend with the worker that has a model.
LEMMA BackendStep == IInv /\ [Next]_vars => (BackendHeldByModel /\ LoadsWhenUnloaded)'
<1> SUFFICES ASSUME IInv, [Next]_vars PROVE (BackendHeldByModel /\ LoadsWhenUnloaded)'
  OBVIOUS
<1> USE WorkersAssumption DEF IInv, TypeOK, BackendHeldByModel, LoadsWhenUnloaded
<1>1. CASE \E c \in Clients : Submit(c)
  BY <1>1 DEF Submit, Client, Waiting, modelVars
<1>2. CASE \E c \in Clients : Push(c)
  BY <1>2 DEF Push, Client, modelVars
<1>3. CASE \E c \in Clients : Notify(c)
  BY <1>3 DEF Notify, Client, Wake, modelVars
<1>4. CASE \E w \in Workers : ReadShutdown(w)
  BY <1>4 DEF ReadShutdown, Step, DropModel, modelVars, clientVars
<1>5. CASE \E w \in Workers : Pop(w)
  BY <1>5 DEF Pop, Step, Best, modelVars
<1>6. CASE \E w \in Workers : Wait(w)
  BY <1>6 DEF Wait, Step, modelVars, clientVars
<1>7. CASE \E w \in Workers : WakesUp(w)
  BY <1>7 DEF WakesUp, Step, modelVars, clientVars
<1>8. CASE \E w \in Workers : Timeout(w)
  BY <1>8 DEF Timeout, Step, DropModel, modelVars, clientVars
<1>9. CASE \E w \in Workers : InitBackend(w)
  BY <1>9 DEF InitBackend, Step, Answer, clientVars, modelVars
<1>10. CASE \E w \in Workers : LoadFile(w)
  BY <1>10 DEF LoadFile, Step, Answer, DropModel, clientVars
<1>11. CASE \E w \in Workers : Embed(w)
  BY <1>11 DEF Embed, Step, Answer, modelVars
<1>12. CASE \E w \in Workers : Panic(w)
  BY <1>12 DEF Panic, Step, Answer, DropModel
<1>13. CASE \E w \in Workers : DropHandle(w)
  BY <1>13 DEF DropHandle, modelVars, clientVars
<1>14. CASE \E w \in Workers : NotifyAll(w)
  BY <1>14 DEF NotifyAll, Wake, modelVars, clientVars
<1>15. CASE \E w \in Workers : Join(w)
  BY <1>15 DEF Join, modelVars, clientVars
<1>16. CASE UNCHANGED vars
  BY <1>16 DEF vars, clientVars, modelVars
<1> QED
  BY <1>1, <1>2, <1>3, <1>4, <1>5, <1>6, <1>7, <1>8, <1>9, <1>10, <1>11, <1>12, <1>13, <1>14, <1>15, <1>16 DEF Next, WorkerStep

\* The invariant holds in every reachable state.
THEOREM InvariantAlways == Spec => []IInv
<1>1. IInv /\ [Next]_vars => IInv'
  BY TypeStep, OwnersStep, SleepStep, BackendStep DEF IInv
<1> QED
  BY <1>1, InitInv, PTL DEF Spec

\* Type correctness of the model workers.
THEOREM TypeCorrect == Spec => []TypeOK
<1>1. IInv => TypeOK
  BY DEF IInv
<1> QED
  BY <1>1, InvariantAlways, PTL

\* submit never loses the wakeup of a sleeping worker.
THEOREM NoLostWakeup == Spec => []NoSleepOnWork
<1>1. IInv => NoSleepOnWork
  BY DEF IInv
<1> QED
  BY <1>1, InvariantAlways, PTL

\* The llama.cpp backend is never leaked, on any way out of a load or a model.
THEOREM BackendNeverLeaks == Spec => []BackendHeldByModel
<1>1. IInv => BackendHeldByModel
  BY DEF IInv
<1> QED
  BY <1>1, InvariantAlways, PTL
=============================================================================
