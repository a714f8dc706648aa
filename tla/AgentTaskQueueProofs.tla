------------------------ MODULE AgentTaskQueueProofs ------------------------
(***************************************************************************)
(* Proofs about AgentTaskQueue, for any number of tasks, workers, restarts *)
(* and any priorities.  TLC checks IInv on the small instance as well.     *)
(***************************************************************************)
EXTENDS AgentTaskQueue, FiniteSetTheorems, TLAPS

-----------------------------------------------------------------------------
(* Type correctness                                                         *)

\* The record of a worker without a process_task is a job.
LEMMA NoJobIsJob == NoJob \in [task : Tasks \cup {None}, stage : Stages]
  BY DEF NoJob, Stages

\* Every reachable state of the queue has the types of TypeOK.
THEOREM TypeCorrect == Spec => []TypeOK
<1> USE QueueAssumption DEF TypeOK, TaskStatus, RunStatus, Unfinished, Terminal,
        WorkerStates, Stages, Working
<1>1. Init => TypeOK
  <2> SUFFICES ASSUME Init PROVE TypeOK
    OBVIOUS
  <2>1. taskStatus \in [Tasks -> TaskStatus] /\ runStatus \in [Tasks -> RunStatus]
    BY DEF Init
  <2>2. copies \in [Tasks -> Nat] /\ processing \in [Tasks -> Workers \cup {None}]
    BY DEF Init
  <2>3. worker \in [Workers -> WorkerStates]
    BY DEF Init
  <2>4. job \in [Workers -> [task : Tasks \cup {None}, stage : Stages]]
    BY NoJobIsJob DEF Init
  <2>5. QED
    BY <2>1, <2>2, <2>3, <2>4 DEF Init
<1>2. TypeOK /\ [Next]_vars => TypeOK'
  <2> SUFFICES ASSUME TypeOK, [Next]_vars
               PROVE  TypeOK'
    OBVIOUS
  <2>1. CASE Startup
    BY <2>1, NoJobIsJob DEF Startup, Forget, db
  <2>2. CASE RecoverTasks
    BY <2>2 DEF RecoverTasks, pool
  <2>3. CASE StopWorkers
    BY <2>3 DEF StopWorkers, db, pool
  <2>4. CASE Shutdown
    BY <2>4, NoJobIsJob DEF Shutdown, ProcessGone, Forget, db
  <2>5. CASE Crash
    <3>1. taskStatus' \in [Tasks -> TaskStatus] /\ runStatus' = runStatus
      BY <2>5 DEF Crash
    <3>2. ProcessGone
      BY <2>5 DEF Crash
    <3>3. QED
      BY <3>1, <3>2, NoJobIsJob DEF ProcessGone, Forget
  <2>6. ASSUME NEW t \in Tasks, CreateAgentRun(t)
        PROVE  TypeOK'
    BY <2>6 DEF CreateAgentRun, pool, life
  <2>7. ASSUME NEW t \in Tasks, CancelRun(t)
        PROVE  TypeOK'
    BY <2>7 DEF CancelRun, life
  <2>8. ASSUME NEW t \in Tasks, DeleteTask(t)
        PROVE  TypeOK'
    BY <2>8 DEF DeleteTask, pool, life
  <2>9. ASSUME NEW w \in Workers, WorkerExit(w)
        PROVE  TypeOK'
    BY <2>9 DEF WorkerExit, db, life
  <2>10. ASSUME NEW w \in Workers, NEW t \in Tasks, Take(w, t)
         PROVE  TypeOK'
    <3>1. copies' \in [Tasks -> Nat]
      BY <2>10 DEF Take, IsHead
    <3>2. processing' \in [Tasks -> Workers \cup {None}]
      BY <2>10 DEF Take
    <3>3. worker' \in [Workers -> WorkerStates]
      BY <2>10 DEF Take
    <3>4. job' \in [Workers -> [task : Tasks \cup {None}, stage : Stages]]
      BY <2>10 DEF Take
    <3>5. UNCHANGED <<db, cancelling, life, cancels, doubled>>
      BY <2>10 DEF Take
    <3>6. QED
      BY <3>1, <3>2, <3>3, <3>4, <3>5 DEF db, life
  <2>11. ASSUME NEW w \in Workers, Resume(w) \/ Die(w)
         PROVE  TypeOK'
    <3>1. worker' \in [Workers -> WorkerStates]
      BY <2>11 DEF Resume, Die
    <3>2. job' \in [Workers -> [task : Tasks \cup {None}, stage : Stages]]
      BY <2>11, NoJobIsJob DEF Resume, Die
    <3>3. processing' \in [Tasks -> Workers \cup {None}]
      BY <2>11 DEF Resume, Die
    <3>4. QED
      BY <2>11, <3>1, <3>2, <3>3 DEF Resume, Die, db, life
  <2>12. ASSUME NEW w \in Workers, Start(w) \/ HandlerStart(w) \/ HandlerReturn(w)
         PROVE  TypeOK'
    BY <2>12 DEF Start, HandlerStart, HandlerReturn, SetStage, db, life
  <2>13. ASSUME NEW w \in Workers, Finish(w) \/ Timeout(w)
         PROVE  TypeOK'
    BY <2>13 DEF Finish, Timeout, Record, SetStage, life
  <2>14. ASSUME NEW w \in Workers, DeliverCancel(w) \/ Notified(w)
         PROVE  TypeOK'
    <3>1. job' \in [Workers -> [task : Tasks \cup {None}, stage : Stages]]
      BY <2>14 DEF DeliverCancel, Notified, SetStage
    <3>2. cancelling' \subseteq Workers
      BY <2>14 DEF DeliverCancel, Notified
    <3>3. UNCHANGED <<db, copies, processing, worker, life, cancels, doubled>>
      BY <2>14 DEF DeliverCancel, Notified
    <3>4. QED
      BY <3>1, <3>2, <3>3 DEF db, life
  <2>15. ASSUME NEW w \in Workers, HandlerComplete(w) \/ HandlerFail(w)
         PROVE  TypeOK'
    <3>1. runStatus' \in [Tasks -> RunStatus]
      BY <2>15 DEF HandlerComplete, HandlerFail
    <3>2. job' \in [Workers -> [task : Tasks \cup {None}, stage : Stages]]
      BY <2>15 DEF HandlerComplete, HandlerFail, SetStage
    <3>3. UNCHANGED <<taskStatus, copies, processing, worker, cancelling, life, cancels, doubled>>
      BY <2>15 DEF HandlerComplete, HandlerFail
    <3>4. QED
      BY <3>1, <3>2, <3>3 DEF life
  <2>16. CASE UNCHANGED vars
    BY <2>16 DEF vars, db, pool, life
  <2>17. QED
    BY <2>1, <2>2, <2>3, <2>4, <2>5, <2>6, <2>7, <2>8, <2>9, <2>10, <2>11, <2>12,
       <2>13, <2>14, <2>15, <2>16
       DEF Next, Request, WorkerStep, JobProgress, HandlerEnd
<1>3. QED
  BY <1>1, <1>2, PTL DEF Spec
-----------------------------------------------------------------------------
(* The inductive invariant                                                  *)

\* The strings the stages of a process_task are compared with.
LEMMA StageFacts ==
    /\ "none" \notin Working /\ "notifying" \notin Working
    /\ "done" \notin Working /\ "cancelled" \notin Working
    /\ {"created", "waiting", "handling", "reporting", "returned", "raised"} \subseteq Working
  BY DEF Working

\* A new task is held by nobody before create_agent_run pushes it.
LEMMA CreateAgentRunStep ==
    ASSUME TypeOK, IInv, NEW t \in Tasks, CreateAgentRun(t)
    PROVE  IInv'
<1>1. /\ taskStatus[t] = "none"
      /\ UNCHANGED <<worker, job, processing, cancelling, up, recovery>>
      /\ \A u \in Tasks \ {t} : /\ taskStatus'[u] = taskStatus[u]
                                /\ runStatus'[u] = runStatus[u]
                                /\ copies'[u] = copies[u]
      /\ \/ taskStatus'[t] = "queued" /\ runStatus'[t] = "queued" /\ copies'[t] = copies[t] + 1
         \/ taskStatus'[t] = "cancelled" /\ runStatus'[t] = runStatus[t] /\ copies'[t] = copies[t]
  BY DEF CreateAgentRun, MayAdd, TypeOK, pool, life
<1>2. \A w \in Workers : job[w].stage \in Working => job[w].task \in Tasks \ {t}
  BY <1>1, StageFacts DEF IInv, JobsOfWorkers, RunsOfHeldTasks
<1>3. copies[t] = 0 /\ copies[t] + 1 > 0 /\ processing[t] = None
  <2>1. copies[t] = 0
    BY <1>1 DEF IInv, RunsOfHeldTasks, TypeOK
  <2>2. processing[t] = None
    BY <1>1, <1>2 DEF IInv, EntriesOfJobs, TypeOK, Terminal
  <2>3. QED
    BY <2>1, <2>2
<1>4. cancelling \subseteq Workers /\ \A w \in cancelling : job[w].stage \in Working
  BY DEF IInv, JobsOfWorkers, TypeOK
<1>5. JobsOfWorkers'
  BY <1>1 DEF IInv, JobsOfWorkers
<1>6. EntriesOfJobs'
  BY <1>1, <1>3 DEF IInv, EntriesOfJobs
<1>7. CancelledTasksAreOut'
  <2>1. ASSUME NEW w \in Workers, taskStatus[job[w].task] \in Terminal
        PROVE  job[w].task # t
    BY <1>1, <2>1 DEF Terminal
  <2>2. \A w \in Workers : w \in cancelling \/ job[w].stage \in {"notifying", "done"}
                            => job[w].task \in Tasks
    BY <1>4, StageFacts DEF IInv, JobsOfWorkers
  <2>3. QED
    BY <1>1, <2>1, <2>2 DEF IInv, CancelledTasksAreOut
<1>8. RunsOfHeldTasks'
  BY <1>1, <1>2, <1>3 DEF IInv, RunsOfHeldTasks
<1>9. SingleExecution'
  BY <1>1 DEF IInv, SingleExecution, WorksOn
<1>10. CancelledRunIsOut'
  BY <1>1, <1>3 DEF IInv, CancelledRunIsOut, Terminal
<1>11. NoTaskLost'
  BY <1>1, <1>3 DEF IInv, NoTaskLost, WorksOn, Unfinished
<1>12. CompletedTaskHasCompletedRun'
  BY <1>1 DEF IInv, CompletedTaskHasCompletedRun
<1>13. QED
  BY <1>5, <1>6, <1>7, <1>8, <1>9, <1>10, <1>11, <1>12 DEF IInv

\* cancel_agent_run leaves the task with no heap entry and, if a worker runs
\* it, with a cancel() on its way: no other worker can have it.
LEMMA CancelRunStep ==
    ASSUME TypeOK, IInv, NEW t \in Tasks, CancelRun(t)
    PROVE  IInv'
<1>1. /\ taskStatus[t] \in Unfinished /\ runStatus[t] \in {"queued", "running"}
      /\ UNCHANGED <<worker, job, up, recovery>>
      /\ processing'[t] = None /\ copies'[t] = 0
      /\ taskStatus'[t] = "cancelled" /\ runStatus'[t] = "cancelled"
      /\ \A u \in Tasks \ {t} : /\ taskStatus'[u] = taskStatus[u]
                                /\ runStatus'[u] = runStatus[u]
                                /\ copies'[u] = copies[u]
                                /\ processing'[u] = processing[u]
      /\ cancelling' = IF processing[t] = None THEN cancelling ELSE cancelling \cup {processing[t]}
  BY DEF CancelRun, MayCancel, TypeOK, life
<1>2. \A w \in Workers : job[w].stage \in Working => job[w].task \in Tasks
  BY StageFacts DEF IInv, JobsOfWorkers
<1>3. ASSUME processing[t] # None
      PROVE  /\ processing[t] \in Workers
             /\ job[processing[t]].task = t
             /\ job[processing[t]].stage \in Working
  BY <1>1, <1>3 DEF IInv, EntriesOfJobs, TypeOK, Unfinished, Terminal
<1>4. \A w \in Workers : job[w].stage \in Working /\ job[w].task = t => w \in cancelling'
  <2> SUFFICES ASSUME NEW w \in Workers, job[w].stage \in Working, job[w].task = t
               PROVE  w \in cancelling'
    OBVIOUS
  <2>1. CASE w \in cancelling
    BY <1>1, <2>1
  <2>2. CASE w \notin cancelling
    <3>1. processing[t] = w
      BY <2>2 DEF IInv, EntriesOfJobs
    <3>2. w # None
      BY QueueAssumption
    <3>3. QED
      BY <1>1, <3>1, <3>2
  <2>3. QED
    BY <2>1, <2>2
<1>5. JobsOfWorkers'
  BY <1>1, <1>3 DEF IInv, JobsOfWorkers
<1>6. EntriesOfJobs'
  <2>1. ASSUME NEW u \in Tasks, processing'[u] # None
        PROVE  /\ u # t
               /\ processing'[u] = processing[u]
               /\ taskStatus'[u] = taskStatus[u]
               /\ processing[u] \in Workers
               /\ processing[u] \notin cancelling'
    <3>1. u # t /\ processing'[u] = processing[u] /\ taskStatus'[u] = taskStatus[u]
      BY <1>1, <2>1
    <3>2. processing[u] \in Workers /\ processing[u] \notin cancelling /\ job[processing[u]].task = u
      BY <2>1, <3>1 DEF IInv, EntriesOfJobs, TypeOK
    <3>3. processing[t] # processing[u]
      BY <1>3, <2>1, <3>1, <3>2
    <3>4. QED
      BY <1>1, <3>1, <3>2, <3>3
  <2>2. ASSUME NEW w \in Workers, job'[w].stage \in Working, w \notin cancelling'
        PROVE  processing'[job'[w].task] = w
    BY <1>1, <1>2, <1>4, <2>2 DEF IInv, EntriesOfJobs
  <2>3. \A u \in Tasks : processing'[u] # None =>
           /\ job'[processing'[u]].task = u
           /\ job'[processing'[u]].stage \in Working \cup {"notifying", "done"}
           /\ processing'[u] \notin cancelling'
           /\ job'[processing'[u]].stage \in {"notifying", "done"} => taskStatus'[u] \in Terminal
    BY <1>1, <2>1 DEF IInv, EntriesOfJobs
  <2>4. QED
    BY <2>2, <2>3 DEF EntriesOfJobs
<1>7. CancelledTasksAreOut'
  <2> SUFFICES ASSUME NEW w \in Workers,
                      \/ w \in cancelling'
                      \/ job[w].stage \in {"notifying", "done"} /\ processing'[job[w].task] # w
               PROVE  /\ copies'[job[w].task] = 0
                      /\ processing'[job[w].task] = None
                      /\ taskStatus'[job[w].task] \in Terminal
    BY <1>1 DEF CancelledTasksAreOut
  <2>1. CASE job[w].task = t
    BY <1>1, <2>1 DEF Terminal
  <2>2. CASE job[w].task # t
    <3>1. job[w].task \in Tasks
      BY <1>1, <1>2, <1>3, <2>2 DEF IInv, JobsOfWorkers
    <3>2. processing'[job[w].task] = processing[job[w].task]
      BY <1>1, <2>2, <3>1
    <3>3. w \in cancelling' => w \in cancelling
      BY <1>1, <1>3, <2>2
    <3>4. \/ w \in cancelling
          \/ job[w].stage \in {"notifying", "done"} /\ processing[job[w].task] # w
      BY <3>2, <3>3
    <3>5. QED
      BY <1>1, <2>2, <3>1, <3>2, <3>4 DEF IInv, CancelledTasksAreOut
  <2>3. QED
    BY <2>1, <2>2
<1>8. RunsOfHeldTasks'
  <2>1. \A u \in Tasks : copies'[u] > 0 => taskStatus'[u] # "none"
    BY <1>1 DEF IInv, RunsOfHeldTasks
  <2>2. ASSUME NEW w \in Workers, job'[w].stage \in Working
        PROVE  /\ taskStatus'[job'[w].task] # "none"
               /\ w \notin cancelling' => runStatus'[job'[w].task] # "cancelled"
               /\ job'[w].stage \in {"reporting", "returned"} =>
                     runStatus'[job'[w].task] = "completed"
               /\ job'[w].stage \in {"waiting", "handling"} =>
                     taskStatus'[job'[w].task] # "completed"
    <3>1. CASE job[w].task # t
      BY <1>1, <1>2, <2>2, <3>1 DEF IInv, RunsOfHeldTasks
    <3>2. CASE job[w].task = t
      BY <1>1, <1>4, <2>2, <3>2 DEF IInv, RunsOfHeldTasks
    <3>3. QED
      BY <3>1, <3>2
  <2>3. QED
    BY <2>1, <2>2 DEF RunsOfHeldTasks
<1>9. SingleExecution'
  BY <1>1 DEF IInv, SingleExecution, WorksOn
<1>10. CancelledRunIsOut'
  BY <1>1 DEF IInv, CancelledRunIsOut, Terminal
<1>11. NoTaskLost'
  <2> SUFFICES ASSUME up', recovery' = "done", NEW u \in Tasks, taskStatus'[u] \in Unfinished,
                      ~(copies'[u] > 0)
               PROVE  \E w \in Workers : WorksOn(w, u)' /\ w \notin cancelling'
    BY <1>1 DEF NoTaskLost, TypeOK
  <2>1. u # t
    BY <1>1 DEF Unfinished
  <2>2. PICK w \in Workers : WorksOn(w, u) /\ w \notin cancelling
    BY <1>1, <2>1 DEF IInv, NoTaskLost
  <2>3. w \notin cancelling'
    BY <1>1, <1>3, <2>1, <2>2 DEF WorksOn
  <2>4. QED
    BY <1>1, <2>2, <2>3 DEF WorksOn
<1>12. CompletedTaskHasCompletedRun'
  BY <1>1 DEF IInv, CompletedTaskHasCompletedRun
<1>13. QED
  BY <1>5, <1>6, <1>7, <1>8, <1>9, <1>10, <1>11, <1>12 DEF IInv

\* The task a worker takes is in no process_task: one that runs is in
\* _processing and one that unwinds after a cancellation has no heap entry.
LEMMA TakeStep ==
    ASSUME TypeOK, IInv, NEW w \in Workers, NEW t \in Tasks, Take(w, t)
    PROVE  IInv'
<1>1. /\ worker[w] = "idle" /\ copies[t] > 0
      /\ UNCHANGED <<taskStatus, runStatus, cancelling, up, recovery>>
      /\ \A v \in Workers \ {w} : worker'[v] = worker[v]
  BY DEF Take, IsHead, TypeOK, db, life
<1>2. job[w].stage \notin Working \cup {"notifying", "done"} /\ w \notin cancelling
  BY <1>1, StageFacts DEF IInv, JobsOfWorkers
<1>3. CASE processing[t] # None
  <2>1. UNCHANGED <<copies, processing, job>>
    BY <1>3 DEF Take
  <2>2. job[w].stage = "none"
    BY <1>1 DEF IInv, JobsOfWorkers
  <2>3. JobsOfWorkers'
    BY <1>1, <2>1, <2>2, <1>2 DEF IInv, JobsOfWorkers
  <2>4. EntriesOfJobs' /\ CancelledTasksAreOut'
    BY <1>1, <2>1 DEF IInv, EntriesOfJobs, CancelledTasksAreOut
  <2>5. RunsOfHeldTasks' /\ CancelledRunIsOut' /\ CompletedTaskHasCompletedRun'
    BY <1>1, <2>1 DEF IInv, RunsOfHeldTasks, CancelledRunIsOut, CompletedTaskHasCompletedRun
  <2>6. SingleExecution' /\ NoTaskLost'
    BY <1>1, <2>1 DEF IInv, SingleExecution, NoTaskLost, WorksOn
  <2>7. QED
    BY <2>3, <2>4, <2>5, <2>6 DEF IInv
<1>4. CASE processing[t] = None
  <2>1. /\ copies'[t] = copies[t] - 1 /\ processing'[t] = w
        /\ worker'[w] = "awaiting" /\ job'[w].task = t /\ job'[w].stage = "created"
        /\ \A u \in Tasks \ {t} : copies'[u] = copies[u] /\ processing'[u] = processing[u]
        /\ \A v \in Workers \ {w} : job'[v] = job[v]
    BY <1>4 DEF Take, TypeOK
  <2>2. copies[t] \in Nat /\ copies[t] # 0
    BY <1>1 DEF TypeOK
  <2>3. \A v \in Workers : job[v].stage \in Working => job[v].task \in Tasks \ {t}
    <3> SUFFICES ASSUME NEW v \in Workers, job[v].stage \in Working
                 PROVE  job[v].task \in Tasks \ {t}
      OBVIOUS
    <3>1. job[v].task \in Tasks
      BY StageFacts DEF IInv, JobsOfWorkers
    <3>2. CASE v \in cancelling
      BY <2>2, <3>1, <3>2 DEF IInv, CancelledTasksAreOut
    <3>3. CASE v \notin cancelling
      <4>1. processing[job[v].task] = v /\ v # None
        BY <3>3, QueueAssumption DEF IInv, EntriesOfJobs
      <4>2. QED
        BY <1>4, <3>1, <4>1
    <3>4. QED
      BY <3>2, <3>3
  <2>4. \A u \in Tasks \ {t} : processing[u] # None => processing[u] \in Workers \ {w}
    BY <1>2 DEF IInv, EntriesOfJobs, TypeOK
  <2>5. JobsOfWorkers'
    BY <1>1, <1>2, <2>1 DEF IInv, JobsOfWorkers
  <2>6. EntriesOfJobs'
    <3>1. \A u \in Tasks : processing'[u] # None =>
             /\ job'[processing'[u]].task = u
             /\ job'[processing'[u]].stage \in Working \cup {"notifying", "done"}
             /\ processing'[u] \notin cancelling'
             /\ job'[processing'[u]].stage \in {"notifying", "done"} => taskStatus'[u] \in Terminal
      <4> SUFFICES ASSUME NEW u \in Tasks, processing'[u] # None
                   PROVE  /\ job'[processing'[u]].task = u
                          /\ job'[processing'[u]].stage \in Working \cup {"notifying", "done"}
                          /\ processing'[u] \notin cancelling'
                          /\ job'[processing'[u]].stage \in {"notifying", "done"} => taskStatus'[u] \in Terminal
        OBVIOUS
      <4>1. CASE u = t
        BY <1>1, <1>2, <2>1, <4>1, StageFacts
      <4>2. CASE u # t
        BY <1>1, <2>1, <2>4, <4>2 DEF IInv, EntriesOfJobs
      <4>3. QED
        BY <4>1, <4>2
    <3>2. \A v \in Workers : job'[v].stage \in Working /\ v \notin cancelling'
                                => processing'[job'[v].task] = v
      BY <1>1, <2>1, <2>3 DEF IInv, EntriesOfJobs
    <3>3. QED
      BY <3>1, <3>2 DEF EntriesOfJobs
  <2>7. CancelledTasksAreOut'
    <3> SUFFICES ASSUME NEW v \in Workers,
                        \/ v \in cancelling
                        \/ job'[v].stage \in {"notifying", "done"} /\ processing'[job'[v].task] # v
                 PROVE  /\ copies'[job'[v].task] = 0
                        /\ processing'[job'[v].task] = None
                        /\ taskStatus[job'[v].task] \in Terminal
      BY <1>1 DEF CancelledTasksAreOut
    <3>1. v # w /\ job'[v] = job[v] /\ job[v].task \in Tasks
      BY <1>2, <2>1, <2>3, StageFacts DEF IInv, JobsOfWorkers
    <3>2. CASE job[v].task = t
      BY <1>4, <2>2, <3>1, <3>2, QueueAssumption DEF IInv, CancelledTasksAreOut
    <3>3. CASE job[v].task # t
      BY <2>1, <3>1, <3>3 DEF IInv, CancelledTasksAreOut
    <3>4. QED
      BY <3>2, <3>3
  <2>8. RunsOfHeldTasks'
    <3>1. taskStatus[t] # "none" /\ runStatus[t] # "cancelled"
      BY <1>1, <2>2 DEF IInv, RunsOfHeldTasks, CancelledRunIsOut
    <3>2. \A u \in Tasks : copies'[u] > 0 => taskStatus'[u] # "none"
      BY <1>1, <2>1, <3>1 DEF IInv, RunsOfHeldTasks
    <3>3. QED
      BY <1>1, <2>1, <3>1, <3>2 DEF IInv, RunsOfHeldTasks
  <2>9. SingleExecution'
    BY <2>1, <2>3 DEF IInv, SingleExecution, WorksOn
  <2>10. CancelledRunIsOut' /\ CompletedTaskHasCompletedRun'
    BY <1>1, <2>1, <2>2 DEF IInv, CancelledRunIsOut, CompletedTaskHasCompletedRun
  <2>11. NoTaskLost'
    <3> SUFFICES ASSUME up, recovery = "done", NEW u \in Tasks, taskStatus[u] \in Unfinished,
                        ~(copies'[u] > 0)
                 PROVE  \E v \in Workers : WorksOn(v, u)' /\ v \notin cancelling
      BY <1>1 DEF NoTaskLost
    <3>1. CASE u = t
      BY <1>2, <2>1, <3>1, StageFacts DEF WorksOn
    <3>2. CASE u # t
      <4>1. PICK v \in Workers : WorksOn(v, u) /\ v \notin cancelling
        BY <2>1, <3>2 DEF IInv, NoTaskLost
      <4>2. QED
        BY <1>2, <2>1, <4>1 DEF WorksOn
    <3>3. QED
      BY <3>1, <3>2
  <2>12. QED
    BY <2>5, <2>6, <2>7, <2>8, <2>9, <2>10, <2>11 DEF IInv
<1>5. QED
  BY <1>3, <1>4

\* The worker leaves its entry in _processing only to nobody: the entry is its
\* own, or a cancellation took it away for good.
LEMMA ResumeStep ==
    ASSUME TypeOK, IInv, NEW w \in Workers, Resume(w)
    PROVE  IInv'
<1> DEFINE t == job[w].task
<1>1. /\ job[w].stage = "done"
      /\ UNCHANGED <<taskStatus, runStatus, copies, cancelling, up, recovery>>
      /\ processing' = [processing EXCEPT ![t] = None]
      /\ job'[w].stage = "none"
      /\ \A v \in Workers \ {w} : worker'[v] = worker[v] /\ job'[v] = job[v]
  BY DEF Resume, TypeOK, NoJob, db, life
<1>2. t \in Tasks /\ w \notin cancelling
  BY <1>1, StageFacts DEF IInv, JobsOfWorkers
<1>3. processing[t] \in {w, None}
  BY <1>1 DEF IInv, CancelledTasksAreOut
<1>4. processing'[t] = None /\ \A u \in Tasks \ {t} : processing'[u] = processing[u]
  BY <1>1, <1>2 DEF TypeOK
<1>5. \A u \in Tasks : processing'[u] # None => processing[u] = processing'[u]
                                              /\ processing[u] \in Workers \ {w}
  BY <1>4, <1>2 DEF IInv, EntriesOfJobs, TypeOK
<1> HIDE DEF t
<1>6. JobsOfWorkers'
  BY <1>1, <1>2, StageFacts DEF IInv, JobsOfWorkers
<1>7. EntriesOfJobs'
  <2>1. \A u \in Tasks : processing'[u] # None =>
           /\ job'[processing'[u]].task = u
           /\ job'[processing'[u]].stage \in Working \cup {"notifying", "done"}
           /\ processing'[u] \notin cancelling'
           /\ job'[processing'[u]].stage \in {"notifying", "done"} => taskStatus'[u] \in Terminal
    BY <1>1, <1>5 DEF IInv, EntriesOfJobs
  <2>2. ASSUME NEW v \in Workers, job'[v].stage \in Working, v \notin cancelling'
        PROVE  processing'[job'[v].task] = v
    <3>1. v # w /\ job'[v] = job[v]
      BY <1>1, <2>2, StageFacts
    <3>2. processing[job[v].task] = v /\ job[v].task \in Tasks
      BY <1>1, <2>2, <3>1, StageFacts DEF IInv, EntriesOfJobs, JobsOfWorkers
    <3>3. job[v].task # t
      BY <1>3, <3>1, <3>2, QueueAssumption
    <3>4. QED
      BY <1>4, <3>1, <3>2, <3>3
  <2>3. QED
    BY <2>1, <2>2 DEF EntriesOfJobs
<1>8. CancelledTasksAreOut'
  <2> SUFFICES ASSUME NEW v \in Workers,
                      \/ v \in cancelling
                      \/ job'[v].stage \in {"notifying", "done"} /\ processing'[job'[v].task] # v
               PROVE  /\ copies[job'[v].task] = 0
                      /\ processing'[job'[v].task] = None
                      /\ taskStatus[job'[v].task] \in Terminal
    BY <1>1 DEF CancelledTasksAreOut
  <2>1. v # w /\ job'[v] = job[v] /\ job[v].task \in Tasks
    BY <1>1, <1>2, StageFacts DEF IInv, JobsOfWorkers
  <2>2. processing[job[v].task] # v \/ v \in cancelling
    BY <1>3, <1>4, <2>1, QueueAssumption
  <2>3. QED
    BY <1>4, <2>1, <2>2 DEF IInv, CancelledTasksAreOut
<1>9. RunsOfHeldTasks' /\ CancelledRunIsOut' /\ CompletedTaskHasCompletedRun'
  BY <1>1, StageFacts DEF IInv, RunsOfHeldTasks, CancelledRunIsOut, CompletedTaskHasCompletedRun
<1>10. SingleExecution'
  BY <1>1, StageFacts DEF IInv, SingleExecution, WorksOn
<1>11. NoTaskLost'
  BY <1>1, StageFacts DEF IInv, NoTaskLost, WorksOn
<1>12. QED
  BY <1>6, <1>7, <1>8, <1>9, <1>10, <1>11 DEF IInv

\* AgentWorker.process may write its run although a cancellation is on its way:
\* the task of that run is over already, and out of the heap.
LEMMA HandlerStartStep ==
    ASSUME TypeOK, IInv, NEW w \in Workers, HandlerStart(w)
    PROVE  IInv'
<1> DEFINE t == job[w].task
<1>1. /\ job[w].stage = "waiting"
      /\ UNCHANGED <<taskStatus, copies, processing, worker, cancelling, up, recovery>>
      /\ runStatus'[t] # "cancelled" \/ runStatus'[t] = runStatus[t]
      /\ \A u \in Tasks \ {t} : runStatus'[u] = runStatus[u]
      /\ job'[w].task = t /\ job'[w].stage \in {"raised", "handling"}
      /\ \A v \in Workers \ {w} : job'[v] = job[v]
  BY DEF HandlerStart, JobStep, SetStage, TypeOK, life
<1>2. t \in Tasks /\ worker[w] = "awaiting"
  BY <1>1 DEF IInv, JobsOfWorkers
<1>3. job[w].stage \in Working /\ job'[w].stage \in Working
  BY <1>1, StageFacts
<1>4. taskStatus[t] # "completed" /\ taskStatus[t] # "none"
  BY <1>1, <1>3 DEF IInv, RunsOfHeldTasks
<1>5. \A v \in Workers \ {w} : job[v].stage \in Working => job[v].task \in Tasks \ {t}
  BY <1>2, <1>3, StageFacts DEF IInv, SingleExecution, WorksOn, JobsOfWorkers
<1> HIDE DEF t
<1>6. JobsOfWorkers'
  BY <1>1, <1>2, <1>3 DEF IInv, JobsOfWorkers
<1>7. EntriesOfJobs'
  <2>1. \A u \in Tasks : processing'[u] # None =>
           /\ job'[processing'[u]].task = u
           /\ job'[processing'[u]].stage \in Working \cup {"notifying", "done"}
           /\ processing'[u] \notin cancelling'
           /\ job'[processing'[u]].stage \in {"notifying", "done"} => taskStatus'[u] \in Terminal
    <3> SUFFICES ASSUME NEW u \in Tasks, processing[u] # None
                 PROVE  /\ job'[processing[u]].task = u
                        /\ job'[processing[u]].stage \in Working \cup {"notifying", "done"}
                        /\ processing[u] \notin cancelling
                        /\ job'[processing[u]].stage \in {"notifying", "done"} => taskStatus[u] \in Terminal
      BY <1>1
    <3>1. CASE processing[u] = w
      BY <1>1, <1>3, <3>1, StageFacts DEF IInv, EntriesOfJobs, t
    <3>2. CASE processing[u] # w
      BY <1>1, <3>2 DEF IInv, EntriesOfJobs, TypeOK
    <3>3. QED
      BY <3>1, <3>2
  <2>2. \A v \in Workers : job'[v].stage \in Working /\ v \notin cancelling'
                              => processing'[job'[v].task] = v
    BY <1>1, <1>3 DEF IInv, EntriesOfJobs, t
  <2>3. QED
    BY <2>1, <2>2 DEF EntriesOfJobs
<1>8. CancelledTasksAreOut'
  BY <1>1, <1>3 DEF IInv, CancelledTasksAreOut, t
<1>9. RunsOfHeldTasks'
  <2>1. \A u \in Tasks : copies'[u] > 0 => taskStatus'[u] # "none"
    BY <1>1 DEF IInv, RunsOfHeldTasks
  <2>2. ASSUME NEW v \in Workers, job'[v].stage \in Working
        PROVE  /\ taskStatus'[job'[v].task] # "none"
               /\ v \notin cancelling' => runStatus'[job'[v].task] # "cancelled"
               /\ job'[v].stage \in {"reporting", "returned"} =>
                     runStatus'[job'[v].task] = "completed"
               /\ job'[v].stage \in {"waiting", "handling"} =>
                     taskStatus'[job'[v].task] # "completed"
    <3>1. CASE v = w
      BY <1>1, <1>3, <1>4, <3>1 DEF IInv, RunsOfHeldTasks, t
    <3>2. CASE v # w
      BY <1>1, <1>5, <2>2, <3>2 DEF IInv, RunsOfHeldTasks
    <3>3. QED
      BY <3>1, <3>2
  <2>3. QED
    BY <2>1, <2>2 DEF RunsOfHeldTasks
<1>10. SingleExecution'
  BY <1>1, <1>3 DEF IInv, SingleExecution, WorksOn, t
<1>11. CancelledRunIsOut'
  BY <1>1 DEF IInv, CancelledRunIsOut
<1>12. NoTaskLost'
  <2> SUFFICES ASSUME up, recovery = "done", NEW u \in Tasks, taskStatus[u] \in Unfinished,
                      ~(copies[u] > 0)
               PROVE  \E v \in Workers : WorksOn(v, u)' /\ v \notin cancelling
    BY <1>1 DEF NoTaskLost
  <2>1. PICK v \in Workers : WorksOn(v, u) /\ v \notin cancelling
    BY DEF IInv, NoTaskLost
  <2>2. QED
    BY <1>1, <1>3, <2>1 DEF WorksOn, t
<1>13. CompletedTaskHasCompletedRun'
  BY <1>1, <1>4 DEF IInv, CompletedTaskHasCompletedRun
<1>14. QED
  BY <1>6, <1>7, <1>8, <1>9, <1>10, <1>11, <1>12, <1>13 DEF IInv

\* What _process_task records is final for its task, which nobody else runs.
LEMMA FinishStep ==
    ASSUME TypeOK, IInv, NEW w \in Workers, Finish(w)
    PROVE  IInv'
<1> DEFINE t == job[w].task
<1>1. /\ job[w].stage \in {"returned", "raised"}
      /\ UNCHANGED <<runStatus, copies, processing, worker, up, recovery>>
      /\ cancelling' = cancelling \ {w}
      /\ \A u \in Tasks \ {t} : taskStatus'[u] = taskStatus[u]
      /\ job'[w].task = t /\ job'[w].stage = "notifying"
      /\ \A v \in Workers \ {w} : job'[v] = job[v]
  BY DEF Finish, Record, JobStep, SetStage, TypeOK, life
<1>2. t \in Tasks /\ worker[w] = "awaiting"
  BY <1>1 DEF IInv, JobsOfWorkers
<1>3. job[w].stage \in Working /\ job'[w].stage \notin Working
  BY <1>1, StageFacts
<1>4. /\ taskStatus'[t] \in {"completed", "failed"}
      /\ taskStatus'[t] = "completed" => runStatus[t] = "completed"
  BY <1>2, <1>3 DEF Finish, Record, JobStep, TypeOK, IInv, RunsOfHeldTasks
<1>5. \A v \in Workers \ {w} : job[v].stage \in Working => job[v].task \in Tasks \ {t}
  BY <1>2, <1>3, StageFacts DEF IInv, SingleExecution, WorksOn, JobsOfWorkers
<1>6. taskStatus'[t] \in Terminal /\ taskStatus'[t] \notin Unfinished /\ taskStatus'[t] # "none"
  BY <1>4 DEF Terminal, Unfinished
<1>7. JobsOfWorkers'
  BY <1>1, <1>2, <1>3 DEF IInv, JobsOfWorkers
<1>8. EntriesOfJobs'
  <2>1. \A u \in Tasks : processing'[u] # None =>
           /\ job'[processing'[u]].task = u
           /\ job'[processing'[u]].stage \in Working \cup {"notifying", "done"}
           /\ processing'[u] \notin cancelling'
           /\ job'[processing'[u]].stage \in {"notifying", "done"} => taskStatus'[u] \in Terminal
    <3> SUFFICES ASSUME NEW u \in Tasks, processing[u] # None
                 PROVE  /\ job'[processing[u]].task = u
                        /\ job'[processing[u]].stage \in Working \cup {"notifying", "done"}
                        /\ processing[u] \notin cancelling \ {w}
                        /\ job'[processing[u]].stage \in {"notifying", "done"} => taskStatus'[u] \in Terminal
      BY <1>1
    <3>1. CASE processing[u] = w
      BY <1>1, <1>6, <3>1 DEF IInv, EntriesOfJobs
    <3>2. CASE processing[u] # w
      <4>1. job'[processing[u]] = job[processing[u]]
        BY <1>1, <3>2 DEF TypeOK
      <4>2. taskStatus[u] \in Terminal => taskStatus'[u] \in Terminal
        BY <1>1, <1>6
      <4>3. QED
        BY <4>1, <4>2 DEF IInv, EntriesOfJobs
    <3>3. QED
      BY <3>1, <3>2
  <2>2. \A v \in Workers : job'[v].stage \in Working /\ v \notin cancelling'
                              => processing'[job'[v].task] = v
    BY <1>1, <1>3 DEF IInv, EntriesOfJobs
  <2>3. QED
    BY <2>1, <2>2 DEF EntriesOfJobs
<1>9. CancelledTasksAreOut'
  <2> SUFFICES ASSUME NEW v \in Workers,
                      \/ v \in cancelling \ {w}
                      \/ job'[v].stage \in {"notifying", "done"} /\ processing[job'[v].task] # v
               PROVE  /\ copies[job'[v].task] = 0
                      /\ processing[job'[v].task] = None
                      /\ taskStatus'[job'[v].task] \in Terminal
    BY <1>1 DEF CancelledTasksAreOut
  <2>1. CASE v = w
    <3>1. processing[t] # w
      BY <1>1, <2>1
    <3>2. w \in cancelling
      BY <1>3, <3>1 DEF IInv, EntriesOfJobs
    <3>3. QED
      BY <1>1, <1>6, <2>1, <3>2 DEF IInv, CancelledTasksAreOut
  <2>2. CASE v # w
    <3>1. job'[v] = job[v] /\ job[v].task \in Tasks
      BY <1>1, <2>2, StageFacts DEF IInv, JobsOfWorkers
    <3>2. QED
      BY <1>1, <1>6, <2>2, <3>1 DEF IInv, CancelledTasksAreOut
  <2>3. QED
    BY <2>1, <2>2
<1>10. RunsOfHeldTasks'
  <2>1. \A u \in Tasks : copies'[u] > 0 => taskStatus'[u] # "none"
    BY <1>1, <1>6 DEF IInv, RunsOfHeldTasks
  <2>2. ASSUME NEW v \in Workers, job'[v].stage \in Working
        PROVE  v # w /\ job'[v] = job[v] /\ taskStatus'[job[v].task] = taskStatus[job[v].task]
    BY <1>1, <1>3, <1>5, <2>2
  <2>3. QED
    BY <1>1, <2>1, <2>2 DEF IInv, RunsOfHeldTasks
<1>11. SingleExecution'
  BY <1>1, <1>3 DEF IInv, SingleExecution, WorksOn
<1>12. CancelledRunIsOut' /\ CompletedTaskHasCompletedRun'
  BY <1>1, <1>4, <1>6 DEF IInv, CancelledRunIsOut, CompletedTaskHasCompletedRun
<1>13. NoTaskLost'
  <2> SUFFICES ASSUME up, recovery = "done", NEW u \in Tasks, taskStatus'[u] \in Unfinished,
                      ~(copies[u] > 0)
               PROVE  \E v \in Workers : WorksOn(v, u)' /\ v \notin cancelling'
    BY <1>1 DEF NoTaskLost
  <2>1. u # t /\ taskStatus[u] \in Unfinished
    BY <1>1, <1>6
  <2>2. PICK v \in Workers : WorksOn(v, u) /\ v \notin cancelling
    BY <2>1 DEF IInv, NoTaskLost
  <2>3. v # w
    BY <2>1, <2>2 DEF WorksOn
  <2>4. QED
    BY <1>1, <2>2, <2>3 DEF WorksOn
<1>14. QED
  BY <1>7, <1>8, <1>9, <1>10, <1>11, <1>12, <1>13 DEF IInv

\* A step keeps the inductive invariant.
LEMMA InductiveStep ==
    ASSUME TypeOK, IInv, [Next]_vars
    PROVE  IInv'
<1> USE QueueAssumption DEF TypeOK, TaskStatus, RunStatus, Unfinished, Terminal,
        Stages, Working, WorksOn, IInv, JobsOfWorkers, EntriesOfJobs, CancelledTasksAreOut,
        RunsOfHeldTasks, SingleExecution, CancelledRunIsOut, NoTaskLost,
        CompletedTaskHasCompletedRun
<1>1. CASE Startup
  BY <1>1 DEF Startup, Forget, NoJob, db
<1>2. CASE RecoverTasks
  BY <1>2 DEF RecoverTasks, pool
<1>3. CASE StopWorkers
  BY <1>3 DEF StopWorkers, db, pool
<1>4. CASE Shutdown
  BY <1>4 DEF Shutdown, ProcessGone, Forget, NoJob, db
<1>5. CASE Crash
  BY <1>5 DEF Crash, MayAdd, ProcessGone, Forget, NoJob
<1>6. ASSUME NEW t \in Tasks, CreateAgentRun(t)
      PROVE  IInv'
  BY <1>6, CreateAgentRunStep
<1>7. ASSUME NEW t \in Tasks, CancelRun(t)
      PROVE  IInv'
  BY <1>7, CancelRunStep
<1>8. ASSUME NEW t \in Tasks, DeleteTask(t)
      PROVE  IInv'
  BY <1>8 DEF DeleteTask, pool, life
<1>9. ASSUME NEW w \in Workers, WorkerExit(w)
      PROVE  IInv'
  BY <1>9 DEF WorkerExit, db, life
<1>10. ASSUME NEW w \in Workers, NEW t \in Tasks, Take(w, t)
      PROVE  IInv'
  BY <1>10, TakeStep
<1>11. ASSUME NEW w \in Workers, Resume(w)
      PROVE  IInv'
  BY <1>11, ResumeStep
<1>12. ASSUME NEW w \in Workers, Die(w)
      PROVE  IInv'
  BY <1>12 DEF Die, NoJob, db, life
<1>13. ASSUME NEW w \in Workers, Start(w)
      PROVE  IInv'
  BY <1>13 DEF Start, JobStep, SetStage, life
<1>14. ASSUME NEW w \in Workers, HandlerStart(w)
      PROVE  IInv'
  BY <1>14, HandlerStartStep
<1>15. ASSUME NEW w \in Workers, HandlerReturn(w)
      PROVE  IInv'
  BY <1>15 DEF HandlerReturn, JobStep, SetStage, db, life
<1>16. ASSUME NEW w \in Workers, HandlerComplete(w)
      PROVE  IInv'
  BY <1>16 DEF HandlerComplete, JobStep, SetStage, life
<1>17. ASSUME NEW w \in Workers, HandlerFail(w)
      PROVE  IInv'
  BY <1>17 DEF HandlerFail, JobStep, SetStage, life
<1>18. ASSUME NEW w \in Workers, Finish(w)
      PROVE  IInv'
  BY <1>18, FinishStep
<1>19. ASSUME NEW w \in Workers, Timeout(w)
      PROVE  IInv'
  BY <1>19 DEF Timeout, Record, JobStep, SetStage, life
<1>20. ASSUME NEW w \in Workers, DeliverCancel(w)
      PROVE  IInv'
  BY <1>20 DEF DeliverCancel, JobStep, SetStage, db, life
<1>21. ASSUME NEW w \in Workers, Notified(w)
      PROVE  IInv'
  BY <1>21 DEF Notified, JobStep, SetStage, db, life
<1>22. CASE UNCHANGED vars
  BY <1>22 DEF vars, db, pool, life
<1>23. QED
  BY <1>1, <1>2, <1>3, <1>4, <1>5, <1>6, <1>7, <1>8, <1>9, <1>10, <1>11, <1>12, <1>13, <1>14, <1>15, <1>16, <1>17, <1>18, <1>19, <1>20, <1>21, <1>22
     DEF Next, Request, WorkerStep, JobProgress, HandlerEnd

\* Every reachable state satisfies the inductive invariant.
THEOREM InductiveInvariant == Spec => []IInv
<1>1. Init => IInv
  BY QueueAssumption DEF Init, NoJob, IInv, JobsOfWorkers, EntriesOfJobs, CancelledTasksAreOut,
     RunsOfHeldTasks, SingleExecution, CancelledRunIsOut, NoTaskLost,
     CompletedTaskHasCompletedRun, Working, WorksOn, Terminal, Unfinished
<1>2. TypeOK /\ IInv /\ [Next]_vars => IInv'
  BY InductiveStep
<1>3. QED
  BY <1>1, <1>2, TypeCorrect, PTL DEF Spec

-----------------------------------------------------------------------------
(* The safety properties                                                    *)

\* No task is ever run by two process_tasks at once, whatever recovery, cancel
\* and timeout do: the check of _processing in _worker_loop is enough.
THEOREM SingleExecutionHolds == Spec => []SingleExecution
  BY InductiveInvariant, PTL DEF IInv

\* A run that cancel_agent_run cancelled is never picked up again.
THEOREM CancelledRunIsOutHolds == Spec => []CancelledRunIsOut
  BY InductiveInvariant, PTL DEF IInv

\* After recover_tasks no unfinished task is forgotten by the process.
THEOREM NoTaskLostHolds == Spec => []NoTaskLost
  BY InductiveInvariant, PTL DEF IInv

\* A task shown as completed has a completed agent run.
THEOREM CompletedTaskHasCompletedRunHolds == Spec => []CompletedTaskHasCompletedRun
  BY InductiveInvariant, PTL DEF IInv
-----------------------------------------------------------------------------
(* What is finished stays finished                                          *)

\* A task that recovery has not doubled is held once: by one heap entry, or by
\* one process_task.  While it is held it is not over by itself, and when its
\* process_task has no more to write it is over.
HeldOnce(t) ==
    /\ copies[t] <= 1
    /\ Held(t) => taskStatus[t] \notin {"none", "completed", "failed"}
    /\ \A w \in Workers : job[w].task = t =>
          /\ copies[t] = 0
          /\ \A v \in Workers : job[v].task = t => v = w
          /\ \/ job[w].stage \in Working
             \/ job[w].stage # "none" /\ taskStatus[t] \in Terminal

OnceInv ==
    /\ recovery # "done" => doubled = {}
    /\ \A t \in Tasks \ doubled : HeldOnce(t)

\* A step keeps OnceInv.  Only recovery can add to a task that is held, and what
\* it adds to is doubled.
LEMMA OnceStep ==
    ASSUME TypeOK, IInv, OnceInv, [Next]_vars
    PROVE  OnceInv'
<1> USE QueueAssumption DEF TypeOK, Stages, Working, WorksOn, Held, HeldOnce, OnceInv,
        Terminal, Unfinished, TaskStatus
<1>0. \A w \in Workers : worker[w] = "idle" => job[w].stage = "none"
  BY DEF IInv, JobsOfWorkers
<1>1. ASSUME Forget("idle") \/ Forget("off"), recovery' # "done"
      PROVE  OnceInv'
  BY <1>1 DEF Forget, NoJob
<1>2. CASE Startup \/ Shutdown \/ Crash
  BY <1>1, <1>2 DEF Startup, Shutdown, Crash, ProcessGone
<1>3. CASE RecoverTasks
  BY <1>3 DEF RecoverTasks, pool
<1>4. CASE StopWorkers
  BY <1>4 DEF StopWorkers, db, pool
<1>5. ASSUME NEW t \in Tasks, CreateAgentRun(t)
      PROVE  OnceInv'
  BY <1>5 DEF CreateAgentRun, MayAdd, pool, life
<1>6. ASSUME NEW t \in Tasks, CancelRun(t)
      PROVE  OnceInv'
  BY <1>6 DEF CancelRun, MayCancel, life
<1>7. ASSUME NEW t \in Tasks, DeleteTask(t)
      PROVE  OnceInv'
  BY <1>7 DEF DeleteTask, pool, life
<1>8. ASSUME NEW w \in Workers, WorkerExit(w)
      PROVE  OnceInv'
  BY <1>8 DEF WorkerExit, db, life
<1>9. ASSUME NEW w \in Workers, NEW t \in Tasks, Take(w, t)
      PROVE  OnceInv'
  <2>1. UNCHANGED <<taskStatus, doubled, recovery>> /\ copies[t] > 0
    BY <1>9 DEF Take, IsHead, db, life
  <2>2. SUFFICES ASSUME NEW u \in Tasks \ doubled PROVE HeldOnce(u)'
    BY <2>1
  <2>3. CASE UNCHANGED <<copies, job>>
    BY <2>1, <2>3
  <2>4. CASE /\ copies' = [copies EXCEPT ![t] = @ - 1]
             /\ job' = [job EXCEPT ![w] = [task |-> t, stage |-> "created"]]
    <3>1. job'[w].task = t /\ job'[w].stage = "created" /\ \A v \in Workers \ {w} : job'[v] = job[v]
      BY <2>4
    <3>2. CASE u = t
      <4>1. \A v \in Workers : job[v].task # t
        BY <2>1, <3>2
      <4>2. copies'[t] = 0 /\ taskStatus'[t] \notin {"none", "completed", "failed"}
        BY <2>1, <2>4, <3>2
      <4>3. QED
        BY <3>1, <3>2, <4>1, <4>2
    <3>3. CASE u # t
      BY <2>1, <2>4, <3>1, <3>3
    <3>4. QED
      BY <3>2, <3>3
  <2>5. QED
    BY <1>9, <2>3, <2>4 DEF Take
<1>10. ASSUME NEW w \in Workers, Resume(w) \/ Die(w)
       PROVE  OnceInv'
  <2>1. /\ UNCHANGED <<taskStatus, copies, doubled, recovery>>
        /\ job'[w].task = None /\ job'[w].stage = "none"
        /\ \A v \in Workers \ {w} : job'[v] = job[v]
    BY <1>10 DEF Resume, Die, NoJob, db, life
  <2>2. QED
    BY <2>1
<1>11. ASSUME NEW w \in Workers, Start(w)
       PROVE  OnceInv'
  BY <1>11 DEF Start, JobStep, SetStage, life
<1>12. ASSUME NEW w \in Workers, HandlerStart(w) \/ HandlerComplete(w) \/ HandlerReturn(w)
                                   \/ HandlerFail(w)
       PROVE  OnceInv'
  <2>1. /\ UNCHANGED <<taskStatus, copies, doubled, recovery>>
        /\ job[w].stage \in Working
        /\ job'[w].task = job[w].task /\ job'[w].stage \in Working
        /\ \A v \in Workers \ {w} : job'[v] = job[v]
    BY <1>12 DEF HandlerStart, HandlerComplete, HandlerReturn, HandlerFail, JobStep, SetStage, db, life
  <2>2. QED
    BY <2>1
<1>13. ASSUME NEW w \in Workers, Finish(w) \/ Timeout(w)
       PROVE  OnceInv'
  <2>1. /\ UNCHANGED <<copies, doubled, recovery>>
        /\ job[w].stage \in Working
        /\ job'[w].task = job[w].task /\ job'[w].stage = "notifying"
        /\ \A v \in Workers \ {w} : job'[v] = job[v]
        /\ \A u \in Tasks \ {job[w].task} : taskStatus'[u] = taskStatus[u]
        /\ job[w].task \in Tasks => taskStatus'[job[w].task] \in Terminal
    BY <1>13 DEF Finish, Timeout, Record, JobStep, SetStage, life
  <2>2. SUFFICES ASSUME NEW u \in Tasks \ doubled PROVE HeldOnce(u)'
    BY <2>1
  <2>3. CASE u = job[w].task
    <3>1. copies[u] = 0 /\ \A v \in Workers : job[v].task = u => v = w
      BY <2>3
    <3>2. copies'[u] = 0 /\ \A v \in Workers : job'[v].task = u => v = w
      BY <2>1, <3>1
    <3>3. \A v \in Workers : job'[v].task = u => job'[v].stage = "notifying"
      BY <2>1, <3>2
    <3>4. taskStatus'[u] \in Terminal
      BY <2>1, <2>3
    <3>5. QED
      BY <3>2, <3>3, <3>4
  <2>4. CASE u # job[w].task
    BY <2>1, <2>4
  <2>5. QED
    BY <2>3, <2>4
<1>14. ASSUME NEW w \in Workers, DeliverCancel(w)
       PROVE  OnceInv'
  BY <1>14 DEF DeliverCancel, JobStep, SetStage, db, life, IInv, CancelledTasksAreOut
<1>15. ASSUME NEW w \in Workers, Notified(w)
       PROVE  OnceInv'
  BY <1>15 DEF Notified, JobStep, SetStage, db, life
<1>16. CASE UNCHANGED vars
  BY <1>16 DEF vars, db, pool, life
<1>17. QED
  BY <1>2, <1>3, <1>4, <1>5, <1>6, <1>7, <1>8, <1>9, <1>10, <1>11, <1>12, <1>13, <1>14, <1>15,
     <1>16 DEF Next, Request, WorkerStep, JobProgress, HandlerEnd

\* In every reachable state a task that recovery has not doubled is held once.
LEMMA OnceHolds == Spec => [](TypeOK /\ IInv /\ OnceInv)
<1>1. Init => OnceInv
  BY QueueAssumption DEF Init, NoJob, OnceInv, HeldOnce, Held, WorksOn, Working
<1>2. TypeOK /\ IInv /\ OnceInv /\ [Next]_vars => OnceInv'
  BY OnceStep
<1>3. QED
  BY <1>1, <1>2, TypeCorrect, InductiveInvariant, PTL DEF Spec
\* A step changes the status of a completed or failed task only when recovery has
\* doubled it: whoever writes a status holds the task.
LEMMA FinishedStep ==
    ASSUME TypeOK, IInv, OnceInv, [Next]_vars,
           NEW t \in Tasks \ doubled, taskStatus[t] \in {"completed", "failed"}
    PROVE  taskStatus'[t] = taskStatus[t]
<1> USE DEF TypeOK, Stages, TaskStatus, Unfinished, Terminal
<1>1. \A w \in Workers : job[w].task = t => job[w].stage \notin Working
  BY DEF OnceInv, HeldOnce, Held, WorksOn
<1>2. CASE Startup \/ StopWorkers \/ Shutdown \/ Crash \/ RecoverTasks
  BY <1>2 DEF Startup, StopWorkers, Shutdown, Crash, MayAdd, RecoverTasks, db
<1>3. ASSUME NEW u \in Tasks, Request(u)
      PROVE  taskStatus'[t] = taskStatus[t]
  BY <1>3 DEF Request, CreateAgentRun, MayAdd, CancelRun, MayCancel, DeleteTask
<1>4. ASSUME NEW w \in Workers, WorkerStep(w)
      PROVE  taskStatus'[t] = taskStatus[t]
  BY <1>4 DEF WorkerStep, WorkerExit, Take, Resume, Die, db
<1>5. ASSUME NEW w \in Workers, Start(w) \/ Finish(w) \/ Timeout(w)
      PROVE  taskStatus'[t] = taskStatus[t]
  <2>1. job[w].stage \in Working /\ \A u \in Tasks \ {job[w].task} : taskStatus'[u] = taskStatus[u]
    BY <1>5 DEF Start, Finish, Timeout, Record, JobStep, Working
  <2>2. QED
    BY <1>1, <2>1
<1>6. ASSUME NEW w \in Workers, HandlerStart(w) \/ HandlerReturn(w) \/ DeliverCancel(w) \/ Notified(w)
                                  \/ HandlerComplete(w) \/ HandlerFail(w)
      PROVE  taskStatus'[t] = taskStatus[t]
  BY <1>6 DEF HandlerStart, HandlerReturn, DeliverCancel, Notified, HandlerComplete, HandlerFail, db
<1>7. CASE UNCHANGED vars
  BY <1>7 DEF vars, db
<1>8. QED
  BY <1>2, <1>3, <1>4, <1>5, <1>6, <1>7 DEF Next, JobProgress, HandlerEnd

\* A completed or failed task keeps its status, unless recovery enqueued it twice:
\* late ends, timeouts and cancellations of other tasks' jobs do not touch it.
THEOREM FinishedOnceHolds == Spec => FinishedOnce
<1>1. TypeOK /\ IInv /\ OnceInv /\ [Next]_vars =>
        \A t \in Tasks \ doubled :
           taskStatus[t] \in {"completed", "failed"} => taskStatus'[t] = taskStatus[t]
  BY FinishedStep
<1>2. QED
  BY <1>1, OnceHolds, PTL DEF Spec, FinishedOnce

-----------------------------------------------------------------------------
(* What a worker is lost to                                                 *)

\* A worker that pops a task found in _processing pops a doubled one: of any other
\* task the process_task in _processing excludes a heap entry.
LEMMA BlockedStep ==
    ASSUME TypeOK, IInv, OnceInv, BlockedOnlyByDoubledTask, [Next]_vars
    PROVE  BlockedOnlyByDoubledTask'
<1> USE QueueAssumption DEF TypeOK, BlockedOnlyByDoubledTask, LoopBlocked
<1>1. CASE LoopBlocked
  <2>1. CASE Startup \/ Shutdown \/ Crash
    BY <2>1 DEF Startup, Shutdown, Crash, ProcessGone, Forget
  <2>2. CASE UNCHANGED vars
    BY <1>1, <2>2 DEF vars, pool
  <2>3. QED
    BY <1>1, <2>1, <2>2 DEF Next, StopWorkers, RecoverTasks, Serving, Request, CreateAgentRun,
       MayAdd, CancelRun, MayCancel, DeleteTask, WorkerStep, WorkerExit, Take, Resume, Die,
       JobProgress, HandlerEnd, JobStep, Start, HandlerStart, HandlerReturn, HandlerComplete,
       HandlerFail, Finish, Timeout, DeliverCancel, Notified
<1>2. CASE ~LoopBlocked
  <2>1. ASSUME NEW w \in Workers, NEW t \in Tasks, Take(w, t), processing[t] # None
        PROVE  t \in doubled /\ UNCHANGED doubled
    <3>1. copies[t] > 0 /\ UNCHANGED doubled
      BY <2>1 DEF Take, IsHead
    <3>2. processing[t] \in Workers /\ job[processing[t]].task = t
      BY <2>1 DEF IInv, EntriesOfJobs
    <3>3. QED
      BY <3>1, <3>2 DEF OnceInv, HeldOnce
  <2>2. CASE Startup \/ StopWorkers \/ Shutdown \/ Crash \/ RecoverTasks
    BY <1>2, <2>2 DEF Startup, StopWorkers, Shutdown, Crash, RecoverTasks, ProcessGone, Forget, pool
  <2>3. ASSUME NEW t \in Tasks, Request(t)
        PROVE  UNCHANGED worker
    BY <2>3 DEF Request, CreateAgentRun, CancelRun, DeleteTask, pool
  <2>4. ASSUME NEW w \in Workers, NEW t \in Tasks, Take(w, t)
        PROVE  BlockedOnlyByDoubledTask'
    <3>1. CASE processing[t] # None
      BY <2>1, <2>4, <3>1
    <3>2. CASE processing[t] = None
      BY <1>2, <2>4, <3>2 DEF Take
    <3>3. QED
      BY <3>1, <3>2
  <2>5. ASSUME NEW w \in Workers, WorkerExit(w) \/ Resume(w) \/ Die(w)
        PROVE  BlockedOnlyByDoubledTask'
    BY <1>2, <2>5 DEF WorkerExit, Resume, Die
  <2>6. ASSUME NEW w \in Workers, JobProgress(w) \/ HandlerEnd(w)
        PROVE  UNCHANGED worker
    BY <2>6 DEF JobProgress, HandlerEnd, Start, HandlerStart, HandlerReturn, HandlerComplete,
       HandlerFail, Finish, Timeout, Record, DeliverCancel, Notified
  <2>7. CASE UNCHANGED vars
    BY <1>2, <2>7 DEF vars, pool
  <2>8. QED
    BY <1>2, <2>2, <2>3, <2>4, <2>5, <2>6, <2>7 DEF Next, WorkerStep
<1>3. QED
  BY <1>1, <1>2

\* The event loop is blocked only by a task that recover_tasks enqueued although
\* the process held it.
THEOREM BlockedOnlyByDoubledTaskHolds == Spec => []BlockedOnlyByDoubledTask
<1>1. Init => BlockedOnlyByDoubledTask
  BY DEF Init, BlockedOnlyByDoubledTask, LoopBlocked
<1>2. TypeOK /\ IInv /\ OnceInv /\ BlockedOnlyByDoubledTask /\ [Next]_vars
        => BlockedOnlyByDoubledTask'
  BY BlockedStep
<1>3. QED
  BY <1>1, <1>2, OnceHolds, PTL DEF Spec
\* The workers that are dead, or that die when their process_task has unwound from
\* a cancellation, delivered or not.
Lost == {w \in Workers : worker[w] = "dead"} \cup cancelling
          \cup {w \in Workers : job[w].stage = "cancelled"}

LostInv == IsFiniteSet(Lost) /\ Cardinality(Lost) <= cancels

\* A set of lost workers that does not grow stays within the cancellations.
LEMMA LostShrinks ==
    ASSUME TypeOK, LostInv, Lost' \subseteq Lost, cancels' \in Nat, cancels <= cancels'
    PROVE  LostInv'
<1>1. IsFiniteSet(Lost') /\ Cardinality(Lost') <= Cardinality(Lost)
  BY FS_Subset DEF LostInv
<1>2. Cardinality(Lost') \in Nat /\ Cardinality(Lost) \in Nat
  BY <1>1, FS_CardinalityType DEF LostInv
<1>3. QED
  BY <1>1, <1>2 DEF LostInv, TypeOK

\* cancel_task of a running task adds one worker and one cancellation; no other
\* step adds a worker, Die only moves one.
LEMMA LostStep ==
    ASSUME TypeOK, IInv, LostInv, [Next]_vars
    PROVE  LostInv'
<1> USE QueueAssumption DEF TypeOK, Stages, Working, Lost
<1>1. CASE Startup \/ Shutdown \/ Crash
  <2>1. Lost' = {} /\ cancels' = 0
    BY <1>1 DEF Startup, Shutdown, Crash, ProcessGone, Forget, NoJob
  <2>2. IsFiniteSet(Lost') /\ Cardinality(Lost') = 0
    BY <2>1, FS_EmptySet
  <2>3. QED
    BY <2>1, <2>2 DEF LostInv
<1>2. ASSUME NEW t \in Tasks, CancelRun(t)
      PROVE  LostInv'
  <2>1. CASE processing[t] = None
    BY <1>2, <2>1, LostShrinks DEF CancelRun
  <2>2. CASE processing[t] # None
    <3>1. Lost' = Lost \cup {processing[t]} /\ cancels' = cancels + 1
      BY <1>2, <2>2 DEF CancelRun
    <3>2. /\ IsFiniteSet(Lost')
          /\ Cardinality(Lost') \in {Cardinality(Lost), Cardinality(Lost) + 1}
      BY <3>1, FS_AddElement DEF LostInv
    <3>3. Cardinality(Lost) \in Nat
      BY FS_CardinalityType DEF LostInv
    <3>4. QED
      BY <3>1, <3>2, <3>3 DEF LostInv
  <2>3. QED
    BY <2>1, <2>2
<1>3. CASE StopWorkers \/ RecoverTasks \/ UNCHANGED vars
  BY <1>3, LostShrinks DEF StopWorkers, RecoverTasks, vars, pool
<1>4. ASSUME NEW t \in Tasks, CreateAgentRun(t) \/ DeleteTask(t)
      PROVE  LostInv'
  BY <1>4, LostShrinks DEF CreateAgentRun, DeleteTask, pool
<1>5. ASSUME NEW w \in Workers, WorkerStep(w)
      PROVE  LostInv'
  <2>1. Lost' \subseteq Lost /\ UNCHANGED cancels
    BY <1>5 DEF WorkerStep, WorkerExit, Take, Resume, Die, NoJob
  <2>2. QED
    BY <2>1, LostShrinks
<1>6. ASSUME NEW w \in Workers, JobProgress(w) \/ HandlerEnd(w)
      PROVE  LostInv'
  <2>1. Lost' \subseteq Lost /\ UNCHANGED cancels
    BY <1>6 DEF JobProgress, HandlerEnd, Start, HandlerStart, HandlerReturn, HandlerComplete,
       HandlerFail, Finish, Timeout, Record, DeliverCancel, Notified, SetStage
  <2>2. QED
    BY <2>1, LostShrinks
<1>7. QED
  BY <1>1, <1>2, <1>3, <1>4, <1>5, <1>6 DEF Next, Request

\* Worker coroutines end only because running tasks were cancelled: at most one
\* for each such cancellation of this process.
THEOREM WorkersLostOnlyByCancelHolds == Spec => []WorkersLostOnlyByCancel
<1>1. Init => LostInv
  <2>1. Init => Lost = {} /\ cancels = 0
    BY DEF Init, Lost, NoJob
  <2>2. QED
    BY <2>1, FS_EmptySet DEF LostInv
<1>2. TypeOK /\ IInv /\ LostInv /\ [Next]_vars => LostInv'
  BY LostStep
<1>3. TypeOK /\ LostInv => WorkersLostOnlyByCancel
  <2> SUFFICES ASSUME TypeOK, LostInv PROVE WorkersLostOnlyByCancel
    OBVIOUS
  <2> DEFINE dead == {w \in Workers : worker[w] = "dead"}
  <2>1. dead \subseteq Lost
    BY DEF Lost
  <2>2. IsFiniteSet(dead) /\ Cardinality(dead) <= Cardinality(Lost)
    BY <2>1, FS_Subset DEF LostInv
  <2>3. Cardinality(dead) \in Nat /\ Cardinality(Lost) \in Nat
    BY <2>2, FS_CardinalityType DEF LostInv
  <2>4. QED
    BY <2>2, <2>3 DEF LostInv, TypeOK, WorkersLostOnlyByCancel
<1>4. QED
  BY <1>1, <1>2, <1>3, TypeCorrect, InductiveInvariant, PTL DEF Spec
=============================================================================
