--------------------------- MODULE AgentTaskQueue ---------------------------
(***************************************************************************)
(* The in-process queue that runs agent tasks: backend/queue/queue.py, its *)
(* handler AgentWorker.process (backend/workers/agent_worker.py), the      *)
(* callers that create and cancel runs (services/agent/runtime.py) and the *)
(* task endpoint that cancels any task (api/tasks/routes.py).              *)
(*                                                                         *)
(* Everything runs on one asyncio event loop.  No critical section of      *)
(* queue.py awaits while it holds _queue_lock or _processing_lock, so      *)
(* neither lock is ever found taken and acquiring one never suspends: the  *)
(* code between two awaits that really suspend is one action here.         *)
(***************************************************************************)
EXTENDS Naturals, FiniteSets

CONSTANTS Tasks,            \* task ids, numbered in the order they are created
          Workers,          \* the max_workers coroutines running _worker_loop
          Priority,         \* Task.priority of each task
          MaxSize,          \* TaskQueue.max_size
          RecoveryEnabled,  \* agents.recover_pending_tasks
          MaxBoots,         \* bound: how often the backend process is started
          None

ASSUME QueueAssumption ==
    /\ Tasks \subseteq Nat
    /\ Priority \in [Tasks -> Nat]
    /\ MaxSize \in Nat
    /\ MaxBoots \in Nat
    /\ RecoveryEnabled \in BOOLEAN
    /\ None \notin Tasks \cup Workers

VARIABLES taskStatus,  \* tasks.status in the database
          runStatus,   \* agent_runs.status in the database
          copies,      \* how often a task id stands in the heap _queue
          processing,  \* _processing: the worker whose process_task runs the task
          worker,      \* where each _worker_loop stands
          job,         \* the process_task a worker awaits: its task and stage
          cancelling,  \* workers whose process_task has a cancel() still to be delivered
          up,          \* the backend process is running
          running,     \* _running
          recovery,    \* _recover_agent_tasks_later: "off", "scheduled" or "done"
          boots,       \* starts of the process so far
          cancels,     \* history: cancellations of a process_task in this process
          doubled      \* history: tasks recover_tasks enqueued while already held

db   == <<taskStatus, runStatus>>
pool == <<processing, worker, job, cancelling>>
life == <<up, running, recovery, boots>>
vars == <<db, copies, pool, life, cancels, doubled>>

Unfinished == {"pending", "queued", "processing"}
Terminal   == {"completed", "failed", "cancelled"}
TaskStatus == {"none"} \cup Unfinished \cup Terminal
RunStatus  == {"none", "queued", "running"} \cup Terminal

\* The stages of _process_task up to the Task.update that records its outcome.
\* "created": scheduled, not started; "waiting": wait_for has scheduled the
\* handler; "handling": inside AgentWorker.process; "reporting": the run is
\* recorded, the last update_progress is awaited; "returned", "raised": the
\* handler's task is done and wait_for has not resumed yet.
Working == {"created", "waiting", "handling", "reporting", "returned", "raised"}
Stages  == Working \cup {"none", "notifying", "done", "cancelled"}
NoJob   == [task |-> None, stage |-> "none"]

WorkerStates == {"off", "idle", "awaiting", "spinning", "dead"}

-----------------------------------------------------------------------------
(* State functions                                                          *)

QueueSize == Cardinality(UNION {{t} \X (1 .. copies[t]) : t \in Tasks})

\* QueueItem.__lt__: higher priority first, then the task created earlier.
Before(t, u) == \/ Priority[t] > Priority[u]
                \/ Priority[t] = Priority[u] /\ t < u

\* The item heappop returns.
IsHead(t) == /\ copies[t] > 0
             /\ \A u \in Tasks : copies[u] > 0 /\ u # t => Before(t, u)

WorksOn(w, t) == job[w].task = t /\ job[w].stage \in Working

\* A task this process already has in its heap or in a process_task.
Held(t) == copies[t] > 0 \/ \E w \in Workers : WorksOn(w, t)

\* A worker that keeps popping and pushing back a task in _processing never
\* awaits: no other coroutine of the process runs again.
LoopBlocked == \E w \in Workers : worker[w] = "spinning"

Serving == up /\ running /\ ~LoopBlocked

SetStage(w, s) == job' = [job EXCEPT ![w].stage = s]

-----------------------------------------------------------------------------
(* The process: start, graceful stop, crash                                 *)

\* What a new or exited process has in memory.
Forget(status) ==
    /\ copies' = [t \in Tasks |-> 0]
    /\ processing' = [t \in Tasks |-> None]
    /\ worker' = [w \in Workers |-> status]
    /\ job' = [w \in Workers |-> NoJob]
    /\ cancelling' = {}
    /\ cancels' = 0
    /\ doubled' = {}

Init ==
    /\ taskStatus = [t \in Tasks |-> "none"]
    /\ runStatus = [t \in Tasks |-> "none"]
    /\ copies = [t \in Tasks |-> 0]
    /\ processing = [t \in Tasks |-> None]
    /\ worker = [w \in Workers |-> "off"]
    /\ job = [w \in Workers |-> NoJob]
    /\ cancelling = {}
    /\ up = FALSE
    /\ running = FALSE
    /\ recovery = "off"
    /\ boots = 0
    /\ cancels = 0
    /\ doubled = {}

\* startup_agent_runtime, start_workers: the workers run at once, the recovery
\* is a coroutine of its own that first sleeps.
Startup ==
    /\ ~up
    /\ boots < MaxBoots
    /\ up' = TRUE
    /\ running' = TRUE
    /\ recovery' = IF RecoveryEnabled THEN "scheduled" ELSE "off"
    /\ boots' = boots + 1
    /\ Forget("idle")
    /\ UNCHANGED db

\* shutdown_agent_runtime, stop_workers: then gather waits for every worker.
StopWorkers ==
    /\ Serving
    /\ running' = FALSE
    /\ UNCHANGED <<db, copies, pool, up, recovery, boots, cancels, doubled>>

WorkerExit(w) ==
    /\ up /\ ~running /\ ~LoopBlocked
    /\ worker[w] = "idle"
    /\ worker' = [worker EXCEPT ![w] = "off"]
    /\ UNCHANGED <<db, copies, processing, job, cancelling, life, cancels, doubled>>

ProcessGone ==
    /\ up' = FALSE
    /\ running' = FALSE
    /\ recovery' = "off"
    /\ UNCHANGED boots
    /\ Forget("off")

Shutdown ==
    /\ up /\ ~running
    /\ \A w \in Workers : worker[w] \in {"off", "dead"}
    /\ ProcessGone
    /\ UNCHANGED db

\* create_agent_run may add t next.
MayAdd(t) ==
    /\ Serving
    /\ taskStatus[t] = "none"
    /\ \A u \in Tasks : u < t => taskStatus[u] # "none"
    /\ QueueSize < MaxSize

\* The process is killed.  Each Task.update commits by itself, so a kill inside
\* add_task leaves the task "pending", or "queued" with no agent run.
Crash ==
    /\ up
    /\ \/ UNCHANGED taskStatus
       \/ \E t \in Tasks, s \in {"pending", "queued"} :
             MayAdd(t) /\ taskStatus' = [taskStatus EXCEPT ![t] = s]
    /\ ProcessGone
    /\ UNCHANGED runStatus

\* Seeded fault: recovery takes only the tasks that never started.
RecoverSkippingProcessing ==
    /\ up /\ ~LoopBlocked
    /\ recovery = "scheduled"
    /\ copies' = [t \in Tasks |-> IF taskStatus[t] \in {"pending", "queued"}
                                  THEN copies[t] + 1 ELSE copies[t]]
    /\ doubled' = {t \in Tasks : taskStatus[t] \in Unfinished /\ Held(t)}
    /\ recovery' = "done"
    /\ UNCHANGED <<taskStatus, runStatus, pool, up, running, boots, cancels>>

\* recover_tasks.
RecoverTasks ==
    /\ up /\ ~LoopBlocked
    /\ recovery = "scheduled"
    /\ copies' = [t \in Tasks |-> IF taskStatus[t] \in Unfinished
                                  THEN copies[t] + 1 ELSE copies[t]]
    /\ taskStatus' = [t \in Tasks |-> IF taskStatus[t] = "processing"
                                      THEN "queued" ELSE taskStatus[t]]
    /\ doubled' = {t \in Tasks : taskStatus[t] \in Unfinished /\ Held(t)}
    /\ recovery' = "done"
    /\ UNCHANGED <<runStatus, pool, up, running, boots, cancels>>

-----------------------------------------------------------------------------
(* Requests: create a run, cancel a run, cancel a task                      *)

\* Seeded fault: the new task is pushed on the heap twice.
CreatePushingTwice(t) ==
    /\ MayAdd(t)
    /\ taskStatus' = [taskStatus EXCEPT ![t] = "queued"]
    /\ runStatus' = [runStatus EXCEPT ![t] = "queued"]
    /\ copies' = [copies EXCEPT ![t] = @ + 2]
    /\ UNCHANGED <<pool, life, cancels, doubled>>

\* create_agent_run: add_task and AgentRun.create with no await between them
\* that suspends.  When the run row cannot be written, cancel_task takes the
\* task out of the heap again.
CreateAgentRun(t) ==
    /\ MayAdd(t)
    /\ \/ /\ taskStatus' = [taskStatus EXCEPT ![t] = "queued"]
          /\ runStatus' = [runStatus EXCEPT ![t] = "queued"]
          /\ copies' = [copies EXCEPT ![t] = @ + 1]
       \/ /\ taskStatus' = [taskStatus EXCEPT ![t] = "cancelled"]
          /\ UNCHANGED <<runStatus, copies>>
    /\ UNCHANGED <<pool, life, cancels, doubled>>

\* cancel_agent_run: refused once the run or the task is over.
MayCancel(t) ==
    /\ Serving
    /\ runStatus[t] \in {"queued", "running"}
    /\ taskStatus[t] \in Unfinished

\* Seeded fault: the heap is not rebuilt without the cancelled task.
CancelLeavingInHeap(t) ==
    /\ MayCancel(t)
    /\ IF processing[t] = None
       THEN UNCHANGED <<processing, cancelling, cancels>>
       ELSE /\ cancelling' = cancelling \cup {processing[t]}
            /\ processing' = [processing EXCEPT ![t] = None]
            /\ cancels' = cancels + 1
    /\ taskStatus' = [taskStatus EXCEPT ![t] = "cancelled"]
    /\ runStatus' = [runStatus EXCEPT ![t] = "cancelled"]
    /\ UNCHANGED <<copies, worker, job, life, doubled>>

\* cancel_agent_run and TaskQueue.cancel_task.
CancelRun(t) ==
    /\ MayCancel(t)
    /\ IF processing[t] = None
       THEN UNCHANGED <<processing, cancelling, cancels>>
       ELSE /\ cancelling' = cancelling \cup {processing[t]}
            /\ processing' = [processing EXCEPT ![t] = None]
            /\ cancels' = cancels + 1
    /\ copies' = [copies EXCEPT ![t] = 0]
    /\ taskStatus' = [taskStatus EXCEPT ![t] = "cancelled"]
    /\ runStatus' = [runStatus EXCEPT ![t] = "cancelled"]
    /\ UNCHANGED <<worker, job, life, doubled>>

\* Seeded fault: the endpoint does not look at the status.
DeleteUnchecked(t) ==
    /\ Serving
    /\ taskStatus[t] # "none"
    /\ taskStatus' = [taskStatus EXCEPT ![t] = "cancelled"]
    /\ UNCHANGED <<runStatus, copies, pool, life, cancels, doubled>>

\* DELETE /tasks/{task_id}: writes the status and signals inference services;
\* the queue is not told.
DeleteTask(t) ==
    /\ Serving
    /\ taskStatus[t] \in Unfinished
    /\ taskStatus' = [taskStatus EXCEPT ![t] = "cancelled"]
    /\ UNCHANGED <<runStatus, copies, pool, life, cancels, doubled>>

-----------------------------------------------------------------------------
(* _worker_loop                                                             *)

\* Seeded fault: the worker starts a popped task without looking in _processing.
TakeUnchecked(w, t) ==
    /\ Serving
    /\ worker[w] = "idle"
    /\ IsHead(t)
    /\ copies' = [copies EXCEPT ![t] = @ - 1]
    /\ processing' = [processing EXCEPT ![t] = w]
    /\ worker' = [worker EXCEPT ![w] = "awaiting"]
    /\ job' = [job EXCEPT ![w] = [task |-> t, stage |-> "created"]]
    /\ UNCHANGED <<db, cancelling, life, cancels, doubled>>

\* get_next_task up to `await process_task`.  A popped task that is in
\* _processing is pushed back and the loop continues without an await.
Take(w, t) ==
    /\ Serving
    /\ worker[w] = "idle"
    /\ IsHead(t)
    /\ \/ /\ processing[t] = None
          /\ copies' = [copies EXCEPT ![t] = @ - 1]
          /\ processing' = [processing EXCEPT ![t] = w]
          /\ worker' = [worker EXCEPT ![w] = "awaiting"]
          /\ job' = [job EXCEPT ![w] = [task |-> t, stage |-> "created"]]
       \/ /\ processing[t] # None
          /\ worker' = [worker EXCEPT ![w] = "spinning"]
          /\ UNCHANGED <<copies, processing, job>>
    /\ UNCHANGED <<db, cancelling, life, cancels, doubled>>

\* `await process_task` returns: the worker takes the task out of _processing.
Resume(w) ==
    /\ up /\ ~LoopBlocked
    /\ worker[w] = "awaiting"
    /\ job[w].stage = "done"
    /\ processing' = [processing EXCEPT ![job[w].task] = None]
    /\ worker' = [worker EXCEPT ![w] = "idle"]
    /\ job' = [job EXCEPT ![w] = NoJob]
    /\ UNCHANGED <<db, copies, cancelling, life, cancels, doubled>>

\* `await process_task` raises CancelledError, which `except Exception` does
\* not catch: the coroutine of the worker ends.
Die(w) ==
    /\ up /\ ~LoopBlocked
    /\ worker[w] = "awaiting"
    /\ job[w].stage = "cancelled"
    /\ worker' = [worker EXCEPT ![w] = "dead"]
    /\ job' = [job EXCEPT ![w] = NoJob]
    /\ UNCHANGED <<db, copies, processing, cancelling, life, cancels, doubled>>

-----------------------------------------------------------------------------
(* _process_task and AgentWorker.process                                    *)

JobStep(w, stage) == up /\ ~LoopBlocked /\ job[w].stage = stage

\* _process_task starts: the status is written whatever it was.
Start(w) ==
    /\ JobStep(w, "created")
    /\ w \notin cancelling
    /\ taskStatus' = [taskStatus EXCEPT ![job[w].task] = "processing"]
    /\ SetStage(w, "waiting")
    /\ UNCHANGED <<runStatus, copies, processing, worker, cancelling, life, cancels, doubled>>

\* AgentWorker.process starts; without an agent run it raises.
HandlerStart(w) ==
    /\ JobStep(w, "waiting")
    /\ \/ /\ runStatus[job[w].task] = "none"
          /\ SetStage(w, "raised")
          /\ UNCHANGED runStatus
       \/ /\ runStatus[job[w].task] # "none"
          /\ SetStage(w, "handling")
          /\ runStatus' = [runStatus EXCEPT ![job[w].task] = "running"]
    /\ UNCHANGED <<taskStatus, copies, processing, worker, cancelling, life, cancels, doubled>>

\* The agent answered: the run is completed, then progress 95 is awaited.
HandlerComplete(w) ==
    /\ JobStep(w, "handling")
    /\ runStatus' = [runStatus EXCEPT ![job[w].task] = "completed"]
    /\ SetStage(w, "reporting")
    /\ UNCHANGED <<taskStatus, copies, processing, worker, cancelling, life, cancels, doubled>>

HandlerReturn(w) ==
    /\ JobStep(w, "reporting")
    /\ SetStage(w, "returned")
    /\ UNCHANGED <<db, copies, processing, worker, cancelling, life, cancels, doubled>>

\* Seeded fault: a status the run table does not know.
HandlerFailMisspelt(w) ==
    /\ JobStep(w, "handling")
    /\ runStatus' = [runStatus EXCEPT ![job[w].task] = "error"]
    /\ SetStage(w, "raised")
    /\ UNCHANGED <<taskStatus, copies, processing, worker, cancelling, life, cancels, doubled>>

\* The agent raised: the run is failed and the exception passed on.
HandlerFail(w) ==
    /\ JobStep(w, "handling")
    /\ runStatus' = [runStatus EXCEPT ![job[w].task] = "failed"]
    /\ SetStage(w, "raised")
    /\ UNCHANGED <<taskStatus, copies, processing, worker, cancelling, life, cancels, doubled>>

\* wait_for ends with `outcome`: _process_task records it and notifies.
Record(w, outcome) ==
    /\ taskStatus' = [taskStatus EXCEPT ![job[w].task] = outcome]
    /\ SetStage(w, "notifying")
    /\ cancelling' = cancelling \ {w}
    /\ UNCHANGED <<runStatus, copies, processing, worker, life, cancels, doubled>>

\* Seeded fault: the exception of a handler is swallowed.
FinishIgnoringErrors(w) ==
    \E s \in {"returned", "raised"} : JobStep(w, s) /\ Record(w, "completed")

\* The handler's task is done: wait_for returns its result or raises its
\* exception even when a cancel() arrived meanwhile (`if fut.done()`).
Finish(w) ==
    \/ JobStep(w, "returned") /\ Record(w, "completed")
    \/ JobStep(w, "raised") /\ Record(w, "failed")

\* Seeded faults: the timeout is not recorded; it leaves _process_task as a
\* cancellation.
TimeoutUnrecorded(w) ==
    /\ JobStep(w, "handling") \/ JobStep(w, "reporting")
    /\ w \notin cancelling
    /\ SetStage(w, "notifying")
    /\ UNCHANGED <<db, copies, processing, worker, cancelling, life, cancels, doubled>>

TimeoutAsCancel(w) ==
    /\ JobStep(w, "handling") \/ JobStep(w, "reporting")
    /\ w \notin cancelling
    /\ SetStage(w, "cancelled")
    /\ UNCHANGED <<db, copies, processing, worker, cancelling, life, cancels, doubled>>

\* default_timeout: the handler is cancelled where it awaits, so AgentWorker's
\* `except Exception` does not run and the run keeps its status.
Timeout(w) ==
    /\ JobStep(w, "handling") \/ JobStep(w, "reporting")
    /\ w \notin cancelling
    /\ Record(w, "failed")

\* process_task.cancel() is delivered: the handler, if it started, is cancelled
\* where it awaits and CancelledError leaves _process_task.
DeliverCancel(w) ==
    /\ w \in cancelling
    /\ \E s \in {"created", "waiting", "handling", "reporting"} : JobStep(w, s)
    /\ SetStage(w, "cancelled")
    /\ cancelling' = cancelling \ {w}
    /\ UNCHANGED <<db, copies, processing, worker, life, cancels, doubled>>

\* The notifications to the browser are sent and _process_task returns.
Notified(w) ==
    /\ JobStep(w, "notifying")
    /\ SetStage(w, "done")
    /\ UNCHANGED <<db, copies, processing, worker, cancelling, life, cancels, doubled>>

-----------------------------------------------------------------------------
WorkerStep(w) ==
    \/ WorkerExit(w)
    \/ \E t \in Tasks : Take(w, t)
    \/ Resume(w)
    \/ Die(w)

JobProgress(w) ==
    \/ Start(w)
    \/ HandlerStart(w)
    \/ HandlerReturn(w)
    \/ Finish(w)
    \/ DeliverCancel(w)
    \/ Notified(w)

\* How AgentWorker.process ends: wait_for bounds its time.
HandlerEnd(w) == HandlerComplete(w) \/ HandlerFail(w) \/ Timeout(w)

Request(t) == CreateAgentRun(t) \/ CancelRun(t) \/ DeleteTask(t)

Next ==
    \/ Startup
    \/ RecoverTasks
    \/ StopWorkers
    \/ Shutdown
    \/ Crash
    \/ \E t \in Tasks : Request(t)
    \/ \E w \in Workers : WorkerStep(w) \/ JobProgress(w) \/ HandlerEnd(w)

Spec == Init /\ [][Next]_vars

\* The event loop runs what is ready; the handler ends because wait_for gives
\* it default_timeout seconds; nothing obliges a user, a restart or a crash.
Fairness ==
    /\ WF_vars(RecoverTasks)
    /\ \A w \in Workers :
          /\ WF_vars(WorkerStep(w))
          /\ WF_vars(JobProgress(w))
          /\ WF_vars(HandlerEnd(w))

FairSpec == Spec /\ Fairness

-----------------------------------------------------------------------------
(* Properties                                                               *)

\* Every variable has its type.
TypeOK ==
    /\ taskStatus \in [Tasks -> TaskStatus]
    /\ runStatus \in [Tasks -> RunStatus]
    /\ copies \in [Tasks -> Nat]
    /\ processing \in [Tasks -> Workers \cup {None}]
    /\ worker \in [Workers -> WorkerStates]
    /\ job \in [Workers -> [task : Tasks \cup {None}, stage : Stages]]
    /\ cancelling \subseteq Workers
    /\ up \in BOOLEAN
    /\ running \in BOOLEAN
    /\ recovery \in {"off", "scheduled", "done"}
    /\ boots \in Nat
    /\ cancels \in Nat
    /\ doubled \subseteq Tasks

\* _worker_loop looks in _processing so that a task is never processed twice at
\* once: not even when recovery enqueued it a second time, and not while a
\* cancelled process_task, already out of _processing, is still unwinding.
SingleExecution ==
    \A t \in Tasks, v, w \in Workers : WorksOn(v, t) /\ WorksOn(w, t) => v = w

\* A run that cancel_agent_run cancelled will not be picked up again: no heap
\* entry is left for its task, and the task itself is over.
CancelledRunIsOut ==
    \A t \in Tasks : runStatus[t] = "cancelled" =>
        copies[t] = 0 /\ taskStatus[t] \in Terminal

\* Once recover_tasks has run, every task the database shows as unfinished is
\* in the heap or in a process_task that nobody cancelled: none is forgotten.
NoTaskLost ==
    up /\ recovery = "done" =>
        \A t \in Tasks : taskStatus[t] \in Unfinished =>
            \/ copies[t] > 0
            \/ \E w \in Workers : WorksOn(w, t) /\ w \notin cancelling

\* The two records of one job agree on success: a task shown as completed has a
\* completed run, whatever cancellations and timeouts raced its end.
CompletedTaskHasCompletedRun ==
    \A t \in Tasks : taskStatus[t] = "completed" => runStatus[t] = "completed"

\* A worker coroutine ends only because a running task was cancelled: one
\* worker at most for each such cancellation.
WorkersLostOnlyByCancel ==
    Cardinality({w \in Workers : worker[w] = "dead"}) <= cancels

\* The loop is blocked only by a task that recover_tasks enqueued although this
\* process held it already.
BlockedOnlyByDoubledTask == LoopBlocked => doubled # {}

\* A task that completed or failed is not run again, unless recovery enqueued
\* it twice.
FinishedOnce ==
    [][\A t \in Tasks \ doubled :
          taskStatus[t] \in {"completed", "failed"} => taskStatus'[t] = taskStatus[t]]_vars

\* As long as the process serves, a queued task is decided in the end: with more
\* workers than running tasks that can be cancelled, the pool never runs dry,
\* and what a crash left unfinished is found again by recover_tasks.
QueuedIsDecided ==
    \A t \in Tasks :
        taskStatus[t] = "queued" ~> taskStatus[t] \in Terminal \/ ~Serving

\* queue.py:97 documents is_running as "whether the worker threads are started".
RunningHasWorkers ==
    running => \E w \in Workers : worker[w] # "dead"

\* queue.py:255 says a worker waits for its task without blocking other tasks:
\* the loop is never taken away from the other coroutines.
WorkersNeverBlockTheLoop == ~LoopBlocked
-----------------------------------------------------------------------------
(* The inductive invariant behind SingleExecution, CancelledRunIsOut,       *)
(* NoTaskLost and CompletedTaskHasCompletedRun                              *)

\* A worker has a job exactly while it awaits one, and every job has a task.
JobsOfWorkers ==
    \A w \in Workers :
        /\ job[w].stage # "none" => worker[w] = "awaiting" /\ job[w].task \in Tasks
        /\ w \in cancelling => job[w].stage \in Working

\* _processing names the worker of a task as long as nobody cancelled its
\* process_task, and only then; what such a worker has recorded is final.
EntriesOfJobs ==
    /\ \A t \in Tasks : processing[t] # None =>
          /\ job[processing[t]].task = t
          /\ job[processing[t]].stage \in Working \cup {"notifying", "done"}
          /\ processing[t] \notin cancelling
          /\ job[processing[t]].stage \in {"notifying", "done"} => taskStatus[t] \in Terminal
    /\ \A w \in Workers :
          job[w].stage \in Working /\ w \notin cancelling => processing[job[w].task] = w

\* A cancelled task whose process_task has not ended is over, out of the heap
\* and out of _processing: its cancel() is undelivered, or came after its end.
CancelledTasksAreOut ==
    \A w \in Workers :
        \/ w \in cancelling
        \/ job[w].stage \in {"notifying", "done"} /\ processing[job[w].task] # w
        => /\ copies[job[w].task] = 0
           /\ processing[job[w].task] = None
           /\ taskStatus[job[w].task] \in Terminal

\* What the run table says of a task that is held.
RunsOfHeldTasks ==
    /\ \A t \in Tasks : copies[t] > 0 => taskStatus[t] # "none"
    /\ \A w \in Workers : job[w].stage \in Working =>
          /\ taskStatus[job[w].task] # "none"
          /\ w \notin cancelling => runStatus[job[w].task] # "cancelled"
          /\ job[w].stage \in {"reporting", "returned"} =>
                runStatus[job[w].task] = "completed"
          /\ job[w].stage \in {"waiting", "handling"} =>
                taskStatus[job[w].task] # "completed"

IInv ==
    /\ JobsOfWorkers
    /\ EntriesOfJobs
    /\ CancelledTasksAreOut
    /\ RunsOfHeldTasks
    /\ SingleExecution
    /\ CancelledRunIsOut
    /\ NoTaskLost
    /\ CompletedTaskHasCompletedRun
=============================================================================
