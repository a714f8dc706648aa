# Vitoom in TLA+

Models, model-checking runs and proofs for the concurrent core of Vitoom: the
backend that accepts media and agent tasks, and the inference processes it
sends them to. Everything is translated from the Python source; the files and
lines behind every definition are listed in `PROJECT.json` under `map`.

Contents: 1 the system, 2 the modules, 3 the runs, 4 the proofs, 5 findings,
6 abstractions and limits, 7 plan.

## 1. The system

A FastAPI backend (one process, one asyncio event loop) serves the browser over
HTTP and WebSockets. Inference services (image, video, audio, text, downloads)
are processes of their own, possibly on other machines. Each opens one
WebSocket to the backend, or reads Redis lists, receives tasks and reports
statuses and results. Agent tasks run inside the backend, on an in-process
queue.

| component | source | state | operations | meets |
|---|---|---|---|---|
| agent task queue | `backend/queue/queue.py`, `backend/workers/agent_worker.py`, `backend/services/agent/runtime.py` | heap `_queue`, `_processing`, worker coroutines, `process_task`s; the tables `tasks`, `agent_runs` | create, cancel, recover, start and stop the workers, run a task under `wait_for` | database; `DELETE /tasks` writes its table |
| service registry | `backend/websocket/manager.py`, `routes.py`, `backend/services/inference/service.py` | `_inference_connections`, `_connection_services`, `_lock`, the handler of each connection; `inference_services.status` | connect, replace, register, heartbeat, disconnect, evict, signal a cancellation, restart | dispatch router, every sender of frames |
| task dispatch and results | `backend/api/tasks/routes.py`, `manager.py`, `routes.py`, `builtin/_media_common.py` | `tasks.status`, the file rows, `_task_dispatch_services`, the subscriptions of waiting tools | create and dispatch, status and result frames, cancel, wait for the outcome | registry, router, worker |
| dispatch router | `backend/services/chat/router.py` | none: it reads service rows and connected ids | list the services that may take a request, pick one at random | registry, dispatch |
| inference worker | `inference/common/ws_client.py`, `task_processor.py`, `message_queue.py`, `message_cache.py`, `task_cancel.py`, the inferrers | in-memory queue, cache files, cancel marks, the connection | receive a task or a cancellation, scan the cache, run, report, reconnect | the gateway |
| engine cache | `inference/common/pipeline_cache.py`, `audio/inferrer.py`, `audio/session_runtime.py` | the one cached bundle with its `in_use` flag and last use, `_lock`, `_audio_generation_lock` | acquire, release_use, evict, stop | task loop, ASR and TTS sessions |
| Redis transport | `inference/common/redis_list_transport.py`, `egress*.py` | Redis lists, the lock the ingresses share, the idle gate | BRPOP, LPUSH, fan-out | worker |
| downloads | `inference/download/worker.py` | running jobs, cancel events | start, cancel, progress | worker |
| chat sessions | `backend/services/chat/session/`, `master_runtime.py`, `voice_reply.py`, `inference_session.py` | state, current turn, run task, commit and interrupt flags, the active TTS request | record, transcribe, run, complete, interrupt, speak | the audio service (session messages), the crew |
| the rest | APIs, agents and tools, storage, auth, model families, frontend | none that coroutines share beyond the database | | |

What is hard here is always the same: a coroutine reads shared state, awaits,
and acts on what it read. The table lists the behaviours that a test would
hardly reach; `PROJECT.json` has them line by line under `hazards`.

| component | what can go wrong | what makes it correct |
|---|---|---|
| agent queue | recovery enqueues what already runs; a cancellation races the end of its task or a timeout; a worker dies or spins; a crash between two writes | a task is never run twice at once; a cancelled run is not picked up; no unfinished task is forgotten; the two tables agree on success; queued tasks are decided |
| registry | a connection is replaced while the old one is being closed and its handler ends; a sender evicts a connection it looked up earlier; the lock is held across an await | the two maps are inverse; a registered connection has a live handler; a late end does not unregister its successor; a running row has somebody who will stop it; handlers do not hang |
| worker | a cache file is written after its task was taken; the queue is full; a connection breaks under a send; a scan works with files that a cancellation deletes; a restart forgets the marks; a task replayed from its file has no id | a cancelled task does not start; an accepted task is held somewhere and decided, unless it is refused as a replay; an end that could not be sent is kept and flushed |
| dispatch | late frames revive finished tasks; a record is written after the result; a send fails; a cancellation comes between send and record; a service disconnects with tasks in flight | no dispatched task stays pending in silence; completed means all files; a cancellation reaches whoever has the task; a task settles; the tool that waits is told |
| engine cache | an eviction, a cancelled request or a failed load meets users of the same bundle; a generator releases it late, for its own request too | one bundle on the card at a time; `in_use` outlives no user; the evictor spares a bundle at work whose key was not used twice at once; the task loop is not starved by sessions |
| Redis ingress | a popped message counts nowhere while it is handed over; two ingresses are idle at once | a worker keeps at most one task from the others behind the one it runs |
| chat session | an interruption races reply, synthesis and transcription; a transcript comes for a turn that is gone; a finalized turn leaves its run behind; a voice outlives its run, or ends it | a ready session is idle, a busy one is served; one reply for a turn; transcripts and outcomes go to their own turn and run; nothing is spoken after its run; a turn ends |

## 2. The modules

### AgentTaskQueue

State: `taskStatus` and `runStatus` are the status columns of `tasks` and
`agent_runs`; `copies[t]` counts the entries of `t` in the heap; `processing`
is the dict `_processing`, with the worker whose `process_task` is stored;
`worker[w]` says where a `_worker_loop` stands and `job[w]` which stage of
`_process_task` the coroutine it awaits has reached; `cancelling` holds the
workers whose `process_task.cancel()` has not been delivered. `boots` is the
only counter, bounded by `MaxBoots`; `cancels` and `doubled` are history.

asyncio facts the actions rest on:

* No critical section of `queue.py` awaits while it holds `_queue_lock` or
  `_processing_lock`, so the locks are never contended, and an uncontended
  `asyncio.Lock` does not suspend. Code between two suspending awaits is one
  action; `create_agent_run` and `cancel_agent_run` are one action each.
* For the same reason a worker that pops a task found in `_processing` pushes
  it back and starts over without ever suspending. The model gives this worker
  the state `"spinning"`; from then on (`LoopBlocked`) no other coroutine moves,
  and only a kill helps.
* `CancelledError` is not an `Exception`. `cancel_task` cancels the inner
  `process_task`; its awaiter `_worker_loop` gets the CancelledError and ends
  (`Die`). `AgentWorker.process` does not record a failure on that path.
* `wait_for` (Python 3.11) hands out the result of a future that is already
  done although a cancellation was requested: `Finish` therefore has no guard
  on `cancelling`, `DeliverCancel` covers the stages before that.

Actions correspond to code as follows: `Startup`, `RecoverTasks`,
`StopWorkers`, `WorkerExit`, `Shutdown`, `Crash` are the life of the process
(recovery runs as a coroutine of its own, after the workers started);
`CreateAgentRun`, `CancelRun`, `DeleteTask` are requests; `Take`, `Resume`,
`Die` are `_worker_loop`; `Start` to `Notified` are `_process_task` with the
handler inside `wait_for`. The agent itself is a handler that ends with an
answer, an exception or a timeout.

### ServiceRegistry

State: `connections` and `services` are the two dicts; `lock` is the owner of
`WebSocketManager._lock`. Unlike the queue's locks this one is held across
awaits, by `connect_inference_service` while the old socket is closed and by the
cancel signal while it sends, so everybody else has to wait (`Free`). `handler`
is where the coroutine of `/ws/inference/{service_id}` stands, `target` its
service, `link` whether frames can still pass, `old` the connection it
is replacing, `request` a coroutine in
`send_cancel_signal_to_inference_service`, `row` the status column.
`announced` is history: rows that HTTP, not a connection, set running.

The handler goes `accepted`, (`closingOld`), `connected`, `serving`, `leaving`,
(`stopping`); each arrow is one action, named for the code it stands for. `Evict`
is a sender that failed on a connection it had looked up. A socket name is used
again once no coroutine refers to the closed socket (`Forgotten`).
`Restart` is the end of the process and `reset_all_status_on_startup`.

### InferenceWorker

State: `inbound` are the frames on their way, `link` is `"open"`, `"suspect"`
(the socket is open, `_connected` is already False) or `"closed"`; `receiver` is
the stage of `_receive_loop`, which handles one frame at a time; `queue` is
`MessageQueue`; `processor` is the stage of `process_loop` with the task and file at
hand, and with the `id` under which the loop knows the task; `scan` is what a
running scan has still to look at; `files` are the files in the cache directory, task files and `res_` files; `marked` are the cancel
marks. `fate` and `stopped` are history: what became of a task, and for which
tasks the cancel message was handled.

`Offer` and `AskToCancel` are the gateway (external: what it may send).
`ReceiveTask`, `SendQueued`, `Save` are the three steps of receiving a task,
in the order of the code: into the queue, the status `queued`, the cache file.
`Take` to `Report` are `process_loop`. A cache file holds the bare `task_data`,
which has `id` and no `task_id`: a task replayed from it goes through the loop with
the id None (`LoadFile`), and gets its own back only for the inference, which reads
`task_data` (`Start` to `ReportFailing`). The loop's own statuses of such a task are
dropped by the gateway or kept as `res_None_...` (`SendWithoutId`), which the next
flush deletes; its look at the marks before `processing` finds nothing, and it clears
none afterwards. `SendStatus` and `SendResult` have one
disjunct for each way a send ends: it arrives, it vanishes in a connection
nobody knows to be broken, it raises `ConnectionClosed`, it raises something
else, or the connection is known to be down; the two functions differ in what
they keep on disk. `Reconnect` cancels the receive loop wherever it awaits.
`CleansUp` tells the image inferrer, whose task context deletes the task's file
at the end, from the video inferrer, which does not.

### DispatchRouter and TaskDispatch

`DispatchRouter` is `list_services` as pure operators over the facts a service
registered, the running rows and the connected ids: `Eligible` is the filter,
`Preferred` the audio services that declare the model, `ListServices` the answer,
with the fallback of tts. `pick_service` chooses one of them at random.

`TaskDispatch` is the way of a media task through the gateway, from `_create_task`
to the frames of its end. `status` and `files` are the rows, `dispatched` is
`_task_dispatch_services`, `create[t]` and `cancel[t]` are the coroutines of the
two requests with what they have looked up, `handler[x]` is the frame that the
receive loop of a service has recorded but not yet forwarded, `tool` is
`submit_and_collect`. `connected`, `running`, `serving` and `ending` are the
registry as the dispatch sees it. The worker is InferenceWorker seen from the
wire: it marks, runs, produces, keeps what it cannot send and replays it as
statuses (`WorkerReplays`, in the order of the file names); a link that breaks
loses what is on it (`LinkBreaks`).

`CreateTask` to `Subscribe` follow a creation: the row, the choice, the
websocket, `send_text`, the record written after it, the failure that is recorded
and told. `DeleteTask`, `LookUpTargets` and `SendCancel` are `DELETE /tasks`.
`ReceiveStatus`, `ReceiveResult`, `ForwardFrame` are the frames; `HandlerEnds` and
`SyncStop` the end of a connection. `disturbed` and `early` are history: tasks of
which a frame was lost or late, and tasks with a message before their tool listened.
`MCTaskDispatch` gives the facts of two services.

### ChatSession

State: the fields of `SessionRuntime` (`state`, `turn`, `runTask`, `committed`,
`cutting`), the turns, the runs with their rows, the transcripts on their way,
the consumer of each `VoiceReplyStream` and `active`, the TTS request whose
chunks are let through. `at["client"]` and `at["sub"]` are the two coroutines
that handle what the browser and the audio service send, with the locals they
hold over an await. There is no lock: every action is the code between two awaits.
`UserMessage` to `ChunkLost` are `AudioTurnService` and the text turns, `Interrupt`
to `InterruptEnds` are `InterruptCoordinator`, `Final*` are `TranscriptProcessor`,
`Begin` to `RunEnds` are `MasterAgentRuntime.run` with `complete_run` and `fail_run`,
`CommandEnds` the slash command that takes the place of the crew,
`Ask` to `VoiceTimesOut` the voice. `strays`, `overlapped`, `cut`, `orphans` and
`accidents` are history: what the code allows to go wrong, so that the properties can
say that nothing else does.

Two things decide how a run ends. What an interrupt finds it awaiting: a crew that
works is torn down (`"stopping"`), but after the crew's answer the run waits for
callbacks (`"answered"`) and perhaps tells what was not streamed (`"telling"`) outside
of any `except`, and then it ends at once and its voice speaks on (`orphans`). And
what becomes of its voice: `teardown()` and `drain()` cancel one that does not end in
time and await it under `except Exception`, which its CancelledError passes, so the run
ends without `fail_run` or `complete_run` (`VoiceTimesOut`). `wait_for` of Python 3.11
hands out a result that is already there when it is cancelled: an interrupt may then
have no effect on the run (`CancelIsLost`).

### PipelineSlot, PipelineCache, RedisIngress, EngineHost

`PipelineCache` holds the operations of the cache as actions that take a caller;
`lock` says who holds `_lock` and which of `release_fn` and `create_fn` it awaits.
`memory` says what each bundle is on the card. `PipelineSlot` is the promise: one
place, in which a bundle is loaded only when the last one has been released or
given up.

`RedisIngress` is `RedisListIngress` and the loop it feeds: `Look` is the first
look at `is_idle`, `Pull` the second one under the lock, `Get` the pop in a
thread and `Handle` the moment `_handling` is set; a message between the two
counts nowhere. `ConnectionLost` may lose a popped message: nothing acknowledges it.

`EngineHost` composes both into an audio worker: one task loop, ASR sessions that
keep their bundle between chunks, and TTS requests that a next request or a cancel
cuts (`CancelRequest`), all over one cached bundle and one generation lock, with
the evictor and `stop()`. `SpeechDone` lets the stream lock go while the
`finally` of the abandoned generator is still to come (`LateRelease`). A request for a
designed voice acquires twice, for a seed and for the speech in the seed's voice: `part`
says which of them it is at. `SeedDone` leaves the generator of the seed and acquires
for the speech in one step; that generator's `finally` begins later (`SeedEnds`), reads
what `_used_bundles` has by then, releases it (`SeedRelease`), be it in use by the
speech, and empties the dict (`used`). `Place`
maps `memory` to the slot.

### Seeded faults

Operators whose comment begins with "Seeded fault" are not part of any
specification. Each is a plausible bug in place of a definition; `PROJECT.json`
(`mutants`) names the property that finds it. They show that the properties
are not vacuous.

## 3. The runs

| run | module and cfg | shows | states |
|---|---|---|---|
| agent_queue | `MCAgentTaskQueue`, `MCAgentTaskQueue.cfg` | all safety of the queue, and that a queued task is decided while the process serves | 757 thousand |
| agent_queue_running | `MCAgentTaskQueue`, `AgentTaskQueueRunning.cfg` | violation: workers die while `is_running` stays true | |
| agent_queue_blocked | `MCAgentTaskQueue`, `AgentTaskQueueBlocked.cfg` | violation: a worker blocks the event loop | |
| service_registry | `ServiceRegistry`, `ServiceRegistry.cfg` | all safety of the registry, and that handlers reach their receive loop or end | 83 thousand |
| service_registry_deadlock | `ServiceRegistry`, `ServiceRegistryDeadlock.cfg` | violation: a coroutine waits for its own lock | |
| inference_worker | `InferenceWorker`, `InferenceWorker.cfg` | cancelled tasks do not start, nothing accepted or kept is lost, accepted tasks are decided, kept statuses flushed; a refused task replayed from its file is the exception | 1.50 million |
| inference_worker_twice | `InferenceWorker`, `InferenceWorkerTwice.cfg` | violation: a finished task is run again | |
| inference_worker_lost | `InferenceWorker`, `InferenceWorkerLost.cfg` | violation: a final status is dropped | |
| task_dispatch | `MCTaskDispatch`, `MCTaskDispatch.cfg` | failed sends are told, completed means all files, cancellations reach the worker, the tool hears the end, every dispatched task settles | 220 thousand |
| chat_session | `ChatSession`, `ChatSession.cfg` | turns, runs, transcripts and speech do not mix, and every turn ends | 2.35 million |
| redis_ingress | `RedisIngress`, `RedisIngress.cfg` | two ingresses, a lost connection: at most one task waits behind the one that runs | 7 thousand |
| engine_host | `EngineHost`, `EngineHost.cfg` | `in_use` is accounted for, the evictor spares a bundle used once at a time, PipelineCache implements PipelineSlot, every task taken ends | 661 thousand |

What the properties except is as telling as what they promise. A history
variable in a property names a way in which the code does go
wrong, observed while modelling; the property says it is the only one:

| history | set when | exempts in |
|---|---|---|
| `doubled` | recovery enqueues a task that is held | FinishedOnce, BlockedOnlyByDoubledTask |
| `announced` | HTTP, not a connection, set a row running | RunningRowIsServed |
| `fate[t] = "untold"` | `process_loop` refuses a task it replays from a file | AcceptedIsHeld, AcceptedIsDecided |
| `disturbed` | a frame of the task was lost or came late | NeverSilentlyUnfinished, CompletedHasFiles, CancelIsSignalled, ToolMissesOnlyTheEarly, EveryTaskSettles |
| `early` | a message came before the tool subscribed | ToolMissesOnlyTheEarly |
| `strays` | a run's turn was finalized under it | RepliedOnce, OwnOutcome, ReadyOrServed |
| `overlapped` | a turn was completed while being interrupted | RepliedOnce |
| `cut` | an earlier turn was interrupted or lost its audio service | TranscriptReachesItsTurn |
| `orphans` | an interrupt ended a run without its voice | QuietAfterTheRun |
| `accidents` | no answer to a commit (`silent_asr`); a run or slash command without its turn became busy (`late_start`); a voice that timed out ended its run (`late_voice`) | ReadyOrServed, EveryTurnEnds |
| `shared` | the cached key was used twice at once, by two callers or by a seed and its speech | TtlSparesTheLoneUser |
| `forgotten` | a caller dropped a marked bundle without `release_use` | MarkIsAccountedFor |

They are exceptions, not coverage: the hazards in `PROJECT.json` say where what a
property exempts is the very thing to fear.

**Bounds.** Two tasks suffice for the queue because the code relates at most a
task to the head of the heap and to its own entry; the higher priority is given to
the later task so that priority and age disagree. A double execution and a
spinning worker next to a running task need two workers; the third keeps the pool
from running dry, on which `QueuedIsDecided` depends. Two boots
give a crash, a recovery and a second life. The registry has two sockets for two
services, so that a connection and its replacement, of the same or
the other service, exist at once, and a socket is used again after its end; a third
socket multiplies the states by 26 and is beyond a liveness run, and the
proofs hold for any number. One cancel request is enough since
`_lock` has one owner and a stuck request is never released. The worker's queue
holds one of two tasks, so the full queue is met; one of them is of a type the
service refuses, the other may succeed, raise or be cancelled; two boots and one
loss of connection put the outage, the crash and the restart over the cache
directory in every position.

The dispatch has one task, since rows, records and subscriptions are kept by task;
two services, one pinned and one not, so that the choice, the fallback of tts and the
targets of a cancellation differ; two files, so that a first result is not the last;
one broken link, in every position. The chat session has two turns and two runs: an interrupted turn with its
successor; one block of speech per answer and one failure (a timeout of a voice is not counted
as one). The ingress run has two
ingresses, because the second look under the lock matters only then, and three
tasks, one more than may be held. The engine host has one ASR and one TTS session
next to the task loop, so that each pair of users meets over the four keys (the seed
has one of its own in Qwen, and the speech's in VoxCPM); two bundles, the one that goes
and the one that comes; one task, since the loop takes them one at a time and requests
and chunks come without end; its ingress is alone and loses nothing, which
redis_ingress covers with several tasks.

**Fairness.** Queue: weak fairness of each worker's own steps, of the recovery,
and of the end of the handler. asyncio runs every ready callback, and
`wait_for` ends the handler after `default_timeout`. Users, crashes,
restarts are not fair. `QueuedIsDecided` needs more workers than running
tasks that can be cancelled, because cancellations cost workers (finding 1): the
run has three workers and two tasks. Registry: strong fairness of each
waiter, because `asyncio.Lock` wakes its waiters in order while the lock itself is
taken and released for ever by others; `close()` and `send_text()` return or raise.
Nobody is obliged to disconnect: `"serving"` may last. Worker: weak fairness
of the receive loop and of `process_loop`. For the latter we assume that an
inference ends; the code has no timeout for it, and a pipeline that hangs
would block its service. The network, the gateway and restarts are not fair;
in particular no property relies on a reconnect. Dispatch: weak fairness of each
coroutine of the gateway and of the worker's steps; links, users and the timeout of the
tool are free. Chat: weak fairness of a handler that has begun, of the runs (a crew has
a timeout) and of the voice (its waits have timeouts); nobody must speak, type or
interrupt, and the answer to a commit, which has no timeout in the code, is assumed
only when it was not lost: a lost one is an `accident`. Engine host: weak fairness of the
loops, sessions and releases, strong fairness of the task loop's own steps, because
`asyncio.Lock` serves its waiters in order while sessions may take both locks for
ever.

**Deadlock** is checked for the registry, whose handlers never stop. It is switched off
where the system may stop: the queue and the worker may be
down with `MaxBoots` used up, a dispatched task may be over with nothing left
to happen, the bounded turns and runs of a chat session and the bounded tasks and lost
connections of the Redis ingress may be used up, and after `stop()` the engine host is
gone.

## 4. The proofs

`AgentTaskQueueProofs`, `ServiceRegistryProofs`, `InferenceWorkerProofs`,
`EngineHostProofs`, `RedisIngressProofs`, `TaskDispatchProofs` and
`ChatSessionProofs` prove, for every value of the constants, type correctness, all
safety invariants and all action properties of their modules, and the refinement of
`PipelineSlot`. They assume only the named assumptions of the modules: ids are
numbers or not, `None` is no id, the three kinds of callers are different, there is a
file to produce. The bounds on boots, lost connections, turns, runs and faults are
arbitrary numbers in them. An `IInv` is a plain state predicate: before it is proved, TLC checks it
with the constants of the run, in a module that extends the proof module.

**Queue.** `SingleExecution` is not inductive: a worker may take a task when
`processing[t] = None`, and that alone does not exclude a `process_task` still
unwinding from a cancellation. `IInv` adds

* `JobsOfWorkers`: a job exists exactly while its worker awaits it;
* `EntriesOfJobs`: `_processing` names the worker of every job nobody cancelled, and
  only those;
* `CancelledTasksAreOut`: a job that was cancelled but has not ended belongs to
  a task that is over and has no heap entry, so nobody can take it again. This
  is the heart of the argument: `cancel_task` clears the heap, recovery enqueues
  unfinished tasks only, and ids are not created twice;
* `RunsOfHeldTasks`: what the run table can say of a task in each stage.

`InductiveStep` has one step per action, and `SingleExecution`,
`CancelledRunIsOut`, `NoTaskLost` and `CompletedTaskHasCompletedRun` follow as
conjuncts. Two more invariants rest on it. `OnceInv` says that a task recovery has
not doubled is held by one heap entry or by one process_task, and is not over while
it is: so `FinishedOnce`, since whoever writes a status holds the task, and
`BlockedOnlyByDoubledTask`, since a popped task found in `_processing` is held
twice. `LostInv` counts the workers that are dead, are dying, or have a
cancellation pending; only `cancel_task` adds to them, and it counts itself:
`WorkersLostOnlyByCancel`.

**Registry.** `MapsAreInverse` is disturbed by `Replace`, which writes what
`ConnectOver` read before an await. `LockOwners` closes the gap: as long as a
handler is in `closingOld` it owns the lock and `old` is still the registered
connection, since every other writer needs the lock. `RoutesOfHandlers` says a
live coroutine knows its service. With them `MapsAreInverse`,
`RegisteredIsHandled` and `RunningRowIsServed` are inductive. Types and routes come first
(`TypesAndRoutes`), since `Stop` writes the row of the handler's service.
`OnlyOwnEndUnregisters` follows step by step: whoever unregisters looks its service up
by websocket, and the maps are inverse.

**Worker.** `IInv` has three parts that need each other, and a fourth.

* `OnceInv` says where a task can be. The gateway sends each frame once and the
  cancel message after the task (`FramesInOrder`), so a task on its way is
  nowhere yet (`ComingIsNew`), a queued task is queued once, not at the processor and
  not in a running scan (`QueuedOnce`: the scan starts only while the queue is empty),
  and an accepted task has its file as long as it is queued (`QueuedIsOnDisk`). The
  last is why a crash costs no more than the task at hand.
* `StoppedIsOut`: of a task whose cancel message was handled no file is left, none
  will be written, since the receive loop handles one frame at a time, and if it is still
  in the queue or at the processor before inference, it is marked. A mark is removed
  only when the task at hand has ended, and by `QueuedOnce` that task is not queued.
* `HeldInv`: `AcceptedHasPlace` and `KeptIsOnDisk`, with `TasksAtHand` (the id the loop
  has is the task's or None), `FileAtHand` (the file that
  is deleted is the one of the task at hand) and `EndsAreDecided` (the status
  `completed`, which `send_task_status` does not keep, follows a result that was kept or sent).

`RefusalInv` is beside them: what `process_loop` refuses is of another type or
unreadable, so nothing that could be started ends untold (`UntoldIsRefused`, the second
half of `AcceptedIsHeld`).

Most steps take nothing from the frames and nothing from the queue; `Orderly` says
what they may do, `OrderlyStep` proves the first two parts for all of them at once, and
only the other six actions are treated one by one. `Sent` does the same for
the disjuncts of a send. `CancelledNeverStarts` follows because inference starts in
`Start` only, where the mark is read.

**Redis ingress.** The queue has a place for one task only when nobody pulls: an
ingress in `"pulling"` is alone (the shared lock), and it saw the worker idle, that
is with an empty queue, under that lock. The message popped meanwhile is in hand, not
in the queue, and only one is in hand. Hence two in all.

**Engine host.** `MarkIsAccountedFor` needs to know who may be working with the cached
bundle at each stage of every caller. Its invariant says that whoever loads holds
`_lock` (`LoaderHoldsLock`), what the holder of the lock awaits and where that bundle is
in `memory`, that a bundle in a caller's hands is the cached one or has been ousted, and
that a mark without a user has a `release_use` still to come (`MarkHasOwner`). Two parts
are about requests that speak a seed: `EndsKnown` says at which stage a session can have
a generator whose `finally` is to come, and of which key; `SharedIsKnown` that a cached
bundle in two hands, or in one with a release to come, is known as `shared`, so an
unshared user's mark is set. `TtlSparesTheLoneUser`
and the refinement are read off it action by action; for the refinement, that at
most one bundle is not free, so that `Place` is a function of `memory`, and that each
action is a step of `PipelineSlot` or leaves the place as it is.

**Task dispatch.** The properties speak about a row, a signal or a tool; what makes them
true is on its way between two processes. `IInv` says what is under way:

* `OutOnly`: nothing of a task is on a wire, at a worker or in a kept file unless its
  send has returned, and then only at the service it was sent to. `SentOnce`: it is sent
  once, so a job on the worker excludes the task on the downlink.
* `PendingIsComing`: a row that is still pending when the send is over has the task or a
  first frame about it on the wire, or a connection was lost (`disturbed`): the first half
  of `NeverSilentlyUnfinished` with the frames named.
* `EndIsComing`: once the task has left the worker, the last frame on the uplink that
  names it is a final status, or the row is final and no frame names it. The handlers
  leave a final row final, so nothing written late undoes the end. This gives the second
  half, and is what liveness rests on: `EveryTaskSettles` itself stays with TLC.
* `FilesComeFirst`: every result made precedes the status `completed` on the uplink.
  A link delivers in order, so the count at the row is full when that status is
  handled; hence `CompletedHasFiles`. Kept files are the exception: they are replayed in
  the order of their names, and only a `disturbed` task has any.
* `SignalStays`: the services a cancellation has looked up and passed over could not have
  the task, and a signal that was sent stays on the wire or as a mark until the task ends.
  It rests on the choice of `DispatchRouter` (`ListHasSuitable`: a suitable service that is
  up keeps the list from falling back), and gives `CancelIsSignalled`.
* `ToolIsTold`: a tool that missed nothing finds every file in its collection or coming.

A step here touches few variables, but there are many actions. `Effects` collects what any
step may do to one variable (`CreateMoves`, `DownMoves`, `JobMoves`, `UpMoves`, `RowMoves`,
...), proved once per action; each part of the invariant is then shown from `TypeOK'` and
`Effects` alone, so that no part repeats the case split over the actions.

**Chat session.** There is no lock: what a handler read before an await is all it has.
`IInv` says what that is still worth.

* `InOrder`: turns and runs are numbered as they come, and what names a turn names one
  that was opened; `RoomToSpeak` keeps a number for the speech that interrupts.
* `OneTurnEach`: a run has one turn, and the run a handler is about to start is not the
  other handler's.
* `OpenTurn`: who may find a turn open. A session in `ready` has one only while a failed
  create is being recorded, and an interrupt or a flush finds its own turn or none: the
  first half of `ReadyOrServed`.
* `Served`: the second half, and the safety core of `EveryTurnEnds`, as long as none of
  the `accidents` happened. A busy session without
  a turn is being finalized; a recorded turn has its audio at the service until it is
  committed; a turn that is committed or has a run has its transcript to come, the run of
  its own, or somebody about to finalize it. A run that works gives up a turn only if it
  finds itself no longer current, which its own turn cannot tell it: `OwnId`.
* `OwnTurn`: a run under way is the task of its turn or a stray. `complete_run` and
  `fail_run` write the row of whatever turn is open; by `OwnTurn` that is the run's own,
  hence the action property `OwnOutcome`.
* `SpeaksForARun`: a consumer that can still send belongs to a run that has an answer to
  come or waits for it, or to one of the `orphans`; `QuietAfterTheRun` follows.
* `AnsweredOnce`: of a turn with a reply somebody is about to finalize it, so no second
  reply comes: `RepliedOnce`.
* `Orderly` and `OwnWords`: no transcript names its turn, so `TranscriptReachesItsTurn` is
  about order. While nothing was cut short, a turn is spoken, transcribed and answered
  before the next is opened, one transcript at most is under way and no run is; afterwards
  the words of the open turn are its own unless an earlier turn was cut. The order in
  `InOrder` makes the first cut the one to blame.

As for the dispatch, lemmas first say where each field can go in one step (`ClientMoves`,
`SubMoves`, `StagesMove`, `SpeechStep`, `FieldsMove`, ...); `QuietlyOrderly` then treats the
many actions that leave the order alone at once.

**Only model-checked:** liveness everywhere (`QueuedIsDecided`, `EveryTaskSettles`,
`EveryTurnEnds` and the like): it rests on fairness, which the prover cannot reason about
here. What is proved of the last two is that no state is stuck: somebody is always left
whose step fairness can ask for (`NeverSilentlyUnfinished`, `ReadyOrServed`). The five
violations are TLC's by nature.

## 5. Findings

1. `queue.py:262`: cancelling a running task ends the worker coroutine that awaits
   it; after `max_workers` cancellations the queue stands still although
   `is_running` is true.
2. `queue.py:249`: a worker that pops a task being processed spins and blocks
   the whole event loop.
3. `manager.py:994`: a failed cancel signal awaits `disconnect()` while it
   holds the lock `disconnect()` needs.
4. `ws_client.py:479`: the cache file of a task can be written after the task was
   taken, and the next scan runs the task again.
5. `ws_client.py:703`: a final status is dropped when its send raises
   `ConnectionClosed`.

Observed while modelling and named by the history variables of section 3, without a
run of their own: the comment at `task_processor.py:372` (an ingress sees no gap)
does not hold, the popped message counts nowhere until `_handling` is set, and
the second look under the lock is what limits the damage; `_media_common.py:205`
subscribes after the dispatch, so an early message is missed (`early`); `in_use` is a
flag and not a count, so that the first of two users clears it for both (`shared`), and
the seed generator of a designed voice, left by the `break` at `session_runtime.py:921`,
may be the first of two within one request;
`session_runtime.py:304` and a cancel during the warm-up (`inferrer.py:760`) leave it set
(`forgotten`); `routes.py:747` answers 400 after the row was created; a run whose turn was
finalized under it goes on (`strays`). A task replayed from its cache file has no id in
`process_loop` (`task_processor.py:320`): a refusal is reported to nobody, and with the
connection down it is kept as `res_None_failed_*` and deleted as invalid by the next scan
(`:297-301`), so the row stays processing (`untold`). Three `accidents` leave a session
busy: a commit without an answer; a run, or a slash command (`master_runtime.py:1039`),
that becomes busy after its turn was finalized; and a voice that outlives `teardown()` or
`drain()`, whose CancelledError passes `except Exception` (`voice_reply.py:291-296`,
`:330-334`) and skips `fail_run` or `complete_run`. The comment at `master_runtime.py:486`
(an interrupt clears the consumer first) does not hold for an interrupt at `:501` or
`:532-544`, where the voice speaks on after the run (`orphans`).

## 6. Abstractions and limits

* A database call is one step and succeeds. `Task.update` failures are not
  modelled.
* Queue: the thread of a crew that goes on after its coroutine was cancelled is
  not modelled; it changes no shared state. Progress notifications matter only as awaits.
* Registry: of the manager's connections only those of inference services; the
  notification of chat sessions is an await that takes the lock. Task and
  result frames are TaskDispatch's.
* Dispatch: its worker replays kept statuses, but no task files (InferenceWorker has
  those, and the refusal nobody hears of); connections do not replace each other
  (ServiceRegistry has that); the
  manager's lock only orders steps that do not block. Agent tasks
  (AgentTaskQueue has them), uploads and the HTTP forms of the requests are left out.
* Chat: closing a session, changes of the service topology, avatars and the
  content of messages are left out; the crew answers, fails or times out.
* Chat: the reply that is synthesized in one piece, when no voice stream is enabled,
  is not told from the wait for the voice; a failed voice is skipped, not announced.
* Redis: a task replayed by a scan of the cache sets neither `_handling` nor, with no id,
  the current task, so `is_idle` is true while it runs and one more task may be pulled;
  the ingress run has no replays. Messages that do not parse, cancel messages in lists, the `queued` status
  after a put; egress and its fan-out.
* Engine host: the audio worker only, whose sessions share the cache with tasks. Left
  out: tasks that load two bundles in sequence (requests that do are modelled), a
  `session.open` under a TTS request of its own that still runs, Qwen's own
  `_base_bundle_cache`, and what happens after `stop()`. A load whose caller was
  cancelled counts as given up from then on, although its thread may go on loading.
* Worker: one result per task; the disk does not fail; several `res_` files of
  one task and one status are one. Sending and what follows it up to the next
  check is one step; so is `report_cancelled` with the clearing of the mark, which
  is why `_cancel_reported` has no variable. A task's type and parameters are
  constants (`Foreign`, `Malformed`). `stop()` is a crash: both lose what is in memory.
  The audio and text inferrers report their ends differently and are not
  modelled; heartbeats, session messages and Redis are not either.
* Not modelled at all: model families and vendored code (sequential numerics),
  prompts, agents and tools (outcomes only), storage, auth, frontend.

## 7. Plan

1. AgentTaskQueue, ServiceRegistry, InferenceWorker with proofs of all their safety
   (done).
2. TaskDispatch and DispatchRouter with proofs of all their safety (done).
3. PipelineSlot, PipelineCache, RedisIngress, EngineHost with proofs (done).
4. ChatSession with proofs of all its safety (done).
5. An abstract life of a task (created, running, final) that TaskDispatch refines
   except for what `disturbed` names.
6. Downloads (`inference/download/worker.py`) and the egress fan-out.
