--------------------------- MODULE InferenceWorker ---------------------------
(***************************************************************************)
(* One inference process between the gateway and its model: the receive    *)
(* loop of WebSocketClient (inference/common/ws_client.py), MessageQueue,  *)
(* the cache files of MessageCache, TaskProcessor.process_loop with its    *)
(* cancel marks, and the task context of the image inferrer.               *)
(*                                                                         *)
(* The receive loop and the process loop are coroutines of one event loop; *)
(* what runs between two awaits that suspend is one action.  The queue and *)
(* the marks live in memory, the cache files survive the process.          *)
(***************************************************************************)
EXTENDS Naturals, Sequences

CONSTANTS Tasks,     \* task ids, numbered in the order their file names sort
          MaxQueue,  \* MessageQueue's maxsize
          CleansUp,  \* inference_callback deletes the task's file (image only)
          Foreign,   \* tasks of another type than service_type
          Malformed, \* tasks whose parameters from_task_dict cannot read
          MaxBoots,  \* bound: starts of the process
          MaxDrops,  \* bound: losses of the connection
          None

ASSUME WorkerAssumption ==
    /\ Tasks \subseteq Nat
    /\ MaxQueue \in Nat \ {0}
    /\ CleansUp \in BOOLEAN
    /\ Foreign \subseteq Tasks
    /\ Malformed \subseteq Tasks
    /\ MaxBoots \in Nat
    /\ MaxDrops \in Nat
    /\ None \notin Tasks

VARIABLES inbound,    \* frames on their way to the receive loop
          offered,    \* tasks the gateway sent, each once
          asked,      \* tasks the gateway sent a cancel for, each once
          link,       \* "open", "suspect" (open but _connected is False), "closed"
          receiver,   \* _receive_loop: stage and task
          queue,      \* MessageQueue
          processor,  \* process_loop: stage, task and cache file at hand, and the
                      \* id the loop knows the task by: None when it comes from a file
          scan,       \* cache files the running scan has still to process
          files,      \* cache files
          marked,     \* TaskCancellationRegistry._cancelled
          up,         \* the process runs
          boots,
          drops,
          fate,       \* history: what became of each task, see Fates
          stopped     \* history: tasks whose cancel message was handled

gateway == <<inbound, offered, asked>>
memory  == <<queue, processor, scan, marked>>
bounds  == <<boots, drops>>
history == <<fate, stopped>>
vars == <<gateway, link, receiver, memory, files, up, bounds, history>>

Terminal == {"cancelled", "completed", "failed"}
\* `queued` and `processing` are one: neither decides anything, and their files
\* are next to each other in a scan.
Statuses == Terminal \cup {"underway"}

\* "none": nothing is promised of it; "accepted": received and saved; "kept": its
\* end is known and waits in a res_ file; "told": the gateway got a final status;
\* "lost": a final status was sent into a connection that turned out broken;
\* "untold": process_loop refused it and reported that without its id.
Fates == {"none", "accepted", "kept", "told", "lost", "untold"}
Decided(t) == fate[t] \in {"kept", "told", "lost"}

\* task_{task}_{time}.json holds a task's data, res_{task}_{status}_{time}.json a
\* status that could not be sent.  The res_None_... files hold statuses sent without
\* an id; nothing is done that tells them apart, and one stands for all of them.
TaskFile(t) == [kind |-> "task", task |-> t, status |-> None]
ResFile(t, s) == [kind |-> "res", task |-> t, status |-> s]

Frames == [type : {"task", "cancel"}, task : Tasks]
NoIdFile == [kind |-> "res", task |-> None, status |-> None]
CacheFiles == {TaskFile(t) : t \in Tasks} \cup {ResFile(t, s) : t \in Tasks, s \in Statuses}
              \cup {NoIdFile}

\* "loaded", "flushing": a file of the scan is read; "begin": its file is deleted;
\* "announcing": `processing` is sent; "starting": inference_callback is called;
\* "succeeded", "raised": how it ended; the others name the status being sent,
\* "failing" and "cancelling" by the task context before it raises again, and
\* "failed" by process_loop after it.
Stages == {"idle", "loaded", "flushing", "begin", "announcing", "starting", "inferring",
           "succeeded", "raised", "refused", "cancelled", "completed", "failing", "cancelling",
           "failed"}
Idle == [stage |-> "idle", task |-> None, id |-> None, file |-> None]
Listening == [stage |-> "idle", task |-> None]

-----------------------------------------------------------------------------
InQueue(t) == \E i \in 1 .. Len(queue) : queue[i] = t

\* scan_cache_files sorts by name: res_ before task_, then the task, then the
\* status in alphabetical order, and only then the time.  Where `None` stands
\* among the ids depends on their first characters: it is left open.
Rank(s) == CASE s = "cancelled"  -> 1
             [] s = "completed"  -> 2
             [] s = "failed"     -> 3
             [] s = "underway"   -> 4
Before(f, g) ==
    \/ f.kind = "res" /\ g.kind = "task"
    \/ f.kind = g.kind /\ None \notin {f.task, g.task} /\ f.task < g.task
    \/ f.kind = "res" /\ g.kind = "res" /\ f.task = g.task /\ Rank(f.status) < Rank(g.status)

Stage(s) == up /\ processor.stage = s
GoTo(s) == processor' = [processor EXCEPT !.stage = s]

\* The processor works on t, and not on a status of it.
InHand(t) == processor.task = t /\ processor.stage \notin {"idle", "flushing"}

Init ==
    /\ inbound = <<>>
    /\ offered = {} /\ asked = {}
    /\ link = "closed"
    /\ receiver = Listening
    /\ queue = <<>>
    /\ processor = Idle
    /\ scan = {}
    /\ files = {}
    /\ marked = {}
    /\ up = FALSE
    /\ boots = 0 /\ drops = 0
    /\ fate = [t \in Tasks |-> "none"]
    /\ stopped = {}

-----------------------------------------------------------------------------
(* Sending a status and a result                                            *)

\* What becomes of a task by a status: only a final one decides it, and what the
\* gateway was told before stays told.
Settle(t, s, f) ==
    fate' = IF s \notin Terminal \/ fate[t] = "told" THEN fate
            ELSE [fate EXCEPT ![t] = f]

Drop(l) == /\ drops < MaxDrops
           /\ drops' = drops + 1
           /\ link' = l

Keep(t, s) == files' = files \cup {ResFile(t, s)} /\ Settle(t, s, "kept")

\* `completed` is not kept as a status: send_result has kept the result.
KeepStatus(t, s) ==
    IF s = "completed" THEN UNCHANGED <<files, fate>> ELSE Keep(t, s)

\* The frame arrives, or the connection is broken already and loses it.
Transmit(t, s) ==
    /\ link = "open"
    /\ Settle(t, s, "told") \/ Settle(t, s, "lost")
    /\ UNCHANGED <<link, drops, files>>

\* send_task_status.  ConnectionClosed loses the status; another exception, or a
\* connection known to be down, keeps it.
SendStatus(t, s) ==
    \/ Transmit(t, s)
    \/ link = "open" /\ Drop("closed") /\ Settle(t, s, "lost") /\ UNCHANGED files
    \/ link = "open" /\ Drop("suspect") /\ KeepStatus(t, s)
    \/ link # "open" /\ KeepStatus(t, s) /\ UNCHANGED <<link, drops>>

\* send_result: every failure keeps the result.
SendResult(t) ==
    \/ Transmit(t, "completed")
    \/ link = "open" /\ (Drop("closed") \/ Drop("suspect")) /\ Keep(t, "completed")
    \/ link # "open" /\ Keep(t, "completed") /\ UNCHANGED <<link, drops>>

\* A status process_loop sends of a task it knows no id of: the gateway drops the
\* frame (websocket/routes.py:356), or it is kept as res_None_..., and the task
\* is not settled by it.
SendWithoutId ==
    \/ link = "open" /\ UNCHANGED <<link, drops, files>>
    \/ link = "open" /\ Drop("closed") /\ UNCHANGED files
    \/ link = "open" /\ Drop("suspect") /\ files' = files \cup {NoIdFile}
    \/ link # "open" /\ files' = files \cup {NoIdFile} /\ UNCHANGED <<link, drops>>

\* The statuses of process_loop itself.
SendOfLoop(s) ==
    IF processor.id = None THEN SendWithoutId /\ UNCHANGED fate
                           ELSE SendStatus(processor.id, s)

\* A refusal is the only word on the task: without its id nobody is told.
SendRefusal ==
    IF processor.id = None
    THEN /\ SendWithoutId
         /\ fate' = IF fate[processor.task] = "accepted"
                    THEN [fate EXCEPT ![processor.task] = "untold"] ELSE fate
    ELSE SendStatus(processor.id, "failed")

-----------------------------------------------------------------------------
(* The gateway and the connection                                           *)

Offer(t) ==
    /\ up /\ link # "closed"
    /\ t \notin offered
    /\ offered' = offered \cup {t}
    /\ inbound' = Append(inbound, [type |-> "task", task |-> t])
    /\ UNCHANGED <<asked, link, receiver, memory, files, up, bounds, history>>

AskToCancel(t) ==
    /\ up /\ link # "closed"
    /\ t \in offered \ asked
    /\ asked' = asked \cup {t}
    /\ inbound' = Append(inbound, [type |-> "cancel", task |-> t])
    /\ UNCHANGED <<offered, link, receiver, memory, files, up, bounds, history>>

LinkDown ==
    /\ up /\ link # "closed"
    /\ Drop("closed")
    /\ UNCHANGED <<gateway, receiver, memory, files, up, boots, history>>

\* _reconnect, _restart_io_tasks: the receive loop is cancelled wherever it
\* awaits; a file it was writing is written or not.
Reconnect ==
    /\ up /\ link # "open"
    /\ link' = "open"
    /\ inbound' = <<>>
    /\ receiver' = Listening
    /\ \/ UNCHANGED files
       \/ receiver.stage = "saving" /\ files' = files \cup {TaskFile(receiver.task)}
    /\ UNCHANGED <<offered, asked, memory, up, bounds, history>>

\* start() connects before it starts the loops.
Boot ==
    /\ ~up /\ boots < MaxBoots
    /\ up' = TRUE
    /\ boots' = boots + 1
    /\ link' = "open"
    /\ UNCHANGED <<gateway, receiver, memory, files, drops, history>>

\* A kill or stop(): what is in memory is gone.  Of the task at hand, whose file
\* is deleted before the work, nothing is promised any more.
Crash ==
    /\ up
    /\ up' = FALSE
    /\ link' = "closed"
    /\ inbound' = <<>>
    /\ receiver' = Listening
    /\ queue' = <<>> /\ processor' = Idle /\ scan' = {} /\ marked' = {}
    /\ fate' = [t \in Tasks |-> IF fate[t] = "accepted" /\ InHand(t) /\ TaskFile(t) \notin files
                                THEN "none" ELSE fate[t]]
    /\ UNCHANGED <<offered, asked, files, bounds, stopped>>

-----------------------------------------------------------------------------
(* _receive_loop                                                            *)

Received(type, t) ==
    /\ up /\ link # "closed"
    /\ receiver.stage = "idle"
    /\ inbound # <<>>
    /\ Head(inbound) = [type |-> type, task |-> t]
    /\ inbound' = Tail(inbound)

\* put_message drops what does not fit.
ReceiveTask(t) ==
    /\ Received("task", t)
    /\ queue' = IF Len(queue) < MaxQueue THEN Append(queue, t) ELSE queue
    /\ receiver' = [stage |-> "queued", task |-> t]
    /\ UNCHANGED <<offered, asked, link, processor, scan, marked, files, up, bounds, history>>

SendQueued ==
    /\ up /\ receiver.stage = "queued"
    /\ SendStatus(receiver.task, "underway")
    /\ receiver' = [receiver EXCEPT !.stage = "saving"]
    /\ UNCHANGED <<gateway, memory, up, boots, stopped>>

Accepted(t) == fate' = IF fate[t] = "none" THEN [fate EXCEPT ![t] = "accepted"] ELSE fate

\* Seeded fault: a task that is not in the queue any more is not saved.
SaveOnlyQueued ==
    /\ up /\ receiver.stage = "saving"
    /\ files' = IF InQueue(receiver.task) THEN files \cup {TaskFile(receiver.task)} ELSE files
    /\ Accepted(receiver.task)
    /\ receiver' = Listening
    /\ UNCHANGED <<gateway, link, memory, up, bounds, stopped>>

\* save_message: also when the queue dropped the task, or when process_loop has
\* taken it already.
Save ==
    /\ up /\ receiver.stage = "saving"
    /\ files' = files \cup {TaskFile(receiver.task)}
    /\ Accepted(receiver.task)
    /\ receiver' = Listening
    /\ UNCHANGED <<gateway, link, memory, up, bounds, stopped>>

\* Seeded fault: the cancel message leaves the task's file.
ReceiveCancelKeepingFile(t) ==
    /\ Received("cancel", t)
    /\ marked' = marked \cup {t}
    /\ stopped' = stopped \cup {t}
    /\ UNCHANGED <<offered, asked, link, receiver, queue, processor, scan, files, up, bounds, fate>>

\* handle_cancel_message, past the queue: mark the task, delete its file.
ReceiveCancel(t) ==
    /\ Received("cancel", t)
    /\ marked' = marked \cup {t}
    /\ files' = files \ {TaskFile(t)}
    /\ stopped' = stopped \cup {t}
    /\ UNCHANGED <<offered, asked, link, receiver, queue, processor, scan, up, bounds, fate>>

-----------------------------------------------------------------------------
(* process_loop: a task from the queue, or the files of a scan              *)

Free == Stage("idle") /\ scan = {}

Handle(t, id, stage, file) ==
    processor' = [stage |-> stage, task |-> t, id |-> id, file |-> file]

\* The task is popped and its file, when it has one already, deleted.
Take ==
    /\ Free
    /\ queue # <<>>
    /\ queue' = Tail(queue)
    /\ files' = files \ {TaskFile(Head(queue))}
    /\ Handle(Head(queue), Head(queue), "begin", None)
    /\ UNCHANGED <<gateway, link, receiver, scan, marked, up, bounds, history>>

\* Seeded fault: the scan looks for statuses only.
ScanStatusesOnly ==
    /\ Free
    /\ queue = <<>>
    /\ scan' = {f \in files : f.kind = "res"}
    /\ scan' # {}
    /\ UNCHANGED <<gateway, link, receiver, queue, processor, marked, files, up, bounds, history>>

\* _scan_cache_directory, while the queue is empty.
StartScan ==
    /\ Free
    /\ queue = <<>>
    /\ files # {}
    /\ scan' = files
    /\ UNCHANGED <<gateway, link, receiver, queue, processor, marked, files, up, bounds, history>>

\* Seeded fault: the prefix of the file name is taken for the stage.
LoadFileByPrefix(f) ==
    /\ Stage("idle")
    /\ f \in scan
    /\ \A g \in scan \ {f} : ~Before(g, f)
    /\ scan' = scan \ {f}
    /\ Handle(f.task, None, f.kind, f)
    /\ UNCHANGED <<gateway, link, receiver, queue, marked, files, up, bounds, history>>

\* The next file of the scan is read; a file deleted meanwhile is skipped.  A
\* task's file holds task_data, which has `id` and no `task_id`: the loop goes on
\* with None for the task's id.
LoadFile(f) ==
    /\ Stage("idle")
    /\ f \in scan
    /\ \A g \in scan \ {f} : ~Before(g, f)
    /\ scan' = scan \ {f}
    /\ IF f \in files
       THEN Handle(f.task, None, IF f.kind = "task" THEN "loaded" ELSE "flushing", f)
       ELSE UNCHANGED processor
    /\ UNCHANGED <<gateway, link, receiver, queue, marked, files, up, bounds, history>>

\* A task file is deleted, then its task is processed like a queued one.
DeleteLoaded ==
    /\ Stage("loaded")
    /\ files' = files \ {processor.file}
    /\ Handle(processor.task, processor.id, "begin", None)
    /\ UNCHANGED <<gateway, link, receiver, queue, scan, marked, up, bounds, history>>

\* Seeded fault: the file of a status is deleted before it is known to be sent.
FlushDeletingFirst ==
    /\ Stage("flushing")
    /\ files' = files \ {processor.file}
    /\ \/ link = "open" /\ processor.task # None
          /\ Settle(processor.task, processor.file.status, "told")
       \/ UNCHANGED fate
    /\ processor' = Idle
    /\ UNCHANGED <<gateway, link, receiver, queue, scan, marked, up, bounds, stopped>>

\* Seeded fault: the file of a status that was sent stays.
FlushKeepingFile ==
    /\ Stage("flushing")
    /\ \/ link = "open" /\ processor.task # None
          /\ Settle(processor.task, processor.file.status, "told")
       \/ (link # "open" \/ processor.task = None) /\ UNCHANGED fate
    /\ processor' = Idle
    /\ UNCHANGED <<gateway, link, receiver, queue, scan, marked, files, up, bounds, stopped>>

\* A res_ file is sent as a status, and deleted when the send returned.  A send
\* that raises another exception than ConnectionClosed keeps it once more.  One
\* without a task id is deleted unsent.
Flush ==
    /\ Stage("flushing")
    /\ LET t == processor.task
           s == processor.file.status
       IN \/ /\ link = "open" /\ t # None
             /\ Settle(t, s, "told") \/ Settle(t, s, "lost")
             /\ files' = files \ {processor.file}
             /\ UNCHANGED <<link, drops>>
          \/ /\ link = "open" /\ t = None
             /\ files' = files \ {processor.file}
             /\ UNCHANGED <<link, drops, fate>>
          \/ /\ link = "open" /\ t # None
             /\ Drop("closed") \/ Drop("suspect")
             /\ UNCHANGED <<files, fate>>
          \/ /\ link # "open"
             /\ UNCHANGED <<link, drops, files, fate>>
    /\ processor' = Idle
    /\ UNCHANGED <<gateway, receiver, queue, scan, marked, up, boots, stopped>>

-----------------------------------------------------------------------------
(* _process_task_message and the inference callback                         *)

\* The task's type is wrong, or it is cancelled, or it is announced.  The marks
\* are looked up under the id the loop has.
Begin ==
    /\ Stage("begin")
    /\ GoTo(CASE processor.task \in Foreign -> "refused"
              [] processor.task \notin Foreign /\ processor.id \in marked -> "cancelled"
              [] OTHER -> "announcing")
    /\ UNCHANGED <<gateway, link, receiver, queue, scan, marked, files, up, bounds, history>>

Announce ==
    /\ Stage("announcing")
    /\ SendOfLoop("underway")
    /\ GoTo("starting")
    /\ UNCHANGED <<gateway, receiver, queue, scan, marked, up, boots, stopped>>

\* The parameters cannot be read, or the task was cancelled meanwhile, or
\* inference starts.  from_task_dict reads the id in task_data: from here to
\* the end of the task context the task has its id.
Start ==
    /\ Stage("starting")
    /\ GoTo(CASE processor.task \in Malformed -> "refused"
              [] processor.task \in marked \ Malformed -> "cancelled"
              [] OTHER -> "inferring")
    /\ UNCHANGED <<gateway, link, receiver, queue, scan, marked, files, up, bounds, history>>

\* The result is sent; or the handler raises or notices the cancellation.
InferEnd ==
    /\ Stage("inferring")
    /\ \/ SendResult(processor.task) /\ GoTo("succeeded")
       \/ GoTo("raised") /\ UNCHANGED <<link, drops, files, fate>>
    /\ UNCHANGED <<gateway, receiver, queue, scan, marked, up, boots, stopped>>

\* The end of the task context: a cancelled task ends cancelled however it ended.
\* One that noticed it (a return, TaskCancelledError) ends with that; another
\* exception goes on to process_loop.
Conclude ==
    /\ LET isCancelled == processor.task \in marked
       IN \/ Stage("succeeded") /\ GoTo(IF isCancelled THEN "cancelled" ELSE "completed")
          \/ Stage("raised") /\ isCancelled /\ (GoTo("cancelled") \/ GoTo("cancelling"))
          \/ Stage("raised") /\ ~isCancelled /\ GoTo("failing")
    /\ files' = IF CleansUp THEN files \ {TaskFile(processor.task)} ELSE files
    /\ UNCHANGED <<gateway, link, receiver, queue, scan, marked, up, bounds, history>>

\* The task context reports the end and raises the exception again to process_loop.
ReportFailing ==
    /\ \/ Stage("failing") /\ SendStatus(processor.task, "failed")
       \/ Stage("cancelling") /\ SendStatus(processor.task, "cancelled")
    /\ GoTo("failed")
    /\ UNCHANGED <<gateway, receiver, queue, scan, marked, up, boots, stopped>>

\* process_loop reports it too, unless it finds the task cancelled.
ReportFailed ==
    /\ Stage("failed")
    /\ IF processor.id \in marked
       THEN UNCHANGED <<link, drops, files, fate>>
       ELSE SendOfLoop("failed")
    /\ marked' = marked \ {processor.id}
    /\ processor' = Idle
    /\ UNCHANGED <<gateway, receiver, queue, scan, up, boots, stopped>>

\* The last status of a task; the mark under the loop's id is cleared, except
\* by a refusal.
Report ==
    /\ \/ /\ Stage("refused")
          /\ SendRefusal
          /\ UNCHANGED marked
       \/ \E s \in {"cancelled", "completed"} :
             /\ Stage(s)
             /\ SendStatus(processor.task, s)
             /\ marked' = marked \ {processor.id}
    /\ processor' = Idle
    /\ UNCHANGED <<gateway, receiver, queue, scan, up, boots, stopped>>

-----------------------------------------------------------------------------
ReceiverStep ==
    \/ \E t \in Tasks : ReceiveTask(t) \/ ReceiveCancel(t)
    \/ SendQueued
    \/ Save

ProcessorStep ==
    \/ Take
    \/ StartScan
    \/ \E f \in scan : LoadFile(f)
    \/ DeleteLoaded
    \/ Flush
    \/ Begin
    \/ Announce
    \/ Start
    \/ InferEnd
    \/ Conclude
    \/ ReportFailing
    \/ ReportFailed
    \/ Report

Next ==
    \/ \E t \in Tasks : Offer(t) \/ AskToCancel(t)
    \/ LinkDown
    \/ Reconnect
    \/ Boot
    \/ Crash
    \/ ReceiverStep
    \/ ProcessorStep

Spec == Init /\ [][Next]_vars

\* The event loop runs both loops, sends return or raise and an inference ends;
\* nothing obliges the gateway, the connection or a supervisor.
Fairness == WF_vars(ReceiverStep) /\ WF_vars(ProcessorStep)

FairSpec == Spec /\ Fairness

-----------------------------------------------------------------------------
(* Properties                                                               *)

\* Every variable has its type.
TypeOK ==
    /\ inbound \in Seq(Frames)
    /\ offered \subseteq Tasks
    /\ asked \subseteq Tasks
    /\ link \in {"open", "suspect", "closed"}
    /\ receiver \in [stage : {"idle", "queued", "saving"}, task : Tasks \cup {None}]
    /\ queue \in Seq(Tasks)
    /\ processor \in [stage : Stages, task : Tasks \cup {None}, id : Tasks \cup {None},
                      file : CacheFiles \cup {None}]
    /\ scan \subseteq CacheFiles
    /\ files \subseteq CacheFiles
    /\ marked \subseteq Tasks
    /\ up \in BOOLEAN
    /\ boots \in Nat
    /\ drops \in Nat
    /\ fate \in [Tasks -> Fates]
    /\ stopped \subseteq Tasks

Starts(t) ==
    /\ processor.stage # "inferring"
    /\ processor'.stage = "inferring"
    /\ processor'.task = t

\* Once a cancel message is handled, no inference of the task starts any more:
\* not from the queue, not from a cache file saved late, not in a later process
\* that has forgotten the mark.
CancelledNeverStarts == [][\A t \in stopped : ~Starts(t)]_vars

AcceptedHasPlace ==
    \A t \in Tasks \ stopped : fate[t] = "accepted" =>
        InQueue(t) \/ InHand(t) \/ TaskFile(t) \in files
UntoldIsRefused == \A t \in Tasks : fate[t] = "untold" => t \in Foreign \cup Malformed

\* A task whose receipt is complete and whose end is not known is in the queue,
\* at the processor or in a cache file: the full queue loses none, and neither
\* does a reconnect or a restart.  The one way an accepted task drops out with
\* nobody told is named: process_loop refuses it when it comes from a cache file,
\* and reports that under the task id None (task_processor.py:320).  A task that
\* could be started never ends like that.
AcceptedIsHeld == AcceptedHasPlace /\ UntoldIsRefused

\* An end that could not be sent waits in a res_ file under the task's id until it
\* is: only a connection that breaks under the send can lose it.  The res_None
\* files, which a scan deletes unsent (task_processor.py:297-301), never hold the
\* end of a task that counts as kept.
KeptIsOnDisk ==
    \A t \in Tasks : fate[t] = "kept" => \E s \in Terminal : ResFile(t, s) \in files

\* An accepted task comes to an end, unless the process goes away: the scan gets
\* to what the queue dropped, and no file keeps it busy for ever.  For a task that
\* process_loop refuses this may be the refusal nobody is told of, see AcceptedIsHeld.
RefusedUntold(t) == t \in Foreign \cup Malformed /\ fate[t] = "untold"
AcceptedIsDecided ==
    \A t \in Tasks :
        fate[t] = "accepted" ~> Decided(t) \/ RefusedUntold(t) \/ t \in stopped \/ ~up

\* What waits in res_ files is worked off while the connection lasts.
Waiting == \E f \in files : f.kind = "res"
KeptIsFlushed == Waiting ~> ~Waiting \/ link # "open"

\* task_processor.py:163 deletes the cache file of a task at once so that the
\* task is not processed again: no inference starts for a task that has ended.
ExecutedOnce == [][\A t \in Tasks : Decided(t) => ~Starts(t)]_vars

\* message_cache.py:106 keeps a status in a file when the connection is down, so
\* that the gateway learns it later: a send that fails loses no end of a task.
FailedSendIsKept ==
    [][\A t \in Tasks : up' /\ link = "open" /\ link' = "closed" /\ fate'[t] # fate[t] =>
          \E s \in Terminal : ResFile(t, s) \in files']_vars

-----------------------------------------------------------------------------
(* The inductive invariant behind CancelledNeverStarts, AcceptedIsHeld and  *)
(* KeptIsOnDisk                                                             *)

\* What stands in the place of a task is one, where it is used.
TasksAtHand ==
    /\ receiver.stage # "idle" => receiver.task \in Tasks
    /\ processor.stage \notin {"idle", "flushing"} =>
          /\ processor.task \in Tasks
          /\ processor.id \in {processor.task, None}

Coming(type, t) == \E i \in 1 .. Len(inbound) : inbound[i] = [type |-> type, task |-> t]
AtReceiver(t) == receiver.stage # "idle" /\ receiver.task = t
Arrived(t) == \/ AtReceiver(t) \/ InQueue(t) \/ InHand(t)
              \/ TaskFile(t) \in files \cup scan \/ fate[t] = "accepted"

\* Each frame is sent once, and the cancel message of a task after the task.
FramesInOrder ==
    /\ stopped \subseteq asked /\ asked \subseteq offered
    /\ \A t \in Tasks : /\ Coming("cancel", t) => t \in asked
                        /\ Coming("task", t) \/ Arrived(t) => t \in offered
    /\ \A i, j \in 1 .. Len(inbound) :
          /\ inbound[i] = inbound[j] => i = j
          /\ inbound[i].task = inbound[j].task /\ inbound[i].type = "cancel" => j <= i

\* A task still on its way is nowhere yet.
ComingIsNew == \A t \in Tasks : Coming("task", t) => ~Arrived(t)

\* A queued task is queued once, and not at the processor or before it in a scan.
QueuedOnce ==
    /\ \A i, j \in 1 .. Len(queue) : queue[i] = queue[j] => i = j
    /\ \A t \in Tasks : InQueue(t) => ~InHand(t) /\ TaskFile(t) \notin scan

\* An accepted task has its file while it is queued.
QueuedIsOnDisk ==
    \A t \in Tasks \ stopped : InQueue(t) /\ fate[t] = "accepted" => TaskFile(t) \in files

\* Of a stopped task no file is left and none will be written, and where it is
\* still to be started, it is marked.
ToStart(t) == InQueue(t) \/ (InHand(t) /\ processor.stage \in {"loaded", "begin", "announcing", "starting"})
StoppedIsOut ==
    \A t \in stopped :
        /\ ~Coming("task", t) /\ ~AtReceiver(t) /\ TaskFile(t) \notin files
        /\ ToStart(t) => t \in marked

\* The file a scan has read is one of the task at hand.
FileAtHand ==
    /\ processor.stage = "loaded" => processor.file = TaskFile(processor.task)
    /\ processor.stage = "flushing" =>
          \/ processor.task = None /\ processor.file = NoIdFile
          \/ processor.task \in Tasks /\ \E s \in Statuses : processor.file = ResFile(processor.task, s)

\* A result and a failure are sent before the status that may not be kept.
EndsAreDecided ==
    processor.stage \in {"succeeded", "completed", "failed"} => Decided(processor.task)

\* What process_loop refuses is of another type or unreadable.
RefusedHasReason == processor.stage = "refused" => processor.task \in Foreign \cup Malformed

OnceInv == FramesInOrder /\ ComingIsNew /\ QueuedOnce /\ QueuedIsOnDisk
HeldInv == TasksAtHand /\ FileAtHand /\ EndsAreDecided /\ AcceptedHasPlace /\ KeptIsOnDisk
RefusalInv == UntoldIsRefused /\ RefusedHasReason

IInv == OnceInv /\ StoppedIsOut /\ HeldInv /\ RefusalInv
=============================================================================
