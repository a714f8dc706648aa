----------------------------- MODULE TaskDispatch -----------------------------
(***************************************************************************)
(* The way of a media task through the gateway: _create_task and DELETE    *)
(* /tasks (backend/api/tasks/routes.py), the dispatch and the cancel       *)
(* signal of WebSocketManager, the task_status and result frames of        *)
(* /ws/inference (backend/websocket/routes.py), and the agent tool that    *)
(* waits for the outcome (services/agent/tools/builtin/_media_common.py).  *)
(*                                                                         *)
(* The worker at the other end is InferenceWorker seen from the wire: it   *)
(* answers every task it got, keeps what it cannot send and replays it as  *)
(* statuses.  Its queue and files are not repeated here.  How connections  *)
(* replace each other is ServiceRegistry's subject; here a service has one *)
(* link, and the manager's lock only orders steps that do not block.       *)
(***************************************************************************)
EXTENDS DispatchRouter, Integers, Sequences, SequencesExt

CONSTANTS Tasks,
          Request,   \* the DispatchSpec of a task
          Total,     \* files a task produces (generate_num)
          MaxDrops   \* bound: connections that break

ASSUME DispatchAssumption ==
    /\ Request \in [Tasks -> Specs]
    /\ \A t \in Tasks : Request[t].task
    /\ Total \in Nat \ {0}
    /\ MaxDrops \in Nat

VARIABLES status,      \* tasks.status, "none" without a row
          files,       \* the File rows of a task
          dispatched,  \* _task_dispatch_services
          connected,   \* services in _inference_connections
          running,     \* services whose row is running
          serving,     \* services whose handler is in its receive loop
          ending,      \* services with a handler between disconnect() and sync_service_stop
          handler,     \* the frame a handler has recorded and not yet forwarded
          create,      \* _create_task: stage and the service picked
          cancel,      \* DELETE: stage, targets of the signal, services seen up
          tool,        \* the tool that waits for the task
          collected,   \* the files it has been told of
          link,        \* "broken": closed, and one side or both do not know it
          downlink,    \* frames on their way to a service
          uplink,      \* and from it
          job,         \* the task at its service: stage, files produced
          marked,      \* tasks a service was told to cancel
          kept,        \* res_ files of a service
          drops,
          disturbed,   \* history: tasks of which a frame was lost or came late
          early        \* history: tasks with a message forwarded before the tool listened

rows     == <<status, files>>
registry == <<connected, running, serving, ending>>
agent    == <<tool, collected>>
wires    == <<downlink, uplink>>
worker   == <<job, marked, kept>>
vars == <<rows, dispatched, registry, handler, create, cancel, agent, link, wires,
          worker, drops, disturbed, early>>

Statuses == {"queued", "processing", "completed", "failed", "cancelled"}
Terminal == {"completed", "failed", "cancelled"}
All      == 1 .. Total

Task(t)      == [type |-> "task", task |-> t]
CancelOf(t)  == [type |-> "cancel", task |-> t]
StatusOf(t, s)  == [type |-> "status", task |-> t, status |-> s, index |-> 0]
ResultOf(t, i) == [type |-> "result", task |-> t, index |-> i,
                   status |-> IF i = Total THEN "completed" ELSE "processing"]
Upward == {StatusOf(t, s) : t \in Tasks, s \in Statuses}
            \cup [type : {"result"}, task : Tasks, index : All, status : Statuses]
Downward == [type : {"task", "cancel"}, task : Tasks]
NoFrame == [type |-> "none"]

\* "created": the row is there; "sending": in send_text; "stranded": its websocket
\* was unregistered meanwhile; "failing": about to tell of the failure;
\* "returning": the tool is about to subscribe; "refused": HTTP 400.
CreateStages == {"none", "created", "picked", "sending", "stranded", "sent", "failing",
                 "returning", "done", "refused"}

Final(t) == status[t] \in Terminal
Target(t) == create[t].target
AtCreate(t, s) == create[t].stage = s
CreateGoes(t, s) == create' = [create EXCEPT ![t].stage = s]

Init ==
    /\ status = [t \in Tasks |-> "none"] /\ files = [t \in Tasks |-> {}]
    /\ dispatched = [t \in Tasks |-> None]
    /\ connected = Services /\ running = Services /\ serving = Services /\ ending = {}
    /\ handler = [x \in Services |-> NoFrame]
    /\ create = [t \in Tasks |-> [stage |-> "none", target |-> None]]
    /\ cancel = [t \in Tasks |-> [stage |-> "none", targets |-> {}, seen |-> {}]]
    /\ tool = [t \in Tasks |-> "none"] /\ collected = [t \in Tasks |-> {}]
    /\ link = [x \in Services |-> "up"]
    /\ downlink = [x \in Services |-> <<>>] /\ uplink = [x \in Services |-> <<>>]
    /\ job = [t \in Tasks |-> [stage |-> "none", made |-> 0]]
    /\ marked = [x \in Services |-> {}] /\ kept = [x \in Services |-> {}]
    /\ drops = 0
    /\ disturbed = {} /\ early = {}

-----------------------------------------------------------------------------
(* forward_inference_message and the tool's loop over its messages          *)

\* Seeded fault: a cancellation does not end the wait.
ToldButCancelled(f, have) ==
    CASE f.type = "result" /\ (f.status = "completed" \/ have = All) -> "completed"
      [] f.type = "status" /\ f.status = "failed"                     -> f.status
      [] OTHER -> "waiting"

\* What the tool makes of a message when it has those files.
Told(f, have) ==
    CASE f.type = "result" /\ (f.status = "completed" \/ have = All) -> "completed"
      [] f.type = "status" /\ f.status \in {"failed", "cancelled"}   -> f.status
      [] OTHER -> "waiting"

\* A message reaches the tool when it has subscribed; it reads a `completed`
\* status like any other progress.
Deliver(f) ==
    LET t == f.task
        have == collected[t] \cup (IF f.type = "result" THEN {f.index} ELSE {})
    IN IF tool[t] = "waiting"
       THEN /\ collected' = [collected EXCEPT ![t] = have]
            /\ tool' = [tool EXCEPT ![t] = Told(f, have)]
            /\ UNCHANGED early
       ELSE /\ early' = IF tool[t] = "none" THEN early \cup {t} ELSE early
            /\ UNCHANGED agent

\* The timeout; with nothing collected the tool looks into the database.
ToolTimeout(t) ==
    /\ tool[t] = "waiting"
    /\ IF collected[t] = {}
       THEN /\ collected' = [collected EXCEPT ![t] = files[t]]
            /\ tool' = [tool EXCEPT ![t] = IF status[t] = "completed" THEN "completed" ELSE "timeout"]
       ELSE /\ tool' = [tool EXCEPT ![t] = "timeout"]
            /\ UNCHANGED collected
    /\ UNCHANGED <<rows, dispatched, registry, handler, create, cancel, link, wires, worker,
                   drops, disturbed, early>>

-----------------------------------------------------------------------------
(* _create_task and send_task_to_inference_service                          *)

\* The row is created after a check that some service could take it.
CreateTask(t) ==
    /\ AtCreate(t, "none")
    /\ ListServices(running, connected, Request[t]) # {}
    /\ status' = [status EXCEPT ![t] = "pending"]
    /\ CreateGoes(t, "created")
    /\ UNCHANGED <<files, dispatched, registry, handler, cancel, agent, link, wires, worker,
                   drops, disturbed, early>>

\* A cloud model is not sent to any service; a translate task without a catalog
\* row is refused when its row is there already.
CreateUnsent(t) ==
    /\ AtCreate(t, "none")
    /\ status' = [status EXCEPT ![t] = "pending"]
    /\ CreateGoes(t, "returning") \/ CreateGoes(t, "refused")
    /\ UNCHANGED <<files, dispatched, registry, handler, cancel, agent, link, wires, worker,
                   drops, disturbed, early>>

\* Seeded fault: the row of a task that cannot be dispatched is left alone.
FailUnrecorded(t) == CreateGoes(t, "failing") /\ UNCHANGED status

\* _mark_task_failed_and_notify, up to the forwarding: whatever the row holds.
Fail(t) ==
    /\ status' = [status EXCEPT ![t] = "failed"]
    /\ CreateGoes(t, "failing")

Pick(t) ==
    /\ AtCreate(t, "created")
    /\ LET candidates == ListServices(running, connected, Request[t])
       IN \/ candidates = {} /\ Fail(t)
          \/ \E x \in candidates :
               /\ create' = [create EXCEPT ![t] = [stage |-> "picked", target |-> x]]
               /\ UNCHANGED status
    /\ UNCHANGED <<files, dispatched, registry, handler, cancel, agent, link, wires, worker,
                   drops, disturbed, early>>

LookUpSocket(t) ==
    /\ AtCreate(t, "picked")
    /\ IF Target(t) \in connected THEN CreateGoes(t, "sending") /\ UNCHANGED status ELSE Fail(t)
    /\ UNCHANGED <<files, dispatched, registry, handler, cancel, agent, link, wires, worker,
                   drops, disturbed, early>>

\* The entry of x goes, with the dispatch records that name it.
Unregister(x) ==
    /\ connected' = connected \ {x}
    /\ dispatched' = [t \in Tasks |-> IF dispatched[t] = x THEN None ELSE dispatched[t]]

Send(t) ==
    LET x == Target(t)
    IN /\ AtCreate(t, "sending")
       /\ \/ /\ link[x] = "up"
             /\ downlink' = [downlink EXCEPT ![x] = Append(@, Task(t))]
             /\ CreateGoes(t, "sent")
             /\ UNCHANGED <<status, dispatched, connected, disturbed>>
          \/ /\ link[x] # "up"    \* taken by a socket that has nobody behind it
             /\ disturbed' = disturbed \cup {t}
             /\ CreateGoes(t, "sent")
             /\ UNCHANGED <<status, dispatched, connected, downlink>>
          \/ /\ link[x] # "up"    \* or refused
             /\ Unregister(x)
             /\ Fail(t)
             /\ UNCHANGED <<downlink, disturbed>>
       /\ UNCHANGED <<files, running, serving, ending, handler, cancel, agent, link, uplink,
                      worker, drops, early>>

\* The websocket it holds is closed and in no map any more.
SendStranded(t) ==
    /\ AtCreate(t, "stranded")
    /\ Fail(t)
    /\ UNCHANGED <<files, dispatched, registry, handler, cancel, agent, link, wires, worker,
                   drops, disturbed, early>>

\* The dispatch is recorded when the send has returned, whatever came meanwhile.
Record(t) ==
    /\ AtCreate(t, "sent")
    /\ dispatched' = [dispatched EXCEPT ![t] = Target(t)]
    /\ CreateGoes(t, "returning")
    /\ UNCHANGED <<rows, registry, handler, cancel, agent, link, wires, worker, drops,
                   disturbed, early>>

TellFailure(t) ==
    /\ AtCreate(t, "failing")
    /\ Deliver(StatusOf(t, "failed"))
    /\ CreateGoes(t, "returning")
    /\ UNCHANGED <<rows, dispatched, registry, handler, cancel, link, wires, worker, drops,
                   disturbed>>

\* _submit_and_subscribe: the subscriber is registered once _create_task is done.
Subscribe(t) ==
    /\ AtCreate(t, "returning")
    /\ tool' = [tool EXCEPT ![t] = "waiting"]
    /\ CreateGoes(t, "done")
    /\ UNCHANGED <<rows, dispatched, registry, handler, cancel, collected, link, wires, worker,
                   drops, disturbed, early>>

-----------------------------------------------------------------------------
(* DELETE /tasks/{id} and send_cancel_signal_to_inference_service           *)

DeleteTask(t) ==
    /\ cancel[t].stage = "none"
    /\ status[t] # "none" /\ ~Final(t)
    /\ status' = [status EXCEPT ![t] = "cancelled"]
    /\ cancel' = [cancel EXCEPT ![t].stage = "deleted"]
    /\ UNCHANGED <<files, dispatched, registry, handler, create, agent, link, wires, worker,
                   drops, disturbed, early>>

\* The signal asks for no capability.
WithoutCapability(spec) == [spec EXCEPT !.capability = None]

LookingUp(t, targets) ==
    /\ cancel[t].stage = "deleted"
    /\ cancel' = [cancel EXCEPT ![t] = [stage |-> "looked", targets |-> targets,
                                        seen |-> connected \cap running]]
    /\ UNCHANGED <<rows, dispatched, registry, handler, create, agent, link, wires, worker,
                   drops, disturbed, early>>

\* Seeded fault: without a record nobody is signalled.
LookUpRecordOnly(t) == LookingUp(t, {dispatched[t]} \cap connected)

\* The recorded service, or else all that could have got the task.
LookUpTargets(t) ==
    LookingUp(t, IF dispatched[t] \in connected THEN {dispatched[t]}
                 ELSE ListServices(running, connected, WithoutCapability(Request[t])))

\* Under the lock.  What a failing send does there is ServiceRegistry's
\* NoSelfDeadlock; here the signal is lost.
SendCancel(t) ==
    LET to == cancel[t].targets \cap connected
    IN /\ cancel[t].stage = "looked"
       /\ cancel' = [cancel EXCEPT ![t].stage = "signalled"]
       /\ downlink' = [x \in Services |-> IF x \in to /\ link[x] = "up"
                                          THEN Append(downlink[x], CancelOf(t)) ELSE downlink[x]]
       /\ disturbed' = IF \E x \in cancel[t].targets : x \notin to \/ link[x] # "up"
                       THEN disturbed \cup {t} ELSE disturbed
       /\ UNCHANGED <<rows, dispatched, registry, handler, create, agent, link, uplink, worker,
                      drops, early>>

-----------------------------------------------------------------------------
(* The handler of /ws/inference                                             *)

\* service_register, and every heartbeat.
Register(x) ==
    /\ x \in serving /\ link[x] = "up"
    /\ x \notin running
    /\ running' = running \cup {x}
    /\ UNCHANGED <<rows, dispatched, connected, serving, ending, handler, create, cancel, agent,
                   link, wires, worker, drops, disturbed, early>>

\* The next frame is recorded as f.
Handling(x, type, f) ==
    /\ x \in serving
    /\ handler[x] = NoFrame
    /\ uplink[x] # <<>> /\ Head(uplink[x]).type = type
    /\ uplink' = [uplink EXCEPT ![x] = Tail(@)]
    /\ handler' = [handler EXCEPT ![x] = f]
    /\ status' = [status EXCEPT ![f.task] = f.status]
    /\ UNCHANGED <<dispatched, registry, create, cancel, agent, link, downlink, worker, drops,
                   disturbed, early>>

\* A task_status is written over whatever the row holds.
ReceiveStatus(x) ==
    /\ uplink[x] # <<>>
    /\ Handling(x, "status", Head(uplink[x]))
    /\ UNCHANGED files

\* Seeded fault: the first file completes the task.
ReceiveResultAtOnce(x) ==
    /\ uplink[x] # <<>>
    /\ Handling(x, "result", [Head(uplink[x]) EXCEPT !.status = "completed"])
    /\ files' = [files EXCEPT ![Head(uplink[x]).task] = @ \cup {Head(uplink[x]).index}]

\* A result records its file; the files recorded so far, not the frame, decide
\* whether the task is completed.
ReceiveResult(x) ==
    /\ uplink[x] # <<>>
    /\ LET f == Head(uplink[x])
           have == files[f.task] \cup {f.index}
       IN /\ Handling(x, "result", [f EXCEPT !.status = IF have = All THEN "completed" ELSE "processing"])
          /\ files' = [files EXCEPT ![f.task] = have]

\* Forwarded as recorded; a final status clears the dispatch.
ForwardFrame(x) ==
    LET f == handler[x]
    IN /\ f # NoFrame
       /\ Deliver(f)
       /\ dispatched' = IF f.status \in (IF f.type = "result" THEN {"completed"} ELSE Terminal)
                        THEN [dispatched EXCEPT ![f.task] = None] ELSE dispatched
       /\ handler' = [handler EXCEPT ![x] = NoFrame]
       /\ UNCHANGED <<rows, registry, create, cancel, link, wires, worker, drops, disturbed>>

\* A coroutine in send_text on the connection of x finds its websocket closed.
Strand(x) ==
    create' = [t \in Tasks |-> IF AtCreate(t, "sending") /\ Target(t) = x
                               THEN [create[t] EXCEPT !.stage = "stranded"] ELSE create[t]]

\* The receive fails when everything that had arrived is handled; `finally`.
HandlerEnds(x) ==
    /\ x \in serving
    /\ link[x] # "up" /\ uplink[x] = <<>> /\ handler[x] = NoFrame
    /\ Unregister(x)
    /\ serving' = serving \ {x}
    /\ ending' = ending \cup {x}
    /\ Strand(x)
    /\ UNCHANGED <<rows, running, handler, cancel, agent, link, wires, worker, drops, disturbed,
                   early>>

\* sync_service_stop, whoever is connected by now.
SyncStop(x) ==
    /\ x \in ending
    /\ running' = running \ {x}
    /\ ending' = ending \ {x}
    /\ UNCHANGED <<rows, dispatched, connected, serving, handler, create, cancel, agent, link,
                   wires, worker, drops, disturbed, early>>

-----------------------------------------------------------------------------
(* The link, and the worker at its end                                      *)

About(frames) == {frames[i].task : i \in DOMAIN frames}

\* What is under way to the worker is lost, and a tail of what it sent.
LinkBreaks(x) ==
    /\ link[x] = "up" /\ drops < MaxDrops
    /\ drops' = drops + 1
    /\ link' = [link EXCEPT ![x] = "broken"]
    /\ \E n \in 0 .. Len(uplink[x]) :
         /\ uplink' = [uplink EXCEPT ![x] = SubSeq(@, 1, n)]
         /\ disturbed' = disturbed \cup About(downlink[x])
                           \cup About(SubSeq(uplink[x], n + 1, Len(uplink[x])))
    /\ downlink' = [downlink EXCEPT ![x] = <<>>]
    /\ UNCHANGED <<rows, dispatched, registry, handler, create, cancel, agent, worker, early>>

\* The worker connects again.  A handler that has not noticed the end is replaced
\* and what it had not read is lost; it stops the service's row when it ends.
Reconnect(x) ==
    /\ link[x] # "up" /\ handler[x] = NoFrame
    /\ link' = [link EXCEPT ![x] = "up"]
    /\ connected' = connected \cup {x}
    /\ serving' = serving \cup {x}
    /\ ending' = IF x \in serving THEN ending \cup {x} ELSE ending
    /\ IF x \in serving THEN Strand(x) ELSE UNCHANGED create
    /\ disturbed' = disturbed \cup About(uplink[x])
    /\ uplink' = [uplink EXCEPT ![x] = <<>>]
    /\ UNCHANGED <<rows, dispatched, running, handler, cancel, agent, downlink, worker, drops,
                   early>>

\* A frame goes out, or the send fails: a status is lost (ConnectionClosed) or
\* kept; of `completed` only the result is kept.
Emit(x, f) ==
    \/ /\ link[x] = "up"
       /\ uplink' = [uplink EXCEPT ![x] = Append(@, f)]
       /\ UNCHANGED <<link, kept, disturbed>>
    \/ /\ link[x] # "up"
       /\ link' = [link EXCEPT ![x] = "down"]
       /\ disturbed' = disturbed \cup {f.task}
       /\ \/ /\ f.type = "result" \/ f.status # "completed"
             /\ kept' = [kept EXCEPT ![x] = @ \cup {[task |-> f.task, status |-> f.status]}]
          \/ /\ f.type = "status" /\ (link[x] = "broken" \/ f.status = "completed")
             /\ UNCHANGED kept
       /\ UNCHANGED uplink

At(x, t, stage) == Target(t) = x /\ job[t].stage = stage
JobGoes(t, stage) == job' = [job EXCEPT ![t].stage = stage]
Busy(x) == \E t \in Tasks : At(x, t, "running")

Received(x, f) ==
    /\ link[x] = "up" /\ downlink[x] # <<>> /\ Head(downlink[x]) = f
    /\ downlink' = [downlink EXCEPT ![x] = Tail(@)]

WorkerAccepts(x, t) ==
    /\ Received(x, Task(t))
    /\ JobGoes(t, "accepted")
    /\ Emit(x, StatusOf(t, "queued"))
    /\ UNCHANGED <<rows, dispatched, registry, handler, create, cancel, agent, marked, drops,
                   early>>

WorkerMarks(x, t) ==
    /\ Received(x, CancelOf(t))
    /\ marked' = [marked EXCEPT ![x] = @ \cup {t}]
    /\ UNCHANGED <<rows, dispatched, registry, handler, create, cancel, agent, link, uplink, job,
                   kept, drops, disturbed, early>>

\* Seeded fault: a task cancelled in mid-run is not reported.
WorkerCancelsSilently(x, t) ==
    /\ t \in marked[x]
    /\ At(x, t, "running") \/ (At(x, t, "accepted") /\ ~Busy(x))
    /\ marked' = [marked EXCEPT ![x] = @ \ {t}]
    /\ JobGoes(t, "ended")
    /\ UNCHANGED <<rows, dispatched, registry, handler, create, cancel, agent, link, wires, kept,
                   drops, disturbed, early>>

\* A marked task is reported cancelled, before, during or at the end of its run.
WorkerCancels(x, t) ==
    /\ t \in marked[x]
    /\ At(x, t, "running") \/ (At(x, t, "accepted") /\ ~Busy(x))
    /\ marked' = [marked EXCEPT ![x] = @ \ {t}]
    /\ JobGoes(t, "ended")
    /\ Emit(x, StatusOf(t, "cancelled"))
    /\ UNCHANGED <<rows, dispatched, registry, handler, create, cancel, agent, downlink, drops,
                   early>>

WorkerStep(x, f) ==
    /\ Emit(x, f)
    /\ UNCHANGED <<rows, dispatched, registry, handler, create, cancel, agent, downlink, marked,
                   drops, early>>

WorkerStarts(x, t) ==
    /\ At(x, t, "accepted") /\ ~Busy(x) /\ t \notin marked[x]
    /\ JobGoes(t, "running")
    /\ WorkerStep(x, StatusOf(t, "processing"))

\* Seeded fault: one file too many.
WorkerProducesOneMore(x, t) ==
    /\ At(x, t, "running") /\ job[t].made <= Total
    /\ job' = [job EXCEPT ![t].made = @ + 1]
    /\ WorkerStep(x, ResultOf(t, job[t].made + 1))

\* The mark is not looked at between a file and its result.
WorkerProduces(x, t) ==
    /\ At(x, t, "running") /\ job[t].made < Total
    /\ job' = [job EXCEPT ![t].made = @ + 1]
    /\ WorkerStep(x, ResultOf(t, job[t].made + 1))

WorkerEnds(x, t) ==
    /\ At(x, t, "running") /\ t \notin marked[x]
    /\ JobGoes(t, "ended")
    /\ \/ job[t].made = Total /\ WorkerStep(x, StatusOf(t, "completed"))
       \/ job[t].made < Total /\ WorkerStep(x, StatusOf(t, "failed"))

\* In the order of the file names: the task, then the status.
Rank(s) == CASE s = "cancelled" -> 1 [] s = "completed" -> 2 [] s = "failed" -> 3
             [] s = "processing" -> 4 [] s = "queued" -> 5

Before(k, o) == k.task < o.task \/ (k.task = o.task /\ Rank(k.status) < Rank(o.status))

\* The scan, between two tasks, sends what was kept, results too, as task_status.
WorkerReplays(x, k) ==
    /\ link[x] = "up" /\ ~Busy(x)
    /\ k \in kept[x]
    /\ \A o \in kept[x] \ {k} : Before(k, o)
    /\ kept' = [kept EXCEPT ![x] = @ \ {k}]
    /\ uplink' = [uplink EXCEPT ![x] = Append(@, StatusOf(k.task, k.status))]
    /\ UNCHANGED <<rows, dispatched, registry, handler, create, cancel, agent, link, downlink,
                   job, marked, drops, disturbed, early>>

-----------------------------------------------------------------------------
Creating(t) == Pick(t) \/ LookUpSocket(t) \/ Send(t) \/ SendStranded(t) \/ Record(t)
                 \/ TellFailure(t) \/ Subscribe(t)
Cancelling(t) == LookUpTargets(t) \/ SendCancel(t)
Serving(x) == ReceiveStatus(x) \/ ReceiveResult(x) \/ ForwardFrame(x) \/ HandlerEnds(x)
                \/ SyncStop(x)
Working(x, t) == WorkerAccepts(x, t) \/ WorkerMarks(x, t) \/ WorkerCancels(x, t)
                   \/ WorkerStarts(x, t) \/ WorkerProduces(x, t) \/ WorkerEnds(x, t)

Next ==
    \/ \E t \in Tasks : CreateTask(t) \/ CreateUnsent(t) \/ Creating(t) \/ DeleteTask(t)
                          \/ Cancelling(t) \/ ToolTimeout(t)
    \/ \E x \in Services : Serving(x) \/ Register(x) \/ LinkBreaks(x) \/ Reconnect(x)
    \/ \E x \in Services, t \in Tasks : Working(x, t)
    \/ \E x \in Services : \E k \in kept[x] : WorkerReplays(x, k)

Spec == Init /\ [][Next]_vars

\* Coroutines that can go on do, and a worker ends what it starts.  No link must
\* break or come back, no user must cancel, no tool must time out.
FairSpec ==
    /\ Spec
    /\ \A t \in Tasks : WF_vars(Creating(t)) /\ WF_vars(Cancelling(t))
    /\ \A x \in Services : WF_vars(Serving(x))
    /\ \A x \in Services, t \in Tasks : WF_vars(Working(x, t))

-----------------------------------------------------------------------------
Creations == [stage : CreateStages, target : Services \cup {None}]
Cancellations == [stage : {"none", "deleted", "looked", "signalled"},
                  targets : SUBSET Services, seen : SUBSET Services]
Jobs == [stage : {"none", "accepted", "running", "ended"}, made : 0 .. Total]
KeptFiles == [task : Tasks, status : Statuses]
ToolStages == {"none", "waiting", "completed", "failed", "cancelled", "timeout"}

TypeOK ==
    /\ status \in [Tasks -> Statuses \cup {"none", "pending"}]
    /\ files \in [Tasks -> SUBSET All]
    /\ dispatched \in [Tasks -> Services \cup {None}]
    /\ connected \subseteq Services /\ running \subseteq Services
    /\ serving \subseteq Services /\ ending \subseteq Services
    /\ handler \in [Services -> Upward \cup {NoFrame}]
    /\ create \in [Tasks -> Creations]
    /\ cancel \in [Tasks -> Cancellations]
    /\ tool \in [Tasks -> ToolStages]
    /\ collected \in [Tasks -> SUBSET All]
    /\ link \in [Services -> {"up", "broken", "down"}]
    /\ downlink \in [Services -> Seq(Downward)]
    /\ uplink \in [Services -> Seq(Upward)]
    /\ job \in [Tasks -> Jobs]
    /\ marked \in [Services -> SUBSET Tasks]
    /\ kept \in [Services -> SUBSET KeptFiles]
    /\ drops \in 0 .. MaxDrops
    /\ disturbed \subseteq Tasks /\ early \subseteq Tasks

Down(x, f) == f \in Range(downlink[x])
Up(x, t) == t \in About(uplink[x]) \/ (handler[x] # NoFrame /\ handler[x].task = t)

\* manager.py:731 does not let a failed dispatch stay silently pending, and no other
\* row stays as it is for ever: when a dispatch is over, a pending row has the task or a
\* first frame on the wire, and a row that is not final has the task there, at its
\* worker, or a frame unread, unless one was lost with its connection.
NeverSilentlyUnfinished ==
    \A t \in Tasks :
        /\ create[t].stage \in {"failing", "returning", "done"}
        /\ Target(t) # None /\ t \notin disturbed
        => /\ status[t] = "pending" => Down(Target(t), Task(t)) \/ Up(Target(t), t)
           /\ ~Final(t) => \/ Down(Target(t), Task(t)) \/ job[t].stage \in {"accepted", "running"}
                           \/ t \in About(uplink[Target(t)])

\* A row is completed only when every file is recorded, although results, final
\* statuses, cancellations and the tool's reads come in any order: the count in
\* the result handler, not the frame, decides.  Only a connection that fell can
\* take files away (kept results are replayed without them).
CompletedHasFiles ==
    \A t \in Tasks : status[t] = "completed" /\ files[t] # All => t \in disturbed

\* DELETE signals whoever has the task or is about to get it, also between the
\* send and its record, after a disconnect dropped the record, and when the
\* record is stale: unless the service was down or not running at that moment,
\* or got the task by the tts fallback, which the signal does not repeat.
CancelIsSignalled ==
    \A t \in Tasks : \A x \in Services :
        /\ cancel[t].stage = "signalled"
        /\ Target(t) = x
        /\ Down(x, Task(t)) \/ job[t].stage \in {"accepted", "running"}
        => \/ t \in marked[x] \/ Down(x, CancelOf(t))
           \/ t \in disturbed
           \/ x \notin cancel[t].seen
           \/ Request[t].kind = Audio /\ ~Declares(x, Request[t].load)

\* Nothing about the task is under way any more.
Over(t) ==
    /\ Final(t)
    /\ create[t].stage = "done"
    /\ job[t].stage \in {"none", "ended"}
    /\ \A x \in Services : ~Down(x, Task(t)) /\ ~Up(x, t)

\* The tool waits for its timeout in vain only when a message was forwarded
\* before it subscribed, or lost or replayed after an outage, or when the task was
\* never meant for a service (nobody tells it then that the row was cancelled).
ToolMissesOnlyTheEarly ==
    \A t \in Tasks : tool[t] = "waiting" /\ Over(t) =>
        t \in early \cup disturbed \/ Target(t) = None

\* A dispatched task ends with a final status and stays there, through failed
\* sends, cancellations in any order and late frames, unless one was lost.
EveryTaskSettles ==
    \A t \in Tasks : <>[](Target(t) # None => Final(t) \/ t \in disturbed)
=============================================================================
