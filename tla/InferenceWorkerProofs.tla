------------------------ MODULE InferenceWorkerProofs ------------------------
(***************************************************************************)
(* Type correctness of InferenceWorker and the proofs that an accepted     *)
(* task is always held, that what could not be sent stays on disk and that *)
(* a cancelled task never starts, for every set of tasks and every bound.  *)
(***************************************************************************)
EXTENDS InferenceWorker, TLAPS

\* Task files and res_ files differ, and each name belongs to one task.
LEMMA FileFacts ==
    ASSUME NEW t \in Tasks, NEW u \in Tasks, NEW s \in Statuses, NEW r \in Statuses
    PROVE  /\ TaskFile(t) \in CacheFiles /\ ResFile(t, s) \in CacheFiles
           /\ TaskFile(t) # ResFile(u, s)
           /\ TaskFile(t) = TaskFile(u) => t = u
           /\ ResFile(t, s) = ResFile(u, r) => t = u /\ s = r
           /\ NoIdFile \in CacheFiles /\ NoIdFile # TaskFile(t) /\ NoIdFile # ResFile(t, s)
  BY WorkerAssumption DEF TaskFile, ResFile, NoIdFile, CacheFiles

\* What is read from a cache file's name.
LEMMA CacheFileKinds ==
    ASSUME NEW f \in CacheFiles
    PROVE  \/ f.kind = "task" /\ f.task \in Tasks /\ f = TaskFile(f.task)
           \/ f.kind = "res" /\ f.task \in Tasks /\ \E s \in Statuses : f = ResFile(f.task, s)
           \/ f.kind = "res" /\ f.task = None /\ f = NoIdFile
  BY DEF CacheFiles, TaskFile, ResFile, NoIdFile

-----------------------------------------------------------------------------
(* What a send does                                                         *)

\* The effect of any send about t on the files and on the fates of the tasks.
Sent(t) ==
    /\ fate' \in [Tasks -> Fates]
    /\ \A u \in Tasks : u # t => fate'[u] = fate[u]
    /\ files \subseteq files' /\ files' \subseteq CacheFiles
    /\ \A u \in Tasks : TaskFile(u) \in files' => TaskFile(u) \in files
    /\ fate'[t] = "kept" => \/ fate[t] = "kept"
                            \/ \E s \in Terminal : ResFile(t, s) \in files'
    /\ fate'[t] = "accepted" => fate[t] = "accepted"
    /\ fate'[t] = "untold" => fate[t] = "untold" \/ (processor.stage = "refused" /\ processor.task = t)
    /\ Decided(t) => fate'[t] \in {"kept", "told", "lost"}

\* Settling touches one task, and decides it when the status is final.
LEMMA SettleFacts ==
    ASSUME TypeOK, NEW t \in Tasks, NEW s \in Statuses, NEW f \in {"kept", "told", "lost"},
           Settle(t, s, f)
    PROVE  /\ fate' \in [Tasks -> Fates]
           /\ \A u \in Tasks : u # t => fate'[u] = fate[u]
           /\ fate'[t] = fate[t] \/ fate'[t] = f
           /\ fate'[t] = f => fate[t] = f \/ s \in Terminal
           /\ s \in Terminal => fate'[t] \in {"kept", "told", "lost"}
  BY DEF Settle, TypeOK, Fates

\* A kept status is in a file of its own.
LEMMA KeepFacts ==
    ASSUME TypeOK, NEW t \in Tasks, NEW s \in Statuses, Keep(t, s)
    PROVE  /\ Sent(t)
           /\ s \in Terminal => fate'[t] \in {"kept", "told", "lost"}
<1>1. Settle(t, s, "kept") /\ files' = files \cup {ResFile(t, s)}
  BY DEF Keep
<1>2. /\ fate' \in [Tasks -> Fates]
      /\ \A u \in Tasks : u # t => fate'[u] = fate[u]
      /\ fate'[t] = fate[t] \/ fate'[t] = "kept"
      /\ fate'[t] = "kept" => fate[t] = "kept" \/ s \in Terminal
      /\ s \in Terminal => fate'[t] \in {"kept", "told", "lost"}
  BY <1>1, SettleFacts
<1>3. files \subseteq files' /\ files' \subseteq CacheFiles /\ ResFile(t, s) \in files'
  BY <1>1, FileFacts DEF TypeOK
<1>4. \A u \in Tasks : TaskFile(u) \in files' => TaskFile(u) \in files
  BY <1>1, FileFacts
<1>5. QED
  BY <1>2, <1>3, <1>4 DEF Sent, Decided

\* A frame that leaves settles its task and keeps no file.
LEMMA TransmitFacts ==
    ASSUME TypeOK, NEW t \in Tasks, NEW s \in Statuses, UNCHANGED files,
           Settle(t, s, "told") \/ Settle(t, s, "lost")
    PROVE  /\ Sent(t)
           /\ s \in Terminal => fate'[t] \in {"kept", "told", "lost"}
<1>1. PICK f \in {"told", "lost"} : Settle(t, s, f)
  OBVIOUS
<1>2. /\ fate' \in [Tasks -> Fates]
      /\ \A u \in Tasks : u # t => fate'[u] = fate[u]
      /\ fate'[t] = fate[t] \/ fate'[t] = f
      /\ s \in Terminal => fate'[t] \in {"kept", "told", "lost"}
  BY <1>1, SettleFacts
<1>3. QED
  BY <1>2 DEF Sent, Decided, TypeOK

\* send_task_status decides the task by every final status except `completed`.
LEMMA SendStatusFacts ==
    ASSUME TypeOK, NEW t \in Tasks, NEW s \in Statuses, SendStatus(t, s)
    PROVE  /\ Sent(t)
           /\ link' \in {"open", "suspect", "closed"} /\ drops' \in Nat
           /\ s \in Terminal \ {"completed"} => fate'[t] \in {"kept", "told", "lost"}
<1>1. link' \in {"open", "suspect", "closed"} /\ drops' \in Nat
  BY DEF SendStatus, Transmit, Drop, TypeOK
<1>2. \/ UNCHANGED files /\ (Settle(t, s, "told") \/ Settle(t, s, "lost"))
      \/ KeepStatus(t, s)
  BY DEF SendStatus, Transmit
<1>3. CASE UNCHANGED files /\ (Settle(t, s, "told") \/ Settle(t, s, "lost"))
  BY <1>1, <1>3, TransmitFacts
<1>4. CASE KeepStatus(t, s)
  <2>1. CASE s = "completed"
    <3>1. UNCHANGED <<files, fate>>
      BY <1>4, <2>1 DEF KeepStatus
    <3>2. QED
      BY <1>1, <2>1, <3>1 DEF Sent, TypeOK, Decided
  <2>2. CASE s # "completed"
    BY <1>1, <1>4, <2>2, KeepFacts DEF KeepStatus
  <2>3. QED
    BY <2>1, <2>2
<1>5. QED
  BY <1>2, <1>3, <1>4

\* send_result decides the task.
LEMMA SendResultFacts ==
    ASSUME TypeOK, NEW t \in Tasks, SendResult(t)
    PROVE  /\ Sent(t)
           /\ link' \in {"open", "suspect", "closed"} /\ drops' \in Nat
           /\ fate'[t] \in {"kept", "told", "lost"}
<1>1. link' \in {"open", "suspect", "closed"} /\ drops' \in Nat
  BY DEF SendResult, Transmit, Drop, TypeOK
<1>2. "completed" \in Statuses /\ "completed" \in Terminal
  BY DEF Statuses, Terminal
<1>3. \/ UNCHANGED files /\ (Settle(t, "completed", "told") \/ Settle(t, "completed", "lost"))
      \/ Keep(t, "completed")
  BY DEF SendResult, Transmit
<1>4. QED
  BY <1>1, <1>2, <1>3, TransmitFacts, KeepFacts

\* A status without an id settles nothing and touches no file of a task.
LEMMA SendWithoutIdFacts ==
    ASSUME TypeOK, SendWithoutId
    PROVE  /\ files \subseteq files' /\ files' \subseteq CacheFiles
           /\ \A u \in Tasks : TaskFile(u) \in files' => TaskFile(u) \in files
           /\ link' \in {"open", "suspect", "closed"} /\ drops' \in Nat
<1>1. files' = files \/ files' = files \cup {NoIdFile}
  BY DEF SendWithoutId
<1>2. NoIdFile \in CacheFiles /\ \A u \in Tasks : NoIdFile # TaskFile(u)
  BY DEF CacheFiles, NoIdFile, TaskFile
<1>3. link' \in {"open", "suspect", "closed"} /\ drops' \in Nat
  BY DEF SendWithoutId, Drop, TypeOK
<1>4. QED
  BY <1>1, <1>2, <1>3 DEF TypeOK

\* What process_loop sends is about the task at hand, or about none.
LEMMA SendOfLoopFacts ==
    ASSUME TypeOK, processor.task \in Tasks, processor.id \in {processor.task, None},
           NEW s \in Statuses, SendOfLoop(s)
    PROVE  Sent(processor.task) /\ link' \in {"open", "suspect", "closed"} /\ drops' \in Nat
<1>1. CASE processor.id = None
  <2>1. SendWithoutId /\ UNCHANGED fate
    BY <1>1 DEF SendOfLoop
  <2>2. QED
    BY <2>1, SendWithoutIdFacts DEF Sent, Decided, TypeOK
<1>2. CASE processor.id = processor.task
  BY <1>2, SendStatusFacts, WorkerAssumption DEF SendOfLoop
<1>3. QED
  BY <1>1, <1>2

\* A refusal decides the task, or leaves it untold.
LEMMA SendRefusalFacts ==
    ASSUME TypeOK, processor.task \in Tasks, processor.id \in {processor.task, None},
           processor.stage = "refused", SendRefusal
    PROVE  /\ Sent(processor.task) /\ fate'[processor.task] # "accepted"
           /\ link' \in {"open", "suspect", "closed"} /\ drops' \in Nat
<1> DEFINE t == processor.task
<1>1. CASE processor.id = None
  <2>1. /\ SendWithoutId
        /\ fate' = IF fate[t] = "accepted" THEN [fate EXCEPT ![t] = "untold"] ELSE fate
    BY <1>1 DEF SendRefusal
  <2>2. /\ fate' \in [Tasks -> Fates] /\ fate'[t] # "accepted"
        /\ \A u \in Tasks : u # t => fate'[u] = fate[u]
        /\ fate'[t] = fate[t] \/ (fate'[t] = "untold" /\ fate[t] = "accepted")
    BY <2>1 DEF TypeOK, Fates
  <2>3. QED
    BY <2>1, <2>2, SendWithoutIdFacts DEF Sent, Decided
<1>2. CASE processor.id = t
  <2>1. SendStatus(t, "failed")
    BY <1>2, WorkerAssumption DEF SendRefusal
  <2>2. "failed" \in Terminal \ {"completed"} /\ "failed" \in Statuses
    BY DEF Terminal, Statuses
  <2>3. QED
    BY <2>1, <2>2, SendStatusFacts
<1>3. QED
  BY <1>1, <1>2

-----------------------------------------------------------------------------
(* Type correctness                                                         *)

\* The values of `processor`.
Processors == [stage : Stages, task : Tasks \cup {None}, id : Tasks \cup {None},
               file : CacheFiles \cup {None}]

\* A step of the processor that moves to another stage of the same task.
LEMMA GoToFacts ==
    ASSUME TypeOK, NEW s \in Stages, GoTo(s)
    PROVE  /\ processor' \in Processors
           /\ processor'.stage = s
           /\ processor'.task = processor.task
           /\ processor'.id = processor.id
           /\ processor'.file = processor.file
  BY DEF GoTo, TypeOK, Processors

\* A step of the processor that takes up a task or a file.
LEMMA HandleFacts ==
    ASSUME NEW t \in Tasks \cup {None}, NEW i \in Tasks \cup {None}, NEW s \in Stages,
           NEW f \in CacheFiles \cup {None}, Handle(t, i, s, f)
    PROVE  /\ processor' \in Processors
           /\ processor'.stage = s /\ processor'.task = t
           /\ processor'.id = i /\ processor'.file = f
  BY DEF Handle, Processors

\* Nothing is at hand in Idle and in Listening.
LEMMA IdleFacts ==
    /\ Idle \in Processors
    /\ Idle.stage = "idle"
    /\ Listening \in [stage : {"idle", "queued", "saving"}, task : Tasks \cup {None}]
    /\ Listening.stage = "idle"
  BY DEF Idle, Listening, Stages, Processors

\* The names of the statuses and stages the steps use.
LEMMA NameFacts ==
    /\ Terminal \subseteq Statuses
    /\ {"underway", "failed", "cancelled", "completed"} \subseteq Statuses
    /\ {"failed", "cancelled", "completed"} \subseteq Terminal
    /\ {"loaded", "flushing", "begin", "announcing", "starting", "inferring", "succeeded",
        "raised", "refused", "cancelled", "completed", "failing", "cancelling", "failed"} \subseteq Stages
  BY DEF Terminal, Statuses, Stages

\* Every reachable state of the worker has the types of TypeOK, and what stands
\* in the place of a task is one.
LEMMA TypeStep == TypeOK /\ TasksAtHand /\ [Next]_vars => TypeOK' /\ TasksAtHand'
<1> SUFFICES ASSUME TypeOK, TasksAtHand, [Next]_vars
             PROVE  TypeOK' /\ TasksAtHand'
  OBVIOUS
<1> USE DEF TasksAtHand, Processors
<1>1. ASSUME NEW t \in Tasks, Offer(t) \/ AskToCancel(t)
      PROVE  TypeOK' /\ TasksAtHand'
  <2>1. \E k \in {"task", "cancel"} : inbound' = Append(inbound, [type |-> k, task |-> t])
    BY <1>1 DEF Offer, AskToCancel
  <2>2. inbound' \in Seq(Frames)
    BY <2>1 DEF TypeOK, Frames
  <2>3. QED
    BY <1>1, <2>2 DEF Offer, AskToCancel, TypeOK, memory, bounds, history
<1>2. CASE LinkDown
  BY <1>2 DEF LinkDown, Drop, TypeOK, gateway, memory, history
<1>3. CASE Reconnect
  <2>1. files' \subseteq CacheFiles
    BY <1>3, FileFacts DEF Reconnect, TypeOK, CacheFiles
  <2>2. QED
    BY <1>3, <2>1, IdleFacts DEF Reconnect, TypeOK, memory, bounds, history
<1>4. CASE Boot
  BY <1>4 DEF Boot, TypeOK, gateway, memory, history
<1>5. CASE Crash
  <2>1. fate' \in [Tasks -> Fates]
    BY <1>5 DEF Crash, TypeOK, Fates
  <2>2. inbound' \in Seq(Frames) /\ queue' \in Seq(Tasks)
    BY <1>5 DEF Crash
  <2>3. QED
    BY <1>5, <2>1, <2>2, IdleFacts DEF Crash, TypeOK, bounds
<1>6. ASSUME NEW t \in Tasks, ReceiveTask(t)
      PROVE  TypeOK' /\ TasksAtHand'
  <2>1. inbound' \in Seq(Frames) /\ queue' \in Seq(Tasks)
    BY <1>6 DEF ReceiveTask, Received, TypeOK
  <2>2. QED
    BY <1>6, <2>1 DEF ReceiveTask, TypeOK, bounds, history
<1>7. ASSUME NEW t \in Tasks, ReceiveCancel(t)
      PROVE  TypeOK' /\ TasksAtHand'
  <2>1. inbound' \in Seq(Frames)
    BY <1>7 DEF ReceiveCancel, Received, TypeOK
  <2>2. QED
    BY <1>7, <2>1 DEF ReceiveCancel, TypeOK, bounds
<1>8. CASE SendQueued
  <2>1. receiver.task \in Tasks /\ SendStatus(receiver.task, "underway")
    BY <1>8 DEF SendQueued
  <2>2. Sent(receiver.task) /\ link' \in {"open", "suspect", "closed"} /\ drops' \in Nat
    BY <2>1, SendStatusFacts, NameFacts
  <2>3. /\ receiver' \in [stage : {"idle", "queued", "saving"}, task : Tasks \cup {None}]
        /\ receiver'.task = receiver.task
    BY <1>8 DEF SendQueued, TypeOK
  <2>4. QED
    BY <1>8, <2>1, <2>2, <2>3 DEF SendQueued, Sent, TypeOK, gateway, memory
<1>9. CASE Save
  <2>1. receiver.task \in Tasks /\ TaskFile(receiver.task) \in CacheFiles
    BY <1>9, FileFacts DEF Save, CacheFiles
  <2>2. fate' \in [Tasks -> Fates]
    BY <1>9 DEF Save, Accepted, TypeOK, Fates
  <2>3. QED
    BY <1>9, <2>1, <2>2, IdleFacts DEF Save, TypeOK, gateway, memory, bounds
<1>10. CASE Take
  <2>1. Head(queue) \in Tasks /\ queue' \in Seq(Tasks)
    BY <1>10 DEF Take, TypeOK
  <2>2. /\ processor' \in Processors
        /\ processor'.task \in Tasks /\ processor'.id = processor'.task
    BY <1>10, <2>1, HandleFacts, NameFacts DEF Take
  <2>3. QED
    BY <1>10, <2>1, <2>2 DEF Take, TypeOK, gateway, bounds, history
<1>11. CASE StartScan
  BY <1>11 DEF StartScan, TypeOK, gateway, bounds, history
<1>12. ASSUME NEW f \in scan, LoadFile(f)
       PROVE  TypeOK' /\ TasksAtHand'
  <2>1. f \in CacheFiles /\ f.task \in Tasks \cup {None} /\ (f.kind = "task" => f.task \in Tasks)
    BY CacheFileKinds DEF TypeOK
  <2>2. processor' \in Processors /\ TasksAtHand'
    <3>1. CASE f \in files
      <4>1. /\ processor' \in Processors
            /\ processor'.stage = IF f.kind = "task" THEN "loaded" ELSE "flushing"
            /\ processor'.task = f.task /\ processor'.id = None
        BY <1>12, <2>1, <3>1, HandleFacts, NameFacts DEF LoadFile
      <4>2. QED
        BY <1>12, <2>1, <4>1 DEF LoadFile
    <3>2. CASE f \notin files
      BY <1>12, <3>2 DEF LoadFile, TypeOK
    <3>3. QED
      BY <3>1, <3>2
  <2>3. QED
    BY <1>12, <2>2 DEF LoadFile, TypeOK, gateway, bounds, history
<1>13. CASE DeleteLoaded
  <2>1. processor.task \in Tasks /\ processor.id \in {processor.task, None}
    BY <1>13 DEF DeleteLoaded, Stage
  <2>2. /\ processor' \in Processors
        /\ processor'.task \in Tasks /\ processor'.id \in {processor'.task, None}
    BY <1>13, <2>1, HandleFacts, NameFacts DEF DeleteLoaded
  <2>3. QED
    BY <1>13, <2>2 DEF DeleteLoaded, TypeOK, gateway, bounds, history
<1>14. CASE Flush
  <2>1. fate' \in [Tasks -> Fates]
    BY <1>14 DEF Flush, Settle, TypeOK, Fates
  <2>2. link' \in {"open", "suspect", "closed"} /\ drops' \in Nat /\ files' \subseteq CacheFiles
    BY <1>14 DEF Flush, Drop, TypeOK
  <2>3. QED
    BY <1>14, <2>1, <2>2, IdleFacts DEF Flush, TypeOK, gateway
<1>15. CASE Begin \/ Start \/ Conclude
  <2>1. processor.task \in Tasks /\ processor.id \in {processor.task, None}
    BY <1>15 DEF Begin, Start, Conclude, Stage
  <2>2. \E s \in Stages : GoTo(s)
    BY <1>15, NameFacts DEF Begin, Start, Conclude
  <2>3. /\ processor' \in Processors
        /\ processor'.task \in Tasks /\ processor'.id \in {processor'.task, None}
    BY <2>1, <2>2, GoToFacts
  <2>4. QED
    BY <1>15, <2>3 DEF Begin, Start, Conclude, TypeOK, gateway, bounds, history
<1>16. CASE Announce \/ ReportFailing
  <2>1. /\ processor.task \in Tasks /\ processor.id \in {processor.task, None}
        /\ \E s \in Statuses : SendStatus(processor.task, s) \/ SendOfLoop(s)
        /\ \E s \in Stages : GoTo(s)
    BY <1>16, NameFacts DEF Announce, ReportFailing, Stage
  <2>2. Sent(processor.task) /\ link' \in {"open", "suspect", "closed"} /\ drops' \in Nat
    BY <2>1, SendStatusFacts, SendOfLoopFacts
  <2>3. /\ processor' \in Processors
        /\ processor'.task \in Tasks /\ processor'.id \in {processor'.task, None}
    BY <2>1, GoToFacts
  <2>4. QED
    BY <1>16, <2>2, <2>3 DEF Announce, ReportFailing, Sent, TypeOK, gateway
<1>17. CASE InferEnd
  <2>1. /\ processor.task \in Tasks /\ processor.id \in {processor.task, None}
        /\ \E s \in Stages : GoTo(s)
    BY <1>17, NameFacts DEF InferEnd, Stage
  <2>2. /\ fate' \in [Tasks -> Fates] /\ files' \subseteq CacheFiles
        /\ link' \in {"open", "suspect", "closed"} /\ drops' \in Nat
    <3>1. SendResult(processor.task) \/ UNCHANGED <<link, drops, files, fate>>
      BY <1>17 DEF InferEnd
    <3>2. QED
      BY <2>1, <3>1, SendResultFacts DEF Sent, TypeOK
  <2>3. /\ processor' \in Processors
        /\ processor'.task \in Tasks /\ processor'.id \in {processor'.task, None}
    BY <2>1, GoToFacts
  <2>4. QED
    BY <1>17, <2>2, <2>3 DEF InferEnd, TypeOK, gateway
<1>18. CASE Report \/ ReportFailed
  <2>1. processor.task \in Tasks /\ processor.id \in {processor.task, None}
    BY <1>18 DEF Report, ReportFailed, Stage
  <2>2. \/ UNCHANGED <<link, drops, files, fate>>
        \/ \E s \in Statuses : SendStatus(processor.task, s) \/ SendOfLoop(s)
        \/ processor.stage = "refused" /\ SendRefusal
    BY <1>18, NameFacts DEF Report, ReportFailed, Stage
  <2>3. /\ fate' \in [Tasks -> Fates] /\ files' \subseteq CacheFiles
        /\ link' \in {"open", "suspect", "closed"} /\ drops' \in Nat
    BY <2>1, <2>2, SendStatusFacts, SendOfLoopFacts, SendRefusalFacts DEF Sent, TypeOK
  <2>4. marked' \subseteq Tasks
    BY <1>18 DEF Report, ReportFailed, TypeOK
  <2>5. QED
    BY <1>18, <2>3, <2>4, IdleFacts DEF Report, ReportFailed, TypeOK, gateway
<1>19. CASE UNCHANGED vars
  BY <1>19 DEF vars, TypeOK, gateway, memory, bounds, history
<1>20. QED
  BY <1>1, <1>2, <1>3, <1>4, <1>5, <1>6, <1>7, <1>8, <1>9, <1>10, <1>11, <1>12, <1>13,
     <1>14, <1>15, <1>16, <1>17, <1>18, <1>19 DEF Next, ReceiverStep, ProcessorStep

\* Every reachable state of the worker has the types of TypeOK.
THEOREM TypeCorrect == Spec => [](TypeOK /\ TasksAtHand)
<1>1. Init => TypeOK /\ TasksAtHand
  <2> SUFFICES ASSUME Init PROVE TypeOK /\ TasksAtHand
    OBVIOUS
  <2>1. inbound \in Seq(Frames) /\ queue \in Seq(Tasks)
    BY DEF Init
  <2>2. QED
    BY <2>1, IdleFacts DEF Init, TypeOK, TasksAtHand, Fates, Processors
<1>2. QED
  BY <1>1, TypeStep, PTL DEF Spec
-----------------------------------------------------------------------------
(* The inductive invariant                                                  *)

\* A send leaves every end that waits on disk where it is.
LEMMA SentKeepsDisk ==
    ASSUME TypeOK, KeptIsOnDisk, NEW t \in Tasks, Sent(t)
    PROVE  KeptIsOnDisk'
<1>1. ASSUME NEW u \in Tasks, fate'[u] = "kept"
      PROVE  \E s \in Terminal : ResFile(u, s) \in files'
  <2>1. CASE u = t
    BY <1>1, <2>1 DEF Sent, KeptIsOnDisk
  <2>2. CASE u # t
    BY <1>1, <2>2 DEF Sent, KeptIsOnDisk
  <2>3. QED
    BY <2>1, <2>2
<1>2. QED
  BY <1>1 DEF KeptIsOnDisk, ResFile

\* A send loses no accepted task, when what was in hand stays in hand or ends.
LEMMA SentKeepsHeld ==
    ASSUME TypeOK, AcceptedHasPlace, NEW t \in Tasks, Sent(t), UNCHANGED <<queue, stopped>>,
           \A u \in Tasks : InHand(u) => InHand(u)' \/ fate'[u] # "accepted"
    PROVE  AcceptedHasPlace'
<1>1. ASSUME NEW u \in Tasks, u \notin stopped', fate'[u] = "accepted"
      PROVE  InQueue(u)' \/ InHand(u)' \/ TaskFile(u) \in files'
  <2>1. fate[u] = "accepted"
    BY <1>1 DEF Sent
  <2>2. InQueue(u) \/ InHand(u) \/ TaskFile(u) \in files
    BY <1>1, <2>1 DEF AcceptedHasPlace
  <2>3. QED
    BY <1>1, <2>2 DEF Sent, InQueue
<1>2. QED
  BY <1>1 DEF AcceptedHasPlace, TaskFile

\* A step that leaves the tasks, their files and the processor alone.
LEMMA QuietStep ==
    ASSUME TypeOK, HeldInv, TasksAtHand', UNCHANGED <<queue, processor, files, fate, stopped>>
    PROVE  HeldInv'
  BY DEF HeldInv, TasksAtHand, FileAtHand, EndsAreDecided, Decided, AcceptedHasPlace, InQueue,
         InHand, KeptIsOnDisk, TaskFile, ResFile

\* A step of the processor within the work on one task that sends nothing: it
\* may delete that task's file.
LEMMA WorkStep ==
    ASSUME TypeOK, HeldInv, TasksAtHand', UNCHANGED <<queue, fate, stopped>>,
           processor.stage \notin {"idle", "flushing"},
           processor'.stage \notin {"idle", "flushing", "loaded"},
           processor'.stage \in {"succeeded", "completed", "failed"} => processor.stage = "succeeded",
           processor'.task = processor.task,
           files' = files \/ files' = files \ {TaskFile(processor.task)}
    PROVE  HeldInv'
<1>1. processor.task \in Tasks
  BY DEF HeldInv, TasksAtHand
<1>2. FileAtHand' /\ EndsAreDecided'
  BY DEF HeldInv, FileAtHand, EndsAreDecided, Decided
<1>3. AcceptedHasPlace'
  <2>1. ASSUME NEW u \in Tasks, u \notin stopped, fate[u] = "accepted"
        PROVE  InQueue(u)' \/ InHand(u)' \/ TaskFile(u) \in files'
    <3>1. CASE u = processor.task
      BY <3>1 DEF InHand
    <3>2. CASE u # processor.task
      <4>1. InQueue(u) \/ TaskFile(u) \in files
        BY <2>1, <3>2 DEF HeldInv, AcceptedHasPlace, InHand
      <4>2. TaskFile(u) # TaskFile(processor.task)
        BY <1>1, <3>2 DEF TaskFile
      <4>3. QED
        BY <4>1, <4>2 DEF InQueue
    <3>3. QED
      BY <3>1, <3>2
  <2>2. QED
    BY <2>1 DEF AcceptedHasPlace, TaskFile
<1>4. KeptIsOnDisk'
  <2>1. ASSUME NEW u \in Tasks, fate[u] = "kept"
        PROVE  \E s \in Terminal : ResFile(u, s) \in files'
    <3>1. PICK s \in Terminal : ResFile(u, s) \in files
      BY <2>1 DEF HeldInv, KeptIsOnDisk
    <3>2. ResFile(u, s) # TaskFile(processor.task)
      BY DEF ResFile, TaskFile
    <3>3. QED
      BY <3>1, <3>2
  <2>2. QED
    BY <2>1 DEF KeptIsOnDisk, ResFile
<1>5. QED
  BY <1>2, <1>3, <1>4 DEF HeldInv

\* A step that sends about the task at hand and stays at it, or leaves it when
\* its end is decided.
LEMMA SendStep ==
    ASSUME TypeOK, HeldInv, TasksAtHand', UNCHANGED <<queue, stopped>>,
           processor.task \in Tasks, Sent(processor.task),
           processor.stage \notin {"idle", "flushing"},
           \/ /\ processor'.stage \notin {"idle", "flushing", "loaded"}
              /\ processor'.task = processor.task
           \/ /\ processor'.stage = "idle"
              /\ fate'[processor.task] # "accepted",
           processor'.stage \in {"succeeded", "completed", "failed"} =>
              fate'[processor.task] \in {"kept", "told", "lost"}
    PROVE  HeldInv'
<1>1. FileAtHand' /\ EndsAreDecided'
  BY DEF FileAtHand, EndsAreDecided, Decided
<1>2. \A u \in Tasks : InHand(u) => InHand(u)' \/ fate'[u] # "accepted"
  BY DEF InHand
<1>3. AcceptedHasPlace'
  BY <1>2, SentKeepsHeld DEF HeldInv
<1>4. KeptIsOnDisk'
  BY SentKeepsDisk DEF HeldInv
<1>5. QED
  BY <1>1, <1>3, <1>4 DEF HeldInv

\* A file of a task more, and nothing else, keeps what is held and on disk.
LEMMA FileStep ==
    ASSUME TypeOK, HeldInv, TasksAtHand', UNCHANGED <<queue, processor, stopped>>,
           NEW t \in Tasks, files \subseteq files',
           \/ UNCHANGED fate
           \/ /\ fate[t] = "none" /\ TaskFile(t) \in files'
              /\ fate' = [fate EXCEPT ![t] = "accepted"]
    PROVE  HeldInv'
<1>1. FileAtHand' /\ EndsAreDecided'
  BY DEF HeldInv, TasksAtHand, FileAtHand, EndsAreDecided, Decided, TaskFile, ResFile, TypeOK
<1>2. AcceptedHasPlace'
  <2>1. ASSUME NEW u \in Tasks, u \notin stopped, fate'[u] = "accepted"
        PROVE  InQueue(u)' \/ InHand(u)' \/ TaskFile(u) \in files'
    BY <2>1 DEF HeldInv, AcceptedHasPlace, InQueue, InHand, TypeOK
  <2>2. QED
    BY <2>1 DEF AcceptedHasPlace, TaskFile
<1>3. KeptIsOnDisk'
  <2>1. ASSUME NEW u \in Tasks, fate'[u] = "kept"
        PROVE  \E s \in Terminal : ResFile(u, s) \in files'
    BY <2>1 DEF HeldInv, KeptIsOnDisk, TypeOK
  <2>2. QED
    BY <2>1 DEF KeptIsOnDisk, ResFile
<1>4. QED
  BY <1>1, <1>2, <1>3 DEF HeldInv

\* A file of a task less: what waits on disk are res_ files.
LEMMA TaskFileGone ==
    ASSUME TypeOK, KeptIsOnDisk, NEW t \in Tasks, files' = files \ {TaskFile(t)}, UNCHANGED fate
    PROVE  KeptIsOnDisk'
<1>1. ASSUME NEW u \in Tasks, fate[u] = "kept"
      PROVE  \E s \in Terminal : ResFile(u, s) \in files'
  <2>1. PICK s \in Terminal : ResFile(u, s) \in files
    BY <1>1 DEF KeptIsOnDisk
  <2>2. ResFile(u, s) # TaskFile(t)
    BY DEF ResFile, TaskFile
  <2>3. QED
    BY <2>1, <2>2
<1>2. QED
  BY <1>1 DEF KeptIsOnDisk, ResFile

\* ReceiveTask: the queue grows at its end or stays, so what is queued stays queued.
LEMMA ReceiveTaskStep ==
    ASSUME TypeOK, HeldInv, TasksAtHand', NEW t \in Tasks, ReceiveTask(t)
    PROVE  HeldInv'
<1>1. /\ UNCHANGED <<processor, files, fate, stopped>>
      /\ queue' = queue \/ queue' = Append(queue, t)
  BY DEF ReceiveTask, history
<1>2. \A u \in Tasks : InQueue(u) => InQueue(u)'
  <2>1. CASE queue' = queue
    BY <2>1 DEF InQueue
  <2>2. CASE queue' = Append(queue, t)
    <3>1. /\ Len(queue') = Len(queue) + 1
          /\ \A i \in 1 .. Len(queue) : queue'[i] = queue[i]
      BY <2>2 DEF TypeOK
    <3>2. QED
      BY <3>1 DEF InQueue, TypeOK
  <2>3. QED
    BY <1>1, <2>1, <2>2
<1>3. QED
  BY <1>1, <1>2 DEF HeldInv, TasksAtHand, FileAtHand, EndsAreDecided, Decided, AcceptedHasPlace,
                    InHand, KeptIsOnDisk, TaskFile, ResFile

\* ReceiveCancel: only the file of the stopped task goes.
LEMMA ReceiveCancelStep ==
    ASSUME TypeOK, HeldInv, TasksAtHand', NEW t \in Tasks, ReceiveCancel(t)
    PROVE  HeldInv'
<1>1. /\ UNCHANGED <<queue, processor, fate>>
      /\ files' = files \ {TaskFile(t)}
      /\ stopped' = stopped \cup {t}
  BY DEF ReceiveCancel
<1>2. FileAtHand' /\ EndsAreDecided'
  BY <1>1 DEF HeldInv, FileAtHand, EndsAreDecided, Decided, TaskFile, ResFile
<1>3. AcceptedHasPlace'
  <2>1. ASSUME NEW u \in Tasks, u \notin stopped', fate[u] = "accepted"
        PROVE  InQueue(u)' \/ InHand(u)' \/ TaskFile(u) \in files'
    <3>1. InQueue(u) \/ InHand(u) \/ TaskFile(u) \in files
      BY <1>1, <2>1 DEF HeldInv, AcceptedHasPlace
    <3>2. TaskFile(u) # TaskFile(t)
      BY <1>1, <2>1 DEF TaskFile
    <3>3. QED
      BY <1>1, <3>1, <3>2 DEF InQueue, InHand
  <2>2. QED
    BY <1>1, <2>1 DEF AcceptedHasPlace, TaskFile
<1>4. KeptIsOnDisk'
  BY <1>1, TaskFileGone DEF HeldInv
<1>5. QED
  BY <1>2, <1>3, <1>4 DEF HeldInv

\* Take: the head of the queue goes in hand, the others stay queued.
LEMMA TakeStep ==
    ASSUME TypeOK, HeldInv, TasksAtHand', Take
    PROVE  HeldInv'
<1> DEFINE t == Head(queue)
<1>1. t \in Tasks
  BY DEF Take, TypeOK
<1>2. /\ processor'.stage = "begin" /\ processor'.task = t
      /\ processor.stage = "idle"
      /\ files' = files \ {TaskFile(t)}
      /\ UNCHANGED <<fate, stopped>>
  BY <1>1, HandleFacts, NameFacts DEF Take, Free, Stage, history
<1>3. FileAtHand' /\ EndsAreDecided'
  BY <1>2 DEF FileAtHand, EndsAreDecided
<1>4. \A u \in Tasks : InQueue(u) /\ u # t => InQueue(u)'
  <2>1. ASSUME NEW u \in Tasks, NEW i \in 1 .. Len(queue), queue[i] = u, u # t
        PROVE  InQueue(u)'
    <3>1. queue' = Tail(queue) /\ queue # <<>>
      BY DEF Take
    <3>2. i # 1
      BY <2>1, <3>1 DEF TypeOK
    <3>3. i - 1 \in 1 .. Len(queue') /\ queue'[i - 1] = u
      BY <2>1, <3>1, <3>2 DEF TypeOK
    <3>4. QED
      BY <3>3 DEF InQueue
  <2>2. QED
    BY <2>1 DEF InQueue
<1>5. AcceptedHasPlace'
  <2>1. ASSUME NEW u \in Tasks, u \notin stopped, fate[u] = "accepted"
        PROVE  InQueue(u)' \/ InHand(u)' \/ TaskFile(u) \in files'
    <3>1. CASE u = t
      BY <1>2, <3>1 DEF InHand
    <3>2. CASE u # t
      <4>1. InQueue(u) \/ TaskFile(u) \in files
        BY <1>2, <2>1 DEF HeldInv, AcceptedHasPlace, InHand
      <4>2. TaskFile(u) # TaskFile(t)
        BY <3>2 DEF TaskFile
      <4>3. QED
        BY <1>2, <1>4, <3>2, <4>1, <4>2
    <3>3. QED
      BY <3>1, <3>2
  <2>2. QED
    BY <1>2, <2>1 DEF AcceptedHasPlace, TaskFile
<1>6. KeptIsOnDisk'
  BY <1>1, <1>2, TaskFileGone DEF HeldInv
<1>7. QED
  BY <1>3, <1>5, <1>6 DEF HeldInv

\* LoadFile: reading a file moves nothing.
LEMMA LoadFileStep ==
    ASSUME TypeOK, HeldInv, TasksAtHand', NEW f \in scan, LoadFile(f)
    PROVE  HeldInv'
<1>1. UNCHANGED <<queue, files, fate, stopped>> /\ processor.stage = "idle"
  BY DEF LoadFile, Stage, history
<1>2. CASE f \notin files
  BY <1>1, <1>2, QuietStep DEF LoadFile
<1>3. CASE f \in files
  <2>1. f \in CacheFiles /\ f.task \in Tasks \cup {None}
    BY CacheFileKinds DEF TypeOK
  <2>2. /\ processor'.stage = IF f.kind = "task" THEN "loaded" ELSE "flushing"
        /\ processor'.task = f.task /\ processor'.file = f
    BY <1>3, <2>1, HandleFacts, NameFacts DEF LoadFile
  <2>3. FileAtHand'
    <3>1. CASE f.kind = "task"
      BY <2>1, <2>2, <3>1, CacheFileKinds DEF FileAtHand, TaskFile
    <3>2. CASE f.kind # "task"
      BY <2>1, <2>2, <3>2, CacheFileKinds DEF FileAtHand, ResFile, NoIdFile
    <3>3. QED
      BY <3>1, <3>2
  <2>4. EndsAreDecided'
    BY <2>2 DEF EndsAreDecided
  <2>5. AcceptedHasPlace'
    BY <1>1 DEF HeldInv, AcceptedHasPlace, InQueue, InHand, TaskFile
  <2>6. KeptIsOnDisk'
    BY <1>1 DEF HeldInv, KeptIsOnDisk, ResFile
  <2>7. QED
    BY <2>3, <2>4, <2>5, <2>6 DEF HeldInv
<1>4. QED
  BY <1>2, <1>3

\* Flush: a res_ file goes only when its status, if it is final, was sent.
LEMMA FlushStep ==
    ASSUME TypeOK, HeldInv, TasksAtHand', Flush
    PROVE  HeldInv'
<1> DEFINE t == processor.task
           s == processor.file.status
<1>1. /\ processor.stage = "flushing" /\ processor'.stage = "idle"
      /\ UNCHANGED <<queue, stopped>>
  BY IdleFacts DEF Flush, Stage
<1>2. \/ t \in Tasks /\ s \in Statuses /\ processor.file = ResFile(t, s)
      \/ t = None /\ processor.file = NoIdFile
  <2>1. CASE t = None
    BY <1>1, <2>1, WorkerAssumption DEF HeldInv, FileAtHand
  <2>2. CASE t # None
    <3>1. t \in Tasks /\ \E r \in Statuses : processor.file = ResFile(t, r)
      BY <1>1, <2>2 DEF HeldInv, FileAtHand
    <3>2. PICK r \in Statuses : processor.file = ResFile(t, r)
      BY <3>1
    <3>3. s = r
      BY <3>2 DEF ResFile
    <3>4. QED
      BY <3>1, <3>2, <3>3
  <2>3. QED
    BY <2>1, <2>2
<1>3. \/ /\ t \in Tasks /\ s \in Statuses
         /\ files' = files \ {ResFile(t, s)} /\ (Settle(t, s, "told") \/ Settle(t, s, "lost"))
      \/ files' = files \ {NoIdFile} /\ UNCHANGED fate
      \/ UNCHANGED <<files, fate>>
  <2>1. CASE t = None
    BY <1>2, <2>1, WorkerAssumption DEF Flush
  <2>2. CASE t # None
    BY <1>2, <2>2 DEF Flush
  <2>3. QED
    BY <2>1, <2>2
<1>4. FileAtHand' /\ EndsAreDecided'
  BY <1>1 DEF FileAtHand, EndsAreDecided
<1>5. CASE files' = files \ {NoIdFile} /\ UNCHANGED fate
  <2>1. /\ \A u \in Tasks : TaskFile(u) \in files => TaskFile(u) \in files'
        /\ \A u \in Tasks, r \in Terminal : ResFile(u, r) \in files => ResFile(u, r) \in files'
    BY <1>5, WorkerAssumption DEF TaskFile, ResFile, NoIdFile
  <2>2. AcceptedHasPlace'
    <3>1. \A u \in Tasks : InHand(u) => FALSE
      BY <1>1 DEF InHand
    <3>2. ASSUME NEW u \in Tasks, u \notin stopped, fate[u] = "accepted"
          PROVE  InQueue(u)' \/ InHand(u)' \/ TaskFile(u) \in files'
      BY <1>1, <2>1, <3>1, <3>2 DEF HeldInv, AcceptedHasPlace, InQueue
    <3>3. QED
      BY <1>1, <1>5, <3>2 DEF AcceptedHasPlace, TaskFile
  <2>3. KeptIsOnDisk'
    BY <1>5, <2>1 DEF HeldInv, KeptIsOnDisk, ResFile
  <2>4. QED
    BY <1>4, <2>2, <2>3 DEF HeldInv
<1>6. CASE UNCHANGED <<files, fate>>
  <2>1. AcceptedHasPlace' /\ KeptIsOnDisk'
    BY <1>1, <1>6 DEF HeldInv, AcceptedHasPlace, InQueue, InHand, KeptIsOnDisk, TaskFile, ResFile
  <2>2. QED
    BY <1>4, <2>1 DEF HeldInv
<1>7. CASE /\ t \in Tasks /\ s \in Statuses
           /\ files' = files \ {ResFile(t, s)} /\ (Settle(t, s, "told") \/ Settle(t, s, "lost"))
  <2>1. PICK f \in {"told", "lost"} : Settle(t, s, f)
    BY <1>7
  <2>2. /\ \A u \in Tasks : u # t => fate'[u] = fate[u]
        /\ fate'[t] = fate[t] \/ fate'[t] = f
        /\ s \in Terminal => fate'[t] # "kept"
    BY <1>7, <2>1 DEF Settle, TypeOK
  <2>3. AcceptedHasPlace'
    <3>1. ASSUME NEW u \in Tasks, u \notin stopped, fate'[u] = "accepted"
          PROVE  InQueue(u)' \/ InHand(u)' \/ TaskFile(u) \in files'
      <4>1. InQueue(u) \/ TaskFile(u) \in files
        BY <1>1, <1>7, <2>1, <2>2, <3>1 DEF HeldInv, AcceptedHasPlace, InHand
      <4>2. TaskFile(u) # ResFile(t, s)
        BY DEF TaskFile, ResFile
      <4>3. QED
        BY <1>1, <1>7, <4>1, <4>2 DEF InQueue
    <3>2. QED
      BY <1>1, <3>1 DEF AcceptedHasPlace, TaskFile
  <2>4. KeptIsOnDisk'
    <3>1. ASSUME NEW u \in Tasks, fate'[u] = "kept"
          PROVE  \E r \in Terminal : ResFile(u, r) \in files'
      <4>1. fate[u] = "kept"
        BY <1>7, <2>1, <2>2, <3>1
      <4>2. PICK r \in Terminal : ResFile(u, r) \in files
        BY <4>1 DEF HeldInv, KeptIsOnDisk
      <4>3. u # t \/ r # s
        BY <2>2, <3>1
      <4>4. ResFile(u, r) # ResFile(t, s)
        BY <4>3 DEF ResFile
      <4>5. QED
        BY <1>7, <4>2, <4>4
    <3>2. QED
      BY <3>1 DEF KeptIsOnDisk, ResFile
  <2>5. QED
    BY <1>4, <2>3, <2>4 DEF HeldInv
<1>8. QED
  BY <1>3, <1>6, <1>7, <1>5

\* Crash: memory is gone, but what was queued is on disk; of the task at hand
\* nothing is promised any more.
LEMMA CrashStep ==
    ASSUME TypeOK, OnceInv, HeldInv, TasksAtHand', Crash
    PROVE  HeldInv'
<1>1. /\ processor'.stage = "idle" /\ UNCHANGED <<files, stopped>>
      /\ \A u \in Tasks : fate'[u] = IF fate[u] = "accepted" /\ InHand(u) /\ TaskFile(u) \notin files
                                     THEN "none" ELSE fate[u]
  BY IdleFacts DEF Crash
<1>2. FileAtHand' /\ EndsAreDecided'
  BY <1>1 DEF FileAtHand, EndsAreDecided
<1>3. AcceptedHasPlace'
  <2>1. ASSUME NEW u \in Tasks, u \notin stopped, fate'[u] = "accepted"
        PROVE  TaskFile(u) \in files
    <3>1. fate[u] = "accepted" /\ (InHand(u) => TaskFile(u) \in files)
      BY <1>1, <2>1
    <3>2. InQueue(u) => TaskFile(u) \in files
      BY <2>1, <3>1 DEF OnceInv, QueuedIsOnDisk
    <3>3. QED
      BY <2>1, <3>1, <3>2 DEF HeldInv, AcceptedHasPlace
  <2>2. QED
    BY <1>1, <2>1 DEF AcceptedHasPlace, TaskFile
<1>4. KeptIsOnDisk'
  BY <1>1 DEF HeldInv, KeptIsOnDisk, ResFile
<1>5. QED
  BY <1>2, <1>3, <1>4 DEF HeldInv

\* The sends of the processor within the work on one task, and the last one.
LEMMA ProcessorSends ==
    ASSUME TypeOK, HeldInv, TasksAtHand',
           Announce \/ InferEnd \/ ReportFailing \/ Report \/ ReportFailed
    PROVE  HeldInv'
<1>1. /\ processor.stage \notin {"idle", "flushing"}
      /\ UNCHANGED <<queue, stopped>>
  BY DEF Announce, InferEnd, ReportFailing, Report, ReportFailed, Stage
<1>2. processor.task \in Tasks /\ processor.id \in {processor.task, None}
  BY <1>1 DEF HeldInv, TasksAtHand
<1>3. CASE Announce
  <2>1. Sent(processor.task)
    BY <1>2, <1>3, SendOfLoopFacts, NameFacts DEF Announce
  <2>2. processor'.stage = "starting" /\ processor'.task = processor.task
    BY <1>3, GoToFacts, NameFacts DEF Announce
  <2>3. QED
    BY <1>1, <1>2, <2>1, <2>2, SendStep
<1>4. CASE InferEnd
  <2>1. CASE SendResult(processor.task) /\ GoTo("succeeded")
    <3>1. Sent(processor.task) /\ fate'[processor.task] \in {"kept", "told", "lost"}
      BY <1>2, <2>1, SendResultFacts
    <3>2. processor'.stage = "succeeded" /\ processor'.task = processor.task
      BY <2>1, GoToFacts, NameFacts
    <3>3. QED
      BY <1>1, <1>2, <3>1, <3>2, SendStep
  <2>2. CASE GoTo("raised") /\ UNCHANGED <<link, drops, files, fate>>
    <3>1. processor'.stage = "raised" /\ processor'.task = processor.task
      BY <2>2, GoToFacts, NameFacts
    <3>2. QED
      BY <1>1, <2>2, <3>1, WorkStep
  <2>3. QED
    BY <1>4, <2>1, <2>2 DEF InferEnd
<1>5. CASE ReportFailing
  <2>1. Sent(processor.task) /\ fate'[processor.task] \in {"kept", "told", "lost"}
    BY <1>2, <1>5, SendStatusFacts, NameFacts DEF ReportFailing
  <2>2. processor'.stage = "failed" /\ processor'.task = processor.task
    BY <1>5, GoToFacts, NameFacts DEF ReportFailing
  <2>3. QED
    BY <1>1, <1>2, <2>1, <2>2, SendStep
<1>6. CASE Report
  <2>1. \/ processor.stage = "refused" /\ SendRefusal
        \/ \E s \in {"cancelled", "completed"} : /\ SendStatus(processor.task, s)
                                                /\ processor.stage = s
    BY <1>6 DEF Report, Stage
  <2>2. Sent(processor.task) /\ fate'[processor.task] # "accepted"
    <3>1. CASE processor.stage = "refused" /\ SendRefusal
      BY <1>2, <3>1, SendRefusalFacts
    <3>2. CASE SendStatus(processor.task, "cancelled")
      BY <1>2, <3>2, SendStatusFacts, NameFacts
    <3>3. CASE SendStatus(processor.task, "completed") /\ processor.stage = "completed"
      <4>1. Sent(processor.task)
        BY <1>2, <3>3, SendStatusFacts, NameFacts
      <4>2. Decided(processor.task)
        BY <3>3 DEF HeldInv, EndsAreDecided
      <4>3. QED
        BY <4>1, <4>2 DEF Sent
    <3>4. QED
      BY <2>1, <3>1, <3>2, <3>3
  <2>3. processor'.stage = "idle"
    BY <1>6, IdleFacts DEF Report
  <2>4. QED
    BY <1>1, <1>2, <2>2, <2>3, SendStep
<1>7. CASE ReportFailed
  <2>1. Decided(processor.task)
    BY <1>7 DEF HeldInv, EndsAreDecided, ReportFailed, Stage
  <2>2. Sent(processor.task)
    <3>1. CASE UNCHANGED <<files, fate>>
      BY <3>1 DEF Sent, TypeOK, Decided
    <3>2. CASE SendOfLoop("failed")
      BY <1>2, <3>2, SendOfLoopFacts, NameFacts
    <3>3. QED
      BY <1>7, <3>1, <3>2 DEF ReportFailed
  <2>3. fate'[processor.task] \in {"kept", "told", "lost"}
    BY <2>1, <2>2 DEF Sent
  <2>4. processor'.stage = "idle"
    BY <1>7, IdleFacts DEF ReportFailed
  <2>5. QED
    BY <1>1, <1>2, <2>2, <2>3, <2>4, SendStep
<1>8. QED
  BY <1>3, <1>4, <1>5, <1>6, <1>7

\* The steps of the processor that send nothing.
LEMMA ProcessorWork ==
    ASSUME TypeOK, HeldInv, TasksAtHand', Begin \/ Start \/ Conclude \/ DeleteLoaded
    PROVE  HeldInv'
<1>1. CASE Begin \/ Start
  <2>1. /\ processor.stage \notin {"idle", "flushing"}
        /\ UNCHANGED <<queue, fate, stopped, files>>
    BY <1>1 DEF Begin, Start, Stage, history
  <2>2. PICK s \in {"refused", "cancelled", "announcing", "inferring"} : GoTo(s)
    BY <1>1 DEF Begin, Start
  <2>3. s \in Stages
    BY DEF Stages
  <2>4. processor'.stage = s /\ processor'.task = processor.task
    BY <2>2, <2>3, GoToFacts
  <2>5. QED
    BY <2>1, <2>4, WorkStep
<1>2. CASE Conclude
  <2>1. /\ UNCHANGED <<queue, fate, stopped>>
        /\ files' = files \/ files' = files \ {TaskFile(processor.task)}
    BY <1>2 DEF Conclude, history
  <2>2. PICK s \in {"cancelled", "completed", "failing", "cancelling"} :
           /\ GoTo(s) /\ processor.stage \in {"succeeded", "raised"}
           /\ s = "completed" => processor.stage = "succeeded"
    BY <1>2 DEF Conclude, Stage
  <2>3. s \in Stages
    BY DEF Stages
  <2>4. processor'.stage = s /\ processor'.task = processor.task
    BY <2>2, <2>3, GoToFacts
  <2>5. QED
    BY <2>1, <2>2, <2>4, WorkStep
<1>3. CASE DeleteLoaded
  <2>1. /\ processor.stage = "loaded" /\ UNCHANGED <<queue, fate, stopped>>
        /\ files' = files \ {processor.file}
    BY <1>3 DEF DeleteLoaded, Stage, history
  <2>2. /\ processor.task \in Tasks /\ processor.file = TaskFile(processor.task)
        /\ processor.id \in Tasks \cup {None}
    BY <2>1 DEF HeldInv, TasksAtHand, FileAtHand
  <2>3. processor'.stage = "begin" /\ processor'.task = processor.task
    BY <1>3, <2>2, HandleFacts, NameFacts DEF DeleteLoaded
  <2>4. QED
    BY <2>1, <2>2, <2>3, WorkStep
<1>4. QED
  BY <1>1, <1>2, <1>3

-----------------------------------------------------------------------------
\* No step of the worker, of its connection or of its crashes leaves HeldInv.
LEMMA HeldStep == TypeOK /\ OnceInv /\ HeldInv /\ [Next]_vars => HeldInv'
<1> SUFFICES ASSUME TypeOK, OnceInv, HeldInv, [Next]_vars
             PROVE  HeldInv'
  OBVIOUS
<1>1. TasksAtHand'
  BY TypeStep DEF HeldInv
<1>2. CASE \/ \E t \in Tasks : Offer(t) \/ AskToCancel(t)
           \/ LinkDown \/ Boot \/ StartScan \/ UNCHANGED vars
  <2>1. UNCHANGED <<queue, processor, files, fate, stopped>>
    BY <1>2 DEF Offer, AskToCancel, LinkDown, Boot, StartScan, vars, memory, history
  <2>2. QED
    BY <1>1, <2>1, QuietStep
<1>3. CASE Reconnect
  <2>1. UNCHANGED <<queue, processor, fate, stopped>>
    BY <1>3 DEF Reconnect, memory, history
  <2>2. CASE UNCHANGED files
    BY <1>1, <2>1, <2>2, QuietStep
  <2>3. CASE receiver.stage = "saving" /\ files' = files \cup {TaskFile(receiver.task)}
    <3>1. receiver.task \in Tasks
      BY <2>3 DEF HeldInv, TasksAtHand
    <3>2. QED
      BY <1>1, <2>1, <2>3, <3>1, FileStep
  <2>4. QED
    BY <1>3, <2>2, <2>3 DEF Reconnect
<1>4. CASE Crash
  BY <1>1, <1>4, CrashStep
<1>5. ASSUME NEW t \in Tasks, ReceiveTask(t) \/ ReceiveCancel(t)
      PROVE  HeldInv'
  BY <1>1, <1>5, ReceiveTaskStep, ReceiveCancelStep
<1>6. CASE SendQueued
  <2>1. receiver.task \in Tasks
    BY <1>6 DEF SendQueued, HeldInv, TasksAtHand
  <2>2. UNCHANGED <<queue, processor, stopped>> /\ SendStatus(receiver.task, "underway")
    BY <1>6 DEF SendQueued, memory
  <2>3. Sent(receiver.task)
    BY <2>1, <2>2, SendStatusFacts, NameFacts
  <2>4. FileAtHand' /\ EndsAreDecided'
    BY <2>1, <2>2, <2>3
       DEF HeldInv, TasksAtHand, FileAtHand, EndsAreDecided, Decided, Sent, TaskFile, ResFile
  <2>5. AcceptedHasPlace'
    BY <2>1, <2>2, <2>3, SentKeepsHeld DEF HeldInv, InHand
  <2>6. KeptIsOnDisk'
    BY <2>1, <2>3, SentKeepsDisk DEF HeldInv
  <2>7. QED
    BY <1>1, <2>4, <2>5, <2>6 DEF HeldInv
<1>7. CASE Save
  <2>1. receiver.task \in Tasks
    BY <1>7 DEF Save, HeldInv, TasksAtHand
  <2>2. /\ UNCHANGED <<queue, processor, stopped>>
        /\ files' = files \cup {TaskFile(receiver.task)}
        /\ \/ UNCHANGED fate
           \/ /\ fate[receiver.task] = "none"
              /\ fate' = [fate EXCEPT ![receiver.task] = "accepted"]
    BY <1>7 DEF Save, Accepted, memory
  <2>3. QED
    BY <1>1, <2>1, <2>2, FileStep
<1>8. CASE Take
  BY <1>1, <1>8, TakeStep
<1>9. ASSUME NEW f \in scan, LoadFile(f)
      PROVE  HeldInv'
  BY <1>1, <1>9, LoadFileStep
<1>10. CASE Flush
  BY <1>1, <1>10, FlushStep
<1>11. CASE Begin \/ Start \/ Conclude \/ DeleteLoaded
  BY <1>1, <1>11, ProcessorWork
<1>12. CASE Announce \/ InferEnd \/ ReportFailing \/ Report \/ ReportFailed
  BY <1>1, <1>12, ProcessorSends
<1>13. QED
  BY <1>2, <1>3, <1>4, <1>5, <1>6, <1>7, <1>8, <1>9, <1>10, <1>11, <1>12
     DEF Next, ReceiverStep, ProcessorStep

-----------------------------------------------------------------------------
(* Where a task is: OnceInv and StoppedIsOut                                *)

\* What a step may do to the places of the tasks that takes nothing from the
\* frames and nothing from the queue.
Orderly ==
    /\ inbound' = inbound \/ inbound' = <<>>
    /\ UNCHANGED <<offered, asked, stopped, queue>>
    /\ scan' \subseteq scan \/ (queue = <<>> /\ scan' \subseteq files)
    /\ \A t \in Tasks :
          /\ AtReceiver(t)' => AtReceiver(t)
          /\ InHand(t)' => InHand(t) \/ TaskFile(t) \in scan
          /\ ToStart(t)' => ToStart(t) \/ TaskFile(t) \in files
          /\ t \in marked /\ ToStart(t)' => t \in marked'
          /\ TaskFile(t) \in files' => TaskFile(t) \in files \/ AtReceiver(t)
          /\ TaskFile(t) \in files => TaskFile(t) \in files' \/ InHand(t)
          /\ fate'[t] = "accepted" => fate[t] = "accepted" \/ (AtReceiver(t) /\ TaskFile(t) \in files')

\* An orderly step loses no order: no task appears where it was not on its way.
LEMMA OrderlyStep ==
    ASSUME TypeOK, OnceInv, StoppedIsOut, Orderly
    PROVE  OnceInv' /\ StoppedIsOut'
<1>1. \A t \in Tasks : InQueue(t)' <=> InQueue(t)
  BY DEF Orderly, InQueue
<1>2. \A t \in Tasks, k \in {"task", "cancel"} : Coming(k, t)' => Coming(k, t)
  <2>1. CASE inbound' = inbound
    BY <2>1 DEF Coming
  <2>2. CASE inbound' = <<>>
    BY <2>2 DEF Coming
  <2>3. QED
    BY <2>1, <2>2 DEF Orderly
<1>3. \A t \in Tasks : Arrived(t)' => Arrived(t)
  <2>1. ASSUME NEW t \in Tasks, Arrived(t)'
        PROVE  Arrived(t)
    <3>1. \/ AtReceiver(t)' \/ InQueue(t)' \/ InHand(t)'
          \/ TaskFile(t) \in files' \/ TaskFile(t) \in scan' \/ fate'[t] = "accepted"
      BY <2>1 DEF Arrived, TaskFile
    <3>2. TaskFile(t) \in scan' => TaskFile(t) \in scan \/ TaskFile(t) \in files
      BY DEF Orderly
    <3>3. QED
      BY <1>1, <3>1, <3>2 DEF Orderly, Arrived
  <2>2. QED
    BY <2>1
<1>4. FramesInOrder'
  <2>1. CASE inbound' = inbound
    BY <1>2, <1>3, <2>1 DEF OnceInv, FramesInOrder, Orderly
  <2>2. CASE inbound' = <<>>
    BY <1>2, <1>3, <2>2 DEF OnceInv, FramesInOrder, Orderly
  <2>3. QED
    BY <2>1, <2>2 DEF Orderly
<1>5. ComingIsNew'
  BY <1>2, <1>3 DEF OnceInv, ComingIsNew
<1>6. QueuedOnce'
  <2>1. ASSUME NEW t \in Tasks, InQueue(t)
        PROVE  ~InHand(t)' /\ TaskFile(t) \notin scan'
    <3>1. ~InHand(t) /\ TaskFile(t) \notin scan
      BY <2>1 DEF OnceInv, QueuedOnce
    <3>2. queue # <<>>
      BY <2>1 DEF InQueue
    <3>3. QED
      BY <3>1, <3>2 DEF Orderly
  <2>2. \A i, j \in 1 .. Len(queue') : queue'[i] = queue'[j] => i = j
    BY DEF OnceInv, QueuedOnce, Orderly
  <2>3. QED
    BY <1>1, <2>1, <2>2 DEF QueuedOnce, TaskFile
<1>7. QueuedIsOnDisk'
  <2>1. ASSUME NEW t \in Tasks, t \notin stopped, InQueue(t), fate'[t] = "accepted"
        PROVE  TaskFile(t) \in files'
    <3>1. ~InHand(t)
      BY <2>1 DEF OnceInv, QueuedOnce
    <3>2. CASE fate[t] = "accepted"
      BY <2>1, <3>1, <3>2 DEF OnceInv, QueuedIsOnDisk, Orderly
    <3>3. CASE fate[t] # "accepted"
      BY <2>1, <3>3 DEF Orderly
    <3>4. QED
      BY <3>2, <3>3
  <2>2. QED
    BY <1>1, <2>1 DEF QueuedIsOnDisk, TaskFile, Orderly
<1>8. StoppedIsOut'
  <2>1. ASSUME NEW t \in stopped
        PROVE  /\ ~Coming("task", t)' /\ ~AtReceiver(t)' /\ TaskFile(t) \notin files'
               /\ ToStart(t)' => t \in marked'
    <3>1. t \in Tasks
      BY DEF TypeOK
    <3>2. /\ ~Coming("task", t) /\ ~AtReceiver(t) /\ TaskFile(t) \notin files
          /\ ToStart(t) => t \in marked
      BY DEF StoppedIsOut
    <3>3. QED
      BY <1>2, <3>1, <3>2 DEF Orderly
  <2>2. stopped' = stopped
    BY DEF Orderly
  <2>3. QED
    BY <2>1, <2>2 DEF StoppedIsOut, TaskFile
<1>9. QED
  BY <1>4, <1>5, <1>6, <1>7, <1>8 DEF OnceInv

\* Offering a task, or asking for its cancellation, puts one frame behind the others.
LEMMA GatewayStep ==
    ASSUME TypeOK, OnceInv, StoppedIsOut, NEW t \in Tasks, Offer(t) \/ AskToCancel(t)
    PROVE  OnceInv' /\ StoppedIsOut'
<1>1. UNCHANGED <<receiver, queue, processor, scan, marked, files, fate, stopped>>
  BY DEF Offer, AskToCancel, memory, history
<1>2. /\ \A u \in Tasks : /\ Arrived(u)' <=> Arrived(u)
                          /\ InQueue(u)' <=> InQueue(u)
                          /\ AtReceiver(u)' <=> AtReceiver(u)
                          /\ InHand(u)' <=> InHand(u)
                          /\ ToStart(u)' <=> ToStart(u)
  BY <1>1 DEF Arrived, AtReceiver, InQueue, InHand, ToStart, TaskFile
<1>3. QueuedOnce' /\ QueuedIsOnDisk'
  BY <1>1, <1>2 DEF OnceInv, QueuedOnce, QueuedIsOnDisk, TaskFile
<1>4. PICK k \in {"task", "cancel"} :
         /\ inbound' = Append(inbound, [type |-> k, task |-> t])
         /\ k = "task" => /\ t \notin offered /\ offered' = offered \cup {t} /\ asked' = asked
         /\ k = "cancel" => /\ t \in offered \ asked /\ asked' = asked \cup {t} /\ offered' = offered
  BY DEF Offer, AskToCancel
<1>5. \A i \in 1 .. Len(inbound) : inbound[i] \in Frames
  BY DEF TypeOK
<1>6. /\ Len(inbound) \in Nat /\ Len(inbound') = Len(inbound) + 1
      /\ \A i \in 1 .. Len(inbound) : inbound'[i] = inbound[i]
      /\ inbound'[Len(inbound) + 1] = [type |-> k, task |-> t]
  BY <1>4 DEF TypeOK
<1>7. ASSUME NEW u \in Tasks, NEW m \in {"task", "cancel"}, Coming(m, u)'
      PROVE  Coming(m, u) \/ (m = k /\ u = t)
  <2>1. PICK i \in 1 .. Len(inbound') : inbound'[i] = [type |-> m, task |-> u]
    BY <1>7 DEF Coming
  <2>2. CASE i = Len(inbound) + 1
    BY <1>6, <2>1, <2>2
  <2>3. CASE i # Len(inbound) + 1
    BY <1>6, <2>1, <2>3 DEF Coming
  <2>4. QED
    BY <2>2, <2>3
<1>8. k = "task" => ~Arrived(t)
  BY <1>4 DEF OnceInv, FramesInOrder
<1>9. k = "cancel" => t \notin stopped
  BY <1>4 DEF OnceInv, FramesInOrder
<1>10. ComingIsNew'
  <2>1. ASSUME NEW u \in Tasks, Coming("task", u)'
        PROVE  ~Arrived(u)
    BY <1>7, <1>8, <2>1 DEF OnceInv, ComingIsNew
  <2>2. QED
    BY <1>2, <2>1 DEF ComingIsNew
<1>11. FramesInOrder'
  <2>1. stopped' \subseteq asked' /\ asked' \subseteq offered'
    BY <1>1, <1>4 DEF OnceInv, FramesInOrder
  <2>2. \A u \in Tasks : /\ Coming("cancel", u)' => u \in asked'
                         /\ Coming("task", u)' \/ Arrived(u)' => u \in offered'
    BY <1>2, <1>4, <1>7 DEF OnceInv, FramesInOrder
  <2>3. ASSUME NEW i \in 1 .. Len(inbound)
        PROVE  /\ inbound[i] # [type |-> k, task |-> t]
               /\ inbound[i].task = t => inbound[i].type # "cancel"
    <3>1. inbound[i] = [type |-> inbound[i].type, task |-> inbound[i].task]
      BY <1>5 DEF Frames
    <3>2. inbound[i].task \in Tasks /\ inbound[i].type \in {"task", "cancel"}
      BY <1>5 DEF Frames
    <3>3. Coming(inbound[i].type, inbound[i].task)
      BY <3>1 DEF Coming
    <3>4. ~Coming(k, t) /\ ~Coming("cancel", t)
      BY <1>4 DEF OnceInv, FramesInOrder
    <3>5. QED
      BY <3>2, <3>3, <3>4
  <2>4. ASSUME NEW i \in 1 .. Len(inbound'), NEW j \in 1 .. Len(inbound')
        PROVE  /\ inbound'[i] = inbound'[j] => i = j
               /\ inbound'[i].task = inbound'[j].task /\ inbound'[i].type = "cancel" => j <= i
    <3>1. CASE i \in 1 .. Len(inbound) /\ j \in 1 .. Len(inbound)
      BY <1>6, <3>1 DEF OnceInv, FramesInOrder
    <3>2. CASE i = Len(inbound) + 1
      BY <1>6, <2>3, <3>2
    <3>3. CASE i \in 1 .. Len(inbound) /\ j = Len(inbound) + 1
      BY <1>6, <2>3, <3>3
    <3>4. QED
      BY <1>6, <3>1, <3>2, <3>3
  <2>5. QED
    BY <2>1, <2>2, <2>4 DEF FramesInOrder
<1>12. StoppedIsOut'
  <2>1. ASSUME NEW u \in stopped
        PROVE  ~Coming("task", u)'
    <3>1. u \in Tasks /\ u \in offered /\ ~Coming("task", u)
      BY DEF TypeOK, OnceInv, FramesInOrder, StoppedIsOut
    <3>2. QED
      BY <1>4, <1>7, <3>1
  <2>2. \A u \in stopped : u \in Tasks
    BY DEF TypeOK
  <2>3. QED
    BY <1>1, <1>2, <2>1, <2>2 DEF StoppedIsOut, TaskFile
<1>13. QED
  BY <1>3, <1>10, <1>11, <1>12 DEF OnceInv

\* Receiving a frame takes it off: it does not come again, and behind a cancel
\* message nothing of its task comes.
LEMMA ReceivedFacts ==
    ASSUME TypeOK, OnceInv, NEW k \in {"task", "cancel"}, NEW t \in Tasks, Received(k, t)
    PROVE  /\ Coming(k, t) /\ ~Coming(k, t)' /\ (k = "cancel" => ~Coming("task", t)')
           /\ \A u \in Tasks, m \in {"task", "cancel"} : Coming(m, u)' => Coming(m, u)
           /\ \A i, j \in 1 .. Len(inbound') :
                 /\ inbound'[i] = inbound'[j] => i = j
                 /\ inbound'[i].task = inbound'[j].task /\ inbound'[i].type = "cancel" => j <= i
<1>1. /\ inbound # <<>> /\ inbound' = Tail(inbound)
      /\ Len(inbound) \in Nat /\ Len(inbound') = Len(inbound) - 1 /\ Len(inbound) > 0
      /\ \A i \in 1 .. Len(inbound') : inbound'[i] = inbound[i + 1]
      /\ inbound[1] = [type |-> k, task |-> t]
  BY DEF Received, TypeOK
<1>2. \A i, j \in 1 .. Len(inbound) :
          /\ inbound[i] = inbound[j] => i = j
          /\ inbound[i].task = inbound[j].task /\ inbound[i].type = "cancel" => j <= i
  BY DEF OnceInv, FramesInOrder
<1>3. \A i \in 1 .. Len(inbound') : i + 1 \in 1 .. Len(inbound) /\ i + 1 > 1
  BY <1>1
<1>4. 1 \in 1 .. Len(inbound)
  BY <1>1
<1>5. Coming(k, t)
  BY <1>1, <1>4 DEF Coming
<1>6. ~Coming(k, t)' /\ (k = "cancel" => ~Coming("task", t)')
  <2>1. ASSUME NEW i \in 1 .. Len(inbound')
        PROVE  /\ inbound'[i] # [type |-> k, task |-> t]
               /\ k = "cancel" => inbound'[i].task # t
    <3>1. /\ inbound[i + 1] = inbound[1] => i + 1 = 1
          /\ inbound[1].task = inbound[i + 1].task /\ inbound[1].type = "cancel" => i + 1 <= 1
      BY <1>2, <1>3, <1>4
    <3>2. inbound[1].type = k /\ inbound[1].task = t
      BY <1>1
    <3>3. QED
      BY <1>1, <1>3, <3>1, <3>2
  <2>2. QED
    BY <2>1 DEF Coming
<1>7. \A u \in Tasks, m \in {"task", "cancel"} : Coming(m, u)' => Coming(m, u)
  BY <1>1, <1>3 DEF Coming
<1>8. ASSUME NEW i \in 1 .. Len(inbound'), NEW j \in 1 .. Len(inbound')
      PROVE  /\ inbound'[i] = inbound'[j] => i = j
             /\ inbound'[i].task = inbound'[j].task /\ inbound'[i].type = "cancel" => j <= i
  <2>1. /\ inbound[i + 1] = inbound[j + 1] => i + 1 = j + 1
        /\ inbound[i + 1].task = inbound[j + 1].task /\ inbound[i + 1].type = "cancel" => j + 1 <= i + 1
    BY <1>2, <1>3
  <2>2. inbound'[i] = inbound[i + 1] /\ inbound'[j] = inbound[j + 1]
    BY <1>1
  <2>3. QED
    BY <2>1, <2>2
<1>9. QED
  BY <1>5, <1>6, <1>7, <1>8

\* ReceiveTask: a task that was nowhere is at the receiver and perhaps in the queue.
LEMMA ReceiveTaskOnce ==
    ASSUME TypeOK, OnceInv, StoppedIsOut, NEW t \in Tasks, ReceiveTask(t)
    PROVE  OnceInv' /\ StoppedIsOut'
<1>1. /\ Coming("task", t) /\ ~Coming("task", t)'
      /\ \A u \in Tasks, m \in {"task", "cancel"} : Coming(m, u)' => Coming(m, u)
      /\ \A i, j \in 1 .. Len(inbound') :
            /\ inbound'[i] = inbound'[j] => i = j
            /\ inbound'[i].task = inbound'[j].task /\ inbound'[i].type = "cancel" => j <= i
  BY ReceivedFacts DEF ReceiveTask
<1>2. /\ UNCHANGED <<offered, asked, processor, scan, marked, files, fate, stopped>>
      /\ queue' = queue \/ queue' = Append(queue, t)
      /\ receiver'.task = t
  BY DEF ReceiveTask, history
<1>3. t \in offered /\ ~Arrived(t)
  BY <1>1 DEF OnceInv, FramesInOrder, ComingIsNew
<1>4. t \notin stopped
  BY <1>1 DEF StoppedIsOut
<1>5. \A u \in Tasks : u # t => (InQueue(u)' <=> InQueue(u))
  <2>1. CASE queue' = queue
    BY <2>1 DEF InQueue
  <2>2. CASE queue' = Append(queue, t)
    <3>1. /\ Len(queue) \in Nat /\ Len(queue') = Len(queue) + 1
          /\ \A i \in 1 .. Len(queue) : queue'[i] = queue[i]
          /\ queue'[Len(queue) + 1] = t
      BY <2>2 DEF TypeOK
    <3>2. \A i \in 1 .. Len(queue') : i \in 1 .. Len(queue) \/ i = Len(queue) + 1
      BY <3>1
    <3>3. \A i \in 1 .. Len(queue) : i \in 1 .. Len(queue')
      BY <3>1
    <3>4. QED
      BY <3>1, <3>2, <3>3 DEF InQueue
  <2>3. QED
    BY <1>2, <2>1, <2>2
<1>6. \A u \in Tasks : u # t => (Arrived(u)' => Arrived(u)) /\ (AtReceiver(u)' => AtReceiver(u))
  BY <1>2, <1>5 DEF Arrived, AtReceiver, InHand, TaskFile
<1>7. FramesInOrder'
  <2>1. ASSUME NEW u \in Tasks, Coming("task", u)' \/ Arrived(u)'
        PROVE  u \in offered
    <3>1. CASE u = t
      BY <1>3, <3>1
    <3>2. CASE u # t
      BY <1>1, <1>6, <2>1, <3>2 DEF OnceInv, FramesInOrder
    <3>3. QED
      BY <3>1, <3>2
  <2>2. \A u \in Tasks : Coming("cancel", u)' => u \in asked
    BY <1>1 DEF OnceInv, FramesInOrder
  <2>3. stopped \subseteq asked /\ asked \subseteq offered
    BY DEF OnceInv, FramesInOrder
  <2>4. QED
    BY <1>1, <1>2, <2>1, <2>2, <2>3 DEF FramesInOrder
<1>8. ComingIsNew'
  BY <1>1, <1>6 DEF OnceInv, ComingIsNew
<1>9. QueuedOnce'
  <2>1. \A i, j \in 1 .. Len(queue') : queue'[i] = queue'[j] => i = j
    <3>1. CASE queue' = queue
      BY <3>1 DEF OnceInv, QueuedOnce
    <3>2. CASE queue' = Append(queue, t)
      <4>1. /\ Len(queue) \in Nat /\ Len(queue') = Len(queue) + 1
            /\ \A i \in 1 .. Len(queue) : queue'[i] = queue[i]
            /\ queue'[Len(queue) + 1] = t
        BY <3>2 DEF TypeOK
      <4>2. \A i \in 1 .. Len(queue) : queue[i] # t
        BY <1>3 DEF Arrived, InQueue
      <4>3. QED
        BY <4>1, <4>2 DEF OnceInv, QueuedOnce
    <3>3. QED
      BY <1>2, <3>1, <3>2
  <2>2. ASSUME NEW u \in Tasks, InQueue(u)'
        PROVE  ~InHand(u) /\ TaskFile(u) \notin scan
    <3>1. CASE u = t
      BY <1>3, <3>1 DEF Arrived
    <3>2. CASE u # t
      BY <1>5, <2>2, <3>2 DEF OnceInv, QueuedOnce
    <3>3. QED
      BY <3>1, <3>2
  <2>3. QED
    BY <1>2, <2>1, <2>2 DEF QueuedOnce, InHand, TaskFile
<1>10. QueuedIsOnDisk'
  <2>1. ASSUME NEW u \in Tasks, u \notin stopped, InQueue(u)', fate[u] = "accepted"
        PROVE  TaskFile(u) \in files
    <3>1. u # t
      BY <1>3, <2>1 DEF Arrived
    <3>2. QED
      BY <1>5, <2>1, <3>1 DEF OnceInv, QueuedIsOnDisk
  <2>2. QED
    BY <1>2, <2>1 DEF QueuedIsOnDisk, TaskFile
<1>11. StoppedIsOut'
  <2>1. ASSUME NEW u \in stopped
        PROVE  /\ ~Coming("task", u)' /\ ~AtReceiver(u)' /\ TaskFile(u) \notin files'
               /\ ToStart(u)' => u \in marked'
    <3>1. u \in Tasks /\ u # t
      BY <1>4 DEF TypeOK
    <3>2. ToStart(u)' => ToStart(u)
      BY <1>2, <1>5, <3>1 DEF ToStart, InHand
    <3>3. QED
      BY <1>1, <1>2, <1>6, <3>1, <3>2 DEF StoppedIsOut
  <2>2. QED
    BY <1>2, <2>1 DEF StoppedIsOut, TaskFile
<1>12. QED
  BY <1>7, <1>8, <1>9, <1>10, <1>11 DEF OnceInv

\* ReceiveCancel: the task is marked, has no file, and is not behind its cancel message.
LEMMA ReceiveCancelOnce ==
    ASSUME TypeOK, OnceInv, StoppedIsOut, NEW t \in Tasks, ReceiveCancel(t)
    PROVE  OnceInv' /\ StoppedIsOut'
<1>1. /\ Coming("cancel", t) /\ ~Coming("task", t)'
      /\ \A u \in Tasks, m \in {"task", "cancel"} : Coming(m, u)' => Coming(m, u)
      /\ \A i, j \in 1 .. Len(inbound') :
            /\ inbound'[i] = inbound'[j] => i = j
            /\ inbound'[i].task = inbound'[j].task /\ inbound'[i].type = "cancel" => j <= i
  BY ReceivedFacts DEF ReceiveCancel
<1>2. /\ UNCHANGED <<offered, asked, receiver, queue, processor, scan, fate>>
      /\ files' = files \ {TaskFile(t)}
      /\ stopped' = stopped \cup {t} /\ marked' = marked \cup {t}
      /\ receiver.stage = "idle"
  BY DEF ReceiveCancel, Received
<1>3. \A u \in Tasks : /\ InQueue(u)' <=> InQueue(u)
                       /\ ToStart(u)' <=> ToStart(u)
                       /\ InHand(u)' <=> InHand(u)
                       /\ Arrived(u)' => Arrived(u)
  BY <1>2 DEF InQueue, ToStart, InHand, Arrived, AtReceiver, TaskFile
<1>4. FramesInOrder'
  <2>1. t \in asked
    BY <1>1 DEF OnceInv, FramesInOrder
  <2>2. /\ stopped \subseteq asked /\ asked \subseteq offered
        /\ \A u \in Tasks : /\ Coming("cancel", u)' => u \in asked
                            /\ Coming("task", u)' \/ Arrived(u)' => u \in offered
    BY <1>1, <1>3 DEF OnceInv, FramesInOrder
  <2>3. QED
    BY <1>1, <1>2, <2>1, <2>2 DEF FramesInOrder
<1>5. ComingIsNew'
  BY <1>1, <1>3 DEF OnceInv, ComingIsNew
<1>6. QueuedOnce'
  BY <1>2, <1>3 DEF OnceInv, QueuedOnce, TaskFile
<1>7. QueuedIsOnDisk'
  <2>1. ASSUME NEW u \in Tasks, u \notin stopped', InQueue(u), fate[u] = "accepted"
        PROVE  TaskFile(u) \in files'
    <3>1. TaskFile(u) \in files
      BY <1>2, <2>1 DEF OnceInv, QueuedIsOnDisk
    <3>2. TaskFile(u) # TaskFile(t)
      BY <1>2, <2>1 DEF TaskFile
    <3>3. QED
      BY <1>2, <3>1, <3>2
  <2>2. QED
    BY <1>2, <1>3, <2>1 DEF QueuedIsOnDisk, TaskFile
<1>8. StoppedIsOut'
  <2>1. ASSUME NEW u \in stopped'
        PROVE  /\ ~Coming("task", u)' /\ ~AtReceiver(u)' /\ TaskFile(u) \notin files'
               /\ ToStart(u)' => u \in marked'
    <3>1. ~AtReceiver(u)'
      BY <1>2 DEF AtReceiver
    <3>2. CASE u = t
      BY <1>1, <1>2, <3>1, <3>2
    <3>3. CASE u # t
      <4>1. u \in stopped /\ u \in Tasks
        BY <1>2, <3>3 DEF TypeOK
      <4>2. QED
        BY <1>1, <1>2, <1>3, <3>1, <4>1 DEF StoppedIsOut
    <3>4. QED
      BY <3>2, <3>3
  <2>2. QED
    BY <2>1 DEF StoppedIsOut, TaskFile
<1>9. QED
  BY <1>4, <1>5, <1>6, <1>7, <1>8 DEF OnceInv

\* Take: the head of the queue is not queued again, so its file is no other's.
LEMMA TakeOnce ==
    ASSUME TypeOK, OnceInv, StoppedIsOut, Take
    PROVE  OnceInv' /\ StoppedIsOut'
<1>1. PICK t \in Tasks : t = Head(queue)
  BY DEF Take, TypeOK
<1>2. /\ processor'.stage = "begin" /\ processor'.task = t
      /\ processor.stage = "idle" /\ scan = {}
      /\ files' = files \ {TaskFile(t)}
      /\ UNCHANGED <<inbound, offered, asked, receiver, scan, marked, fate, stopped>>
  BY <1>1, HandleFacts, NameFacts DEF Take, Free, Stage, history, gateway
<1>3. /\ Len(queue) \in Nat /\ Len(queue) > 0 /\ Len(queue') = Len(queue) - 1
      /\ \A i \in 1 .. Len(queue') : queue'[i] = queue[i + 1]
      /\ queue[1] = t
  BY <1>1 DEF Take, TypeOK
<1>4. \A i, j \in 1 .. Len(queue) : queue[i] = queue[j] => i = j
  BY DEF OnceInv, QueuedOnce
<1>5. InQueue(t) /\ ~InQueue(t)'
  <2>1. InQueue(t)
    BY <1>3 DEF InQueue
  <2>2. ASSUME NEW i \in 1 .. Len(queue')
        PROVE  queue'[i] # t
    <3>1. i + 1 \in 1 .. Len(queue) /\ 1 \in 1 .. Len(queue) /\ i + 1 # 1
      BY <1>3
    <3>2. QED
      BY <1>3, <1>4, <3>1
  <2>3. QED
    BY <2>1, <2>2 DEF InQueue
<1>6. \A u \in Tasks : InQueue(u)' => InQueue(u)
  BY <1>3 DEF InQueue
<1>7. \A u \in Tasks : /\ InHand(u)' <=> u = t
                       /\ ToStart(u)' => InQueue(u)
                       /\ AtReceiver(u)' <=> AtReceiver(u)
                       /\ Coming("task", u)' <=> Coming("task", u)
                       /\ Coming("cancel", u)' <=> Coming("cancel", u)
  BY <1>2, <1>5, <1>6 DEF InHand, ToStart, AtReceiver, Coming
<1>8. \A u \in Tasks : Arrived(u)' => Arrived(u)
  BY <1>2, <1>5, <1>6, <1>7 DEF Arrived, TaskFile
<1>9. FramesInOrder' /\ ComingIsNew'
  BY <1>2, <1>7, <1>8 DEF OnceInv, FramesInOrder, ComingIsNew
<1>10. QueuedOnce'
  <2>1. \A i, j \in 1 .. Len(queue') : queue'[i] = queue'[j] => i = j
    <3>1. \A i \in 1 .. Len(queue') : i + 1 \in 1 .. Len(queue)
      BY <1>3
    <3>2. ASSUME NEW i \in 1 .. Len(queue'), NEW j \in 1 .. Len(queue'), queue'[i] = queue'[j]
          PROVE  i = j
      <4>1. i + 1 = j + 1
        BY <1>3, <1>4, <3>1, <3>2
      <4>2. QED
        BY <4>1
    <3>3. QED
      BY <3>2
  <2>2. \A u \in Tasks : InQueue(u)' => ~InHand(u)' /\ TaskFile(u) \notin scan'
    BY <1>2, <1>5, <1>7
  <2>3. QED
    BY <2>1, <2>2 DEF QueuedOnce, TaskFile
<1>11. QueuedIsOnDisk'
  <2>1. ASSUME NEW u \in Tasks, u \notin stopped, InQueue(u)', fate[u] = "accepted"
        PROVE  TaskFile(u) \in files'
    <3>1. TaskFile(u) \in files
      BY <1>6, <2>1 DEF OnceInv, QueuedIsOnDisk
    <3>2. u # t
      BY <1>5, <2>1
    <3>3. TaskFile(u) # TaskFile(t)
      BY <3>2 DEF TaskFile
    <3>4. QED
      BY <1>2, <3>1, <3>3
  <2>2. QED
    BY <1>2, <2>1 DEF QueuedIsOnDisk, TaskFile
<1>12. StoppedIsOut'
  <2>1. ASSUME NEW u \in stopped
        PROVE  /\ ~Coming("task", u)' /\ ~AtReceiver(u)' /\ TaskFile(u) \notin files'
               /\ ToStart(u)' => u \in marked'
    BY <1>2, <1>7 DEF StoppedIsOut, TypeOK, ToStart
  <2>2. QED
    BY <1>2, <2>1 DEF StoppedIsOut, TaskFile
<1>13. QED
  BY <1>9, <1>10, <1>11, <1>12 DEF OnceInv

\* Crash: nothing is on its way, queued or at hand any more.
LEMMA CrashOnce ==
    ASSUME TypeOK, OnceInv, StoppedIsOut, Crash
    PROVE  OnceInv' /\ StoppedIsOut'
<1>1. /\ inbound' = <<>> /\ queue' = <<>> /\ scan' = {}
      /\ processor'.stage = "idle" /\ receiver'.stage = "idle"
      /\ UNCHANGED <<offered, asked, files, stopped>>
      /\ \A u \in Tasks : fate'[u] = "accepted" => fate[u] = "accepted"
  BY IdleFacts DEF Crash
<1>2. \A u \in Tasks : /\ ~Coming("task", u)' /\ ~Coming("cancel", u)'
                       /\ ~InQueue(u)' /\ ~ToStart(u)' /\ ~AtReceiver(u)'
  BY <1>1 DEF Coming, InQueue, ToStart, InHand, AtReceiver
<1>3. \A u \in Tasks : Arrived(u)' => Arrived(u)
  BY <1>1, <1>2 DEF Arrived, InHand, TaskFile
<1>4. FramesInOrder' /\ ComingIsNew' /\ QueuedOnce' /\ QueuedIsOnDisk'
  BY <1>1, <1>2, <1>3 DEF OnceInv, FramesInOrder, ComingIsNew, QueuedOnce, QueuedIsOnDisk
<1>5. StoppedIsOut'
  BY <1>1, <1>2 DEF StoppedIsOut, TypeOK, TaskFile
<1>6. QED
  BY <1>4, <1>5 DEF OnceInv

\* A step of the processor within the work on one task is orderly: it sends at
\* most, deletes at most the file of that task, and does not go back to its start.
LEMMA WorkIsOrderly ==
    ASSUME TypeOK, OnceInv, NEW t \in Tasks, t = processor.task,
           processor.stage \notin {"idle", "flushing"},
           UNCHANGED <<inbound, offered, asked, stopped, queue, receiver, scan>>,
           Sent(t) \/ (UNCHANGED fate /\ (files' = files \/ files' = files \ {TaskFile(t)})),
           processor'.stage = "idle" \/ processor'.task = t,
           processor'.stage \in {"loaded", "begin", "announcing", "starting"} =>
               processor.stage \in {"loaded", "begin", "announcing", "starting"},
           marked' = marked \/ (processor'.stage = "idle" /\ marked' = marked \ {t})
    PROVE  Orderly
<1>1. InHand(t)
  BY DEF InHand
<1>2. ASSUME NEW u \in Tasks
      PROVE  /\ AtReceiver(u)' => AtReceiver(u)
             /\ InHand(u)' => InHand(u)
             /\ ToStart(u)' => ToStart(u)
             /\ u \in marked /\ ToStart(u)' => u \in marked'
  <2>1. InQueue(u)' <=> InQueue(u)
    BY DEF InQueue
  <2>2. InHand(u)' => u = t /\ processor'.stage # "idle"
    BY DEF InHand
  <2>3. InQueue(t) => FALSE
    BY <1>1 DEF OnceInv, QueuedOnce
  <2>4. ToStart(u)' => InQueue(u) \/ (u = t /\ processor'.stage \in {"loaded", "begin", "announcing", "starting"})
    BY <2>1, <2>2 DEF ToStart
  <2>5. ToStart(u)' => ToStart(u)
    BY <1>1, <2>4 DEF ToStart
  <2>6. u \in marked /\ ToStart(u)' => u \in marked'
    BY <2>3, <2>4
  <2>7. QED
    BY <1>1, <2>2, <2>5, <2>6 DEF AtReceiver
<1>3. ASSUME NEW u \in Tasks
      PROVE  /\ TaskFile(u) \in files' => TaskFile(u) \in files
             /\ TaskFile(u) \in files => TaskFile(u) \in files' \/ InHand(u)
             /\ fate'[u] = "accepted" => fate[u] = "accepted"
  <2>1. CASE Sent(t)
    BY <2>1 DEF Sent
  <2>2. CASE UNCHANGED fate /\ (files' = files \/ files' = files \ {TaskFile(t)})
    BY <1>1, <2>2, FileFacts DEF TaskFile
  <2>3. QED
    BY <2>1, <2>2
<1>4. QED
  BY <1>2, <1>3 DEF Orderly

\* Every step within the work on a task, and the last one, is such a step.
LEMMA ProcessorIsOrderly ==
    ASSUME TypeOK, OnceInv, HeldInv,
           \/ Begin \/ Start \/ Conclude \/ DeleteLoaded
           \/ Announce \/ InferEnd \/ ReportFailing \/ Report \/ ReportFailed
    PROVE  Orderly
<1>1. /\ processor.stage \notin {"idle", "flushing"}
      /\ UNCHANGED <<inbound, offered, asked, stopped, queue, receiver, scan>>
  BY DEF Begin, Start, Conclude, DeleteLoaded, Announce, InferEnd, ReportFailing, Report,
         ReportFailed, Stage, gateway, history
<1>2. PICK t \in Tasks : t = processor.task /\ processor.id \in {t, None}
  BY <1>1 DEF HeldInv, TasksAtHand
<1>3. CASE Begin \/ Start
  <2>1. /\ UNCHANGED <<fate, files, marked>>
        /\ processor.stage \in {"begin", "starting"}
    BY <1>3 DEF Begin, Start, Stage, history
  <2>2. PICK s \in {"refused", "cancelled", "announcing", "inferring"} : GoTo(s)
    BY <1>3 DEF Begin, Start
  <2>3. processor'.task = t
    BY <1>2, <2>2, GoToFacts DEF Stages
  <2>4. QED
    BY <1>1, <1>2, <2>1, <2>3, WorkIsOrderly
<1>4. CASE Conclude
  <2>1. /\ UNCHANGED <<fate, marked>>
        /\ files' = files \/ files' = files \ {TaskFile(t)}
    BY <1>2, <1>4 DEF Conclude, history
  <2>2. PICK s \in {"cancelled", "completed", "failing", "cancelling"} : GoTo(s)
    BY <1>4 DEF Conclude
  <2>3. s \in Stages
    BY DEF Stages
  <2>4. processor'.stage = s /\ processor'.task = t
    BY <1>2, <2>2, <2>3, GoToFacts
  <2>5. QED
    BY <1>1, <1>2, <2>1, <2>4, WorkIsOrderly
<1>5. CASE DeleteLoaded
  <2>1. processor.stage = "loaded" /\ UNCHANGED <<fate, marked>>
    BY <1>5 DEF DeleteLoaded, Stage, history
  <2>2. files' = files \ {TaskFile(t)}
    BY <1>2, <1>5, <2>1 DEF DeleteLoaded, HeldInv, FileAtHand
  <2>3. processor'.task = t
    BY <1>2, <1>5, HandleFacts, NameFacts DEF DeleteLoaded
  <2>4. QED
    BY <1>1, <1>2, <2>1, <2>2, <2>3, WorkIsOrderly
<1>6. CASE Announce
  <2>1. Sent(t) /\ UNCHANGED marked /\ processor.stage = "announcing"
    BY <1>2, <1>6, SendOfLoopFacts, NameFacts DEF Announce, Stage
  <2>2. processor'.task = t
    BY <1>2, <1>6, GoToFacts, NameFacts DEF Announce
  <2>3. QED
    BY <1>1, <1>2, <2>1, <2>2, WorkIsOrderly
<1>7. CASE InferEnd
  <2>1. UNCHANGED marked
    BY <1>7 DEF InferEnd
  <2>2. Sent(t) \/ UNCHANGED <<fate, files>>
    BY <1>2, <1>7, SendResultFacts DEF InferEnd
  <2>3. PICK s \in {"succeeded", "raised"} : GoTo(s)
    BY <1>7 DEF InferEnd
  <2>4. processor'.stage = s /\ processor'.task = t
    BY <1>2, <2>3, GoToFacts, NameFacts
  <2>5. QED
    BY <1>1, <1>2, <2>1, <2>2, <2>4, WorkIsOrderly
<1>8. CASE ReportFailing
  <2>1. Sent(t) /\ UNCHANGED marked
    BY <1>2, <1>8, SendStatusFacts, NameFacts DEF ReportFailing
  <2>2. processor'.stage = "failed" /\ processor'.task = t
    BY <1>2, <1>8, GoToFacts, NameFacts DEF ReportFailing
  <2>3. QED
    BY <1>1, <1>2, <2>1, <2>2, WorkIsOrderly
<1>9. CASE Report \/ ReportFailed
  <2>1. processor'.stage = "idle" /\ (marked' = marked \/ marked' = marked \ {t})
    <3>1. processor'.stage = "idle" /\ (marked' = marked \/ marked' = marked \ {processor.id})
      BY <1>9, IdleFacts DEF Report, ReportFailed
    <3>2. marked \ {None} = marked
      BY WorkerAssumption DEF TypeOK
    <3>3. QED
      BY <1>2, <3>1, <3>2
  <2>2. \/ \E s \in Statuses : SendStatus(t, s) \/ SendOfLoop(s)
        \/ processor.stage = "refused" /\ SendRefusal
        \/ UNCHANGED <<fate, files>>
    BY <1>2, <1>9, NameFacts DEF Report, ReportFailed, Stage
  <2>3. Sent(t) \/ UNCHANGED <<fate, files>>
    BY <1>2, <2>2, SendStatusFacts, SendOfLoopFacts, SendRefusalFacts
  <2>4. QED
    BY <1>1, <1>2, <2>1, <2>3, WorkIsOrderly
<1>10. QED
  BY <1>3, <1>4, <1>5, <1>6, <1>7, <1>8, <1>9

\* LoadFile: a task taken up from a file was in the scan, and its file is still there.
LEMMA LoadFileIsOrderly ==
    ASSUME TypeOK, NEW f \in scan, LoadFile(f)
    PROVE  Orderly
<1>1. /\ UNCHANGED <<inbound, offered, asked, stopped, queue, receiver, files, fate, marked>>
      /\ scan' \subseteq scan
  BY DEF LoadFile, gateway, history
<1>2. f \in CacheFiles /\ f.task \in Tasks \cup {None}
  BY CacheFileKinds DEF TypeOK
<1>3. ASSUME NEW u \in Tasks, InHand(u)'
      PROVE  InHand(u) \/ (TaskFile(u) \in scan /\ TaskFile(u) \in files)
  <2>1. CASE f \notin files
    BY <1>3, <2>1 DEF LoadFile, InHand
  <2>2. CASE f \in files
    <3>1. /\ processor'.stage = IF f.kind = "task" THEN "loaded" ELSE "flushing"
          /\ processor'.task = f.task
      BY <1>2, <2>2, HandleFacts, NameFacts DEF LoadFile
    <3>2. f.kind = "task" /\ u = f.task
      BY <1>3, <3>1 DEF InHand
    <3>3. f = TaskFile(u)
      BY <1>2, <3>2, CacheFileKinds
    <3>4. QED
      BY <2>2, <3>3
  <2>3. QED
    BY <2>1, <2>2
<1>4. ASSUME NEW u \in Tasks, ToStart(u)'
      PROVE  ToStart(u) \/ TaskFile(u) \in files
  <2>1. InQueue(u)' <=> InQueue(u)
    BY <1>1 DEF InQueue
  <2>2. CASE f \notin files
    BY <1>4, <2>1, <2>2 DEF LoadFile, ToStart, InHand
  <2>3. CASE f \in files
    <3>1. ~InHand(u)
      BY DEF LoadFile, Stage, InHand
    <3>2. QED
      BY <1>3, <1>4, <2>1, <3>1 DEF ToStart
  <2>4. QED
    BY <2>2, <2>3
<1>5. QED
  BY <1>1, <1>3, <1>4 DEF Orderly, AtReceiver

\* Flush: the file that goes is not a task's.
LEMMA FlushIsOrderly ==
    ASSUME TypeOK, HeldInv, Flush
    PROVE  Orderly
<1>1. /\ UNCHANGED <<inbound, offered, asked, stopped, queue, receiver, scan, marked>>
      /\ processor.stage = "flushing" /\ processor'.stage = "idle"
  BY IdleFacts DEF Flush, Stage, gateway
<1>2. /\ processor.file.kind = "res"
      /\ processor.task # None => processor.task \in Tasks
  <2>1. \/ processor.task = None /\ processor.file = NoIdFile
        \/ processor.task \in Tasks /\ \E s \in Statuses : processor.file = ResFile(processor.task, s)
    BY <1>1 DEF HeldInv, FileAtHand
  <2>2. CASE processor.task = None /\ processor.file = NoIdFile
    BY <2>2 DEF NoIdFile
  <2>3. CASE processor.task \in Tasks /\ \E s \in Statuses : processor.file = ResFile(processor.task, s)
    BY <2>3 DEF ResFile
  <2>4. QED
    BY <2>1, <2>2, <2>3
<1>3. /\ files' = files \/ files' = files \ {processor.file}
      /\ \/ UNCHANGED fate
         \/ /\ processor.task \in Tasks
            /\ \E f \in {"told", "lost"} : Settle(processor.task, processor.file.status, f)
  BY <1>2 DEF Flush
<1>4. ASSUME NEW u \in Tasks
      PROVE  /\ TaskFile(u) \in files' <=> TaskFile(u) \in files
             /\ fate'[u] = "accepted" => fate[u] = "accepted"
  <2>1. TaskFile(u) # processor.file
    BY <1>2 DEF TaskFile
  <2>2. fate'[u] = "accepted" => fate[u] = "accepted"
    BY <1>3 DEF Settle, TypeOK
  <2>3. QED
    BY <1>3, <2>1, <2>2
<1>5. ASSUME NEW u \in Tasks
      PROVE  ~InHand(u)' /\ (ToStart(u)' => ToStart(u))
  BY <1>1 DEF InHand, ToStart, InQueue
<1>6. QED
  BY <1>1, <1>4, <1>5 DEF Orderly, AtReceiver

\* The steps of the connection, of the receiver's second half and of the scan's start.
LEMMA OtherStepsAreOrderly ==
    ASSUME TypeOK, HeldInv,
           \/ LinkDown \/ Boot \/ Reconnect \/ SendQueued \/ Save \/ StartScan \/ UNCHANGED vars
    PROVE  Orderly
<1>1. /\ UNCHANGED <<offered, asked, stopped, queue, processor, marked>>
      /\ inbound' = inbound \/ inbound' = <<>>
      /\ scan' = scan \/ (queue = <<>> /\ scan' = files)
  BY DEF LinkDown, Boot, Reconnect, SendQueued, Save, StartScan, vars, gateway, memory, history
<1>2. ASSUME NEW u \in Tasks
      PROVE  /\ InHand(u)' <=> InHand(u)
             /\ ToStart(u)' <=> ToStart(u)
  BY <1>1 DEF InHand, ToStart, InQueue
<1>3. CASE LinkDown \/ Boot \/ StartScan \/ UNCHANGED vars
  <2>1. UNCHANGED <<receiver, files, fate>>
    BY <1>3 DEF LinkDown, Boot, StartScan, vars, history
  <2>2. QED
    BY <1>1, <1>2, <2>1 DEF Orderly, AtReceiver
<1>4. CASE Reconnect
  <2>1. /\ receiver'.stage = "idle" /\ UNCHANGED fate
        /\ \/ UNCHANGED files
           \/ receiver.stage = "saving" /\ files' = files \cup {TaskFile(receiver.task)}
    BY <1>4, IdleFacts DEF Reconnect, history
  <2>2. ASSUME NEW u \in Tasks, TaskFile(u) \in files'
        PROVE  TaskFile(u) \in files \/ AtReceiver(u)
    BY <2>1, <2>2 DEF AtReceiver, TaskFile
  <2>3. QED
    BY <1>1, <1>2, <2>1, <2>2 DEF Orderly, AtReceiver
<1>5. CASE SendQueued
  <2>1. PICK t \in Tasks : t = receiver.task
    BY <1>5 DEF SendQueued, HeldInv, TasksAtHand
  <2>2. Sent(t)
    BY <1>5, <2>1, SendStatusFacts, NameFacts DEF SendQueued
  <2>3. receiver'.task = t /\ receiver.stage # "idle"
    BY <1>5, <2>1 DEF SendQueued, TypeOK
  <2>4. \A u \in Tasks : AtReceiver(u)' => AtReceiver(u)
    BY <2>1, <2>3 DEF AtReceiver
  <2>5. QED
    BY <1>1, <1>2, <2>2, <2>4 DEF Orderly, Sent
<1>6. CASE Save
  <2>1. PICK t \in Tasks : t = receiver.task /\ AtReceiver(t)
    BY <1>6 DEF Save, HeldInv, TasksAtHand, AtReceiver
  <2>2. /\ receiver'.stage = "idle" /\ files' = files \cup {TaskFile(t)}
        /\ fate' = fate \/ fate' = [fate EXCEPT ![t] = "accepted"]
    BY <1>6, <2>1, IdleFacts DEF Save, Accepted
  <2>3. ASSUME NEW u \in Tasks
        PROVE  /\ TaskFile(u) \in files' => TaskFile(u) \in files \/ AtReceiver(u)
               /\ fate'[u] = "accepted" => fate[u] = "accepted" \/ (AtReceiver(u) /\ TaskFile(u) \in files')
    <3>1. CASE u = t
      BY <2>1, <2>2, <3>1
    <3>2. CASE u # t
      BY <2>2, <3>2 DEF TaskFile, TypeOK
    <3>3. QED
      BY <3>1, <3>2
  <2>4. QED
    BY <1>1, <1>2, <2>2, <2>3 DEF Orderly, AtReceiver
<1>7. QED
  BY <1>3, <1>4, <1>5, <1>6

-----------------------------------------------------------------------------
(* What process_loop refuses: RefusalInv                                    *)

\* The processor takes up a task or a file.
TakesUp ==
    \E u \in Tasks \cup {None}, i \in Tasks \cup {None}, f \in CacheFiles \cup {None},
       s \in {"begin", "loaded", "flushing"} : Handle(u, i, s, f)

\* The ways the processor moves: a task is refused and an inference starts only
\* in Begin and Start.
LEMMA ProcessorMoves ==
    ASSUME TypeOK, HeldInv, [Next]_vars
    PROVE  \/ Begin \/ Start \/ UNCHANGED processor \/ processor' = Idle
           \/ \E s \in Stages \ {"inferring", "refused"} : GoTo(s)
           \/ TakesUp
<1>1. CASE \/ \E u \in Tasks : Offer(u) \/ AskToCancel(u) \/ ReceiveTask(u) \/ ReceiveCancel(u)
           \/ LinkDown \/ Boot \/ Reconnect \/ SendQueued \/ Save \/ StartScan \/ UNCHANGED vars
  BY <1>1 DEF Offer, AskToCancel, ReceiveTask, ReceiveCancel, LinkDown, Boot, Reconnect,
              SendQueued, Save, StartScan, vars, memory
<1>2. CASE Crash \/ Flush \/ Report \/ ReportFailed
  BY <1>2 DEF Crash, Flush, Report, ReportFailed
<1>3. CASE Conclude \/ Announce \/ InferEnd \/ ReportFailing
  BY <1>3, NameFacts DEF Conclude, Announce, InferEnd, ReportFailing
<1>4. CASE Take
  <2>1. Head(queue) \in Tasks
    BY <1>4 DEF Take, TypeOK
  <2>2. QED
    BY <1>4, <2>1 DEF Take, TakesUp
<1>5. CASE DeleteLoaded
  <2>1. processor.task \in Tasks /\ processor.id \in Tasks \cup {None}
    BY <1>5 DEF DeleteLoaded, Stage, HeldInv, TasksAtHand
  <2>2. QED
    BY <1>5, <2>1 DEF DeleteLoaded, TakesUp
<1>6. ASSUME NEW f \in scan, LoadFile(f)
      PROVE  UNCHANGED processor \/ TakesUp
  <2>1. f \in CacheFiles /\ f.task \in Tasks \cup {None}
    BY CacheFileKinds DEF TypeOK
  <2>2. QED
    BY <1>6, <2>1 DEF LoadFile, TakesUp
<1>7. QED
  BY <1>1, <1>2, <1>3, <1>4, <1>5, <1>6 DEF Next, ReceiverStep, ProcessorStep

\* A task becomes untold only by a refusal of it.
LEMMA UntoldFacts ==
    ASSUME TypeOK, HeldInv, [Next]_vars, NEW t \in Tasks, fate'[t] = "untold"
    PROVE  fate[t] = "untold" \/ (processor.stage = "refused" /\ processor.task = t)
<1>1. CASE UNCHANGED fate
  BY <1>1
<1>2. CASE \E u \in Tasks : Sent(u)
  BY <1>2 DEF Sent
<1>3. CASE Crash \/ Save
  BY <1>3 DEF Crash, Save, Accepted, TypeOK
<1>4. CASE Flush
  <2>1. UNCHANGED fate \/ \E f \in {"told", "lost"} : Settle(processor.task, processor.file.status, f)
    BY <1>4 DEF Flush
  <2>2. QED
    BY <2>1 DEF Settle, TypeOK
<1>5. CASE SendQueued
  BY <1>2, <1>5, SendStatusFacts, NameFacts DEF SendQueued, HeldInv, TasksAtHand
<1>6. CASE Announce \/ InferEnd \/ ReportFailing \/ Report \/ ReportFailed
  <2>1. processor.task \in Tasks /\ processor.id \in {processor.task, None}
    BY <1>6 DEF Announce, InferEnd, ReportFailing, Report, ReportFailed, Stage, HeldInv, TasksAtHand
  <2>2. \/ UNCHANGED fate
        \/ SendResult(processor.task)
        \/ \E s \in Statuses : SendStatus(processor.task, s) \/ SendOfLoop(s)
        \/ processor.stage = "refused" /\ SendRefusal
    BY <1>6, NameFacts DEF Announce, InferEnd, ReportFailing, Report, ReportFailed, Stage
  <2>3. UNCHANGED fate \/ Sent(processor.task)
    BY <2>1, <2>2, SendResultFacts, SendStatusFacts, SendOfLoopFacts, SendRefusalFacts
  <2>4. QED
    BY <1>1, <1>2, <2>1, <2>3
<1>7. CASE \/ \E u \in Tasks : Offer(u) \/ AskToCancel(u) \/ ReceiveTask(u) \/ ReceiveCancel(u)
           \/ LinkDown \/ Boot \/ Reconnect \/ StartScan \/ UNCHANGED vars
           \/ Take \/ Begin \/ Start \/ Conclude \/ DeleteLoaded
           \/ \E f \in scan : LoadFile(f)
  <2>1. UNCHANGED fate
    BY <1>7 DEF Offer, AskToCancel, ReceiveTask, ReceiveCancel, LinkDown, Boot, Reconnect,
                StartScan, vars, history, Take, Begin, Start, Conclude, DeleteLoaded, LoadFile
  <2>2. QED
    BY <1>1, <2>1
<1>8. QED
  BY <1>3, <1>4, <1>5, <1>6, <1>7 DEF Next, ReceiverStep, ProcessorStep

\* What is refused has a reason, and so has what is untold.
LEMMA RefusalStep ==
    ASSUME TypeOK, HeldInv, RefusalInv, [Next]_vars
    PROVE  RefusalInv'
<1>1. UntoldIsRefused'
  BY UntoldFacts DEF RefusalInv, UntoldIsRefused, RefusedHasReason
<1>2. CASE Begin \/ Start
  <2>1. PICK s \in Stages : GoTo(s) /\ (s = "refused" => processor.task \in Foreign \cup Malformed)
    BY <1>2, NameFacts DEF Begin, Start
  <2>2. processor'.stage = s /\ processor'.task = processor.task
    BY <2>1, GoToFacts
  <2>3. QED
    BY <1>1, <2>1, <2>2 DEF RefusalInv, RefusedHasReason
<1>3. CASE UNCHANGED processor
  BY <1>1, <1>3 DEF RefusalInv, RefusedHasReason
<1>4. CASE processor' = Idle
  BY <1>1, <1>4, IdleFacts DEF RefusalInv, RefusedHasReason
<1>5. CASE \E s \in Stages \ {"inferring", "refused"} : GoTo(s)
  BY <1>1, <1>5, GoToFacts DEF RefusalInv, RefusedHasReason
<1>6. CASE TakesUp
  BY <1>1, <1>6, HandleFacts, NameFacts DEF TakesUp, RefusalInv, RefusedHasReason
<1>7. QED
  BY <1>2, <1>3, <1>4, <1>5, <1>6, ProcessorMoves

-----------------------------------------------------------------------------
\* No step of the worker, of its connection or of its crashes leaves IInv.
LEMMA InductiveStep == TypeOK /\ IInv /\ [Next]_vars => IInv'
<1> SUFFICES ASSUME TypeOK, IInv, [Next]_vars
             PROVE  IInv'
  OBVIOUS
<1>1. HeldInv' /\ RefusalInv'
  BY HeldStep, RefusalStep DEF IInv
<1>2. CASE Orderly
  BY <1>1, <1>2, OrderlyStep DEF IInv
<1>3. ASSUME NEW t \in Tasks, Offer(t) \/ AskToCancel(t) \/ ReceiveTask(t) \/ ReceiveCancel(t)
      PROVE  IInv'
  BY <1>1, <1>3, GatewayStep, ReceiveTaskOnce, ReceiveCancelOnce DEF IInv
<1>4. CASE Take \/ Crash
  BY <1>1, <1>4, TakeOnce, CrashOnce DEF IInv
<1>5. CASE \/ LinkDown \/ Boot \/ Reconnect \/ SendQueued \/ Save \/ StartScan \/ UNCHANGED vars
           \/ Begin \/ Start \/ Conclude \/ DeleteLoaded
           \/ Announce \/ InferEnd \/ ReportFailing \/ Report \/ ReportFailed
           \/ Flush
           \/ \E f \in scan : LoadFile(f)
  <2>1. Orderly
    BY <1>5, OtherStepsAreOrderly, ProcessorIsOrderly, FlushIsOrderly, LoadFileIsOrderly DEF IInv
  <2>2. QED
    BY <1>2, <2>1
<1>6. QED
  BY <1>3, <1>4, <1>5 DEF Next, ReceiverStep, ProcessorStep

\* IInv holds in every reachable state of the worker.
THEOREM InductiveInvariant == Spec => []IInv
<1>1. Init => IInv
  <2> SUFFICES ASSUME Init PROVE IInv
    OBVIOUS
  <2>1. HeldInv
    BY IdleFacts DEF Init, HeldInv, TasksAtHand, FileAtHand, EndsAreDecided, AcceptedHasPlace,
                     KeptIsOnDisk
  <2>2. OnceInv
    BY IdleFacts DEF Init, OnceInv, FramesInOrder, ComingIsNew, QueuedOnce, QueuedIsOnDisk,
                     Coming, Arrived, AtReceiver, InQueue, InHand
  <2>3. StoppedIsOut
    BY DEF Init, StoppedIsOut
  <2>4. RefusalInv
    BY IdleFacts DEF Init, RefusalInv, UntoldIsRefused, RefusedHasReason
  <2>5. QED
    BY <2>1, <2>2, <2>3, <2>4 DEF IInv
<1>2. QED
  BY <1>1, TypeCorrect, InductiveStep, PTL DEF Spec

\* An accepted task is in the queue, at the processor or in a cache file until
\* its end is known, whatever the queue drops and wherever a crash strikes; only
\* one that process_loop refuses can end untold.
THEOREM AcceptedIsHeldHolds == Spec => []AcceptedIsHeld
<1>1. IInv => AcceptedIsHeld
  BY DEF IInv, HeldInv, RefusalInv, AcceptedIsHeld
<1>2. QED
  BY <1>1, InductiveInvariant, PTL

\* An end that is kept waits in a res_ file until it is sent.
THEOREM KeptIsOnDiskHolds == Spec => []KeptIsOnDisk
<1>1. IInv => KeptIsOnDisk
  BY DEF IInv, HeldInv
<1>2. QED
  BY <1>1, InductiveInvariant, PTL

\* Inference starts in one step only, and there the mark is read.
LEMMA StartFacts ==
    ASSUME TypeOK, HeldInv, [Next]_vars, NEW t \in Tasks, Starts(t)
    PROVE  ToStart(t) /\ t \notin marked
<1>1. CASE Start
  <2>1. processor.stage = "starting" /\ processor'.stage = "inferring"
    BY <1>1 DEF Start, Stage, Starts
  <2>2. PICK s \in Stages : GoTo(s) /\ (s = "inferring" => processor.task \notin marked)
    BY <1>1, NameFacts DEF Start
  <2>3. processor'.task = processor.task /\ processor'.stage = s
    BY <2>2, GoToFacts
  <2>4. QED
    BY <2>1, <2>2, <2>3 DEF Starts, ToStart, InHand
<1>2. CASE UNCHANGED processor
  BY <1>2 DEF Starts
<1>3. CASE processor' = Idle
  BY <1>3, IdleFacts DEF Starts
<1>4. CASE \E s \in Stages \ {"inferring", "refused"} : GoTo(s)
  BY <1>4, GoToFacts DEF Starts
<1>5. CASE Begin
  <2>1. PICK s \in Stages \ {"inferring"} : GoTo(s)
    BY <1>5, NameFacts DEF Begin
  <2>2. QED
    BY <2>1, GoToFacts DEF Starts
<1>6. CASE TakesUp
  BY <1>6, HandleFacts, NameFacts DEF TakesUp, Starts
<1>7. QED
  BY <1>1, <1>2, <1>3, <1>4, <1>5, <1>6, ProcessorMoves

\* Once its cancel message is handled, no inference of a task starts: not from
\* the queue, not from a late cache file, not after a restart without marks.
THEOREM CancelledNeverStartsHolds == Spec => CancelledNeverStarts
<1>1. TypeOK /\ IInv /\ [Next]_vars => [\A t \in stopped : ~Starts(t)]_vars
  <2> SUFFICES ASSUME TypeOK, IInv, [Next]_vars, NEW t \in stopped, Starts(t)
               PROVE  FALSE
    OBVIOUS
  <2>1. t \in Tasks
    BY DEF TypeOK
  <2>2. ToStart(t) /\ t \notin marked
    BY <2>1, StartFacts DEF IInv
  <2>3. QED
    BY <2>2 DEF IInv, StoppedIsOut
<1>2. QED
  BY <1>1, TypeCorrect, InductiveInvariant, PTL DEF Spec, CancelledNeverStarts
=============================================================================
