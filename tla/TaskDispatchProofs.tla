------------------------- MODULE TaskDispatchProofs -------------------------
(***************************************************************************)
(* Theorems about TaskDispatch, for any services, facts, tasks, requests   *)
(* and bounds.                                                             *)
(***************************************************************************)
EXTENDS TaskDispatch, SequenceTheorems, TLAPS

Out == {"sent", "returning", "done"}
OnUplink(x, f) == \E i \in DOMAIN uplink[x] : uplink[x][i] = f
Keeps(x, t) == \E k \in kept[x] : k.task = t

(* A task is known to one service at most, the one it was sent to, and only  *)
(* when the send has returned.                                               *)
OutOnly ==
    /\ \A t \in Tasks : create[t].stage \in {"picked", "sending", "stranded", "sent"}
                          => Target(t) \in Services
    /\ \A t \in Tasks : create[t].stage \in {"none", "created"} => Target(t) = None
    /\ \A t \in Tasks : job[t].stage # "none" \/ job[t].made # 0
                          => create[t].stage \in Out /\ Target(t) \in Services
    /\ \A t \in Tasks, x \in Services :
         Down(x, Task(t)) \/ Up(x, t) \/ Keeps(x, t) => create[t].stage \in Out /\ Target(t) = x
    /\ \A t \in Tasks : dispatched[t] \in {None, Target(t)}

(* It is sent once. *)
SentOnce ==
    /\ \A t \in Tasks, x \in Services : Down(x, Task(t)) => job[t].stage = "none"
    /\ \A x \in Services : \A i, j \in DOMAIN downlink[x] :
         downlink[x][i].type = "task" /\ downlink[x][i] = downlink[x][j] => i = j

(* The row leaves `pending` with the first frame about the task. *)
PendingIsComing ==
    /\ \A x \in Services : handler[x] # NoFrame => status[handler[x].task] # "pending"
    /\ \A t \in Tasks : create[t].stage = "failing" => status[t] # "pending"
    /\ \A t \in Tasks : create[t].stage \in Out /\ status[t] = "pending" /\ Target(t) # None
         => t \in disturbed \/ Down(Target(t), Task(t)) \/ t \in About(uplink[Target(t)])

(* File k of t is recorded, or will be before frame n + 1 of x is handled. *)
IsFile(f, t, k) == f.type = "result" /\ f.task = t /\ f.index = k
RecordedBy(x, t, k, n) == k \in files[t] \/ \E j \in 1 .. n : IsFile(uplink[x][j], t, k)

FilesComeFirst ==
    /\ \A x \in Services : \A k \in kept[x] : k.task \in disturbed
    /\ \A t \in Tasks : \A k \in 1 .. job[t].made :
         t \in disturbed \/ RecordedBy(Target(t), t, k, Len(uplink[Target(t)]))
    /\ \A x \in Services, t \in Tasks : \A i \in 1 .. Len(uplink[x]) :
         uplink[x][i] = StatusOf(t, "completed") /\ t \notin disturbed
           => \A k \in All : RecordedBy(x, t, k, i - 1)

(* The last frame about a task says its end, or has said it. *)
IsEnd(f, t) == f.type = "status" /\ f.task = t /\ f.status \in Terminal
EndIsLast(t) ==
    LET up == uplink[Target(t)]
    IN \/ Final(t) /\ t \notin About(up)
       \/ \E i \in DOMAIN up : IsEnd(up[i], t) /\ \A j \in DOMAIN up : up[j].task = t => j <= i

EndIsComing ==
    /\ \A t \in Tasks : create[t].stage = "failing" => Final(t)
    /\ \A t \in Tasks : create[t].stage \in Out /\ Target(t) # None =>
         \/ t \in disturbed \/ Down(Target(t), Task(t)) \/ job[t].stage \in {"accepted", "running"}
         \/ EndIsLast(t)

(* What pick_service asks of a service, and of any it does not fall back to. *)
Serves(t, x) == Facts[x].task /\ Facts[x].kind = Request[t].kind
Suits(t, x)  == Serves(t, x) /\ (Request[t].kind = Audio => Declares(x, Request[t].load))

(* A signal is sent to every service seen up that could have the task, unless  *)
(* another one is known to have it; it stays there until the task has ended.   *)
SignalStays ==
    /\ \A t \in Tasks : Target(t) # None => Serves(t, Target(t))
    /\ \A t \in Tasks : cancel[t].stage \in {"looked", "signalled"} =>
         \A x \in cancel[t].seen :
            Suits(t, x) => x \in cancel[t].targets \/ Target(t) \notin {None, x}
    /\ \A t \in Tasks : cancel[t].stage = "signalled" => \A x \in cancel[t].targets :
         t \in marked[x] \/ Down(x, CancelOf(t)) \/ t \in disturbed \/ job[t].stage = "ended"

(* A tool that has missed nothing. *)
Listens(t) == tool[t] \in {"none", "waiting"} /\ t \notin early \cup disturbed
Coming(x, f) == OnUplink(x, f) \/ handler[x] = f
FileComing(t, k) == \E f \in Upward : IsFile(f, t, k) /\ Coming(Target(t), f)
EndComing(t) == \E s \in {"failed", "cancelled"} : Coming(Target(t), StatusOf(t, s))

ToolIsTold ==
    /\ \A t \in Tasks : tool[t] # "none" => create[t].stage = "done"
    /\ \A t \in Tasks : tool[t] \in {"none", "waiting"} => collected[t] # All
    /\ \A t \in Tasks : Listens(t) =>
         /\ create[t].stage \in Out /\ Target(t) # None => Down(Target(t), Task(t)) \/ job[t].stage # "none"
         /\ \A k \in 1 .. job[t].made : k \in collected[t] \/ FileComing(t, k)
         /\ job[t].stage = "ended" => job[t].made = Total \/ EndComing(t)

IInv == /\ TypeOK /\ OutOnly /\ SentOnce /\ PendingIsComing
        /\ CompletedHasFiles /\ FilesComeFirst /\ EndIsComing /\ SignalStays /\ ToolIsTold
-----------------------------------------------------------------------------
(* Sequences                                                                *)

\* What Append, Tail and a prefix hold.
LEMMA AppendFacts ==
    ASSUME NEW S, NEW s \in Seq(S), NEW e \in S
    PROVE  /\ Append(s, e) \in Seq(S)
           /\ DOMAIN Append(s, e) = DOMAIN s \cup {Len(s) + 1}
           /\ \A i \in DOMAIN s : Append(s, e)[i] = s[i]
           /\ Append(s, e)[Len(s) + 1] = e
           /\ Len(Append(s, e)) = Len(s) + 1
  OBVIOUS

LEMMA TailFacts ==
    ASSUME NEW S, NEW s \in Seq(S), s # <<>>
    PROVE  /\ Tail(s) \in Seq(S) /\ Head(s) = s[1] /\ Head(s) \in S
           /\ 1 \in DOMAIN s
           /\ Len(Tail(s)) = Len(s) - 1
           /\ \A i \in DOMAIN Tail(s) : i + 1 \in DOMAIN s /\ Tail(s)[i] = s[i + 1]
           /\ \A i \in DOMAIN s : i = 1 \/ (i - 1 \in DOMAIN Tail(s) /\ Tail(s)[i - 1] = s[i])
  OBVIOUS

LEMMA PrefixFacts ==
    ASSUME NEW S, NEW s \in Seq(S), NEW n \in 0 .. Len(s)
    PROVE  /\ SubSeq(s, 1, n) \in Seq(S)
           /\ Len(SubSeq(s, 1, n)) = n
           /\ DOMAIN SubSeq(s, 1, n) = 1 .. n
           /\ \A i \in 1 .. n : SubSeq(s, 1, n)[i] = s[i]
           /\ \A i \in DOMAIN s : i <= n \/ s[i] \in {SubSeq(s, n + 1, Len(s))[j] : j \in DOMAIN SubSeq(s, n + 1, Len(s))}
<1>1. \A i \in 1 .. n : s[i] \in S
  OBVIOUS
<1>2. /\ SubSeq(s, 1, n) \in Seq(S)
      /\ Len(SubSeq(s, 1, n)) = n
      /\ \A i \in 1 .. n : SubSeq(s, 1, n)[i] = s[i]
  BY <1>1, SubSeqProperties
<1>3. ASSUME NEW i \in DOMAIN s, ~(i <= n)
      PROVE  \E j \in DOMAIN SubSeq(s, n + 1, Len(s)) : SubSeq(s, n + 1, Len(s))[j] = s[i]
  <2>1. /\ SubSeq(s, n + 1, Len(s)) \in Seq(S)
        /\ Len(SubSeq(s, n + 1, Len(s))) = Len(s) - n
        /\ \A j \in 1 .. Len(s) - n : SubSeq(s, n + 1, Len(s))[j] = s[n + j]
    <3>1. \A j \in (n + 1) .. Len(s) : s[j] \in S
      OBVIOUS
    <3>2. QED
      BY <3>1, <1>3, SubSeqProperties
  <2>2. i - n \in 1 .. Len(s) - n /\ n + (i - n) = i
    BY <1>3
  <2>3. i - n \in DOMAIN SubSeq(s, n + 1, Len(s))
    BY <2>1, <2>2
  <2>4. SubSeq(s, n + 1, Len(s))[i - n] = s[i]
    BY <2>1, <2>2
  <2>5. QED
    BY <2>3, <2>4
<1>4. QED
  BY <1>2, <1>3
-----------------------------------------------------------------------------
(* Frames, and what the parts of several actions do                         *)

\* What a frame on the way up holds.
LEMMA FrameFacts ==
    /\ \A t \in Tasks, s \in Statuses : StatusOf(t, s) \in Upward
    /\ \A t \in Tasks, i \in All : ResultOf(t, i) \in Upward
    /\ \A f \in Upward : /\ f # NoFrame /\ f.task \in Tasks /\ f.status \in Statuses
                         /\ f.type = "status" => f = StatusOf(f.task, f.status)
                         /\ f.type = "result" => f.index \in All
    /\ \A f \in Upward, s \in Statuses : f.type = "result" =>
         /\ [f EXCEPT !.status = s] \in Upward
         /\ [f EXCEPT !.status = s].type = "result"
         /\ [f EXCEPT !.status = s].task = f.task
         /\ [f EXCEPT !.status = s].index = f.index
         /\ [f EXCEPT !.status = s].status = s
<1>1. \A i \in All : (IF i = Total THEN "completed" ELSE "processing") \in Statuses
  BY DEF Statuses
<1>2. QED
  BY <1>1, DispatchAssumption DEF Upward, StatusOf, ResultOf, NoFrame, All

LEMMA DownFrameFacts ==
    \A t \in Tasks : /\ Task(t) \in Downward /\ Task(t).type = "task" /\ Task(t).task = t
                     /\ CancelOf(t) \in Downward /\ CancelOf(t).type = "cancel" /\ CancelOf(t).task = t
  BY DEF Downward, Task, CancelOf

\* Only frames of the wire are about tasks.
LEMMA AboutFacts ==
    ASSUME TypeOK, NEW x \in Services
    PROVE  About(downlink[x]) \subseteq Tasks /\ About(uplink[x]) \subseteq Tasks
<1>1. \A i \in DOMAIN downlink[x] : downlink[x][i] \in Downward
  BY DEF TypeOK
<1>2. \A i \in DOMAIN uplink[x] : uplink[x][i] \in Upward
  BY DEF TypeOK
<1>3. QED
  BY <1>1, <1>2, FrameFacts DEF About, Downward

\* A message for the tool changes only the tool, or is missed.
LEMMA DeliverFacts ==
    ASSUME TypeOK, NEW f \in Upward, Deliver(f)
    PROVE  /\ tool' \in [Tasks -> ToolStages]
           /\ collected' \in [Tasks -> SUBSET All]
           /\ early' \subseteq Tasks
<1>1. f.task \in Tasks /\ (f.type = "result" => {f.index} \subseteq All)
  BY FrameFacts
<1>2. \A have : Told(f, have) \in {"waiting", "completed", "failed", "cancelled"}
  BY FrameFacts DEF Told, Upward
<1>3. CASE tool[f.task] = "waiting"
  <2>1. PICK have \in SUBSET All :
          /\ collected' = [collected EXCEPT ![f.task] = have]
          /\ tool' = [tool EXCEPT ![f.task] = Told(f, have)]
          /\ UNCHANGED early
    <3>1. collected[f.task] \cup (IF f.type = "result" THEN {f.index} ELSE {}) \in SUBSET All
      BY <1>1 DEF TypeOK
    <3>2. QED
      BY <1>3, <3>1 DEF Deliver
  <2>2. Told(f, have) \in ToolStages
    BY <1>2 DEF ToolStages
  <2>3. QED
    BY <1>1, <2>1, <2>2 DEF TypeOK
<1>4. CASE tool[f.task] # "waiting"
  BY <1>1, <1>4 DEF Deliver, TypeOK, agent
<1>5. QED
  BY <1>3, <1>4

\* A frame is on the wire, or its task is disturbed and what is kept is about it.
LEMMA EmitFacts ==
    ASSUME TypeOK, NEW x \in Services, NEW f \in Upward, Emit(x, f)
    PROVE  /\ uplink' \in [Services -> Seq(Upward)] /\ link' \in [Services -> {"up", "broken", "down"}]
           /\ kept' \in [Services -> SUBSET KeptFiles]
           /\ disturbed' \subseteq Tasks
           /\ \/ /\ uplink' = [uplink EXCEPT ![x] = Append(@, f)]
                 /\ kept' = kept /\ disturbed' = disturbed
              \/ /\ uplink' = uplink /\ disturbed' = disturbed \cup {f.task}
                 /\ \A y \in Services : \A k \in kept'[y] : k \in kept[y] \/ (y = x /\ k.task = f.task)
<1>1. f.task \in Tasks /\ f.status \in Statuses
  BY FrameFacts
<1>2. CASE link[x] = "up"
  <2>1. uplink' = [uplink EXCEPT ![x] = Append(@, f)] /\ UNCHANGED <<link, kept, disturbed>>
    BY <1>2 DEF Emit
  <2>2. Append(uplink[x], f) \in Seq(Upward)
    BY AppendFacts DEF TypeOK
  <2>3. QED
    BY <2>1, <2>2 DEF TypeOK
<1>3. CASE link[x] # "up"
  <2>1. /\ link' = [link EXCEPT ![x] = "down"] /\ disturbed' = disturbed \cup {f.task}
        /\ uplink' = uplink
        /\ \/ kept' = [kept EXCEPT ![x] = @ \cup {[task |-> f.task, status |-> f.status]}]
           \/ kept' = kept
    BY <1>3 DEF Emit
  <2>2. PICK r \in KeptFiles : /\ r.task = f.task
                             /\ (kept' = [kept EXCEPT ![x] = @ \cup {r}] \/ kept' = kept)
    <3> DEFINE r == [task |-> f.task, status |-> f.status]
    <3>1. r \in KeptFiles /\ r.task = f.task
      BY <1>1 DEF KeptFiles
    <3>2. kept' = [kept EXCEPT ![x] = @ \cup {r}] \/ kept' = kept
      BY <2>1
    <3> HIDE DEF r
    <3>3. QED
      BY <3>1, <3>2
  <2>3. /\ kept' \in [Services -> SUBSET KeptFiles]
        /\ \A y \in Services : \A k \in kept'[y] : k \in kept[y] \/ (y = x /\ k.task = f.task)
    <3>1. kept \in [Services -> SUBSET KeptFiles]
      BY DEF TypeOK
    <3>2. CASE kept' = kept
      BY <3>1, <3>2
    <3>3. CASE kept' = [kept EXCEPT ![x] = @ \cup {r}]
      BY <2>2, <3>1, <3>3
    <3>4. QED
      BY <2>2, <3>2, <3>3
  <2>4. link' \in [Services -> {"up", "broken", "down"}]
    BY <2>1 DEF TypeOK
  <2>5. QED
    BY <1>1, <2>1, <2>3, <2>4 DEF TypeOK
<1>4. QED
  BY <1>2, <1>3

\* The coroutine of _create_task is at another stage.
LEMMA GoesFacts ==
    ASSUME create \in [Tasks -> Creations], NEW t \in Tasks, NEW s \in CreateStages, CreateGoes(t, s)
    PROVE  /\ create' \in [Tasks -> Creations]
           /\ create'[t].stage = s /\ create'[t].target = create[t].target
           /\ \A u \in Tasks \ {t} : create'[u] = create[u]
  BY DEF CreateGoes, Creations

LEMMA JobGoesFacts ==
    ASSUME job \in [Tasks -> Jobs], NEW t \in Tasks, NEW s \in {"accepted", "running", "ended"},
           JobGoes(t, s)
    PROVE  /\ job' \in [Tasks -> Jobs]
           /\ job'[t].stage = s /\ job'[t].made = job[t].made
           /\ \A u \in Tasks \ {t} : job'[u] = job[u]
  BY DEF JobGoes, Jobs
-----------------------------------------------------------------------------
(* What a step does to the coroutine of _create_task                        *)

Moved(t, from, to) ==
    create[t].stage \in from /\ create'[t].stage = to /\ create'[t].target = create[t].target

CreateMoves(t) ==
    \/ create'[t] = create[t]
    \/ \E s \in {"created", "returning", "refused"} : Moved(t, {"none"}, s)
    \/ /\ create[t].stage = "created" /\ create'[t].stage = "picked"
       /\ create'[t].target \in Services /\ Serves(t, create'[t].target)
    \/ Moved(t, {"picked"}, "sending") \/ Moved(t, {"sending"}, "stranded")
    \/ Moved(t, {"created", "picked", "sending", "stranded"}, "failing") /\ status'[t] = "failed"
    \/ /\ Moved(t, {"sending"}, "sent")
       /\ Target(t) \in Services =>
            downlink'[Target(t)] = Append(downlink[Target(t)], Task(t)) \/ t \in disturbed'
    \/ Moved(t, {"sent"}, "returning")
    \/ Moved(t, {"failing"}, "returning") /\ (t \in early' \/ tool[t] # "none")
    \/ Moved(t, {"returning"}, "done")

\* list_services returns only services that serve the request.
LEMMA ListedServe ==
    ASSUME NEW t \in Tasks, running \subseteq Services, connected \subseteq Services,
           NEW x \in ListServices(running, connected, Request[t])
    PROVE  x \in Services /\ Serves(t, x)
  BY DispatchAssumption DEF ListServices, Preferred, Eligible, Serves

LEMMA StageNames ==
    {"none", "created", "picked", "sending", "stranded", "sent", "failing", "returning", "done",
     "refused"} = CreateStages
  BY DEF CreateStages

\* One coroutine moves to another stage.
LEMMA OneMoves ==
    ASSUME create \in [Tasks -> Creations], NEW t \in Tasks, NEW s \in CreateStages, CreateGoes(t, s),
           Moved(t, {create[t].stage}, s) => CreateMoves(t)
    PROVE  create' \in [Tasks -> Creations] /\ \A u \in Tasks : CreateMoves(u)
<1>1. /\ create' \in [Tasks -> Creations]
      /\ create'[t].stage = s /\ create'[t].target = create[t].target
      /\ \A u \in Tasks \ {t} : create'[u] = create[u]
  BY GoesFacts
<1>2. QED
  BY <1>1 DEF CreateMoves, Moved

LEMMA StrandFacts ==
    ASSUME create \in [Tasks -> Creations], NEW x \in Services, Strand(x)
    PROVE  create' \in [Tasks -> Creations] /\ \A u \in Tasks : CreateMoves(u)
<1>1. ASSUME NEW u \in Tasks
      PROVE  create'[u] \in Creations /\ CreateMoves(u)
  <2>1. create'[u] = create[u] \/ (AtCreate(u, "sending") /\ create'[u] = [create[u] EXCEPT !.stage = "stranded"])
    BY DEF Strand
  <2>2. [create[u] EXCEPT !.stage = "stranded"] \in Creations
        /\ [create[u] EXCEPT !.stage = "stranded"].stage = "stranded"
        /\ [create[u] EXCEPT !.stage = "stranded"].target = create[u].target
    BY StageNames DEF Creations
  <2>3. QED
    BY <2>1, <2>2 DEF CreateMoves, Moved, AtCreate
<1>2. create' = [u \in Tasks |-> create'[u]]
  BY DEF Strand
<1>3. QED
  BY <1>1, <1>2

LEMMA CreateStep ==
    ASSUME TypeOK, [Next]_vars
    PROVE  create' \in [Tasks -> Creations] /\ \A u \in Tasks : CreateMoves(u)
<1> DEFINE Goal == create' \in [Tasks -> Creations] /\ \A u \in Tasks : CreateMoves(u)
<1>0. create \in [Tasks -> Creations]
  BY DEF TypeOK
<1>1. ASSUME NEW t \in Tasks, CreateTask(t) \/ CreateUnsent(t)
      PROVE  Goal
  <2>1. PICK s \in {"created", "returning", "refused"} : CreateGoes(t, s) /\ AtCreate(t, "none")
    BY <1>1 DEF CreateTask, CreateUnsent
  <2>2. QED
    BY <1>0, <2>1, StageNames, OneMoves DEF CreateMoves, Moved, AtCreate
<1>2. ASSUME NEW t \in Tasks, Fail(t), create[t].stage \in {"created", "picked", "sending", "stranded"}
      PROVE  Goal
  <2>1. status'[t] = "failed" /\ CreateGoes(t, "failing")
    BY <1>2 DEF Fail, TypeOK
  <2>2. QED
    BY <1>0, <1>2, <2>1, StageNames, OneMoves DEF CreateMoves, Moved
<1>3. ASSUME NEW t \in Tasks, Pick(t)
      PROVE  Goal
  <2>1. CASE Fail(t)
    BY <1>2, <1>3, <2>1 DEF Pick, AtCreate
  <2>2. CASE ~Fail(t)
    <3>1. PICK x \in ListServices(running, connected, Request[t]) :
            create' = [create EXCEPT ![t] = [stage |-> "picked", target |-> x]]
      BY <1>3, <2>2 DEF Pick
    <3>2. x \in Services /\ Serves(t, x)
      BY <3>1, ListedServe DEF TypeOK
    <3>3. [stage |-> "picked", target |-> x] \in Creations
      BY <3>2, StageNames DEF Creations
    <3>4. create[t].stage = "created"
      BY <1>3 DEF Pick, AtCreate
    <3>5. create'[t].stage = "picked" /\ create'[t].target = x
      BY <1>0, <3>1
    <3>6. CreateMoves(t) /\ \A u \in Tasks \ {t} : CreateMoves(u)
      BY <1>0, <3>1, <3>2, <3>4, <3>5 DEF CreateMoves
    <3>7. QED
      BY <1>0, <3>1, <3>3, <3>6
  <2>3. QED
    BY <2>1, <2>2
<1>4. ASSUME NEW t \in Tasks, LookUpSocket(t) \/ SendStranded(t)
      PROVE  Goal
  <2>1. CASE Fail(t)
    BY <1>2, <1>4, <2>1 DEF LookUpSocket, SendStranded, AtCreate
  <2>2. CASE ~Fail(t)
    <3>1. CreateGoes(t, "sending") /\ create[t].stage = "picked"
      BY <1>4, <2>2 DEF LookUpSocket, SendStranded, AtCreate
    <3>2. QED
      BY <1>0, <3>1, StageNames, OneMoves DEF CreateMoves, Moved
  <2>3. QED
    BY <2>1, <2>2
<1>5. ASSUME NEW t \in Tasks, Send(t)
      PROVE  Goal
  <2>0. create[t].stage = "sending"
    BY <1>5 DEF Send, AtCreate
  <2>1. CASE Fail(t)
    BY <1>2, <2>0, <2>1
  <2>2. CASE ~Fail(t)
    <3>1. /\ CreateGoes(t, "sent")
          /\ downlink' = [downlink EXCEPT ![Target(t)] = Append(@, Task(t))] \/ t \in disturbed'
      BY <1>5, <2>2 DEF Send
    <3>2. Target(t) \in Services =>
            downlink'[Target(t)] = Append(downlink[Target(t)], Task(t)) \/ t \in disturbed'
      BY <3>1 DEF TypeOK
    <3>3. QED
      BY <1>0, <2>0, <3>1, <3>2, StageNames, OneMoves DEF CreateMoves, Moved
  <2>3. QED
    BY <2>1, <2>2
<1>6. ASSUME NEW t \in Tasks, Record(t) \/ Subscribe(t)
      PROVE  Goal
  <2>1. \/ CreateGoes(t, "returning") /\ create[t].stage = "sent"
        \/ CreateGoes(t, "done") /\ create[t].stage = "returning"
    BY <1>6 DEF Record, Subscribe, AtCreate
  <2>2. QED
    BY <1>0, <2>1, StageNames, OneMoves DEF CreateMoves, Moved
<1>7. ASSUME NEW t \in Tasks, TellFailure(t)
      PROVE  Goal
  <2>1. CreateGoes(t, "returning") /\ create[t].stage = "failing" /\ Deliver(StatusOf(t, "failed"))
    BY <1>7 DEF TellFailure, AtCreate
  <2>2. t \in early' \/ tool[t] # "none"
    BY <2>1 DEF Deliver, StatusOf
  <2>3. QED
    BY <1>0, <2>1, <2>2, StageNames, OneMoves DEF CreateMoves, Moved
<1>8. ASSUME NEW x \in Services, HandlerEnds(x) \/ Reconnect(x)
      PROVE  Goal
  <2>1. Strand(x) \/ UNCHANGED create
    BY <1>8 DEF HandlerEnds, Reconnect
  <2>2. QED
    BY <1>0, <2>1, StrandFacts DEF CreateMoves
<1>9. ASSUME UNCHANGED create
      PROVE  Goal
  BY <1>0, <1>9 DEF CreateMoves
<1>10. ASSUME NEW t \in Tasks, ToolTimeout(t) \/ DeleteTask(t) \/ Cancelling(t)
       PROVE  Goal
  BY <1>9, <1>10 DEF ToolTimeout, DeleteTask, Cancelling, LookUpTargets, LookingUp, SendCancel
<1>11. ASSUME NEW x \in Services, ReceiveStatus(x) \/ ReceiveResult(x) \/ ForwardFrame(x)
                                    \/ SyncStop(x) \/ Register(x) \/ LinkBreaks(x)
       PROVE  Goal
  BY <1>9, <1>11 DEF ReceiveStatus, ReceiveResult, Handling, ForwardFrame, SyncStop, Register, LinkBreaks
<1>12. ASSUME NEW x \in Services, NEW t \in Tasks, Working(x, t)
       PROVE  Goal
  BY <1>9, <1>12 DEF Working, WorkerAccepts, WorkerMarks, WorkerCancels, WorkerStarts,
                     WorkerProduces, WorkerEnds, WorkerStep
<1>13. ASSUME NEW x \in Services, NEW k \in kept[x], WorkerReplays(x, k)
       PROVE  Goal
  BY <1>9, <1>13 DEF WorkerReplays
<1>14. CASE UNCHANGED vars
  BY <1>9, <1>14 DEF vars
<1>15. QED
  BY <1>1, <1>3, <1>4, <1>5, <1>6, <1>7, <1>8, <1>10, <1>11, <1>12, <1>13, <1>14
     DEF Next, Creating, Serving
-----------------------------------------------------------------------------
(* What a step does to the frames on their way to a service                 *)

DownMoves(x) ==
    \/ downlink'[x] = downlink[x]
    \/ \E t \in Tasks : /\ Moved(t, {"sending"}, "sent") /\ Target(t) = x
                        /\ downlink'[x] = Append(downlink[x], Task(t))
    \/ \E t \in Tasks : /\ cancel[t].stage = "looked" /\ cancel'[t].stage = "signalled"
                        /\ downlink'[x] = Append(downlink[x], CancelOf(t))
    \/ \E t \in Tasks : /\ downlink[x] # <<>> /\ Head(downlink[x]) = Task(t)
                        /\ downlink'[x] = Tail(downlink[x]) /\ job'[t].stage = "accepted"
    \/ \E t \in Tasks : /\ downlink[x] # <<>> /\ Head(downlink[x]) = CancelOf(t)
                        /\ downlink'[x] = Tail(downlink[x]) /\ t \in marked'[x]
    \/ downlink'[x] = <<>> /\ About(downlink[x]) \subseteq disturbed'

\* Only the frames to y change.
LEMMA OneDownlink ==
    ASSUME downlink \in [Services -> Seq(Downward)], NEW y \in Services, NEW s \in Seq(Downward),
           downlink' = [downlink EXCEPT ![y] = s],
           downlink'[y] = s => DownMoves(y)
    PROVE  downlink' \in [Services -> Seq(Downward)] /\ \A x \in Services : DownMoves(x)
<1>1. downlink' \in [Services -> Seq(Downward)] /\ downlink'[y] = s
  OBVIOUS
<1>2. \A x \in Services \ {y} : downlink'[x] = downlink[x]
  OBVIOUS
<1>3. QED
  BY <1>1, <1>2 DEF DownMoves

LEMMA DownStep ==
    ASSUME TypeOK, [Next]_vars
    PROVE  downlink' \in [Services -> Seq(Downward)] /\ \A x \in Services : DownMoves(x)
<1> DEFINE Goal == downlink' \in [Services -> Seq(Downward)] /\ \A x \in Services : DownMoves(x)
<1>0. downlink \in [Services -> Seq(Downward)] /\ <<>> \in Seq(Downward)
  BY DEF TypeOK
<1>1. ASSUME UNCHANGED downlink
      PROVE  Goal
  BY <1>0, <1>1 DEF DownMoves
<1>2. ASSUME NEW t \in Tasks, Send(t)
      PROVE  Goal
  <2>1. CASE UNCHANGED downlink
    BY <1>1, <2>1
  <2>2. CASE ~UNCHANGED downlink
    <3>1. downlink' = [downlink EXCEPT ![Target(t)] = Append(@, Task(t))] /\ CreateGoes(t, "sent")
          /\ create[t].stage = "sending"
      BY <1>2, <2>2 DEF Send, AtCreate
    <3>2. Target(t) \in Services
      BY <1>0, <2>2, <3>1
    <3>3. Append(downlink[Target(t)], Task(t)) \in Seq(Downward)
      BY <1>0, <3>2, AppendFacts, DownFrameFacts
    <3>4. Moved(t, {"sending"}, "sent")
      BY <3>1, StageNames, GoesFacts DEF Moved, TypeOK
    <3>5. downlink'[Target(t)] = Append(downlink[Target(t)], Task(t)) => DownMoves(Target(t))
      BY <3>4 DEF DownMoves
    <3>6. QED
      BY <1>0, <3>1, <3>2, <3>3, <3>5, OneDownlink
  <2>3. QED
    BY <2>1, <2>2
<1>3. ASSUME NEW t \in Tasks, SendCancel(t)
      PROVE  Goal
  <2>1. cancel[t].stage = "looked" /\ cancel'[t].stage = "signalled"
    BY <1>3 DEF SendCancel, TypeOK, Cancellations
  <2>2. \A x \in Services : downlink'[x] \in {downlink[x], Append(downlink[x], CancelOf(t))}
    BY <1>3 DEF SendCancel
  <2>3. \A x \in Services : Append(downlink[x], CancelOf(t)) \in Seq(Downward)
    BY <1>0, AppendFacts, DownFrameFacts
  <2>4. downlink' = [x \in Services |-> downlink'[x]]
    BY <1>3 DEF SendCancel
  <2>5. \A x \in Services : downlink'[x] \in Seq(Downward)
    BY <1>0, <2>2, <2>3
  <2>6. \A x \in Services : DownMoves(x)
    BY <2>1, <2>2 DEF DownMoves
  <2>7. QED
    BY <2>4, <2>5, <2>6
<1>4. ASSUME NEW x \in Services, LinkBreaks(x)
      PROVE  Goal
  <2>1. downlink' = [downlink EXCEPT ![x] = <<>>] /\ About(downlink[x]) \subseteq disturbed'
    BY <1>4 DEF LinkBreaks
  <2>2. QED
    BY <1>0, <2>1, OneDownlink DEF DownMoves
<1>5. ASSUME NEW x \in Services, NEW t \in Tasks, WorkerAccepts(x, t)
      PROVE  Goal
  <2>1. /\ downlink[x] # <<>> /\ Head(downlink[x]) = Task(t)
        /\ downlink' = [downlink EXCEPT ![x] = Tail(downlink[x])]
    BY <1>5 DEF WorkerAccepts, Received
  <2>2. job'[t].stage = "accepted"
    BY <1>5, JobGoesFacts DEF WorkerAccepts, TypeOK
  <2>3. Tail(downlink[x]) \in Seq(Downward)
    BY <1>0, <2>1, TailFacts
  <2>4. QED
    BY <1>0, <2>1, <2>2, <2>3, OneDownlink DEF DownMoves
<1>6. ASSUME NEW x \in Services, NEW t \in Tasks, WorkerMarks(x, t)
      PROVE  Goal
  <2>1. /\ downlink[x] # <<>> /\ Head(downlink[x]) = CancelOf(t)
        /\ downlink' = [downlink EXCEPT ![x] = Tail(downlink[x])]
    BY <1>6 DEF WorkerMarks, Received
  <2>2. t \in marked'[x]
    BY <1>6 DEF WorkerMarks, TypeOK
  <2>3. Tail(downlink[x]) \in Seq(Downward)
    BY <1>0, <2>1, TailFacts
  <2>4. QED
    BY <1>0, <2>1, <2>2, <2>3, OneDownlink DEF DownMoves
<1>7. ASSUME NEW t \in Tasks,
             \/ CreateTask(t) \/ CreateUnsent(t) \/ Pick(t) \/ LookUpSocket(t) \/ SendStranded(t)
             \/ Record(t) \/ TellFailure(t) \/ Subscribe(t) \/ DeleteTask(t) \/ LookUpTargets(t)
             \/ ToolTimeout(t)
      PROVE  Goal
  BY <1>1, <1>7 DEF wires, CreateTask, CreateUnsent, Pick, LookUpSocket, SendStranded, Record, TellFailure,
         Subscribe, DeleteTask, LookUpTargets, LookingUp, ToolTimeout
<1>8. ASSUME NEW x \in Services, Serving(x) \/ Register(x) \/ Reconnect(x)
      PROVE  Goal
  BY <1>1, <1>8 DEF wires, Serving, ReceiveStatus, ReceiveResult, Handling, ForwardFrame, HandlerEnds,
         SyncStop, Register, Reconnect
<1>9. ASSUME NEW x \in Services, NEW t \in Tasks,
             WorkerCancels(x, t) \/ WorkerStarts(x, t) \/ WorkerProduces(x, t) \/ WorkerEnds(x, t)
      PROVE  Goal
  BY <1>1, <1>9 DEF WorkerCancels, WorkerStarts, WorkerProduces, WorkerEnds, WorkerStep
<1>10. ASSUME NEW x \in Services, NEW k \in kept[x], WorkerReplays(x, k)
       PROVE  Goal
  BY <1>1, <1>10 DEF WorkerReplays
<1>11. CASE UNCHANGED vars
  BY <1>1, <1>11 DEF vars, wires
<1>12. QED
  BY <1>2, <1>3, <1>4, <1>5, <1>6, <1>7, <1>8, <1>9, <1>10, <1>11
     DEF Next, Creating, Cancelling, Working
-----------------------------------------------------------------------------
(* What a step does to a task at its service                                *)

\* The service has sent f, or the task is disturbed.
Says(x, f) == uplink'[x] = Append(uplink[x], f) \/ f.task \in disturbed'

JobMoves(t) ==
    \/ job'[t] = job[t]
    \/ \E x \in Services :
         /\ downlink[x] # <<>> /\ Head(downlink[x]) = Task(t) /\ downlink'[x] = Tail(downlink[x])
         /\ job'[t].stage = "accepted" /\ job'[t].made = job[t].made
         /\ Says(x, StatusOf(t, "queued"))
    \/ /\ \E x \in Services : At(x, t, "accepted")
       /\ job'[t].stage = "running" /\ job'[t].made = job[t].made
    \/ \E x \in Services :
         /\ At(x, t, "running") /\ job'[t].stage = "running"
         /\ job'[t].made = job[t].made + 1 /\ Says(x, ResultOf(t, job[t].made + 1))
    \/ \E x \in Services :
         /\ At(x, t, "running") \/ At(x, t, "accepted")
         /\ job'[t].stage = "ended" /\ job'[t].made = job[t].made
         /\ \/ Says(x, StatusOf(t, "failed")) \/ Says(x, StatusOf(t, "cancelled"))
            \/ job[t].made = Total /\ Says(x, StatusOf(t, "completed"))

LEMMA SaysFacts ==
    ASSUME TypeOK, NEW x \in Services, NEW f \in Upward, Emit(x, f)
    PROVE  Says(x, f)
<1>1. uplink' = [uplink EXCEPT ![x] = Append(@, f)] \/ f.task \in disturbed'
  BY DEF Emit
<1>2. QED
  BY <1>1 DEF Says, TypeOK

LEMMA JobStep ==
    ASSUME TypeOK, [Next]_vars
    PROVE  job' \in [Tasks -> Jobs] /\ \A t \in Tasks : JobMoves(t)
<1> DEFINE Goal == job' \in [Tasks -> Jobs] /\ \A t \in Tasks : JobMoves(t)
<1>0. job \in [Tasks -> Jobs]
  BY DEF TypeOK
<1>a. \A t \in Tasks, s \in Statuses : StatusOf(t, s) \in Upward
  BY FrameFacts DEF Statuses
<1>1. ASSUME UNCHANGED job
      PROVE  Goal
  BY <1>0, <1>1 DEF JobMoves
<1>2. ASSUME NEW x \in Services, NEW t \in Tasks, WorkerAccepts(x, t)
      PROVE  Goal
  <2>1. /\ JobGoes(t, "accepted") /\ downlink[x] # <<>> /\ Head(downlink[x]) = Task(t)
        /\ downlink' = [downlink EXCEPT ![x] = Tail(@)] /\ Emit(x, StatusOf(t, "queued"))
    BY <1>2 DEF WorkerAccepts, Received
  <2>2. downlink'[x] = Tail(downlink[x]) /\ Says(x, StatusOf(t, "queued"))
    BY <1>a, <2>1, SaysFacts DEF TypeOK, Statuses
  <2>3. QED
    BY <1>0, <2>1, <2>2, JobGoesFacts DEF JobMoves
<1>3. ASSUME NEW x \in Services, NEW t \in Tasks, WorkerStarts(x, t)
      PROVE  Goal
  <2>1. JobGoes(t, "running") /\ At(x, t, "accepted")
    BY <1>3 DEF WorkerStarts
  <2>2. QED
    BY <1>0, <2>1, JobGoesFacts DEF JobMoves
<1>4. ASSUME NEW x \in Services, NEW t \in Tasks, WorkerProduces(x, t)
      PROVE  Goal
  <2>1. /\ At(x, t, "running") /\ job[t].made < Total
        /\ job' = [job EXCEPT ![t].made = @ + 1] /\ Emit(x, ResultOf(t, job[t].made + 1))
    BY <1>4 DEF WorkerProduces, WorkerStep
  <2>2. job[t].made + 1 \in All /\ job[t].made + 1 \in 0 .. Total
    BY <1>0, <2>1, DispatchAssumption DEF Jobs, All
  <2>3. Says(x, ResultOf(t, job[t].made + 1))
    BY <2>1, <2>2, FrameFacts, SaysFacts
  <2>4. /\ job' \in [Tasks -> Jobs] /\ \A u \in Tasks \ {t} : job'[u] = job[u]
        /\ job'[t].made = job[t].made + 1 /\ job'[t].stage = job[t].stage
    BY <1>0, <2>1, <2>2 DEF Jobs
  <2>5. QED
    BY <2>1, <2>3, <2>4 DEF JobMoves, At
<1>5. ASSUME NEW x \in Services, NEW t \in Tasks, WorkerCancels(x, t) \/ WorkerEnds(x, t)
      PROVE  Goal
  <2>1. /\ JobGoes(t, "ended") /\ (At(x, t, "running") \/ At(x, t, "accepted"))
        /\ \/ Emit(x, StatusOf(t, "failed")) \/ Emit(x, StatusOf(t, "cancelled"))
           \/ job[t].made = Total /\ Emit(x, StatusOf(t, "completed"))
    BY <1>5 DEF WorkerCancels, WorkerEnds, WorkerStep
  <2>2. \/ Says(x, StatusOf(t, "failed")) \/ Says(x, StatusOf(t, "cancelled"))
        \/ job[t].made = Total /\ Says(x, StatusOf(t, "completed"))
    BY <1>a, <2>1, SaysFacts DEF Statuses
  <2>3. QED
    BY <1>0, <2>1, <2>2, JobGoesFacts DEF JobMoves
<1>6. ASSUME NEW t \in Tasks, CreateTask(t) \/ CreateUnsent(t) \/ Creating(t) \/ DeleteTask(t)
                                \/ Cancelling(t) \/ ToolTimeout(t)
      PROVE  Goal
  BY <1>1, <1>6 DEF worker, Creating, Cancelling, CreateTask, CreateUnsent, Pick, LookUpSocket, Send,
         SendStranded, Record, TellFailure, Subscribe, DeleteTask, LookUpTargets, LookingUp,
         SendCancel, ToolTimeout
<1>7. ASSUME NEW x \in Services, Serving(x) \/ Register(x) \/ LinkBreaks(x) \/ Reconnect(x)
      PROVE  Goal
  BY <1>1, <1>7 DEF worker, Serving, ReceiveStatus, ReceiveResult, Handling, ForwardFrame, HandlerEnds,
         SyncStop, Register, LinkBreaks, Reconnect
<1>8. ASSUME NEW x \in Services, NEW t \in Tasks, WorkerMarks(x, t)
      PROVE  Goal
  BY <1>1, <1>8 DEF WorkerMarks
<1>9. ASSUME NEW x \in Services, NEW k \in kept[x], WorkerReplays(x, k)
      PROVE  Goal
  BY <1>1, <1>9 DEF WorkerReplays
<1>10. CASE UNCHANGED vars
  BY <1>1, <1>10 DEF vars, worker
<1>11. QED
  BY <1>2, <1>3, <1>4, <1>5, <1>6, <1>7, <1>8, <1>9, <1>10 DEF Next, Working
-----------------------------------------------------------------------------
(* What a step does to the frames from a service, and to what it keeps      *)

\* x has the task, or it is on its way to x.
Has(x, t) == (downlink[x] # <<>> /\ Head(downlink[x]) = Task(t)) \/ (Target(t) = x /\ job[t].stage # "none")

\* x may say f: each frame about a task moves it, unless it is replayed.
MaySay(x, f) ==
    /\ Has(x, f.task) \/ Keeps(x, f.task)
    /\ \/ Keeps(x, f.task) \/ job'[f.task] # job[f.task]
       \/ downlink[x] # <<>> /\ Head(downlink[x]) = Task(f.task)
    /\ f.type = "status" /\ f.status = "completed" =>
         (Target(f.task) = x /\ job[f.task].made = Total) \/ Keeps(x, f.task)

\* The handler of x has recorded the frame g as f.
Recorded(x, g, f) ==
    /\ f \in Upward /\ f.type = g.type /\ f.task = g.task
    /\ f.type = "status" => f = g
    /\ f.type = "result" => f.index = g.index /\ files'[f.task] = files[f.task] \cup {f.index}
    /\ status'[f.task] = f.status

UpMoves(x) ==
    \/ uplink'[x] = uplink[x] /\ handler'[x] = handler[x]
    \/ /\ uplink'[x] = uplink[x] /\ handler'[x] = NoFrame
       /\ handler[x] \in Upward /\ Deliver(handler[x])
    \/ /\ uplink[x] # <<>> /\ uplink'[x] = Tail(uplink[x])
       /\ handler[x] = NoFrame /\ Recorded(x, Head(uplink[x]), handler'[x])
    \/ /\ handler'[x] = handler[x]
       /\ \E n \in 0 .. Len(uplink[x]) :
            /\ uplink'[x] = SubSeq(uplink[x], 1, n)
            /\ About(SubSeq(uplink[x], n + 1, Len(uplink[x]))) \subseteq disturbed'
    \/ /\ handler'[x] = handler[x]
       /\ \E f \in Upward : uplink'[x] = Append(uplink[x], f) /\ MaySay(x, f)

UpTyped == uplink' \in [Services -> Seq(Upward)] /\ handler' \in [Services -> Upward \cup {NoFrame}]

\* Only the frames from y change.
LEMMA OneUplink ==
    ASSUME TypeOK, NEW y \in Services, NEW s \in Seq(Upward), NEW h \in Upward \cup {NoFrame},
           uplink' = [uplink EXCEPT ![y] = s], handler' = [handler EXCEPT ![y] = h],
           uplink'[y] = s /\ handler'[y] = h => UpMoves(y)
    PROVE  UpTyped /\ \A x \in Services : UpMoves(x)
<1>1. uplink \in [Services -> Seq(Upward)] /\ handler \in [Services -> Upward \cup {NoFrame}]
  BY DEF TypeOK
<1>2. UpTyped /\ uplink'[y] = s /\ handler'[y] = h
  BY <1>1 DEF UpTyped
<1>3. \A x \in Services \ {y} : uplink'[x] = uplink[x] /\ handler'[x] = handler[x]
  BY <1>1
<1>4. QED
  BY <1>2, <1>3 DEF UpMoves

\* The same when the handler does nothing.
LEMMA OneSender ==
    ASSUME TypeOK, NEW y \in Services, NEW s \in Seq(Upward),
           uplink' = [uplink EXCEPT ![y] = s], handler' = handler,
           uplink'[y] = s /\ handler'[y] = handler[y] => UpMoves(y)
    PROVE  UpTyped /\ \A x \in Services : UpMoves(x)
<1>1. uplink \in [Services -> Seq(Upward)] /\ handler \in [Services -> Upward \cup {NoFrame}]
  BY DEF TypeOK
<1>2. UpTyped /\ uplink'[y] = s
  BY <1>1 DEF UpTyped
<1>3. \A x \in Services \ {y} : uplink'[x] = uplink[x]
  BY <1>1
<1>4. QED
  BY <1>2, <1>3 DEF UpMoves

LEMMA UpUnchanged ==
    ASSUME TypeOK, UNCHANGED <<uplink, handler>>
    PROVE  UpTyped /\ \A x \in Services : UpMoves(x)
  BY DEF TypeOK, UpTyped, UpMoves

\* A frame of the worker.
LEMMA EmitMoves ==
    ASSUME TypeOK, NEW x \in Services, NEW f \in Upward, Emit(x, f), MaySay(x, f), UNCHANGED handler
    PROVE  UpTyped /\ \A y \in Services : UpMoves(y)
<1>1. CASE uplink' = uplink
  BY <1>1, UpUnchanged
<1>2. CASE uplink' # uplink
  <2>1. uplink' = [uplink EXCEPT ![x] = Append(uplink[x], f)]
    BY <1>2 DEF Emit
  <2>2. Append(uplink[x], f) \in Seq(Upward)
    BY AppendFacts DEF TypeOK
  <2>3. QED
    BY <2>1, <2>2, OneSender DEF UpMoves
<1>3. QED
  BY <1>1, <1>2

\* What the worker says about a task it works on.
LEMMA WorkerSays ==
    ASSUME TypeOK, NEW x \in Services, NEW t \in Tasks,
           \/ WorkerAccepts(x, t) \/ WorkerCancels(x, t) \/ WorkerStarts(x, t)
           \/ WorkerProduces(x, t) \/ WorkerEnds(x, t)
    PROVE  \E f \in Upward : Emit(x, f) /\ MaySay(x, f) /\ f.task = t /\ Has(x, t)
<1>1. \A s \in Statuses : /\ StatusOf(t, s) \in Upward /\ StatusOf(t, s).task = t
                          /\ StatusOf(t, s).type = "status" /\ StatusOf(t, s).status = s
  BY FrameFacts DEF StatusOf
<1>2. {"queued", "cancelled", "processing", "completed", "failed"} = Statuses
  BY DEF Statuses
<1>3. CASE WorkerAccepts(x, t)
  <2>1. /\ Has(x, t) /\ Emit(x, StatusOf(t, "queued"))
        /\ downlink[x] # <<>> /\ Head(downlink[x]) = Task(t)
    BY <1>3 DEF WorkerAccepts, Received, Has
  <2>2. QED
    BY <1>1, <1>2, <2>1 DEF MaySay
<1>4. CASE WorkerCancels(x, t) \/ WorkerStarts(x, t)
  <2>1. /\ Has(x, t)
        /\ Emit(x, StatusOf(t, "cancelled")) \/ Emit(x, StatusOf(t, "processing"))
        /\ job'[t] # job[t]
    BY <1>4, JobGoesFacts DEF WorkerCancels, WorkerStarts, WorkerStep, At, Has, TypeOK
  <2>2. QED
    BY <1>1, <1>2, <2>1 DEF MaySay
<1>5. CASE WorkerProduces(x, t)
  <2>1. /\ Has(x, t) /\ Emit(x, ResultOf(t, job[t].made + 1)) /\ job[t].made + 1 \in All
        /\ job'[t] # job[t]
    BY <1>5, DispatchAssumption DEF WorkerProduces, WorkerStep, At, Has, TypeOK, Jobs, All
  <2>2. /\ ResultOf(t, job[t].made + 1) \in Upward
        /\ ResultOf(t, job[t].made + 1).task = t /\ ResultOf(t, job[t].made + 1).type = "result"
    BY <2>1, FrameFacts DEF ResultOf
  <2>3. QED
    BY <2>1, <2>2 DEF MaySay
<1>6. CASE WorkerEnds(x, t)
  <2>1. /\ Has(x, t) /\ Target(t) = x
        /\ \/ job[t].made = Total /\ Emit(x, StatusOf(t, "completed"))
           \/ Emit(x, StatusOf(t, "failed"))
        /\ job'[t] # job[t]
    BY <1>6, JobGoesFacts DEF WorkerEnds, WorkerStep, At, Has, TypeOK
  <2>2. QED
    BY <1>1, <1>2, <2>1 DEF MaySay
<1>7. QED
  BY <1>3, <1>4, <1>5, <1>6

LEMMA UpStep ==
    ASSUME TypeOK, [Next]_vars
    PROVE  UpTyped /\ \A x \in Services : UpMoves(x)
<1> DEFINE Goal == UpTyped /\ \A x \in Services : UpMoves(x)
<1>0. /\ uplink \in [Services -> Seq(Upward)] /\ handler \in [Services -> Upward \cup {NoFrame}]
      /\ status \in [Tasks -> Statuses \cup {"none", "pending"}] /\ files \in [Tasks -> SUBSET All]
  BY DEF TypeOK
<1>1. ASSUME UNCHANGED <<uplink, handler>>
      PROVE  Goal
  BY <1>1, UpUnchanged
<1>2. ASSUME NEW x \in Services, ReceiveStatus(x)
      PROVE  Goal
  <2> DEFINE f == Head(uplink[x])
  <2>1. /\ uplink[x] # <<>> /\ f.type = "status" /\ handler[x] = NoFrame
        /\ uplink' = [uplink EXCEPT ![x] = Tail(uplink[x])]
        /\ handler' = [handler EXCEPT ![x] = f] /\ status' = [status EXCEPT ![f.task] = f.status]
    BY <1>2 DEF ReceiveStatus, Handling
  <2>2. f \in Upward /\ f.task \in Tasks /\ Tail(uplink[x]) \in Seq(Upward)
    BY <1>0, <2>1, TailFacts, FrameFacts
  <2>3. Recorded(x, f, f)
    BY <1>0, <2>1, <2>2 DEF Recorded
  <2> HIDE DEF f
  <2>4. uplink'[x] = Tail(uplink[x]) /\ handler'[x] = f => UpMoves(x)
    BY <2>1, <2>3 DEF UpMoves, f
  <2>5. QED
    BY <2>1, <2>2, <2>4, OneUplink
<1>3. ASSUME NEW x \in Services, ReceiveResult(x)
      PROVE  Goal
  <2> DEFINE f == Head(uplink[x])
             s == IF files[f.task] \cup {f.index} = All THEN "completed" ELSE "processing"
             g == [f EXCEPT !.status = s]
  <2>1. /\ uplink[x] # <<>> /\ f.type = "result" /\ handler[x] = NoFrame
        /\ uplink' = [uplink EXCEPT ![x] = Tail(uplink[x])]
        /\ handler' = [handler EXCEPT ![x] = g] /\ status' = [status EXCEPT ![g.task] = g.status]
        /\ files' = [files EXCEPT ![f.task] = files[f.task] \cup {f.index}]
    BY <1>3 DEF ReceiveResult, Handling
  <2>2. f \in Upward /\ f.task \in Tasks /\ Tail(uplink[x]) \in Seq(Upward)
    BY <1>0, <2>1, TailFacts, FrameFacts
  <2>3. g \in Upward /\ g.type = "result" /\ g.task = f.task /\ g.index = f.index
    <3>1. s \in Statuses
      BY DEF Statuses
    <3> HIDE DEF f, s
    <3>2. QED
      BY <2>1, <2>2, <3>1, FrameFacts
  <2> HIDE DEF g
  <2>4. Recorded(x, f, g)
    BY <1>0, <2>1, <2>2, <2>3 DEF Recorded
  <2>5. QED
    BY <2>1, <2>2, <2>3, <2>4, OneUplink DEF UpMoves
<1>4. ASSUME NEW x \in Services, ForwardFrame(x)
      PROVE  Goal
  <2>1. /\ handler[x] \in Upward /\ Deliver(handler[x])
        /\ handler' = [handler EXCEPT ![x] = NoFrame] /\ uplink' = uplink
    BY <1>0, <1>4 DEF ForwardFrame, wires
  <2>2. uplink' = [uplink EXCEPT ![x] = uplink[x]] /\ uplink[x] \in Seq(Upward)
    BY <1>0, <2>1
  <2>3. QED
    BY <2>1, <2>2, OneUplink DEF UpMoves
<1>5. ASSUME NEW x \in Services, LinkBreaks(x)
      PROVE  Goal
  <2>1. PICK n \in 0 .. Len(uplink[x]) :
          /\ uplink' = [uplink EXCEPT ![x] = SubSeq(uplink[x], 1, n)]
          /\ About(SubSeq(uplink[x], n + 1, Len(uplink[x]))) \subseteq disturbed'
    BY <1>5 DEF LinkBreaks
  <2>2. SubSeq(uplink[x], 1, n) \in Seq(Upward)
    BY <1>0, PrefixFacts
  <2>3. handler' = handler
    BY <1>5 DEF LinkBreaks
  <2>4. QED
    BY <2>1, <2>2, <2>3, OneSender DEF UpMoves
<1>6. ASSUME NEW x \in Services, Reconnect(x)
      PROVE  Goal
  <2>1. uplink' = [uplink EXCEPT ![x] = <<>>] /\ handler' = handler /\ About(uplink[x]) \subseteq disturbed'
    BY <1>6 DEF Reconnect
  <2>2. /\ SubSeq(uplink[x], 1, 0) = <<>> /\ SubSeq(uplink[x], 0 + 1, Len(uplink[x])) = uplink[x]
        /\ 0 \in 0 .. Len(uplink[x])
    BY <1>0, SubSeqFull, SubSeqEmpty, LenProperties
  <2>3. <<>> \in Seq(Upward)
    OBVIOUS
  <2>4. uplink'[x] = <<>> /\ handler'[x] = handler[x] => UpMoves(x)
    BY <2>1, <2>2 DEF UpMoves
  <2>5. QED
    BY <2>1, <2>3, <2>4, OneSender
<1>7. ASSUME NEW x \in Services, NEW t \in Tasks,
             \/ WorkerAccepts(x, t) \/ WorkerCancels(x, t) \/ WorkerStarts(x, t)
             \/ WorkerProduces(x, t) \/ WorkerEnds(x, t)
      PROVE  Goal
  <2>1. UNCHANGED handler
    BY <1>7 DEF WorkerAccepts, WorkerCancels, WorkerStarts, WorkerProduces, WorkerEnds, WorkerStep
  <2>2. QED
    BY <1>7, <2>1, WorkerSays, EmitMoves
<1>8. ASSUME NEW x \in Services, NEW k \in kept[x], WorkerReplays(x, k)
      PROVE  Goal
  <2> DEFINE f == StatusOf(k.task, k.status)
  <2>1. uplink' = [uplink EXCEPT ![x] = Append(uplink[x], f)] /\ handler' = handler
    BY <1>8 DEF WorkerReplays
  <2>2. k.task \in Tasks /\ k.status \in Statuses
    BY DEF TypeOK, KeptFiles
  <2>3. f \in Upward /\ MaySay(x, f)
    BY <2>2, FrameFacts DEF MaySay, Keeps, StatusOf
  <2> HIDE DEF f
  <2>4. Append(uplink[x], f) \in Seq(Upward)
    BY <1>0, <2>3, AppendFacts
  <2>5. QED
    BY <2>1, <2>3, <2>4, OneSender DEF UpMoves
<1>9. ASSUME NEW t \in Tasks, CreateTask(t) \/ CreateUnsent(t) \/ Creating(t) \/ DeleteTask(t)
                                \/ Cancelling(t) \/ ToolTimeout(t)
      PROVE  Goal
  BY <1>1, <1>9 DEF wires, Creating, Cancelling, CreateTask, CreateUnsent, Pick, LookUpSocket, Send,
         SendStranded, Record, TellFailure, Subscribe, DeleteTask, LookUpTargets, LookingUp,
         SendCancel, ToolTimeout
<1>10. ASSUME NEW x \in Services, HandlerEnds(x) \/ SyncStop(x) \/ Register(x)
       PROVE  Goal
  BY <1>1, <1>10 DEF wires, HandlerEnds, SyncStop, Register
<1>11. ASSUME NEW x \in Services, NEW t \in Tasks, WorkerMarks(x, t)
       PROVE  Goal
  BY <1>1, <1>11 DEF WorkerMarks
<1>12. CASE UNCHANGED vars
  BY <1>1, <1>12 DEF vars, wires
<1>13. QED
  BY <1>2, <1>3, <1>4, <1>5, <1>6, <1>7, <1>8, <1>9, <1>10, <1>11, <1>12 DEF Next, Serving, Working
-----------------------------------------------------------------------------
(* What a step does to rows, marks, signals, records and the tool           *)

Rewritten(x, t) == uplink[x] # <<>> /\ Head(uplink[x]).task = t

RowMoves(t) ==
    /\ status'[t] \in {status[t], "pending"} \cup Terminal \/ \E x \in Services : Rewritten(x, t)
    /\ files[t] \subseteq files'[t]
    /\ status'[t] = "pending" => status[t] = "pending" \/ create[t].stage = "none"
    /\ status'[t] = "completed" =>
         \/ status[t] = "completed" \/ files'[t] = All
         \/ \E x \in Services : uplink[x] # <<>> /\ Head(uplink[x]) = StatusOf(t, "completed")

RowTyped == status' \in [Tasks -> Statuses \cup {"none", "pending"}] /\ files' \in [Tasks -> SUBSET All]

LEMMA RowStep ==
    ASSUME TypeOK, [Next]_vars
    PROVE  RowTyped /\ \A t \in Tasks : RowMoves(t)
<1> DEFINE Goal == RowTyped /\ \A t \in Tasks : RowMoves(t)
<1>0. status \in [Tasks -> Statuses \cup {"none", "pending"}] /\ files \in [Tasks -> SUBSET All]
  BY DEF TypeOK
<1>1. ASSUME UNCHANGED files, status' = status
             \/ (\E t \in Tasks, s \in {"failed", "cancelled"} : status' = [status EXCEPT ![t] = s])
             \/ (\E t \in Tasks : create[t].stage = "none" /\ status' = [status EXCEPT ![t] = "pending"])
      PROVE  Goal
  BY <1>0, <1>1 DEF RowTyped, RowMoves, Statuses, Terminal
<1>2. ASSUME NEW t \in Tasks, CreateTask(t) \/ CreateUnsent(t) \/ Creating(t) \/ DeleteTask(t)
                                \/ Cancelling(t) \/ ToolTimeout(t)
      PROVE  Goal
  <2>1. UNCHANGED files
    BY <1>2 DEF rows, Creating, Cancelling, CreateTask, CreateUnsent, Pick, LookUpSocket, Send, SendStranded,
           Record, TellFailure, Subscribe, DeleteTask, LookUpTargets, LookingUp, SendCancel, ToolTimeout
  <2>2. \/ status' \in {status, [status EXCEPT ![t] = "failed"], [status EXCEPT ![t] = "cancelled"]}
        \/ create[t].stage = "none" /\ status' = [status EXCEPT ![t] = "pending"]
    BY <1>2 DEF rows, Creating, Cancelling, CreateTask, CreateUnsent, Pick, LookUpSocket, Send, SendStranded, Fail,
           Record, TellFailure, Subscribe, DeleteTask, LookUpTargets, LookingUp, SendCancel, ToolTimeout,
           AtCreate
  <2>3. QED
    BY <1>1, <2>1, <2>2
<1>3. ASSUME NEW x \in Services, ReceiveStatus(x)
      PROVE  Goal
  <2> DEFINE f == Head(uplink[x])
  <2>1. /\ uplink[x] # <<>> /\ f.type = "status" /\ UNCHANGED files
        /\ status' = [status EXCEPT ![f.task] = f.status]
    BY <1>3 DEF ReceiveStatus, Handling
  <2>2. f \in Upward /\ f.task \in Tasks /\ f.status \in Statuses /\ f = StatusOf(f.task, f.status)
    BY <2>1, TailFacts, FrameFacts DEF TypeOK
  <2>3. \A t \in Tasks : /\ status'[t] \in {status[t], f.status}
                         /\ status'[t] # status[t] => t = f.task
    BY <1>0, <2>1, <2>2
  <2>4. RowTyped
    BY <1>0, <2>1, <2>2 DEF RowTyped
  <2>5. f.status # "pending"
    BY <2>2 DEF Statuses
  <2>6. \A t \in Tasks : RowMoves(t)
    BY <2>1, <2>2, <2>3, <2>5 DEF RowMoves, Rewritten
  <2>7. QED
    BY <2>4, <2>6
<1>4. ASSUME NEW x \in Services, ReceiveResult(x)
      PROVE  Goal
  <2> DEFINE f == Head(uplink[x])
             have == files[f.task] \cup {f.index}
             s == IF have = All THEN "completed" ELSE "processing"
             g == [f EXCEPT !.status = s]
  <2>1. /\ uplink[x] # <<>> /\ f.type = "result" /\ files' = [files EXCEPT ![f.task] = have]
        /\ status' = [status EXCEPT ![g.task] = g.status]
    BY <1>4 DEF ReceiveResult, Handling
  <2>2. f \in Upward /\ f.task \in Tasks /\ f.index \in All
    BY <2>1, TailFacts, FrameFacts DEF TypeOK
  <2>3. s \in Statuses /\ s # "pending" /\ (s = "completed" => have = All)
    BY DEF Statuses
  <2>4. g.task = f.task /\ g.status = s
    <3> HIDE DEF f, s
    <3>1. QED
      BY <2>1, <2>2, <2>3, FrameFacts
  <2> HIDE DEF f, s, g
  <2>5. have \in SUBSET All
    BY <1>0, <2>2
  <2>6. RowTyped
    BY <1>0, <2>1, <2>2, <2>3, <2>4, <2>5 DEF RowTyped
  <2>7. \A t \in Tasks : RowMoves(t)
    BY <1>0, <2>1, <2>2, <2>3, <2>4 DEF RowMoves, Rewritten, f
  <2>8. QED
    BY <2>6, <2>7
<1>5. ASSUME NEW x \in Services, ForwardFrame(x) \/ HandlerEnds(x) \/ SyncStop(x) \/ Register(x)
                                   \/ LinkBreaks(x) \/ Reconnect(x)
      PROVE  Goal
  BY <1>1, <1>5 DEF rows, ForwardFrame, HandlerEnds, SyncStop, Register, LinkBreaks, Reconnect
<1>6. ASSUME NEW x \in Services, NEW t \in Tasks, Working(x, t)
      PROVE  Goal
  BY <1>1, <1>6 DEF rows, Working, WorkerAccepts, WorkerMarks, WorkerCancels, WorkerStarts,
                    WorkerProduces, WorkerEnds, WorkerStep
<1>7. ASSUME NEW x \in Services, NEW k \in kept[x], WorkerReplays(x, k)
      PROVE  Goal
  BY <1>1, <1>7 DEF rows, WorkerReplays
<1>8. CASE UNCHANGED vars
  BY <1>1, <1>8 DEF vars, rows
<1>9. QED
  BY <1>2, <1>3, <1>4, <1>5, <1>6, <1>7, <1>8 DEF Next, Serving

\* A mark goes only with its task; a file is kept only about a disturbed task.
KeptMoves(x) == \A k \in kept'[x] : k \in kept[x] \/ (k.task \in disturbed' /\ Has(x, k.task))
MarkedMoves(x) == \A t \in marked[x] : t \in marked'[x] \/ job'[t].stage = "ended"
WorkerTyped == kept' \in [Services -> SUBSET KeptFiles] /\ marked' \in [Services -> SUBSET Tasks]
HistoryGrows ==
    /\ disturbed \subseteq disturbed' /\ disturbed' \subseteq Tasks
    /\ early \subseteq early' /\ early' \subseteq Tasks

LEMMA WorkerStepFacts ==
    ASSUME TypeOK, [Next]_vars
    PROVE  WorkerTyped /\ (\A x \in Services : KeptMoves(x) /\ MarkedMoves(x))
<1> DEFINE Goal == WorkerTyped /\ (\A x \in Services : KeptMoves(x) /\ MarkedMoves(x))
<1>0. kept \in [Services -> SUBSET KeptFiles] /\ marked \in [Services -> SUBSET Tasks] /\ job \in [Tasks -> Jobs]
  BY DEF TypeOK
<1>1. ASSUME UNCHANGED <<kept, marked>>
      PROVE  Goal
  BY <1>0, <1>1 DEF WorkerTyped, KeptMoves, MarkedMoves
<1>2. ASSUME NEW t \in Tasks, CreateTask(t) \/ CreateUnsent(t) \/ Creating(t) \/ DeleteTask(t)
                                \/ Cancelling(t) \/ ToolTimeout(t)
      PROVE  Goal
  BY <1>1, <1>2 DEF worker, Creating, Cancelling, CreateTask, CreateUnsent, Pick, LookUpSocket, Send,
         SendStranded, Record, TellFailure, Subscribe, DeleteTask, LookUpTargets, LookingUp,
         SendCancel, ToolTimeout
<1>3. ASSUME NEW x \in Services, Serving(x) \/ Register(x) \/ LinkBreaks(x) \/ Reconnect(x)
      PROVE  Goal
  BY <1>1, <1>3 DEF worker, Serving, ReceiveStatus, ReceiveResult, Handling, ForwardFrame, HandlerEnds,
         SyncStop, Register, LinkBreaks, Reconnect
<1>4. ASSUME NEW x \in Services, NEW t \in Tasks, WorkerMarks(x, t)
      PROVE  Goal
  BY <1>0, <1>4 DEF WorkerMarks, WorkerTyped, KeptMoves, MarkedMoves
<1>5. ASSUME NEW x \in Services, NEW t \in Tasks,
             \/ WorkerAccepts(x, t) \/ WorkerCancels(x, t) \/ WorkerStarts(x, t)
             \/ WorkerProduces(x, t) \/ WorkerEnds(x, t)
      PROVE  Goal
  <2>1. PICK f \in Upward : Emit(x, f) /\ f.task = t /\ Has(x, t)
    BY <1>5, WorkerSays
  <2>2. /\ kept' \in [Services -> SUBSET KeptFiles]
        /\ \A y \in Services : \A k \in kept'[y] :
              k \in kept[y] \/ (y = x /\ k.task = t /\ t \in disturbed')
    BY <1>0, <2>1, EmitFacts
  <2>3. \A y \in Services : KeptMoves(y)
    BY <2>1, <2>2 DEF KeptMoves
  <2>4. CASE WorkerCancels(x, t)
    <3>1. marked' = [marked EXCEPT ![x] = @ \ {t}] /\ JobGoes(t, "ended")
      BY <2>4 DEF WorkerCancels
    <3>2. job'[t].stage = "ended"
      BY <1>0, <3>1, JobGoesFacts
    <3>3. QED
      BY <1>0, <2>2, <2>3, <3>1, <3>2 DEF WorkerTyped, MarkedMoves
  <2>5. CASE ~WorkerCancels(x, t)
    <3>1. UNCHANGED marked
      BY <1>5, <2>5 DEF WorkerAccepts, WorkerStarts, WorkerProduces, WorkerEnds, WorkerStep
    <3>2. QED
      BY <1>0, <2>2, <2>3, <3>1 DEF WorkerTyped, MarkedMoves
  <2>6. QED
    BY <2>4, <2>5
<1>6. ASSUME NEW x \in Services, NEW k \in kept[x], WorkerReplays(x, k)
      PROVE  Goal
  BY <1>0, <1>6 DEF WorkerReplays, WorkerTyped, KeptMoves, MarkedMoves
<1>7. CASE UNCHANGED vars
  BY <1>1, <1>7 DEF vars, worker
<1>8. QED
  BY <1>2, <1>3, <1>4, <1>5, <1>6, <1>7 DEF Next, Working

LEMMA HistoryStep == ASSUME TypeOK, [Next]_vars PROVE HistoryGrows
<1>0. disturbed \subseteq Tasks /\ early \subseteq Tasks
  BY DEF TypeOK
<1>1. ASSUME UNCHANGED <<disturbed, early>>
      PROVE  HistoryGrows
  BY <1>0, <1>1 DEF HistoryGrows
<1>2. ASSUME NEW f \in Upward, Deliver(f), UNCHANGED disturbed
      PROVE  HistoryGrows
  BY <1>0, <1>2, FrameFacts DEF HistoryGrows, Deliver
<1>3. ASSUME NEW t \in Tasks, Send(t) \/ SendCancel(t)
      PROVE  HistoryGrows
  BY <1>0, <1>3 DEF HistoryGrows, Send, SendCancel
<1>4. ASSUME NEW t \in Tasks, TellFailure(t)
      PROVE  HistoryGrows
  <2>1. StatusOf(t, "failed") \in Upward
    BY FrameFacts DEF Statuses
  <2>2. QED
    BY <1>2, <1>4, <2>1 DEF TellFailure
<1>5. ASSUME NEW t \in Tasks,
             \/ CreateTask(t) \/ CreateUnsent(t) \/ Pick(t) \/ LookUpSocket(t) \/ SendStranded(t)
             \/ Record(t) \/ Subscribe(t) \/ DeleteTask(t) \/ LookUpTargets(t) \/ ToolTimeout(t)
      PROVE  HistoryGrows
  BY <1>1, <1>5 DEF CreateTask, CreateUnsent, Pick, LookUpSocket, SendStranded, Record, Subscribe,
         DeleteTask, LookUpTargets, LookingUp, ToolTimeout
<1>6. ASSUME NEW x \in Services, ForwardFrame(x)
      PROVE  HistoryGrows
  <2>1. handler[x] \in Upward /\ Deliver(handler[x]) /\ UNCHANGED disturbed
    BY <1>6 DEF ForwardFrame, TypeOK
  <2>2. QED
    BY <1>2, <2>1
<1>7. ASSUME NEW x \in Services, LinkBreaks(x)
      PROVE  HistoryGrows
  <2>1. PICK n \in 0 .. Len(uplink[x]) :
          disturbed' = disturbed \cup About(downlink[x]) \cup About(SubSeq(uplink[x], n + 1, Len(uplink[x])))
    BY <1>7 DEF LinkBreaks
  <2> DEFINE lost == SubSeq(uplink[x], n + 1, Len(uplink[x]))
  <2>2. lost \in Seq(Upward)
    <3>1. uplink[x] \in Seq(Upward)
      BY DEF TypeOK
    <3>2. \A i \in (n + 1) .. Len(uplink[x]) : uplink[x][i] \in Upward
      BY <3>1
    <3>3. n + 1 \in Int /\ Len(uplink[x]) \in Int
      BY <3>1
    <3>4. QED
      BY <3>2, <3>3, SubSeqProperties
  <2>3. About(lost) \subseteq Tasks
    <3>1. \A i \in DOMAIN lost : lost[i] \in Upward
      BY <2>2
    <3>2. QED
      BY <3>1, FrameFacts DEF About
  <2>4. UNCHANGED early
    BY <1>7 DEF LinkBreaks
  <2>5. QED
    BY <1>0, <2>1, <2>3, <2>4, AboutFacts DEF HistoryGrows
<1>8. ASSUME NEW x \in Services, Reconnect(x)
      PROVE  HistoryGrows
  BY <1>0, <1>8, AboutFacts DEF Reconnect, HistoryGrows
<1>9. ASSUME NEW x \in Services, NEW t \in Tasks,
             \/ WorkerAccepts(x, t) \/ WorkerCancels(x, t) \/ WorkerStarts(x, t)
             \/ WorkerProduces(x, t) \/ WorkerEnds(x, t)
      PROVE  HistoryGrows
  <2>1. PICK f \in Upward : Emit(x, f)
    BY <1>9, WorkerSays
  <2>2. disturbed \subseteq disturbed' /\ disturbed' \subseteq Tasks
    BY <1>0, <2>1, EmitFacts
  <2>3. UNCHANGED early
    BY <1>9 DEF WorkerAccepts, WorkerCancels, WorkerStarts, WorkerProduces, WorkerEnds, WorkerStep
  <2>4. QED
    BY <1>0, <2>2, <2>3 DEF HistoryGrows
<1>10. ASSUME NEW x \in Services, \/ ReceiveStatus(x) \/ ReceiveResult(x) \/ HandlerEnds(x) \/ SyncStop(x)
                                  \/ Register(x) \/ (\E t \in Tasks : WorkerMarks(x, t))
                                  \/ (\E k \in kept[x] : WorkerReplays(x, k))
       PROVE  HistoryGrows
  BY <1>1, <1>10 DEF ReceiveStatus, ReceiveResult, Handling, HandlerEnds, SyncStop, Register, WorkerMarks,
         WorkerReplays
<1>11. CASE UNCHANGED vars
  BY <1>1, <1>11 DEF vars
<1>12. QED
  BY <1>3, <1>4, <1>5, <1>6, <1>7, <1>8, <1>9, <1>10, <1>11
     DEF Next, Creating, Cancelling, Serving, Working
\* The signal of a DELETE.
CancelMoves(t) ==
    \/ cancel'[t] = cancel[t]
    \/ cancel[t].stage = "none" /\ cancel'[t].stage = "deleted"
    \/ /\ cancel[t].stage = "deleted" /\ cancel'[t].stage = "looked"
       /\ cancel'[t].seen = connected \cap running
       /\ cancel'[t].targets = IF dispatched[t] \in connected THEN {dispatched[t]}
                               ELSE ListServices(running, connected, WithoutCapability(Request[t]))
       /\ create'[t] = create[t]
    \/ /\ cancel[t].stage = "looked" /\ cancel'[t].stage = "signalled"
       /\ cancel'[t].targets = cancel[t].targets /\ cancel'[t].seen = cancel[t].seen
       /\ \A x \in cancel[t].targets :
             downlink'[x] = Append(downlink[x], CancelOf(t)) \/ t \in disturbed'

LEMMA CancelStep ==
    ASSUME TypeOK, [Next]_vars
    PROVE  cancel' \in [Tasks -> Cancellations] /\ \A t \in Tasks : CancelMoves(t)
<1> DEFINE Goal == cancel' \in [Tasks -> Cancellations] /\ \A t \in Tasks : CancelMoves(t)
<1>0. cancel \in [Tasks -> Cancellations] /\ create \in [Tasks -> Creations]
  BY DEF TypeOK
<1>1. ASSUME UNCHANGED cancel
      PROVE  Goal
  BY <1>0, <1>1 DEF CancelMoves
<1>2. ASSUME NEW t \in Tasks, NEW c \in Cancellations, cancel' = [cancel EXCEPT ![t] = c],
             cancel'[t] = c => CancelMoves(t)
      PROVE  Goal
  BY <1>0, <1>2 DEF CancelMoves
<1>3. ASSUME NEW t \in Tasks, DeleteTask(t)
      PROVE  Goal
  <2> DEFINE c == [cancel[t] EXCEPT !.stage = "deleted"]
  <2>1. cancel[t].stage = "none" /\ cancel' = [cancel EXCEPT ![t] = c]
    BY <1>3 DEF DeleteTask
  <2>2. c \in Cancellations /\ c.stage = "deleted"
    BY <1>0 DEF Cancellations
  <2> HIDE DEF c
  <2>3. QED
    BY <1>2, <2>1, <2>2 DEF CancelMoves
<1>4. ASSUME NEW t \in Tasks, LookUpTargets(t)
      PROVE  Goal
  <2> DEFINE to == IF dispatched[t] \in connected THEN {dispatched[t]}
                   ELSE ListServices(running, connected, WithoutCapability(Request[t]))
             c == [stage |-> "looked", targets |-> to, seen |-> connected \cap running]
  <2>1. cancel[t].stage = "deleted" /\ cancel' = [cancel EXCEPT ![t] = c] /\ create' = create
    BY <1>4 DEF LookUpTargets, LookingUp
  <2>2. to \subseteq Services
    BY DEF ListServices, Preferred, Eligible, TypeOK
  <2> HIDE DEF to
  <2>3. /\ c \in Cancellations /\ c.stage = "looked" /\ c.targets = to
        /\ c.seen = connected \cap running
    BY <2>2 DEF Cancellations, TypeOK
  <2> HIDE DEF c
  <2>4. cancel'[t] = c => CancelMoves(t)
    BY <2>1, <2>3 DEF CancelMoves, to
  <2>5. QED
    BY <1>2, <2>1, <2>3, <2>4
<1>5. ASSUME NEW t \in Tasks, SendCancel(t)
      PROVE  Goal
  <2> DEFINE c == [cancel[t] EXCEPT !.stage = "signalled"]
  <2>1. cancel[t].stage = "looked" /\ cancel' = [cancel EXCEPT ![t] = c]
    BY <1>5 DEF SendCancel
  <2>2. /\ c \in Cancellations /\ c.stage = "signalled"
        /\ c.targets = cancel[t].targets /\ c.seen = cancel[t].seen
    BY <1>0 DEF Cancellations
  <2>3. \A x \in cancel[t].targets :
             downlink'[x] = Append(downlink[x], CancelOf(t)) \/ t \in disturbed'
    <3>1. ASSUME NEW x \in cancel[t].targets, t \notin disturbed'
          PROVE  downlink'[x] = Append(downlink[x], CancelOf(t))
      <4>1. x \in connected /\ link[x] = "up"
        BY <1>5, <3>1 DEF SendCancel
      <4>2. x \in Services
        BY <4>1 DEF TypeOK
      <4>3. QED
        BY <1>5, <3>1, <4>1, <4>2 DEF SendCancel
    <3>2. QED
      BY <3>1
  <2> HIDE DEF c
  <2>4. QED
    BY <1>2, <2>1, <2>2, <2>3 DEF CancelMoves
<1>6. ASSUME NEW t \in Tasks, CreateTask(t) \/ CreateUnsent(t) \/ Creating(t) \/ ToolTimeout(t)
      PROVE  Goal
  BY <1>1, <1>6 DEF Creating, CreateTask, CreateUnsent, Pick, LookUpSocket, Send, SendStranded, Record,
         TellFailure, Subscribe, ToolTimeout
<1>7. ASSUME NEW x \in Services, Serving(x) \/ Register(x) \/ LinkBreaks(x) \/ Reconnect(x)
      PROVE  Goal
  BY <1>1, <1>7 DEF Serving, ReceiveStatus, ReceiveResult, Handling, ForwardFrame, HandlerEnds,
         SyncStop, Register, LinkBreaks, Reconnect
<1>8. ASSUME NEW x \in Services, NEW t \in Tasks, Working(x, t)
      PROVE  Goal
  BY <1>1, <1>8 DEF Working, WorkerAccepts, WorkerMarks, WorkerCancels, WorkerStarts,
                    WorkerProduces, WorkerEnds, WorkerStep
<1>9. ASSUME NEW x \in Services, NEW k \in kept[x], WorkerReplays(x, k)
      PROVE  Goal
  BY <1>1, <1>9 DEF WorkerReplays
<1>10. CASE UNCHANGED vars
  BY <1>1, <1>10 DEF vars
<1>11. QED
  BY <1>3, <1>4, <1>5, <1>6, <1>7, <1>8, <1>9, <1>10 DEF Next, Cancelling

\* The record of a dispatch names the service the task was sent to, or goes.
DispatchMoves ==
    /\ dispatched' \in [Tasks -> Services \cup {None}]
    /\ \A t \in Tasks : dispatched'[t] \in {dispatched[t], None, Target(t)}

LEMMA DispatchStep == ASSUME TypeOK, [Next]_vars PROVE DispatchMoves
<1>0. dispatched \in [Tasks -> Services \cup {None}] /\ \A t \in Tasks : Target(t) \in Services \cup {None}
  BY DEF TypeOK, Target, Creations
<1>1. ASSUME UNCHANGED dispatched
      PROVE  DispatchMoves
  BY <1>0, <1>1 DEF DispatchMoves
<1>2. ASSUME NEW x \in Services, Unregister(x)
      PROVE  DispatchMoves
  BY <1>0, <1>2 DEF DispatchMoves, Unregister
<1>3. ASSUME NEW t \in Tasks, Send(t)
      PROVE  DispatchMoves
  <2>1. \A x : Unregister(x) => DispatchMoves
    BY <1>0 DEF DispatchMoves, Unregister
  <2>2. QED
    BY <1>1, <1>3, <2>1 DEF Send
<1>4. ASSUME NEW t \in Tasks, Record(t)
      PROVE  DispatchMoves
  BY <1>0, <1>4 DEF DispatchMoves, Record
<1>5. ASSUME NEW x \in Services, ForwardFrame(x)
      PROVE  DispatchMoves
  BY <1>0, <1>5 DEF DispatchMoves, ForwardFrame
<1>6. ASSUME NEW t \in Tasks,
             \/ CreateTask(t) \/ CreateUnsent(t) \/ Pick(t) \/ LookUpSocket(t) \/ SendStranded(t)
             \/ TellFailure(t) \/ Subscribe(t) \/ DeleteTask(t) \/ Cancelling(t) \/ ToolTimeout(t)
      PROVE  DispatchMoves
  BY <1>1, <1>6 DEF CreateTask, CreateUnsent, Pick, LookUpSocket, SendStranded, TellFailure, Subscribe,
         DeleteTask, Cancelling, LookUpTargets, LookingUp, SendCancel, ToolTimeout
<1>7. ASSUME NEW x \in Services, HandlerEnds(x)
      PROVE  DispatchMoves
  BY <1>2, <1>7 DEF HandlerEnds
<1>8. ASSUME NEW x \in Services, \/ ReceiveStatus(x) \/ ReceiveResult(x) \/ SyncStop(x) \/ Register(x)
                                 \/ LinkBreaks(x) \/ Reconnect(x) \/ (\E t \in Tasks : Working(x, t))
                                 \/ (\E k \in kept[x] : WorkerReplays(x, k))
      PROVE  DispatchMoves
  BY <1>1, <1>8 DEF ReceiveStatus, ReceiveResult, Handling, SyncStop, Register, LinkBreaks, Reconnect,
         Working, WorkerAccepts, WorkerMarks, WorkerCancels, WorkerStarts, WorkerProduces, WorkerEnds,
         WorkerStep, WorkerReplays
<1>9. CASE UNCHANGED vars
  BY <1>1, <1>9 DEF vars
<1>10. QED
  BY <1>3, <1>4, <1>5, <1>6, <1>7, <1>8, <1>9 DEF Next, Creating, Serving

\* The tool subscribes, is told something, or stops waiting.
ToolMoves(t) ==
    \/ tool'[t] = tool[t] /\ collected'[t] = collected[t]
    \/ /\ create[t].stage = "returning" /\ create'[t].stage = "done"
       /\ tool'[t] = "waiting" /\ collected'[t] = collected[t]
    \/ /\ tool[t] = "waiting" /\ tool'[t] \notin {"none", "waiting"}
    \/ /\ tool[t] = "waiting" /\ tool'[t] = "waiting"
       /\ collected[t] \subseteq collected'[t]
       /\ collected'[t] = collected[t] \/ collected'[t] # All

ToolTyped == tool' \in [Tasks -> ToolStages] /\ collected' \in [Tasks -> SUBSET All]

LEMMA DeliverMoves ==
    ASSUME TypeOK, NEW f \in Upward, Deliver(f)
    PROVE  ToolTyped /\ \A t \in Tasks : ToolMoves(t)
<1>0. /\ tool \in [Tasks -> ToolStages] /\ collected \in [Tasks -> SUBSET All]
      /\ f.task \in Tasks /\ f.type \in {"status", "result"}
  BY FrameFacts DEF TypeOK, Upward, StatusOf
<1>1. ToolTyped
  BY DeliverFacts DEF ToolTyped
<1>2. CASE tool[f.task] = "waiting"
  <2> DEFINE have == collected[f.task] \cup (IF f.type = "result" THEN {f.index} ELSE {})
  <2>1. collected' = [collected EXCEPT ![f.task] = have] /\ tool' = [tool EXCEPT ![f.task] = Told(f, have)]
    BY <1>2 DEF Deliver
  <2>2. Told(f, have) = "waiting" => have = collected[f.task] \/ have # All
    BY <1>0 DEF Told
  <2>3. Told(f, have) # "none"
    BY <1>0, FrameFacts DEF Told
  <2>4. collected[f.task] \subseteq have
    OBVIOUS
  <2> HIDE DEF have
  <2>5. \A t \in Tasks : ToolMoves(t)
    BY <1>0, <1>2, <2>1, <2>2, <2>3, <2>4 DEF ToolMoves
  <2>6. QED
    BY <1>1, <2>5
<1>3. CASE tool[f.task] # "waiting"
  BY <1>1, <1>3 DEF Deliver, agent, ToolMoves
<1>4. QED
  BY <1>2, <1>3

LEMMA ToolStep ==
    ASSUME TypeOK, [Next]_vars
    PROVE  ToolTyped /\ \A t \in Tasks : ToolMoves(t)
<1> DEFINE Goal == ToolTyped /\ \A t \in Tasks : ToolMoves(t)
<1>0. tool \in [Tasks -> ToolStages] /\ collected \in [Tasks -> SUBSET All] /\ files \in [Tasks -> SUBSET All]
  BY DEF TypeOK
<1>1. ASSUME UNCHANGED agent
      PROVE  Goal
  BY <1>0, <1>1 DEF agent, ToolTyped, ToolMoves
<1>2. ASSUME NEW t \in Tasks, ToolTimeout(t)
      PROVE  Goal
  <2>1. /\ tool[t] = "waiting"
        /\ tool' \in {[tool EXCEPT ![t] = "completed"], [tool EXCEPT ![t] = "timeout"]}
        /\ collected' \in {collected, [collected EXCEPT ![t] = files[t]]}
    BY <1>2 DEF ToolTimeout
  <2>2. QED
    BY <1>0, <2>1 DEF ToolTyped, ToolMoves, ToolStages
<1>3. ASSUME NEW t \in Tasks, Subscribe(t)
      PROVE  Goal
  <2>1. /\ create[t].stage = "returning" /\ CreateGoes(t, "done")
        /\ tool' = [tool EXCEPT ![t] = "waiting"] /\ collected' = collected
    BY <1>3 DEF Subscribe, AtCreate
  <2>2. create'[t].stage = "done"
    BY <2>1, GoesFacts, StageNames DEF TypeOK
  <2>3. QED
    BY <1>0, <2>1, <2>2 DEF ToolTyped, ToolMoves, ToolStages
<1>4. ASSUME NEW t \in Tasks, TellFailure(t)
      PROVE  Goal
  <2>1. StatusOf(t, "failed") \in Upward
    BY FrameFacts DEF Statuses
  <2>2. QED
    BY <1>4, <2>1, DeliverMoves DEF TellFailure
<1>5. ASSUME NEW x \in Services, ForwardFrame(x)
      PROVE  Goal
  <2>1. handler[x] \in Upward /\ Deliver(handler[x])
    BY <1>5 DEF ForwardFrame, TypeOK
  <2>2. QED
    BY <2>1, DeliverMoves
<1>6. ASSUME NEW t \in Tasks,
             \/ CreateTask(t) \/ CreateUnsent(t) \/ Pick(t) \/ LookUpSocket(t) \/ SendStranded(t)
             \/ Send(t) \/ Record(t) \/ DeleteTask(t) \/ Cancelling(t)
      PROVE  Goal
  BY <1>1, <1>6 DEF CreateTask, CreateUnsent, Pick, LookUpSocket, SendStranded, Send, Record,
         DeleteTask, Cancelling, LookUpTargets, LookingUp, SendCancel
<1>7. ASSUME NEW x \in Services, \/ ReceiveStatus(x) \/ ReceiveResult(x) \/ HandlerEnds(x) \/ SyncStop(x)
                                 \/ Register(x) \/ LinkBreaks(x) \/ Reconnect(x)
                                 \/ (\E t \in Tasks : Working(x, t))
                                 \/ (\E k \in kept[x] : WorkerReplays(x, k))
      PROVE  Goal
  BY <1>1, <1>7 DEF ReceiveStatus, ReceiveResult, Handling, HandlerEnds, SyncStop, Register, LinkBreaks,
         Reconnect, Working, WorkerAccepts, WorkerMarks, WorkerCancels, WorkerStarts, WorkerProduces,
         WorkerEnds, WorkerStep, WorkerReplays
<1>8. CASE UNCHANGED vars
  BY <1>1, <1>8 DEF vars
<1>9. QED
  BY <1>2, <1>3, <1>4, <1>5, <1>6, <1>7, <1>8 DEF Next, Creating, Serving

\* Connections and links.
LinkTyped ==
    /\ connected' \subseteq Services /\ running' \subseteq Services
    /\ serving' \subseteq Services /\ ending' \subseteq Services
    /\ link' \in [Services -> {"up", "broken", "down"}] /\ drops' \in 0 .. MaxDrops

LEMMA LinkStep == ASSUME TypeOK, [Next]_vars PROVE LinkTyped
<1>0. /\ connected \subseteq Services /\ running \subseteq Services
      /\ serving \subseteq Services /\ ending \subseteq Services
      /\ link \in [Services -> {"up", "broken", "down"}] /\ drops \in 0 .. MaxDrops
  BY DEF TypeOK
<1>1. ASSUME UNCHANGED <<registry, link, drops>>
      PROVE  LinkTyped
  BY <1>0, <1>1 DEF LinkTyped, registry
<1>2. ASSUME NEW t \in Tasks, Send(t)
      PROVE  LinkTyped
  BY <1>0, <1>2 DEF LinkTyped, Send, Unregister
<1>3. ASSUME NEW x \in Services, HandlerEnds(x) \/ SyncStop(x) \/ Register(x) \/ Reconnect(x)
      PROVE  LinkTyped
  BY <1>0, <1>3 DEF LinkTyped, HandlerEnds, Unregister, SyncStop, Register, Reconnect
<1>4. ASSUME NEW x \in Services, LinkBreaks(x)
      PROVE  LinkTyped
  BY <1>0, <1>4, DispatchAssumption DEF LinkTyped, LinkBreaks, registry
<1>5. ASSUME NEW x \in Services, NEW t \in Tasks, Working(x, t)
      PROVE  LinkTyped
  <2>1. UNCHANGED <<registry, drops>>
    BY <1>5 DEF Working, WorkerAccepts, WorkerMarks, WorkerCancels, WorkerStarts, WorkerProduces,
           WorkerEnds, WorkerStep
  <2>2. CASE WorkerMarks(x, t)
    BY <1>1, <2>1, <2>2 DEF WorkerMarks
  <2>3. CASE ~WorkerMarks(x, t)
    <3>1. PICK f \in Upward : Emit(x, f)
      BY <1>5, <2>3, WorkerSays DEF Working
    <3>2. link' \in [Services -> {"up", "broken", "down"}]
      BY <3>1, EmitFacts
    <3>3. QED
      BY <1>0, <2>1, <3>2 DEF LinkTyped, registry
  <2>4. QED
    BY <2>2, <2>3
<1>6. ASSUME NEW t \in Tasks,
             \/ CreateTask(t) \/ CreateUnsent(t) \/ Pick(t) \/ LookUpSocket(t) \/ SendStranded(t) \/ Record(t)
             \/ TellFailure(t) \/ Subscribe(t) \/ DeleteTask(t) \/ Cancelling(t) \/ ToolTimeout(t)
      PROVE  LinkTyped
  BY <1>1, <1>6 DEF CreateTask, CreateUnsent, Pick, LookUpSocket, SendStranded, Record, TellFailure,
         Subscribe, DeleteTask, Cancelling, LookUpTargets, LookingUp, SendCancel, ToolTimeout
<1>7. ASSUME NEW x \in Services, \/ ReceiveStatus(x) \/ ReceiveResult(x) \/ ForwardFrame(x)
                                 \/ (\E k \in kept[x] : WorkerReplays(x, k))
      PROVE  LinkTyped
  BY <1>1, <1>7 DEF ReceiveStatus, ReceiveResult, Handling, ForwardFrame, WorkerReplays
<1>8. CASE UNCHANGED vars
  BY <1>1, <1>8 DEF vars
<1>9. QED
  BY <1>2, <1>3, <1>4, <1>5, <1>6, <1>7, <1>8 DEF Next, Creating, Serving
-----------------------------------------------------------------------------
(* Types                                                                    *)

LEMMA InitTypeOK == ASSUME Init PROVE TypeOK
<1>1. <<>> \in Seq(Upward) /\ <<>> \in Seq(Downward)
  OBVIOUS
<1>2. create \in [Tasks -> Creations] /\ cancel \in [Tasks -> Cancellations]
  <2>1. /\ [stage |-> "none", target |-> None] \in Creations
        /\ [stage |-> "none", targets |-> {}, seen |-> {}] \in Cancellations
    BY StageNames DEF Creations, Cancellations
  <2>2. QED
    BY <2>1 DEF Init
<1>3. job \in [Tasks -> Jobs] /\ drops \in 0 .. MaxDrops
  BY DispatchAssumption DEF Init, Jobs
<1>4. uplink \in [Services -> Seq(Upward)] /\ downlink \in [Services -> Seq(Downward)]
  BY <1>1 DEF Init
<1>5. QED
  BY <1>2, <1>3, <1>4 DEF Init, TypeOK, ToolStages

LEMMA TypeStep == ASSUME TypeOK, [Next]_vars PROVE TypeOK'
<1>1. create' \in [Tasks -> Creations] /\ cancel' \in [Tasks -> Cancellations] /\ job' \in [Tasks -> Jobs]
  BY CreateStep, CancelStep, JobStep
<1>2. downlink' \in [Services -> Seq(Downward)] /\ UpTyped /\ RowTyped /\ WorkerTyped
  BY DownStep, UpStep, RowStep, WorkerStepFacts
<1>3. HistoryGrows /\ DispatchMoves /\ ToolTyped /\ LinkTyped
  BY HistoryStep, DispatchStep, ToolStep, LinkStep
<1>4. QED
  BY <1>1, <1>2, <1>3
     DEF TypeOK, UpTyped, RowTyped, WorkerTyped, HistoryGrows, DispatchMoves, ToolTyped, LinkTyped

\* Every reachable state has the types of TypeOK: rows, frames and files are about
\* the tasks and services of the instance.
THEOREM TypeCorrect == Spec => []TypeOK
<1>1. Init => TypeOK
  BY InitTypeOK
<1>2. TypeOK /\ [Next]_vars => TypeOK'
  BY TypeStep
<1>3. QED
  BY <1>1, <1>2, PTL DEF Spec
-----------------------------------------------------------------------------
(* The effects of a step together, and what follows from them at once       *)

Effects ==
    /\ \A t \in Tasks : CreateMoves(t) /\ JobMoves(t) /\ RowMoves(t) /\ CancelMoves(t) /\ ToolMoves(t)
    /\ \A x \in Services : DownMoves(x) /\ UpMoves(x) /\ KeptMoves(x) /\ MarkedMoves(x)
    /\ HistoryGrows /\ DispatchMoves

LEMMA EffectsOfStep == ASSUME TypeOK, [Next]_vars PROVE TypeOK' /\ Effects
<1>1. TypeOK'
  BY TypeStep
<1>2. \A t \in Tasks : CreateMoves(t) /\ JobMoves(t) /\ RowMoves(t) /\ CancelMoves(t) /\ ToolMoves(t)
  BY CreateStep, JobStep, RowStep, CancelStep, ToolStep
<1>3. \A x \in Services : DownMoves(x) /\ UpMoves(x) /\ KeptMoves(x) /\ MarkedMoves(x)
  BY DownStep, UpStep, WorkerStepFacts
<1>4. QED
  BY <1>1, <1>2, <1>3, HistoryStep, DispatchStep DEF Effects

\* A task that is out stays out, at the same service; a target stays.
LEMMA TargetStays ==
    ASSUME TypeOK, OutOnly, Effects, NEW t \in Tasks
    PROVE  /\ create[t].stage \in Out => create'[t].stage \in Out /\ Target(t)' = Target(t)
           /\ Target(t) # None => Target(t)' = Target(t)
           /\ create[t].stage = "done" => create'[t].stage = "done"
<1>1. CreateMoves(t)
  BY DEF Effects
<1>2. create[t].stage = "created" => Target(t) = None
  BY DEF OutOnly
<1>3. QED
  BY <1>1, <1>2 DEF CreateMoves, Moved, Out, Target

\* Downward frames: what is there and what was there.
LEMMA DownIndices ==
    ASSUME TypeOK, NEW x \in Services
    PROVE  /\ \A f : Down(x, f) <=> \E i \in DOMAIN downlink[x] : downlink[x][i] = f
           /\ downlink[x] \in Seq(Downward)
  BY DEF Down, Range, TypeOK

LEMMA HeadIsDown ==
    ASSUME TypeOK, NEW x \in Services, downlink[x] # <<>>
    PROVE  Down(x, Head(downlink[x]))
  BY DownIndices, TailFacts

LEMMA HasIsOut ==
    ASSUME TypeOK, OutOnly, NEW x \in Services, NEW t \in Tasks, Has(x, t) \/ Keeps(x, t)
    PROVE  create[t].stage \in Out /\ Target(t) = x
<1>1. CASE Keeps(x, t)
  BY <1>1 DEF OutOnly
<1>2. CASE downlink[x] # <<>> /\ Head(downlink[x]) = Task(t)
  BY <1>2, HeadIsDown DEF OutOnly
<1>3. CASE Target(t) = x /\ job[t].stage # "none"
  BY <1>3 DEF OutOnly
<1>4. QED
  BY <1>1, <1>2, <1>3 DEF Has

\* Where a task frame on its way down comes from.
LEMMA TaskComesDown ==
    ASSUME TypeOK, Effects, TypeOK', NEW x \in Services, NEW t \in Tasks, Down(x, Task(t))'
    PROVE  Down(x, Task(t)) \/ (Moved(t, {"sending"}, "sent") /\ Target(t) = x)
<1>0. DownMoves(x) /\ downlink[x] \in Seq(Downward)
  BY DEF Effects, TypeOK
<1>1. PICK i \in DOMAIN downlink'[x] : downlink'[x][i] = Task(t)
  BY DownIndices DEF Down, Range
<1>2. ASSUME NEW u \in Tasks, NEW e \in {Task(u), CancelOf(u)}, downlink'[x] = Append(downlink[x], e)
      PROVE  Down(x, Task(t)) \/ e = Task(t)
  <2>1. e \in Downward
    BY DownFrameFacts
  <2>2. QED
    BY <1>0, <1>1, <1>2, <2>1, AppendFacts, DownIndices
<1>3. \A u \in Tasks : (Task(u) = Task(t) => u = t) /\ CancelOf(u) # Task(t)
  BY DownFrameFacts
<1>4. CASE downlink[x] # <<>> /\ downlink'[x] = Tail(downlink[x])
  BY <1>0, <1>1, <1>4, TailFacts, DownIndices
<1>5. CASE downlink'[x] = downlink[x]
  BY <1>1, <1>5, DownIndices
<1>6. CASE downlink'[x] = <<>>
  BY <1>1, <1>6
<1>7. QED
  BY <1>0, <1>2, <1>3, <1>4, <1>5, <1>6 DEF DownMoves

\* And where it goes: it is accepted, or lost.
LEMMA FrameGoesDown ==
    ASSUME TypeOK, Effects, TypeOK', NEW x \in Services, NEW t \in Tasks, NEW f \in {Task(t), CancelOf(t)},
           Down(x, f), t \notin disturbed'
    PROVE  \/ Down(x, f)'
           \/ f = Task(t) /\ job'[t].stage = "accepted"
           \/ f = CancelOf(t) /\ t \in marked'[x]
<1>0. DownMoves(x) /\ downlink[x] \in Seq(Downward) /\ f.task = t
  BY DownFrameFacts DEF Effects, TypeOK
<1>1. PICK i \in DOMAIN downlink[x] : downlink[x][i] = f
  BY DownIndices
<1>2. (\E j \in DOMAIN downlink'[x] : downlink'[x][j] = f) => Down(x, f)'
  BY DEF Down, Range
<1>3. ASSUME NEW u \in Tasks, NEW e \in {Task(u), CancelOf(u)}, downlink'[x] = Append(downlink[x], e)
      PROVE  Down(x, f)'
  <2>1. e \in Downward
    BY DownFrameFacts
  <2>2. QED
    BY <1>0, <1>1, <1>2, <1>3, <2>1, AppendFacts
<1>4. ASSUME downlink[x] # <<>>, downlink'[x] = Tail(downlink[x])
      PROVE  Down(x, f)' \/ Head(downlink[x]) = f
  <2>1. /\ Head(downlink[x]) = downlink[x][1]
        /\ i = 1 \/ (i - 1 \in DOMAIN Tail(downlink[x]) /\ Tail(downlink[x])[i - 1] = downlink[x][i])
    BY <1>0, <1>1, <1>4, TailFacts
  <2>2. QED
    BY <1>1, <1>2, <1>4, <2>1
<1>5. \A u \in Tasks : (Task(u) = Task(t) => u = t) /\ (CancelOf(u) = CancelOf(t) => u = t)
                       /\ CancelOf(u) # Task(t) /\ Task(u) # CancelOf(t)
  BY DownFrameFacts
<1>6. CASE downlink'[x] = downlink[x]
  BY <1>1, <1>2, <1>6
<1>7. ~(About(downlink[x]) \subseteq disturbed')
  BY <1>0, <1>1 DEF About
<1>8. ASSUME NEW u \in Tasks, downlink[x] # <<>>, Head(downlink[x]) \in {Task(u), CancelOf(u)},
             downlink'[x] = Tail(downlink[x]), ~Down(x, f)'
      PROVE  u = t /\ Head(downlink[x]) = f
  BY <1>4, <1>5, <1>8
<1>9. QED
  BY <1>0, <1>3, <1>5, <1>6, <1>7, <1>8 DEF DownMoves

\* What the handler has after a step.
LEMMA HandlerFacts ==
    ASSUME TypeOK, Effects, NEW x \in Services
    PROVE  \/ handler'[x] = handler[x] \/ handler'[x] = NoFrame
           \/ /\ uplink[x] # <<>> /\ uplink'[x] = Tail(uplink[x])
              /\ handler[x] = NoFrame /\ Recorded(x, Head(uplink[x]), handler'[x])
  BY DEF Effects, UpMoves

\* Where the frames on the way up come from: every one was there, or is the frame
\* at the end that the worker says now.
LEMMA FramesComeUp ==
    ASSUME TypeOK, Effects, NEW x \in Services, NEW i \in DOMAIN uplink'[x], TypeOK'
    PROVE  \/ i \in DOMAIN uplink[x] /\ uplink'[x][i] = uplink[x][i]
              /\ (\A j \in 1 .. i : uplink'[x][j] = uplink[x][j])
           \/ /\ uplink[x] # <<>> /\ uplink'[x] = Tail(uplink[x]) /\ Recorded(x, Head(uplink[x]), handler'[x])
              /\ i + 1 \in DOMAIN uplink[x] /\ uplink'[x][i] = uplink[x][i + 1]
           \/ /\ i = Len(uplink[x]) + 1 /\ uplink'[x][i] \in Upward /\ MaySay(x, uplink'[x][i])
              /\ uplink'[x] = Append(uplink[x], uplink'[x][i])
<1>0. UpMoves(x) /\ uplink[x] \in Seq(Upward) /\ uplink'[x] \in Seq(Upward)
  BY DEF Effects, TypeOK
<1>1. CASE uplink'[x] = uplink[x]
  BY <1>1
<1>2. CASE /\ uplink[x] # <<>> /\ uplink'[x] = Tail(uplink[x])
           /\ handler[x] = NoFrame /\ Recorded(x, Head(uplink[x]), handler'[x])
  BY <1>0, <1>2, TailFacts
<1>3. ASSUME NEW n \in 0 .. Len(uplink[x]), uplink'[x] = SubSeq(uplink[x], 1, n)
      PROVE  /\ i \in DOMAIN uplink[x] /\ uplink'[x][i] = uplink[x][i]
             /\ \A j \in 1 .. i : uplink'[x][j] = uplink[x][j]
  <2>1. DOMAIN uplink'[x] = 1 .. n /\ \A j \in 1 .. n : uplink'[x][j] = uplink[x][j]
    BY <1>0, <1>3, PrefixFacts
  <2>2. i \in 1 .. n /\ DOMAIN uplink[x] = 1 .. Len(uplink[x]) /\ Len(uplink[x]) \in Nat
    BY <1>0, <2>1
  <2>3. QED
    BY <2>1, <2>2
<1>4. ASSUME NEW f \in Upward, uplink'[x] = Append(uplink[x], f), MaySay(x, f)
      PROVE  \/ i \in DOMAIN uplink[x] /\ uplink'[x][i] = uplink[x][i]
                /\ (\A j \in 1 .. i : uplink'[x][j] = uplink[x][j])
             \/ i = Len(uplink[x]) + 1 /\ uplink'[x][i] = f
  <2>1. /\ DOMAIN uplink'[x] = DOMAIN uplink[x] \cup {Len(uplink[x]) + 1}
        /\ \A j \in DOMAIN uplink[x] : uplink'[x][j] = uplink[x][j]
        /\ uplink'[x][Len(uplink[x]) + 1] = f
    BY <1>0, <1>4, AppendFacts
  <2>2. DOMAIN uplink[x] = 1 .. Len(uplink[x]) /\ Len(uplink[x]) \in Nat
    BY <1>0
  <2>3. QED
    BY <2>1, <2>2
<1>5. QED
  BY <1>0, <1>1, <1>2, <1>3, <1>4 DEF UpMoves

LEMMA UpComesFrom ==
    ASSUME TypeOK, Effects, TypeOK', NEW x \in Services, NEW t \in Tasks, Up(x, t)'
    PROVE  Up(x, t) \/ Has(x, t) \/ Keeps(x, t)
<1>0. uplink[x] \in Seq(Upward)
  BY DEF TypeOK
<1>1. CASE handler'[x] # NoFrame /\ handler'[x].task = t
  <2>1. CASE handler'[x] = handler[x]
    BY <1>1, <2>1 DEF Up
  <2>2. CASE uplink[x] # <<>> /\ Recorded(x, Head(uplink[x]), handler'[x])
    <3>1. Head(uplink[x]).task = t /\ Head(uplink[x]) = uplink[x][1] /\ 1 \in DOMAIN uplink[x]
      BY <1>0, <1>1, <2>2, TailFacts DEF Recorded
    <3>2. QED
      BY <3>1 DEF Up, About
  <2>3. QED
    BY <1>1, <2>1, <2>2, HandlerFacts
<1>2. CASE t \in About(uplink'[x])
  <2>1. PICK i \in DOMAIN uplink'[x] : uplink'[x][i].task = t
    BY <1>2 DEF About
  <2>2. CASE \E j \in DOMAIN uplink[x] : uplink'[x][i] = uplink[x][j]
    BY <2>1, <2>2 DEF Up, About
  <2>3. CASE MaySay(x, uplink'[x][i])
    BY <2>1, <2>3 DEF MaySay
  <2>4. QED
    BY <2>2, <2>3, FramesComeUp
<1>3. QED
  BY <1>1, <1>2 DEF Up

\* Where a frame on the way up goes: it stays, is recorded, or is lost.
LEMMA FrameGoesUp ==
    ASSUME TypeOK, Effects, TypeOK', NEW x \in Services, NEW j \in DOMAIN uplink[x],
           uplink[x][j].task \notin disturbed'
    PROVE  \/ j \in DOMAIN uplink'[x] /\ uplink'[x][j] = uplink[x][j]
           \/ j - 1 \in DOMAIN uplink'[x] /\ uplink'[x][j - 1] = uplink[x][j]
              /\ uplink'[x] = Tail(uplink[x])
           \/ /\ j = 1 /\ uplink[x] # <<>> /\ uplink'[x] = Tail(uplink[x])
              /\ handler[x] = NoFrame /\ Recorded(x, uplink[x][1], handler'[x])
<1>0. UpMoves(x) /\ uplink[x] \in Seq(Upward) /\ uplink'[x] \in Seq(Upward)
  BY DEF Effects, TypeOK
<1>1. CASE uplink'[x] = uplink[x]
  BY <1>1
<1>2. CASE /\ uplink[x] # <<>> /\ uplink'[x] = Tail(uplink[x])
           /\ handler[x] = NoFrame /\ Recorded(x, Head(uplink[x]), handler'[x])
  BY <1>0, <1>2, TailFacts
<1>3. ASSUME NEW n \in 0 .. Len(uplink[x]), uplink'[x] = SubSeq(uplink[x], 1, n),
             About(SubSeq(uplink[x], n + 1, Len(uplink[x]))) \subseteq disturbed'
      PROVE  j \in DOMAIN uplink'[x] /\ uplink'[x][j] = uplink[x][j]
  <2> DEFINE lost == SubSeq(uplink[x], n + 1, Len(uplink[x]))
             s == uplink[x]
  <2>p. s \in Seq(Upward) /\ n \in 0 .. Len(s)
    BY <1>0
  <2> HIDE DEF s
  <2>q. /\ DOMAIN SubSeq(s, 1, n) = 1 .. n
        /\ \A i \in 1 .. n : SubSeq(s, 1, n)[i] = s[i]
        /\ \A i \in DOMAIN s :
             i <= n \/ s[i] \in {SubSeq(s, n + 1, Len(s))[k] : k \in DOMAIN SubSeq(s, n + 1, Len(s))}
    BY <2>p, PrefixFacts
  <2>a. /\ DOMAIN SubSeq(uplink[x], 1, n) = 1 .. n
        /\ \A i \in 1 .. n : SubSeq(uplink[x], 1, n)[i] = uplink[x][i]
        /\ j <= n \/ uplink[x][j] \in {lost[i] : i \in DOMAIN lost}
    BY <2>q DEF s
  <2> HIDE DEF lost
  <2>1. /\ DOMAIN uplink'[x] = 1 .. n /\ (\A i \in 1 .. n : uplink'[x][i] = uplink[x][i])
        /\ j <= n \/ \E i \in DOMAIN lost : lost[i] = uplink[x][j]
    BY <1>3, <2>a
  <2>2. ~(\E i \in DOMAIN lost : lost[i] = uplink[x][j])
    BY <1>3 DEF About, lost
  <2>3. j \in 1 .. Len(uplink[x])
    BY <1>0
  <2>4. QED
    BY <2>1, <2>2, <2>3
<1>4. ASSUME NEW f \in Upward, uplink'[x] = Append(uplink[x], f)
      PROVE  j \in DOMAIN uplink'[x] /\ uplink'[x][j] = uplink[x][j]
  BY <1>0, <1>4, AppendFacts
<1>5. QED
  BY <1>0, <1>1, <1>2, <1>3, <1>4 DEF UpMoves
-----------------------------------------------------------------------------
(* Each part of the invariant is kept by a step                             *)

LEMMA OutOnlyStep == ASSUME IInv, TypeOK', Effects PROVE OutOnly'
<1>0. TypeOK /\ OutOnly
  BY DEF IInv
<1>1. ASSUME NEW t \in Tasks
      PROVE  /\ create'[t].stage \in {"picked", "sending", "stranded", "sent"} => Target(t)' \in Services
             /\ create'[t].stage \in {"none", "created"} => Target(t)' = None
  <2>1. CreateMoves(t)
    BY DEF Effects
  <2>2. /\ create[t].stage \in {"picked", "sending", "stranded", "sent"} => create[t].target \in Services
        /\ create[t].stage \in {"none", "created"} => create[t].target = None
    BY <1>0 DEF OutOnly, Target
  <2>3. QED
    BY <2>1, <2>2 DEF CreateMoves, Moved, Target
<1>2. ASSUME NEW t \in Tasks, job'[t].stage # "none" \/ job'[t].made # 0
      PROVE  create'[t].stage \in Out /\ Target(t)' \in Services
  <2>1. JobMoves(t)
    BY DEF Effects
  <2>2. (job[t].stage # "none" \/ job[t].made # 0) \/ \E x \in Services : Has(x, t)
    BY <1>2, <2>1 DEF JobMoves, At, Has
  <2>3. create[t].stage \in Out /\ Target(t) \in Services
    BY <1>0, <2>2, HasIsOut DEF OutOnly
  <2>4. QED
    BY <1>0, <2>3, TargetStays
<1>3. ASSUME NEW t \in Tasks, NEW x \in Services, Down(x, Task(t))'
      PROVE  create'[t].stage \in Out /\ Target(t)' = x
  <2>1. CASE Down(x, Task(t))
    BY <1>0, <2>1, TargetStays DEF OutOnly
  <2>2. CASE Moved(t, {"sending"}, "sent") /\ Target(t) = x
    BY <2>2 DEF Moved, Out, Target
  <2>3. QED
    BY <1>0, <1>3, <2>1, <2>2, TaskComesDown
<1>4. ASSUME NEW t \in Tasks, NEW x \in Services, Up(x, t)' \/ Keeps(x, t)'
      PROVE  create'[t].stage \in Out /\ Target(t)' = x
  <2>1. Keeps(x, t)' => Keeps(x, t) \/ Has(x, t)
    BY DEF Effects, KeptMoves, Keeps
  <2>2. Up(x, t) \/ Has(x, t) \/ Keeps(x, t)
    BY <1>0, <1>4, <2>1, UpComesFrom
  <2>3. create[t].stage \in Out /\ Target(t) = x
    BY <1>0, <2>2, HasIsOut DEF OutOnly
  <2>4. QED
    BY <1>0, <2>3, TargetStays
<1>5. ASSUME NEW t \in Tasks
      PROVE  dispatched'[t] \in {None, Target(t)'}
  <2>1. dispatched'[t] \in {dispatched[t], None, Target(t)} /\ dispatched[t] \in {None, Target(t)}
    BY <1>0 DEF Effects, DispatchMoves, OutOnly
  <2>2. Target(t) = None \/ Target(t)' = Target(t)
    BY <1>0, TargetStays
  <2>3. QED
    BY <2>1, <2>2
<1>6. QED
  BY <1>1, <1>2, <1>3, <1>4, <1>5 DEF OutOnly

LEMMA SentOnceStep == ASSUME IInv, TypeOK', Effects, OutOnly' PROVE SentOnce'
<1>0. TypeOK /\ OutOnly /\ SentOnce
  BY DEF IInv
<1>1. ASSUME NEW t \in Tasks, NEW x \in Services, Down(x, Task(t))', job'[t].stage # "none"
      PROVE  FALSE
  <2>1. CASE Down(x, Task(t))
    <3>1. job[t].stage = "none" /\ Target(t) = x /\ Target(t)' = x
      BY <1>0, <2>1, TargetStays DEF SentOnce, OutOnly
    <3>2. JobMoves(t)
      BY DEF Effects
    <3>3. PICK y \in Services : /\ downlink[y] # <<>> /\ Head(downlink[y]) = Task(t)
                                /\ downlink'[y] = Tail(downlink[y])
      BY <1>1, <3>1, <3>2 DEF JobMoves, At
    <3>4. y = x
      BY <1>0, <3>1, <3>3, HeadIsDown DEF OutOnly
    <3>5. PICK i \in DOMAIN Tail(downlink[x]) : Tail(downlink[x])[i] = Task(t)
      BY <1>1, <3>3, <3>4 DEF Down, Range
    <3>6. /\ i + 1 \in DOMAIN downlink[x] /\ downlink[x][i + 1] = Task(t)
          /\ 1 \in DOMAIN downlink[x] /\ downlink[x][1] = Task(t) /\ i \in Nat \ {0}
      BY <1>0, <3>3, <3>4, <3>5, TailFacts DEF TypeOK
    <3>7. i + 1 = 1
      BY <1>0, <3>6, DownFrameFacts DEF SentOnce
    <3>8. QED
      BY <3>6, <3>7
  <2>2. CASE Moved(t, {"sending"}, "sent")
    <3>1. job[t].stage = "none" /\ \A y \in Services : ~Has(y, t)
      BY <1>0, <2>2, HasIsOut DEF Moved, OutOnly, Out
    <3>2. JobMoves(t)
      BY DEF Effects
    <3>3. QED
      BY <1>1, <3>1, <3>2 DEF JobMoves, At, Has
  <2>3. QED
    BY <1>0, <1>1, <2>1, <2>2, TaskComesDown
<1>2. ASSUME NEW x \in Services, NEW i \in DOMAIN downlink'[x], NEW j \in DOMAIN downlink'[x],
             downlink'[x][i].type = "task", downlink'[x][i] = downlink'[x][j]
      PROVE  i = j
  <2>0. DownMoves(x) /\ downlink[x] \in Seq(Downward)
    BY <1>0 DEF Effects, TypeOK
  <2>a. \A k, l \in DOMAIN downlink[x] :
          downlink[x][k].type = "task" /\ downlink[x][k] = downlink[x][l] => k = l
    BY <1>0 DEF SentOnce
  <2>1. CASE downlink'[x] = downlink[x] \/ downlink'[x] = <<>>
    BY <1>2, <2>a, <2>1
  <2>2. CASE downlink[x] # <<>> /\ downlink'[x] = Tail(downlink[x])
    <3>1. /\ i + 1 \in DOMAIN downlink[x] /\ downlink'[x][i] = downlink[x][i + 1]
          /\ j + 1 \in DOMAIN downlink[x] /\ downlink'[x][j] = downlink[x][j + 1]
          /\ i \in Nat /\ j \in Nat
      BY <1>2, <2>0, <2>2, TailFacts
    <3>2. i + 1 = j + 1
      BY <1>2, <2>a, <3>1
    <3>3. QED
      BY <3>1, <3>2
  <2>3. ASSUME NEW e \in Downward, downlink'[x] = Append(downlink[x], e),
               e.type = "task" => ~Down(x, e)
        PROVE  i = j
    <3>1. /\ DOMAIN downlink'[x] = DOMAIN downlink[x] \cup {Len(downlink[x]) + 1}
          /\ \A k \in DOMAIN downlink[x] : downlink'[x][k] = downlink[x][k]
          /\ downlink'[x][Len(downlink[x]) + 1] = e
      BY <2>0, <2>3, AppendFacts
    <3>2. ASSUME NEW k \in DOMAIN downlink[x], downlink[x][k] = e
          PROVE  e.type # "task"
      BY <1>0, <2>3, <3>2, DownIndices
    <3>3. QED
      BY <1>2, <2>a, <3>1, <3>2
  <2>4. ASSUME NEW u \in Tasks, Moved(u, {"sending"}, "sent"), downlink'[x] = Append(downlink[x], Task(u))
        PROVE  i = j
    <3>1. ~Down(x, Task(u))
      BY <1>0, <2>4 DEF Moved, OutOnly, Out
    <3>2. QED
      BY <2>3, <2>4, <3>1, DownFrameFacts
  <2>5. ASSUME NEW u \in Tasks, downlink'[x] = Append(downlink[x], CancelOf(u))
        PROVE  i = j
    BY <2>3, <2>5, DownFrameFacts
  <2>6. QED
    BY <2>0, <2>1, <2>2, <2>4, <2>5 DEF DownMoves
<1>3. QED
  BY <1>1, <1>2 DEF SentOnce

LEMMA PendingStep == ASSUME IInv, TypeOK', Effects, OutOnly' PROVE PendingIsComing'
<1>0. TypeOK /\ OutOnly /\ SentOnce /\ PendingIsComing
  BY DEF IInv
<1>1. ASSUME NEW t \in Tasks, status'[t] = "pending", create[t].stage # "none"
      PROVE  status[t] = "pending"
  BY <1>1 DEF Effects, RowMoves
<1>2. ASSUME NEW x \in Services, handler'[x] # NoFrame
      PROVE  status'[handler'[x].task] # "pending"
  <2>1. CASE handler'[x] = handler[x]
    <3>1. handler[x].task \in Tasks /\ status[handler[x].task] # "pending" /\ Up(x, handler[x].task)
      BY <1>0, <1>2, <2>1, FrameFacts DEF TypeOK, PendingIsComing, Up
    <3>2. create[handler[x].task].stage # "none"
      BY <1>0, <3>1 DEF OutOnly, Out
    <3>3. QED
      BY <1>1, <2>1, <3>1, <3>2
  <2>2. CASE Recorded(x, Head(uplink[x]), handler'[x])
    <3>1. status'[handler'[x].task] = handler'[x].status /\ handler'[x].status \in Statuses
      BY <2>2, FrameFacts DEF Recorded
    <3>2. QED
      BY <3>1 DEF Statuses
  <2>3. QED
    BY <1>0, <1>2, <2>1, <2>2, HandlerFacts
<1>3. ASSUME NEW t \in Tasks, create'[t].stage = "failing"
      PROVE  status'[t] # "pending"
  <2>1. CreateMoves(t)
    BY DEF Effects
  <2>2. create[t].stage = "failing" \/ status'[t] = "failed"
    BY <1>3, <2>1 DEF CreateMoves, Moved
  <2>3. QED
    BY <1>0, <1>1, <2>2 DEF PendingIsComing
<1>4. ASSUME NEW t \in Tasks, create'[t].stage \in Out, status'[t] = "pending", Target(t)' # None,
             t \notin disturbed'
      PROVE  Down(Target(t), Task(t))' \/ t \in About(uplink[Target(t)])'
  <2>0. CreateMoves(t) /\ t \notin disturbed
    BY <1>4 DEF Effects, HistoryGrows
  <2>1. CASE create[t].stage \notin Out
    <3>1. create[t].stage # "failing"
      BY <1>0, <1>1, <1>4 DEF PendingIsComing
    <3>2. Moved(t, {"none"}, "returning") \/ Moved(t, {"sending"}, "sent")
      BY <1>4, <2>0, <2>1, <3>1 DEF CreateMoves, Moved, Out
    <3>3. Target(t)' = Target(t) /\ create[t].stage # "none"
      BY <1>0, <1>4, <3>2 DEF Moved, Target, OutOnly
    <3>4. Target(t) \in Services /\ downlink'[Target(t)] = Append(downlink[Target(t)], Task(t))
      BY <1>0, <1>4, <2>0, <3>2, <3>3 DEF CreateMoves, Moved, OutOnly
    <3>5. Down(Target(t), Task(t))'
      BY <1>0, <3>3, <3>4, AppendFacts, DownFrameFacts DEF Down, Range, TypeOK
    <3>6. QED
      BY <3>5
  <2>2. CASE create[t].stage \in Out
    <3>1. Target(t)' = Target(t) /\ status[t] = "pending"
      BY <1>0, <1>1, <1>4, <2>2, TargetStays DEF Out
    <3>2. PICK x \in Services : x = Target(t)
      BY <1>0, <1>4, <3>1 DEF TypeOK, Creations, Target
    <3>3. Down(x, Task(t)) \/ t \in About(uplink[x])
      BY <1>0, <1>4, <2>0, <2>2, <3>1, <3>2 DEF PendingIsComing
    <3>4. CASE Down(x, Task(t))
      <4>1. Down(x, Task(t))' \/ job'[t].stage = "accepted"
        BY <1>0, <1>4, <3>4, FrameGoesDown, DownFrameFacts
      <4>2. ASSUME job'[t].stage = "accepted"
            PROVE  t \in About(uplink'[x])
        <5>1. job[t].stage = "none" /\ JobMoves(t)
          BY <1>0, <3>4 DEF SentOnce, Effects
        <5>2. PICK y \in Services : /\ downlink[y] # <<>> /\ Head(downlink[y]) = Task(t)
                                    /\ Says(y, StatusOf(t, "queued"))
          BY <4>2, <5>1 DEF JobMoves, At
        <5>3. y = x
          BY <1>0, <3>4, <5>2, HeadIsDown DEF OutOnly
        <5>4. StatusOf(t, "queued") \in Upward /\ StatusOf(t, "queued").task = t
          BY FrameFacts DEF Statuses, StatusOf
        <5>5. uplink'[x] = Append(uplink[x], StatusOf(t, "queued"))
          BY <1>4, <5>2, <5>3, <5>4 DEF Says
        <5>6. QED
          BY <1>0, <5>4, <5>5, AppendFacts DEF About, TypeOK
      <4>3. QED
        BY <3>1, <3>2, <4>1, <4>2
    <3>5. CASE t \in About(uplink[x])
      <4>1. PICK j \in DOMAIN uplink[x] : uplink[x][j].task = t
        BY <3>5 DEF About
      <4>2. ~Recorded(x, uplink[x][j], handler'[x])
        <5>1. ASSUME Recorded(x, uplink[x][j], handler'[x])
              PROVE  FALSE
          <6>1. status'[t] \in Statuses
            BY <4>1, <5>1, FrameFacts DEF Recorded
          <6>2. QED
            BY <1>4, <6>1 DEF Statuses
        <5>2. QED
          BY <5>1
      <4>3. \E i \in DOMAIN uplink'[x] : uplink'[x][i].task = t
        BY <1>0, <1>4, <4>1, <4>2, FrameGoesUp
      <4>4. t \in About(uplink'[x])
        BY <4>3 DEF About
      <4>5. QED
        BY <3>1, <3>2, <4>4
    <3>6. QED
      BY <3>3, <3>4, <3>5
  <2>3. QED
    BY <2>1, <2>2
<1>5. QED
  BY <1>2, <1>3, <1>4 DEF PendingIsComing

\* A file of t that is recorded, or on its way, stays so.
LEMMA RecordedStays ==
    ASSUME TypeOK, TypeOK', Effects, NEW x \in Services, NEW t \in Tasks, t \notin disturbed',
           NEW k, NEW n \in 0 .. Len(uplink[x]), RecordedBy(x, t, k, n)
    PROVE  /\ k \in files'[t] \/ \E j \in DOMAIN uplink'[x] : j <= n /\ IsFile(uplink'[x][j], t, k)
           /\ uplink[x] # <<>> /\ uplink'[x] = Tail(uplink[x]) /\ Recorded(x, Head(uplink[x]), handler'[x]) =>
                k \in files'[t] \/ \E j \in DOMAIN uplink'[x] : j <= n - 1 /\ IsFile(uplink'[x][j], t, k)
<1>0. uplink[x] \in Seq(Upward) /\ uplink'[x] \in Seq(Upward)
  BY DEF TypeOK
<1>1. CASE k \in files[t]
  BY <1>1 DEF Effects, RowMoves
<1>2. CASE k \notin files[t]
  <2>1. PICK j \in 1 .. n : IsFile(uplink[x][j], t, k)
    BY <1>2 DEF RecordedBy
  <2>2. j \in DOMAIN uplink[x] /\ n \in Nat /\ j \in Nat
    BY <1>0, <2>1
  <2>3. ASSUME Recorded(x, uplink[x][j], handler'[x])
        PROVE  k \in files'[t]
    <3>1. uplink[x][j].type = "result" /\ uplink[x][j].task = t /\ uplink[x][j].index = k
      BY <2>1 DEF IsFile
    <3>2. files'[t] = files[t] \cup {k}
      BY <2>3, <3>1 DEF Recorded
    <3>3. QED
      BY <3>2
  <2>4. uplink[x][j].task \notin disturbed'
    BY <2>1 DEF IsFile
  <2>5. k \in files'[t] \/ \E i \in DOMAIN uplink'[x] : i <= n /\ IsFile(uplink'[x][i], t, k)
    <3>1. (j \in DOMAIN uplink'[x] /\ uplink'[x][j] = uplink[x][j])
          \/ (j - 1 \in DOMAIN uplink'[x] /\ uplink'[x][j - 1] = uplink[x][j])
          \/ k \in files'[t]
      BY <1>0, <2>2, <2>3, <2>4, FrameGoesUp
    <3>2. j <= n /\ j - 1 <= n
      BY <2>1, <2>2
    <3>3. QED
      BY <2>1, <3>1, <3>2
  <2>6. ASSUME uplink[x] # <<>>, uplink'[x] = Tail(uplink[x]), Recorded(x, Head(uplink[x]), handler'[x])
        PROVE  k \in files'[t] \/ \E i \in DOMAIN uplink'[x] : i <= n - 1 /\ IsFile(uplink'[x][i], t, k)
    <3>1. j = 1 \/ (j - 1 \in DOMAIN uplink'[x] /\ uplink'[x][j - 1] = uplink[x][j])
      BY <1>0, <2>2, <2>6, TailFacts
    <3>2. Head(uplink[x]) = uplink[x][1]
      BY <1>0, <2>6, TailFacts
    <3>3. j - 1 <= n - 1
      BY <2>1, <2>2
    <3>4. QED
      BY <2>1, <2>3, <2>6, <3>1, <3>2, <3>3
  <2>7. QED
    BY <2>5, <2>6
<1>3. QED
  BY <1>1, <1>2

LEMMA CompletedStep == ASSUME IInv, TypeOK', Effects PROVE CompletedHasFiles'
<1>0. TypeOK /\ OutOnly /\ CompletedHasFiles /\ FilesComeFirst
  BY DEF IInv
<1>1. ASSUME NEW t \in Tasks, status'[t] = "completed", files'[t] # All, t \notin disturbed'
      PROVE  FALSE
  <2>1. RowMoves(t) /\ t \notin disturbed /\ files'[t] \subseteq All
    BY <1>1 DEF Effects, HistoryGrows, TypeOK
  <2>2. files[t] # All
    BY <1>1, <2>1 DEF RowMoves
  <2>3. PICK x \in Services : uplink[x] # <<>> /\ Head(uplink[x]) = StatusOf(t, "completed")
    BY <1>0, <1>1, <2>1, <2>2 DEF RowMoves, CompletedHasFiles
  <2>4. 1 \in 1 .. Len(uplink[x]) /\ uplink[x][1] = StatusOf(t, "completed")
    BY <1>0, <2>3, TailFacts DEF TypeOK
  <2>5. \A k \in All : RecordedBy(x, t, k, 1 - 1)
    BY <1>0, <2>1, <2>4 DEF FilesComeFirst
  <2>6. All \subseteq files[t]
    BY <2>5 DEF RecordedBy
  <2>7. QED
    BY <1>0, <2>2, <2>6 DEF TypeOK
<1>2. QED
  BY <1>1 DEF CompletedHasFiles

LEMMA FilesStep == ASSUME IInv, TypeOK', Effects PROVE FilesComeFirst'
<1>0. TypeOK /\ OutOnly /\ FilesComeFirst
  BY DEF IInv
<1>a. \A x \in Services : uplink[x] \in Seq(Upward) /\ uplink'[x] \in Seq(Upward)
  BY <1>0 DEF TypeOK
<1>b. disturbed \subseteq disturbed'
  BY DEF Effects, HistoryGrows
<1>1. ASSUME NEW x \in Services, NEW k \in kept'[x]
      PROVE  k.task \in disturbed'
  BY <1>0, <1>b DEF Effects, KeptMoves, FilesComeFirst
<1>2. ASSUME NEW x \in Services, NEW t \in Tasks, Target(t) = x, NEW k \in 1 .. job[t].made,
             t \notin disturbed'
      PROVE  RecordedBy(x, t, k, Len(uplink[x]))
  BY <1>0, <1>2, <1>b DEF FilesComeFirst
<1>3. ASSUME NEW t \in Tasks, NEW k \in 1 .. job'[t].made, t \notin disturbed'
      PROVE  RecordedBy(Target(t), t, k, Len(uplink[Target(t)]))'
  <2>0. job[t].made \in Nat /\ job'[t].made \in Nat /\ JobMoves(t)
    BY <1>0 DEF TypeOK, Jobs, Effects
  <2>1. CASE k <= job[t].made
    <3>1. k \in 1 .. job[t].made /\ job[t].made # 0
      BY <2>0, <2>1
    <3>2. PICK x \in Services : Target(t) = x /\ Target(t)' = x
      BY <1>0, <3>1, TargetStays DEF OutOnly
    <3>3. Len(uplink[x]) \in 0 .. Len(uplink[x])
      BY <1>a
    <3>4. k \in files'[t] \/ \E j \in DOMAIN uplink'[x] : IsFile(uplink'[x][j], t, k)
      BY <1>0, <1>2, <1>3, <3>1, <3>2, <3>3, RecordedStays
    <3>5. DOMAIN uplink'[x] = 1 .. Len(uplink'[x])
      BY <1>a
    <3>6. QED
      BY <3>2, <3>4, <3>5 DEF RecordedBy
  <2>2. CASE k > job[t].made
    <3>1. PICK x \in Services : /\ At(x, t, "running") /\ k = job[t].made + 1
                                /\ Says(x, ResultOf(t, job[t].made + 1))
      BY <2>0, <2>2 DEF JobMoves
    <3>2. ResultOf(t, k) \in Upward /\ IsFile(ResultOf(t, k), t, k)
      <4>1. k \in All
        BY <1>3, DispatchAssumption DEF TypeOK, Jobs, All
      <4>2. QED
        BY <4>1, FrameFacts DEF IsFile, ResultOf
    <3>3. Target(t)' = x
      BY <1>0, <3>1, TargetStays DEF At, OutOnly
    <3>4. uplink'[x] = Append(uplink[x], ResultOf(t, k))
      BY <1>3, <3>1, <3>2 DEF Says, IsFile
    <3>5. Len(uplink[x]) + 1 \in 1 .. Len(uplink'[x]) /\ uplink'[x][Len(uplink[x]) + 1] = ResultOf(t, k)
      BY <1>a, <3>2, <3>4, AppendFacts
    <3>6. QED
      BY <3>2, <3>3, <3>5 DEF RecordedBy
  <2>3. QED
    BY <2>0, <2>1, <2>2
<1>4. ASSUME NEW x \in Services, NEW t \in Tasks, NEW i \in 1 .. Len(uplink'[x]),
             uplink'[x][i] = StatusOf(t, "completed"), t \notin disturbed', NEW k \in All
      PROVE  RecordedBy(x, t, k, i - 1)'
  <2>0. /\ i \in DOMAIN uplink'[x] /\ DOMAIN uplink[x] = 1 .. Len(uplink[x]) /\ Len(uplink[x]) \in Nat
        /\ DOMAIN uplink'[x] = 1 .. Len(uplink'[x])
    BY <1>a
  <2>1. ASSUME NEW n \in 0 .. Len(uplink[x]), RecordedBy(x, t, k, n)
        PROVE  /\ n = i - 1 => RecordedBy(x, t, k, i - 1)'
               /\ /\ n = i /\ uplink[x] # <<>> /\ uplink'[x] = Tail(uplink[x])
                  /\ Recorded(x, Head(uplink[x]), handler'[x])
                  => RecordedBy(x, t, k, i - 1)'
    <3>1. /\ k \in files'[t] \/ \E j \in DOMAIN uplink'[x] : j <= n /\ IsFile(uplink'[x][j], t, k)
          /\ uplink[x] # <<>> /\ uplink'[x] = Tail(uplink[x]) /\ Recorded(x, Head(uplink[x]), handler'[x]) =>
               k \in files'[t] \/ \E j \in DOMAIN uplink'[x] : j <= n - 1 /\ IsFile(uplink'[x][j], t, k)
      BY <1>0, <1>4, <2>1, RecordedStays
    <3>2. \A j \in DOMAIN uplink'[x] : j <= i - 1 => j \in 1 .. i - 1
      BY <2>0
    <3>3. QED
      BY <3>1, <3>2 DEF RecordedBy
  <2>2. CASE i \in DOMAIN uplink[x] /\ uplink'[x][i] = uplink[x][i]
    <3>1. RecordedBy(x, t, k, i - 1)
      BY <1>0, <1>4, <1>b, <2>0, <2>2 DEF FilesComeFirst
    <3>2. i - 1 \in 0 .. Len(uplink[x])
      BY <2>0, <2>2
    <3>3. QED
      BY <2>1, <3>1, <3>2
  <2>3. CASE /\ uplink[x] # <<>> /\ uplink'[x] = Tail(uplink[x]) /\ Recorded(x, Head(uplink[x]), handler'[x])
             /\ i + 1 \in DOMAIN uplink[x] /\ uplink'[x][i] = uplink[x][i + 1]
    <3>1. RecordedBy(x, t, k, (i + 1) - 1)
      BY <1>0, <1>4, <1>b, <2>0, <2>3 DEF FilesComeFirst
    <3>2. i \in 0 .. Len(uplink[x]) /\ (i + 1) - 1 = i
      BY <2>0, <2>3
    <3>3. QED
      BY <2>1, <2>3, <3>1, <3>2
  <2>4. CASE i = Len(uplink[x]) + 1 /\ MaySay(x, uplink'[x][i])
    <3>1. /\ StatusOf(t, "completed").type = "status" /\ StatusOf(t, "completed").status = "completed"
          /\ StatusOf(t, "completed").task = t
      BY DEF StatusOf
    <3>2. ~Keeps(x, t)
      BY <1>0, <1>4, <1>b DEF FilesComeFirst, Keeps
    <3>3. Target(t) = x /\ job[t].made = Total
      BY <1>4, <2>4, <3>1, <3>2 DEF MaySay
    <3>4. RecordedBy(x, t, k, Len(uplink[x]))
      BY <1>2, <1>4, <3>3 DEF All
    <3>5. Len(uplink[x]) \in 0 .. Len(uplink[x]) /\ Len(uplink[x]) = i - 1
      BY <2>0, <2>4
    <3>6. QED
      BY <2>1, <3>4, <3>5
  <2>5. QED
    BY <1>0, <2>0, <2>2, <2>3, <2>4, FramesComeUp
<1>5. QED
  BY <1>1, <1>3, <1>4 DEF FilesComeFirst

\* A row that is final stays so, unless a frame about the task is there to be read.
LEMMA FinalStays ==
    ASSUME TypeOK, Effects, NEW t \in Tasks, Final(t), create[t].stage # "none",
           \A x \in Services : t \notin About(uplink[x])
    PROVE  Final(t)'
<1>1. ASSUME NEW x \in Services
      PROVE  ~Rewritten(x, t)
  BY <1>1, TailFacts DEF Rewritten, About, TypeOK
<1>2. status[t] \in Terminal /\ "pending" \notin Terminal
  BY DEF Final, Terminal
<1>3. RowMoves(t)
  BY DEF Effects
<1>4. QED
  BY <1>1, <1>2, <1>3 DEF RowMoves, Final

\* A task that is not under way at its service has no new frames.
LEMMA NothingNewIsSaid ==
    ASSUME TypeOK, TypeOK', Effects, NEW x \in Services, NEW t \in Tasks, ~Keeps(x, t),
           ~Down(x, Task(t)), job'[t] = job[t], NEW j \in DOMAIN uplink'[x], uplink'[x][j].task = t
    PROVE  \/ j \in DOMAIN uplink[x] /\ uplink'[x][j] = uplink[x][j]
           \/ /\ uplink[x] # <<>> /\ uplink'[x] = Tail(uplink[x])
              /\ j + 1 \in DOMAIN uplink[x] /\ uplink'[x][j] = uplink[x][j + 1]
<1>1. ~MaySay(x, uplink'[x][j])
  BY HeadIsDown DEF MaySay
<1>2. QED
  BY <1>1, FramesComeUp

\* The end, once last, stays last until it is recorded.
LEMMA EndStaysLast ==
    ASSUME TypeOK, TypeOK', Effects, OutOnly, NEW x \in Services, NEW t \in Tasks, Target(t) = x, Target(t)' = x,
           ~Keeps(x, t), ~Down(x, Task(t)), job'[t] = job[t], t \notin disturbed',
           create[t].stage \in Out, EndIsLast(t)
    PROVE  EndIsLast(t)'
<1>0. /\ uplink[x] \in Seq(Upward) /\ uplink'[x] \in Seq(Upward)
      /\ DOMAIN uplink[x] = 1 .. Len(uplink[x]) /\ DOMAIN uplink'[x] = 1 .. Len(uplink'[x])
      /\ Len(uplink[x]) \in Nat /\ Len(uplink'[x]) \in Nat
  BY DEF TypeOK
<1>1. CASE Final(t) /\ t \notin About(uplink[x])
  <2>1. \A y \in Services : t \notin About(uplink[y])
    BY <1>1 DEF OutOnly, Up
  <2>2. Final(t)'
    BY <1>1, <2>1, FinalStays DEF Out
  <2>3. t \notin About(uplink'[x])
    BY <1>1, NothingNewIsSaid DEF About
  <2>4. QED
    BY <2>2, <2>3 DEF EndIsLast
<1>2. ASSUME NEW i \in DOMAIN uplink[x], IsEnd(uplink[x][i], t),
             \A j \in DOMAIN uplink[x] : uplink[x][j].task = t => j <= i
      PROVE  EndIsLast(t)'
  <2>0. uplink[x][i].task = t
    BY <1>2 DEF IsEnd
  <2>1. ASSUME NEW k \in DOMAIN uplink'[x], uplink'[x][k] = uplink[x][i],
               k = i \/ (k = i - 1 /\ uplink'[x] = Tail(uplink[x]))
        PROVE  EndIsLast(t)'
    <3>1. ASSUME NEW j \in DOMAIN uplink'[x], uplink'[x][j].task = t
          PROVE  j <= k
      <4>1. CASE uplink[x] # <<>> /\ uplink'[x] = Tail(uplink[x])
        <5>1. j + 1 \in DOMAIN uplink[x] /\ uplink'[x][j] = uplink[x][j + 1]
          BY <1>0, <4>1, TailFacts
        <5>2. QED
          BY <1>0, <1>2, <2>1, <3>1, <5>1
      <4>2. CASE j \in DOMAIN uplink[x] /\ uplink'[x][j] = uplink[x][j] /\ k = i
        BY <1>2, <3>1, <4>2
      <4>3. uplink[x] # <<>>
        BY <1>0
      <4>4. QED
        BY <2>1, <3>1, <4>1, <4>2, <4>3, NothingNewIsSaid
    <3>2. IsEnd(uplink'[x][k], t)
      BY <1>2, <2>1
    <3>3. QED
      BY <3>1, <3>2 DEF EndIsLast
  <2>2. CASE /\ i = 1 /\ uplink[x] # <<>> /\ uplink'[x] = Tail(uplink[x])
             /\ Recorded(x, uplink[x][1], handler'[x])
    <3>1. status'[t] \in Terminal
      BY <1>2, <2>2 DEF IsEnd, Recorded
    <3>2. ASSUME NEW j \in DOMAIN uplink'[x], uplink'[x][j].task = t
          PROVE  FALSE
      <4>1. j + 1 \in DOMAIN uplink[x] /\ uplink'[x][j] = uplink[x][j + 1]
        BY <1>0, <2>2, TailFacts
      <4>2. QED
        BY <1>0, <1>2, <2>2, <3>2, <4>1
    <3>3. QED
      BY <3>1, <3>2 DEF EndIsLast, Final, About
  <2>3. QED
    BY <1>0, <2>0, <2>1, <2>2, FrameGoesUp
<1>3. QED
  BY <1>1, <1>2 DEF EndIsLast

LEMMA EndStep == ASSUME IInv, TypeOK', Effects, OutOnly' PROVE EndIsComing'
<1>0. TypeOK /\ OutOnly /\ SentOnce /\ FilesComeFirst /\ EndIsComing
  BY DEF IInv
<1>1. ASSUME NEW t \in Tasks, create[t].stage = "failing"
      PROVE  Final(t)' /\ \A x \in Services : t \notin About(uplink'[x])
  <2>1. \A x \in Services : ~Up(x, t) /\ ~Has(x, t) /\ ~Keeps(x, t)
    BY <1>0, <1>1, HasIsOut DEF OutOnly, Out
  <2>2. Final(t)'
    BY <1>0, <1>1, <2>1, FinalStays DEF EndIsComing, Up
  <2>3. \A x \in Services : ~Up(x, t)'
    BY <1>0, <2>1, UpComesFrom
  <2>4. QED
    BY <2>2, <2>3 DEF Up
<1>2. ASSUME NEW t \in Tasks, create'[t].stage = "failing"
      PROVE  Final(t)'
  <2>1. CreateMoves(t)
    BY DEF Effects
  <2>2. create[t].stage = "failing" \/ status'[t] = "failed"
    BY <1>2, <2>1 DEF CreateMoves, Moved
  <2>3. QED
    BY <1>1, <2>2 DEF Final, Terminal
<1>3. ASSUME NEW t \in Tasks, create'[t].stage \in Out, Target(t)' # None, t \notin disturbed'
      PROVE  \/ Down(Target(t), Task(t))' \/ job'[t].stage \in {"accepted", "running"}
             \/ EndIsLast(t)'
  <2>0. CreateMoves(t) /\ JobMoves(t) /\ t \notin disturbed
    BY <1>3 DEF Effects, HistoryGrows
  <2>1. CASE create[t].stage \notin Out
    <3>1. \/ Moved(t, {"none"}, "returning") \/ Moved(t, {"failing"}, "returning")
          \/ /\ Moved(t, {"sending"}, "sent")
             /\ Target(t) \in Services => downlink'[Target(t)] = Append(downlink[Target(t)], Task(t))
      BY <1>3, <2>0, <2>1 DEF CreateMoves, Moved, Out
    <3>2. Target(t)' = Target(t) /\ ~Moved(t, {"none"}, "returning")
      BY <1>0, <1>3, <3>1 DEF Moved, Target, OutOnly
    <3>3. Target(t)' \in Services
      BY <1>3 DEF TypeOK, Creations, Target
    <3>4. CASE Moved(t, {"failing"}, "returning")
      BY <1>1, <3>3, <3>4 DEF EndIsLast, Moved
    <3>5. CASE downlink'[Target(t)] = Append(downlink[Target(t)], Task(t))
      BY <1>0, <3>2, <3>3, <3>5, AppendFacts, DownFrameFacts DEF Down, Range, TypeOK
    <3>6. QED
      BY <3>1, <3>2, <3>3, <3>4, <3>5
  <2>2. CASE create[t].stage \in Out
    <3>1. PICK x \in Services : Target(t) = x /\ Target(t)' = x
      BY <1>0, <1>3, <2>2, TargetStays DEF TypeOK, Creations, Target
    <3>2. ~Keeps(x, t)
      BY <1>0, <2>0 DEF FilesComeFirst, Keeps
    <3>3. CASE Down(x, Task(t))
      <4>1. Down(x, Task(t))' \/ job'[t].stage = "accepted"
        BY <1>0, <1>3, <3>3, FrameGoesDown, DownFrameFacts
      <4>2. QED
        BY <3>1, <4>1
    <3>4. CASE ~Down(x, Task(t)) /\ job[t].stage \in {"accepted", "running"}
      <4>1. CASE job'[t].stage \in {"accepted", "running"}
        BY <4>1
      <4>2. CASE job'[t].stage \notin {"accepted", "running"}
        <5>1. PICK s \in Terminal : Says(x, StatusOf(t, s))
          BY <2>0, <3>1, <3>4, <4>2 DEF JobMoves, At, Terminal
        <5>2. /\ StatusOf(t, s) \in Upward /\ IsEnd(StatusOf(t, s), t)
              /\ StatusOf(t, s).task = t
          BY FrameFacts DEF Terminal, Statuses, StatusOf, IsEnd
        <5>3. uplink'[x] = Append(uplink[x], StatusOf(t, s))
          BY <1>3, <5>1, <5>2 DEF Says
        <5>4. /\ DOMAIN uplink'[x] = DOMAIN uplink[x] \cup {Len(uplink[x]) + 1}
              /\ uplink'[x][Len(uplink[x]) + 1] = StatusOf(t, s)
              /\ DOMAIN uplink[x] = 1 .. Len(uplink[x]) /\ Len(uplink[x]) \in Nat
          BY <1>0, <5>2, <5>3, AppendFacts DEF TypeOK
        <5>5. \A j \in DOMAIN uplink'[x] : j <= Len(uplink[x]) + 1
          BY <5>4
        <5>6. QED
          BY <3>1, <5>2, <5>4, <5>5 DEF EndIsLast
      <4>3. QED
        BY <4>1, <4>2
    <3>5. CASE ~Down(x, Task(t)) /\ job[t].stage \notin {"accepted", "running"}
      <4>1. EndIsLast(t)
        BY <1>0, <2>0, <2>2, <3>1, <3>5, RouterAssumption DEF EndIsComing
      <4>2. job'[t] = job[t] \/ job'[t].stage = "accepted"
        BY <2>0, <3>5 DEF JobMoves, At
      <4>3. QED
        BY <1>0, <1>3, <2>2, <3>1, <3>2, <3>5, <4>1, <4>2, EndStaysLast
    <3>6. QED
      BY <3>3, <3>4, <3>5
  <2>3. QED
    BY <2>1, <2>2
<1>4. QED
  BY <1>2, <1>3 DEF EndIsComing

\* The list a signal without record goes to holds every service that could have it.
LEMMA ListHasSuitable ==
    ASSUME NEW t \in Tasks, NEW x \in connected \cap running, Suits(t, x)
    PROVE  x \in ListServices(running, connected, WithoutCapability(Request[t]))
<1> DEFINE spec == WithoutCapability(Request[t])
<1>1. /\ Request[t] \in Specs /\ Facts[x].task /\ Facts[x].kind = Request[t].kind
      /\ Request[t].kind = Audio => Declares(x, Request[t].load)
  BY DispatchAssumption DEF Suits, Serves
<1>2. /\ spec.kind = Request[t].kind /\ spec.load = Request[t].load /\ spec.task = Request[t].task
      /\ spec.capability = None
  BY <1>1 DEF WithoutCapability, Specs
<1> HIDE DEF spec
<1>3. x \in Eligible(running, connected, spec)
  BY <1>1, <1>2 DEF Eligible
<1>4. spec.kind = Audio => x \in Preferred(running, connected, spec)
  BY <1>1, <1>2, <1>3 DEF Preferred
<1>5. x \in ListServices(running, connected, spec)
  BY <1>3, <1>4 DEF ListServices
<1>6. QED
  BY <1>5 DEF spec

LEMMA SignalStep == ASSUME IInv, TypeOK', Effects PROVE SignalStays'
<1>0. TypeOK /\ OutOnly /\ SentOnce /\ SignalStays
  BY DEF IInv
<1>b. disturbed \subseteq disturbed'
  BY DEF Effects, HistoryGrows
<1>1. ASSUME NEW t \in Tasks, Target(t)' # None
      PROVE  Serves(t, Target(t))'
  <2>1. CreateMoves(t) /\ (create[t].target # None => Serves(t, create[t].target))
    BY <1>0 DEF Effects, SignalStays, Target
  <2>2. create'[t].target = create[t].target \/ Serves(t, create'[t].target)
    BY <2>1 DEF CreateMoves, Moved
  <2>3. Serves(t, create'[t].target)
    BY <1>1, <2>1, <2>2 DEF Target
  <2>4. QED
    BY <2>3 DEF Target, Serves
<1>2. ASSUME NEW t \in Tasks, cancel'[t].stage \in {"looked", "signalled"}, NEW x \in cancel'[t].seen, Suits(t, x)
      PROVE  x \in cancel'[t].targets \/ Target(t)' \notin {None, x}
  <2>0. CancelMoves(t)
    BY DEF Effects
  <2>1. CASE /\ cancel[t].stage \in {"looked", "signalled"}
             /\ cancel'[t].targets = cancel[t].targets /\ cancel'[t].seen = cancel[t].seen
    <3>1. x \in cancel[t].targets \/ Target(t) \notin {None, x}
      BY <1>0, <1>2, <2>1 DEF SignalStays
    <3>2. Target(t) # None => Target(t)' = Target(t)
      BY <1>0, TargetStays
    <3>3. QED
      BY <2>1, <3>1, <3>2
  <2>2. CASE /\ cancel'[t].seen = connected \cap running /\ create'[t] = create[t]
             /\ cancel'[t].targets = IF dispatched[t] \in connected THEN {dispatched[t]}
                               ELSE ListServices(running, connected, WithoutCapability(Request[t]))
    <3>1. CASE dispatched[t] \in connected
      <4>1. dispatched[t] \in Services
        BY <1>0, <3>1 DEF TypeOK
      <4>2. dispatched[t] = Target(t) /\ Target(t) # None
        BY <1>0, <4>1, RouterAssumption DEF OutOnly
      <4>3. QED
        BY <2>2, <3>1, <4>2 DEF Target
    <3>2. CASE dispatched[t] \notin connected
      BY <1>2, <2>2, <3>2, ListHasSuitable
    <3>3. QED
      BY <3>1, <3>2
  <2>3. QED
    BY <1>2, <2>0, <2>1, <2>2 DEF CancelMoves
<1>3. ASSUME NEW t \in Tasks, cancel'[t].stage = "signalled", NEW x \in cancel'[t].targets, t \notin disturbed'
      PROVE  t \in marked'[x] \/ Down(x, CancelOf(t))' \/ job'[t].stage = "ended"
  <2>0. CancelMoves(t) /\ JobMoves(t) /\ x \in Services
    BY <1>0, <1>3 DEF Effects, TypeOK, Cancellations
  <2>1. CASE cancel'[t] = cancel[t]
    <3>1. t \in marked[x] \/ Down(x, CancelOf(t)) \/ job[t].stage = "ended"
      BY <1>0, <1>3, <1>b, <2>1 DEF SignalStays
    <3>2. CASE t \in marked[x]
      BY <2>0, <3>2 DEF Effects, MarkedMoves
    <3>3. CASE Down(x, CancelOf(t))
      BY <1>0, <1>3, <2>0, <3>3, FrameGoesDown, DownFrameFacts
    <3>4. CASE job[t].stage = "ended"
      <4>1. \A y \in Services : ~(downlink[y] # <<>> /\ Head(downlink[y]) = Task(t))
        BY <1>0, <3>4, HeadIsDown DEF SentOnce
      <4>2. QED
        BY <2>0, <3>4, <4>1 DEF JobMoves, At
    <3>5. QED
      BY <3>1, <3>2, <3>3, <3>4
  <2>2. CASE downlink'[x] = Append(downlink[x], CancelOf(t))
    BY <1>0, <2>0, <2>2, AppendFacts, DownFrameFacts DEF Down, Range, TypeOK
  <2>3. QED
    BY <1>3, <2>0, <2>1, <2>2 DEF CancelMoves
<1>4. ASSUME NEW t \in Tasks, NEW x, Suits(t, x)'
      PROVE  Suits(t, x)
  BY <1>4 DEF Suits, Serves
<1>5. QED
  BY <1>1, <1>2, <1>3, <1>4 DEF SignalStays

\* A tool that has missed nothing after a step had missed nothing before it.
LEMMA ListenedBefore ==
    ASSUME TypeOK, ToolIsTold, Effects, NEW t \in Tasks, Listens(t)'
    PROVE  /\ Listens(t) /\ t \notin disturbed' /\ t \notin early'
           /\ collected[t] \subseteq collected'[t]
<1>1. t \notin disturbed' /\ t \notin early' /\ t \notin disturbed /\ t \notin early
  BY DEF Listens, Effects, HistoryGrows
<1>2. ToolMoves(t) /\ tool'[t] \in {"none", "waiting"}
  BY DEF Effects, Listens
<1>3. create[t].stage = "returning" => tool[t] = "none"
  BY DEF ToolIsTold
<1>4. QED
  BY <1>1, <1>2, <1>3 DEF ToolMoves, Listens

\* What is coming to such a tool still comes, as the handler records it, or it is
\* told now.
LEMMA ComingStays ==
    ASSUME TypeOK, TypeOK', ToolIsTold, Effects, NEW x \in Services, NEW f \in Upward, Coming(x, f),
           Listens(f.task)'
    PROVE  \/ Coming(x, f)'
           \/ f.type = "result" /\ \E g \in Upward : IsFile(g, f.task, f.index) /\ Coming(x, g)'
           \/ tool[f.task] = "waiting" /\ Deliver(f)
<1>1. f.task \in Tasks /\ f # NoFrame
  BY FrameFacts
<1>2. f.task \notin disturbed' /\ f.task \notin early' /\ tool[f.task] \in {"none", "waiting"}
  BY <1>1, ListenedBefore DEF Listens
<1>3. CASE handler[x] = f
  <2>1. CASE handler'[x] = f
    BY <2>1 DEF Coming
  <2>2. CASE handler'[x] # f
    <3>1. Deliver(f)
      BY <1>1, <1>3, <2>2 DEF Effects, UpMoves
    <3>2. tool[f.task] # "none"
      BY <1>2, <3>1 DEF Deliver
    <3>3. QED
      BY <1>2, <3>1, <3>2
  <2>3. QED
    BY <2>1, <2>2
<1>4. CASE OnUplink(x, f)
  <2>1. PICK j \in DOMAIN uplink[x] : uplink[x][j] = f
    BY <1>4 DEF OnUplink
  <2>2. CASE \E i \in DOMAIN uplink'[x] : uplink'[x][i] = f
    BY <2>2 DEF Coming, OnUplink
  <2>3. CASE Recorded(x, f, handler'[x])
    <3>1. handler'[x] \in Upward /\ handler'[x].type = f.type /\ handler'[x].task = f.task
          /\ (f.type = "status" => handler'[x] = f) /\ (f.type = "result" => handler'[x].index = f.index)
      BY <2>3 DEF Recorded
    <3>2. f.type \in {"status", "result"}
      BY DEF Upward, StatusOf
    <3>3. QED
      BY <3>1, <3>2 DEF Coming, IsFile
  <2>4. QED
    BY <1>2, <2>1, <2>2, <2>3, FrameGoesUp
<1>5. QED
  BY <1>3, <1>4 DEF Coming

LEMMA ToldStep == ASSUME IInv, TypeOK', Effects PROVE ToolIsTold'
<1>0. TypeOK /\ OutOnly /\ SentOnce /\ ToolIsTold
  BY DEF IInv
<1>1. ASSUME NEW t \in Tasks, tool'[t] # "none"
      PROVE  create'[t].stage = "done"
  <2>1. ToolMoves(t) /\ (create[t].stage = "done" => create'[t].stage = "done")
    BY <1>0, TargetStays DEF Effects
  <2>2. tool[t] # "none" => create[t].stage = "done"
    BY <1>0 DEF ToolIsTold
  <2>3. QED
    BY <1>1, <2>1, <2>2 DEF ToolMoves
<1>2. ASSUME NEW t \in Tasks, tool'[t] \in {"none", "waiting"}
      PROVE  collected'[t] # All
  <2>1. ToolMoves(t) /\ (tool[t] # "none" => create[t].stage = "done")
    BY <1>0 DEF Effects, ToolIsTold
  <2>2. tool[t] \in {"none", "waiting"}
    BY <1>2, <2>1 DEF ToolMoves
  <2>3. collected[t] # All
    BY <1>0, <2>2 DEF ToolIsTold
  <2>4. QED
    BY <1>2, <2>1, <2>3 DEF ToolMoves
<1>3. ASSUME NEW t \in Tasks, Listens(t)'
      PROVE  /\ Listens(t) /\ t \notin disturbed' /\ t \notin early' /\ collected[t] \subseteq collected'[t]
             /\ JobMoves(t)
             /\ job[t].stage # "none" => job'[t].stage # "none"
             /\ job[t].stage = "none" \/ ~(\E y \in Services : downlink[y] # <<>> /\ Head(downlink[y]) = Task(t))
  <2>1. JobMoves(t)
    BY DEF Effects
  <2>2. job[t].stage = "none" \/ ~(\E y \in Services : downlink[y] # <<>> /\ Head(downlink[y]) = Task(t))
    BY <1>0, HeadIsDown DEF SentOnce
  <2>3. QED
    BY <1>0, <1>3, <2>1, <2>2, ListenedBefore DEF JobMoves
<1>4. ASSUME NEW t \in Tasks, Listens(t)', create'[t].stage \in Out, Target(t)' # None
      PROVE  Down(Target(t), Task(t))' \/ job'[t].stage # "none"
  <2>1. CASE create[t].stage \in Out
    <3>1. Target(t)' = Target(t)
      BY <1>0, <2>1, TargetStays
    <3>2. PICK x \in Services : Target(t) = x
      BY <1>0, <1>4, <3>1 DEF TypeOK, Creations, Target
    <3>3. Down(x, Task(t)) \/ job[t].stage # "none"
      BY <1>0, <1>3, <1>4, <2>1, <3>1, <3>2 DEF ToolIsTold
    <3>4. CASE Down(x, Task(t))
      <4>1. Down(x, Task(t))' \/ job'[t].stage = "accepted"
        BY <1>0, <1>3, <1>4, <3>4, FrameGoesDown, DownFrameFacts
      <4>2. QED
        BY <3>1, <3>2, <4>1
    <3>5. QED
      BY <1>3, <1>4, <3>3, <3>4
  <2>2. CASE create[t].stage \notin Out
    <3>0. CreateMoves(t)
      BY DEF Effects
    <3>1. ~(create[t].stage = "failing" /\ (t \in early' \/ tool[t] # "none"))
      BY <1>0, <1>3, <1>4 DEF ToolIsTold
    <3>2. \/ Moved(t, {"none"}, "returning")
          \/ /\ Moved(t, {"sending"}, "sent")
             /\ Target(t) \in Services => downlink'[Target(t)] = Append(downlink[Target(t)], Task(t))
      BY <1>3, <1>4, <2>2, <3>0, <3>1 DEF CreateMoves, Moved, Out
    <3>3. Target(t)' = Target(t) /\ (Moved(t, {"none"}, "returning") => Target(t) = None)
      BY <1>0, <3>2 DEF Moved, Target, OutOnly
    <3>4. Target(t) \in Services /\ downlink'[Target(t)] = Append(downlink[Target(t)], Task(t))
      BY <1>0, <1>4, <3>2, <3>3 DEF Moved, OutOnly
    <3>5. Down(Target(t), Task(t))'
      BY <1>0, <3>3, <3>4, AppendFacts, DownFrameFacts DEF Down, Range, TypeOK
    <3>6. QED
      BY <3>5
  <2>3. QED
    BY <2>1, <2>2
<1>5. ASSUME NEW t \in Tasks, Listens(t)', NEW k \in 1 .. job'[t].made
      PROVE  k \in collected'[t] \/ FileComing(t, k)'
  <2>0. job[t].made \in Nat /\ job'[t].made \in Nat /\ JobMoves(t)
    BY <1>0 DEF TypeOK, Jobs, Effects
  <2>1. CASE k <= job[t].made
    <3>1. k \in 1 .. job[t].made /\ job[t].made # 0
      BY <2>0, <2>1
    <3>2. PICK x \in Services : Target(t) = x /\ Target(t)' = x
      BY <1>0, <3>1, TargetStays DEF OutOnly
    <3>3. CASE k \in collected[t]
      BY <1>3, <1>5, <3>3
    <3>4. CASE k \notin collected[t]
      <4>1. PICK f \in Upward : IsFile(f, t, k) /\ Coming(x, f)
        BY <1>0, <1>3, <1>5, <3>1, <3>2, <3>4 DEF ToolIsTold, FileComing
      <4>2. f.type = "result" /\ f.task = t /\ f.index = k
        BY <4>1 DEF IsFile
      <4>3. ASSUME tool[t] = "waiting", Deliver(f)
            PROVE  k \in collected'[t]
        <5>1. collected' = [collected EXCEPT ![t] = collected[t] \cup {k}]
          BY <4>2, <4>3 DEF Deliver
        <5>2. QED
          BY <1>0, <5>1 DEF TypeOK
      <4>4. Coming(x, f)' => FileComing(t, k)'
        BY <3>2, <4>1 DEF FileComing, IsFile
      <4>5. (\E g \in Upward : IsFile(g, t, k) /\ Coming(x, g)') => FileComing(t, k)'
        BY <3>2 DEF FileComing, IsFile
      <4>6. QED
        BY <1>0, <1>5, <4>1, <4>2, <4>3, <4>4, <4>5, ComingStays
    <3>5. QED
      BY <3>3, <3>4
  <2>2. CASE k > job[t].made
    <3>1. PICK x \in Services : /\ At(x, t, "running") /\ k = job[t].made + 1
                                /\ Says(x, ResultOf(t, job[t].made + 1))
      BY <2>0, <2>2 DEF JobMoves
    <3>2. ResultOf(t, k) \in Upward /\ IsFile(ResultOf(t, k), t, k)
      <4>1. k \in All
        BY <1>5, DispatchAssumption DEF TypeOK, Jobs, All
      <4>2. QED
        BY <4>1, FrameFacts DEF IsFile, ResultOf
    <3>3. Target(t)' = x
      BY <1>0, <3>1, TargetStays DEF At, OutOnly
    <3>4. uplink'[x] = Append(uplink[x], ResultOf(t, k))
      BY <1>3, <1>5, <3>1, <3>2 DEF Says, IsFile
    <3>5. \E i \in DOMAIN uplink'[x] : uplink'[x][i] = ResultOf(t, k)
      BY <1>0, <3>2, <3>4, AppendFacts DEF TypeOK
    <3>6. Coming(x, ResultOf(t, k))'
      BY <3>5 DEF Coming, OnUplink, ResultOf
    <3>7. QED
      BY <3>2, <3>3, <3>6 DEF FileComing, IsFile
  <2>3. QED
    BY <2>0, <2>1, <2>2
<1>6. ASSUME NEW t \in Tasks, Listens(t)', job'[t].stage = "ended"
      PROVE  job'[t].made = Total \/ EndComing(t)'
  <2>0. JobMoves(t)
    BY DEF Effects
  <2>s. \A s \in {"failed", "cancelled"} :
          /\ StatusOf(t, s) \in Upward /\ StatusOf(t, s).task = t
          /\ StatusOf(t, s).type = "status" /\ StatusOf(t, s).status = s
    BY FrameFacts DEF Statuses, StatusOf
  <2>1. CASE job[t].stage = "ended"
    <3>1. job'[t].made = job[t].made
      BY <1>3, <1>6, <2>0, <2>1 DEF JobMoves, At
    <3>2. PICK x \in Services : Target(t) = x /\ Target(t)' = x
      BY <1>0, <2>1, TargetStays DEF OutOnly
    <3>3. CASE job[t].made = Total
      BY <3>1, <3>3
    <3>4. CASE job[t].made # Total
      <4>1. PICK s \in {"failed", "cancelled"} : Coming(x, StatusOf(t, s))
        BY <1>0, <1>3, <1>6, <2>1, <3>2, <3>4 DEF ToolIsTold, EndComing
      <4>2. ASSUME tool[t] = "waiting", Deliver(StatusOf(t, s))
            PROVE  FALSE
        <5>1. \A have : Told(StatusOf(t, s), have) = s
          BY <2>s DEF Told
        <5>2. tool'[t] = s
          BY <1>0, <2>s, <4>2, <5>1 DEF Deliver, TypeOK
        <5>3. QED
          BY <1>6, <5>2 DEF Listens
      <4>3. Coming(x, StatusOf(t, s))'
        BY <1>0, <1>6, <2>s, <4>1, <4>2, ComingStays
      <4>4. EndComing(t)'
        BY <3>2, <4>3 DEF EndComing, StatusOf
      <4>5. QED
        BY <4>4
    <3>5. QED
      BY <3>3, <3>4
  <2>2. CASE job[t].stage # "ended"
    <3>1. PICK x \in Services :
            /\ At(x, t, "running") \/ At(x, t, "accepted")
            /\ job'[t].made = job[t].made
            /\ \/ Says(x, StatusOf(t, "failed")) \/ Says(x, StatusOf(t, "cancelled"))
               \/ job[t].made = Total
      BY <1>6, <2>0, <2>2 DEF JobMoves
    <3>2. Target(t)' = x
      BY <1>0, <3>1, TargetStays DEF At, OutOnly
    <3>3. ASSUME NEW s \in {"failed", "cancelled"}, Says(x, StatusOf(t, s))
          PROVE  EndComing(t)'
      <4>1. uplink'[x] = Append(uplink[x], StatusOf(t, s))
        BY <1>3, <1>6, <2>s, <3>3 DEF Says
      <4>2. \E i \in DOMAIN uplink'[x] : uplink'[x][i] = StatusOf(t, s)
        BY <1>0, <2>s, <4>1, AppendFacts DEF TypeOK
      <4>3. Coming(x, StatusOf(t, s))'
        BY <4>2 DEF Coming, OnUplink, StatusOf
      <4>4. QED
        BY <3>2, <4>3 DEF EndComing, StatusOf
    <3>4. QED
      BY <3>1, <3>3
  <2>3. QED
    BY <2>1, <2>2
<1>7. QED
  BY <1>1, <1>2, <1>4, <1>5, <1>6 DEF ToolIsTold
-----------------------------------------------------------------------------
(* The invariant                                                            *)

LEMMA InitInvariant == ASSUME Init PROVE IInv
<1>1. TypeOK
  BY InitTypeOK
<1>2. ASSUME NEW t \in Tasks
      PROVE  /\ status[t] = "none" /\ create[t].stage = "none" /\ Target(t) = None /\ dispatched[t] = None
             /\ cancel[t].stage = "none" /\ tool[t] = "none" /\ collected[t] = {}
             /\ job[t].stage = "none" /\ job[t].made = 0
  BY DEF Init, Target
<1>3. ASSUME NEW x \in Services
      PROVE  /\ (\A f : ~Down(x, f)) /\ (\A t : ~Up(x, t)) /\ (\A t : ~Keeps(x, t))
             /\ DOMAIN downlink[x] = {} /\ Len(uplink[x]) = 0 /\ handler[x] = NoFrame /\ kept[x] = {}
  BY DEF Init, Down, Range, Up, About, Keeps
<1>4. OutOnly /\ SentOnce
  BY <1>2, <1>3 DEF OutOnly, SentOnce
<1>5. PendingIsComing /\ CompletedHasFiles /\ FilesComeFirst
  BY <1>2, <1>3 DEF PendingIsComing, CompletedHasFiles, FilesComeFirst, Out
<1>e. EndIsComing
  BY <1>2 DEF EndIsComing, Out
<1>6. SignalStays
  BY <1>2 DEF SignalStays
<1>7. ToolIsTold
  <2>1. 1 \in All
    BY DispatchAssumption DEF All
  <2>2. QED
    BY <1>2, <2>1 DEF ToolIsTold, Out
<1>8. QED
  BY <1>1, <1>4, <1>5, <1>e, <1>6, <1>7 DEF IInv

LEMMA InvariantStep == ASSUME IInv, [Next]_vars PROVE IInv'
<1>1. TypeOK' /\ Effects
  BY EffectsOfStep DEF IInv
<1>2. OutOnly'
  BY <1>1, OutOnlyStep
<1>3. SentOnce' /\ PendingIsComing'
  BY <1>1, <1>2, SentOnceStep, PendingStep
<1>4. CompletedHasFiles' /\ FilesComeFirst' /\ EndIsComing'
  BY <1>1, <1>2, CompletedStep, FilesStep, EndStep
<1>5. SignalStays' /\ ToolIsTold'
  BY <1>1, SignalStep, ToldStep
<1>6. QED
  BY <1>1, <1>2, <1>3, <1>4, <1>5 DEF IInv

\* The inductive invariant: who has a task, what is under way about it, and what
\* the row, the signal and the tool can rely on because of it.
THEOREM InductiveInvariant == Spec => []IInv
<1>1. IInv /\ [Next]_vars => IInv'
  BY InvariantStep
<1>2. Init => IInv
  BY InitInvariant
<1>3. QED
  BY <1>1, <1>2, PTL DEF Spec

\* A dispatch that is over leaves no row silently unfinished: what will change the
\* row is on the wire, at the worker or unread, or was lost with a connection.
THEOREM NeverSilentlyUnfinishedHolds == Spec => []NeverSilentlyUnfinished
<1>1. IInv => NeverSilentlyUnfinished
  <2>1. ASSUME IInv, NEW t \in Tasks, create[t].stage \in {"failing", "returning", "done"},
               Target(t) # None, t \notin disturbed
        PROVE  /\ status[t] = "pending" => Down(Target(t), Task(t)) \/ Up(Target(t), t)
               /\ ~Final(t) => \/ Down(Target(t), Task(t)) \/ job[t].stage \in {"accepted", "running"}
                               \/ t \in About(uplink[Target(t)])
    <3>1. CASE create[t].stage = "failing"
      <4>1. Final(t)
        BY <2>1, <3>1 DEF IInv, EndIsComing
      <4>2. QED
        BY <4>1 DEF Final, Terminal
    <3>2. CASE create[t].stage \in Out
      <4>1. status[t] = "pending" => Down(Target(t), Task(t)) \/ Up(Target(t), t)
        BY <2>1, <3>2 DEF IInv, PendingIsComing, Up
      <4>2. EndIsLast(t) => Final(t) \/ t \in About(uplink[Target(t)])
        BY DEF EndIsLast, IsEnd, About
      <4>3. \/ Down(Target(t), Task(t)) \/ job[t].stage \in {"accepted", "running"} \/ EndIsLast(t)
        BY <2>1, <3>2 DEF IInv, EndIsComing
      <4>4. QED
        BY <4>1, <4>2, <4>3
    <3>3. QED
      BY <2>1, <3>1, <3>2 DEF Out
  <2>2. QED
    BY <2>1 DEF NeverSilentlyUnfinished
<1>2. QED
  BY <1>1, InductiveInvariant, PTL

\* A row says completed only when every file of the task is recorded, unless a
\* connection took frames of the task with it: the frames of a worker stay in
\* order behind the results, and only the recorded files complete a task.
THEOREM CompletedHasFilesHolds == Spec => []CompletedHasFiles
<1>1. IInv => CompletedHasFiles
  BY DEF IInv
<1>2. QED
  BY <1>1, InductiveInvariant, PTL

\* The signal of DELETE reaches the service that has the task or is about to get
\* it, between the send and its record and with a stale record too, but for the
\* services the property names.
THEOREM CancelIsSignalledHolds == Spec => []CancelIsSignalled
<1>1. IInv => CancelIsSignalled
  <2>1. ASSUME IInv, NEW t \in Tasks, NEW x \in Services, cancel[t].stage = "signalled", Target(t) = x,
               Down(x, Task(t)) \/ job[t].stage \in {"accepted", "running"},
               t \notin disturbed, x \in cancel[t].seen,
               ~(Request[t].kind = Audio /\ ~Declares(x, Request[t].load))
        PROVE  t \in marked[x] \/ Down(x, CancelOf(t))
    <3>1. Target(t) # None
      BY <2>1, RouterAssumption
    <3>2. Suits(t, x)
      BY <2>1, <3>1 DEF IInv, SignalStays, Suits
    <3>3. x \in cancel[t].targets
      BY <2>1, <3>2 DEF IInv, SignalStays
    <3>4. job[t].stage # "ended"
      BY <2>1 DEF IInv, SentOnce
    <3>5. QED
      BY <2>1, <3>3, <3>4 DEF IInv, SignalStays
  <2>2. QED
    BY <2>1 DEF CancelIsSignalled
<1>2. QED
  BY <1>1, InductiveInvariant, PTL

\* When all is over, the agent tool still waits only if it missed a message that
\* was forwarded before it subscribed, or a frame was lost.
THEOREM ToolMissesOnlyTheEarlyHolds == Spec => []ToolMissesOnlyTheEarly
<1>1. IInv => ToolMissesOnlyTheEarly
  <2>1. ASSUME IInv, NEW t \in Tasks, tool[t] = "waiting", Over(t), t \notin early \cup disturbed,
               Target(t) # None
        PROVE  FALSE
    <3>1. PICK x \in Services : Target(t) = x
      BY <2>1 DEF IInv, TypeOK, Creations, Target
    <3>2. Listens(t) /\ ~Up(x, t) /\ ~Down(x, Task(t)) /\ create[t].stage \in Out
      BY <2>1 DEF Listens, Over, Out
    <3>3. job[t].stage = "ended"
      BY <2>1, <3>1, <3>2 DEF IInv, ToolIsTold, Over
    <3>4. ASSUME NEW f \in Upward, f.task = t
          PROVE  ~Coming(x, f)
      BY <3>2, <3>4, FrameFacts DEF Coming, OnUplink, Up, About
    <3>5. ~EndComing(t)
      <4>1. \A s \in {"failed", "cancelled"} : StatusOf(t, s) \in Upward /\ StatusOf(t, s).task = t
        BY FrameFacts DEF Statuses, StatusOf
      <4>2. QED
        BY <3>1, <3>4, <4>1 DEF EndComing
    <3>6. \A k : ~FileComing(t, k)
      BY <3>1, <3>4 DEF FileComing, IsFile
    <3>7. All \subseteq collected[t]
      BY <2>1, <3>2, <3>3, <3>5, <3>6 DEF IInv, ToolIsTold, All
    <3>8. collected[t] # All
      BY <2>1 DEF IInv, ToolIsTold
    <3>9. QED
      BY <2>1, <3>7, <3>8 DEF IInv, TypeOK
  <2>2. QED
    BY <2>1 DEF ToolMissesOnlyTheEarly
<1>2. QED
  BY <1>1, InductiveInvariant, PTL
=============================================================================
