---------------------------- MODULE RedisIngress ----------------------------
(***************************************************************************)
(* RedisListIngress (src/inference/common/redis_list_transport.py) and the  *)
(* loop of TaskProcessor it feeds: a worker takes tasks from lists it       *)
(* shares with other workers, and only while it is idle.  The queue is      *)
(* local, the lists are not.                                                *)
(*                                                                          *)
(* Left out: cancel messages of a list (they reach the handler InferenceWorker *)
(* models), messages that do not parse, and the `queued' status an ingress  *)
(* sends after it has put the task in the queue.                            *)
(***************************************************************************)
EXTENDS Naturals, Sequences, SequencesExt, FiniteSets

CONSTANTS Ingresses, Tasks, MaxDrops, Nobody

ASSUME IngressAssumption == MaxDrops \in Nat /\ Nobody \notin Tasks

VARIABLES list,      \* [Ingresses -> Seq(Tasks)]: the Redis list of the channel
          puller,    \* [Ingresses -> where its _loop is]
          queue,     \* the local MessageQueue
          popped,    \* the message get() has returned in its thread, not yet handled
          current,   \* the message process_message is awaited on: _handling
          fate,      \* [Tasks -> what became of the task]
          drops      \* connections lost under a BRPOP

ingressVars == <<list, puller, queue, popped, current, fate, drops>>

Fates == {"new", "listed", "local", "done", "elsewhere", "lost"}

IngressTypeOK ==
    /\ list \in [Ingresses -> Seq(Tasks)]
    /\ puller \in [Ingresses -> {"looping", "passed", "pulling"}]
    /\ queue \in Seq(Tasks)
    /\ {popped, current} \subseteq Tasks \union {Nobody}
    /\ fate \in [Tasks -> Fates]
    /\ drops \in 0..MaxDrops

IngressInit ==
    /\ list = [i \in Ingresses |-> <<>>]
    /\ puller = [i \in Ingresses |-> "looping"]
    /\ queue = <<>>
    /\ popped = Nobody /\ current = Nobody
    /\ fate = [t \in Tasks |-> "new"]
    /\ drops = 0

(* is_idle: get_queue_length() = 0.  What get() has popped counts nowhere. *)
IsIdle == queue = <<>> /\ current = Nobody

(* The tasks this worker keeps from the others. *)
Local == Len(queue) + Cardinality({popped, current} \ {Nobody})

(* The producer pushes a task; another worker on the channel takes one. *)
Push(i, t) ==
    /\ fate[t] = "new"
    /\ list' = [list EXCEPT ![i] = Append(@, t)]
    /\ fate' = [fate EXCEPT ![t] = "listed"]
    /\ UNCHANGED <<puller, queue, popped, current, drops>>

OtherWorkerTakes(i) ==
    /\ list[i] # <<>>
    /\ list' = [list EXCEPT ![i] = Tail(@)]
    /\ fate' = [fate EXCEPT ![Head(list[i])] = "elsewhere"]
    /\ UNCHANGED <<puller, queue, popped, current, drops>>

(* The first look, before the shared lock is asked for. *)
Look(i) ==
    /\ puller[i] = "looping" /\ IsIdle
    /\ puller' = [puller EXCEPT ![i] = "passed"]
    /\ UNCHANGED <<list, queue, popped, current, fate, drops>>

(* Seeded fault: no second look under the lock. *)
PullUnchecked(i) ==
    /\ puller[i] = "passed"
    /\ \A j \in Ingresses : puller[j] # "pulling"
    /\ puller' = [puller EXCEPT ![i] = "pulling"]
    /\ UNCHANGED <<list, queue, popped, current, fate, drops>>

(* The lock is taken and the worker looked at again, then BRPOP is sent. *)
Pull(i) ==
    /\ puller[i] = "passed"
    /\ \A j \in Ingresses : puller[j] # "pulling"
    /\ puller' = [puller EXCEPT ![i] = IF IsIdle THEN "pulling" ELSE "looping"]
    /\ UNCHANGED <<list, queue, popped, current, fate, drops>>

(* BRPOP answers with a message: the lock is let go and the message is in   *)
(* the queue before anything else runs.                                     *)
Receive(i) ==
    /\ puller[i] = "pulling" /\ list[i] # <<>>
    /\ list' = [list EXCEPT ![i] = Tail(@)]
    /\ queue' = Append(queue, Head(list[i]))
    /\ fate' = [fate EXCEPT ![Head(list[i])] = "local"]
    /\ puller' = [puller EXCEPT ![i] = "looping"]
    /\ UNCHANGED <<popped, current, drops>>

(* BRPOP times out with nothing in the list. *)
PullTimesOut(i) ==
    /\ puller[i] = "pulling" /\ list[i] = <<>>
    /\ puller' = [puller EXCEPT ![i] = "looping"]
    /\ UNCHANGED <<list, queue, popped, current, fate, drops>>

(* The connection breaks under BRPOP.  A message the server has popped for  *)
(* the answer is gone: nothing acknowledges it, nothing keeps a copy.       *)
ConnectionLost(i) ==
    /\ puller[i] = "pulling" /\ drops < MaxDrops
    /\ drops' = drops + 1
    /\ puller' = [puller EXCEPT ![i] = "looping"]
    /\ \/ UNCHANGED <<list, fate>>
       \/ /\ list[i] # <<>>
          /\ list' = [list EXCEPT ![i] = Tail(@)]
          /\ fate' = [fate EXCEPT ![Head(list[i])] = "lost"]
    /\ UNCHANGED <<queue, popped, current>>

(* process_loop: get() pops in a thread ... *)
Get ==
    /\ queue # <<>> /\ popped = Nobody /\ current = Nobody
    /\ popped' = Head(queue)
    /\ queue' = Tail(queue)
    /\ UNCHANGED <<list, puller, current, fate, drops>>

(* ... and the loop, once it runs again, marks itself busy. *)
Handle ==
    /\ popped # Nobody
    /\ current' = popped
    /\ popped' = Nobody
    /\ UNCHANGED <<list, puller, queue, fate, drops>>

Handled ==
    /\ current # Nobody
    /\ fate' = [fate EXCEPT ![current] = "done"]
    /\ current' = Nobody
    /\ UNCHANGED <<list, puller, queue, popped, drops>>

Arrives ==
    \/ \E i \in Ingresses :
          \/ \E t \in Tasks : Push(i, t)
          \/ OtherWorkerTakes(i) \/ Look(i) \/ Pull(i) \/ Receive(i)
          \/ PullTimesOut(i) \/ ConnectionLost(i)
    \/ Get

IngressNext == Arrives \/ Handle \/ Handled

IngressSpec == IngressInit /\ [][IngressNext]_ingressVars

(* Never more than one task waits behind the one that runs.  The comment at *)
(* task_processor.py:372 promises none: "the is_idle of an ingress will not *)
(* see a gap".  It does, between the pop in the thread and `_handling', and *)
(* then takes a second task; the lock the ingresses share and the look      *)
(* under it are what keeps it at one (base_inferrer.py:188).                *)
OneTaskWaits == Local <= 2
=============================================================================
