------------------------- MODULE RedisIngressProofs -------------------------
(***************************************************************************)
(* Proof that a worker keeps at most one task waiting behind the one it     *)
(* runs, for every number of ingresses and tasks.  Two facts carry it: the   *)
(* shared lock lets one ingress at a time await BRPOP, and that one saw an   *)
(* empty queue under the lock, to which nobody else can append.              *)
(***************************************************************************)
EXTENDS RedisIngress, FiniteSetTheorems, TLAPS

OnePuller == \A i, j \in Ingresses :
                puller[i] = "pulling" /\ puller[j] = "pulling" => i = j

PullerSawNone == \A i \in Ingresses : puller[i] = "pulling" => queue = <<>>

OneInHand == popped = Nobody \/ current = Nobody

IInv == IngressTypeOK /\ OnePuller /\ PullerSawNone /\ OneInHand /\ Len(queue) <= 1

USE DEF Fates

LEMMA InitInductive == IngressInit => IInv
BY IngressAssumption DEF IngressInit, IInv, IngressTypeOK, OnePuller, PullerSawNone, OneInHand

(* The steps that leave the queue and what is in hand alone: no ingress      *)
(* begins to pull, or one that holds the lock does after it saw an empty     *)
(* queue.                                                                   *)
LEMMA PullerSteps ==
    ASSUME IInv, NEW i \in Ingresses,
           Look(i) \/ Pull(i) \/ PullTimesOut(i) \/ ConnectionLost(i)
    PROVE  IInv'
<1>1. CASE Look(i)
  BY <1>1 DEF Look, IInv, IngressTypeOK, OnePuller, PullerSawNone, OneInHand
<1>2. CASE Pull(i)
  <2>1. IngressTypeOK' /\ UNCHANGED <<queue, popped, current>>
    BY <1>2 DEF Pull, IInv, IngressTypeOK
  <2>2. OnePuller'
    BY <1>2 DEF Pull, IInv, IngressTypeOK, OnePuller
  <2>3. PullerSawNone'
    BY <1>2 DEF Pull, IsIdle, IInv, IngressTypeOK, PullerSawNone
  <2> QED BY <2>1, <2>2, <2>3 DEF IInv, OneInHand
<1>3. CASE PullTimesOut(i)
  BY <1>3 DEF PullTimesOut, IInv, IngressTypeOK, OnePuller, PullerSawNone, OneInHand
<1>4. CASE ConnectionLost(i)
  <2>1. drops' \in 0..MaxDrops
    BY <1>4, IngressAssumption DEF ConnectionLost, IInv, IngressTypeOK
  <2>2. list' \in [Ingresses -> Seq(Tasks)] /\ fate' \in [Tasks -> Fates]
    <3>1. list[i] # <<>> => Head(list[i]) \in Tasks /\ Tail(list[i]) \in Seq(Tasks)
      BY DEF IInv, IngressTypeOK
    <3>2. CASE list' = list /\ fate' = fate
      BY <3>2 DEF IInv, IngressTypeOK
    <3>3. CASE /\ list[i] # <<>>
               /\ list' = [list EXCEPT ![i] = Tail(@)]
               /\ fate' = [fate EXCEPT ![Head(list[i])] = "lost"]
      BY <3>1, <3>3 DEF IInv, IngressTypeOK
    <3> QED BY <1>4, <3>2, <3>3 DEF ConnectionLost
  <2>3. puller' \in [Ingresses -> {"looping", "passed", "pulling"}]
    BY <1>4 DEF ConnectionLost, IInv, IngressTypeOK
  <2> QED
    BY <1>4, <2>1, <2>2, <2>3
    DEF ConnectionLost, IInv, IngressTypeOK, OnePuller, PullerSawNone, OneInHand
<1> QED BY <1>1, <1>2, <1>3, <1>4

(* The list changes on the other side of the connection.                    *)
LEMMA ListSteps ==
    ASSUME IInv, NEW i \in Ingresses,
           (\E t \in Tasks : Push(i, t)) \/ OtherWorkerTakes(i)
    PROVE  IInv'
<1>1. ASSUME NEW t \in Tasks, Push(i, t) PROVE IInv'
  BY <1>1 DEF Push, IInv, IngressTypeOK, OnePuller, PullerSawNone, OneInHand
<1>2. CASE OtherWorkerTakes(i)
  BY <1>2 DEF OtherWorkerTakes, IInv, IngressTypeOK, OnePuller, PullerSawNone, OneInHand
<1> QED BY <1>1, <1>2

(* The answer of BRPOP goes into an empty queue, and ends the only pull.    *)
LEMMA ReceiveStep ==
    ASSUME IInv, NEW i \in Ingresses, Receive(i)
    PROVE  IInv'
<1>1. queue = <<>> /\ Head(list[i]) \in Tasks
  BY DEF Receive, IInv, IngressTypeOK, PullerSawNone
<1>2. queue' \in Seq(Tasks) /\ Len(queue') = 1
  BY <1>1 DEF Receive, IInv, IngressTypeOK
<1>3. \A j \in Ingresses : puller'[j] # "pulling"
  BY DEF Receive, IInv, IngressTypeOK, OnePuller
<1>4. IngressTypeOK'
  BY <1>1, <1>2 DEF Receive, IInv, IngressTypeOK
<1> QED BY <1>2, <1>3, <1>4 DEF Receive, IInv, OnePuller, PullerSawNone, OneInHand

(* The processor's own steps take from the queue and never append.          *)
LEMMA ProcessorSteps ==
    ASSUME IInv, Get \/ Handle \/ Handled
    PROVE  IInv'
<1>1. CASE Get
  BY <1>1 DEF Get, IInv, IngressTypeOK, OnePuller, PullerSawNone, OneInHand
<1>2. CASE Handle
  BY <1>2 DEF Handle, IInv, IngressTypeOK, OnePuller, PullerSawNone, OneInHand
<1>3. CASE Handled
  BY <1>3 DEF Handled, IInv, IngressTypeOK, OnePuller, PullerSawNone, OneInHand
<1> QED BY <1>1, <1>2, <1>3

(* The inductive invariant: one ingress pulls at a time, it saw an empty     *)
(* queue, the queue holds at most one task, and the loop has at most one in  *)
(* hand.                                                                    *)
THEOREM InductiveInvariant == IngressSpec => []IInv
<1>1. IInv /\ [IngressNext]_ingressVars => IInv'
  <2> SUFFICES ASSUME IInv, [IngressNext]_ingressVars PROVE IInv'
    OBVIOUS
  <2>1. CASE UNCHANGED ingressVars
    BY <2>1 DEF ingressVars, IInv, IngressTypeOK, OnePuller, PullerSawNone, OneInHand
  <2>2. CASE IngressNext
    BY <2>2, PullerSteps, ListSteps, ReceiveStep, ProcessorSteps DEF IngressNext, Arrives
  <2> QED BY <2>1, <2>2
<1> QED BY InitInductive, <1>1, PTL DEF IngressSpec

(* What is popped and what is handled are at most one message.               *)
LEMMA InHandIsOne ==
    ASSUME OneInHand
    PROVE  Cardinality({popped, current} \ {Nobody}) \in {0, 1}
<1>1. CASE popped = Nobody /\ current = Nobody
  <2>1. {popped, current} \ {Nobody} = {}
    BY <1>1
  <2> QED BY <2>1, FS_EmptySet
<1>2. CASE popped # Nobody /\ current = Nobody
  <2>1. {popped, current} \ {Nobody} = {popped}
    BY <1>2
  <2> QED BY <2>1, FS_Singleton
<1>3. CASE popped = Nobody /\ current # Nobody
  <2>1. {popped, current} \ {Nobody} = {current}
    BY <1>3
  <2> QED BY <2>1, FS_Singleton
<1> QED BY <1>1, <1>2, <1>3 DEF OneInHand

(* A worker that shares its lists with others keeps at most two tasks from   *)
(* them: the one it runs, and one the gap between the pop and `_handling'    *)
(* lets in.                                                                 *)
THEOREM OneTaskWaitsHolds == IngressSpec => []OneTaskWaits
<1>1. IInv => OneTaskWaits
  <2> SUFFICES ASSUME IInv PROVE OneTaskWaits
    OBVIOUS
  <2>1. Len(queue) \in Nat /\ Len(queue) <= 1
    <3>1. queue \in Seq(Tasks)
      BY DEF IInv, IngressTypeOK
    <3> QED BY <3>1 DEF IInv
  <2>2. Cardinality({popped, current} \ {Nobody}) \in {0, 1}
    BY InHandIsOne DEF IInv
  <2> QED BY <2>1, <2>2 DEF OneTaskWaits, Local
<1> QED BY InductiveInvariant, <1>1, PTL
=============================================================================
