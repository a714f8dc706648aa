-------------------------- MODULE EngineHostProofs --------------------------
(* Theorems about EngineHost, for any callers, lists, tasks and bundles.     *)
EXTENDS EngineHost, TLAPS

(* _lock, the cached item and the card agree: there is one bundle at most,   *)
(* and which step of which operation it is in follows from who holds _lock.  *)
Only(b, phase) == memory = [x \in Bundles |-> IF x = b THEN phase ELSE "free"]

OneInMemory ==
    \/ /\ lock = None /\ Cached /\ item.bundle \in Bundles
       /\ Only(item.bundle, "ready")
    \/ /\ lock = None /\ ~Cached
       /\ memory = [x \in Bundles |-> "free"]
    \/ /\ lock # None /\ ~Cached /\ lock.bundle \in Bundles
       /\ \/ lock.step = "evicting" /\ Only(lock.bundle, "releasing")
          \/ lock.step = "creating" /\ Only(lock.bundle, "loading")

(* A caller that has asked has a key; so has a holder of _lock that loads. *)
KeysAreSet ==
    /\ \A u \in Callers : pc[u] # "idle" => key[u] \in Keys
    /\ \A a \in AsrSessions : key[a] \in {None, LiveAsrKey}
    /\ lock # None /\ lock.by # Evictor => lock.key \in Keys
    /\ lock # None /\ lock.step = "creating" => lock.by # Evictor

(* A bundle in somebody's hands is the cached one, under the caller's key. *)
HeldIsCached ==
    \A u \in Callers :
        /\ bundle[u] # None => pc[u] \in {"waits", "warms", "works", "holds", "closes", "gives"}
        /\ bundle[u] \in Bundles => Cached /\ bundle[u] = item.bundle /\ key[u] = item.key
        /\ pc[u] = "waits" /\ bundle[u] # None => u \in AsrSessions
        /\ pc[u] \in {"warms", "works", "holds", "closes"} => bundle[u] # None
        /\ pc[u] = "gives" /\ u # Job => bundle[u] # None
        /\ pc[u] \in {"holds", "closes"} => u \in AsrSessions

(* Who holds _lock to acquire is the caller that loads, for its own key. *)
LoaderHoldsLock ==
    lock # None /\ lock.by # Evictor => pc[lock.by] = "loads" /\ key[lock.by] = lock.key

(* A request that has asked for its bundle: nothing of the last request is   *)
(* left to release, only, once it speaks again, of its own seed.             *)
Asked(v) ==
    pc[v] \in {"loads", "warms", "works", "gives"} \/ (pc[v] = "asks" /\ part[v] = "again")

EndsOf(v) ==
    /\ pc[v] \in {"idle", "waits"} => part[v] # "again"
    /\ Asked(v) => late[v] = None /\ (part[v] = "again" \/ (lateSeed[v] = None /\ v \notin left))
    /\ Asked(v) /\ pc[v] \in {"asks", "loads", "warms"} => lateSeed[v] = None
    /\ v \in used => pc[v] \in {"works", "gives"} /\ lateSeed[v] \in {None, key[v]}
    /\ v \in left => lateSeed[v] = None

EndsKnown == \A v \in TtsSessions : EndsOf(v)

(* Whoever may call release_use for the key besides a user makes it shared. *)
SharedIsKnown ==
    Cached =>
        \A w \in Callers : bundle[w] = item.bundle =>
            /\ item.inUse \/ shared
            /\ \A u \in Callers \ {w} : bundle[u] # None /\ key[u] = item.key => shared
            /\ \A v \in TtsSessions : item.key \in {late[v], lateSeed[v]} => shared
            /\ w \in left => shared

(* Its seed's finally has taken the request off _used_bundles: the mark is  *)
(* no longer its own.                                                        *)
Unregistered(u) == u \in TtsSessions /\ pc[u] = "works" /\ u \notin used

(* A marked bundle has somebody who will call release_use, or was forgotten. *)
MarkHasOwner ==
    Cached /\ item.inUse =>
        \/ \E u \in Callers : bundle[u] = item.bundle /\ ~Unregistered(u)
        \/ \E v \in TtsSessions : item.key \in {late[v], lateSeed[v]}
        \/ forgotten

IInv ==
    /\ TypeOK /\ OneInMemory /\ KeysAreSet /\ LoaderHoldsLock /\ HeldIsCached
    /\ EndsKnown /\ SharedIsKnown /\ MarkHasOwner

(***************************************************************************)
(* What a step does to the cache                                            *)
(***************************************************************************)
AcquireOps ==
    \E u \in Callers, k \in Keys :
        \/ Hit(k) \/ MissAndEvict(u, k)
        \/ \E b \in Bundles : MissAndCreate(u, k, b) \/ EvictedThenCreate(u, b)
        \/ Created(u) \/ CreateFails(u) \/ CancelAcquire(u)

EvictOps == \/ \E force \in BOOLEAN : StartEvict(force)
            \/ EndEvict \/ CancelAcquire(Evictor)

CacheOps ==
    \/ AcquireOps \/ EvictOps
    \/ \E k \in Keys : ReleaseUse(k)
    \/ UNCHANGED cacheVars

LockKeys ==
    /\ lock # None /\ lock.by # Evictor => lock.key \in Keys
    /\ lock # None /\ lock.step = "creating" => lock.by # Evictor

(* Every step of the host is one operation of the cache, or none. *)
LEMMA NextIsCacheOp == ASSUME IInv, Next PROVE CacheOps
<1> USE HostAssumption DEF IInv, TypeOK, KeysAreSet
<1>1. ASSUME TaskArrives PROVE CacheOps
  BY <1>1 DEF TaskArrives, CacheOps
<1>2. ASSUME NEW k \in {SpeechKey, FileAsrKey}, TaskStarts(k) PROVE CacheOps
  BY <1>2 DEF TaskStarts, CacheOps
<1>3. ASSUME NEW u \in Callers, Acts(u) \/ LoadFails(u) PROVE CacheOps
  <2>0. pc[u] # "idle" => key[u] \in Keys
    OBVIOUS
  <2>1. CASE LocksStream(u) \/ WarmedUp(u)
    BY <2>1 DEF LocksStream, WarmedUp, CacheOps
  <2>2. CASE Acquires(u)
    BY <2>0, <2>2 DEF Acquires, Hits, Misses, CacheOps, AcquireOps
  <2>3. CASE OldIsGone(u) \/ Loaded(u) \/ LoadFails(u)
    BY <2>0, <2>3 DEF OldIsGone, Loaded, LoadFails, CacheOps, AcquireOps
  <2>4. CASE TaskWorked \/ ChunkDone(u) \/ SpeechDone(u)
    BY <2>4 DEF TaskWorked, ChunkDone, SpeechDone, CacheOps
  <2>7. CASE SeedDone(u)
    BY <2>0, <2>7 DEF SeedDone, CacheOps, AcquireOps
  <2>5. CASE TaskEnds
    <3>1. key[Job] \in Keys
      BY <2>5 DEF TaskEnds
    <3> QED  BY <3>1, <2>5 DEF TaskEnds, CacheOps
  <2>6. CASE GivesBack(u)
    BY <2>0, <2>6 DEF GivesBack, CacheOps
  <2> QED  BY <1>3, <2>1, <2>2, <2>3, <2>4, <2>5, <2>6, <2>7 DEF Acts
<1>4. ASSUME NEW a \in AsrSessions, ChunkArrives(a) \/ Closes(a) \/ Reopens(a) PROVE CacheOps
  BY <1>4 DEF ChunkArrives, Closes, Reopens, CacheOps
<1>5. ASSUME NEW v \in TtsSessions, Request(v) \/ CancelRequest(v)
                \/ LateRelease(v) \/ SeedEnds(v) \/ SeedRelease(v)
      PROVE CacheOps
  <2>1. CASE Request(v) \/ SeedEnds(v)
    BY <2>1 DEF Request, SeedEnds, CacheOps
  <2>2. CASE LateRelease(v) \/ SeedRelease(v)
    BY <2>2 DEF LateRelease, SeedRelease, CacheOps
  <2>3. CASE CancelRequest(v)
    <3>1. v \in Callers /\ (pc[v] # "idle" => key[v] \in Keys)
      OBVIOUS
    <3> QED  BY <3>1, <2>3 DEF CancelRequest, CacheOps, AcquireOps
  <2> QED  BY <1>5, <2>1, <2>2, <2>3
<1>6. ASSUME Expires \/ EvictionEnds \/ Stop \/ StopEvicts PROVE CacheOps
  BY <1>6 DEF Expires, EvictionEnds, Stop, StopEvicts, CacheOps, EvictOps
<1> QED  BY <1>1, <1>2, <1>3, <1>4, <1>5, <1>6 DEF Next

(* The lock, the item and the card stay in step with each other. *)
Good == CacheTypeOK /\ OneInMemory /\ LockKeys

LEMMA CacheOpKeeps == ASSUME Good, CacheOps PROVE Good'
<1> USE CacheAssumption DEF CacheTypeOK, Holdings, Items, Phases
<1>0. CacheTypeOK /\ OneInMemory /\ LockKeys
  BY DEF Good
<1>1. ASSUME NEW k \in Keys, Hit(k) PROVE Good'
  <2>1. lock = None /\ item # None /\ item.bundle \in Bundles /\ Only(item.bundle, "ready")
    BY <1>0, <1>1 DEF Hit, IsHit, OneInMemory, Cached
  <2>2. item' # None /\ item' \in Items /\ item'.bundle = item.bundle /\ lock' = None /\ memory' = memory
    <3>1. item \in Items /\ item' = [item EXCEPT !.inUse = TRUE]
      BY <1>0, <1>1, <2>1 DEF Hit
    <3>2. item' \in Items /\ item'.bundle = item.bundle
      BY <3>1
    <3> QED  BY <1>1, <2>1, <3>2 DEF Hit
  <2> QED  BY <1>0, <2>1, <2>2 DEF Good, OneInMemory, Only, LockKeys, Cached
<1>2. ASSUME NEW k \in Keys, ReleaseUse(k) PROVE Good'
  <2>1. /\ lock' = None /\ lock = None /\ memory' = memory
        /\ item' \in Items \union {None} /\ (item' # None <=> item # None)
        /\ item # None => item'.bundle = item.bundle
    BY <1>0, <1>2 DEF ReleaseUse
  <2>2. Cached' <=> Cached
    BY <2>1 DEF Cached
  <2>3. CASE Cached
    BY <1>0, <2>1, <2>2, <2>3 DEF Good, OneInMemory, Only, LockKeys, Cached
  <2>4. CASE ~Cached
    BY <1>0, <2>1, <2>2, <2>4 DEF Good, OneInMemory, LockKeys
  <2> QED  BY <2>3, <2>4
<1>3. ASSUME NEW u \in Callers, NEW k \in Keys, MissAndEvict(u, k) PROVE Good'
  <2>1. lock = None /\ item # None /\ item.bundle \in Bundles /\ Only(item.bundle, "ready")
    BY <1>0, <1>3 DEF MissAndEvict, OneInMemory, Cached
  <2>2. /\ item' \in Items /\ item'.bundle = None
        /\ lock' = [by |-> u, key |-> k, bundle |-> item.bundle, step |-> "evicting"]
        /\ memory' = [memory EXCEPT ![item.bundle] = "releasing"]
    BY <1>0, <1>3, <2>1 DEF MissAndEvict
  <2>3. lock' # None /\ lock' \in Holdings
    BY <1>0, <2>1, <2>2 DEF LockKeys
  <2> QED  BY <1>0, <2>1, <2>2, <2>3 DEF Good, OneInMemory, Only, LockKeys, Cached
<1>4. ASSUME NEW u \in Callers, NEW k \in Keys, NEW b \in Bundles, MissAndCreate(u, k, b)
      PROVE Good'
  <2>1. lock = None /\ ~Cached /\ memory = [x \in Bundles |-> "free"]
    BY <1>0, <1>4 DEF MissAndCreate, OneInMemory
  <2>2. /\ item' = item /\ memory' = [memory EXCEPT ![b] = "loading"]
        /\ lock' = [by |-> u, key |-> k, bundle |-> b, step |-> "creating"]
    BY <1>4 DEF MissAndCreate, Create
  <2> QED  BY <1>0, <2>1, <2>2 DEF Good, OneInMemory, Only, LockKeys, Cached
<1>5. ASSUME NEW u \in Callers, NEW b \in Bundles, EvictedThenCreate(u, b) PROVE Good'
  <2>1. /\ lock # None /\ lock.by = u /\ u # Evictor
        /\ lock \in Holdings /\ lock.bundle \in Bundles /\ Only(lock.bundle, "releasing")
    BY <1>0, <1>5 DEF EvictedThenCreate, Awaits, OneInMemory
  <2>2. /\ item' = None
        /\ memory' = [memory EXCEPT ![lock.bundle] = "free", ![b] = "loading"]
        /\ lock' = [lock EXCEPT !.step = "creating", !.bundle = b]
    BY <1>5 DEF EvictedThenCreate
  <2>3. /\ lock' # None /\ lock' \in Holdings /\ lock'.bundle = b /\ lock'.by = u
        /\ lock'.step = "creating" /\ lock'.key = lock.key
    <3>1. lock' \in Holdings
      BY <2>1, <2>2
    <3>2. /\ lock'.bundle = b /\ lock'.by = lock.by
          /\ lock'.step = "creating" /\ lock'.key = lock.key
      BY <2>1, <2>2
    <3> QED  BY <2>1, <3>1, <3>2
  <2>4. memory' = [x \in Bundles |-> IF x = b THEN "loading" ELSE "free"]
    BY <2>1, <2>2 DEF Only
  <2> QED  BY <1>0, <2>1, <2>2, <2>3, <2>4 DEF Good, OneInMemory, Only, LockKeys, Cached
<1>6. ASSUME NEW u \in Callers, Created(u) PROVE Good'
  <2>1. /\ lock # None /\ lock.by = u /\ lock.key \in Keys
        /\ lock.bundle \in Bundles /\ Only(lock.bundle, "loading")
    BY <1>0, <1>6 DEF Created, Awaits, OneInMemory, LockKeys
  <2>2. /\ item' = [key |-> lock.key, bundle |-> lock.bundle, inUse |-> TRUE]
        /\ memory' = [memory EXCEPT ![lock.bundle] = "ready"] /\ lock' = None
    BY <1>6 DEF Created
  <2>3. [key |-> lock.key, bundle |-> lock.bundle, inUse |-> TRUE] \in Items
    BY <2>1
  <2>4. item' # None /\ item' \in Items /\ item'.bundle = lock.bundle
    BY <2>2, <2>3
  <2> QED  BY <1>0, <2>1, <2>2, <2>4 DEF Good, OneInMemory, Only, LockKeys, Cached
<1>7. ASSUME NEW c \in Callers \union {Evictor}, CancelAcquire(c) \/ CreateFails(c) \/ EndEvict
      PROVE Good'
  <2>1. /\ lock # None /\ ~Cached /\ lock.bundle \in Bundles
        /\ Only(lock.bundle, "releasing") \/ Only(lock.bundle, "loading")
    BY <1>0, <1>7 DEF CancelAcquire, CreateFails, EndEvict, Awaits, OneInMemory
  <2>2. memory' = [memory EXCEPT ![lock.bundle] = "free"] /\ lock' = None /\ item' = item
    BY <1>7 DEF CancelAcquire, CreateFails, EndEvict
  <2> QED  BY <1>0, <2>1, <2>2 DEF Good, OneInMemory, Only, LockKeys, Cached
<1>8. ASSUME NEW force \in BOOLEAN, StartEvict(force) PROVE Good'
  <2>1. lock = None /\ item.bundle \in Bundles /\ Only(item.bundle, "ready")
    BY <1>0, <1>8 DEF StartEvict, OneInMemory, Cached
  <2>2. /\ item' = None /\ memory' = [memory EXCEPT ![item.bundle] = "releasing"]
        /\ lock' = [by |-> Evictor, key |-> None, bundle |-> item.bundle, step |-> "evicting"]
    BY <1>8 DEF StartEvict
  <2>3. lock' # None /\ lock' \in Holdings
    BY <1>0, <2>1, <2>2 DEF LockKeys
  <2> QED  BY <1>0, <2>1, <2>2, <2>3 DEF Good, OneInMemory, Only, LockKeys, Cached
<1>9. ASSUME UNCHANGED cacheVars PROVE Good'
  BY <1>0, <1>9 DEF cacheVars, Good, OneInMemory, Only, LockKeys, Cached
<1> QED  BY <1>1, <1>2, <1>3, <1>4, <1>5, <1>6, <1>7, <1>8, <1>9
         DEF CacheOps, AcquireOps, EvictOps

(***************************************************************************)
(* The cache implements PipelineSlot                                        *)
(***************************************************************************)
(* What the card looks like from outside when it holds one bundle, or none. *)
One(b, phase) == [x \in Bundles |-> IF x = b THEN phase ELSE "free"]
AllFree == [x \in Bundles |-> "free"]

LEMMA PlaceOfOne ==
    ASSUME NEW b \in Bundles, NEW phase \in Phases \ {"free"}
    PROVE  Place(One(b, phase)) = [phase |-> phase, bundle |-> b]
<1> DEFINE m == One(b, phase)
<1>1. There(m) = {b} /\ m[b] = phase
  BY DEF There, One, Phases
<1> HIDE DEF m
<1>2. (CHOOSE x \in There(m) : TRUE) = b
  BY <1>1
<1> QED  BY <1>1, <1>2 DEF Place, m

LEMMA PlaceOfNone == Place(AllFree) = [phase |-> "empty"]
<1>1. There(AllFree) = {}
  BY DEF There, AllFree
<1> QED  BY <1>1 DEF Place

LEMMA CacheOpImplementsSlot ==
    ASSUME Good, CacheOps PROVE Slot!Next \/ Place(memory)' = Place(memory)
<1> USE CacheAssumption DEF CacheTypeOK, Holdings, Items, Phases
<1>0. CacheTypeOK /\ OneInMemory /\ LockKeys
  BY DEF Good
<1>a. \A b \in Bundles : \A phase \in {"loading", "ready", "releasing"} :
         Place(One(b, phase)) = Slot!Holding(phase, b)
  BY PlaceOfOne DEF Slot!Holding
<1>b. Place(AllFree) = Slot!Empty
  BY PlaceOfNone DEF Slot!Empty
<1>1. ASSUME NEW k \in Keys, Hit(k) \/ ReleaseUse(k) PROVE Place(memory)' = Place(memory)
  BY <1>1 DEF Hit, ReleaseUse
<1>2. ASSUME Cached, lock = None, memory' = [memory EXCEPT ![item.bundle] = "releasing"]
      PROVE  Slot!StartReleasing
  <2>1. item.bundle \in Bundles /\ memory = One(item.bundle, "ready")
    BY <1>0, <1>2 DEF OneInMemory, Only, One
  <2>2. memory' = One(item.bundle, "releasing")
    BY <1>2, <2>1 DEF One
  <2> QED  BY <1>a, <2>1, <2>2 DEF Slot!StartReleasing
<1>3. ASSUME NEW u \in Callers, NEW k \in Keys, NEW b \in Bundles, MissAndCreate(u, k, b)
      PROVE  Slot!StartLoading
  <2>1. memory = AllFree
    BY <1>0, <1>3 DEF MissAndCreate, OneInMemory, AllFree
  <2>2. memory' = One(b, "loading")
    BY <1>3, <2>1 DEF MissAndCreate, Create, One, AllFree
  <2> QED  BY <1>a, <1>b, <2>1, <2>2 DEF Slot!StartLoading
<1>4. ASSUME NEW u \in Callers, NEW b \in Bundles, EvictedThenCreate(u, b) PROVE Slot!Replace
  <2>1. lock.bundle \in Bundles /\ memory = One(lock.bundle, "releasing")
    BY <1>0, <1>4 DEF EvictedThenCreate, Awaits, OneInMemory, Only, One
  <2>2. b # lock.bundle
    BY <1>4, <2>1 DEF EvictedThenCreate, One
  <2>3. memory' = One(b, "loading")
    BY <1>4, <2>1 DEF EvictedThenCreate, One
  <2> QED  BY <1>a, <2>1, <2>2, <2>3 DEF Slot!Replace
<1>5. ASSUME NEW u \in Callers, Created(u) PROVE Slot!FinishLoading
  <2>1. lock.bundle \in Bundles /\ memory = One(lock.bundle, "loading")
    BY <1>0, <1>5 DEF Created, Awaits, OneInMemory, Only, One
  <2>2. memory' = One(lock.bundle, "ready")
    BY <1>5, <2>1 DEF Created, One
  <2> QED  BY <1>a, <2>1, <2>2 DEF Slot!FinishLoading
<1>6. ASSUME NEW c \in Callers \union {Evictor}, CancelAcquire(c) \/ CreateFails(c) \/ EndEvict
      PROVE  Slot!Vacate
  <2>1. /\ lock.bundle \in Bundles
        /\ \E phase \in {"loading", "releasing"} : memory = One(lock.bundle, phase)
    BY <1>0, <1>6 DEF CancelAcquire, CreateFails, EndEvict, Awaits, OneInMemory, Only, One
  <2>2. memory' = AllFree
    BY <1>6, <2>1 DEF CancelAcquire, CreateFails, EndEvict, One, AllFree
  <2>3. PICK phase \in {"loading", "releasing"} : memory = One(lock.bundle, phase)
    BY <2>1
  <2>4. Place(memory) = Slot!Holding(phase, lock.bundle)
    BY <1>a, <2>1, <2>3
  <2>5. Place(memory)' = Slot!Empty
    BY <1>b, <2>2
  <2> QED  BY <2>1, <2>3, <2>4, <2>5 DEF Slot!Vacate
<1>7. ASSUME UNCHANGED cacheVars PROVE Place(memory)' = Place(memory)
  BY <1>7 DEF cacheVars
<1>8. ASSUME NEW u \in Callers, NEW k \in Keys, MissAndEvict(u, k) PROVE Slot!StartReleasing
  BY <1>2, <1>8 DEF MissAndEvict
<1>9. ASSUME NEW force \in BOOLEAN, StartEvict(force) PROVE Slot!StartReleasing
  BY <1>2, <1>9 DEF StartEvict
<1> QED  BY <1>1, <1>3, <1>4, <1>5, <1>6, <1>7, <1>8, <1>9
         DEF CacheOps, AcquireOps, EvictOps, Slot!Next

(***************************************************************************)
(* The lists, the queue and the loop                                        *)
(***************************************************************************)
LEMMA IngressKeeps ==
    ASSUME IngressTypeOK, Arrives \/ Handle \/ Handled \/ UNCHANGED ingressVars
    PROVE  IngressTypeOK'
<1> USE IngressAssumption DEF IngressTypeOK, Fates
<1>1. ASSUME NEW i \in Ingresses, list[i] # <<>>
      PROVE  Head(list[i]) \in Tasks /\ Tail(list[i]) \in Seq(Tasks)
  BY <1>1
<1>2. ASSUME NEW i \in Ingresses, NEW t \in Tasks, Push(i, t) PROVE IngressTypeOK'
  <2>1. Append(list[i], t) \in Seq(Tasks)
    OBVIOUS
  <2> QED  BY <1>2, <2>1 DEF Push
<1>3. ASSUME NEW i \in Ingresses, OtherWorkerTakes(i) PROVE IngressTypeOK'
  BY <1>1, <1>3 DEF OtherWorkerTakes
<1>4. ASSUME NEW i \in Ingresses, Look(i) \/ Pull(i) \/ PullTimesOut(i) PROVE IngressTypeOK'
  BY <1>4 DEF Look, Pull, PullTimesOut
<1>5. ASSUME NEW i \in Ingresses, Receive(i) PROVE IngressTypeOK'
  <2>1. Append(queue, Head(list[i])) \in Seq(Tasks)
    BY <1>1, <1>5 DEF Receive
  <2> QED  BY <1>1, <1>5, <2>1 DEF Receive
<1>6. ASSUME NEW i \in Ingresses, ConnectionLost(i) PROVE IngressTypeOK'
  <2>1. drops' \in 0..MaxDrops
    BY <1>6 DEF ConnectionLost
  <2>2. list' \in [Ingresses -> Seq(Tasks)] /\ fate' \in [Tasks -> Fates]
    BY <1>1, <1>6 DEF ConnectionLost
  <2> QED  BY <1>6, <2>1, <2>2 DEF ConnectionLost
<1>7. ASSUME Get PROVE IngressTypeOK'
  <2>1. Head(queue) \in Tasks /\ Tail(queue) \in Seq(Tasks)
    BY <1>7 DEF Get
  <2> QED  BY <1>7, <2>1 DEF Get
<1>8. ASSUME Handle \/ Handled PROVE IngressTypeOK'
  BY <1>8 DEF Handle, Handled
<1>9. ASSUME UNCHANGED ingressVars PROVE IngressTypeOK'
  BY <1>9 DEF ingressVars
<1> QED  BY <1>2, <1>3, <1>4, <1>5, <1>6, <1>7, <1>8, <1>9 DEF Arrives

(***************************************************************************)
(* The callers                                                              *)
(***************************************************************************)
CallersTyped ==
    /\ pc \in [Callers -> {"idle", "waits", "asks", "loads", "warms", "works", "holds",
                           "closes", "gives"}]
    /\ key \in [Callers -> Keys \union {None}]
    /\ bundle \in [Callers -> Bundles \union {None, Ousted}]
    /\ part \in [Callers -> {"only", "seed", "again"}]
    /\ stream \in Callers \union {None}
    /\ used \subseteq TtsSessions /\ left \subseteq TtsSessions
    /\ lateSeed \in [TtsSessions -> Keys \union {None}]
    /\ late \in [TtsSessions -> Keys \union {None}]
    /\ closing \in {"no", "asked", "done"}
    /\ shared \in BOOLEAN /\ forgotten \in BOOLEAN

AskersHaveKeys ==
    /\ \A u \in Callers : pc[u] # "idle" => key[u] \in Keys
    /\ \A a \in AsrSessions : key[a] \in {None, LiveAsrKey}

CallersGood == CallersTyped /\ AskersHaveKeys /\ HeldIsCached /\ SharedIsKnown /\ MarkHasOwner

(* A caller moves without touching the cache, its key or its bundle; it may  *)
(* be registered on the way.                                                 *)
LEMMA MoveKeeps ==
    ASSUME Good, CallersGood, NEW u \in Callers,
           NEW to \in {"waits", "asks", "works", "holds", "closes", "gives"},
           Moves(u, to), pc[u] # "idle",
           to = "asks" => bundle[u] = None,
           to \in {"works", "holds", "closes"} => bundle[u] # None,
           to = "gives" => bundle[u] # None \/ u = Job,
           to \in {"waits", "holds", "closes"} => u \in AsrSessions,
           to = "works" => u \notin TtsSessions \/ u \in used',
           stream' \in Callers \union {None},
           used \subseteq used', used' \subseteq TtsSessions,
           UNCHANGED <<key, part, bundle, left, lateSeed, late, closing, histories, item>>
    PROVE  CallersGood'
<1> USE DEF CallersGood, CallersTyped, AskersHaveKeys
<1>1. pc' = [pc EXCEPT ![u] = to]
  BY DEF Moves
<1>2. /\ key' = key /\ part' = part /\ bundle' = bundle /\ left' = left /\ lateSeed' = lateSeed
      /\ late' = late /\ closing' = closing
      /\ shared' = shared /\ forgotten' = forgotten /\ item' = item
  BY DEF histories
<1>3. CallersTyped' /\ AskersHaveKeys'
  BY <1>1, <1>2
<1>4. HeldIsCached'
  BY <1>1, <1>2 DEF HeldIsCached, Cached
<1>5. SharedIsKnown'
  BY <1>2 DEF SharedIsKnown, Cached
<1>6. MarkHasOwner'
  <2>1. \A w \in Callers : Unregistered(w)' => Unregistered(w)
    BY <1>1 DEF Unregistered
  <2> QED  BY <1>2, <2>1 DEF MarkHasOwner, Cached
<1> QED  BY <1>3, <1>4, <1>5, <1>6

(* The same, when nothing changes but where the caller is. *)
LEMMA WalkKeeps ==
    ASSUME Good, CallersGood, NEW u \in Callers,
           NEW to \in {"waits", "asks", "works", "holds", "closes", "gives"},
           Moves(u, to), pc[u] # "idle",
           to = "asks" => bundle[u] = None,
           to \in {"works", "holds", "closes"} => bundle[u] # None,
           to = "gives" => bundle[u] # None \/ u = Job,
           to \in {"waits", "holds", "closes"} => u \in AsrSessions,
           to = "works" => u \notin TtsSessions,
           stream' \in Callers \union {None},
           UNCHANGED <<key, part, bundle, ends, closing, histories, item>>
    PROVE  CallersGood'
<1>1. /\ used \subseteq used' /\ used' \subseteq TtsSessions
      /\ UNCHANGED <<key, part, bundle, left, lateSeed, late, closing, histories, item>>
  BY DEF ends, CallersGood, CallersTyped
<1> QED  BY <1>1, MoveKeeps

(* A caller leaves: what it had is forgotten, or will be released late, or   *)
(* was released by the finally of its seed.                                  *)
LEMMA LeaveKeeps ==
    ASSUME Good, CallersGood, NEW u \in Callers, Leaves(u),
           UNCHANGED <<item, closing, shared, left, lateSeed>>,
           used' \in {used, used \ {u}},
           \/ late' = late /\ (Cached /\ bundle[u] = item.bundle => forgotten' \/ Unregistered(u))
           \/ /\ u \in TtsSessions /\ pc[u] = "works" /\ bundle[u] # None /\ late[u] = None
              /\ late' = [late EXCEPT ![u] = IF u \in used THEN key[u] ELSE None],
           forgotten' \in BOOLEAN, forgotten => forgotten'
    PROVE  CallersGood'
<1> USE DEF CallersGood, CallersTyped, AskersHaveKeys
<1>1. /\ pc' = [pc EXCEPT ![u] = "idle"] /\ key' = [key EXCEPT ![u] = None]
      /\ part' = [part EXCEPT ![u] = "only"]
      /\ bundle' = [bundle EXCEPT ![u] = None]
      /\ stream' = IF stream = u THEN None ELSE stream
  BY DEF Leaves, Moves, LetsGo
<1>2. CallersTyped' /\ AskersHaveKeys'
  BY <1>1
<1>3. HeldIsCached'
  BY <1>1, HostAssumption, CacheAssumption DEF HeldIsCached, Cached
<1>6. ASSUME NEW v \in TtsSessions, Cached, late'[v] = item.key
      PROVE  late[v] = item.key \/ (v = u /\ u \in used /\ bundle[u] # None /\ key[u] = item.key)
  <2>1. item.key \in Keys
    BY <1>6 DEF Good, CacheTypeOK, Items, Cached
  <2> QED  BY <1>6, <2>1, HostAssumption
<1>4. SharedIsKnown'
  <2> SUFFICES ASSUME Cached, NEW w \in Callers, bundle'[w] = item.bundle
               PROVE  /\ item.inUse \/ shared
                      /\ \A x \in Callers \ {w} : bundle'[x] # None /\ key'[x] = item.key => shared
                      /\ \A v \in TtsSessions : item.key \in {late'[v], lateSeed[v]} => shared
                      /\ w \in left => shared
    BY DEF SharedIsKnown, Cached
  <2>1. w # u /\ bundle[w] = item.bundle
    BY <1>1 DEF Cached
  <2>2. (item.inUse \/ shared) /\ (w \in left => shared)
    BY <2>1 DEF SharedIsKnown
  <2>3. ASSUME NEW x \in Callers \ {w}, bundle'[x] # None, key'[x] = item.key PROVE shared
    BY <1>1, <2>1, <2>3 DEF SharedIsKnown
  <2>4. ASSUME NEW v \in TtsSessions, item.key \in {late'[v], lateSeed[v]} PROVE shared
    <3>1. CASE item.key \in {late[v], lateSeed[v]}
      BY <2>1, <3>1 DEF SharedIsKnown
    <3>2. CASE item.key \notin {late[v], lateSeed[v]}
      <4>1. bundle[u] # None /\ key[u] = item.key
        BY <1>6, <2>4, <3>2
      <4> QED  BY <2>1, <4>1 DEF SharedIsKnown
    <3> QED  BY <3>1, <3>2
  <2> QED  BY <2>2, <2>3, <2>4
<1>5. MarkHasOwner'
  <2> SUFFICES ASSUME Cached, item.inUse, ~forgotten'
               PROVE  \/ \E w \in Callers : bundle'[w] = item.bundle /\ ~Unregistered(w)'
                      \/ \E v \in TtsSessions : item.key \in {late'[v], lateSeed[v]}
    BY DEF MarkHasOwner, Cached
  <2>0. item.bundle \in Bundles /\ item.key \in Keys
    BY DEF Good, CacheTypeOK, Items, Cached
  <2>1. CASE bundle[u] = item.bundle /\ ~Unregistered(u)
    <3>1. u \in TtsSessions /\ pc[u] = "works" /\ late'[u] = IF u \in used THEN key[u] ELSE None
      BY <2>1
    <3>2. key[u] = item.key
      BY <2>0, <2>1 DEF HeldIsCached
    <3>3. u \in used
      BY <2>1, <3>1 DEF Unregistered
    <3> QED  BY <3>1, <3>2, <3>3
  <2>2. CASE ~(bundle[u] = item.bundle /\ ~Unregistered(u))
    <3>1. ASSUME NEW w \in Callers, bundle[w] = item.bundle, ~Unregistered(w)
          PROVE  bundle'[w] = item.bundle /\ ~Unregistered(w)'
      <4>1. w # u
        BY <2>2, <3>1
      <4> QED  BY <1>1, <3>1, <4>1 DEF Unregistered
    <3>2. ASSUME NEW v \in TtsSessions, item.key \in {late[v], lateSeed[v]}
          PROVE  item.key \in {late'[v], lateSeed[v]}
      BY <2>0, <3>2, HostAssumption
    <3> QED  BY <3>1, <3>2 DEF MarkHasOwner
  <2> QED  BY <2>1, <2>2
<1> QED  BY <1>2, <1>3, <1>4, <1>5

(* Nothing of what the callers have changes. *)
LEMMA SameKeeps ==
    ASSUME CallersGood, closing' \in {"no", "asked", "done"},
           UNCHANGED <<callerVars, ends, histories, item>>
    PROVE  CallersGood'
BY DEF CallersGood, CallersTyped, AskersHaveKeys, HeldIsCached, SharedIsKnown, MarkHasOwner,
       Unregistered, Cached, callerVars, asked, ends, histories

(* A caller with nothing in its hands asks for a bundle. *)
LEMMA AskKeeps ==
    ASSUME Good, CallersGood, NEW u \in Callers, NEW k \in Keys, NEW to \in {"waits", "asks"},
           pc[u] = "idle", Moves(u, to), key' = [key EXCEPT ![u] = k],
           part' \in [Callers -> {"only", "seed", "again"}],
           u \in AsrSessions => k = LiveAsrKey,
           UNCHANGED <<bundle, stream, ends, closing, histories, item>>
    PROVE  CallersGood'
<1> USE DEF CallersGood, CallersTyped, AskersHaveKeys
<1>1. pc' = [pc EXCEPT ![u] = to] /\ key' = [key EXCEPT ![u] = k]
  BY DEF Moves
<1>2. /\ bundle' = bundle /\ closing' = closing /\ stream' = stream
      /\ used' = used /\ left' = left /\ lateSeed' = lateSeed /\ late' = late
      /\ shared' = shared /\ forgotten' = forgotten /\ item' = item
  BY DEF histories, ends
<1>3. bundle[u] = None
  BY DEF HeldIsCached
<1>4. CallersTyped' /\ AskersHaveKeys'
  BY <1>1, <1>2
<1>5. HeldIsCached'
  BY <1>1, <1>2, <1>3, CacheAssumption DEF HeldIsCached, Cached
<1>6. SharedIsKnown'
  BY <1>1, <1>2, <1>3 DEF SharedIsKnown, Cached
<1>7. MarkHasOwner'
  <2>1. \A w \in Callers : Unregistered(w)' => Unregistered(w)
    BY <1>1, <1>2 DEF Unregistered
  <2> QED  BY <1>2, <2>1 DEF MarkHasOwner, Cached
<1> QED  BY <1>4, <1>5, <1>6, <1>7

(* The cached bundle is taken away: nothing is cached, its users are ousted. *)
LEMMA OustKeeps ==
    ASSUME Good, CallersGood, Cached, Oust, ~Cached',
           \/ pc' = pc
           \/ \E u \in Callers : pc[u] = "asks" /\ Moves(u, "loads"),
           closing' \in {"no", "asked", "done"},
           UNCHANGED <<key, part, stream, ends>>
    PROVE  CallersGood'
<1> USE DEF CallersGood, CallersTyped, AskersHaveKeys
<1>1. /\ key' = key /\ part' = part /\ stream' = stream
      /\ used' = used /\ left' = left /\ lateSeed' = lateSeed /\ late' = late
      /\ shared' = FALSE /\ forgotten' = FALSE
      /\ bundle' = [u \in Callers |-> IF bundle[u] = item.bundle THEN Ousted ELSE bundle[u]]
  BY DEF Oust, Ousting, ends
<1>2. item.bundle \in Bundles
  BY DEF Good, CacheTypeOK, Items, Cached
<1>3. /\ pc' \in [Callers -> {"idle", "waits", "asks", "loads", "warms", "works", "holds",
                             "closes", "gives"}]
      /\ \A u \in Callers : pc'[u] # pc[u] => pc[u] = "asks" /\ pc'[u] = "loads"
  BY DEF Moves
<1>4. CallersTyped' /\ AskersHaveKeys'
  BY <1>1, <1>2, <1>3
<1>5. \A u \in Callers : bundle'[u] \notin Bundles /\ (bundle'[u] # None <=> bundle[u] # None)
  BY <1>1, <1>2, HostAssumption, CacheAssumption DEF HeldIsCached
<1>6. HeldIsCached'
  BY <1>3, <1>5 DEF HeldIsCached
<1>7. SharedIsKnown' /\ MarkHasOwner'
  BY DEF SharedIsKnown, MarkHasOwner
<1> QED  BY <1>4, <1>6, <1>7

(* Nothing was cached and nothing is: nobody holds more than the name. *)
LEMMA EmptyKeeps ==
    ASSUME Good, CallersGood, ~Cached, ~Cached',
           \/ pc' = pc
           \/ \E u \in Callers : pc[u] = "asks" /\ Moves(u, "loads"),
           UNCHANGED <<key, part, bundle, stream, ends, closing, histories>>
    PROVE  CallersGood'
<1> USE DEF CallersGood, CallersTyped, AskersHaveKeys
<1>1. /\ key' = key /\ part' = part /\ stream' = stream /\ bundle' = bundle
      /\ used' = used /\ left' = left /\ lateSeed' = lateSeed /\ late' = late
      /\ closing' = closing /\ shared' = shared /\ forgotten' = forgotten
  BY DEF histories, ends
<1>3. /\ pc' \in [Callers -> {"idle", "waits", "asks", "loads", "warms", "works", "holds",
                             "closes", "gives"}]
      /\ \A u \in Callers : pc'[u] # pc[u] => pc[u] = "asks" /\ pc'[u] = "loads"
  BY DEF Moves
<1>4. CallersTyped' /\ AskersHaveKeys'
  BY <1>1, <1>3
<1>5. \A u \in Callers : bundle[u] \notin Bundles
  BY DEF HeldIsCached
<1>6. HeldIsCached'
  BY <1>1, <1>3, <1>5 DEF HeldIsCached
<1>7. SharedIsKnown' /\ MarkHasOwner'
  BY DEF SharedIsKnown, MarkHasOwner
<1> QED  BY <1>4, <1>6, <1>7

(* A hit: whoever uses the key already makes it shared. *)
LEMMA HitKeeps ==
    ASSUME Good, CallersGood, NEW u \in Callers, Hits(u)
    PROVE CallersGood'
<1> USE DEF CallersGood, CallersTyped, AskersHaveKeys
<1>1. /\ key' = key /\ part' = part /\ stream' = stream /\ closing' = closing
      /\ left' = left /\ lateSeed' = lateSeed /\ late' = late
      /\ used' = used \union ({u} \intersect TtsSessions)
      /\ forgotten' = forgotten /\ shared' = (shared \/ AlsoUsed(u))
      /\ bundle' = [bundle EXCEPT ![u] = item.bundle] /\ pc' = [pc EXCEPT ![u] = "works"]
  BY DEF Hits, Moves, Registers, asked
<1>2. /\ item # None /\ item \in Items /\ item.bundle \in Bundles /\ item.key = key[u] /\ Cached
      /\ item' = [item EXCEPT !.inUse = TRUE] /\ pc[u] = "asks"
  BY DEF Hits, Hit, IsHit, Cached, Good, CacheTypeOK, Items
<1>3. item' \in Items /\ item' # None
  BY <1>2, CacheAssumption DEF Items
<1>4. item'.bundle = item.bundle /\ item'.key = item.key /\ item'.inUse /\ Cached'
  BY <1>2, <1>3 DEF Items, Cached
<1>5. AlsoUsed(u) \in BOOLEAN
  BY DEF AlsoUsed
<1>6. CallersTyped' /\ AskersHaveKeys'
  BY <1>1, <1>2, <1>5
<1>7. HeldIsCached'
  BY <1>1, <1>2, <1>4, CacheAssumption DEF HeldIsCached
<1>9. SharedIsKnown'
  <2> SUFFICES ASSUME NEW w \in Callers, bundle'[w] = item.bundle
               PROVE  /\ \A x \in Callers \ {w} : bundle'[x] # None /\ key[x] = item.key => shared'
                      /\ \A v \in TtsSessions : item.key \in {late[v], lateSeed[v]} => shared'
                      /\ w \in left => shared'
    BY <1>1, <1>4 DEF SharedIsKnown
  <2>1. ASSUME NEW x \in Callers \ {w}, bundle'[x] # None, key[x] = item.key PROVE shared'
    <3>1. CASE w = u
      BY <1>1, <1>2, <2>1, <3>1 DEF AlsoUsed
    <3>2. CASE w # u
      <4>1. bundle[w] # None /\ key[w] = item.key
        BY <1>1, <1>2, <3>2, CacheAssumption DEF HeldIsCached
      <4>2. CASE x = u
        BY <1>1, <1>2, <3>2, <4>1 DEF AlsoUsed
      <4>3. CASE x # u
        BY <1>1, <1>2, <2>1, <3>2, <4>3 DEF SharedIsKnown
      <4> QED  BY <4>2, <4>3
    <3> QED  BY <3>1, <3>2
  <2>2. ASSUME NEW v \in TtsSessions, item.key \in {late[v], lateSeed[v]} PROVE shared'
    BY <1>1, <1>2, <2>2 DEF AlsoUsed
  <2>3. ASSUME w \in left PROVE shared'
    <3>1. CASE w = u
      BY <1>1, <2>3, <3>1 DEF AlsoUsed
    <3>2. CASE w # u
      BY <1>1, <1>2, <2>3, <3>2 DEF SharedIsKnown
    <3> QED  BY <3>1, <3>2
  <2> QED  BY <2>1, <2>2, <2>3
<1>10. MarkHasOwner'
  <2>1. bundle'[u] = item'.bundle /\ ~Unregistered(u)'
    BY <1>1, <1>4 DEF Unregistered
  <2> QED  BY <2>1 DEF MarkHasOwner
<1> QED  BY <1>6, <1>7, <1>9, <1>10

(* A load: who else has the key in its hands had a bundle that was ousted. *)
LEMMA LoadKeeps ==
    ASSUME Good, CallersGood, LoaderHoldsLock, NEW u \in Callers, Loaded(u)
    PROVE  CallersGood'
<1> USE DEF CallersGood, CallersTyped, AskersHaveKeys
<1>1. /\ key' = key /\ part' = part /\ stream' = stream /\ closing' = closing
      /\ left' = left /\ lateSeed' = lateSeed /\ late' = late /\ u \notin left
      /\ forgotten' = FALSE /\ shared' = AlsoUsed(u)
      /\ bundle' = [bundle EXCEPT ![u] = lock.bundle]
      /\ \/ pc' = [pc EXCEPT ![u] = "warms"] /\ used' = used
         \/ pc' = [pc EXCEPT ![u] = "works"] /\ used' = used \union ({u} \intersect TtsSessions)
  BY DEF Loaded, Moves, Registers, asked, ends
<1>2. /\ lock # None /\ lock.by = u /\ lock \in Holdings /\ lock.bundle \in Bundles /\ ~Cached
      /\ item' = [key |-> lock.key, bundle |-> lock.bundle, inUse |-> TRUE]
      /\ pc[u] = "loads" /\ key[u] \in Keys
  BY DEF Loaded, Created, Awaits, Good, OneInMemory, CacheTypeOK
<1>3. lock.key = key[u]
  BY <1>2, CacheAssumption DEF LoaderHoldsLock
<1>4. item' \in Items
  BY <1>2, <1>3 DEF Items
<1>5. Cached' /\ item'.bundle = lock.bundle /\ item'.key = key[u] /\ item'.inUse
  BY <1>2, <1>3, <1>4, CacheAssumption DEF Cached
<1>6. \A w \in Callers : bundle[w] \notin Bundles
  BY <1>2 DEF HeldIsCached
<1>7. CallersTyped' /\ AskersHaveKeys'
  <2>1. AlsoUsed(u) \in BOOLEAN
    BY DEF AlsoUsed
  <2> QED  BY <1>1, <1>2, <2>1
<1>8. HeldIsCached'
  BY <1>1, <1>2, <1>5, <1>6, CacheAssumption DEF HeldIsCached
<1>10. SharedIsKnown'
  <2> SUFFICES ASSUME NEW w \in Callers, bundle'[w] = lock.bundle
               PROVE  /\ \A x \in Callers \ {w} : bundle'[x] # None /\ key[x] = key[u] => shared'
                      /\ \A v \in TtsSessions : key[u] \in {late[v], lateSeed[v]} => shared'
                      /\ w \in left => shared'
    BY <1>1, <1>5 DEF SharedIsKnown
  <2>1. w = u
    BY <1>1, <1>2, <1>6
  <2> QED  BY <1>1, <2>1 DEF AlsoUsed
<1>11. MarkHasOwner'
  <2>1. bundle'[u] = item'.bundle /\ ~Unregistered(u)'
    BY <1>1, <1>2, <1>5 DEF Unregistered
  <2> QED  BY <2>1 DEF MarkHasOwner
<1> QED  BY <1>7, <1>8, <1>10, <1>11

(* release_use keeps what is cached; it clears the mark under its own key. *)
LEMMA ReleaseClears ==
    ASSUME Good, NEW k \in Keys, ReleaseUse(k)
    PROVE  /\ Cached' <=> Cached
           /\ Cached => /\ item'.bundle = item.bundle /\ item'.key = item.key
                        /\ item.key = k => ~item'.inUse
                        /\ item.key # k => item' = item
<1> USE CacheAssumption DEF Good, CacheTypeOK, Items
<1>1. CASE item = None
  BY <1>1 DEF ReleaseUse, Cached
<1>2. CASE item # None /\ item.key = k
  <2>1. item' = [item EXCEPT !.inUse = FALSE] /\ item \in Items
    BY <1>2 DEF ReleaseUse
  <2>2. item' \in Items
    BY <2>1
  <2>3. item' # None /\ item'.bundle = item.bundle /\ item'.key = item.key /\ ~item'.inUse
    BY <2>1, <2>2
  <2> QED  BY <1>2, <2>3 DEF Cached
<1>3. CASE item # None /\ item.key # k
  BY <1>3 DEF ReleaseUse, Cached
<1> QED  BY <1>1, <1>2, <1>3

(* A user gives its bundle back. *)
LEMMA GiveBackKeeps ==
    ASSUME Good, CallersGood, NEW u \in Callers, Leaves(u), bundle[u] # None,
           pc[u] # "idle", ReleaseUse(key[u]), used' \in {used, used \ {u}},
           UNCHANGED <<left, lateSeed, late, closing, histories>>
    PROVE  CallersGood'
<1> USE DEF CallersGood, CallersTyped, AskersHaveKeys
<1>1. /\ pc' = [pc EXCEPT ![u] = "idle"] /\ key' = [key EXCEPT ![u] = None]
      /\ part' = [part EXCEPT ![u] = "only"]
      /\ bundle' = [bundle EXCEPT ![u] = None]
      /\ stream' = IF stream = u THEN None ELSE stream
      /\ left' = left /\ lateSeed' = lateSeed
      /\ late' = late /\ closing' = closing /\ shared' = shared /\ forgotten' = forgotten
  BY DEF Leaves, Moves, LetsGo, histories
<1>2. /\ Cached' <=> Cached
      /\ Cached => /\ item'.bundle = item.bundle /\ item'.key = item.key
                   /\ item.key = key[u] => ~item'.inUse
                   /\ item.key # key[u] => item' = item
  BY ReleaseClears
<1>3. CallersTyped' /\ AskersHaveKeys'
  BY <1>1
<1>4. HeldIsCached'
  BY <1>1, <1>2, CacheAssumption DEF HeldIsCached
<1>6. SharedIsKnown'
  <2> SUFFICES ASSUME Cached, NEW w \in Callers, bundle'[w] = item.bundle
               PROVE  /\ item'.inUse \/ shared
                      /\ \A x \in Callers \ {w} : bundle'[x] # None /\ key'[x] = item.key => shared
                      /\ \A v \in TtsSessions : item.key \in {late[v], lateSeed[v]} => shared
                      /\ w \in left => shared
    BY <1>1, <1>2 DEF SharedIsKnown
  <2>1. w # u /\ bundle[w] = item.bundle
    BY <1>1 DEF Cached
  <2>2. item'.inUse \/ shared
    BY <1>2, <2>1 DEF SharedIsKnown
  <2>3. ASSUME NEW x \in Callers \ {w}, bundle'[x] # None, key'[x] = item.key PROVE shared
    BY <1>1, <2>1, <2>3 DEF SharedIsKnown
  <2> QED  BY <2>1, <2>2, <2>3 DEF SharedIsKnown
<1>7. MarkHasOwner'
  <2> SUFFICES ASSUME Cached, item'.inUse, ~forgotten
               PROVE  \/ \E w \in Callers : bundle'[w] = item.bundle /\ ~Unregistered(w)'
                      \/ \E v \in TtsSessions : item.key \in {late[v], lateSeed[v]}
    BY <1>1, <1>2 DEF MarkHasOwner
  <2>1. item.key # key[u] /\ item.inUse
    BY <1>2
  <2>2. item.bundle \in Bundles
    BY DEF Good, CacheTypeOK, Items, Cached
  <2>3. bundle[u] # item.bundle
    BY <2>1, <2>2 DEF HeldIsCached
  <2>4. \A w \in Callers \ {u} : bundle'[w] = bundle[w] /\ (Unregistered(w)' => Unregistered(w))
    BY <1>1 DEF Unregistered
  <2> QED  BY <2>1, <2>3, <2>4 DEF MarkHasOwner
<1> QED  BY <1>3, <1>4, <1>6, <1>7

(* The finally of a generator that was broken off, of the speech or of the   *)
(* seed: the latter empties _used_bundles under the request.                 *)
LEMMA LateReleaseKeeps ==
    ASSUME Good, CallersGood, EndsKnown, NEW v \in TtsSessions,
           LateRelease(v) \/ SeedRelease(v)
    PROVE  CallersGood'
<1> USE DEF CallersGood, CallersTyped, AskersHaveKeys
<1>1. /\ pc' = pc /\ key' = key /\ part' = part /\ bundle' = bundle /\ stream' = stream
      /\ left' = left /\ closing' = closing /\ shared' = shared /\ forgotten' = forgotten
      /\ \/ /\ late[v] # None /\ late' = [late EXCEPT ![v] = None]
            /\ lateSeed' = lateSeed /\ used' = used
         \/ /\ lateSeed[v] # None /\ lateSeed' = [lateSeed EXCEPT ![v] = None]
            /\ late' = late /\ used' = used \ {v}
  BY DEF LateRelease, SeedRelease, callerVars, asked, histories
<1>0. PICK k \in Keys : /\ ReleaseUse(k) /\ k \in {late[v], lateSeed[v]}
                        /\ \/ late' = [late EXCEPT ![v] = None] /\ lateSeed' = lateSeed
                                 /\ used' = used /\ late[v] = k
                           \/ lateSeed' = [lateSeed EXCEPT ![v] = None] /\ late' = late
                                 /\ used' = used \ {v} /\ lateSeed[v] = k
  BY DEF LateRelease, SeedRelease
<1>2. /\ Cached' <=> Cached
      /\ Cached => /\ item'.bundle = item.bundle /\ item'.key = item.key
                   /\ item.key = k => ~item'.inUse
                   /\ item.key # k => item' = item
  BY <1>0, ReleaseClears
<1>3. CallersTyped' /\ AskersHaveKeys'
  BY <1>1
<1>4. HeldIsCached'
  <2>1. \A u \in Callers : bundle[u] \in Bundles =>
           Cached' /\ bundle[u] = item'.bundle /\ key[u] = item'.key
    BY <1>2 DEF HeldIsCached
  <2> QED  BY <1>1, <2>1 DEF HeldIsCached
<1>6. Cached => item.key \in Keys /\ item.bundle \in Bundles
  BY DEF Good, CacheTypeOK, Items, Cached
<1>7. SharedIsKnown'
  <2> SUFFICES ASSUME Cached, NEW w \in Callers, bundle[w] = item.bundle
               PROVE  /\ item'.inUse \/ shared
                      /\ \A x \in Callers \ {w} : bundle[x] # None /\ key[x] = item.key => shared
                      /\ \A q \in TtsSessions : item.key \in {late'[q], lateSeed'[q]} => shared
                      /\ w \in left => shared
    BY <1>1, <1>2 DEF SharedIsKnown
  <2>1. item'.inUse \/ shared
    BY <1>0, <1>2 DEF SharedIsKnown
  <2>2. ASSUME NEW q \in TtsSessions, item.key \in {late'[q], lateSeed'[q]} PROVE shared
    <3>1. item.key \in {late[q], lateSeed[q]}
      BY <1>0, <1>6, <2>2, HostAssumption
    <3> QED  BY <3>1 DEF SharedIsKnown
  <2> QED  BY <2>1, <2>2 DEF SharedIsKnown
<1>8. MarkHasOwner'
  <2> SUFFICES ASSUME Cached, item'.inUse, ~forgotten
               PROVE  \/ \E w \in Callers : bundle[w] = item.bundle /\ ~Unregistered(w)'
                      \/ \E q \in TtsSessions : item.key \in {late'[q], lateSeed'[q]}
    BY <1>1, <1>2 DEF MarkHasOwner
  <2>1. item.key # k /\ item.inUse
    BY <1>2
  <2>2. ASSUME NEW w \in Callers, bundle[w] = item.bundle, ~Unregistered(w) PROVE ~Unregistered(w)'
    <3>1. CASE used' = used \/ w # v
      BY <1>0, <1>1, <2>2, <3>1 DEF Unregistered
    <3>2. CASE w = v /\ lateSeed[v] = k
      <4>1. key[v] = item.key
        BY <1>6, <2>2, <3>2 DEF HeldIsCached
      <4>2. v \notin used
        BY <1>0, <2>1, <3>2, <4>1, HostAssumption DEF EndsKnown, EndsOf
      <4> QED  BY <1>1, <2>2, <3>2, <4>2 DEF Unregistered
    <3> QED  BY <1>0, <3>1, <3>2
  <2>3. ASSUME NEW q \in TtsSessions, item.key \in {late[q], lateSeed[q]}
        PROVE  item.key \in {late'[q], lateSeed'[q]}
    BY <1>0, <2>1, <2>3
  <2> QED  BY <2>1, <2>2, <2>3 DEF MarkHasOwner
<1> QED  BY <1>3, <1>4, <1>7, <1>8

(* The finally of the seed begins: what it will release is what the request  *)
(* works with by now, and that is known to be shared.                        *)
LEMMA SeedEndsKeeps ==
    ASSUME Good, CallersGood, EndsKnown, NEW v \in TtsSessions, SeedEnds(v)
    PROVE  CallersGood'
<1> USE HostAssumption DEF CallersGood, CallersTyped, AskersHaveKeys
<1>1. /\ pc' = pc /\ key' = key /\ part' = part /\ bundle' = bundle /\ stream' = stream
      /\ v \in left /\ left' = left \ {v} /\ used' = used /\ late' = late /\ closing' = closing
      /\ lateSeed' = [lateSeed EXCEPT ![v] = IF v \in used THEN key[v] ELSE None]
      /\ shared' = shared /\ forgotten' = forgotten /\ item' = item
  BY DEF SeedEnds, callerVars, asked, histories, cacheVars
<1>2. CallersTyped' /\ AskersHaveKeys' /\ HeldIsCached'
  BY <1>1 DEF HeldIsCached, Cached
<1>3. Cached => item.key \in Keys /\ item.bundle \in Bundles
  BY DEF Good, CacheTypeOK, Items, Cached
<1>4. SharedIsKnown'
  <2> SUFFICES ASSUME Cached, NEW w \in Callers, bundle[w] = item.bundle,
                      NEW q \in TtsSessions, item.key = lateSeed'[q]
               PROVE  shared
    BY <1>1 DEF SharedIsKnown, Cached
  <2>1. CASE q # v
    BY <1>1, <2>1 DEF SharedIsKnown
  <2>2. CASE q = v
    <3>1. v \in used /\ key[v] = item.key
      BY <1>1, <1>3, <2>2, CacheAssumption
    <3>2. bundle[v] # None
      BY <3>1 DEF EndsKnown, EndsOf, HeldIsCached
    <3>3. CASE w = v
      BY <1>1, <3>3 DEF SharedIsKnown
    <3>4. CASE w # v
      BY <3>1, <3>2, <3>4 DEF SharedIsKnown
    <3> QED  BY <3>3, <3>4
  <2> QED  BY <2>1, <2>2
<1>5. MarkHasOwner'
  <2> SUFFICES ASSUME Cached, item.inUse, ~forgotten
               PROVE  \/ \E w \in Callers : bundle[w] = item.bundle /\ ~Unregistered(w)
                      \/ \E q \in TtsSessions : item.key \in {late[q], lateSeed'[q]}
    BY <1>1 DEF MarkHasOwner, Cached, Unregistered
  <2>1. ASSUME NEW q \in TtsSessions, item.key \in {late[q], lateSeed[q]}
        PROVE  item.key \in {late[q], lateSeed'[q]}
    <3>1. lateSeed[v] = None
      BY <1>1 DEF EndsKnown, EndsOf
    <3> QED  BY <1>1, <1>3, <2>1, <3>1, CacheAssumption
  <2> QED  BY <2>1 DEF MarkHasOwner
<1> QED  BY <1>2, <1>4, <1>5

(* The seed is spoken and the speech acquires: the bundle of the seed again, *)
(* or another in its place, or it waits because that bundle is gone.         *)
LEMMA SeedDoneKeeps ==
    ASSUME Good, CallersGood, NEW v \in TtsSessions, SeedDone(v)
    PROVE  CallersGood'
<1> USE HostAssumption DEF CallersGood, CallersTyped, AskersHaveKeys
<1>1. /\ pc[v] = "works" /\ part[v] = "seed" /\ part' = [part EXCEPT ![v] = "again"]
      /\ left' = left \union {v} /\ stream' = stream /\ lateSeed' = lateSeed /\ late' = late
      /\ closing' = closing /\ v \in Callers
  BY DEF SeedDone
<1>2. key[v] \in Keys /\ bundle[v] # None
  BY <1>1 DEF HeldIsCached
<1>3. CASE bundle[v] # Ousted /\ Hit(key[v]) /\ shared' = TRUE
           /\ used' = used \union {v} /\ UNCHANGED <<pc, key, bundle, forgotten>>
  <2>1. /\ item # None /\ item \in Items /\ item.bundle \in Bundles /\ item.key = key[v] /\ Cached
        /\ item' = [item EXCEPT !.inUse = TRUE]
    BY <1>3 DEF Hit, IsHit, Cached, Good, CacheTypeOK, Items
  <2>2. item' \in Items /\ item' # None
    BY <2>1, CacheAssumption DEF Items
  <2>3. item'.bundle = item.bundle /\ item'.key = item.key /\ Cached'
    BY <2>1, <2>2 DEF Items, Cached
  <2>4. CallersTyped' /\ AskersHaveKeys'
    BY <1>1, <1>3
  <2>5. HeldIsCached'
    BY <1>1, <1>3, <2>3 DEF HeldIsCached
  <2>6. SharedIsKnown'
    BY <1>3 DEF SharedIsKnown
  <2>7. MarkHasOwner'
    <3>1. bundle[v] = item.bundle
      BY <1>2, <1>3 DEF HeldIsCached
    <3>2. bundle'[v] = item'.bundle /\ ~Unregistered(v)'
      BY <1>3, <2>3, <3>1 DEF Unregistered
    <3> QED  BY <1>1, <3>2 DEF MarkHasOwner
  <2> QED  BY <2>4, <2>5, <2>6, <2>7
<1>4. CASE /\ key' = [key EXCEPT ![v] = SpeechKey]
           /\ MissAndEvict(v, SpeechKey) /\ Moves(v, "loads")
           /\ bundle' = [Ousting EXCEPT ![v] = None]
           /\ used' = used \ {v} /\ shared' = FALSE /\ forgotten' = FALSE
  <2>1. item.bundle \in Bundles /\ ~Cached'
    <3>1. Cached /\ item' = [item EXCEPT !.bundle = None] /\ item \in Items
      BY <1>4 DEF MissAndEvict, Good, CacheTypeOK, Cached
    <3>2. item'.bundle = None
      BY <3>1 DEF Items
    <3> QED  BY <3>1, <3>2 DEF Items, Cached
  <2>2. \A u \in Callers : bundle'[u] = IF u = v THEN None
                                   ELSE IF bundle[u] = item.bundle THEN Ousted ELSE bundle[u]
    BY <1>4 DEF Ousting
  <2>3. bundle' \in [Callers -> Bundles \union {None, Ousted}]
    BY <1>4 DEF Ousting
  <2>4. CallersTyped' /\ AskersHaveKeys'
    BY <1>1, <1>4, <2>3 DEF Moves
  <2>5. \A u \in Callers : bundle'[u] \notin Bundles /\ (u # v => (bundle'[u] # None <=> bundle[u] # None))
    BY <2>1, <2>2, CacheAssumption DEF HeldIsCached
  <2>6. HeldIsCached'
    BY <1>1, <1>4, <2>2, <2>5 DEF HeldIsCached, Moves
  <2> QED  BY <2>1, <2>4, <2>6 DEF SharedIsKnown, MarkHasOwner
<1>5. CASE /\ bundle[v] = Ousted /\ Moves(v, "asks")
           /\ key' = [key EXCEPT ![v] = SpeechKey] \/ UNCHANGED key
           /\ bundle' = [bundle EXCEPT ![v] = None] /\ used' = used \ {v}
           /\ UNCHANGED <<cacheVars, histories>>
  <2>1. /\ pc' = [pc EXCEPT ![v] = "asks"] /\ item' = item
        /\ shared' = shared /\ forgotten' = forgotten
    BY <1>5 DEF Moves, cacheVars, histories
  <2>2. CallersTyped' /\ AskersHaveKeys'
    BY <1>1, <1>5, <2>1
  <2>3. HeldIsCached'
    BY <1>1, <1>5, <2>1, CacheAssumption DEF HeldIsCached, Cached
  <2>4. Cached => item.bundle \in Bundles
    BY DEF Good, CacheTypeOK, Items, Cached
  <2>5. SharedIsKnown'
    <3> SUFFICES ASSUME Cached, NEW w \in Callers, bundle'[w] = item.bundle
                 PROVE  /\ item.inUse \/ shared
                        /\ \A u \in Callers \ {w} : bundle'[u] # None /\ key'[u] = item.key => shared
                        /\ \A q \in TtsSessions : item.key \in {late[q], lateSeed[q]} => shared
                        /\ w \in left' => shared
      BY <1>1, <2>1 DEF SharedIsKnown, Cached
    <3>1. w # v /\ bundle[w] = item.bundle
      BY <1>5, <2>4, CacheAssumption
    <3>2. \A u \in Callers \ {w} : bundle'[u] # None /\ key'[u] = item.key => shared
      BY <1>5, <3>1 DEF SharedIsKnown
    <3> QED  BY <1>1, <3>1, <3>2 DEF SharedIsKnown
  <2>6. MarkHasOwner'
    <3>1. ASSUME Cached, NEW u \in Callers, bundle[u] = item.bundle, ~Unregistered(u)
          PROVE  bundle'[u] = item.bundle /\ ~Unregistered(u)'
      <4>1. u # v
        BY <1>5, <2>4, <3>1
      <4> QED  BY <1>5, <2>1, <3>1, <4>1 DEF Unregistered
    <3> QED  BY <1>1, <2>1, <3>1 DEF MarkHasOwner, Cached
  <2> QED  BY <2>2, <2>3, <2>5, <2>6
<1> QED  BY <1>3, <1>4, <1>5 DEF SeedDone

(***************************************************************************)
(* Every step of the host                                                   *)
(***************************************************************************)
LEMMA NotCached == ASSUME Good, lock # None PROVE ~Cached
BY DEF Good, OneInMemory

(* The steps of one caller, whatever they do to the cache. *)
LEMMA ActsKeep ==
    ASSUME Good, CallersGood, EndsKnown, LoaderHoldsLock, NEW u \in Callers,
           Acts(u) \/ LoadFails(u)
    PROVE  CallersGood'
<1> USE HostAssumption
<1> USE DEF ends, asked
<1>0. /\ HeldIsCached /\ AskersHaveKeys /\ CallersTyped
      /\ None \notin Bundles /\ None \notin Keys
  BY CacheAssumption DEF CallersGood
<1>1. CASE LocksStream(u)
  <2>0. /\ pc[u] = "closes" => Moves(u, "gives")
        /\ pc[u] = "waits" /\ bundle[u] # None => Moves(u, "works")
        /\ pc[u] = "waits" /\ bundle[u] = None => Moves(u, "asks")
        /\ pc[u] \in {"waits", "closes"}
    BY <1>1 DEF LocksStream
  <2>1. PICK to \in {"gives", "works", "asks"} :
           /\ Moves(u, to)
           /\ to = "gives" => pc[u] = "closes"
           /\ to = "works" => pc[u] = "waits" /\ bundle[u] # None
           /\ to = "asks" => bundle[u] = None
    BY <2>0
  <2>2. pc[u] \in {"waits", "closes"} /\ stream' = u
    BY <1>1 DEF LocksStream
  <2>3. UNCHANGED <<key, part, bundle, ends, closing, histories, item>>
    BY <1>1 DEF LocksStream, cacheVars
  <2>4. to = "gives" => bundle[u] # None
    BY <1>0, <2>1 DEF HeldIsCached
  <2>5. ~(u \in TtsSessions /\ to \in {"works", "gives"})
    BY <1>0, <2>1 DEF HeldIsCached
  <2> QED  BY <2>1, <2>2, <2>3, <2>4, <2>5, WalkKeeps
<1>2. CASE Acquires(u) /\ Hits(u)
  BY <1>2, HitKeeps DEF Acquires
<1>3. CASE Acquires(u) /\ Misses(u)
  <2>1. /\ pc[u] = "asks" /\ Moves(u, "loads")
        /\ UNCHANGED <<key, part, stream, ends, closing>>
    BY <1>3 DEF Acquires, Misses
  <2>2. closing' \in {"no", "asked", "done"}
    BY <1>0, <2>1 DEF CallersTyped
  <2>3. CASE MissAndEvict(u, key[u]) /\ Oust
    <3>1. Cached /\ ~Cached'
      <4>1. Cached /\ item' = [item EXCEPT !.bundle = None]
        BY <2>3 DEF MissAndEvict
      <4>2. item'.bundle = None
        BY <4>1 DEF Good, CacheTypeOK, Items, Cached
      <4> QED  BY <4>1, <4>2 DEF Cached
    <3> QED  BY <2>1, <2>2, <2>3, <3>1, OustKeeps
  <2>4. CASE (\E b \in Bundles : MissAndCreate(u, key[u], b)) /\ UNCHANGED <<bundle, histories>>
    <3>1. ~Cached /\ ~Cached'
      BY <2>4 DEF MissAndCreate, Cached
    <3>2. UNCHANGED <<key, part, bundle, stream, ends, closing, histories>>
      BY <2>1, <2>4
    <3> QED  BY <2>1, <3>1, <3>2, EmptyKeeps
  <2> QED  BY <1>3, <2>3, <2>4 DEF Misses
<1>4. CASE OldIsGone(u)
  <2>1. ~Cached /\ ~Cached'
    BY <1>4, NotCached DEF OldIsGone, EvictedThenCreate, Awaits, Cached
  <2> QED  BY <1>4, <2>1, EmptyKeeps DEF OldIsGone, callerVars
<1>5. CASE Loaded(u)
  BY <1>5, LoadKeeps
<1>6. CASE LoadFails(u)
  <2>1. pc[u] = "loads" /\ bundle[u] = None
    BY <1>0, <1>6 DEF LoadFails, HeldIsCached
  <2>2. UNCHANGED <<item, ends, closing, histories>>
    BY <1>6 DEF LoadFails, CreateFails
  <2>3. CASE u = Job
    <3>1. Moves(u, "gives") /\ UNCHANGED <<key, part, bundle>> /\ stream' \in Callers \union {None}
      BY <1>0, <1>6, <2>3 DEF LoadFails, LetsGo, CallersTyped
    <3> QED  BY <2>1, <2>2, <2>3, <3>1, WalkKeeps
  <2>4. CASE u # Job
    <3>1. Leaves(u) /\ forgotten' = forgotten /\ forgotten \in BOOLEAN
      BY <1>0, <1>6, <2>2, <2>4 DEF LoadFails, histories, CallersTyped
    <3>2. ~(Cached /\ bundle[u] = item.bundle)
      BY <2>1 DEF Cached
    <3>3. UNCHANGED <<item, closing, shared>>
      BY <2>2 DEF histories
    <3> QED  BY <2>2, <3>1, <3>2, <3>3, LeaveKeeps
  <2> QED  BY <2>3, <2>4
<1>7. CASE WarmedUp(u)
  <2>1. bundle[u] # None
    BY <1>0, <1>7 DEF WarmedUp, HeldIsCached
  <2>2. stream' \in Callers \union {None} /\ UNCHANGED <<key, part, bundle, closing, histories, item>>
    BY <1>0, <1>7 DEF WarmedUp, CallersTyped, cacheVars
  <2>3. /\ UNCHANGED <<left, lateSeed, late>> /\ used' \subseteq TtsSessions
        /\ used \subseteq used' /\ (u \notin TtsSessions \/ u \in used')
    BY <1>0, <1>7 DEF WarmedUp, Registers, CallersTyped
  <2> QED  BY <1>7, <2>1, <2>2, <2>3, MoveKeeps DEF WarmedUp
<1>8. CASE u = Job /\ TaskWorked
  <2>1. stream' \in Callers \union {None} /\ UNCHANGED <<key, part, bundle, ends, closing, histories, item>>
    BY <1>0, <1>8 DEF TaskWorked, LetsGo, CallersTyped, cacheVars
  <2> QED  BY <1>8, <2>1, WalkKeeps DEF TaskWorked
<1>9. CASE u = Job /\ TaskEnds
  <2>1. Leaves(u) /\ pc[u] = "gives" /\ UNCHANGED <<ends, closing, histories>>
    BY <1>9 DEF TaskEnds
  <2>2. CASE bundle[u] = None
    <3>1. UNCHANGED <<item, closing, shared>> /\ forgotten' = forgotten /\ forgotten \in BOOLEAN
      BY <1>0, <1>9, <2>1, <2>2 DEF TaskEnds, cacheVars, histories, CallersTyped
    <3>2. ~(Cached /\ bundle[u] = item.bundle)
      BY <2>2 DEF Cached
    <3> QED  BY <2>1, <3>1, <3>2, LeaveKeeps
  <2>3. CASE bundle[u] # None
    BY <1>9, <2>1, <2>3, GiveBackKeeps DEF TaskEnds
  <2> QED  BY <2>2, <2>3
<1>10. CASE u \in AsrSessions /\ ChunkDone(u)
  <2>1. bundle[u] # None /\ u \notin TtsSessions
    BY <1>0, <1>10 DEF ChunkDone, HeldIsCached
  <2>2. stream' \in Callers \union {None} /\ UNCHANGED <<key, part, bundle, ends, closing, histories, item>>
    BY <1>0, <1>10 DEF ChunkDone, LetsGo, CallersTyped, cacheVars
  <2> QED  BY <1>10, <2>1, <2>2, WalkKeeps DEF ChunkDone
<1>11. CASE u \in TtsSessions /\ SpeechDone(u)
  <2>1. /\ Leaves(u) /\ pc[u] = "works" /\ bundle[u] # None /\ late[u] = None
        /\ late' = [late EXCEPT ![u] = IF u \in used THEN key[u] ELSE None] /\ used' = used \ {u}
        /\ UNCHANGED <<item, closing, shared, left, lateSeed>>
        /\ forgotten' = forgotten /\ forgotten \in BOOLEAN
    BY <1>0, <1>11
       DEF SpeechDone, HeldIsCached, EndsKnown, EndsOf, Asked, cacheVars, histories, CallersTyped
  <2> QED  BY <1>11, <2>1, LeaveKeeps
<1>12. CASE GivesBack(u)
  <2>1. bundle[u] # None /\ pc[u] # "idle"
    BY <1>0, <1>12 DEF GivesBack, HeldIsCached
  <2> QED  BY <1>12, <2>1, GiveBackKeeps DEF GivesBack
<1>13. CASE u \in TtsSessions /\ SeedDone(u)
  BY <1>13, SeedDoneKeeps
<1> QED  BY <1>1, <1>2, <1>3, <1>4, <1>5, <1>6, <1>7, <1>8, <1>9, <1>10, <1>11, <1>12, <1>13
         DEF Acts, Acquires

(* The holder of _lock stays where it is until it lets the lock go. *)
LEMMA LoaderKeepsLock ==
    ASSUME CallersGood, Good, LoaderHoldsLock, Next PROVE LoaderHoldsLock'
<1> USE HostAssumption, CacheAssumption DEF asked
<1>0. /\ pc \in [Callers -> {"idle", "waits", "asks", "loads", "warms", "works", "holds",
                            "closes", "gives"}]
      /\ key \in [Callers -> Keys \union {None}]
      /\ lock \in Holdings \union {None}
  BY DEF CallersGood, CallersTyped, Good, CacheTypeOK
<1>1. ASSUME NEW u \in Callers, pc[u] # "loads", lock' = lock,
             \A w \in Callers \ {u} : pc'[w] = pc[w] /\ key'[w] = key[w]
      PROVE  LoaderHoldsLock'
  BY <1>0, <1>1 DEF LoaderHoldsLock, Holdings
<1>2. ASSUME lock' = None PROVE LoaderHoldsLock'
  BY <1>2 DEF LoaderHoldsLock
<1>3. ASSUME lock' = lock, pc' = pc, key' = key PROVE LoaderHoldsLock'
  BY <1>3 DEF LoaderHoldsLock
<1>4. ASSUME lock'.by = Evictor PROVE LoaderHoldsLock'
  BY <1>4 DEF LoaderHoldsLock
<1>5. ASSUME NEW u \in Callers, Acts(u) \/ LoadFails(u) PROVE LoaderHoldsLock'
  <2>1. CASE LocksStream(u) \/ WarmedUp(u) \/ SpeechDone(u) \/ ChunkDone(u)
    BY <1>0, <1>1, <2>1
       DEF LocksStream, WarmedUp, SpeechDone, ChunkDone, Moves, Leaves, cacheVars
  <2>7. CASE SeedDone(u)
    <3>1. CASE Hit(key[u]) /\ UNCHANGED <<pc, key>>
      BY <1>3, <3>1 DEF Hit
    <3>2. CASE MissAndEvict(u, SpeechKey) /\ Moves(u, "loads") /\ key' = [key EXCEPT ![u] = SpeechKey]
      BY <1>0, <3>2 DEF MissAndEvict, Moves, LoaderHoldsLock
    <3>3. CASE /\ pc[u] = "works" /\ Moves(u, "asks") /\ UNCHANGED cacheVars
               /\ key' = [key EXCEPT ![u] = SpeechKey] \/ UNCHANGED key
      BY <1>0, <1>1, <3>3 DEF Moves, cacheVars
    <3> QED  BY <2>7, <3>1, <3>2, <3>3 DEF SeedDone
  <2>2. CASE Acquires(u) /\ Hits(u)
    BY <1>0, <1>1, <2>2 DEF Acquires, Hits, Hit, Moves
  <2>3. CASE Acquires(u) /\ Misses(u)
    <3>1. pc' = [pc EXCEPT ![u] = "loads"] /\ key' = key
      BY <2>3 DEF Misses, Moves
    <3>2. lock'.by = u /\ lock'.key = key[u]
      BY <2>3 DEF Misses, MissAndEvict, MissAndCreate, Create
    <3> QED  BY <1>0, <3>1, <3>2 DEF LoaderHoldsLock
  <2>4. CASE OldIsGone(u)
    <3>1. lock \in Holdings /\ pc' = pc /\ key' = key
      BY <1>0, <2>4 DEF OldIsGone, EvictedThenCreate, Awaits, callerVars
    <3>2. lock'.by = lock.by /\ lock'.key = lock.key /\ lock # None
      BY <2>4, <3>1 DEF OldIsGone, EvictedThenCreate, Awaits, Holdings
    <3> QED  BY <3>1, <3>2 DEF LoaderHoldsLock
  <2>5. CASE Loaded(u) \/ LoadFails(u) \/ GivesBack(u)
    BY <1>2, <2>5 DEF Loaded, Created, LoadFails, CreateFails, GivesBack, ReleaseUse
  <2>6. CASE u = Job /\ (TaskWorked \/ TaskEnds)
    BY <1>0, <1>1, <2>6 DEF TaskWorked, TaskEnds, Moves, Leaves, ReleaseUse, cacheVars
  <2> QED  BY <1>5, <2>1, <2>2, <2>3, <2>4, <2>5, <2>6, <2>7 DEF Acts, Acquires
<1>6. ASSUME TaskArrives PROVE LoaderHoldsLock'
  BY <1>3, <1>6 DEF TaskArrives, callerVars, cacheVars
<1>7. ASSUME NEW k \in {SpeechKey, FileAsrKey}, TaskStarts(k) PROVE LoaderHoldsLock'
  BY <1>0, <1>1, <1>7 DEF TaskStarts, Moves, cacheVars
<1>8. ASSUME NEW a \in AsrSessions, ChunkArrives(a) \/ Closes(a) \/ Reopens(a)
      PROVE  LoaderHoldsLock'
  BY <1>0, <1>1, <1>8 DEF ChunkArrives, Closes, Reopens, Moves, Leaves, cacheVars
<1>9. ASSUME NEW v \in TtsSessions, Request(v) \/ CancelRequest(v)
                \/ LateRelease(v) \/ SeedEnds(v) \/ SeedRelease(v)
      PROVE  LoaderHoldsLock'
  <2>1. CASE Request(v)
    BY <1>0, <1>1, <2>1 DEF Request, Moves, cacheVars
  <2>2. CASE LateRelease(v) \/ SeedEnds(v) \/ SeedRelease(v)
    BY <1>3, <2>2 DEF LateRelease, SeedEnds, SeedRelease, ReleaseUse, callerVars, cacheVars
  <2>3. CASE CancelRequest(v)
    <3>1. CASE pc[v] = "loads"
      BY <1>2, <2>3, <3>1 DEF CancelRequest, CancelAcquire
    <3>2. CASE pc[v] # "loads"
      BY <1>0, <1>1, <2>3, <3>2 DEF CancelRequest, Moves, Leaves, cacheVars
    <3> QED  BY <3>1, <3>2
  <2> QED  BY <1>9, <2>1, <2>2, <2>3
<1>10. ASSUME Expires \/ EvictionEnds \/ Stop \/ StopEvicts PROVE LoaderHoldsLock'
  <2>1. CASE Expires \/ EvictionEnds
    BY <1>2, <1>4, <2>1 DEF Expires, StartEvict, EvictionEnds, EndEvict
  <2>2. CASE Stop
    BY <1>2, <1>3, <2>2 DEF Stop, CancelAcquire, cacheVars, callerVars
  <2>3. CASE StopEvicts
    BY <1>2, <1>4, <2>3 DEF StopEvicts, StartEvict, cacheVars
  <2> QED  BY <1>10, <2>1, <2>2, <2>3
<1> QED  BY <1>5, <1>6, <1>7, <1>8, <1>9, <1>10 DEF Next

LEMMA CallersKeep ==
    ASSUME Good, CallersGood, EndsKnown, LoaderHoldsLock, Next PROVE CallersGood'
<1> USE HostAssumption DEF ends, asked
<1>0. /\ HeldIsCached /\ AskersHaveKeys /\ CallersTyped
      /\ None \notin Bundles /\ None \notin Keys
  BY CacheAssumption DEF CallersGood
<1>1. ASSUME TaskArrives PROVE CallersGood'
  BY <1>0, <1>1, SameKeeps DEF TaskArrives, cacheVars, CallersTyped
<1>2. ASSUME NEW k \in {SpeechKey, FileAsrKey}, TaskStarts(k) PROVE CallersGood'
  <2>1. PICK to \in {"waits", "asks"} : Moves(Job, to)
    BY <1>2 DEF TaskStarts
  <2>2. part' \in [Callers -> {"only", "seed", "again"}]
    BY <1>0, <1>2 DEF TaskStarts, CallersTyped
  <2> QED  BY <1>2, <2>1, <2>2, AskKeeps DEF TaskStarts, cacheVars
<1>3. ASSUME NEW u \in Callers, Acts(u) \/ LoadFails(u) PROVE CallersGood'
  BY <1>3, ActsKeep
<1>4. ASSUME NEW a \in AsrSessions, ChunkArrives(a) PROVE CallersGood'
  <2>1. CASE pc[a] = "idle"
    <3>1. part' \in [Callers -> {"only", "seed", "again"}]
      BY <1>0, <1>4 DEF ChunkArrives, CallersTyped
    <3> QED  BY <1>4, <2>1, <3>1, AskKeeps DEF ChunkArrives, cacheVars
  <2>2. CASE pc[a] = "holds"
    <3>1. key[a] = LiveAsrKey
      BY <1>0, <2>2 DEF AskersHaveKeys
    <3>2. key' = key /\ stream' \in Callers \union {None}
      BY <1>0, <1>4, <3>1 DEF ChunkArrives, CallersTyped
    <3>3. UNCHANGED <<key, part, bundle, ends, closing, histories, item>>
      BY <1>4, <3>2 DEF ChunkArrives, cacheVars
    <3> QED  BY <1>4, <2>2, <3>2, <3>3, WalkKeeps DEF ChunkArrives
  <2> QED  BY <1>4, <2>1, <2>2 DEF ChunkArrives
<1>5. ASSUME NEW a \in AsrSessions, Closes(a) PROVE CallersGood'
  <2>1. bundle[a] # None /\ stream' \in Callers \union {None}
    BY <1>0, <1>5 DEF Closes, HeldIsCached, CallersTyped
  <2>2. UNCHANGED <<key, part, bundle, ends, closing, histories, item>>
    BY <1>5 DEF Closes, cacheVars
  <2> QED  BY <1>5, <2>1, <2>2, WalkKeeps DEF Closes
<1>6. ASSUME NEW a \in AsrSessions, Reopens(a) PROVE CallersGood'
  <2>1. /\ Leaves(a) /\ ends' = ends /\ UNCHANGED <<item, closing, shared>>
        /\ forgotten' = (forgotten \/ (Cached /\ bundle[a] = item.bundle))
    BY <1>6 DEF Reopens, Forgets, cacheVars
  <2>2. forgotten' \in BOOLEAN
    BY <2>1
  <2> QED  BY <2>1, <2>2, LeaveKeeps
<1>7. ASSUME NEW v \in TtsSessions, Request(v) PROVE CallersGood'
  <2>1. PICK k \in Keys : key' = [key EXCEPT ![v] = k]
    BY <1>7 DEF Request
  <2>2. part' \in [Callers -> {"only", "seed", "again"}]
    BY <1>0, <1>7 DEF Request, CallersTyped
  <2> QED  BY <1>7, <2>1, <2>2, AskKeeps DEF Request, cacheVars
<1>8. ASSUME NEW v \in TtsSessions, LateRelease(v) \/ SeedEnds(v) \/ SeedRelease(v)
      PROVE  CallersGood'
  BY <1>8, LateReleaseKeeps, SeedEndsKeeps
<1>9. ASSUME NEW v \in TtsSessions, CancelRequest(v) PROVE CallersGood'
  <2>0. UNCHANGED <<ends, closing, item>> /\ forgotten \in BOOLEAN
    BY <1>0, <1>9 DEF CancelRequest, CancelAcquire, cacheVars, CallersTyped
  <2>1. CASE pc[v] \in {"waits", "asks", "loads"}
    <3>1. bundle[v] = None
      BY <1>0, <2>1 DEF HeldIsCached
    <3>2. Leaves(v) /\ UNCHANGED histories
      BY <1>9, <2>1 DEF CancelRequest
    <3>3. ~(Cached /\ bundle[v] = item.bundle)
      BY <3>1 DEF Cached
    <3>4. UNCHANGED <<item, closing, shared>> /\ forgotten' = forgotten
      BY <2>0, <3>2 DEF histories
    <3> QED  BY <2>0, <3>2, <3>3, <3>4, LeaveKeeps
  <2>2. CASE pc[v] = "warms"
    <3>1. /\ Leaves(v) /\ UNCHANGED <<item, closing, shared>>
          /\ forgotten' = (forgotten \/ (Cached /\ bundle[v] = item.bundle))
      BY <1>9, <2>0, <2>2 DEF CancelRequest, Forgets
    <3>2. forgotten' \in BOOLEAN
      BY <3>1
    <3> QED  BY <2>0, <3>1, <3>2, LeaveKeeps
  <2>3. CASE pc[v] = "works" /\ v \in used
    <3>1. bundle[v] # None
      BY <1>0, <2>3 DEF HeldIsCached
    <3>2. Moves(v, "gives") /\ stream' \in Callers \union {None}
      BY <1>0, <1>9, <2>3 DEF CancelRequest, CallersTyped
    <3>3. UNCHANGED <<key, part, bundle, ends, closing, histories, item>> /\ used' \subseteq TtsSessions
      BY <1>0, <1>9, <2>0, <2>3 DEF CancelRequest, CallersTyped
    <3> QED  BY <2>3, <3>1, <3>2, <3>3, WalkKeeps
  <2>4. CASE pc[v] = "works" /\ v \notin used
    <3>1. Leaves(v) /\ UNCHANGED <<closing, histories, item, ends>> /\ Unregistered(v)
      BY <1>9, <2>0, <2>4 DEF CancelRequest, Unregistered
    <3>2. UNCHANGED <<item, closing, shared, left, lateSeed>> /\ forgotten' = forgotten
      BY <3>1 DEF histories
    <3> QED  BY <2>0, <3>1, <3>2, LeaveKeeps
  <2> QED  BY <1>9, <2>1, <2>2, <2>3, <2>4 DEF CancelRequest
<1>10. ASSUME NEW force \in BOOLEAN, StartEvict(force), Oust, UNCHANGED <<pc, key, part, stream, ends>>,
              closing' \in {"no", "asked", "done"}
       PROVE  CallersGood'
  <2>1. Cached /\ ~Cached'
    BY <1>10 DEF StartEvict, Cached
  <2> QED  BY <1>10, <2>1, OustKeeps
<1>11. ASSUME Expires PROVE CallersGood'
  BY <1>0, <1>10, <1>11 DEF Expires, CallersTyped
<1>12. ASSUME EvictionEnds \/ Stop PROVE CallersGood'
  <2>1. closing' \in {"no", "asked", "done"} /\ UNCHANGED <<callerVars, ends, histories, item>>
    BY <1>0, <1>12 DEF EvictionEnds, EndEvict, Stop, CancelAcquire, cacheVars, CallersTyped
  <2> QED  BY <2>1, SameKeeps
<1>13. ASSUME StopEvicts PROVE CallersGood'
  <2>1. CASE StartEvict(TRUE) /\ Oust
    BY <1>10, <1>13, <2>1 DEF StopEvicts
  <2>2. CASE UNCHANGED <<cacheVars, bundle, histories>>
    BY <1>13, <2>2, SameKeeps DEF StopEvicts, callerVars, cacheVars
  <2> QED  BY <1>13, <2>1, <2>2 DEF StopEvicts
<1> QED  BY <1>1, <1>2, <1>3, <1>4, <1>5, <1>6, <1>7, <1>8, <1>9, <1>11, <1>12, <1>13 DEF Next

(***************************************************************************)
(* The ends of the generators                                               *)
(***************************************************************************)
(* Only one caller moves; what the sessions have still to release is kept.   *)
LEMMA OneMoves ==
    ASSUME EndsKnown, NEW u \in Callers,
           \A v \in TtsSessions \ {u} :
              /\ pc'[v] = pc[v] /\ key'[v] = key[v] /\ part'[v] = part[v]
              /\ (v \in used' <=> v \in used) /\ (v \in left' <=> v \in left)
              /\ lateSeed'[v] = lateSeed[v] /\ late'[v] = late[v],
           u \in TtsSessions => EndsOf(u)'
    PROVE  EndsKnown'
BY DEF EndsKnown, EndsOf, Asked

LEMMA EndsKeep ==
    ASSUME Good, CallersGood, EndsKnown, Next PROVE EndsKnown'
<1> USE HostAssumption, CacheAssumption DEF asked, ends, cacheVars
<1>0. /\ CallersTyped /\ HeldIsCached /\ AskersHaveKeys
  BY DEF CallersGood
<1> USE <1>0 DEF CallersTyped
<1>1. ASSUME UNCHANGED <<pc, key, part, ends>> PROVE EndsKnown'
  BY <1>1 DEF EndsKnown, EndsOf, Asked
<1>2. ASSUME NEW u \in Callers, u \notin TtsSessions,
             \A v \in Callers \ {u} : pc'[v] = pc[v] /\ key'[v] = key[v] /\ part'[v] = part[v],
             left' = left, lateSeed' = lateSeed, late' = late,
             used' = used \/ used' = used \ {u} \/ Registers(u)
      PROVE  EndsKnown'
  BY <1>2, OneMoves DEF Registers
<1>3. ASSUME NEW u \in Callers, u \notin TtsSessions, Acts(u) \/ LoadFails(u) PROVE EndsKnown'
  BY <1>1, <1>2, <1>3
     DEF Acts, LoadFails, LocksStream, Acquires, Hits, Misses, OldIsGone, Loaded, WarmedUp, Registers,
         TaskWorked, TaskEnds, ChunkDone, GivesBack, Moves, Leaves, callerVars
<1>4. ASSUME NEW v \in TtsSessions, Acts(v) \/ LoadFails(v) PROVE EndsKnown'
  <2>0. v \in Callers /\ v # Job /\ v \notin AsrSessions /\ EndsOf(v)
    BY DEF EndsKnown
  <2>1. CASE LocksStream(v)
    <3>1. Moves(v, "asks") /\ pc[v] = "waits" /\ part[v] # "again"
      BY <2>0, <2>1 DEF LocksStream, HeldIsCached, EndsOf
    <3> QED  BY <2>0, <2>1, <3>1, OneMoves DEF LocksStream, Moves, EndsOf, Asked
  <2>2. CASE Acquires(v)
    <3>1. pc[v] = "asks" /\ late[v] = None /\ lateSeed[v] = None
          /\ (part[v] = "again" \/ v \notin left)
      BY <2>0, <2>2 DEF Acquires, Hits, Misses, EndsOf, Asked
    <3>2. CASE Hits(v)
      BY <2>0, <3>1, <3>2, OneMoves DEF Hits, Registers, Moves, EndsOf, Asked
    <3>3. CASE Misses(v)
      <4>1. Moves(v, "loads") /\ UNCHANGED <<key, part, ends>>
        BY <3>3 DEF Misses
      <4>2. v \notin used
        BY <2>0, <3>1 DEF EndsOf
      <4> QED  BY <2>0, <3>1, <4>1, <4>2, OneMoves DEF Moves, EndsOf, Asked
    <3> QED  BY <2>2, <3>2, <3>3 DEF Acquires
  <2>3. CASE OldIsGone(v)
    BY <1>1, <2>3 DEF OldIsGone, callerVars
  <2>4. CASE Loaded(v)
    BY <2>0, <2>4, OneMoves DEF Loaded, Registers, Moves, EndsOf, Asked
  <2>5. CASE LoadFails(v)
    <3>1. Leaves(v) /\ UNCHANGED ends /\ pc[v] = "loads"
      BY <2>0, <2>5 DEF LoadFails
    <3> QED  BY <2>0, <3>1, OneMoves DEF Leaves, Moves, EndsOf, Asked
  <2>6. CASE WarmedUp(v)
    BY <2>0, <2>6, OneMoves DEF WarmedUp, Registers, Moves, EndsOf, Asked
  <2>7. CASE SeedDone(v)
    <3>1. /\ pc[v] = "works" /\ part[v] = "seed" /\ part' = [part EXCEPT ![v] = "again"]
          /\ left' = left \union {v} /\ lateSeed' = lateSeed /\ late' = late
          /\ late[v] = None /\ lateSeed[v] = None
      BY <2>0, <2>7 DEF SeedDone, EndsOf, Asked
    <3>2. CASE used' = used \union {v} /\ UNCHANGED <<pc, key>>
      BY <2>0, <3>1, <3>2, OneMoves DEF EndsOf, Asked
    <3>3. CASE /\ key' = [key EXCEPT ![v] = SpeechKey] \/ UNCHANGED key
               /\ used' = used \ {v} /\ (Moves(v, "loads") \/ Moves(v, "asks"))
      BY <2>0, <3>1, <3>3, OneMoves DEF Moves, EndsOf, Asked
    <3> QED  BY <2>7, <3>2, <3>3 DEF SeedDone
  <2>8. CASE SpeechDone(v)
    <3>1. /\ Leaves(v) /\ v \notin left /\ used' = used \ {v}
          /\ \A w \in TtsSessions \ {v} : late'[w] = late[w]
          /\ UNCHANGED <<left, lateSeed>>
      BY <2>8 DEF SpeechDone
    <3> QED  BY <2>0, <3>1, OneMoves DEF Leaves, Moves, EndsOf, Asked
  <2>9. CASE GivesBack(v)
    <3>1. Leaves(v) /\ used' = used \ {v} /\ UNCHANGED <<left, lateSeed, late>>
      BY <2>9 DEF GivesBack
    <3> QED  BY <2>0, <3>1, OneMoves DEF Leaves, Moves, EndsOf, Asked
  <2> QED  BY <1>4, <2>0, <2>1, <2>2, <2>3, <2>4, <2>5, <2>6, <2>7, <2>8, <2>9 DEF Acts
<1>5. ASSUME NEW v \in TtsSessions, Request(v) \/ CancelRequest(v)
                \/ LateRelease(v) \/ SeedEnds(v) \/ SeedRelease(v)
      PROVE  EndsKnown'
  <2>0. v \in Callers /\ EndsOf(v)
    BY DEF EndsKnown
  <2>1. CASE Request(v)
    <3>1. /\ pc[v] = "idle" /\ Moves(v, "waits") /\ UNCHANGED ends
          /\ part' = part \/ part' = [part EXCEPT ![v] = "seed"]
          /\ \A w \in Callers \ {v} : key'[w] = key[w]
      BY <2>1 DEF Request
    <3> QED  BY <2>0, <3>1, OneMoves DEF Moves, EndsOf, Asked
  <2>2. CASE CancelRequest(v)
    <3>1. CASE Leaves(v) /\ v \notin used /\ UNCHANGED ends
      BY <2>0, <3>1, OneMoves DEF Leaves, Moves, EndsOf, Asked
    <3>2. CASE pc[v] = "works" /\ Moves(v, "gives") /\ UNCHANGED <<key, part, ends>>
      BY <2>0, <3>2, OneMoves DEF Moves, EndsOf, Asked
    <3> QED  BY <2>0, <2>2, <3>1, <3>2 DEF CancelRequest, EndsOf
  <2>3. CASE LateRelease(v) \/ SeedRelease(v)
    <3>1. /\ pc' = pc /\ key' = key /\ part' = part /\ left' = left
          /\ \/ late' = [late EXCEPT ![v] = None] /\ lateSeed' = lateSeed /\ used' = used
             \/ lateSeed' = [lateSeed EXCEPT ![v] = None] /\ late' = late /\ used' = used \ {v}
      BY <2>3 DEF LateRelease, SeedRelease, callerVars
    <3> QED  BY <2>0, <3>1, OneMoves DEF EndsOf, Asked
  <2>4. CASE SeedEnds(v)
    <3>1. /\ pc' = pc /\ key' = key /\ part' = part /\ used' = used /\ late' = late
          /\ v \in left /\ left' = left \ {v}
          /\ lateSeed' = [lateSeed EXCEPT ![v] = IF v \in used THEN key[v] ELSE None]
      BY <2>4 DEF SeedEnds, callerVars
    <3> QED  BY <2>0, <3>1, OneMoves DEF EndsOf, Asked
  <2> QED  BY <1>5, <2>1, <2>2, <2>3, <2>4
<1>6. ASSUME NEW k \in {SpeechKey, FileAsrKey}, TaskStarts(k) PROVE EndsKnown'
  BY <1>2, <1>6 DEF TaskStarts, Moves
<1>7. ASSUME NEW a \in AsrSessions, ChunkArrives(a) \/ Closes(a) \/ Reopens(a) PROVE EndsKnown'
  BY <1>2, <1>7 DEF ChunkArrives, Closes, Reopens, Moves, Leaves
<1>8. ASSUME TaskArrives \/ Expires \/ EvictionEnds \/ Stop \/ StopEvicts PROVE EndsKnown'
  BY <1>1, <1>8 DEF TaskArrives, Expires, EvictionEnds, Stop, StopEvicts, callerVars
<1> QED  BY <1>3, <1>4, <1>5, <1>6, <1>7, <1>8 DEF Next

(***************************************************************************)
(* The invariant                                                            *)
(***************************************************************************)
LEMMA InvIsParts == IInv <=> IngressTypeOK /\ Good /\ CallersGood /\ EndsKnown /\ LoaderHoldsLock
BY DEF IInv, TypeOK, Good, KeysAreSet, LockKeys, CallersGood, CallersTyped, AskersHaveKeys

LEMMA InitInv == ASSUME Init PROVE IInv
<1> USE HostAssumption, CacheAssumption, IngressAssumption
    DEF Init, CacheInit, IngressInit
<1>1. IngressTypeOK
  <2>1. <<>> \in Seq(Tasks)
    OBVIOUS
  <2> QED  BY <2>1 DEF IngressTypeOK, Fates
<1>2. Good
  BY DEF Good, CacheTypeOK, Phases, OneInMemory, LockKeys, Cached
<1>3. CallersGood
  BY DEF CallersGood, CallersTyped, AskersHaveKeys, HeldIsCached, SharedIsKnown, MarkHasOwner,
         Cached
<1>4. LoaderHoldsLock
  BY DEF LoaderHoldsLock
<1>5. EndsKnown
  BY DEF EndsKnown, EndsOf, Asked
<1> QED  BY <1>1, <1>2, <1>3, <1>4, <1>5, InvIsParts

(* What a step of the host is to the lists, the queue and the loop. *)
LEMMA NextIsIngressStep == ASSUME Next PROVE Arrives \/ Handle \/ Handled \/ UNCHANGED ingressVars
<1>1. ASSUME NEW u \in Callers, Acts(u) \/ LoadFails(u) PROVE Handled \/ UNCHANGED ingressVars
  BY <1>1 DEF Acts, LoadFails, LocksStream, Acquires, Hits, Misses, OldIsGone, Loaded, WarmedUp,
              TaskWorked, TaskEnds, ChunkDone, SeedDone, SpeechDone, GivesBack
<1>2. ASSUME NEW v \in TtsSessions, Request(v) \/ CancelRequest(v)
                \/ LateRelease(v) \/ SeedEnds(v) \/ SeedRelease(v)
      PROVE  UNCHANGED ingressVars
  BY <1>2 DEF Request, CancelRequest, LateRelease, SeedEnds, SeedRelease
<1>3. ASSUME NEW a \in AsrSessions, ChunkArrives(a) \/ Closes(a) \/ Reopens(a)
      PROVE  UNCHANGED ingressVars
  BY <1>3 DEF ChunkArrives, Closes, Reopens
<1>4. ASSUME Expires \/ EvictionEnds \/ Stop \/ StopEvicts PROVE UNCHANGED ingressVars
  BY <1>4 DEF Expires, EvictionEnds, Stop, StopEvicts
<1> QED  BY <1>1, <1>2, <1>3, <1>4 DEF Next, TaskArrives, TaskStarts

LEMMA NextKeepsInv == ASSUME IInv, [Next]_vars PROVE IInv'
<1> DEFINE Parts == IngressTypeOK /\ Good /\ CallersGood /\ EndsKnown /\ LoaderHoldsLock
<1>3. Parts' => IInv'
  BY DEF IInv, TypeOK, Good, KeysAreSet, LockKeys, CallersGood, CallersTyped, AskersHaveKeys
<1>0. IngressTypeOK /\ Good /\ CallersGood /\ EndsKnown /\ LoaderHoldsLock
  BY InvIsParts
<1>1. CASE Next
  <2>1. IngressTypeOK'
    BY <1>0, <1>1, NextIsIngressStep, IngressKeeps
  <2>2. Good'
    BY <1>0, <1>1, NextIsCacheOp, CacheOpKeeps
  <2>3. CallersGood' /\ LoaderHoldsLock'
    BY <1>0, <1>1, CallersKeep, LoaderKeepsLock
  <2>4. EndsKnown'
    BY <1>0, <1>1, EndsKeep
  <2> QED  BY <2>1, <2>2, <2>3, <2>4, <1>3
<1>2. CASE UNCHANGED vars
  <2>1. IngressTypeOK'
    BY <1>0, <1>2, IngressKeeps DEF vars
  <2>2. Good'
    BY <1>0, <1>2, CacheOpKeeps DEF vars, CacheOps
  <2>3. CallersGood'
    BY <1>0, <1>2, SameKeeps DEF vars, cacheVars, CallersGood, CallersTyped
  <2>4. LoaderHoldsLock'
    BY <1>0, <1>2 DEF vars, cacheVars, callerVars, asked, LoaderHoldsLock
  <2>5. EndsKnown'
    BY <1>0, <1>2 DEF vars, callerVars, asked, ends, EndsKnown, EndsOf, Asked
  <2> QED  BY <2>1, <2>2, <2>3, <2>4, <2>5, <1>3
<1> QED  BY <1>1, <1>2

(* The lock, the item, the card and the hands of the callers agree, always. *)
THEOREM InductiveInvariant == Spec => []IInv
BY InitInv, NextKeepsInv, PTL DEF Spec

(* Every variable keeps its type. *)
THEOREM TypeCorrect == Spec => []TypeOK
<1>1. IInv => TypeOK
  BY DEF IInv
<1> QED  BY <1>1, InductiveInvariant, PTL

(* A marked bundle has a user, or one to come back, or a caller forgot it:   *)
(* the mark does not outlive the users in any other way.                     *)
THEOREM MarkIsAccountedForHolds == Spec => []MarkIsAccountedFor
<1>1. IInv => MarkIsAccountedFor
  BY DEF IInv, MarkHasOwner, MarkIsAccountedFor
<1> QED  BY <1>1, InductiveInvariant, PTL

(* What the time to live takes is in nobody's hands, unless its key has been *)
(* used twice at once, by two callers or by a seed and its speech.           *)
THEOREM TtlSparesTheLoneUserHolds == Spec => TtlSparesTheLoneUser
<1>1. ASSUME IInv, Expires PROVE shared \/ \A u \in Callers : bundle[u] # item.bundle
  BY <1>1 DEF IInv, SharedIsKnown, Expires, StartEvict
<1>2. ASSUME IInv, [Next]_vars
      PROVE  [Expires => shared \/ \A u \in Callers : bundle[u] # item.bundle]_vars
  BY <1>1, <1>2
<1> QED  BY <1>2, InductiveInvariant, PTL DEF Spec, TtlSparesTheLoneUser

(* The cache, whoever calls it and whatever is cancelled, implements one     *)
(* place that is loaded only when it is empty.                               *)
THEOREM OneBundleAtATimeHolds == Spec => OneBundleAtATime
<1>1. ASSUME Init PROVE Slot!Init
  <2>1. memory = AllFree
    BY <1>1 DEF Init, CacheInit, AllFree
  <2> QED  BY <2>1, PlaceOfNone DEF Slot!Init, Slot!Empty
<1>2. ASSUME IInv, [Next]_vars PROVE [Slot!Next]_(Place(memory))
  <2>1. Good
    BY <1>2, InvIsParts
  <2>2. CASE Next
    BY <1>2, <2>1, <2>2, NextIsCacheOp, CacheOpImplementsSlot
  <2>3. CASE UNCHANGED vars
    BY <2>3 DEF vars, cacheVars
  <2> QED  BY <1>2, <2>2, <2>3
<1> QED  BY <1>1, <1>2, InductiveInvariant, PTL DEF Spec, OneBundleAtATime, Slot!Spec
=============================================================================
