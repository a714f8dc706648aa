----------------------------- MODULE EngineHost -----------------------------
(***************************************************************************)
(* An audio worker with a Redis ingress (src/inference/audio/inferrer.py,   *)
(* src/inference/audio/session_runtime.py): who uses the one cached bundle. *)
(*                                                                          *)
(*   - the task of the process loop, one at a time (inference_callback);    *)
(*   - realtime ASR sessions, which keep their bundle between two chunks;   *)
(*   - requests of TTS sessions, which the next request or a cancel cuts.   *)
(*                                                                          *)
(* A TTS generation, of a task or a request, and every step of an ASR       *)
(* session hold `stream', the lock _audio_generation_lock; an ASR task      *)
(* holds nothing.  The lists, the queue and the loop are RedisIngress's,    *)
(* the bundle PipelineCache's; a task is `current' from Handle until its    *)
(* last release_use.                                                        *)
(*                                                                          *)
(* A request for a designed voice first speaks a seed, with a generator of  *)
(* its own, and then the speech, in the voice of the seed.                  *)
(*                                                                          *)
(* Left out: a task that loads two bundles one after the other (a request   *)
(* may); a session opened again under a request of its own that still runs; *)
(* the time to live is a choice, made only when the flag lets the evictor   *)
(* look; after stop() the process ends, and so does the model.              *)
(***************************************************************************)
EXTENDS PipelineCache, RedisIngress

CONSTANTS Job, AsrSessions, TtsSessions,
          Ousted,       \* in place of a bundle released under its user's hands
          SpeechKey,    \* the bundle of TTS tasks and TTS sessions
          SeedKey,      \* the bundle that designs a voice, if it is another (Qwen)
          FileAsrKey,   \* the bundle of ASR tasks
          LiveAsrKey    \* the bundle of ASR sessions

ASSUME HostAssumption ==
    /\ Callers = {Job} \union AsrSessions \union TtsSessions
    /\ Job \notin AsrSessions \union TtsSessions /\ AsrSessions \intersect TtsSessions = {}
    /\ Keys = {SpeechKey, SeedKey, FileAsrKey, LiveAsrKey}
    /\ None \notin Callers \union Keys /\ Ousted \notin Bundles \union {None}

VARIABLES pc,        \* [Callers -> where the caller is]
          key,       \* [Callers -> the key it asks for, or None]
          bundle,    \* [Callers -> the bundle it works with, or None, or Ousted]
          part,      \* [Callers -> "seed", "again": the speech after a seed, or "only"]
          stream,    \* the holder of _audio_generation_lock, or None
          used,      \* the sessions whose _used_bundles has the key they work with
          left,      \* the sessions whose seed generator was left: its finally is to begin
          lateSeed,  \* [TtsSessions -> the key that finally will release, or None]
          late,      \* [TtsSessions -> the key a broken-off generator will release]
          closing,   \* "no", "asked": stop() waits for _lock, "done"
          shared,    \* history: the cached key was used twice at once
          forgotten  \* history: a caller dropped the cached bundle, and no release_use

asked == <<key, part>>
callerVars == <<pc, asked, bundle, stream>>
ends == <<used, left, lateSeed, late>>
histories == <<shared, forgotten>>
vars == <<cacheVars, ingressVars, callerVars, ends, closing, histories>>

TypeOK ==
    /\ CacheTypeOK /\ IngressTypeOK
    /\ pc \in [Callers -> {"idle", "waits", "asks", "loads", "warms", "works", "holds",
                           "closes", "gives"}]
    /\ key \in [Callers -> Keys \union {None}]
    /\ bundle \in [Callers -> Bundles \union {None, Ousted}]
    /\ part \in [Callers -> {"only", "seed", "again"}]
    /\ stream \in Callers \union {None}
    /\ used \subseteq TtsSessions /\ left \subseteq TtsSessions
    /\ lateSeed \in [TtsSessions -> Keys \union {None}]
    /\ late \in [TtsSessions -> Keys \union {None}]
    /\ closing \in {"no", "asked", "done"}
    /\ shared \in BOOLEAN /\ forgotten \in BOOLEAN

Init ==
    /\ CacheInit /\ IngressInit
    /\ pc = [u \in Callers |-> "idle"]
    /\ key = [u \in Callers |-> None]
    /\ bundle = [u \in Callers |-> None]
    /\ part = [u \in Callers |-> "only"]
    /\ stream = None
    /\ used = {} /\ left = {}
    /\ lateSeed = [v \in TtsSessions |-> None]
    /\ late = [v \in TtsSessions |-> None]
    /\ closing = "no"
    /\ shared = FALSE /\ forgotten = FALSE

(***************************************************************************)
(* A caller moves on; it lets the stream lock go; it is back where it began *)
(***************************************************************************)
Moves(u, to) == pc' = [pc EXCEPT ![u] = to]

LetsGo(u) == stream' = IF stream = u THEN None ELSE stream

Leaves(u) ==
    /\ Moves(u, "idle") /\ LetsGo(u)
    /\ key' = [key EXCEPT ![u] = None] /\ part' = [part EXCEPT ![u] = "only"]
    /\ bundle' = [bundle EXCEPT ![u] = None]

(* Which identity the next bundle gets is of no account. *)
Fresh(b) == b = CHOOSE x \in Bundles : memory[x] = "free"

(* What is released is gone for whoever works with it. *)
Ousting == [u \in Callers |-> IF bundle[u] = item.bundle THEN Ousted ELSE bundle[u]]
Oust == shared' = FALSE /\ forgotten' = FALSE /\ bundle' = Ousting

(* Another use of the key: of another caller, or one still to be given back, *)
(* or that of the caller's own seed, whose generator is still to be closed.  *)
AlsoUsed(u) ==
    \/ \E w \in Callers \ {u} : bundle[w] # None /\ key[w] = key[u]
    \/ \E v \in TtsSessions : key[u] \in {late[v], lateSeed[v]}
    \/ u \in left

(* _used_bundles of a session is filled when its loader returns; a task and *)
(* an ASR session keep their key themselves.                                *)
Registers(u) ==
    /\ used' = used \union ({u} \intersect TtsSessions)
    /\ UNCHANGED <<left, lateSeed, late>>

Forgets(u) == forgotten' = (forgotten \/ (Cached /\ bundle[u] = item.bundle))

(***************************************************************************)
(* acquire, whoever calls it                                                *)
(***************************************************************************)
Hits(u) ==
    /\ pc[u] = "asks" /\ Hit(key[u])
    /\ bundle' = [bundle EXCEPT ![u] = item.bundle]
    /\ Moves(u, "works")
    /\ shared' = (shared \/ AlsoUsed(u))
    /\ Registers(u)
    /\ UNCHANGED <<asked, stream, closing, forgotten, ingressVars>>

Misses(u) ==
    /\ pc[u] = "asks" /\ Moves(u, "loads")
    /\ \/ MissAndEvict(u, key[u]) /\ Oust
       \/ /\ \E b \in Bundles : Fresh(b) /\ MissAndCreate(u, key[u], b)
          /\ UNCHANGED <<bundle, histories>>
    /\ UNCHANGED <<asked, stream, ends, closing, ingressVars>>

(* The acquire of a request waits behind what the last request of the       *)
(* session has still to release, though not behind its own seed.            *)
Acquires(u) ==
    /\ u \in TtsSessions /\ part[u] # "again" =>
           late[u] = None /\ lateSeed[u] = None /\ u \notin left
    /\ Hits(u) \/ Misses(u)

OldIsGone(u) ==
    /\ pc[u] = "loads"
    /\ \E b \in Bundles : Fresh(b) /\ EvictedThenCreate(u, b)
    /\ UNCHANGED <<callerVars, ends, closing, histories, ingressVars>>

(* A bundle for speech is warmed up before its caller registers it.  A load *)
(* outlasts the two turns of the event loop that a generator that was left  *)
(* needs to begin its finally.                                              *)
Loaded(u) ==
    /\ pc[u] = "loads" /\ u \notin left /\ Created(u)
    /\ bundle' = [bundle EXCEPT ![u] = lock.bundle]
    /\ IF key[u] \in {SpeechKey, SeedKey} THEN Moves(u, "warms") /\ UNCHANGED ends
       ELSE Moves(u, "works") /\ Registers(u)
    /\ shared' = AlsoUsed(u) /\ forgotten' = FALSE
    /\ UNCHANGED <<asked, stream, closing, ingressVars>>

(* Seeded fault: a session that cannot load keeps the stream lock. *)
LoadFailsLocked(u) ==
    /\ pc[u] = "loads" /\ CreateFails(u)
    /\ Moves(u, IF u = Job THEN "gives" ELSE "idle")
    /\ UNCHANGED <<asked, bundle, stream, ends, closing, histories, ingressVars>>

LoadFails(u) ==
    /\ pc[u] = "loads" /\ CreateFails(u)
    /\ IF u = Job THEN Moves(u, "gives") /\ LetsGo(u) /\ UNCHANGED <<asked, bundle>>
       ELSE Leaves(u)
    /\ UNCHANGED <<ends, closing, histories, ingressVars>>

WarmedUp(u) ==
    /\ pc[u] = "warms" /\ Moves(u, "works") /\ Registers(u)
    /\ UNCHANGED <<asked, bundle, stream, closing, histories, cacheVars, ingressVars>>

(* The stream lock: for an ASR session with a bundle, a chunk to push. *)
LocksStream(u) ==
    /\ pc[u] \in {"waits", "closes"} /\ stream = None
    /\ stream' = u
    /\ Moves(u, CASE pc[u] = "closes" -> "gives"
                  [] pc[u] = "waits" /\ bundle[u] # None -> "works"
                  [] pc[u] = "waits" /\ bundle[u] = None -> "asks")
    /\ UNCHANGED <<asked, bundle, ends, closing, histories, cacheVars, ingressVars>>

(***************************************************************************)
(* The task                                                                 *)
(***************************************************************************)
TaskStarts(k) ==
    /\ pc[Job] = "idle" /\ Handle
    /\ Moves(Job, IF k = SpeechKey THEN "waits" ELSE "asks")
    /\ key' = [key EXCEPT ![Job] = k]
    /\ UNCHANGED <<part, bundle, stream, ends, closing, histories, cacheVars>>

TaskWorked ==
    /\ pc[Job] = "works" /\ Moves(Job, "gives") /\ LetsGo(Job)
    /\ UNCHANGED <<asked, bundle, ends, closing, histories, cacheVars, ingressVars>>

(* The finally of inference_callback: the stream lock is already free. *)
TaskEnds ==
    /\ pc[Job] = "gives" /\ Handled /\ Leaves(Job)
    /\ IF bundle[Job] = None THEN UNCHANGED cacheVars ELSE ReleaseUse(key[Job])
    /\ UNCHANGED <<ends, closing, histories>>

(***************************************************************************)
(* A realtime ASR session                                                   *)
(***************************************************************************)
ChunkArrives(a) ==
    /\ pc[a] \in {"idle", "holds"} /\ Moves(a, "waits")
    /\ key' = [key EXCEPT ![a] = LiveAsrKey]
    /\ UNCHANGED <<part, bundle, stream, ends, closing, histories, cacheVars, ingressVars>>

ChunkDone(a) ==
    /\ pc[a] = "works" /\ Moves(a, "holds") /\ LetsGo(a)
    /\ UNCHANGED <<asked, bundle, ends, closing, histories, cacheVars, ingressVars>>

(* session.asr.commit, or session.close: finish() is run under the lock. *)
Closes(a) ==
    /\ pc[a] = "holds" /\ Moves(a, "closes")
    /\ UNCHANGED <<asked, bundle, stream, ends, closing, histories, cacheVars, ingressVars>>

(* session.open again: the streaming session is dropped, not finished. *)
Reopens(a) ==
    /\ pc[a] = "holds" /\ Leaves(a)
    /\ Forgets(a)
    /\ UNCHANGED <<ends, closing, shared, cacheVars, ingressVars>>

(***************************************************************************)
(* A request of a TTS session                                               *)
(***************************************************************************)
Request(v) ==
    /\ pc[v] = "idle" /\ Moves(v, "waits")
    /\ \/ UNCHANGED part /\ key' = [key EXCEPT ![v] = SpeechKey]
       \/ /\ part' = [part EXCEPT ![v] = "seed"]
          /\ \E k \in {SpeechKey, SeedKey} : key' = [key EXCEPT ![v] = k]
    /\ UNCHANGED <<bundle, stream, ends, closing, histories, cacheVars, ingressVars>>

(* The seed is spoken: its generator is left as it is, the speech begins    *)
(* with an empty _used_bundles, and acquire is called in the same step.  It *)
(* waits only when the bundle of the seed is no longer there.               *)
SeedDone(v) ==
    /\ pc[v] = "works" /\ part[v] = "seed"
    /\ part' = [part EXCEPT ![v] = "again"] /\ left' = left \union {v}
    /\ \/ /\ bundle[v] # Ousted /\ Hit(key[v]) /\ shared' = TRUE
          /\ used' = used \union {v} /\ UNCHANGED <<pc, key, bundle, forgotten>>
       \/ /\ bundle[v] # Ousted /\ key' = [key EXCEPT ![v] = SpeechKey]
          /\ MissAndEvict(v, SpeechKey) /\ Moves(v, "loads")
          /\ bundle' = [Ousting EXCEPT ![v] = None]
          /\ used' = used \ {v} /\ shared' = FALSE /\ forgotten' = FALSE
       \/ /\ bundle[v] = Ousted /\ Moves(v, "asks")
          /\ key' = [key EXCEPT ![v] = SpeechKey] \/ UNCHANGED key
          /\ bundle' = [bundle EXCEPT ![v] = None] /\ used' = used \ {v}
          /\ UNCHANGED <<cacheVars, histories>>
    /\ UNCHANGED <<stream, lateSeed, late, closing, ingressVars>>

(* Seeded fault: the bundle is handed over, not its key. *)
SpeechDoneByBundle(v) ==
    /\ pc[v] = "works" /\ part[v] # "seed" /\ v \notin left /\ Leaves(v)
    /\ late' = [late EXCEPT ![v] = bundle[v]] /\ used' = used \ {v}
    /\ UNCHANGED <<left, lateSeed, closing, histories, cacheVars, ingressVars>>

(* Seeded fault: the generator has no finally. *)
SpeechDoneUnreleased(v) ==
    /\ pc[v] = "works" /\ part[v] # "seed" /\ v \notin left /\ Leaves(v)
    /\ used' = used \ {v}
    /\ UNCHANGED <<left, lateSeed, late, closing, histories, cacheVars, ingressVars>>

(* The consumer breaks out of the generator, at its last chunk or when it   *)
(* sees the request cancelled: the stream lock is free at once, the finally *)
(* of the generator is run later, by a task of its own.                     *)
SpeechDone(v) ==
    /\ pc[v] = "works" /\ part[v] # "seed" /\ v \notin left /\ Leaves(v)
    /\ late' = [late EXCEPT ![v] = IF v \in used THEN key[v] ELSE None]
    /\ used' = used \ {v}
    /\ UNCHANGED <<left, lateSeed, closing, histories, cacheVars, ingressVars>>

LateRelease(v) ==
    /\ late[v] # None /\ ReleaseUse(late[v])
    /\ late' = [late EXCEPT ![v] = None]
    /\ UNCHANGED <<callerVars, used, left, lateSeed, closing, histories, ingressVars>>

(* The task that closes the seed generator runs its finally: it reads what  *)
(* _used_bundles has by now, and when it has released that, empties it.     *)
SeedEnds(v) ==
    /\ v \in left /\ left' = left \ {v}
    /\ lateSeed' = [lateSeed EXCEPT ![v] = IF v \in used THEN key[v] ELSE None]
    /\ UNCHANGED <<callerVars, used, late, closing, histories, cacheVars, ingressVars>>

SeedRelease(v) ==
    /\ lateSeed[v] # None /\ ReleaseUse(lateSeed[v])
    /\ lateSeed' = [lateSeed EXCEPT ![v] = None] /\ used' = used \ {v}
    /\ UNCHANGED <<callerVars, left, late, closing, histories, ingressVars>>

(* task.cancel() on the request, by session.tts.cancel, the next request or *)
(* session.close: what it was awaiting is cut.  Inside the generator the    *)
(* finally is run before the stream lock is left, and releases what         *)
(* _used_bundles has; while the bundle is still warmed up nothing is        *)
(* registered for it.                                                       *)
CancelRequest(v) ==
    /\ \/ /\ pc[v] \in {"waits", "asks"} /\ Leaves(v)
          /\ UNCHANGED <<histories, cacheVars>>
       \/ /\ pc[v] = "loads" /\ CancelAcquire(v) /\ Leaves(v)
          /\ UNCHANGED histories
       \/ /\ pc[v] = "warms" /\ Leaves(v)
          /\ Forgets(v)
          /\ UNCHANGED <<shared, cacheVars>>
       \/ /\ pc[v] = "works" /\ v \in used /\ Moves(v, "gives")
          /\ UNCHANGED <<asked, bundle, stream, histories, cacheVars>>
       \/ /\ pc[v] = "works" /\ v \notin used /\ Leaves(v)
          /\ UNCHANGED <<histories, cacheVars>>
    /\ UNCHANGED <<ends, closing, ingressVars>>

(* A session gives its bundle back under the stream lock. *)
GivesBack(u) ==
    /\ pc[u] = "gives" /\ u # Job
    /\ ReleaseUse(key[u]) /\ Leaves(u)
    /\ used' = used \ {u}
    /\ UNCHANGED <<left, lateSeed, late, closing, histories, ingressVars>>

(***************************************************************************)
(* The evictor, and stop()                                                  *)
(***************************************************************************)
Expires ==
    /\ closing = "no" /\ StartEvict(FALSE) /\ Oust
    /\ UNCHANGED <<pc, asked, stream, ends, closing, ingressVars>>

EvictionEnds ==
    /\ EndEvict
    /\ UNCHANGED <<callerVars, ends, closing, histories, ingressVars>>

(* The evictor is cancelled, in the middle of a release too ... *)
Stop ==
    /\ closing = "no" /\ closing' = "asked"
    /\ \/ CancelAcquire(Evictor)
       \/ ~Awaits(Evictor, "evicting") /\ UNCHANGED cacheVars
    /\ UNCHANGED <<callerVars, ends, histories, ingressVars>>

(* ... and whatever is cached is evicted, used or not. *)
StopEvicts ==
    /\ closing = "asked" /\ closing' = "done"
    /\ \/ StartEvict(TRUE) /\ Oust
       \/ lock = None /\ ~Cached /\ UNCHANGED <<cacheVars, bundle, histories>>
    /\ UNCHANGED <<pc, asked, stream, ends, ingressVars>>

(* What a caller does once it has asked. *)
Acts(u) ==
    \/ LocksStream(u) \/ Acquires(u) \/ OldIsGone(u) \/ Loaded(u) \/ WarmedUp(u)
    \/ u = Job /\ (TaskWorked \/ TaskEnds)
    \/ u \in AsrSessions /\ ChunkDone(u)
    \/ u \in TtsSessions /\ (SeedDone(u) \/ SpeechDone(u))
    \/ GivesBack(u)

TaskArrives == Arrives /\ UNCHANGED <<cacheVars, callerVars, ends, closing, histories>>

Up == closing # "done"

Next ==
    \/ Up /\ TaskArrives
    \/ Up /\ \E k \in {SpeechKey, FileAsrKey} : TaskStarts(k)
    \/ Up /\ \E u \in Callers : Acts(u) \/ LoadFails(u)
    \/ Up /\ \E a \in AsrSessions : ChunkArrives(a) \/ Closes(a) \/ Reopens(a)
    \/ Up /\ \E v \in TtsSessions : Request(v) \/ CancelRequest(v)
    \/ Up /\ \E v \in TtsSessions : LateRelease(v) \/ SeedEnds(v) \/ SeedRelease(v)
    \/ Expires \/ EvictionEnds \/ Stop \/ StopEvicts

Spec == Init /\ [][Next]_vars

(* The loops and tasks of the event loop run, and what a thread was given   *)
(* comes back.  asyncio.Lock serves its waiters in order: the task is not   *)
(* passed over for ever by sessions that keep taking a lock.  Nothing is    *)
(* assumed of clients, producers, other workers, failures or stop().        *)
Fairness ==
    /\ WF_vars(Up /\ TaskArrives /\ Get)
    /\ WF_vars(Up /\ \E k \in {SpeechKey, FileAsrKey} : TaskStarts(k))
    /\ SF_vars(Up /\ Acts(Job))
    /\ \A u \in Callers \ {Job} : WF_vars(Up /\ Acts(u))
    /\ \A v \in TtsSessions : /\ WF_vars(Up /\ LateRelease(v))
                               /\ WF_vars(Up /\ SeedEnds(v))
                               /\ WF_vars(Up /\ SeedRelease(v))
    /\ WF_vars(EvictionEnds)

FairSpec == Spec /\ Fairness

(* in_use never outlives its users: a marked bundle has a caller that works *)
(* with it, or one whose release_use(key) is still to come.  Otherwise the  *)
(* evictor would spare the bundle for ever.  The two ways the code does     *)
(* leave a mark behind set `forgotten': session.open over a live streaming  *)
(* session (session_runtime.py:304), and a cancel while a bundle is warmed  *)
(* up, before it is registered (inferrer.py:760).                           *)
MarkIsAccountedFor ==
    Cached /\ item.inUse =>
        \/ \E u \in Callers : bundle[u] = item.bundle
        \/ \E v \in TtsSessions : item.key \in {late[v], lateSeed[v]}
        \/ forgotten

(* The evictor takes a bundle that is worked with only when its key has been *)
(* used twice at once: in_use is a flag, and the first of two uses to call  *)
(* release_use clears it for the other, which may outlast the time to live  *)
(* (pipeline_cache.py:129-139, :148-154).  The two uses are of two callers, *)
(* or of one request, for the seed of a designed voice and for the speech:  *)
(* the seed generator, left by a break, releases the key after the speech   *)
(* has acquired it (session_runtime.py:648-664, :905-923; inferrer.py:83-91).*)
TtlSparesTheLoneUser ==
    [][Expires => shared \/ \A u \in Callers : bundle[u] # item.bundle]_vars

(* A task the worker has taken from a list ends, whatever the sessions of   *)
(* the worker do with the two locks, unless the worker is stopped.          *)
EveryTaskTakenEnds ==
    \A t \in Tasks : fate[t] = "local" ~> fate[t] = "done" \/ closing = "done"

(* The card as PipelineSlot sees it: what `memory' holds that is not free. *)
There(m) == {b \in Bundles : m[b] # "free"}

Place(m) ==
    IF There(m) = {} THEN [phase |-> "empty"]
    ELSE LET b == CHOOSE x \in There(m) : TRUE
         IN  [phase |-> IF There(m) = {b} THEN m[b] ELSE "several", bundle |-> b]

Slot == INSTANCE PipelineSlot WITH slot <- Place(memory)

(* _lock is held across the awaited release and load: the cache implements  *)
(* PipelineSlot, and no bundle is loaded while another is still there.      *)
OneBundleAtATime == Slot!Spec
=============================================================================
