---------------------------- MODULE PipelineCache ----------------------------
(***************************************************************************)
(* PipelineCache (src/inference/common/pipeline_cache.py): one cached       *)
(* bundle with a time to live.  The operations are actions that take the    *)
(* caller; EngineHost says who calls them, and when.                        *)
(*                                                                          *)
(* `lock' is asyncio.Lock _lock.  It is kept across the awaited release_fn  *)
(* and create_fn, so it carries which of the two is under way.  An          *)
(* operation that awaits nothing under the lock is one step, enabled while  *)
(* the lock is free.  `memory' says what each bundle is in the card's       *)
(* memory; the code has no such variable, only the effects of create_fn and *)
(* release_fn.                                                              *)
(***************************************************************************)
CONSTANTS Callers,   \* who acquires bundles
          Evictor,   \* the _evict_loop task, and stop()
          Keys,      \* cache keys
          Bundles,   \* identities of loaded bundles
          None

VARIABLES item,      \* _item: None, or its key, pipe and in_use
          lock,      \* None, or the holder of _lock and what it awaits
          memory     \* [Bundles -> what became of the bundle]

cacheVars == <<item, lock, memory>>

Items == [key: Keys, bundle: Bundles \union {None}, inUse: BOOLEAN]
Holdings == [by: Callers \union {Evictor}, key: Keys \union {None}, bundle: Bundles,
             step: {"evicting", "creating"}]

ASSUME CacheAssumption ==
    /\ Evictor \notin Callers
    /\ None \notin Bundles /\ None \notin Items /\ None \notin Holdings

Phases == {"free", "loading", "ready", "releasing"}

CacheTypeOK ==
    /\ item \in Items \union {None}
    /\ lock \in Holdings \union {None}
    /\ memory \in [Bundles -> Phases]

CacheInit == item = None /\ lock = None /\ memory = [b \in Bundles |-> "free"]

Cached == item # None /\ item.bundle # None
IsHit(k) == Cached /\ item.key = k
Awaits(c, step) == lock # None /\ lock.by = c /\ lock.step = step

(* Seeded fault: a hit does not mark the bundle. *)
HitUnmarked(k) == lock = None /\ IsHit(k) /\ UNCHANGED cacheVars

(* acquire, same key: the flag is set again and the cached bundle returned. *)
Hit(k) ==
    /\ lock = None /\ IsHit(k)
    /\ item' = [item EXCEPT !.inUse = TRUE]
    /\ UNCHANGED <<lock, memory>>

(* create_fn is awaited; nothing is cached until it returns. *)
Create(c, k, b) ==
    /\ memory' = [memory EXCEPT ![b] = "loading"]
    /\ lock' = [by |-> c, key |-> k, bundle |-> b, step |-> "creating"]

(* acquire, another key, something cached: its reference is dropped, in use *)
(* or not, and release_fn awaited.                                          *)
MissAndEvict(c, k) ==
    /\ lock = None /\ Cached /\ ~IsHit(k)
    /\ item' = [item EXCEPT !.bundle = None]
    /\ memory' = [memory EXCEPT ![item.bundle] = "releasing"]
    /\ lock' = [by |-> c, key |-> k, bundle |-> item.bundle, step |-> "evicting"]

(* acquire, nothing cached. *)
MissAndCreate(c, k, b) ==
    /\ lock = None /\ ~Cached /\ memory[b] = "free"
    /\ Create(c, k, b)
    /\ UNCHANGED item

(* release_fn is back, or raised: the item is dropped and create_fn called. *)
EvictedThenCreate(c, b) ==
    /\ Awaits(c, "evicting") /\ c # Evictor
    /\ memory[b] = "free"
    /\ item' = None
    /\ memory' = [memory EXCEPT ![lock.bundle] = "free", ![b] = "loading"]
    /\ lock' = [lock EXCEPT !.step = "creating", !.bundle = b]

(* create_fn is back: the new item is cached, in use. *)
Created(c) ==
    /\ Awaits(c, "creating")
    /\ item' = [key |-> lock.key, bundle |-> lock.bundle, inUse |-> TRUE]
    /\ memory' = [memory EXCEPT ![lock.bundle] = "ready"]
    /\ lock' = None

(* create_fn raises: the caller gets the exception, nothing is cached. *)
CreateFails(c) ==
    /\ Awaits(c, "creating")
    /\ memory' = [memory EXCEPT ![lock.bundle] = "free"]
    /\ lock' = None /\ UNCHANGED item

(* The caller is cancelled inside acquire.  The lock is let go; the thread  *)
(* that loads or releases runs on, and nobody waits for its result.  An     *)
(* item whose reference was dropped stays behind, empty.                    *)
CancelAcquire(c) ==
    /\ lock # None /\ lock.by = c
    /\ memory' = [memory EXCEPT ![lock.bundle] = "free"]
    /\ lock' = None /\ UNCHANGED item

(* release_use(key): no count of users is kept. *)
ReleaseUse(k) ==
    /\ lock = None
    /\ item' = IF item # None /\ item.key = k THEN [item EXCEPT !.inUse = FALSE]
               ELSE item
    /\ UNCHANGED <<lock, memory>>

(* Seeded fault: release_fn is called after the lock is let go. *)
StartEvictUnlocked(force) ==
    /\ lock = None /\ Cached
    /\ force \/ ~item.inUse
    /\ item' = None
    /\ memory' = [memory EXCEPT ![item.bundle] = "releasing"]
    /\ UNCHANGED lock

(* evict: by TTL only what is not in use, by force whatever is cached. *)
StartEvict(force) ==
    /\ lock = None /\ Cached
    /\ force \/ ~item.inUse
    /\ item' = None
    /\ memory' = [memory EXCEPT ![item.bundle] = "releasing"]
    /\ lock' = [by |-> Evictor, key |-> None, bundle |-> item.bundle, step |-> "evicting"]

EndEvict ==
    /\ Awaits(Evictor, "evicting")
    /\ memory' = [memory EXCEPT ![lock.bundle] = "free"]
    /\ lock' = None /\ UNCHANGED item
=============================================================================
