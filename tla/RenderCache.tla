----------------------------- MODULE RenderCache -----------------------------
(***************************************************************************)
(* The portrayal endpoint of the online server (src/server/app.py):        *)
(* rendered_tile on the event loop of several worker processes,            *)
(* _load_render_and_cache in each worker's thread pool, one cache          *)
(* directory for all of them, and the operator who publishes releases.     *)
(*                                                                         *)
(* A body is the number of the release its pixels come from.  Formats,     *)
(* portrayals and coordinates are part of the tile: layer, z, x, y and the *)
(* rest of key_obj are one model value.                                    *)
(***************************************************************************)
EXTENDS Naturals, Sequences, FiniteSets

CONSTANTS
    Worker,         \* gunicorn worker processes
    Request,        \* requests in flight at one time
    Tile,           \* what a request asks for, release apart
    Threads,        \* DATATILES_RENDER_THREADS
    MaxInflight,    \* DATATILES_MAX_INFLIGHT_RENDERS
    MaxRelease,     \* bound: releases published
    MaxCrashes,     \* bound: workers killed
    None, Torn      \* no cache file; a file that is only partly written

ASSUME RenderCacheAssumption ==
    /\ Threads \in Nat \ {0} /\ MaxInflight \in Nat /\ MaxInflight >= Threads
    /\ MaxRelease \in Nat \ {0} /\ MaxCrashes \in Nat
    /\ None \notin Nat /\ Torn \notin Nat /\ None # Torn
    /\ IsFiniteSet(Request) /\ None \notin Request
    /\ None \notin [body : Nat, by : Worker]

VARIABLES
    layer,      \* layers.json: dataset name and dataset_release
    content,    \* dataset name -> the release whose bytes the file holds
    cache,      \* CACHE_DIR: key -> file, and the worker that wrote it
    slots,      \* worker -> free render_slots
    queue,      \* worker -> submitted jobs no thread has taken
    lock,       \* worker -> key -> the request whose thread holds _cache_locks[key]
    request,    \* request -> its handler and its job
    crashes

server == <<cache, slots, queue, lock, request>>
vars == <<layer, content, server, crashes>>

Release == 1 .. MaxRelease
Key == Tile \X Release
Body == Release \union {Torn}
File == [body : Body, by : Worker] \union {None}

Idle == [stage |-> "idle"]

\* The stages of a handler that holds a slot, and of those the ones in a thread.
Rendering == {"render", "replace"}
InThread == {"lock", "recheck"} \union Rendering
Admitted == {"queued", "resume"} \union InThread
Stage == {"admit", "reply"} \union Admitted

\* What the coroutine and the thread of a request know.
Handling == [stage : Stage, worker : Worker, key : Key, dataset : Release,
             body : Body \union {None}]

At(w, stages) == {r \in Request : request[r].stage \in stages /\ request[r].worker = w}

Init ==
    /\ layer = [dataset |-> 1, release |-> 1]
    /\ content = [d \in Release |-> d]
    /\ cache = [k \in Key |-> None]
    /\ slots = [w \in Worker |-> MaxInflight]
    /\ queue = [w \in Worker |-> <<>>]
    /\ lock = [w \in Worker |-> [k \in Key |-> None]]
    /\ request = [r \in Request |-> Idle]
    /\ crashes = 0

Become(r, state) == request' = [request EXCEPT ![r] = state]

Enter(r, stage) == Become(r, [request[r] EXCEPT !.stage = stage])

Finish(r, stage, body) ==
    Become(r, [request[r] EXCEPT !.stage = stage, !.body = body])
-----------------------------------------------------------------------------
(***************************************************************************)
(* rendered_tile, on the event loop.                                       *)
(***************************************************************************)

\* Fault: the release is not part of the cache key.
UnversionedKey(tile, release) == <<tile, 1>>

CacheKey(tile, release) == <<tile, release>>

\* Reads layers.json, computes the key, of which the dataset goes with the release, and
\* looks in the cache.  A request that is answered with 304 is not one.
Arrive(r, w, tile) ==
    LET key == CacheKey(tile, layer.release)
        state(stage, body) == [stage |-> stage, worker |-> w, key |-> key,
                               dataset |-> layer.dataset, body |-> body]
    IN
    /\ request[r] = Idle
    /\ \/ cache[key] # None /\ Become(r, state("reply", cache[key].body))
       \/ cache[key] = None /\ Become(r, state("admit", None))
    /\ UNCHANGED <<layer, content, cache, slots, queue, lock, crashes>>

\* Fault: jobs are submitted without a slot.
AdmitAll(r) ==
    LET w == request[r].worker IN
    /\ request[r].stage = "admit"
    /\ queue' = [queue EXCEPT ![w] = Append(@, r)]
    /\ Enter(r, "queued")
    /\ UNCHANGED <<layer, content, cache, slots, lock, crashes>>

\* render_slots.acquire, then run_in_executor.
Admit(r) ==
    LET w == request[r].worker IN
    /\ request[r].stage = "admit"
    /\ slots[w] > 0
    /\ slots' = [slots EXCEPT ![w] = @ - 1]
    /\ queue' = [queue EXCEPT ![w] = Append(@, r)]
    /\ Enter(r, "queued")
    /\ UNCHANGED <<layer, content, cache, lock, crashes>>

\* No slot within the timeout: 503.
Refuse(r) ==
    /\ request[r].stage = "admit"
    /\ slots[request[r].worker] = 0
    /\ Become(r, Idle)
    /\ UNCHANGED <<layer, content, cache, slots, queue, lock, crashes>>

\* The job's result or exception is back: the slot is released, the client answered.
Resume(r) ==
    LET w == request[r].worker IN
    /\ request[r].stage = "resume"
    /\ slots' = [slots EXCEPT ![w] = @ + 1]
    /\ Become(r, Idle)
    /\ UNCHANGED <<layer, content, cache, queue, lock, crashes>>

\* A cache hit needs no slot.
Reply(r) ==
    /\ request[r].stage = "reply"
    /\ Become(r, Idle)
    /\ UNCHANGED <<layer, content, cache, slots, queue, lock, crashes>>
-----------------------------------------------------------------------------
(***************************************************************************)
(* _load_render_and_cache, in a thread of the pool.                        *)
(***************************************************************************)

Start(r) ==
    LET w == request[r].worker IN
    /\ request[r].stage = "queued"
    /\ queue[w] # <<>> /\ Head(queue[w]) = r
    /\ Cardinality(At(w, InThread)) < Threads
    /\ queue' = [queue EXCEPT ![w] = Tail(@)]
    /\ Enter(r, "lock")
    /\ UNCHANGED <<layer, content, cache, slots, lock, crashes>>

SetLock(r, holder) == lock' = [lock EXCEPT ![request[r].worker][request[r].key] = holder]

AcquireLock(r) ==
    /\ request[r].stage = "lock"
    /\ lock[request[r].worker][request[r].key] = None
    /\ SetLock(r, r)
    /\ Enter(r, "recheck")
    /\ UNCHANGED <<layer, content, cache, slots, queue, crashes>>

\* Fault: the cache is not looked at again under the lock.
RecheckNothing(r) ==
    /\ request[r].stage = "recheck"
    /\ Enter(r, "render")
    /\ UNCHANGED <<layer, content, cache, slots, queue, lock, crashes>>

Recheck(r) ==
    LET file == cache[request[r].key] IN
    /\ request[r].stage = "recheck"
    /\ \/ file = None /\ Enter(r, "render") /\ UNCHANGED lock
       \/ file # None /\ Finish(r, "resume", file.body) /\ SetLock(r, None)
    /\ UNCHANGED <<layer, content, cache, slots, queue, crashes>>

\* Fault: the body is written to the cache file itself.
RenderInPlace(r) ==
    /\ request[r].stage = "render"
    /\ cache' = [cache EXCEPT ![request[r].key] = [body |-> Torn, by |-> request[r].worker]]
    /\ Finish(r, "replace", content[request[r].dataset])
    /\ UNCHANGED <<layer, content, slots, queue, lock, crashes>>

\* Opens the dataset, decodes and renders the tile, and writes it to a temporary file
\* of this thread, which nobody reads ...
Render(r) ==
    /\ request[r].stage = "render"
    /\ Finish(r, "replace", content[request[r].dataset])
    /\ UNCHANGED <<layer, content, cache, slots, queue, lock, crashes>>

\* Fault: the exception is answered by rendering again, without a limit.
FailRetries(r) ==
    /\ request[r].stage \in Rendering
    /\ Enter(r, "render")
    /\ UNCHANGED <<layer, content, cache, slots, queue, lock, crashes>>

\* No such tile, a payload that is not portrayable, a full disk: an HTTP error.
Fail(r) ==
    /\ request[r].stage \in Rendering
    /\ Finish(r, "resume", None)
    /\ SetLock(r, None)
    /\ UNCHANGED <<layer, content, cache, slots, queue, crashes>>

\* ... and os.replace.
Replace(r) ==
    /\ request[r].stage = "replace"
    /\ cache' = [cache EXCEPT ![request[r].key] =
                    [body |-> request[r].body, by |-> request[r].worker]]
    /\ SetLock(r, None)
    /\ Enter(r, "resume")
    /\ UNCHANGED <<layer, content, slots, queue, crashes>>
-----------------------------------------------------------------------------
\* gunicorn kills a worker and starts another: its requests, slots and locks are
\* gone, the cache directory is not.
Crash(w) ==
    /\ crashes < MaxCrashes
    /\ crashes' = crashes + 1
    /\ request' = [r \in Request |-> IF r \in At(w, Stage) THEN Idle ELSE request[r]]
    /\ slots' = [slots EXCEPT ![w] = MaxInflight]
    /\ queue' = [queue EXCEPT ![w] = <<>>]
    /\ lock' = [lock EXCEPT ![w] = [k \in Key |-> None]]
    /\ UNCHANGED <<layer, content, cache>>

\* The operator publishes a release as a new dataset and names both in layers.json.
Publish ==
    /\ layer.release < MaxRelease
    /\ layer' = [dataset |-> layer.release + 1, release |-> layer.release + 1]
    /\ UNCHANGED <<content, server, crashes>>

Handle(r) == Admit(r) \/ Refuse(r) \/ Resume(r) \/ Reply(r)

Job(r) == Start(r) \/ Recheck(r) \/ Render(r) \/ Fail(r) \/ Replace(r)

Next ==
    \/ \E r \in Request, w \in Worker, tile \in Tile : Arrive(r, w, tile)
    \/ \E r \in Request : Handle(r) \/ AcquireLock(r) \/ Job(r)
    \/ \E w \in Worker : Crash(w)
    \/ Publish

\* The loop and the threads run; a thread is not passed over for ever at a lock
\* that is free again and again.
Fairness ==
    \A r \in Request : WF_vars(Handle(r)) /\ WF_vars(Job(r)) /\ SF_vars(AcquireLock(r))

Spec == Init /\ [][Next]_vars /\ Fairness
-----------------------------------------------------------------------------
TypeOK ==
    /\ layer \in [dataset : Release, release : Release]
    /\ content \in [Release -> Release]
    /\ cache \in [Key -> File]
    /\ slots \in [Worker -> 0 .. MaxInflight]
    /\ queue \in [Worker -> Seq(Request)]
    /\ lock \in [Worker -> [Key -> Request \union {None}]]
    /\ request \in [Request -> {Idle} \union Handling]
    /\ crashes \in 0 .. MaxCrashes

\* Back-pressure: the jobs of a worker, queued, running or about to be answered, are
\* never more than its admission limit, and a slot comes back exactly once on every
\* path: success, error, refusal, restart.
SlotsAreConserved ==
    \A w \in Worker : slots[w] + Cardinality(At(w, Admitted)) = MaxInflight

\* Identical misses are coalesced inside a process: while a thread renders a key, no
\* other thread of its worker does, and none starts once the worker has cached it.
MissesAreCoalesced ==
    \A w \in Worker : \A r \in At(w, Rendering) :
        /\ \A q \in At(w, Rendering) : request[q].key = request[r].key => q = r
        /\ cache[request[r].key] # None => cache[request[r].key].by # w

\* Whatever is published, killed or half written meanwhile, by this worker or another, a
\* client is sent an error or the whole tile of the dataset that layers.json named when
\* it asked.
RepliesAreTheirRelease ==
    \A r \in Request : request[r].stage \in {"reply", "resume"} =>
        request[r].body \in {None, request[r].dataset}

\* Two clients that ask for one tile of one release get the same pixels, for as long
\* as it is cached: a tile is filed under the release it was rendered from.
CachedTilesAreTheirRelease ==
    \A tile \in Tile, release \in Release :
        cache[<<tile, release>>] # None => cache[<<tile, release>>].body = release

\* An admitted request is answered, whichever threads wait for one lock or fail.
AdmittedIsAnswered ==
    \A r \in Request : request[r].stage = "queued" ~> request[r].stage = "idle"
=============================================================================
