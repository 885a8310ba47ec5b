-------------------------- MODULE RenderCacheProofs --------------------------
(***************************************************************************)
(* Safety of the portrayal endpoint, for any number of workers, threads,   *)
(* requests, tiles and releases.                                           *)
(*                                                                         *)
(* The properties rest on two facts that no property states: a job between *)
(* recheck and replace holds the lock of its key (LocksAreHeld), and the   *)
(* release in a request's key is the dataset its job will open             *)
(* (ReleasesAgree).                                                        *)
(***************************************************************************)
EXTENDS RenderCache, FiniteSetTheorems, TLAPS

\* A job holds its key's lock from the second look at the cache to the end.
LocksAreHeld ==
    \A r \in Request :
        request[r].stage \in {"recheck"} \union Rendering =>
            lock[request[r].worker][request[r].key] = r

\* layers.json names the dataset of the release it names, a dataset is the release
\* it was published as, and a request has read both names together.
ReleasesAgree ==
    /\ layer.dataset = layer.release
    /\ content = [d \in Release |-> d]
    /\ \A r \in Request : request[r].stage \in Stage =>
            /\ request[r].key[2] = request[r].dataset
            /\ request[r].stage = "replace" => request[r].body = request[r].dataset

\* A request has been given nothing yet, or the tile of the dataset it asked for.
BodiesAgree ==
    \A r \in Request : request[r].stage \in Stage => request[r].body \in {None, request[r].dataset}

IInv ==
    /\ TypeOK
    /\ LocksAreHeld
    /\ ReleasesAgree
    /\ BodiesAgree
    /\ CachedTilesAreTheirRelease
    /\ MissesAreCoalesced
    /\ SlotsAreConserved
-----------------------------------------------------------------------------
(***************************************************************************)
(* Facts about states.                                                     *)
(***************************************************************************)

\* A request that is not idle is being handled.
LEMMA StageKinds ==
    ASSUME TypeOK, NEW r \in Request, request[r] # Idle \/ request[r].stage \in Stage
    PROVE  request[r] \in Handling
<1>1. Idle.stage \notin Stage
    BY DEF Idle, Stage, Admitted, InThread, Rendering
<1> QED BY <1>1 DEF TypeOK

\* The stages are what they are.
LEMMA Stages ==
    /\ {"lock", "recheck", "render", "replace", "queued", "resume"} = Admitted
    /\ {"admit", "reply", "lock", "recheck", "render", "replace", "queued", "resume"} = Stage
    /\ "idle" \notin Stage
BY DEF Stage, Admitted, InThread, Rendering

\* An operation moves one request to a new state.
LEMMA BecomeFacts ==
    ASSUME TypeOK, NEW r \in Request, NEW state, Become(r, state)
    PROVE  /\ request'[r] = state
           /\ \A q \in Request : q # r => request'[q] = request[q]
           /\ state \in {Idle} \union Handling =>
                request' \in [Request -> {Idle} \union Handling]
BY DEF Become, TypeOK

\* Enter changes the stage of a request that is being handled.
LEMMA EnterFacts ==
    ASSUME TypeOK, NEW r \in Request, request[r].stage \in Stage,
           NEW stage \in Stage, Enter(r, stage)
    PROVE  /\ request' \in [Request -> {Idle} \union Handling]
           /\ request'[r] \in Handling
           /\ request'[r].stage = stage
           /\ request'[r].worker = request[r].worker
           /\ request'[r].key = request[r].key
           /\ request'[r].dataset = request[r].dataset
           /\ request'[r].body = request[r].body
           /\ \A q \in Request : q # r => request'[q] = request[q]
<1> DEFINE state == [request[r] EXCEPT !.stage = stage]
<1>1. request[r] \in Handling
    BY StageKinds
<1>2. /\ state \in Handling /\ state.stage = stage
      /\ state.worker = request[r].worker /\ state.key = request[r].key
      /\ state.dataset = request[r].dataset /\ state.body = request[r].body
    BY <1>1 DEF Handling
<1>3. Become(r, state)
    BY DEF Enter
<1> HIDE DEF state
<1> QED BY <1>2, <1>3, BecomeFacts

\* Finish also gives it a body.
LEMMA FinishFacts ==
    ASSUME TypeOK, NEW r \in Request, request[r].stage \in Stage,
           NEW stage \in Stage, NEW body \in Body \union {None}, Finish(r, stage, body)
    PROVE  /\ request' \in [Request -> {Idle} \union Handling]
           /\ request'[r] \in Handling
           /\ request'[r].stage = stage
           /\ request'[r].worker = request[r].worker
           /\ request'[r].key = request[r].key
           /\ request'[r].dataset = request[r].dataset
           /\ request'[r].body = body
           /\ \A q \in Request : q # r => request'[q] = request[q]
<1> DEFINE state == [request[r] EXCEPT !.stage = stage, !.body = body]
<1>1. request[r] \in Handling
    BY StageKinds
<1>2. /\ state \in Handling /\ state.stage = stage
      /\ state.worker = request[r].worker /\ state.key = request[r].key
      /\ state.dataset = request[r].dataset /\ state.body = body
    BY <1>1 DEF Handling
<1>3. Become(r, state)
    BY DEF Finish
<1> HIDE DEF state
<1> QED BY <1>2, <1>3, BecomeFacts

\* A step of one request's handler or job moves that request only, to idle or to a
\* stage of the same work.
LEMMA Moves ==
    ASSUME TypeOK, NEW r \in Request, Handle(r) \/ AcquireLock(r) \/ Job(r)
    PROVE  /\ request[r] \in Handling
           /\ request' \in [Request -> {Idle} \union Handling]
           /\ \A q \in Request : q # r => request'[q] = request[q]
           /\ \/ request'[r] = Idle
              \/ /\ request'[r] \in Handling
                 /\ request'[r].worker = request[r].worker
                 /\ request'[r].key = request[r].key
                 /\ request'[r].dataset = request[r].dataset
           /\ UNCHANGED <<layer, content, crashes>>
<1>1. request[r].stage \in Stage
    BY Stages DEF Handle, Admit, Refuse, Resume, Reply, AcquireLock, Job, Start, Recheck,
                  Render, Fail, Replace, Rendering
<1>2. request[r] \in Handling
    BY <1>1, StageKinds
<1>3. UNCHANGED <<layer, content, crashes>>
    BY DEF Handle, Admit, Refuse, Resume, Reply, AcquireLock, Job, Start, Recheck,
           Render, Fail, Replace
<1>4. CASE Become(r, Idle)
    BY <1>2, <1>3, <1>4, BecomeFacts
<1>5. CASE \E stage \in Stage : Enter(r, stage)
    BY <1>1, <1>2, <1>3, <1>5, EnterFacts
<1>6. CASE \E stage \in Stage, body \in Body \union {None} : Finish(r, stage, body)
    BY <1>1, <1>2, <1>3, <1>6, FinishFacts
<1>7. CASE Refuse(r) \/ Resume(r) \/ Reply(r)
    BY <1>4, <1>7 DEF Refuse, Resume, Reply
<1>8. CASE Admit(r) \/ AcquireLock(r) \/ Start(r) \/ Replace(r)
    BY <1>5, <1>8, Stages DEF Admit, AcquireLock, Start, Replace
<1>9. CASE Render(r)
    <2>1. content[request[r].dataset] \in Body \union {None}
        BY <1>2 DEF TypeOK, Handling, Body
    <2> QED BY <1>6, <1>9, <2>1, Stages DEF Render
<1>10. CASE Fail(r)
    BY <1>6, <1>10, Stages DEF Fail
<1>11. CASE Recheck(r)
    <2>1. cache[request[r].key] \in File
        BY <1>2 DEF TypeOK, Handling
    <2>2. CASE cache[request[r].key] = None
        BY <1>5, <1>11, <2>2, Stages DEF Recheck
    <2>3. CASE cache[request[r].key] # None
        <3>1. cache[request[r].key].body \in Body
            BY <2>1, <2>3 DEF File
        <3> QED BY <1>6, <1>11, <2>3, <3>1, Stages DEF Recheck
    <2> QED BY <2>2, <2>3
<1> QED BY <1>7, <1>8, <1>9, <1>10, <1>11 DEF Handle, Job
-----------------------------------------------------------------------------
(***************************************************************************)
(* Every step keeps the inductive invariant.  An arrival, a kill and a     *)
(* publication are the steps that Moves is not about.                      *)
(***************************************************************************)

\* What a request knows when it arrives.
LEMMA Arrivals ==
    ASSUME IInv, NEW r \in Request, NEW w \in Worker, NEW tile \in Tile, Arrive(r, w, tile)
    PROVE  /\ request[r] = Idle
           /\ request' \in [Request -> {Idle} \union Handling]
           /\ \A q \in Request : q # r => request'[q] = request[q]
           /\ request'[r] \in Handling
           /\ request'[r].stage \in {"reply", "admit"}
           /\ request'[r].key[2] = request'[r].dataset
           /\ request'[r].body \in {None, request'[r].dataset}
           /\ UNCHANGED <<layer, content, cache, slots, queue, lock, crashes>>
<1> DEFINE key == CacheKey(tile, layer.release)
           state(stage, body) == [stage |-> stage, worker |-> w, key |-> key,
                                  dataset |-> layer.dataset, body |-> body]
<1>1. /\ request[r] = Idle
      /\ UNCHANGED <<layer, content, cache, slots, queue, lock, crashes>>
    BY DEF Arrive
<1>2. layer.release \in Release /\ layer.dataset = layer.release
    BY DEF IInv, TypeOK, ReleasesAgree
<1>3. key \in Key /\ key[2] = layer.dataset
    BY <1>2 DEF CacheKey, Key
<1>4. \A stage \in {"reply", "admit"}, body \in Body \union {None} :
        /\ state(stage, body) \in Handling
        /\ state(stage, body).stage = stage
        /\ state(stage, body).key[2] = state(stage, body).dataset
        /\ state(stage, body).dataset = key[2]
        /\ state(stage, body).body = body
    BY <1>2, <1>3, Stages DEF Handling
<1>5. \/ cache[key] # None /\ Become(r, state("reply", cache[key].body))
      \/ cache[key] = None /\ Become(r, state("admit", None))
    BY DEF Arrive
<1> HIDE DEF state
<1>6. CASE cache[key] = None /\ Become(r, state("admit", None))
    <2>1. state("admit", None) \in Handling
        BY <1>4
    <2>2. request'[r] = state("admit", None)
        BY <1>6, <2>1, BecomeFacts DEF IInv
    <2> QED BY <1>1, <1>4, <1>6, <2>1, <2>2, BecomeFacts, RenderCacheAssumption DEF IInv
<1>7. CASE cache[key] # None /\ Become(r, state("reply", cache[key].body))
    <2>1. cache[key].body = key[2]
        BY <1>2, <1>7 DEF IInv, CachedTilesAreTheirRelease, CacheKey
    <2>2. cache[key].body \in Body
        BY <1>2, <1>3, <2>1 DEF Body
    <2>3. request'[r] = state("reply", cache[key].body)
        BY <1>7, BecomeFacts DEF IInv
    <2> QED BY <1>1, <1>4, <1>7, <2>1, <2>2, <2>3, BecomeFacts DEF IInv
<1> QED BY <1>5, <1>6, <1>7

\* A kill leaves requests of other workers as they are, and none of its own.
LEMMA Crashes ==
    ASSUME TypeOK, NEW w \in Worker, Crash(w)
    PROVE  /\ request' \in [Request -> {Idle} \union Handling]
           /\ \A q \in Request :
                \/ request'[q] = Idle
                \/ request'[q] = request[q]
           /\ \A q \in Request : request'[q].stage \in Stage =>
                request'[q] = request[q] /\ request[q].worker # w
           /\ \A q \in Request : request[q].worker # w => request'[q] = request[q]
           /\ slots' = [slots EXCEPT ![w] = MaxInflight]
           /\ lock' = [lock EXCEPT ![w] = [k \in Key |-> None]]
           /\ UNCHANGED <<layer, content, cache>>
<1>1. \A q \in Request : request'[q] =
            IF request[q].stage \in Stage /\ request[q].worker = w THEN Idle ELSE request[q]
    BY DEF Crash, At
<1>2. Idle.stage \notin Stage
    BY Stages DEF Idle
<1> QED BY <1>1, <1>2 DEF Crash, TypeOK

\* What SetLock changes.
LEMMA SetLockFacts ==
    ASSUME TypeOK, NEW r \in Request, request[r] \in Handling, NEW holder, SetLock(r, holder)
    PROVE  \A w \in Worker, k \in Key :
                lock'[w][k] = IF w = request[r].worker /\ k = request[r].key
                                THEN holder ELSE lock[w][k]
<1>1. request[r].worker \in Worker /\ request[r].key \in Key
    BY DEF Handling
<1> QED BY <1>1 DEF SetLock, TypeOK

\* A lock is taken only when it is free and released only by its holder.
LEMMA NextLocks ==
    ASSUME IInv, Next
    PROVE  LocksAreHeld'
<1> USE DEF IInv
<1> DEFINE Holds(stage) == stage \in {"recheck"} \union Rendering
<1>0. /\ \A stage : Holds(stage) => stage \in Stage
      /\ ~Holds("idle") /\ ~Holds("reply") /\ ~Holds("admit") /\ ~Holds("queued")
      /\ ~Holds("lock") /\ ~Holds("resume")
    BY DEF Rendering, InThread, Admitted, Stage
<1> SUFFICES ASSUME NEW q \in Request, Holds(request'[q].stage)
             PROVE  lock'[request'[q].worker][request'[q].key] = q
    BY DEF LocksAreHeld
<1>1. ASSUME NEW r \in Request, NEW w \in Worker, NEW tile \in Tile, Arrive(r, w, tile)
      PROVE  lock'[request'[q].worker][request'[q].key] = q
    <2>1. q # r
        BY <1>0, <1>1, Arrivals
    <2> QED BY <1>1, <2>1, Arrivals DEF LocksAreHeld
<1>2. ASSUME NEW r \in Request, Handle(r) \/ AcquireLock(r) \/ Job(r)
      PROVE  lock'[request'[q].worker][request'[q].key] = q
    <2>1. request[r] \in Handling
        BY <1>2, Moves
    <2>2. CASE q # r
        <3>1. /\ request'[q] = request[q]
              /\ lock[request[q].worker][request[q].key] = q
            BY <1>2, <2>2, Moves DEF LocksAreHeld
        <3>2. request[q].worker \in Worker /\ request[q].key \in Key
            BY <1>0, <3>1, StageKinds DEF Handling
        <3>3. CASE UNCHANGED lock
            BY <3>1, <3>3
        <3>4. CASE AcquireLock(r)
            <4>1. lock[request[r].worker][request[r].key] = None /\ SetLock(r, r)
                BY <3>4 DEF AcquireLock
            <4> QED BY <2>1, <3>1, <3>2, <4>1, SetLockFacts, RenderCacheAssumption
        <3>5. CASE SetLock(r, None) /\ request[r].stage \in {"recheck"} \union Rendering
            <4>1. lock[request[r].worker][request[r].key] = r
                BY <3>5 DEF LocksAreHeld
            <4> QED BY <2>1, <2>2, <3>1, <3>2, <3>5, <4>1, SetLockFacts
        <3>6. \/ UNCHANGED lock
              \/ AcquireLock(r)
              \/ SetLock(r, None) /\ request[r].stage \in {"recheck"} \union Rendering
            <4>1. Handle(r) \/ Start(r) \/ Render(r) => UNCHANGED lock
                BY DEF Handle, Admit, Refuse, Resume, Reply, Start, Render
            <4>2. Recheck(r) =>
                    \/ UNCHANGED lock
                    \/ SetLock(r, None) /\ request[r].stage \in {"recheck"} \union Rendering
                BY DEF Recheck
            <4>3. Fail(r) \/ Replace(r) =>
                    SetLock(r, None) /\ request[r].stage \in {"recheck"} \union Rendering
                BY DEF Fail, Replace, Rendering
            <4> QED BY <1>2, <4>1, <4>2, <4>3 DEF Job
        <3> QED BY <3>3, <3>4, <3>5, <3>6
    <2>3. CASE q = r
        <3>1. request[r].stage \in Stage
            BY <1>2, Stages DEF Handle, Admit, Refuse, Resume, Reply, AcquireLock, Job, Start,
                                Recheck, Render, Fail, Replace, Rendering
        <3>2. CASE AcquireLock(r)
            <4>1. SetLock(r, r) /\ Enter(r, "recheck")
                BY <3>2 DEF AcquireLock
            <4>2. /\ request'[r].worker = request[r].worker
                  /\ request'[r].key = request[r].key
                BY <3>1, <4>1, Stages, EnterFacts
            <4>3. request[r].worker \in Worker /\ request[r].key \in Key
                BY <2>1 DEF Handling
            <4> QED BY <2>1, <2>3, <4>1, <4>2, <4>3, SetLockFacts
        <3>3. CASE Recheck(r) /\ Enter(r, "render") /\ UNCHANGED lock
            <4>1. lock[request[r].worker][request[r].key] = r
                BY <3>3 DEF Recheck, LocksAreHeld
            <4> QED BY <2>3, <3>1, <3>3, <4>1, Stages, EnterFacts
        <3>4. CASE Render(r)
            <4>1. lock[request[r].worker][request[r].key] = r /\ UNCHANGED lock
                BY <3>4 DEF Render, LocksAreHeld, Rendering
            <4>2. /\ request'[r].worker = request[r].worker
                  /\ request'[r].key = request[r].key
                BY <1>0, <1>2, <2>3, Moves DEF Idle
            <4> QED BY <2>3, <4>1, <4>2
        <3>5. \/ AcquireLock(r)
              \/ Recheck(r) /\ Enter(r, "render") /\ UNCHANGED lock
              \/ Render(r)
            <4>1. request'[r] # Idle
                BY <1>0, <2>3 DEF Idle
            <4>2. ASSUME NEW stage \in {"queued", "lock", "resume"}, Enter(r, stage)
                  PROVE  FALSE
                BY <1>0, <2>3, <3>1, <4>2, Stages, EnterFacts
            <4>3. ASSUME NEW body \in Body \union {None}, Finish(r, "resume", body)
                  PROVE  FALSE
                BY <1>0, <2>3, <3>1, <4>3, Stages, FinishFacts
            <4>4. ~Become(r, Idle)
                BY <4>1, BecomeFacts
            <4>5. cache[request[r].key] # None => cache[request[r].key].body \in Body
                BY <2>1 DEF TypeOK, Handling, File
            <4> QED BY <1>2, <4>2, <4>3, <4>4, <4>5 DEF Handle, Admit, Refuse, Resume, Reply, Job,
                        Start, Recheck, Fail, Replace
        <3> QED BY <3>2, <3>3, <3>4, <3>5
    <2> QED BY <2>2, <2>3
<1>3. ASSUME NEW w \in Worker, Crash(w)
      PROVE  lock'[request'[q].worker][request'[q].key] = q
    <2>1. request'[q] = request[q] /\ request[q].worker # w
        BY <1>0, <1>3, Crashes
    <2>2. request[q] \in Handling
        BY <1>0, <2>1, StageKinds
    <2>3. lock'[request[q].worker] = lock[request[q].worker]
        BY <1>3, <2>1, <2>2, Crashes DEF Handling, TypeOK
    <2> QED BY <1>0, <2>1, <2>3 DEF LocksAreHeld
<1>4. CASE Publish
    BY <1>4 DEF Publish, server, LocksAreHeld
<1> QED BY <1>1, <1>2, <1>3, <1>4 DEF Next

\* Publishing moves both names on together; a request keeps what it has read.
LEMMA NextReleases ==
    ASSUME IInv, Next
    PROVE  ReleasesAgree'
<1> USE DEF IInv
<1>1. ASSUME NEW r \in Request, NEW w \in Worker, NEW tile \in Tile, Arrive(r, w, tile)
      PROVE  ReleasesAgree'
    BY <1>1, Arrivals DEF ReleasesAgree
<1>2. ASSUME NEW r \in Request, Handle(r) \/ AcquireLock(r) \/ Job(r)
      PROVE  ReleasesAgree'
    <2>1. request[r].stage \in Stage /\ request[r] \in Handling
        BY <1>2, Moves DEF Handling
    <2>2. /\ layer' = layer /\ content' = content
          /\ \A q \in Request : q # r => request'[q] = request[q]
        BY <1>2, Moves
    <2>3. ASSUME request'[r].stage \in Stage
          PROVE  request'[r].key[2] = request'[r].dataset
        BY <1>2, <2>1, <2>3, Moves, Stages DEF ReleasesAgree, Idle
    <2>4. ASSUME request'[r].stage = "replace"
          PROVE  request'[r].body = request'[r].dataset
        <3>1. Render(r)
            <4>1. ASSUME NEW stage \in {"queued", "lock", "recheck", "render", "resume"},
                         Enter(r, stage)
                  PROVE  FALSE
                BY <2>1, <2>4, <4>1, Stages, EnterFacts
            <4>2. ASSUME NEW body \in Body \union {None}, Finish(r, "resume", body)
                  PROVE  FALSE
                BY <2>1, <2>4, <4>2, Stages, FinishFacts
            <4>3. ~Become(r, Idle)
                BY <2>4, BecomeFacts DEF Idle
            <4>4. cache[request[r].key] # None => cache[request[r].key].body \in Body
                BY <2>1 DEF TypeOK, Handling, File
            <4>5. ~Handle(r)
                BY <4>1, <4>3 DEF Handle, Admit, Refuse, Resume, Reply
            <4>6. ~AcquireLock(r) /\ ~Start(r) /\ ~Replace(r)
                BY <4>1 DEF AcquireLock, Start, Replace
            <4>7. ~Recheck(r) /\ ~Fail(r)
                BY <4>1, <4>2, <4>4 DEF Recheck, Fail
            <4> QED BY <1>2, <4>5, <4>6, <4>7 DEF Job
        <3>2. request[r].dataset \in Release
            BY <2>1 DEF Handling
        <3>3. content[request[r].dataset] = request[r].dataset
            BY <3>2 DEF ReleasesAgree
        <3>4. Finish(r, "replace", request[r].dataset) /\ request[r].dataset \in Body \union {None}
            BY <3>1, <3>2, <3>3 DEF Render, Body
        <3> QED BY <2>1, <3>4, Stages, FinishFacts
    <2> QED BY <2>2, <2>3, <2>4 DEF ReleasesAgree
<1>3. ASSUME NEW w \in Worker, Crash(w)
      PROVE  ReleasesAgree'
    BY <1>3, Crashes DEF ReleasesAgree
<1>4. CASE Publish
    BY <1>4 DEF Publish, server, ReleasesAgree
<1> QED BY <1>1, <1>2, <1>3, <1>4 DEF Next

\* What a step may write to the cache.
LEMMA CacheSteps ==
    ASSUME IInv, Next
    PROVE  \/ UNCHANGED cache
           \/ \E r \in Request :
                /\ request[r] \in Handling
                /\ Replace(r)
                /\ cache' = [cache EXCEPT ![request[r].key] =
                                [body |-> request[r].key[2], by |-> request[r].worker]]
<1> USE DEF IInv
<1>1. ASSUME NEW r \in Request, Replace(r)
      PROVE  /\ request[r] \in Handling
             /\ cache' = [cache EXCEPT ![request[r].key] =
                             [body |-> request[r].key[2], by |-> request[r].worker]]
    <2>1. request[r].stage = "replace" /\ request[r].stage \in Stage
        BY <1>1, Stages DEF Replace
    <2>2. request[r].body = request[r].key[2]
        BY <2>1 DEF ReleasesAgree
    <2> QED BY <1>1, <2>1, <2>2, StageKinds DEF Replace
<1>2. ASSUME NEW r \in Request, Handle(r) \/ AcquireLock(r) \/ Job(r), ~Replace(r)
      PROVE  UNCHANGED cache
    BY <1>2 DEF Handle, Admit, Refuse, Resume, Reply, AcquireLock, Job, Start, Recheck,
                Render, Fail
<1>3. ASSUME NEW r \in Request, NEW w \in Worker, NEW tile \in Tile, Arrive(r, w, tile)
      PROVE  UNCHANGED cache
    BY <1>3 DEF Arrive
<1>4. ASSUME NEW w \in Worker, Crash(w)
      PROVE  UNCHANGED cache
    BY <1>4 DEF Crash
<1>5. CASE Publish
    BY <1>5 DEF Publish, server
<1> QED BY <1>1, <1>2, <1>3, <1>4, <1>5 DEF Next, Job

\* A file is written under the release it was rendered from.
LEMMA NextCache ==
    ASSUME IInv, Next
    PROVE  CachedTilesAreTheirRelease'
<1> USE DEF IInv
<1> SUFFICES ASSUME NEW tile \in Tile, NEW release \in Release, cache'[<<tile, release>>] # None
             PROVE  cache'[<<tile, release>>].body = release
    BY DEF CachedTilesAreTheirRelease
<1>1. CASE UNCHANGED cache
    BY <1>1 DEF CachedTilesAreTheirRelease
<1>2. ASSUME NEW r \in Request, request[r] \in Handling,
             cache' = [cache EXCEPT ![request[r].key] =
                          [body |-> request[r].key[2], by |-> request[r].worker]]
      PROVE  cache'[<<tile, release>>].body = release
    <2>1. <<tile, release>> \in Key
        BY DEF Key
    <2>2. CASE request[r].key = <<tile, release>>
        BY <1>2, <2>1, <2>2 DEF TypeOK
    <2>3. CASE request[r].key # <<tile, release>>
        BY <1>2, <2>1, <2>3 DEF TypeOK, CachedTilesAreTheirRelease
    <2> QED BY <2>2, <2>3
<1> QED BY <1>1, <1>2, CacheSteps

\* A job takes its body from the file of its key or from its dataset.
LEMMA NextBodies ==
    ASSUME IInv, Next
    PROVE  BodiesAgree'
<1> USE DEF IInv
<1>1. ASSUME NEW r \in Request, NEW w \in Worker, NEW tile \in Tile, Arrive(r, w, tile)
      PROVE  BodiesAgree'
    BY <1>1, Arrivals DEF BodiesAgree
<1>2. ASSUME NEW r \in Request, Handle(r) \/ AcquireLock(r) \/ Job(r)
      PROVE  BodiesAgree'
    <2>1. request[r] \in Handling /\ request[r].stage \in Stage
        BY <1>2, Moves DEF Handling
    <2>2. /\ request[r].dataset \in Release
          /\ request[r].body \in {None, request[r].dataset}
          /\ {None, request[r].dataset} \subseteq Body \union {None}
        BY <2>1 DEF BodiesAgree, Handling, Body
    <2> SUFFICES ASSUME request'[r].stage \in Stage
                 PROVE  request'[r].body \in {None, request'[r].dataset}
        BY <1>2, Moves DEF BodiesAgree
    <2>3. CASE \E stage \in Stage : Enter(r, stage)
        BY <2>1, <2>2, <2>3, EnterFacts
    <2>4. CASE \E stage \in Stage, body \in {None, request[r].dataset} : Finish(r, stage, body)
        BY <2>1, <2>2, <2>4, FinishFacts
    <2>5. CASE Become(r, Idle)
        BY <2>5, BecomeFacts, Stages DEF Idle
    <2>6. CASE Handle(r)
        BY <2>3, <2>5, <2>6, Stages DEF Handle, Admit, Refuse, Resume, Reply
    <2>7. CASE AcquireLock(r) \/ Start(r) \/ Replace(r)
        BY <2>3, <2>7, Stages DEF AcquireLock, Start, Replace
    <2>8. CASE Render(r)
        <3>1. content[request[r].dataset] = request[r].dataset
            BY <2>2 DEF ReleasesAgree
        <3> QED BY <2>4, <2>8, <3>1, Stages DEF Render
    <2>9. CASE Fail(r)
        BY <2>4, <2>9, Stages DEF Fail
    <2>10. CASE Recheck(r)
        <3>1. PICK tile \in Tile, release \in Release : request[r].key = <<tile, release>>
            BY <2>1 DEF Handling, Key
        <3>2. request[r].dataset = release
            BY <2>1, <3>1 DEF ReleasesAgree
        <3>3. cache[request[r].key] # None => cache[request[r].key].body = request[r].dataset
            BY <3>1, <3>2 DEF CachedTilesAreTheirRelease
        <3> QED BY <2>3, <2>4, <2>10, <3>3, Stages DEF Recheck
    <2> QED BY <1>2, <2>6, <2>7, <2>8, <2>9, <2>10 DEF Job
<1>3. ASSUME NEW w \in Worker, Crash(w)
      PROVE  BodiesAgree'
    BY <1>3, Crashes DEF BodiesAgree
<1>4. CASE Publish
    BY <1>4 DEF Publish, server, BodiesAgree
<1> QED BY <1>1, <1>2, <1>3, <1>4 DEF Next

\* A job that has just begun to render did not find a file under the lock.
LEMMA WhoRenders ==
    ASSUME IInv, Next, NEW q \in Request, request'[q].stage \in Rendering
    PROVE  /\ request'[q].worker = request[q].worker /\ request'[q].key = request[q].key
           /\ request[q] \in Handling
           /\ request[q].stage \in Rendering \/ cache[request[q].key] = None
           /\ ~Replace(q)
<1> USE DEF IInv
<1>0. /\ Rendering \subseteq Stage
      /\ \A stage \in {"idle", "reply", "admit", "queued", "lock", "recheck", "resume"} :
            stage \notin Rendering
    BY DEF Rendering, Stage, Admitted, InThread
<1>1. ASSUME NEW r \in Request, NEW w \in Worker, NEW tile \in Tile, Arrive(r, w, tile)
      PROVE  request'[q] = request[q] /\ UNCHANGED cache
    BY <1>0, <1>1, Arrivals
<1>2. ASSUME NEW w \in Worker, Crash(w)
      PROVE  request'[q] = request[q] /\ UNCHANGED cache
    BY <1>0, <1>2, Crashes
<1>3. Publish => request'[q] = request[q]
    BY DEF Publish, server
<1>4. ASSUME NEW r \in Request, r # q, Handle(r) \/ AcquireLock(r) \/ Job(r)
      PROVE  request'[q] = request[q]
    BY <1>4, Moves
<1>5. CASE request'[q] = request[q]
    <2>1. request[q] \in Handling
        BY <1>0, <1>5, StageKinds
    <2>2. ~Enter(q, "resume")
        BY <1>0, <1>5, <2>1, Stages, EnterFacts DEF Handling
    <2> QED BY <1>5, <2>1, <2>2 DEF Replace
<1>6. CASE Handle(q) \/ AcquireLock(q) \/ Job(q)
    <2>1. request[q] \in Handling /\ request[q].stage \in Stage
        BY <1>6, Moves DEF Handling
    <2>2. request'[q].worker = request[q].worker /\ request'[q].key = request[q].key
        BY <1>0, <1>6, Moves DEF Idle
    <2>3. \A stage \in {"queued", "lock", "recheck", "resume"} : ~Enter(q, stage)
        BY <1>0, <2>1, Stages, EnterFacts
    <2>4. \A body \in Body \union {None} : ~Finish(q, "resume", body)
        BY <1>0, <2>1, Stages, FinishFacts
    <2>5. ~Become(q, Idle)
        BY <1>0, BecomeFacts DEF Idle
    <2>6. cache[request[q].key] # None => cache[request[q].key].body \in Body
        BY <2>1 DEF TypeOK, Handling, File
    <2>7. ~Handle(q) /\ ~AcquireLock(q)
        BY <2>3, <2>5 DEF Handle, Admit, Refuse, Resume, Reply, AcquireLock
    <2>8. ~Start(q) /\ ~Replace(q) /\ ~Fail(q)
        BY <2>3, <2>4 DEF Start, Replace, Fail
    <2>9. Recheck(q) => cache[request[q].key] = None
        BY <2>4, <2>6 DEF Recheck
    <2>10. Render(q) => request[q].stage \in Rendering
        BY DEF Render, Rendering
    <2> QED BY <1>6, <2>1, <2>2, <2>7, <2>8, <2>9, <2>10 DEF Job
<1> QED BY <1>1, <1>2, <1>3, <1>4, <1>5, <1>6 DEF Next

\* Two threads of one worker do not hold one lock, and what a worker renders it has
\* not written since.
LEMMA NextMisses ==
    ASSUME IInv, Next
    PROVE  MissesAreCoalesced'
<1> USE DEF IInv
<1>1. ASSUME NEW q \in Request, request'[q].stage \in Rendering
      PROVE  lock'[request'[q].worker][request'[q].key] = q
    BY <1>1, NextLocks DEF LocksAreHeld
<1> SUFFICES ASSUME NEW w \in Worker, NEW r \in Request,
                    request'[r].stage \in Rendering, request'[r].worker = w,
                    cache'[request'[r].key] # None
             PROVE  cache'[request'[r].key].by # w
    BY <1>1 DEF MissesAreCoalesced, At
<1>2. /\ request[r].worker = w /\ request'[r].key = request[r].key
      /\ request[r] \in Handling
      /\ request[r].stage \in Rendering \/ cache[request[r].key] = None
    BY WhoRenders
<1>3. CASE UNCHANGED cache
    BY <1>2, <1>3 DEF MissesAreCoalesced, At
<1>4. ASSUME NEW q \in Request, request[q] \in Handling, Replace(q),
             cache' = [cache EXCEPT ![request[q].key] =
                          [body |-> request[q].key[2], by |-> request[q].worker]]
      PROVE  cache'[request'[r].key].by # w
    <2>1. q # r
        BY <1>4, WhoRenders
    <2>2. request[r].key \in Key /\ request[q].key \in Key
        BY <1>2, <1>4 DEF Handling
    <2>3. CASE request[q].key # request[r].key
        BY <1>2, <1>4, <2>2, <2>3 DEF TypeOK, MissesAreCoalesced, At
    <2>4. CASE request[q].key = request[r].key
        <3>1. request'[r] = request[r]
            BY <1>4, <2>1, Moves DEF Job
        <3>2. lock[w][request[r].key] = r
            BY <1>2, <3>1 DEF LocksAreHeld
        <3>3. lock[request[q].worker][request[q].key] = q
            BY <1>4 DEF Replace, LocksAreHeld, Rendering
        <3>4. request[q].worker # w
            BY <2>1, <2>4, <3>2, <3>3
        <3> QED BY <1>2, <1>4, <2>2, <2>4, <3>4 DEF TypeOK
    <2> QED BY <2>3, <2>4
<1> QED BY <1>3, <1>4, CacheSteps

\* The admitted requests of a worker are finitely many.
LEMMA AdmittedIsFinite ==
    ASSUME NEW w
    PROVE  IsFiniteSet(At(w, Admitted)) /\ Cardinality(At(w, Admitted)) \in Nat
<1>1. At(w, Admitted) \subseteq Request
    BY DEF At
<1> QED BY <1>1, FS_Subset, FS_CardinalityType, RenderCacheAssumption

\* A job stays admitted until its handler resumes.
LEMMA JobStaysAdmitted ==
    ASSUME TypeOK, NEW r \in Request, AcquireLock(r) \/ Job(r)
    PROVE  /\ request[r].stage \in Admitted /\ request'[r].stage \in Admitted
           /\ UNCHANGED slots
<1>1. request[r].stage \in Admitted /\ UNCHANGED slots
    BY Stages DEF AcquireLock, Job, Start, Recheck, Render, Fail, Replace, Rendering
<1>2. request[r] \in Handling /\ request[r].stage \in Stage
    BY Moves DEF Handling
<1>3. \A stage \in Admitted : Enter(r, stage) => request'[r].stage \in Admitted
    BY <1>2, EnterFacts DEF Stage
<1>4. \A stage \in Admitted, body \in Body \union {None} :
            Finish(r, stage, body) => request'[r].stage \in Admitted
    BY <1>2, FinishFacts DEF Stage
<1>5. cache[request[r].key] # None => cache[request[r].key].body \in Body
    BY <1>2 DEF TypeOK, Handling, File
<1>6. content[request[r].dataset] \in Body
    BY <1>2 DEF TypeOK, Handling, Body
<1>7. AcquireLock(r) \/ Start(r) \/ Replace(r) => request'[r].stage \in Admitted
    BY <1>3, Stages DEF AcquireLock, Start, Replace
<1>8. Recheck(r) => request'[r].stage \in Admitted
    BY <1>3, <1>4, <1>5, Stages DEF Recheck
<1>9. Render(r) \/ Fail(r) => request'[r].stage \in Admitted
    BY <1>4, <1>6, Stages DEF Render, Fail
<1> QED BY <1>1, <1>7, <1>8, <1>9 DEF Job

\* A request that enters or leaves the admitted ones takes or gives back one slot.
LEMMA NextSlots ==
    ASSUME IInv, Next
    PROVE  SlotsAreConserved'
<1> USE DEF IInv
<1> DEFINE admitted(v) == At(v, Admitted)
<1>0. /\ {"idle", "reply", "admit"} \intersect Admitted = {}
      /\ Admitted \subseteq Stage /\ Idle.stage = "idle"
    BY DEF Idle, Stage, Admitted, InThread, Rendering
<1>1. \A v \in Worker : /\ slots[v] \in Nat /\ IsFiniteSet(admitted(v))
                        /\ Cardinality(admitted(v)) \in Nat
                        /\ slots[v] + Cardinality(admitted(v)) = MaxInflight
    BY AdmittedIsFinite, RenderCacheAssumption DEF TypeOK, SlotsAreConserved
<1> SUFFICES ASSUME NEW v \in Worker
             PROVE  slots'[v] + Cardinality(admitted(v)') = MaxInflight
    BY DEF SlotsAreConserved
<1>2. CASE slots' = slots /\ admitted(v)' = admitted(v)
    BY <1>1, <1>2
<1>3. ASSUME NEW r \in Request, NEW w \in Worker, NEW tile \in Tile, Arrive(r, w, tile)
      PROVE  slots' = slots /\ admitted(v)' = admitted(v)
    <2>1. request[r].stage \notin Admitted /\ request'[r].stage \notin Admitted
        BY <1>0, <1>3, Arrivals
    <2> QED BY <1>3, <2>1, Arrivals DEF At
<1>4. ASSUME NEW r \in Request, AcquireLock(r) \/ Job(r)
      PROVE  slots' = slots /\ admitted(v)' = admitted(v)
    <2>1. request'[r].worker = request[r].worker
        BY <1>0, <1>4, JobStaysAdmitted, Moves
    <2> QED BY <1>4, <2>1, JobStaysAdmitted, Moves DEF At
<1>5. ASSUME NEW r \in Request, Refuse(r) \/ Reply(r)
      PROVE  slots' = slots /\ admitted(v)' = admitted(v)
    <2>1. request[r].stage \notin Admitted /\ slots' = slots
        BY <1>0, <1>5 DEF Refuse, Reply
    <2>2. request'[r].stage \notin Admitted
        BY <1>0, <1>5, BecomeFacts DEF Refuse, Reply
    <2> QED BY <1>5, <2>1, <2>2, Moves DEF Handle, At
<1>6. ASSUME NEW r \in Request, Admit(r)
      PROVE  slots'[v] + Cardinality(admitted(v)') = MaxInflight
    <2>1. request[r] \in Handling /\ request[r].stage \in Stage
        BY <1>6, Moves DEF Handle, Handling
    <2>2. /\ request'[r].stage \in Admitted /\ request'[r].worker = request[r].worker
          /\ \A q \in Request : q # r => request'[q] = request[q]
        BY <1>6, <2>1, EnterFacts, Stages DEF Admit
    <2>3. request[r].stage \notin Admitted
        BY <1>0, <1>6 DEF Admit
    <2>4. CASE v = request[r].worker
        <3>1. admitted(v)' = admitted(v) \union {r} /\ r \notin admitted(v)
            BY <2>2, <2>3, <2>4 DEF At
        <3>2. slots'[v] = slots[v] - 1
            BY <1>6, <2>4 DEF Admit, TypeOK
        <3> HIDE DEF admitted
        <3>3. Cardinality(admitted(v)') = Cardinality(admitted(v)) + 1
            BY <1>1, <3>1, FS_AddElement
        <3> QED BY <1>1, <3>2, <3>3, RenderCacheAssumption
    <2>5. CASE v # request[r].worker
        <3>1. admitted(v)' = admitted(v)
            BY <2>2, <2>5 DEF At
        <3>2. slots'[v] = slots[v]
            BY <1>6, <2>5 DEF Admit, TypeOK
        <3> QED BY <1>1, <3>1, <3>2
    <2> QED BY <2>4, <2>5
<1>7. ASSUME NEW r \in Request, Resume(r)
      PROVE  slots'[v] + Cardinality(admitted(v)') = MaxInflight
    <2>1. request[r] \in Handling /\ request[r].stage \in Admitted
        BY <1>7, Moves, Stages DEF Handle, Resume
    <2>2. /\ request'[r].stage \notin Admitted
          /\ \A q \in Request : q # r => request'[q] = request[q]
        BY <1>0, <1>7, BecomeFacts DEF Resume
    <2>3. CASE v = request[r].worker
        <3>1. admitted(v)' = admitted(v) \ {r} /\ r \in admitted(v)
            BY <2>1, <2>2, <2>3 DEF At
        <3>2. slots'[v] = slots[v] + 1
            BY <1>7, <2>3 DEF Resume, TypeOK
        <3> HIDE DEF admitted
        <3>3. Cardinality(admitted(v)') = Cardinality(admitted(v)) - 1
            BY <1>1, <3>1, FS_RemoveElement
        <3> QED BY <1>1, <3>2, <3>3, RenderCacheAssumption
    <2>4. CASE v # request[r].worker
        <3>1. admitted(v)' = admitted(v)
            BY <2>2, <2>4 DEF At
        <3>2. slots'[v] = slots[v]
            BY <1>7, <2>4 DEF Resume, TypeOK
        <3> QED BY <1>1, <3>1, <3>2
    <2> QED BY <2>3, <2>4
<1>8. ASSUME NEW w \in Worker, Crash(w)
      PROVE  slots'[v] + Cardinality(admitted(v)') = MaxInflight
    <2>1. CASE v = w
        <3>1. admitted(v)' = {}
            BY <1>0, <1>8, <2>1, Crashes DEF At
        <3>2. slots'[v] = MaxInflight
            BY <1>8, <2>1, Crashes DEF TypeOK
        <3> QED BY <3>1, <3>2, FS_EmptySet, RenderCacheAssumption
    <2>2. CASE v # w
        <3>1. admitted(v)' = admitted(v)
            BY <1>0, <1>8, <2>2, Crashes DEF At
        <3>2. slots'[v] = slots[v]
            BY <1>8, <2>2, Crashes DEF TypeOK
        <3> QED BY <1>1, <3>1, <3>2
    <2> QED BY <2>1, <2>2
<1>9. Publish => slots' = slots /\ admitted(v)' = admitted(v)
    BY DEF Publish, server, At
<1> HIDE DEF admitted
<1> QED BY <1>2, <1>3, <1>4, <1>5, <1>6, <1>7, <1>8, <1>9 DEF Next, Handle

\* Each operation assigns values of the right kind.
LEMMA NextType ==
    ASSUME IInv, Next
    PROVE  TypeOK'
<1> USE DEF IInv
<1>1. request' \in [Request -> {Idle} \union Handling]
    <2>1. Publish => UNCHANGED request
        BY DEF Publish, server
    <2> QED BY <2>1, Arrivals, Moves, Crashes DEF Next, TypeOK
<1>2. layer' \in [dataset : Release, release : Release] /\ content' \in [Release -> Release]
    <2>1. CASE UNCHANGED <<layer, content>>
        BY <2>1 DEF TypeOK
    <2>2. CASE Publish
        <3>1. layer.release \in Release
            BY DEF TypeOK
        <3>2. layer.release + 1 \in Release
            BY <2>2, <3>1, RenderCacheAssumption DEF Publish, Release
        <3> QED BY <2>2, <3>2 DEF Publish, TypeOK
    <2> QED BY <2>1, <2>2, Arrivals, Moves, Crashes DEF Next
<1>3. cache' \in [Key -> File]
    <2>1. ASSUME NEW r \in Request, request[r] \in Handling,
                 cache' = [cache EXCEPT ![request[r].key] =
                              [body |-> request[r].key[2], by |-> request[r].worker]]
          PROVE  cache' \in [Key -> File]
        <3>1. request[r].key[2] \in Body /\ request[r].worker \in Worker
            BY <2>1 DEF Handling, Key, Body
        <3>2. [body |-> request[r].key[2], by |-> request[r].worker] \in File
            BY <3>1 DEF File
        <3> QED BY <2>1, <3>2 DEF TypeOK
    <2> QED BY <2>1, CacheSteps DEF TypeOK
<1>4. slots' \in [Worker -> Nat]
    <2>1. slots \in [Worker -> Nat] /\ MaxInflight \in Nat
        BY RenderCacheAssumption DEF TypeOK
    <2>2. ASSUME NEW r \in Request, AcquireLock(r) \/ Job(r) \/ Refuse(r) \/ Reply(r)
          PROVE  slots' \in [Worker -> Nat]
        BY <2>1, <2>2, JobStaysAdmitted DEF Refuse, Reply
    <2>3. ASSUME NEW r \in Request, Admit(r)
          PROVE  slots' \in [Worker -> Nat]
        <3>1. slots[request[r].worker] > 0 /\ request[r].worker \in Worker
            BY <2>3, Moves DEF Handle, Admit, Handling
        <3>2. slots[request[r].worker] - 1 \in Nat
            BY <2>1, <3>1
        <3> QED BY <2>1, <2>3, <3>2 DEF Admit
    <2>4. ASSUME NEW r \in Request, Resume(r)
          PROVE  slots' \in [Worker -> Nat]
        <3>1. request[r].worker \in Worker
            BY <2>4, Moves DEF Handle, Handling
        <3>2. slots[request[r].worker] + 1 \in Nat
            BY <2>1, <3>1
        <3> QED BY <2>1, <2>4, <3>2 DEF Resume
    <2>5. Publish => UNCHANGED slots
        BY DEF Publish, server
    <2> QED BY <2>1, <2>2, <2>3, <2>4, <2>5, Arrivals, Crashes DEF Next, Handle
<1>5. slots' \in [Worker -> 0 .. MaxInflight]
    \* The jobs that are admitted take up the rest.
    <2>1. ASSUME NEW w \in Worker
          PROVE  slots'[w] \in 0 .. MaxInflight
        <3>1. slots'[w] \in Nat /\ slots'[w] + Cardinality(At(w, Admitted))' = MaxInflight
            BY <1>4, NextSlots DEF SlotsAreConserved
        <3>2. At(w, Admitted)' \subseteq Request
            BY DEF At
        <3>3. Cardinality(At(w, Admitted))' \in Nat
            BY <3>2, FS_Subset, FS_CardinalityType, RenderCacheAssumption
        <3> QED BY <3>1, <3>3, RenderCacheAssumption
    <2> QED BY <1>4, <2>1
<1>6. queue' \in [Worker -> Seq(Request)]
    <2>1. ASSUME NEW r \in Request, Admit(r)
          PROVE  queue' \in [Worker -> Seq(Request)]
        <3>1. request[r].worker \in Worker
            BY <2>1, Moves DEF Handle, Handling
        <3>2. Append(queue[request[r].worker], r) \in Seq(Request)
            BY <3>1 DEF TypeOK
        <3> QED BY <2>1, <3>2 DEF Admit, TypeOK
    <2>2. ASSUME NEW r \in Request, Start(r)
          PROVE  queue' \in [Worker -> Seq(Request)]
        <3>1. request[r].worker \in Worker
            BY <2>2, Moves DEF Job, Handling
        <3>2. Tail(queue[request[r].worker]) \in Seq(Request)
            BY <2>2, <3>1 DEF Start, TypeOK
        <3> QED BY <2>2, <3>2 DEF Start, TypeOK
    <2>3. ASSUME NEW r \in Request, Handle(r) \/ AcquireLock(r) \/ Job(r),
                 ~Admit(r), ~Start(r)
          PROVE  UNCHANGED queue
        BY <2>3 DEF Handle, Refuse, Resume, Reply, AcquireLock, Job, Recheck, Render, Fail,
                    Replace
    <2>4. ASSUME NEW w \in Worker, Crash(w)
          PROVE  queue' \in [Worker -> Seq(Request)]
        BY <2>4 DEF Crash, TypeOK
    <2>5. Publish => UNCHANGED queue
        BY DEF Publish, server
    <2> QED BY <2>1, <2>2, <2>3, <2>4, <2>5, Arrivals DEF Next, TypeOK
<1>7. lock' \in [Worker -> [Key -> Request \union {None}]]
    <2>1. ASSUME NEW r \in Request, request[r] \in Handling,
                 NEW holder \in Request \union {None}, SetLock(r, holder)
          PROVE  lock' \in [Worker -> [Key -> Request \union {None}]]
        <3>1. request[r].worker \in Worker /\ request[r].key \in Key
            BY <2>1 DEF Handling
        <3>2. [lock[request[r].worker] EXCEPT ![request[r].key] = holder]
                    \in [Key -> Request \union {None}]
            BY <3>1 DEF TypeOK
        <3> QED BY <2>1, <3>1, <3>2 DEF SetLock, TypeOK
    <2>2. ASSUME NEW r \in Request, Handle(r) \/ AcquireLock(r) \/ Job(r)
          PROVE  UNCHANGED lock \/ \E holder \in Request \union {None} : SetLock(r, holder)
        BY <2>2 DEF Handle, Admit, Refuse, Resume, Reply, AcquireLock, Job, Start, Recheck,
                    Render, Fail, Replace
    <2>3. ASSUME NEW w \in Worker, Crash(w)
          PROVE  lock' \in [Worker -> [Key -> Request \union {None}]]
        <3>1. [k \in Key |-> None] \in [Key -> Request \union {None}]
            OBVIOUS
        <3> QED BY <2>3, <3>1 DEF Crash, TypeOK
    <2>4. Publish => UNCHANGED lock
        BY DEF Publish, server
    <2>5. ASSUME NEW r \in Request, Handle(r) \/ AcquireLock(r) \/ Job(r)
          PROVE  lock' \in [Worker -> [Key -> Request \union {None}]]
        BY <2>1, <2>2, <2>5, Moves DEF TypeOK
    <2> QED BY <2>3, <2>4, <2>5, Arrivals DEF Next, TypeOK
<1>8. crashes' \in 0 .. MaxCrashes
    <2>1. ASSUME NEW w \in Worker, Crash(w)
          PROVE  crashes' \in 0 .. MaxCrashes
        BY <2>1, RenderCacheAssumption DEF Crash, TypeOK
    <2>2. Publish => UNCHANGED crashes
        BY DEF Publish
    <2> QED BY <2>1, <2>2, Arrivals, Moves DEF Next, TypeOK
<1> QED BY <1>1, <1>2, <1>3, <1>5, <1>6, <1>7, <1>8 DEF TypeOK
-----------------------------------------------------------------------------
(***************************************************************************)
(* The inductive invariant, and what it implies.                           *)
(***************************************************************************)

\* The service starts with no request, an empty cache and all its slots.
LEMMA InitIInv ==
    ASSUME Init
    PROVE  IInv
<1> USE DEF Init
<1>1. \A r \in Request : request[r] = Idle /\ request[r].stage \notin Stage
    BY Stages DEF Idle
<1>2. Rendering \subseteq Stage /\ "recheck" \in Stage /\ Admitted \subseteq Stage
    BY DEF Stage, Admitted, InThread
<1>3. TypeOK
    <2>1. 1 \in Release
        BY RenderCacheAssumption DEF Release
    <2>2. /\ layer \in [dataset : Release, release : Release]
          /\ content \in [Release -> Release]
          /\ cache \in [Key -> File]
        BY <2>1 DEF File
    <2>3. /\ slots \in [Worker -> 0 .. MaxInflight]
          /\ queue \in [Worker -> Seq(Request)]
          /\ lock \in [Worker -> [Key -> Request \union {None}]]
        BY RenderCacheAssumption
    <2>4. crashes \in 0 .. MaxCrashes
        BY RenderCacheAssumption
    <2> QED BY <2>2, <2>3, <2>4 DEF TypeOK
<1>4. LocksAreHeld
    BY <1>1, <1>2 DEF LocksAreHeld
<1>5. ReleasesAgree /\ BodiesAgree
    BY <1>1 DEF ReleasesAgree, BodiesAgree
<1>6. CachedTilesAreTheirRelease
    BY DEF CachedTilesAreTheirRelease, Key
<1>7. MissesAreCoalesced
    BY <1>1, <1>2 DEF MissesAreCoalesced, At
<1>8. SlotsAreConserved
    <2>1. \A w \in Worker : At(w, Admitted) = {}
        BY <1>1, <1>2 DEF At
    <2>2. \A w \in Worker : slots[w] + 0 = MaxInflight
        BY RenderCacheAssumption
    <2>3. Cardinality({}) = 0
        BY FS_EmptySet
    <2> QED BY <2>1, <2>2, <2>3 DEF SlotsAreConserved
<1> QED BY <1>3, <1>4, <1>5, <1>6, <1>7, <1>8 DEF IInv

\* A step that changes nothing changes no part of the invariant.
LEMMA StutterIInv ==
    ASSUME IInv, UNCHANGED vars
    PROVE  IInv'
BY DEF IInv, vars, server, TypeOK, LocksAreHeld, ReleasesAgree, BodiesAgree,
       CachedTilesAreTheirRelease, MissesAreCoalesced, SlotsAreConserved, At

\* The invariant is inductive.
THEOREM Invariant == Spec => []IInv
<1>1. IInv /\ [Next]_vars => IInv'
    <2>1. CASE IInv /\ Next
        BY <2>1, NextType, NextLocks, NextReleases, NextBodies, NextCache, NextMisses,
           NextSlots DEF IInv
    <2> QED BY <2>1, StutterIInv
<1> QED BY <1>1, InitIInv, PTL DEF Spec

\* Every variable keeps its type: slots stay between zero and the admission limit,
\* and a lock is held by a request or by nobody.
THEOREM TypeCorrect == Spec => []TypeOK
<1>1. IInv => TypeOK
    BY DEF IInv
<1> QED BY <1>1, Invariant, PTL

\* rendered_tile: a slot that is acquired is released exactly once, whatever the job
\* does, and a worker never has more jobs than its admission limit.
THEOREM BackPressure == Spec => []SlotsAreConserved
<1>1. IInv => SlotsAreConserved
    BY DEF IInv
<1> QED BY <1>1, Invariant, PTL

\* _load_render_and_cache: in one process no two threads render one key, and no key is
\* rendered again by the process that has cached it.
THEOREM Coalescing == Spec => []MissesAreCoalesced
<1>1. IInv => MissesAreCoalesced
    BY DEF IInv
<1> QED BY <1>1, Invariant, PTL

\* rendered_tile and _load_render_and_cache: a reply is an error or the tile of the
\* dataset that layers.json named when the request came, whatever is published meanwhile.
THEOREM HonestReplies == Spec => []RepliesAreTheirRelease
<1>1. IInv => RepliesAreTheirRelease
    BY Stages DEF IInv, BodiesAgree, RepliesAreTheirRelease
<1> QED BY <1>1, Invariant, PTL

\* No client is sent part of a file.
NobodyGetsATornTile ==
    \A r \in Request : request[r].stage \in {"reply", "resume"} => request[r].body # Torn

\* The temporary file and os.replace: no reply is part of a file, whoever is killed.
THEOREM WholeTiles == Spec => []NobodyGetsATornTile
<1>1. IInv => NobodyGetsATornTile
    <2> SUFFICES ASSUME IInv, NEW r \in Request, request[r].stage \in {"reply", "resume"}
                 PROVE  request[r].body # Torn
        BY DEF NobodyGetsATornTile
    <2>1. request[r].stage \in Stage
        BY Stages
    <2>2. request[r].dataset \in Nat
        BY <2>1, StageKinds DEF IInv, Handling, Release
    <2> QED BY <2>1, <2>2, RenderCacheAssumption DEF IInv, BodiesAgree
<1> QED BY <1>1, Invariant, PTL

\* cache_key: every file of the cache holds the release its key names.
THEOREM CacheIdentity == Spec => []CachedTilesAreTheirRelease
<1>1. IInv => CachedTilesAreTheirRelease
    BY DEF IInv
<1> QED BY <1>1, Invariant, PTL
-----------------------------------------------------------------------------
(***************************************************************************)
(* Nobody waits for ever on somebody who does not run: the bookkeeping of  *)
(* the threads, the queues and the locks, and what it says of waiting.     *)
(***************************************************************************)

\* A lock that is held is held by a job of this worker for this key, past the lock.
LocksHaveHolders ==
    \A w \in Worker, k \in Key : lock[w][k] # None =>
        /\ lock[w][k] \in At(w, {"recheck"} \union Rendering)
        /\ request[lock[w][k]].key = k

\* A worker's queue holds its queued jobs, each of them once.
QueuesArePending ==
    \A w \in Worker :
        /\ \A i \in 1 .. Len(queue[w]) : queue[w][i] \in At(w, {"queued"})
        /\ \A r \in At(w, {"queued"}) : \E i \in 1 .. Len(queue[w]) : queue[w][i] = r
        /\ \A i, j \in 1 .. Len(queue[w]) : queue[w][i] = queue[w][j] => i = j

\* No more jobs are in a thread than the pool has threads.
ThreadsAreEnough == \A w \in Worker : Cardinality(At(w, InThread)) <= Threads

Pools == LocksHaveHolders /\ QueuesArePending /\ ThreadsAreEnough

\* What a step of a handler or a job does to its stage, its queue and its lock.
LEMMA Transitions ==
    ASSUME TypeOK, NEW r \in Request, Handle(r) \/ AcquireLock(r) \/ Job(r)
    PROVE  LET w == request[r].worker IN
           \/ /\ request[r].stage \in {"admit", "resume", "reply"} /\ request'[r] = Idle
              /\ UNCHANGED <<queue, lock>>
           \/ /\ request[r].stage = "admit" /\ request'[r].stage = "queued"
              /\ request'[r].worker = w /\ request'[r].key = request[r].key
              /\ queue' = [queue EXCEPT ![w] = Append(@, r)] /\ UNCHANGED lock
           \/ /\ request[r].stage = "queued" /\ request'[r].stage = "lock"
              /\ request'[r].worker = w /\ request'[r].key = request[r].key
              /\ queue[w] # <<>> /\ Head(queue[w]) = r /\ Cardinality(At(w, InThread)) < Threads
              /\ queue' = [queue EXCEPT ![w] = Tail(@)] /\ UNCHANGED lock
           \/ /\ request[r].stage = "lock" /\ request'[r].stage = "recheck"
              /\ request'[r].worker = w /\ request'[r].key = request[r].key
              /\ lock[w][request[r].key] = None /\ SetLock(r, r) /\ UNCHANGED queue
           \/ /\ request[r].stage \in {"recheck", "render"} /\ request'[r].stage \in Rendering
              /\ request'[r].worker = w /\ request'[r].key = request[r].key
              /\ UNCHANGED <<queue, lock>>
           \/ /\ request[r].stage \in {"recheck"} \union Rendering
              /\ request'[r].stage = "resume"
              /\ request'[r].worker = w /\ request'[r].key = request[r].key
              /\ SetLock(r, None) /\ UNCHANGED queue
<1>1. request[r] \in Handling /\ request[r].stage \in Stage
    BY Moves DEF Handling
<1>2. cache[request[r].key] # None => cache[request[r].key].body \in Body \union {None}
    BY <1>1 DEF TypeOK, Handling, File
<1>3. content[request[r].dataset] \in Body \union {None}
    BY <1>1 DEF TypeOK, Handling, Body
<1>4. \A stage \in Stage : Enter(r, stage) =>
            /\ request'[r].stage = stage
            /\ request'[r].worker = request[r].worker /\ request'[r].key = request[r].key
    BY <1>1, EnterFacts
<1>5. \A stage \in Stage, body \in Body \union {None} : Finish(r, stage, body) =>
            /\ request'[r].stage = stage
            /\ request'[r].worker = request[r].worker /\ request'[r].key = request[r].key
    BY <1>1, FinishFacts
<1>6. CASE Refuse(r) \/ Resume(r) \/ Reply(r)
    BY <1>6, BecomeFacts DEF Refuse, Resume, Reply
<1>7. CASE Admit(r)
    BY <1>4, <1>7, Stages DEF Admit
<1>8. CASE Start(r)
    BY <1>4, <1>8, Stages DEF Start
<1>9. CASE AcquireLock(r)
    BY <1>4, <1>9, Stages DEF AcquireLock
<1>10. CASE Recheck(r)
    BY <1>2, <1>4, <1>5, <1>10, Stages DEF Recheck, Rendering
<1>11. CASE Render(r)
    BY <1>3, <1>5, <1>11, Stages DEF Render, Rendering
<1>12. CASE Fail(r)
    BY <1>5, <1>12, Stages DEF Fail, Rendering
<1>13. CASE Replace(r)
    BY <1>4, <1>13, Stages DEF Replace, Rendering
<1> QED BY <1>6, <1>7, <1>8, <1>9, <1>10, <1>11, <1>12, <1>13 DEF Handle, Job

\* The holder of a lock keeps it until it gives it back, and no one holds it in between.
LEMMA NextHolders ==
    ASSUME IInv, LocksHaveHolders, Next
    PROVE  LocksHaveHolders'
<1> USE DEF IInv
<1> DEFINE holds == {"recheck"} \union Rendering
<1>0. /\ holds \subseteq Stage /\ "idle" \notin holds
      /\ "lock" \notin holds /\ "queued" \notin holds
      /\ "admit" \notin holds /\ "resume" \notin holds /\ "reply" \notin holds
    BY DEF Rendering, InThread, Admitted, Stage
<1> SUFFICES ASSUME NEW w \in Worker, NEW k \in Key, lock'[w][k] # None
             PROVE  /\ lock'[w][k] \in At(w, holds)'
                    /\ request'[lock'[w][k]].key = k
    BY DEF LocksHaveHolders
<1>1. lock[w][k] # None => /\ lock[w][k] \in Request /\ request[lock[w][k]].stage \in holds
                           /\ request[lock[w][k]].worker = w
                           /\ request[lock[w][k]].key = k
    BY DEF LocksHaveHolders, At
<1> DEFINE q == lock[w][k]
<1>2. CASE lock'[w][k] = q /\ request'[q] = request[q]
    BY <1>1, <1>2 DEF At
<1>3. ASSUME NEW r \in Request, NEW v \in Worker, NEW tile \in Tile, Arrive(r, v, tile)
      PROVE  lock'[w][k] = q /\ request'[q] = request[q]
    <2>1. lock' = lock /\ request[r] = Idle /\ \A p \in Request : p # r => request'[p] = request[p]
        BY <1>3, Arrivals
    <2>2. q # r
        BY <1>0, <1>1, <2>1 DEF Idle
    <2> QED BY <1>1, <2>1, <2>2
<1>4. CASE UNCHANGED <<lock, request>>
    BY <1>2, <1>4
<1>5. ASSUME NEW v \in Worker, Crash(v)
      PROVE  lock'[w][k] = q /\ request'[q] = request[q]
    <2>1. w # v
        BY <1>5, Crashes DEF TypeOK
    <2>2. lock'[w][k] = q
        BY <1>5, <2>1, Crashes DEF TypeOK
    <2> QED BY <1>1, <1>5, <2>1, <2>2, Crashes
<1>6. ASSUME NEW r \in Request, Handle(r) \/ AcquireLock(r) \/ Job(r)
      PROVE  /\ lock'[w][k] \in At(w, holds)'
             /\ request'[lock'[w][k]].key = k
    <2>1. /\ request[r] \in Handling
          /\ \A p \in Request : p # r => request'[p] = request[p]
        BY <1>6, Moves
    <2>2. ASSUME UNCHANGED lock, request[r].stage \notin holds
          PROVE  lock'[w][k] = q /\ request'[q] = request[q]
        BY <1>1, <2>1, <2>2
    <2>3. ASSUME SetLock(r, r), request'[r].stage = "recheck",
                 request'[r].worker = request[r].worker, request'[r].key = request[r].key,
                 request[r].stage = "lock"
          PROVE  /\ lock'[w][k] \in At(w, holds)'
                 /\ request'[lock'[w][k]].key = k
        <3>1. CASE w = request[r].worker /\ k = request[r].key
            <4>1. lock'[w][k] = r
                BY <2>1, <2>3, <3>1, SetLockFacts
            <4> QED BY <2>3, <3>1, <4>1 DEF At
        <3>2. CASE ~(w = request[r].worker /\ k = request[r].key)
            <4>1. lock'[w][k] = q
                BY <2>1, <2>3, <3>2, SetLockFacts
            <4>2. q # r
                BY <1>0, <1>1, <2>3, <4>1
            <4> QED BY <1>1, <1>2, <2>1, <4>1, <4>2
        <3> QED BY <3>1, <3>2
    <2>4. ASSUME SetLock(r, None), request[r].stage \in holds
          PROVE  lock'[w][k] = q /\ request'[q] = request[q]
        <3>1. ~(w = request[r].worker /\ k = request[r].key)
            BY <2>1, <2>4, SetLockFacts
        <3>2. lock'[w][k] = q
            BY <2>1, <2>4, <3>1, SetLockFacts
        <3>3. q # r
            BY <1>1, <3>1, <3>2
        <3> QED BY <1>1, <2>1, <3>2, <3>3
    <2>5. ASSUME UNCHANGED lock, request'[r].stage \in Rendering,
                 request'[r].worker = request[r].worker, request'[r].key = request[r].key
          PROVE  /\ lock'[w][k] \in At(w, holds)'
                 /\ request'[lock'[w][k]].key = k
        <3>1. CASE q = r
            BY <1>1, <2>5, <3>1 DEF At
        <3>2. CASE q # r
            BY <1>1, <1>2, <2>1, <2>5, <3>2
        <3> QED BY <3>1, <3>2
    <2> QED BY <1>0, <1>2, <1>6, <2>2, <2>3, <2>4, <2>5, Transitions
<1>7. Publish => UNCHANGED <<lock, request>>
    BY DEF Publish, server
<1> QED BY <1>2, <1>3, <1>4, <1>5, <1>6, <1>7 DEF Next

\* A job is put into its worker's queue when it is admitted and taken out by a thread.
LEMMA NextQueues ==
    ASSUME IInv, QueuesArePending, Next
    PROVE  QueuesArePending'
<1> USE DEF IInv
<1> SUFFICES ASSUME NEW w \in Worker
             PROVE  /\ \A i \in 1 .. Len(queue'[w]) : queue'[w][i] \in At(w, {"queued"})'
                    /\ \A r \in At(w, {"queued"})' :
                            \E i \in 1 .. Len(queue'[w]) : queue'[w][i] = r
                    /\ \A i, j \in 1 .. Len(queue'[w]) : queue'[w][i] = queue'[w][j] => i = j
    BY DEF QueuesArePending
<1>1. /\ queue[w] \in Seq(Request)
      /\ \A i \in 1 .. Len(queue[w]) : queue[w][i] \in At(w, {"queued"})
      /\ \A r \in At(w, {"queued"}) : \E i \in 1 .. Len(queue[w]) : queue[w][i] = r
      /\ \A i, j \in 1 .. Len(queue[w]) : queue[w][i] = queue[w][j] => i = j
    BY DEF TypeOK, QueuesArePending
<1>2. CASE queue'[w] = queue[w] /\ At(w, {"queued"})' = At(w, {"queued"})
    BY <1>1, <1>2
<1>3. ASSUME NEW r \in Request, NEW v \in Worker, NEW tile \in Tile, Arrive(r, v, tile)
      PROVE  queue'[w] = queue[w] /\ At(w, {"queued"})' = At(w, {"queued"})
    <2>1. /\ queue' = queue /\ request[r].stage = "idle"
          /\ request'[r].stage \in {"reply", "admit"}
          /\ \A p \in Request : p # r => request'[p] = request[p]
        BY <1>3, Arrivals DEF Idle
    <2> QED BY <2>1 DEF At
<1>4. ASSUME NEW v \in Worker, Crash(v), v # w
      PROVE  queue'[w] = queue[w] /\ At(w, {"queued"})' = At(w, {"queued"})
    <2>1. queue'[w] = queue[w]
        BY <1>4 DEF Crash, TypeOK
    <2>2. \A p \in Request : request'[p].stage = "queued" =>
                request'[p] = request[p] /\ request[p].worker # v
        BY <1>4, Crashes, Stages
    <2>3. \A p \in Request : request[p].worker # v => request'[p] = request[p]
        BY <1>4, Crashes
    <2> QED BY <1>4, <2>1, <2>2, <2>3 DEF At
<1>5. ASSUME Crash(w)
      PROVE  queue'[w] = <<>> /\ At(w, {"queued"})' = {}
    <2>1. queue'[w] = <<>>
        BY <1>5 DEF Crash, TypeOK
    <2>2. \A p \in Request : request'[p].stage = "queued" => request'[p].worker # w
        BY <1>5, Crashes, Stages
    <2> QED BY <2>1, <2>2 DEF At
<1>6. ASSUME NEW r \in Request, Handle(r) \/ AcquireLock(r) \/ Job(r)
      PROVE  \/ queue'[w] = queue[w] /\ At(w, {"queued"})' = At(w, {"queued"})
             \/ /\ queue'[w] = Append(queue[w], r) /\ r \notin At(w, {"queued"})
                /\ At(w, {"queued"})' = At(w, {"queued"}) \union {r}
             \/ /\ queue[w] # <<>> /\ Head(queue[w]) = r
                /\ queue'[w] = Tail(queue[w]) /\ At(w, {"queued"})' = At(w, {"queued"}) \ {r}
    <2>1. /\ request[r] \in Handling
          /\ \A p \in Request : p # r => request'[p] = request[p]
        BY <1>6, Moves
    <2>2. CASE /\ UNCHANGED queue
               /\ request[r].stage # "queued"
               /\ request'[r] = Idle \/ request'[r].stage # "queued"
        BY <2>1, <2>2 DEF At, Idle
    <2>3. CASE /\ request[r].stage = "admit" /\ request'[r].stage = "queued"
               /\ request'[r].worker = request[r].worker
               /\ queue' = [queue EXCEPT ![request[r].worker] = Append(@, r)]
        <3>1. CASE w = request[r].worker
            BY <2>1, <2>3, <3>1 DEF At, TypeOK
        <3>2. CASE w # request[r].worker
            BY <2>1, <2>3, <3>2 DEF At, TypeOK
        <3> QED BY <3>1, <3>2
    <2>4. CASE /\ request[r].stage = "queued" /\ request'[r].stage = "lock"
               /\ request'[r].worker = request[r].worker
               /\ queue[request[r].worker] # <<>> /\ Head(queue[request[r].worker]) = r
               /\ queue' = [queue EXCEPT ![request[r].worker] = Tail(@)]
        <3>1. CASE w = request[r].worker
            BY <2>1, <2>4, <3>1 DEF At, TypeOK
        <3>2. CASE w # request[r].worker
            BY <2>1, <2>4, <3>2 DEF At, TypeOK
        <3> QED BY <3>1, <3>2
    <2> QED BY <1>6, <2>2, <2>3, <2>4, Transitions DEF Rendering
<1>7. ASSUME NEW r \in Request, queue'[w] = Append(queue[w], r), r \notin At(w, {"queued"}),
             At(w, {"queued"})' = At(w, {"queued"}) \union {r}
      PROVE  /\ \A i \in 1 .. Len(queue'[w]) : queue'[w][i] \in At(w, {"queued"})'
             /\ \A q \in At(w, {"queued"})' : \E i \in 1 .. Len(queue'[w]) : queue'[w][i] = q
             /\ \A i, j \in 1 .. Len(queue'[w]) : queue'[w][i] = queue'[w][j] => i = j
    <2> DEFINE n == Len(queue[w])
    <2>1. /\ n \in Nat /\ Len(queue'[w]) = n + 1 /\ queue'[w][n + 1] = r
          /\ \A i \in 1 .. n : queue'[w][i] = queue[w][i]
        BY <1>1, <1>7
    <2>2. \A i \in 1 .. n : queue[w][i] # r
        BY <1>1, <1>7
    <2>3. \A q \in At(w, {"queued"}) : \E i \in 1 .. n : queue'[w][i] = q
        BY <1>1, <2>1
    <2> HIDE DEF n
    <2>4. \A i \in 1 .. n + 1 : i \in 1 .. n \/ i = n + 1
        BY <2>1
    <2>5. 1 .. n \subseteq 1 .. n + 1 /\ n + 1 \in 1 .. n + 1
        BY <2>1
    <2>6. \A i \in 1 .. n : queue[w][i] \in At(w, {"queued"})
        BY <1>1 DEF n
    <2>7. \A i, j \in 1 .. n : queue[w][i] = queue[w][j] => i = j
        BY <1>1 DEF n
    <2> QED BY <1>7, <2>1, <2>2, <2>3, <2>4, <2>5, <2>6, <2>7
<1>8. ASSUME NEW r \in Request, queue[w] # <<>>, Head(queue[w]) = r,
             queue'[w] = Tail(queue[w]), At(w, {"queued"})' = At(w, {"queued"}) \ {r}
      PROVE  /\ \A i \in 1 .. Len(queue'[w]) : queue'[w][i] \in At(w, {"queued"})'
             /\ \A q \in At(w, {"queued"})' : \E i \in 1 .. Len(queue'[w]) : queue'[w][i] = q
             /\ \A i, j \in 1 .. Len(queue'[w]) : queue'[w][i] = queue'[w][j] => i = j
    <2> DEFINE n == Len(queue[w])
    <2>1. /\ n \in Nat \ {0} /\ Len(queue'[w]) = n - 1 /\ queue[w][1] = r
          /\ \A i \in 1 .. n - 1 : queue'[w][i] = queue[w][i + 1]
        BY <1>1, <1>8
    <2> HIDE DEF n
    <2>2. \A i \in 1 .. n : queue[w][i] \in At(w, {"queued"})
        BY <1>1 DEF n
    <2>3. \A i, j \in 1 .. n : queue[w][i] = queue[w][j] => i = j
        BY <1>1 DEF n
    <2>4. \A q \in At(w, {"queued"}) : \E i \in 1 .. n : queue[w][i] = q
        BY <1>1 DEF n
    <2>5. \A i \in 1 .. n - 1 : i + 1 \in 1 .. n /\ 1 \in 1 .. n /\ i + 1 # 1
        BY <2>1
    <2>6. \A i \in 1 .. n - 1 : queue'[w][i] \in At(w, {"queued"}) /\ queue'[w][i] # r
        BY <2>1, <2>2, <2>3, <2>5
    <2>7. ASSUME NEW q \in At(w, {"queued"}), q # r
          PROVE  \E i \in 1 .. n - 1 : queue'[w][i] = q
        <3>1. PICK i \in 1 .. n : queue[w][i] = q
            BY <2>4
        <3>2. i - 1 \in 1 .. n - 1 /\ (i - 1) + 1 = i
            BY <2>1, <2>7, <3>1
        <3>3. queue'[w][i - 1] = queue[w][(i - 1) + 1]
            BY <2>1, <3>2
        <3> QED BY <3>1, <3>2, <3>3
    <2>8. ASSUME NEW i \in 1 .. n - 1, NEW j \in 1 .. n - 1, queue'[w][i] = queue'[w][j]
          PROVE  i = j
        <3>1. queue[w][i + 1] = queue[w][j + 1]
            BY <2>1, <2>8
        <3>2. i + 1 = j + 1
            BY <2>3, <2>5, <3>1
        <3> QED BY <2>1, <3>2
    <2> QED BY <1>8, <2>1, <2>6, <2>7, <2>8
<1>9. Publish => queue'[w] = queue[w] /\ At(w, {"queued"})' = At(w, {"queued"})
    BY DEF Publish, server, At
<1>10. CASE queue'[w] = <<>> /\ At(w, {"queued"})' = {}
    BY <1>10
<1> QED BY <1>2, <1>3, <1>4, <1>5, <1>6, <1>7, <1>8, <1>9, <1>10 DEF Next

\* A job enters a thread only when one is free.
LEMMA NextThreads ==
    ASSUME IInv, ThreadsAreEnough, Next
    PROVE  ThreadsAreEnough'
<1> USE DEF IInv
<1> SUFFICES ASSUME NEW w \in Worker
             PROVE  Cardinality(At(w, InThread)') <= Threads
    BY DEF ThreadsAreEnough
<1> DEFINE running == At(w, InThread)
<1>1. IsFiniteSet(running) /\ Cardinality(running) <= Threads /\ Cardinality(running) \in Nat
    <2>1. running \subseteq Request
        BY DEF At
    <2> QED BY <2>1, FS_Subset, FS_CardinalityType, RenderCacheAssumption DEF ThreadsAreEnough
<1>2. CASE running' \subseteq running
    <2>1. Cardinality(running') <= Cardinality(running) /\ Cardinality(running') \in Nat
        BY <1>1, <1>2, FS_Subset, FS_CardinalityType
    <2> QED BY <1>1, <2>1, RenderCacheAssumption
<1>3. ASSUME NEW r \in Request, NEW v \in Worker, NEW tile \in Tile, Arrive(r, v, tile)
      PROVE  running' \subseteq running
    <2>1. /\ request'[r].stage \in {"reply", "admit"}
          /\ \A p \in Request : p # r => request'[p] = request[p]
        BY <1>3, Arrivals
    <2> QED BY <2>1 DEF At, InThread, Rendering
<1>4. ASSUME NEW v \in Worker, Crash(v)
      PROVE  running' \subseteq running
    BY <1>4, Crashes DEF At, Stage, Admitted
<1>5. ASSUME NEW r \in Request, Handle(r) \/ AcquireLock(r) \/ Job(r)
      PROVE  \/ running' \subseteq running
             \/ Cardinality(running) < Threads /\ running' \subseteq running \union {r}
    <2>1. /\ request[r] \in Handling
          /\ \A p \in Request : p # r => request'[p] = request[p]
        BY <1>5, Moves
    <2>2. CASE request[r].stage \in InThread /\ request'[r].worker = request[r].worker
        BY <2>1, <2>2 DEF At
    <2>3. CASE request'[r] = Idle \/ request'[r].stage = "queued"
        BY <2>1, <2>3 DEF At, Idle, InThread, Rendering
    <2>4. CASE /\ Cardinality(At(request[r].worker, InThread)) < Threads
               /\ request'[r].worker = request[r].worker
        BY <2>1, <2>4 DEF At
    <2> QED BY <1>5, <2>2, <2>3, <2>4, Transitions DEF InThread, Rendering
<1>6. ASSUME NEW r \in Request, Cardinality(running) < Threads,
             running' \subseteq running \union {r}
      PROVE  Cardinality(running') <= Threads
    <2> HIDE DEF running
    <2>1. /\ IsFiniteSet(running \union {r})
          /\ Cardinality(running \union {r}) <= Cardinality(running) + 1
        <3>1. CASE r \in running
            <4>1. running \union {r} = running
                BY <3>1
            <4> QED BY <1>1, <4>1
        <3>2. CASE r \notin running
            <4>1. /\ IsFiniteSet(running \union {r})
                  /\ Cardinality(running \union {r}) = Cardinality(running) + 1
                BY <1>1, <3>2, FS_AddElement
            <4> QED BY <1>1, <4>1
        <3> QED BY <3>1, <3>2
    <2>2. Cardinality(running') <= Cardinality(running \union {r})
        BY <1>6, <2>1, FS_Subset
    <2>3. Cardinality(running') \in Nat /\ Cardinality(running \union {r}) \in Nat
        BY <1>6, <2>1, FS_Subset, FS_CardinalityType
    <2> QED BY <1>1, <1>6, <2>1, <2>2, <2>3, RenderCacheAssumption
<1>7. Publish => running' \subseteq running
    BY DEF Publish, server, At
<1>8. \/ running' \subseteq running
      \/ \E r \in Request : Cardinality(running) < Threads /\ running' \subseteq running \union {r}
    <2> HIDE DEF running
    <2> QED BY <1>3, <1>4, <1>5, <1>7 DEF Next
<1> QED BY <1>2, <1>6, <1>8

\* Nothing is queued, running or locked at the start.
LEMMA InitPools ==
    ASSUME Init
    PROVE  Pools
<1> USE DEF Init
<1>1. \A w \in Worker : At(w, {"queued"}) = {} /\ At(w, InThread) = {}
    BY DEF At, Idle, InThread, Rendering
<1>2. LocksHaveHolders
    BY DEF LocksHaveHolders
<1>3. QueuesArePending
    BY <1>1 DEF QueuesArePending
<1>4. ThreadsAreEnough
    <2>1. Cardinality({}) = 0
        BY FS_EmptySet
    <2>2. 0 <= Threads
        BY RenderCacheAssumption
    <2>3. \A w \in Worker : Cardinality(At(w, InThread)) = 0
        BY <1>1, <2>1
    <2> QED BY <2>2, <2>3 DEF ThreadsAreEnough
<1> QED BY <1>2, <1>3, <1>4 DEF Pools

\* The pool, the queue and the locks of a worker are accounted for, in every state.
THEOREM Accounting == Spec => []Pools
<1>1. IInv /\ Pools /\ [Next]_vars => Pools'
    <2>1. CASE UNCHANGED vars
        BY <2>1 DEF Pools, LocksHaveHolders, QueuesArePending, ThreadsAreEnough, At, vars, server
    <2>2. CASE IInv /\ Pools /\ Next
        BY <2>2, NextHolders, NextQueues, NextThreads DEF Pools
    <2> QED BY <2>1, <2>2
<1> QED BY <1>1, InitPools, Invariant, PTL DEF Spec

\* Request r waits for nobody: the guard of its next step holds.
Ready(r) ==
    LET w == request[r].worker IN
    \/ request[r].stage \in Stage \ {"queued", "lock"}
    \/ /\ request[r].stage = "queued"
       /\ queue[w] # <<>> /\ Head(queue[w]) = r /\ Cardinality(At(w, InThread)) < Threads
    \/ request[r].stage = "lock" /\ lock[w][request[r].key] = None

\* A request that cannot go on waits for one of its own worker that can: at a lock for the
\* job that renders the same key, in the queue for its head or a job in a thread.
SomebodyIsReady ==
    \A w \in Worker : \A r \in At(w, Stage) :
        \/ Ready(r)
        \/ /\ request[r].stage = "lock"
           /\ \E q \in At(w, InThread) : Ready(q) /\ request[q].key = request[r].key
        \/ /\ request[r].stage = "queued"
           /\ \E q \in At(w, {"queued"} \union InThread) : Ready(q)

\* A job in a thread can go on, or waits for one that holds the lock of its key and can.
LEMMA ThreadsAreServed ==
    ASSUME IInv, Pools, NEW w \in Worker, NEW r \in At(w, InThread)
    PROVE  \/ Ready(r)
           \/ /\ request[r].stage = "lock"
              /\ \E q \in At(w, InThread) : Ready(q) /\ request[q].key = request[r].key
<1>1. r \in Request /\ request[r].stage \in InThread /\ request[r].worker = w
    BY DEF At
<1>2. InThread = {"lock", "recheck"} \union Rendering /\ InThread \subseteq Stage
      /\ "queued" \notin InThread /\ "lock" \notin {"recheck"} \union Rendering
    BY DEF InThread, Rendering, Admitted, Stage
<1>3. CASE request[r].stage # "lock"
    BY <1>1, <1>2, <1>3 DEF Ready
<1>4. CASE request[r].stage = "lock" /\ lock[w][request[r].key] = None
    BY <1>1, <1>4 DEF Ready
<1>5. CASE request[r].stage = "lock" /\ lock[w][request[r].key] # None
    <2>1. request[r].key \in Key
        BY <1>1, <1>2, StageKinds DEF IInv, Handling
    <2>2. PICK q : q = lock[w][request[r].key]
        OBVIOUS
    <2>3. q \in At(w, {"recheck"} \union Rendering) /\ request[q].key = request[r].key
        BY <1>5, <2>1, <2>2 DEF Pools, LocksHaveHolders
    <2>4. q \in At(w, InThread) /\ Ready(q)
        BY <1>2, <2>3 DEF At, Ready
    <2> QED BY <1>5, <2>3, <2>4
<1> QED BY <1>3, <1>4, <1>5

\* rendered_tile and _load_render_and_cache: no cycle of waiting, however many requests
\* contend for the pool, the slots and the locks, and whoever was killed before.
THEOREM NoDeadlock == Spec => []SomebodyIsReady
<1>1. IInv /\ Pools => SomebodyIsReady
    <2> SUFFICES ASSUME IInv, Pools, NEW w \in Worker, NEW r \in At(w, Stage), ~Ready(r)
                 PROVE  \/ /\ request[r].stage = "lock"
                           /\ \E q \in At(w, InThread) : Ready(q) /\ request[q].key = request[r].key
                        \/ /\ request[r].stage = "queued"
                           /\ \E q \in At(w, {"queued"} \union InThread) : Ready(q)
        BY DEF SomebodyIsReady
    <2>1. r \in Request /\ request[r].stage \in {"queued", "lock"} /\ request[r].worker = w
        BY DEF At, Ready
    <2>2. CASE request[r].stage = "lock"
        BY <2>1, <2>2, ThreadsAreServed DEF At, InThread
    <2>3. CASE request[r].stage = "queued" /\ Cardinality(At(w, InThread)) < Threads
        <3>1. /\ queue[w] \in Seq(Request)
              /\ \A i \in 1 .. Len(queue[w]) : queue[w][i] \in At(w, {"queued"})
              /\ \E i \in 1 .. Len(queue[w]) : queue[w][i] = r
            BY <2>1, <2>3 DEF IInv, TypeOK, Pools, QueuesArePending, At
        <3>2. queue[w] # <<>> /\ 1 \in 1 .. Len(queue[w]) /\ Head(queue[w]) = queue[w][1]
            BY <3>1
        <3>3. PICK q : q = queue[w][1]
            OBVIOUS
        <3>4. q \in At(w, {"queued"}) /\ Head(queue[w]) = q
            BY <3>1, <3>2, <3>3
        <3>5. Ready(q)
            BY <2>3, <3>2, <3>4 DEF Ready, At
        <3>6. q \in At(w, {"queued"} \union InThread)
            BY <3>4 DEF At
        <3> QED BY <2>3, <3>5, <3>6
    <2>4. CASE request[r].stage = "queued" /\ ~(Cardinality(At(w, InThread)) < Threads)
        <3>1. At(w, InThread) # {}
            <4>1. Cardinality({}) = 0 /\ 0 < Threads
                BY FS_EmptySet, RenderCacheAssumption
            <4> QED BY <2>4, <4>1
        <3>2. \E q \in At(w, InThread) : Ready(q)
            BY <3>1, ThreadsAreServed
        <3> QED BY <2>4, <3>2 DEF At
    <2> QED BY <2>1, <2>2, <2>3, <2>4
<1> QED BY <1>1, Invariant, Accounting, PTL

\* A cached tile keeps its pixels: whoever writes the file again writes the same.
PixelsStay ==
    [][\A k \in Key : cache[k] # None => cache'[k] # None /\ cache'[k].body = cache[k].body]_vars

\* _load_render_and_cache: os.replace never changes what a key already answers, in this
\* process or another; there is no eviction.
THEOREM StablePixels == Spec => PixelsStay
<1>1. IInv /\ [Next]_vars =>
        \A k \in Key : cache[k] # None => cache'[k] # None /\ cache'[k].body = cache[k].body
    <2> SUFFICES ASSUME IInv, [Next]_vars, NEW k \in Key, cache[k] # None
                 PROVE  cache'[k] # None /\ cache'[k].body = cache[k].body
        OBVIOUS
    <2>1. CASE UNCHANGED cache
        BY <2>1
    <2>2. ASSUME NEW r \in Request, request[r] \in Handling,
                 cache' = [cache EXCEPT ![request[r].key] =
                              [body |-> request[r].key[2], by |-> request[r].worker]]
          PROVE  cache'[k] # None /\ cache'[k].body = cache[k].body
        <3>1. CASE k # request[r].key
            BY <2>2, <3>1 DEF IInv, TypeOK
        <3>2. CASE k = request[r].key
            <4>1. PICK tile \in Tile, release \in Release : k = <<tile, release>>
                BY DEF Key
            <4>2. cache[k].body = k[2]
                BY <4>1 DEF IInv, CachedTilesAreTheirRelease
            <4>3. cache'[k] = [body |-> k[2], by |-> request[r].worker]
                BY <2>2, <3>2 DEF IInv, TypeOK
            <4>4. cache'[k] # None
                <5>1. k[2] \in Nat
                    BY <4>1 DEF Release
                <5>2. request[r].worker \in Worker
                    BY <2>2 DEF Handling
                <5> QED BY <4>3, <5>1, <5>2, RenderCacheAssumption
            <4> QED BY <4>2, <4>3, <4>4
        <3> QED BY <3>1, <3>2
    <2>3. CASE UNCHANGED vars
        BY <2>1, <2>3 DEF vars, server
    <2>4. CASE Next
        BY <2>1, <2>2, <2>4, CacheSteps
    <2> QED BY <2>3, <2>4
<1> QED BY <1>1, Invariant, PTL DEF Spec, PixelsStay
=============================================================================
