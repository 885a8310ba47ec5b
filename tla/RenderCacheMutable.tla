-------------------------- MODULE RenderCacheMutable --------------------------
(***************************************************************************)
(* The portrayal endpoint for a layer whose dataset_release is "mutable",  *)
(* "latest" or null: the operator replaces the bytes of the dataset and    *)
(* the release in layers.json stays what it is.  The cache key does not    *)
(* change, rendered_tile returns any file that exists under it, and        *)
(* nothing in src/server removes one.                                      *)
(***************************************************************************)
EXTENDS RenderCache

\* A new file under the name of the old one.
ReplaceDataset ==
    /\ content[layer.dataset] < MaxRelease
    /\ content' = [content EXCEPT ![layer.dataset] = @ + 1]
    /\ UNCHANGED <<layer, server, crashes>>

SomeoneAsks == \E r \in Request, w \in Worker, tile \in Tile : Arrive(r, w, tile)

MutableNext ==
    \/ SomeoneAsks
    \/ \E r \in Request : Handle(r) \/ AcquireLock(r) \/ Job(r)
    \/ \E w \in Worker : Crash(w)
    \/ ReplaceDataset

\* The server's own fairness, and clients that come back.
MutableSpec == Init /\ [][MutableNext]_vars /\ Fairness /\ WF_vars(SomeoneAsks)

Stale(key) == cache[key] # None /\ cache[key].body # content[layer.dataset]

\* docs/online-delivery.md: such a layer receives short-lived portrayal caching.  A
\* tile of bytes that were replaced does not stay in the cache for ever.
MutableTilesAreRefreshed == \A key \in Key : Stale(key) ~> ~Stale(key)
=============================================================================
