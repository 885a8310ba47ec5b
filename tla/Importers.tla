----------------------------- MODULE Importers -----------------------------
(***************************************************************************)
(* The importers: netcdf/grib/zarr2datatiles (src/utils/common.py,         *)
(* convert_dataset), the feature importers (src/utils/_vector_import.py)   *)
(* and meteouniparthenope2datatiles.py, with --frame-storage single.       *)
(*                                                                         *)
(* The first refuses a target that exists and leaves what it made when it  *)
(* fails; the second unlinks the target before and after; the third        *)
(* imports into a copy under a temporary name and moves it over.           *)
(***************************************************************************)
EXTENDS Workfiles

Importer(op, at, tiles) ==
    [op |-> op, at |-> at, id |-> begun + 1, db |-> None, plan |-> tiles, todo |-> tiles,
     unlinked |-> {}]

BeginImport(p, op, at, tiles) ==
    /\ MayBegin(p) /\ begun < MaxImports /\ Cardinality(tiles) <= MaxTiles
    /\ Become(p, Importer(op, at, tiles))
    /\ begun' = begun + 1
    /\ overlapped' = (overlapped \/ Importing # {})
    /\ UNCHANGED <<target, containers, version, files, kills, kept, leftover, spoiled>>

Unchanged == UNCHANGED <<files, begun, kills, overlapped, spoiled>>

\* Some slices of a data set, on one zoom level.  An existing target is refused.
StartConvert(p) ==
    /\ target = None
    /\ \E slices \in (SUBSET Input) \ {{}}, z \in Zoom :
          BeginImport(p, "convert", "create", slices \X {z})

\* One collection, on a range of zoom levels.  An existing target needs --force.
StartVector(p) ==
    \E f \in Input, zooms \in (SUBSET Zoom) \ {{}} :
        BeginImport(p, "vector", IF target = None THEN "parse" ELSE "unlink", {f} \X zooms)

\* Frames of a forecast, on a range of zoom levels.
StartMeteo(p) ==
    \E frames \in (SUBSET Input) \ {{}}, zooms \in (SUBSET Zoom) \ {{}} :
        BeginImport(p, "meteo", "stage", frames \X zooms)

Forget == target' = None /\ kept' = {} /\ leftover' = FALSE

Stay == UNCHANGED <<target, kept, leftover>>

Unlink(p) ==
    /\ At(p, "vector", "unlink")
    /\ Forget
    /\ Become(p, [job[p] EXCEPT !.at = "parse"])
    /\ UNCHANGED <<containers, version>> /\ Unchanged

\* The features are only looked at when the old file is gone.
Parse(p) ==
    /\ At(p, "vector", "parse")
    /\ \/ Become(p, [job[p] EXCEPT !.at = "create"])
       \/ Finish(p)
    /\ Stay /\ UNCHANGED <<containers, version>> /\ Unchanged

\* DataTiles(create=True) refuses a file that exists.  The feature importers then unlink
\* it as if it were theirs.
Create(p) ==
    LET j == job[p] IN
    /\ At(p, "convert", "create") \/ At(p, "vector", "create")
    /\ IF target = None
       THEN /\ target' = j.id
            /\ Commit(j.id, Empty)
            /\ Become(p, [j EXCEPT !.at = "put", !.db = j.id])
            /\ UNCHANGED <<kept, leftover>>
       ELSE /\ IF j.op = "vector" THEN Forget ELSE Stay
            /\ Finish(p)
            /\ UNCHANGED <<containers, version>>
    /\ Unchanged

\* Fault: the staging file always starts empty.
StageEmpty(p) ==
    LET j == job[p] IN
    /\ At(p, "meteo", "stage")
    /\ containers' = [containers EXCEPT ![j.id] = Empty]
    /\ version' = [version EXCEPT ![j.id] = 1]
    /\ Become(p, [j EXCEPT !.at = "put", !.db = j.id])
    /\ Stay /\ Unchanged

\* The staging file is a copy of the target, if there is one.
Stage(p) ==
    LET j == job[p] IN
    /\ At(p, "meteo", "stage")
    /\ containers' = [containers EXCEPT ![j.id] = IF target = None THEN Empty ELSE containers[target]]
    /\ version' = [version EXCEPT ![j.id] = IF target = None THEN 0 ELSE version[target]]
    /\ Become(p, [j EXCEPT !.at = "put", !.db = j.id])
    /\ Stay /\ Unchanged
-----------------------------------------------------------------------------
Working(p, at) == job[p].op \in Import /\ job[p].at = at

Amend(p, c, after) ==
    /\ Commit(job[p].db, c)
    /\ Become(p, after)
    /\ Stay /\ Unchanged

\* One tile; two of the importers then link it to its source, the feature importers
\* link all tiles after they described them.
PutTile(p) ==
    LET j == job[p] IN
    /\ Working(p, "put")
    /\ \E t \in j.todo :
          Amend(p, [Open(p) EXCEPT !.tiles = @ \union {t}],
                [j EXCEPT !.todo = @ \ {t}, !.unlinked = @ \union {t},
                          !.at = IF j.op = "vector" THEN "put" ELSE "link"])

\* Fault: the container is opened again, by its name.
LinkByName(p) ==
    LET j == job[p] IN
    /\ Working(p, "link")
    /\ target # None
    /\ \E t \in j.unlinked :
          /\ Commit(target, [containers[target] EXCEPT !.links = @ \union {t}])
          /\ Become(p, [j EXCEPT !.unlinked = @ \ {t},
                                !.at = IF j.op = "vector" THEN "link" ELSE "put"])
    /\ Stay /\ Unchanged

LinkTile(p) ==
    LET j == job[p] IN
    /\ Working(p, "link")
    /\ \E t \in j.unlinked :
          Amend(p, [Open(p) EXCEPT !.links = @ \union {t}],
                [j EXCEPT !.unlinked = @ \ {t},
                          !.at = IF j.op = "vector" THEN "link" ELSE "put"])

\* select: the first slice; an importer of frames keeps an earlier selection.
\* It selects after each source, here after all.
Select(p) ==
    LET j == job[p] IN
    /\ \/ Working(p, "put") /\ j.todo = {} /\ j.op # "vector"
       \/ Working(p, "link") /\ j.unlinked = {} /\ j.op = "vector"
    /\ \E t \in j.plan :
          Amend(p, [Open(p) EXCEPT !.selected = IF j.op = "meteo" /\ @ # None THEN @ ELSE t[1]],
                [j EXCEPT !.at = IF j.op = "vector" THEN "done" ELSE "describe"])

\* The zoom levels are added to those of the target, the frames replace its frames.
Described(j, metadata) ==
    [frames |-> IF j.op = "meteo" THEN {t[1] : t \in j.plan} ELSE metadata.frames,
     zooms |-> metadata.zooms \union ZoomsOf(j.plan)]

Describe(p) ==
    LET j == job[p] IN
    /\ \/ Working(p, "describe")
       \/ Working(p, "put") /\ j.todo = {} /\ j.op = "vector"
    /\ Amend(p, [Open(p) EXCEPT !.metadata = Described(j, @)],
             [j EXCEPT !.at = IF j.op = "vector" THEN "link" ELSE "done"])

\* The container is valid: the staging file is moved over the target.
Deliver(p) ==
    LET j == job[p] IN
    /\ Working(p, "done")
    /\ target' = IF j.op = "meteo" THEN j.db ELSE target
    /\ kept' = kept \union j.plan
    /\ Finish(p)
    /\ UNCHANGED <<containers, version, leftover>> /\ Unchanged

\* Fault: the staging file is moved over the target in any case.
DeliverFailed(p) ==
    LET j == job[p] IN
    /\ j.op \in Import /\ j.db # None
    /\ IF j.op = "meteo" THEN target' = j.db /\ UNCHANGED <<kept, leftover>>
       ELSE IF j.op = "vector" THEN Forget
       ELSE Stay
    /\ Finish(p)
    /\ UNCHANGED <<containers, version>> /\ Unchanged

\* Too many tiles, a conflicting unit or licence, an invalid container, a full disk.
\* The feature importers unlink the target, whosever it is by now.
FailImport(p) ==
    LET j == job[p] IN
    /\ j.op \in Import /\ j.db # None
    /\ IF j.op = "vector" THEN Forget
       ELSE leftover' = (leftover \/ Abandons(p)) /\ UNCHANGED <<target, kept>>
    /\ Finish(p)
    /\ UNCHANGED <<containers, version>> /\ Unchanged

ImportStep(p) ==
    \/ StartConvert(p) \/ StartVector(p) \/ StartMeteo(p)
    \/ Unlink(p) \/ Parse(p) \/ Create(p) \/ Stage(p)
    \/ PutTile(p) \/ LinkTile(p) \/ Select(p) \/ Describe(p)
    \/ Deliver(p) \/ FailImport(p)
-----------------------------------------------------------------------------
\* What finished imports brought is in the target with its provenance, whatever later
\* imports failed or were killed, unless --force removed it or two imports overlapped:
\* of two that copied the same target, the last replaces the other's.
FinishedImportsStay ==
    ~overlapped /\ target # None =>
        kept \subseteq containers[target].tiles \intersect containers[target].links

\* The target is what finished imports made of it: tiles linked to their sources and zoom
\* levels announced, no slice without them.  A forecast import that fails or is killed
\* leaves nothing, one that runs is not seen; only the other importers, which work under
\* the name, show and leave theirs half made.
TargetIsWhatWasImported ==
    /\ ~overlapped /\ ~leftover /\ target # None
    /\ \A p \in Importing : job[p].op = "meteo"
    =>
    LET c == containers[target] IN
    /\ c.tiles = kept /\ c.links = kept
    /\ c.metadata.zooms = ZoomsOf(kept)
    /\ c.metadata.frames \subseteq {t[1] : t \in kept}
    /\ c.selected \in {t[1] : t \in kept}
=============================================================================
