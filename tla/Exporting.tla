----------------------------- MODULE Exporting -----------------------------
(***************************************************************************)
(* DataTiles.export_mbtiles (src/src/datatiles/store.py): one slice is     *)
(* copied to a temporary MBTiles file, which is then linked to its name.   *)
(*                                                                         *)
(* Abstracted: format and metadata other than the zoom levels; the         *)
(* temporary file, which nobody else opens, is part of the job.            *)
(***************************************************************************)
EXTENDS Workfiles

SliceTiles(c, f) == c.tiles \intersect ({f} \X Zoom)

Span(zooms) == {z \in Zoom : \E low, high \in zooms : low <= z /\ z <= high}

Exports(p, at) == job[p].op = "export" /\ job[p].at = at

\* An export that exists is refused, as is a slice that has no tiles.
StartExport(p) ==
    /\ MayBegin(p) /\ target # None /\ files.export = None
    /\ \E f \in Input :
          /\ SliceTiles(containers[target], f) # {}
          /\ Become(p, [op |-> "export", at |-> "zooms", id |-> begun + 1, db |-> target, slice |-> f,
                        since |-> None, zooms |-> {}, rows |-> {}, quiet |-> TRUE])
    /\ begun' = begun + 1
    /\ UNCHANGED <<target, containers, version, files, kills, history>>

\* Fault: the zoom levels of all slices.
ReadAllZooms(p) ==
    LET j == job[p] IN
    /\ Exports(p, "zooms")
    /\ Become(p, [j EXCEPT !.at = "rows", !.zooms = Span(ZoomsOf(Open(p).tiles)),
                           !.since = version[j.db]])
    /\ UNCHANGED <<target, containers, version, files, begun, kills, history>>

\* SELECT min(zoom_level),max(zoom_level)
ReadZooms(p) ==
    LET j == job[p] IN
    /\ Exports(p, "zooms")
    /\ Become(p, [j EXCEPT !.at = "rows", !.zooms = Span(ZoomsOf(SliceTiles(Open(p), j.slice))),
                           !.since = version[j.db]])
    /\ UNCHANGED <<target, containers, version, files, begun, kills, history>>

\* The rows come from a second statement.
ReadRows(p) ==
    LET j == job[p] IN
    /\ Exports(p, "rows")
    /\ Become(p, [j EXCEPT !.at = "link", !.rows = SliceTiles(Open(p), j.slice),
                           !.quiet = (version[j.db] = j.since)])
    /\ UNCHANGED <<target, containers, version, files, begun, kills, history>>

Exported(j) == [slice |-> j.slice, zooms |-> j.zooms, rows |-> j.rows, quiet |-> j.quiet, by |-> j.id]

\* Fault: os.replace
ReplaceExport(p) ==
    /\ Exports(p, "link")
    /\ Write("export", Exported(job[p]))
    /\ Finish(p)
    /\ UNCHANGED <<target, containers, version, begun, kills, history>>

\* os.link fails when another export was linked meanwhile.
LinkExport(p) ==
    /\ Exports(p, "link")
    /\ IF files.export = None THEN Write("export", Exported(job[p])) ELSE UNCHANGED files
    /\ Finish(p)
    /\ UNCHANGED <<target, containers, version, begun, kills, history>>

ExportStep(p) == StartExport(p) \/ ReadZooms(p) \/ ReadRows(p) \/ LinkExport(p)
-----------------------------------------------------------------------------
\* An export that is there stays as it is, also when two exports to one name began
\* before either was there.
ExportsNeverChange == [][files.export # None => files'.export = files.export]_vars

\* The zoom levels an export announces have tiles in it; when no commit came between the
\* two statements they are all that have.
ExportHasItsZooms ==
    files.export # None =>
        LET e == files.export IN
        /\ {<<e.slice, z>> : z \in {y \in e.zooms : \A x \in e.zooms : y <= x}} \subseteq e.rows
        /\ e.quiet => e.zooms = Span(ZoomsOf(e.rows))
=============================================================================
