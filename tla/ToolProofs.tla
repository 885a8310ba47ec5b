------------------------------ MODULE ToolProofs ------------------------------
(***************************************************************************)
(* More about Workbench, for any number of processes, inputs and tools     *)
(* started or killed: what imports leave, what exports announce, and what  *)
(* decryption leaves.                                                      *)
(*                                                                         *)
(* The argument: while no two imports overlap, the target changes only by  *)
(* the hand of the one at work, and what its container has is what was     *)
(* kept and as much of its plan as it has done (Progress).  An exporter    *)
(* holds an inode that no import is about to make, where tiles are only    *)
(* added (ExportOk).  Who truncated the output knows what it promised, and *)
(* the numbers of commands tell who that was (DecryptOk).                  *)
(***************************************************************************)
EXTENDS WorkbenchProofs

Slices(tiles) == {t[1] : t \in tiles}

\* The container is what imports of these tiles make of it.
Whole(c, tiles) ==
    /\ c.tiles = tiles /\ c.links = tiles
    /\ c.metadata.zooms = ZoomsOf(tiles) /\ c.metadata.frames \subseteq Slices(tiles)
    /\ c.selected \in Slices(tiles)

\* The import has described what it puts, and has selected a slice.
HasDescribed(j) == j.at = "done" \/ (j.op = "vector" /\ j.at = "link")
HasSelected(j) == j.at \in {"describe", "done"}

Put(j) == j.plan \ j.todo

\* The container of an import has what was kept, and what the import has done.
Exact(c, j) ==
    /\ c.tiles = kept \union Put(j) /\ c.links = kept \union (Put(j) \ j.unlinked)
    /\ c.metadata.zooms = ZoomsOf(IF HasDescribed(j) THEN kept \union j.plan ELSE kept)
    /\ c.metadata.frames \subseteq Slices(IF HasDescribed(j) THEN kept \union j.plan ELSE kept)
    /\ \/ c.selected \in Slices(IF HasSelected(j) THEN kept \union j.plan ELSE kept)
       \/ ~HasSelected(j) /\ kept = {} /\ c.selected = None

Doing(c, j) ==
    /\ j.todo \subseteq j.plan /\ j.unlinked \subseteq Put(j)
    /\ j.at = "describe" => j.op # "vector"
    /\ kept \subseteq c.links /\ Put(j) \subseteq c.tiles /\ Put(j) \ j.unlinked \subseteq c.links
    /\ j.op # "vector" /\ j.at # "link" => j.unlinked = {}
    /\ j.op # "vector" /\ j.at = "link" => \E t \in Tile : j.unlinked = {t}
    /\ j.at \in {"describe", "done"} \/ HasDescribed(j) => j.todo = {}
    /\ j.at = "done" => j.unlinked = {}
    /\ ~leftover => Exact(c, j)

Progress(p) ==
    LET j == job[p] IN
    /\ j.at \in Early => j.todo = j.plan
    /\ j.at \in Late =>
          /\ IF j.op = "meteo" THEN target # j.id ELSE target = j.id
          /\ Doing(containers[j.id], j)

\* What this import does is not seen under the name.
Aside(j) == j.op = "meteo" \/ j.at \in Early

ImportsOk ==
    ~overlapped =>
        /\ \A p, q \in Importing : p = q
        /\ target = None => kept = {}
        /\ target # None => kept \subseteq containers[target].links
        /\ \A p \in Process : job[p].op \in Import => Progress(p)
        /\ ~leftover /\ target # None /\ (\A p \in Importing : Aside(job[p]))
              => Whole(containers[target], kept)
-----------------------------------------------------------------------------
(***************************************************************************)
(* Imports.                                                                *)
(***************************************************************************)

\* No import yet; a container that was there from the start is whole.
LEMMA InitImports == Init => ImportsOk
<1> SUFFICES ASSUME Init PROVE ImportsOk
    OBVIOUS
<1>1. Importing = {} /\ \A p \in Process : job[p].op \notin Import
    BY DEF Init, Idle, Importing, Import
<1>2. target \in {None, 0} /\ kept = IF target = 0 THEN containers[0].tiles ELSE {}
    BY DEF Init
<1>3. CASE target = None
    BY <1>1, <1>2, <1>3, NoneAssumption DEF ImportsOk
<1>4. CASE target # None
    <2>1. PICK f \in Input : containers = [i \in Inode |->
              IF i = 0 /\ target = 0
              THEN [tiles |-> {f} \X Zoom, links |-> {f} \X Zoom, selected |-> f,
                    metadata |-> [frames |-> {}, zooms |-> Zoom], signatures |-> {}]
              ELSE Empty]
        BY DEF Init
    <2>2. target = 0 /\ 0 \in Inode
        BY <1>2, <1>4, BoundAssumption DEF Inode
    <2>3. containers[target] =
              [tiles |-> {f} \X Zoom, links |-> {f} \X Zoom, selected |-> f,
               metadata |-> [frames |-> {}, zooms |-> Zoom], signatures |-> {}]
        BY <2>1, <2>2
    <2>4. ZoomsOf({f} \X Zoom) = Zoom /\ Slices({f} \X Zoom) = {f}
        <3>1. \A t \in {f} \X Zoom : t[1] = f /\ t[2] \in Zoom
            OBVIOUS
        <3>2. \A z \in Zoom : <<f, z>> \in {f} \X Zoom /\ <<f, z>>[1] = f /\ <<f, z>>[2] = z
            OBVIOUS
        <3>3. ZoomsOf({f} \X Zoom) = Zoom
            BY <3>1, <3>2 DEF ZoomsOf
        <3>4. 0 \in Zoom
            BY DEF Zoom
        <3>5. Slices({f} \X Zoom) = {f}
            BY <3>1, <3>2, <3>4 DEF Slices
        <3> QED BY <3>3, <3>5
    <2>5. Whole(containers[target], kept)
        BY <1>2, <2>2, <2>3, <2>4 DEF Whole
    <2> QED BY <1>1, <1>4, <2>5 DEF ImportsOk, Whole
<1> QED BY <1>3, <1>4

\* An import that none overlapped is the only one.
LEMMA ImportIsAlone ==
    ASSUME IInv, ImportsOk, ~overlapped, NEW p \in Process, job[p].op \in Import
    PROVE  /\ Importing = {p} /\ Progress(p) /\ job[p] \in ImportJob /\ ImportOk(p)
           /\ job[p].at \in Late => job[p].id \in Inode /\ job[p].db = job[p].id
           /\ begun \in Nat /\ begun <= MaxCommands
<1>1. p \in Importing /\ Importing = {p} /\ Progress(p)
    BY DEF Importing, ImportsOk
<1>2. job[p] \in ImportJob /\ ImportOk(p) /\ begun \in 0 .. MaxCommands /\ MaxCommands \in Nat
    BY JobKinds, BoundAssumption DEF IInv, ContainersOk, Typed
<1>3. job[p].at \in Late => job[p].id \in Inode /\ job[p].db = job[p].id
    BY <1>2 DEF ImportOk, Inode
<1> QED BY <1>1, <1>2, <1>3

\* What is to be shown of a step of an importer.
LEMMA ImportsKept ==
    ASSUME IInv, ImportsOk, NEW p \in Process, NEW j, Become(p, j),
           "op" \in DOMAIN j,
           overlapped' = overlapped, \A q \in Importing : q = p \/ overlapped,
           ~overlapped =>
               /\ target' = None => kept' = {}
               /\ target' # None => kept' \subseteq containers'[target'].links
               /\ j.op \in Import => Progress(p)'
               /\ ~leftover' /\ target' # None /\ (j.op \in Import => Aside(j))
                     => Whole(containers'[target'], kept')
    PROVE  ImportsOk'
<1> SUFFICES ASSUME ~overlapped' PROVE ImportsOk'
    BY DEF ImportsOk
<1>1. \A q \in Process : job'[q] = IF q = p THEN j ELSE job[q]
    BY DEF Become, IInv, Typed
<1>2. \A q \in Process \ {p} : job'[q].op \notin Import
    BY <1>1 DEF Importing
<1>3. Importing' = IF j.op \in Import THEN {p} ELSE {}
    BY <1>1, <1>2 DEF Importing
<1>4. \A q \in Importing' : q = p
    BY <1>3
<1>5. \A q \in Process : job'[q].op \in Import => Progress(q)'
    BY <1>1, <1>2
<1>6. (\A q \in Importing' : Aside(job'[q])) => (j.op \in Import => Aside(j))
    BY <1>1, <1>3
<1> QED BY <1>4, <1>5, <1>6 DEF ImportsOk

\* A tool that imports nothing.
LEMMA OthersKeepImports ==
    ASSUME IInv, ImportsOk, NEW p \in Process, NEW j, Become(p, j),
           job[p].op \notin Import, "op" \in DOMAIN j, j.op \notin Import,
           UNCHANGED <<target, kept, overlapped>>, leftover => leftover',
           containers' \in [Inode -> ContainerType],
           \A i \in Inode : /\ containers'[i].tiles = containers[i].tiles
                            /\ containers'[i].links = containers[i].links
                            /\ containers'[i].selected = containers[i].selected
                            /\ containers'[i].metadata = containers[i].metadata
    PROVE  ImportsOk'
<1> SUFFICES ASSUME ~overlapped' PROVE ImportsOk'
    BY DEF ImportsOk
<1>1. \A q \in Process : job'[q] = IF q = p THEN j ELSE job[q]
    BY DEF Become, IInv, Typed
<1>2. Importing' = Importing /\ \A q \in Importing : job'[q] = job[q]
    BY <1>1 DEF Importing
<1>3. target # None => target \in Inode
    BY DEF IInv, Typed
<1>4. ASSUME NEW q \in Process, job'[q].op \in Import PROVE Progress(q)'
    <2>1. job'[q] = job[q] /\ job[q].op \in Import
        BY <1>1, <1>4
    <2>2. Progress(q) /\ (job[q].at \in Late => job[q].id \in Inode)
        BY <2>1, ImportIsAlone
    <2>3. job[q].at \in Late => (Doing(containers[job[q].id], job[q]) =>
                                 Doing(containers[job[q].id], job[q])')
        BY <2>1, <2>2 DEF Doing, Exact, Put, HasDescribed, HasSelected, ZoomsOf, Slices
    <2> QED BY <2>1, <2>2, <2>3 DEF Progress
<1>5. target # None => (Whole(containers[target], kept) => Whole(containers[target], kept)')
    BY <1>3 DEF Whole
<1>6. (\A q \in Importing' : Aside(job[q])') => \A q \in Importing : Aside(job[q])
    BY <1>2 DEF Aside
<1> QED BY <1>2, <1>3, <1>4, <1>5, <1>6 DEF ImportsOk

\* A commit of the import at work.
LEMMA AmendKeepsImports ==
    ASSUME IInv, ImportsOk, NEW p \in Process, job[p].op \in Import, job[p].at \in Late,
           NEW c, NEW j \in ImportJob, j.op = job[p].op, j.id = job[p].id,
           j.at \in Late, Amend(p, c, j),
           ~overlapped => Doing(c, j)
    PROVE  ImportsOk'
<1> DEFINE i == job[p].id
<1>1. /\ Become(p, j) /\ UNCHANGED <<target, kept, leftover, overlapped>> /\ "op" \in DOMAIN j
      /\ j.at \notin Early
    BY DEF Amend, Stay, Unchanged, ImportJob, Early, Late
<1>2. \A q \in Importing : q = p \/ overlapped
    BY ImportIsAlone DEF Importing
<1>3. \A q \in Process : job'[q] = IF q = p THEN j ELSE job[q]
    BY <1>1 DEF Become, IInv, Typed
<1>4. ASSUME ~overlapped
      PROVE  /\ target' = None => kept' = {}
             /\ target' # None => kept' \subseteq containers'[target'].links
             /\ j.op \in Import => Progress(p)'
             /\ ~leftover' /\ target' # None /\ (j.op \in Import => Aside(j))
                   => Whole(containers'[target'], kept')
    <2>1. /\ Importing = {p} /\ Progress(p) /\ i \in Inode /\ job[p].db = i
          /\ target \in Inode \union {None}
        BY <1>4, ImportIsAlone DEF IInv, Typed
    <2>2. containers' = [containers EXCEPT ![i] = c]
        BY <2>1 DEF Amend, Commit
    <2>3. \A k \in Inode : containers'[k] = IF k = i THEN c ELSE containers[k]
        BY <2>2 DEF IInv, Typed
    <2>4. Doing(c, j)
        BY <1>4
    <2>6. Progress(p)'
        <3>1. job'[p] = j /\ containers'[j.id] = c
            BY <1>3, <2>1, <2>3
        <3>2. IF j.op = "meteo" THEN target # j.id ELSE target = j.id
            BY <2>1 DEF Progress
        <3>4. Doing(c, j) => Doing(containers[job[p].id], job[p])'
            BY <1>1, <3>1 DEF Doing, Exact
        <3> QED BY <1>1, <2>4, <3>1, <3>2, <3>4 DEF Progress
    <2>7. target # None => kept \subseteq containers'[target].links
        <3>1. CASE target = i
            BY <2>1, <2>3, <2>4, <3>1 DEF Doing
        <3>2. CASE target # i
            BY <1>4, <2>1, <2>3, <3>2 DEF ImportsOk
        <3> QED BY <3>1, <3>2
    <2>8. ~leftover /\ target # None /\ Aside(j) => Whole(containers'[target], kept)
        <3> SUFFICES ASSUME ~leftover, target # None, Aside(j)
                     PROVE  Whole(containers'[target], kept)
            OBVIOUS
        <3>1. j.op = "meteo" /\ target # i
            BY <1>1, <2>1 DEF Aside, Progress
        <3>2. \A q \in Importing : Aside(job[q])
            BY <2>1, <3>1 DEF Aside
        <3>3. Whole(containers[target], kept)
            BY <1>4, <3>2 DEF ImportsOk
        <3>4. containers'[target] = containers[target]
            BY <2>1, <2>3, <3>1
        <3> QED BY <3>3, <3>4
    <2> QED BY <1>1, <1>4, <2>6, <2>7, <2>8 DEF ImportsOk, ImportJob
<1> QED BY <1>1, <1>2, <1>4, ImportsKept

\* A tile of the plan is put.
LEMMA PutKeepsImports == ASSUME IInv, ImportsOk, NEW p \in Process, PutTile(p) PROVE ImportsOk'
<1> DEFINE old == job[p]
           c == Open(p)
<1>1. old.op \in Import /\ old.at = "put" /\ old.at \in Late
    BY DEF PutTile, Working, Late
<1>2. PICK t \in old.todo :
          Amend(p, [c EXCEPT !.tiles = @ \union {t}],
                [old EXCEPT !.todo = @ \ {t}, !.unlinked = @ \union {t},
                            !.at = IF old.op = "vector" THEN "put" ELSE "link"])
    BY DEF PutTile
<1> DEFINE c2 == [c EXCEPT !.tiles = @ \union {t}]
           at == IF old.op = "vector" THEN "put" ELSE "link"
           j == [old EXCEPT !.todo = @ \ {t}, !.unlinked = @ \union {t}, !.at = at]
<1>3. old \in ImportJob /\ c \in ContainerType /\ t \in Tile /\ old.db = old.id
    BY <1>1, OwnContainer
<1>4. /\ at \in Late /\ at \in Early \union Late /\ at \in {"put", "link"}
      /\ at = "link" <=> old.op # "vector"
    BY DEF Late
<1>5. Amend(p, c2, j)
    BY <1>2 DEF at
<1>6. ~overlapped => Doing(c, old)
    BY <1>1, <1>3, ImportIsAlone DEF Progress, Open
<1> HIDE DEF at, c
<1>7. /\ c2.tiles = c.tiles \union {t} /\ c2.links = c.links
      /\ c2.selected = c.selected /\ c2.metadata = c.metadata
    BY <1>3 DEF ContainerType
<1>8. /\ j \in ImportJob /\ j.op = old.op /\ j.id = old.id /\ j.at = at /\ j.plan = old.plan
      /\ j.todo = old.todo \ {t} /\ j.unlinked = old.unlinked \union {t}
    BY <1>3, <1>4 DEF ImportJob
<1> HIDE DEF c2, j, old
<1>9. ASSUME ~overlapped PROVE Doing(c2, j)
    <2>1. Doing(c, old) /\ t \in old.todo /\ t \in old.plan
        BY <1>6, <1>9 DEF Doing
    <2>2. Put(j) = Put(old) \union {t} /\ t \notin Put(old)
        BY <1>8, <2>1 DEF Put
    <2>3. /\ ~HasDescribed(j) /\ ~HasDescribed(old) /\ ~HasSelected(j) /\ ~HasSelected(old)
        BY <1>1, <1>4, <1>8 DEF HasDescribed, HasSelected
    <2>4. ~leftover => Exact(c2, j)
        BY <1>7, <1>8, <2>1, <2>2, <2>3 DEF Doing, Exact
    <2>5. j.op # "vector" /\ j.at = "link" => j.unlinked = {t}
        BY <1>1, <1>8, <2>1 DEF Doing
    <2> QED BY <1>3, <1>4, <1>7, <1>8, <2>1, <2>2, <2>3, <2>4, <2>5 DEF Doing
<1> QED BY <1>1, <1>4, <1>5, <1>8, <1>9, AmendKeepsImports DEF old

\* A tile that was put is linked.
LEMMA LinkKeepsImports == ASSUME IInv, ImportsOk, NEW p \in Process, LinkTile(p) PROVE ImportsOk'
<1> DEFINE old == job[p]
           c == Open(p)
<1>1. old.op \in Import /\ old.at = "link" /\ old.at \in Late
    BY DEF LinkTile, Working, Late
<1>2. PICK t \in old.unlinked :
          Amend(p, [c EXCEPT !.links = @ \union {t}],
                [old EXCEPT !.unlinked = @ \ {t}, !.at = IF old.op = "vector" THEN "link" ELSE "put"])
    BY DEF LinkTile
<1> DEFINE c2 == [c EXCEPT !.links = @ \union {t}]
           at == IF old.op = "vector" THEN "link" ELSE "put"
           j == [old EXCEPT !.unlinked = @ \ {t}, !.at = at]
<1>3. old \in ImportJob /\ c \in ContainerType /\ old.db = old.id
    BY <1>1, OwnContainer
<1>4. /\ at \in Late /\ at \in Early \union Late /\ at \in {"put", "link"}
      /\ at = "put" <=> old.op # "vector"
    BY DEF Late
<1>5. Amend(p, c2, j)
    BY <1>2 DEF at
<1>6. ~overlapped => Doing(c, old)
    BY <1>1, <1>3, ImportIsAlone DEF Progress, Open
<1> HIDE DEF at, c
<1>7. /\ c2.tiles = c.tiles /\ c2.links = c.links \union {t}
      /\ c2.selected = c.selected /\ c2.metadata = c.metadata
    BY <1>3 DEF ContainerType
<1>8. /\ j \in ImportJob /\ j.op = old.op /\ j.id = old.id /\ j.at = at /\ j.plan = old.plan
      /\ j.todo = old.todo /\ j.unlinked = old.unlinked \ {t}
    BY <1>3, <1>4 DEF ImportJob
<1> HIDE DEF c2, j, old
<1>9. ASSUME ~overlapped PROVE Doing(c2, j)
    <2>1. Doing(c, old) /\ t \in Put(old)
        BY <1>2, <1>6, <1>9 DEF Doing
    <2>2. Put(j) = Put(old)
        BY <1>8 DEF Put
    <2>3. HasDescribed(j) = HasDescribed(old) /\ ~HasSelected(j) /\ ~HasSelected(old)
        BY <1>1, <1>4, <1>8 DEF HasDescribed, HasSelected
    <2>4. ~leftover => Exact(c2, j)
        BY <1>7, <1>8, <2>1, <2>2, <2>3 DEF Doing, Exact
    <2>5. j.op # "vector" => j.unlinked = {}
        BY <1>1, <1>2, <1>8, <2>1 DEF Doing
    <2> QED BY <1>1, <1>3, <1>4, <1>7, <1>8, <2>1, <2>2, <2>3, <2>4, <2>5 DEF Doing
<1> QED BY <1>1, <1>4, <1>5, <1>8, <1>9, AmendKeepsImports DEF old

\* A slice of the plan is selected, or an earlier selection kept.
LEMMA SelectKeepsImports == ASSUME IInv, ImportsOk, NEW p \in Process, Select(p) PROVE ImportsOk'
<1> DEFINE old == job[p]
           c == Open(p)
           at == IF old.op = "vector" THEN "done" ELSE "describe"
           j == [old EXCEPT !.at = at]
<1>1. /\ old.op \in Import /\ old.at \in Late
      /\ \/ old.at = "put" /\ old.todo = {} /\ old.op # "vector"
         \/ old.at = "link" /\ old.unlinked = {} /\ old.op = "vector"
    BY DEF Select, Working, Late
<1>2. PICK t \in old.plan :
          Amend(p, [c EXCEPT !.selected = IF old.op = "meteo" /\ @ # None THEN @ ELSE t[1]], j)
    BY DEF Select
<1> DEFINE selected == IF old.op = "meteo" /\ c.selected # None THEN c.selected ELSE t[1]
           c2 == [c EXCEPT !.selected = selected]
<1>3. old \in ImportJob /\ c \in ContainerType /\ old.db = old.id
    BY <1>1, OwnContainer
<1>4. /\ at \in Late /\ at \in Early \union Late /\ at \in {"done", "describe"}
      /\ at = "done" <=> old.op = "vector"
    BY DEF Late
<1>5. Amend(p, c2, j)
    BY <1>2
<1>6. ~overlapped => Doing(c, old)
    BY <1>1, <1>3, ImportIsAlone DEF Progress, Open
<1> HIDE DEF at, c
<1>7. /\ c2.tiles = c.tiles /\ c2.links = c.links
      /\ c2.selected = selected /\ c2.metadata = c.metadata
    BY <1>3 DEF ContainerType
<1>8. /\ j \in ImportJob /\ j.op = old.op /\ j.id = old.id /\ j.at = at /\ j.plan = old.plan
      /\ j.todo = old.todo /\ j.unlinked = old.unlinked
    BY <1>3, <1>4 DEF ImportJob
<1> HIDE DEF c2, j, old
<1>9. ASSUME ~overlapped PROVE Doing(c2, j)
    <2>1. Doing(c, old) /\ t[1] \in Slices(old.plan)
        BY <1>2, <1>6, <1>9 DEF Slices
    <2>2. Put(j) = Put(old)
        BY <1>8 DEF Put
    <2>3. HasDescribed(j) = HasDescribed(old) /\ HasSelected(j) /\ ~HasSelected(old)
        BY <1>1, <1>4, <1>8 DEF HasDescribed, HasSelected
    <2>4. old.todo = {} /\ old.unlinked = {}
        BY <1>1, <2>1 DEF Doing, HasDescribed
    <2>5. ASSUME ~leftover PROVE Exact(c2, j)
        <3>1. Exact(c, old)
            BY <2>1, <2>5 DEF Doing
        <3>2. selected \in Slices(kept) \union Slices(old.plan)
            BY <2>1, <2>3, <3>1 DEF Exact
        <3>3. Slices(kept \union old.plan) = Slices(kept) \union Slices(old.plan)
            BY DEF Slices
        <3> QED BY <1>7, <1>8, <2>2, <2>3, <3>1, <3>2, <3>3 DEF Exact
    <2> QED BY <1>1, <1>4, <1>7, <1>8, <2>1, <2>2, <2>3, <2>4, <2>5 DEF Doing
<1> QED BY <1>1, <1>4, <1>5, <1>8, <1>9, AmendKeepsImports DEF old

\* The zoom levels and frames of the plan are announced.
LEMMA DescribeKeepsImports ==
    ASSUME IInv, ImportsOk, NEW p \in Process, Describe(p)
    PROVE  ImportsOk'
<1> DEFINE old == job[p]
           c == Open(p)
           at == IF old.op = "vector" THEN "link" ELSE "done"
           j == [old EXCEPT !.at = at]
           metadata == Described(old, c.metadata)
           c2 == [c EXCEPT !.metadata = metadata]
<1>1. /\ old.op \in Import /\ old.at \in Late
      /\ \/ old.at = "describe"
         \/ old.at = "put" /\ old.todo = {} /\ old.op = "vector"
    BY DEF Describe, Working, Late
<1>2. Amend(p, c2, j)
    BY DEF Describe
<1>3. old \in ImportJob /\ c \in ContainerType /\ old.db = old.id
    BY <1>1, OwnContainer
<1>4. /\ at \in Late /\ at \in Early \union Late /\ at \in {"done", "link"}
      /\ at = "link" <=> old.op = "vector"
    BY DEF Late
<1>6. ~overlapped => Doing(c, old)
    BY <1>1, <1>3, ImportIsAlone DEF Progress, Open
<1> HIDE DEF at, c
<1>7. /\ c2.tiles = c.tiles /\ c2.links = c.links
      /\ c2.selected = c.selected /\ c2.metadata = metadata
    BY <1>3 DEF ContainerType
<1>8. /\ j \in ImportJob /\ j.op = old.op /\ j.id = old.id /\ j.at = at /\ j.plan = old.plan
      /\ j.todo = old.todo /\ j.unlinked = old.unlinked
    BY <1>3, <1>4 DEF ImportJob
<1> HIDE DEF c2, j, old, metadata
<1>9. ASSUME ~overlapped PROVE Doing(c2, j)
    <2>1. Doing(c, old)
        BY <1>6, <1>9
    <2>2. Put(j) = Put(old)
        BY <1>8 DEF Put
    <2>3. HasDescribed(j) /\ ~HasDescribed(old) /\ HasSelected(j) = HasSelected(old)
        BY <1>1, <1>4, <1>8, <2>1 DEF Doing, HasDescribed, HasSelected
    <2>4. old.todo = {} /\ (at = "done" => old.unlinked = {})
        BY <1>1, <1>4, <2>1 DEF Doing
    <2>5. ASSUME ~leftover PROVE Exact(c2, j)
        <3>1. Exact(c, old)
            BY <2>1, <2>5 DEF Doing
        <3>2. /\ metadata.zooms = c.metadata.zooms \union ZoomsOf(old.plan)
              /\ metadata.frames \subseteq c.metadata.frames \union Slices(old.plan)
            BY DEF metadata, Described, Slices
        <3>3. /\ ZoomsOf(kept \union old.plan) = ZoomsOf(kept) \union ZoomsOf(old.plan)
              /\ Slices(kept \union old.plan) = Slices(kept) \union Slices(old.plan)
            BY DEF ZoomsOf, Slices
        <3> QED BY <1>7, <1>8, <2>2, <2>3, <3>1, <3>2, <3>3 DEF Exact
    <2> QED BY <1>1, <1>4, <1>7, <1>8, <2>1, <2>2, <2>3, <2>4, <2>5 DEF Doing
<1> QED BY <1>1, <1>2, <1>4, <1>8, <1>9, AmendKeepsImports DEF old

\* The name, and what it is the name of, stay as they are.
LEMMA StayKeepsImports ==
    ASSUME IInv, ImportsOk, NEW p \in Process, NEW j, Become(p, j), "op" \in DOMAIN j,
           UNCHANGED <<target, containers, kept, overlapped>>,
           \A q \in Importing : q = p \/ overlapped,
           j.op \in Import => j.at \in Early /\ j.todo = j.plan,
           leftover => leftover',
           ~overlapped /\ ~leftover' /\ job[p].op \in Import => Aside(job[p])
    PROVE  ImportsOk'
<1>1. \A q \in Process : job'[q] = IF q = p THEN j ELSE job[q]
    BY DEF Become, IInv, Typed
<1>2. j.op \in Import => Progress(p)'
    BY <1>1 DEF Progress, Early, Late
<1>3. ASSUME ~overlapped, ~leftover', target # None PROVE Whole(containers[target], kept)
    <2>1. \A q \in Importing : Aside(job[q])
        BY <1>3 DEF Importing
    <2> QED BY <1>3, <2>1 DEF ImportsOk
<1>4. ~overlapped =>
          /\ target' = None => kept' = {}
          /\ target' # None => kept' \subseteq containers'[target'].links
          /\ ~leftover' /\ target' # None => Whole(containers'[target'], kept')
    BY <1>3 DEF ImportsOk
<1> QED BY <1>2, <1>4, ImportsKept

\* The target is unlinked, with all that was kept.
LEMMA ForgetKeepsImports ==
    ASSUME IInv, ImportsOk, NEW p \in Process, NEW j, Become(p, j), "op" \in DOMAIN j,
           Forget, UNCHANGED overlapped, \A q \in Importing : q = p \/ overlapped,
           j.op \in Import => j.at \in Early /\ j.todo = j.plan
    PROVE  ImportsOk'
<1>1. \A q \in Process : job'[q] = IF q = p THEN j ELSE job[q]
    BY DEF Become, IInv, Typed
<1>2. j.op \in Import => Progress(p)'
    BY <1>1 DEF Progress, Early, Late
<1>3. target' = None /\ kept' = {}
    BY DEF Forget
<1> QED BY <1>2, <1>3, ImportsKept

\* An import begins; when another is at work, the two overlap.
LEMMA StartKeepsImports ==
    ASSUME IInv, ImportsOk, NEW p \in Process, StartConvert(p) \/ StartVector(p) \/ StartMeteo(p)
    PROVE  ImportsOk'
<1>1. PICK op \in Import, at \in Early, tiles \in SUBSET Tile : BeginImport(p, op, at, tiles)
    <2>1. CASE StartConvert(p)
        BY <2>1 DEF StartConvert, Tile, Import, Early
    <2>2. CASE StartVector(p)
        BY <2>2 DEF StartVector, Tile, Import, Early
    <2>3. CASE StartMeteo(p)
        BY <2>3 DEF StartMeteo, Tile, Import, Early
    <2> QED BY <2>1, <2>2, <2>3
<1> DEFINE j == Importer(op, at, tiles)
<1>2. "op" \in DOMAIN j /\ j.op \in Import /\ j.at \in Early /\ j.todo = j.plan
    BY DEF Importer
<1> HIDE DEF j
<1>3. /\ job[p] = Idle /\ Become(p, j) /\ overlapped' = (overlapped \/ Importing # {})
      /\ UNCHANGED <<target, containers, kept, leftover>>
    BY <1>1 DEF BeginImport, MayBegin, j
<1>4. CASE overlapped \/ Importing # {}
    BY <1>3, <1>4 DEF ImportsOk
<1>5. CASE ~overlapped /\ Importing = {}
    <2>1. UNCHANGED overlapped
        <3>1. overlapped = FALSE
            BY <1>5 DEF IInv, Typed
        <3>2. overlapped' = FALSE
            BY <1>3, <1>5
        <3> QED BY <3>1, <3>2
    <2>2. job[p].op \notin Import
        BY <1>5 DEF Importing
    <2> QED BY <1>2, <1>3, <1>5, <2>1, <2>2, StayKeepsImports
<1> QED BY <1>4, <1>5

\* What an importer is before it has a container.
LEMMA EarlyJob ==
    ASSUME IInv, ImportsOk, NEW p \in Process, job[p].op \in Import, job[p].at \in Early
    PROVE  /\ job[p] \in ImportJob /\ ImportOk(p) /\ Aside(job[p]) /\ job[p].id \in Inode
           /\ \A q \in Importing : q = p \/ overlapped
           /\ ~overlapped => job[p].todo = job[p].plan
<1>1. job[p] \in ImportJob /\ ImportOk(p) /\ begun \in 0 .. MaxCommands /\ MaxCommands \in Nat
    BY JobKinds, BoundAssumption DEF IInv, ContainersOk, Typed
<1>2. job[p].id \in Inode
    BY <1>1 DEF ImportOk, Inode
<1> QED BY <1>1, <1>2, ImportIsAlone DEF Aside, Progress

\* The feature importers before they make a container.
LEMMA ParseKeepsImports ==
    ASSUME IInv, ImportsOk, NEW p \in Process, Unlink(p) \/ Parse(p) PROVE ImportsOk'
<1>1. job[p].op \in Import /\ job[p].at \in Early
    BY DEF Unlink, Parse, At, Import, Early
<1>2. /\ job[p] \in ImportJob /\ Aside(job[p]) /\ \A q \in Importing : q = p \/ overlapped
      /\ ~overlapped => job[p].todo = job[p].plan
    BY <1>1, EarlyJob
<1>3. PICK j : /\ Become(p, j) /\ "op" \in DOMAIN j
               /\ j.op \in Import => j.at \in Early /\ j.todo = job[p].todo /\ j.plan = job[p].plan
    <2>1. \A at \in {"parse", "create"} : LET j == [job[p] EXCEPT !.at = at] IN
              "op" \in DOMAIN j /\ j.at \in Early /\ j.todo = job[p].todo /\ j.plan = job[p].plan
        BY <1>2 DEF ImportJob, Early
    <2>2. "op" \in DOMAIN Idle /\ Idle.op \notin Import
        BY DEF Idle, Import
    <2> QED BY <2>1, <2>2 DEF Unlink, Parse, Finish
<1>4. UNCHANGED overlapped
    BY DEF Unlink, Parse, Unchanged
<1>5. CASE overlapped
    BY <1>4, <1>5 DEF ImportsOk
<1>6. CASE ~overlapped /\ Unlink(p)
    BY <1>2, <1>3, <1>4, <1>6, ForgetKeepsImports DEF Unlink
<1>7. CASE ~overlapped /\ Parse(p)
    <2>1. UNCHANGED <<target, containers, kept, leftover>>
        BY <1>7 DEF Parse, Stay
    <2> QED BY <1>2, <1>3, <1>4, <1>7, <2>1, StayKeepsImports
<1> QED BY <1>5, <1>6, <1>7

\* An import gets its container: an empty one, or a copy of the target.
LEMMA BeginWorkKeepsImports ==
    ASSUME IInv, ImportsOk, NEW p \in Process, job[p].op \in Import, job[p].at \in Early, Unchanged,
           Become(p, [job[p] EXCEPT !.at = "put", !.db = job[p].id]),
           NEW c, containers' = [containers EXCEPT ![job[p].id] = c], UNCHANGED <<kept, leftover>>,
           IF job[p].op = "meteo" THEN target' = target
           ELSE target = None /\ target' = job[p].id,
           c = IF target = None THEN Empty ELSE containers[target]
    PROVE  ImportsOk'
<1> DEFINE old == job[p]
           j == [old EXCEPT !.at = "put", !.db = old.id]
<1>1. /\ old \in ImportJob /\ ImportOk(p) /\ old.id \in Inode /\ Aside(old)
      /\ \A q \in Importing : q = p \/ overlapped
      /\ ~overlapped => old.todo = old.plan
    BY EarlyJob
<1>2. /\ "op" \in DOMAIN j /\ j.op = old.op /\ j.at = "put" /\ j.id = old.id /\ j.plan = old.plan
      /\ j.todo = old.todo /\ j.unlinked = {}
    BY <1>1 DEF ImportJob, ImportOk
<1>3. Become(p, j) /\ UNCHANGED overlapped
    BY DEF Unchanged
<1> HIDE DEF j
<1>4. \A q \in Process : job'[q] = IF q = p THEN j ELSE job[q]
    BY <1>3 DEF Become, IInv, Typed
<1>5. /\ target \in Inode \union {None} /\ target # old.id
      /\ \A i \in Inode : containers'[i] = IF i = old.id THEN c ELSE containers[i]
    BY <1>1 DEF IInv, Typed, ImportOk
<1>6. ASSUME ~overlapped
      PROVE  /\ target' = None => kept' = {}
             /\ target' # None => kept' \subseteq containers'[target'].links
             /\ j.op \in Import => Progress(p)'
             /\ ~leftover' /\ target' # None /\ (j.op \in Import => Aside(j))
                   => Whole(containers'[target'], kept')
    <2>1. (target = None => kept = {}) /\ (target # None => kept \subseteq containers[target].links)
        BY <1>6 DEF ImportsOk
    <2>2. ~leftover /\ target # None => Whole(containers[target], kept)
        BY <1>1, <1>6 DEF ImportsOk, Importing
    <2>3. Put(j) = {} /\ ~HasDescribed(j) /\ ~HasSelected(j)
        BY <1>1, <1>2, <1>6 DEF Put, HasDescribed, HasSelected
    <2>4. ASSUME ~leftover PROVE Exact(c, j)
        <3>1. CASE target = None
            <4>1. ZoomsOf({}) = {}
                BY DEF ZoomsOf
            <4> QED BY <2>1, <2>3, <3>1, <4>1 DEF Exact, Empty
        <3>2. CASE target # None
            BY <2>2, <2>3, <2>4, <3>2 DEF Exact, Whole
        <3> QED BY <3>1, <3>2
    <2>5. kept \subseteq c.links
        BY <2>1 DEF Empty
    <2>6. Doing(c, j)
        BY <1>1, <1>2, <1>6, <2>3, <2>4, <2>5 DEF Doing
    <2>7. Doing(c, j) => Doing(containers[job[p].id], job[p])'
        BY <1>1, <1>2, <1>4, <1>5 DEF Doing, Exact
    <2>8. IF j.op = "meteo" THEN target' # j.id ELSE target' = j.id
        BY <1>2, <1>5
    <2>9. Progress(p)'
        BY <1>2, <1>4, <2>6, <2>7, <2>8 DEF Progress, Early
    <2>10. target' # None => kept \subseteq containers'[target'].links
        BY <1>1, <1>5, <2>1, <2>5
    <2>11. old.id # None
        BY <1>1, NoneAssumption, BoundAssumption DEF Inode
    <2>12. ASSUME ~leftover, target' # None, Aside(j) PROVE Whole(containers'[target'], kept)
        <3>1. target' = target
            BY <1>2, <2>12 DEF Aside, Early
        <3> QED BY <1>5, <2>2, <2>12, <3>1
    <2> QED BY <1>1, <1>2, <2>1, <2>9, <2>10, <2>11, <2>12
<1> HIDE DEF old
<1> QED BY <1>1, <1>2, <1>3, <1>6, ImportsKept

\* A container is made under the name, or refused.
LEMMA CreateKeepsImports == ASSUME IInv, ImportsOk, NEW p \in Process, Create(p) PROVE ImportsOk'
<1>1. job[p].op \in Import /\ job[p].op # "meteo" /\ job[p].at \in Early /\ Unchanged
    BY DEF Create, At, Import, Early
<1>2. "op" \in DOMAIN Idle /\ Idle.op \notin Import
    BY DEF Idle, Import
<1>3. CASE target = None
    BY <1>1, <1>3, BeginWorkKeepsImports DEF Create, Commit
<1>4. CASE target # None
    <2>1. Become(p, Idle) /\ UNCHANGED <<containers, overlapped>>
        BY <1>1, <1>4 DEF Create, Finish, Unchanged
    <2>2. \/ Forget
          \/ UNCHANGED <<target, kept, leftover>>
        BY <1>4 DEF Create, Stay
    <2>3. Aside(job[p]) /\ \A q \in Importing : q = p \/ overlapped
        BY <1>1, EarlyJob
    <2>4. CASE Forget
        BY <1>2, <2>1, <2>3, <2>4, ForgetKeepsImports
    <2>5. CASE UNCHANGED <<target, kept, leftover>>
        BY <1>2, <2>1, <2>3, <2>5, StayKeepsImports
    <2> QED BY <2>2, <2>4, <2>5
<1> QED BY <1>3, <1>4

\* The staging file has what the target has.
LEMMA StageKeepsImports == ASSUME IInv, ImportsOk, NEW p \in Process, Stage(p) PROVE ImportsOk'
BY BeginWorkKeepsImports DEF Stage, At, Import, Early, Stay

\* The plan is done.
LEMMA DeliverKeepsImports ==
    ASSUME IInv, ImportsOk, NEW p \in Process, Deliver(p)
    PROVE  ImportsOk'
<1> DEFINE old == job[p]
<1>1. /\ old.op \in Import /\ old.at = "done" /\ old.at \in Late /\ Become(p, Idle)
      /\ UNCHANGED <<containers, leftover, overlapped>> /\ kept' = kept \union old.plan
      /\ target' = IF old.op = "meteo" THEN old.db ELSE target
    BY DEF Deliver, Working, Late, Finish, Unchanged
<1>2. "op" \in DOMAIN Idle /\ Idle.op \notin Import
    BY DEF Idle, Import
<1>3. \A q \in Importing : q = p \/ overlapped
    BY <1>1, ImportIsAlone
<1>4. ASSUME ~overlapped
      PROVE  /\ target' = None => kept' = {}
             /\ target' # None => kept' \subseteq containers'[target'].links
             /\ ~leftover' /\ target' # None => Whole(containers'[target'], kept')
    <2>1. Progress(p) /\ old.id \in Inode /\ old.db = old.id
        BY <1>1, <1>4, ImportIsAlone
    <2>2. target' = old.id /\ target' # None
        BY <1>1, <2>1, NoneAssumption, BoundAssumption DEF Progress, Inode
    <2>3. Doing(containers[old.id], old)
        BY <1>1, <2>1 DEF Progress
    <2>4. Put(old) = old.plan /\ old.unlinked = {} /\ HasDescribed(old) /\ HasSelected(old)
        BY <1>1, <2>3 DEF Doing, Put, HasDescribed, HasSelected
    <2>5. kept' \subseteq containers[old.id].links
        BY <1>1, <2>3, <2>4 DEF Doing
    <2>6. ~leftover => Whole(containers[old.id], kept')
        BY <1>1, <2>3, <2>4 DEF Doing, Exact, Whole
    <2> QED BY <1>1, <2>2, <2>5, <2>6
<1> HIDE DEF old
<1> QED BY <1>1, <1>2, <1>3, <1>4, ImportsKept

\* An import that ends too early, by itself or killed: of what it made under the name there
\* is a leftover.
LEMMA EndKeepsImports ==
    ASSUME IInv, ImportsOk, NEW p \in Process, job[p].op \in Import, Become(p, Idle),
           UNCHANGED <<containers, overlapped>>,
           Forget \/ (leftover' = (leftover \/ Abandons(p)) /\ UNCHANGED <<target, kept>>)
    PROVE  ImportsOk'
<1>1. "op" \in DOMAIN Idle /\ Idle.op \notin Import
    BY DEF Idle, Import
<1>2. \A q \in Importing : q = p \/ overlapped
    BY ImportIsAlone
<1>3. CASE Forget
    BY <1>1, <1>2, <1>3, ForgetKeepsImports
<1>4. CASE leftover' = (leftover \/ Abandons(p)) /\ UNCHANGED <<target, kept>>
    <2>1. ASSUME ~overlapped, ~Abandons(p) PROVE Aside(job[p])
        <3>1. job[p] \in ImportJob /\ Progress(p)
            BY <2>1, ImportIsAlone
        <3>2. CASE job[p].at \in Late
            <4>1. job[p].id \in Inode /\ job[p].db = job[p].id
                BY <2>1, <3>2, ImportIsAlone
            <4>2. job[p].id # None
                BY <4>1, NoneAssumption, BoundAssumption DEF Inode
            <4> QED BY <2>1, <3>1, <3>2, <4>1, <4>2 DEF Progress, Abandons, Aside, Import
        <3>3. CASE job[p].at \in Early
            BY <3>3 DEF Aside
        <3> QED BY <3>1, <3>2, <3>3 DEF ImportJob
    <2> QED BY <1>1, <1>2, <1>4, <2>1, StayKeepsImports
<1> QED BY <1>3, <1>4

\* Every step of an importer.
LEMMA ImportStepKeepsImports ==
    ASSUME IInv, ImportsOk, NEW p \in Process, ImportStep(p) PROVE ImportsOk'
<1>1. CASE FailImport(p)
    BY <1>1, EndKeepsImports DEF FailImport, Finish, Unchanged
<1> QED BY <1>1, StartKeepsImports, ParseKeepsImports, CreateKeepsImports, StageKeepsImports,
           PutKeepsImports, LinkKeepsImports, SelectKeepsImports, DescribeKeepsImports,
           DeliverKeepsImports DEF ImportStep

\* Only signatures are added to a container by another tool than an import.
LEMMA ToolsKeepContainers ==
    ASSUME IInv, NEW p \in Process, SignStep(p) \/ ExportStep(p) \/ ProtectionStep(p)
    PROVE  \A i \in Inode : /\ containers'[i].tiles = containers[i].tiles
                            /\ containers'[i].links = containers[i].links
                            /\ containers'[i].selected = containers[i].selected
                            /\ containers'[i].metadata = containers[i].metadata
<1>1. CASE Sign(p)
    <2>1. PICK signatures :
              \/ containers' = containers
              \/ containers' = [containers EXCEPT ![job[p].db].signatures = signatures]
        BY <1>1 DEF Sign
    <2>2. ASSUME NEW i \in Inode, containers' = [containers EXCEPT ![job[p].db].signatures = signatures]
          PROVE  /\ containers'[i].tiles = containers[i].tiles
                 /\ containers'[i].links = containers[i].links
                 /\ containers'[i].selected = containers[i].selected
                 /\ containers'[i].metadata = containers[i].metadata
        BY <2>2 DEF IInv, Typed, ContainerType
    <2> QED BY <2>1, <2>2
<1>2. CASE ~Sign(p)
    <2>1. containers' = containers
        BY <1>2 DEF SignStep, StartSign, ReadTable, FindManifest,
           ExportStep, StartExport, ReadZooms, ReadRows, LinkExport,
           ProtectionStep, StartProtect, WriteHeader, WriteBody, WriteKey, StartIssue, Issue,
           StartDecrypt, OpenPackage, Stream, CheckDigest, Start, Continue
    <2> QED BY <2>1
<1> QED BY <1>1, <1>2

Protects(p) ==
    StartProtect(p) \/ WriteHeader(p) \/ WriteBody(p) \/ WriteKey(p) \/ StartIssue(p) \/ Issue(p)

Decrypts(p) == StartDecrypt(p) \/ OpenPackage(p) \/ Stream(p) \/ CheckDigest(p)

\* The job of a tool of these, or of none.
Is(j, ops) == "op" \in DOMAIN j /\ j.op \in ops \union {"idle"}

\* A process begins or goes on with a tool of these, or ends.
Goes(p, ops) == Is(job[p], ops) /\ \E j : Become(p, j) /\ Is(j, ops)

\* An idle process may do anything.
LEMMA IdleIs == \A ops : Is(Idle, ops)
BY DEF Is, Idle

\* The steps of a signer.
LEMMA SignGoes == ASSUME IInv, NEW p \in Process, SignStep(p) PROVE Goes(p, {"sign"})
<1>1. "op" \in DOMAIN job[p] /\ Is(Idle, {"sign"})
    BY JobKinds, IdleIs DEF IInv
<1>2. CASE StartSign(p)
    <2>1. job[p] = Idle
        BY <1>2 DEF StartSign, MayBegin
    <2>2. \E j : Become(p, j) /\ Is(j, {"sign"})
        BY <1>2 DEF StartSign, Proceed, Is
    <2> QED BY <1>1, <2>1, <2>2 DEF Goes
<1>3. CASE ReadTable(p)
    <2>1. Is(job[p], {"sign"})
        BY <1>1, <1>3 DEF ReadTable, Reading, Is
    <2>2. \A at, x, y : Is([job[p] EXCEPT !.seen = x, !.at = at], {"sign"})
        BY <2>1 DEF Is
    <2> QED BY <1>1, <1>3, <2>1, <2>2 DEF ReadTable, Proceed, Goes
<1>4. CASE FindManifest(p)
    <2>1. Is(job[p], {"sign"})
        BY <1>1, <1>4 DEF FindManifest, Reading, Is
    <2>2. \A at, x, y : Is([job[p] EXCEPT !.at = at], {"sign"})
        BY <2>1 DEF Is
    <2> QED BY <1>1, <1>4, <2>1, <2>2 DEF FindManifest, Proceed, Goes
<1>5. CASE Sign(p)
    <2>1. Is(job[p], {"sign"})
        BY <1>1, <1>5 DEF Sign, Reading, Is
    <2> QED BY <1>1, <1>5, <2>1 DEF Sign, Proceed, Goes
<1> QED BY <1>2, <1>3, <1>4, <1>5 DEF SignStep

\* The steps of an exporter.
LEMMA ExportGoes == ASSUME IInv, NEW p \in Process, ExportStep(p) PROVE Goes(p, {"export"})
<1>1. "op" \in DOMAIN job[p] /\ Is(Idle, {"export"})
    BY JobKinds, IdleIs DEF IInv
<1>2. CASE StartExport(p)
    <2>1. job[p] = Idle
        BY <1>2 DEF StartExport, MayBegin
    <2>2. \E j : Become(p, j) /\ Is(j, {"export"})
        BY <1>2 DEF StartExport, Is
    <2> QED BY <1>1, <2>1, <2>2 DEF Goes
<1>3. CASE ReadZooms(p)
    <2>1. Is(job[p], {"export"})
        BY <1>1, <1>3 DEF ReadZooms, Exports, Is
    <2>2. \A at, x, y : Is([job[p] EXCEPT !.at = at, !.zooms = x, !.since = y], {"export"})
        BY <2>1 DEF Is
    <2> QED BY <1>1, <1>3, <2>1, <2>2 DEF ReadZooms, Goes
<1>4. CASE ReadRows(p)
    <2> DEFINE quiet == version[job[p].db] = job[p].since
               rows == SliceTiles(Open(p), job[p].slice)
    <2>1. Is(job[p], {"export"})
        BY <1>1, <1>4 DEF ReadRows, Exports, Is
    <2>2. Become(p, [job[p] EXCEPT !.at = "link", !.rows = rows, !.quiet = quiet])
        BY <1>4 DEF ReadRows
    <2> HIDE DEF quiet, rows
    <2>3. Is([job[p] EXCEPT !.at = "link", !.rows = rows, !.quiet = quiet], {"export"})
        BY <2>1 DEF Is
    <2> QED BY <2>1, <2>2, <2>3 DEF Goes
<1>5. CASE LinkExport(p)
    <2>1. Is(job[p], {"export"})
        BY <1>1, <1>5 DEF LinkExport, Exports, Is
    <2> QED BY <1>1, <1>5, <2>1 DEF LinkExport, Finish, Goes
<1> QED BY <1>2, <1>3, <1>4, <1>5 DEF ExportStep

\* The steps of protect and issue-license.
LEMMA ProtectGoes ==
    ASSUME IInv, NEW p \in Process, Protects(p)
    PROVE  Goes(p, {"protect", "issue"})
<1>1. "op" \in DOMAIN job[p] /\ Is(Idle, {"protect", "issue"})
    BY JobKinds, IdleIs DEF IInv
<1>2. CASE StartProtect(p)
    <2>1. job[p] = Idle
        BY <1>2 DEF StartProtect, Start, MayBegin
    <2>2. \E j : Become(p, j) /\ Is(j, {"protect", "issue"})
        BY <1>2 DEF StartProtect, Start, Is
    <2> QED BY <1>1, <2>1, <2>2 DEF Goes
<1>3. CASE StartIssue(p)
    <2>1. job[p] = Idle
        BY <1>3 DEF StartIssue, Start, MayBegin
    <2>2. \E j : Become(p, j) /\ Is(j, {"protect", "issue"})
        BY <1>3 DEF StartIssue, Start, Is
    <2> QED BY <1>1, <2>1, <2>2 DEF Goes
<1>4. CASE WriteHeader(p)
    <2>1. Is(job[p], {"protect", "issue"})
        BY <1>1, <1>4 DEF WriteHeader, Does, Is
    <2>2. \A at, x, y : Is([job[p] EXCEPT !.at = at, !.db = x], {"protect", "issue"})
        BY <2>1 DEF Is
    <2> QED BY <1>1, <1>4, <2>1, <2>2 DEF WriteHeader, Continue, Goes
<1>5. CASE WriteBody(p)
    <2>1. Is(job[p], {"protect", "issue"})
        BY <1>1, <1>5 DEF WriteBody, Does, Is
    <2>2. \A at, x, y : Is([job[p] EXCEPT !.at = at], {"protect", "issue"})
        BY <2>1 DEF Is
    <2> QED BY <1>1, <1>5, <2>1, <2>2 DEF WriteBody, Continue, Goes
<1>6. CASE WriteKey(p)
    <2>1. Is(job[p], {"protect", "issue"})
        BY <1>1, <1>6 DEF WriteKey, Does, Is
    <2> QED BY <1>1, <1>6, <2>1 DEF WriteKey, Continue, Goes
<1>7. CASE Issue(p)
    <2>1. Is(job[p], {"protect", "issue"})
        BY <1>1, <1>7 DEF Issue, Does, Is
    <2> QED BY <1>1, <1>7, <2>1 DEF Issue, Continue, Goes
<1> QED BY <1>2, <1>3, <1>4, <1>5, <1>6, <1>7 DEF Protects

\* The steps of decrypt.
LEMMA DecryptGoes == ASSUME IInv, NEW p \in Process, Decrypts(p) PROVE Goes(p, {"decrypt"})
<1>1. "op" \in DOMAIN job[p] /\ Is(Idle, {"decrypt"})
    BY JobKinds, IdleIs DEF IInv
<1>2. CASE StartDecrypt(p)
    <2>1. job[p] = Idle
        BY <1>2 DEF StartDecrypt, Start, MayBegin
    <2>2. \E j : Become(p, j) /\ Is(j, {"decrypt"})
        BY <1>2 DEF StartDecrypt, Start, Is
    <2> QED BY <1>1, <2>1, <2>2 DEF Goes
<1>3. CASE OpenPackage(p)
    <2>1. Is(job[p], {"decrypt"})
        BY <1>1, <1>3 DEF OpenPackage, Does, Is
    <2>2. \A at, x, y : Is([job[p] EXCEPT !.at = at, !.package = x], {"decrypt"})
        BY <2>1 DEF Is
    <2> QED BY <1>1, <1>3, <2>1, <2>2 DEF OpenPackage, Continue, Goes
<1>4. CASE Stream(p)
    <2>1. Is(job[p], {"decrypt"})
        BY <1>1, <1>4 DEF Stream, Does, Is
    <2>2. \A at, x, y : Is([job[p] EXCEPT !.at = at, !.good = x], {"decrypt"})
        BY <2>1 DEF Is
    <2> QED BY <1>1, <1>4, <2>1, <2>2 DEF Stream, Continue, Goes
<1>5. CASE CheckDigest(p)
    <2>1. Is(job[p], {"decrypt"})
        BY <1>1, <1>5 DEF CheckDigest, Does, Is
    <2> QED BY <1>1, <1>5, <2>1 DEF CheckDigest, Continue, Goes
<1> QED BY <1>2, <1>3, <1>4, <1>5 DEF Decrypts

\* The steps of an importer.
LEMMA ImportGoes == ASSUME IInv, NEW p \in Process, ImportStep(p) PROVE Goes(p, Import)
<1>1. "op" \in DOMAIN job[p] /\ Is(Idle, Import)
    BY JobKinds, IdleIs DEF IInv
<1>2. CASE StartConvert(p) \/ StartVector(p) \/ StartMeteo(p)
    <2>1. PICK op \in Import : \E at, tiles : BeginImport(p, op, at, tiles)
        BY <1>2 DEF StartConvert, StartVector, StartMeteo, Import
    <2>2. \A at, tiles : Is(Importer(op, at, tiles), Import)
        BY DEF Importer, Is
    <2> QED BY <1>1, <2>1, <2>2 DEF BeginImport, MayBegin, Goes
<1>3. CASE Unlink(p)
    <2>1. Is(job[p], Import)
        BY <1>1, <1>3 DEF Unlink, At, Import, Is
    <2>2. \A at, x, y : Is([job[p] EXCEPT !.at = at], Import)
        BY <2>1 DEF Is
    <2> QED BY <1>1, <1>3, <2>1, <2>2 DEF Unlink, Goes
<1>4. CASE Parse(p)
    <2>1. Is(job[p], Import)
        BY <1>1, <1>4 DEF Parse, At, Import, Is
    <2>2. \A at, x, y : Is([job[p] EXCEPT !.at = at], Import)
        BY <2>1 DEF Is
    <2> QED BY <1>1, <1>4, <2>1, <2>2 DEF Parse, Finish, Goes
<1>5. CASE Create(p)
    <2>1. Is(job[p], Import)
        BY <1>1, <1>5 DEF Create, At, Import, Is
    <2>2. \A at, x, y : Is([job[p] EXCEPT !.at = at, !.db = x], Import)
        BY <2>1 DEF Is
    <2> QED BY <1>1, <1>5, <2>1, <2>2 DEF Create, Finish, Goes
<1>6. CASE Stage(p)
    <2>1. Is(job[p], Import)
        BY <1>1, <1>6 DEF Stage, At, Import, Is
    <2>2. \A at, x, y : Is([job[p] EXCEPT !.at = at, !.db = x], Import)
        BY <2>1 DEF Is
    <2> QED BY <1>1, <1>6, <2>1, <2>2 DEF Stage, Goes
<1>7. CASE PutTile(p)
    <2>1. Is(job[p], Import)
        BY <1>1, <1>7 DEF PutTile, Working, Is
    <2>2. \A at, x, y : Is([job[p] EXCEPT !.todo = x, !.unlinked = y, !.at = at], Import)
        BY <2>1 DEF Is
    <2> QED BY <1>1, <1>7, <2>1, <2>2 DEF PutTile, Amend, Goes
<1>8. CASE LinkTile(p)
    <2>1. Is(job[p], Import)
        BY <1>1, <1>8 DEF LinkTile, Working, Is
    <2>2. \A at, x, y : Is([job[p] EXCEPT !.unlinked = y, !.at = at], Import)
        BY <2>1 DEF Is
    <2> QED BY <1>1, <1>8, <2>1, <2>2 DEF LinkTile, Amend, Goes
<1>9. CASE Select(p)
    <2>1. Is(job[p], Import)
        BY <1>1, <1>9 DEF Select, Working, Is
    <2>2. \A at, x, y : Is([job[p] EXCEPT !.at = at], Import)
        BY <2>1 DEF Is
    <2> QED BY <1>1, <1>9, <2>1, <2>2 DEF Select, Amend, Goes
<1>10. CASE Describe(p)
    <2>1. Is(job[p], Import)
        BY <1>1, <1>10 DEF Describe, Working, Is
    <2>2. \A at, x, y : Is([job[p] EXCEPT !.at = at], Import)
        BY <2>1 DEF Is
    <2> QED BY <1>1, <1>10, <2>1, <2>2 DEF Describe, Amend, Goes
<1>11. CASE Deliver(p)
    <2>1. Is(job[p], Import)
        BY <1>1, <1>11 DEF Deliver, Working, Is
    <2> QED BY <1>1, <1>11, <2>1 DEF Deliver, Finish, Goes
<1>12. CASE FailImport(p)
    <2>1. Is(job[p], Import)
        BY <1>1, <1>12 DEF FailImport, Import, Is
    <2> QED BY <1>1, <1>12, <2>1 DEF FailImport, Finish, Goes
<1> QED BY <1>2, <1>3, <1>4, <1>5, <1>6, <1>7, <1>8, <1>9, <1>10, <1>11, <1>12 DEF ImportStep

\* A tool that is no import does not become one.
LEMMA ToolsAreNoImports ==
    ASSUME IInv, NEW p \in Process, SignStep(p) \/ ExportStep(p) \/ ProtectionStep(p)
    PROVE  job[p].op \notin Import /\ \E j : Become(p, j) /\ "op" \in DOMAIN j /\ j.op \notin Import
<1>1. ProtectionStep(p) <=> Protects(p) \/ Decrypts(p)
    BY DEF ProtectionStep, Protects, Decrypts
<1> QED BY <1>1, SignGoes, ExportGoes, ProtectGoes, DecryptGoes DEF Goes, Is, Import

\* Every step.
LEMMA NextKeepsImports == ASSUME IInv, ImportsOk, [Next]_vars PROVE ImportsOk'
<1>1. CASE UNCHANGED vars
    BY <1>1 DEF vars, history, ImportsOk, Importing, Progress, Doing, Exact, Whole, Aside, Put
<1>2. CASE Next
    <2>1. PICK p \in Process : \/ ImportStep(p) \/ SignStep(p) \/ ExportStep(p) \/ ProtectionStep(p)
                               \/ Kill(p)
        BY <1>2 DEF Next
    <2>2. CASE ImportStep(p)
        BY <2>2, ImportStepKeepsImports
    <2>3. CASE SignStep(p) \/ ExportStep(p) \/ ProtectionStep(p)
        <3>1. PICK j : Become(p, j) /\ "op" \in DOMAIN j /\ j.op \notin Import
            BY <2>3, ToolsAreNoImports
        <3>2. job[p].op \notin Import /\ containers' \in [Inode -> ContainerType]
            BY <2>3, NextKeeps, ToolsAreNoImports DEF IInv, Typed
        <3>3. UNCHANGED <<target, kept, overlapped, leftover>>
            BY <2>3 DEF SignStep, StartSign, ReadTable, FindManifest, Sign, Proceed,
               ExportStep, StartExport, ReadZooms, ReadRows, LinkExport,
               ProtectionStep, StartProtect, WriteHeader, WriteBody, WriteKey, StartIssue, Issue,
               StartDecrypt, OpenPackage, Stream, CheckDigest, Start, Continue, history
        <3> QED BY <2>3, <3>1, <3>2, <3>3, ToolsKeepContainers, OthersKeepImports
    <2>4. CASE Kill(p)
        <3>1. /\ Become(p, Idle) /\ UNCHANGED <<target, containers, kept, overlapped>>
              /\ leftover' = (leftover \/ Abandons(p))
            BY <2>4 DEF Kill, Finish
        <3>2. CASE job[p].op \in Import
            BY <3>1, <3>2, EndKeepsImports
        <3>3. CASE job[p].op \notin Import
            <4>1. "op" \in DOMAIN Idle /\ Idle.op \notin Import
                BY DEF Idle, Import
            <4>2. containers' \in [Inode -> ContainerType]
                BY <3>1 DEF IInv, Typed
            <4> QED BY <3>1, <3>3, <4>1, <4>2, OthersKeepImports
        <3> QED BY <3>2, <3>3
    <2> QED BY <2>1, <2>2, <2>3, <2>4
<1> QED BY <1>1, <1>2

\* Both invariants together.
LEMMA ImportsInvariance == Spec => [](IInv /\ ImportsOk)
<1>1. Init => IInv /\ ImportsOk
    BY InitIInv, InitImports
<1>2. (IInv /\ ImportsOk) /\ [Next]_vars => (IInv /\ ImportsOk)'
    BY NextKeeps, NextKeepsImports
<1> QED BY <1>1, <1>2, PTL DEF Spec

\* What finished imports put and linked is in the container under the name, whatever later
\* imports did, unless it was unlinked or two imports overlapped (src/utils/common.py,
\* _vector_import.py, meteouniparthenope2datatiles.py).
THEOREM ImportsStay == Spec => []FinishedImportsStay
<1>1. IInv /\ ImportsOk => FinishedImportsStay
    <2> SUFFICES ASSUME IInv, ImportsOk, ~overlapped, target # None
                 PROVE  kept \subseteq containers[target].tiles \intersect containers[target].links
        BY DEF FinishedImportsStay
    <2>1. target \in Inode /\ kept \subseteq containers[target].links
        BY DEF ImportsOk, IInv, Typed
    <2>2. containers[target].links \subseteq containers[target].tiles
        BY <2>1 DEF IInv, ContainersOk, LinksAreThere
    <2> QED BY <2>1, <2>2
<1> QED BY <1>1, ImportsInvariance, PTL

\* While at most a forecast import runs, no two ran at once and none of the importers that
\* work under the name gave up half way, the container under the name is what finished
\* imports make: every tile linked, the zoom levels announced, no frame without tiles, a
\* slice with tiles selected.
THEOREM TargetIsImported == Spec => []TargetIsWhatWasImported
<1>1. IInv /\ ImportsOk => TargetIsWhatWasImported
    <2> SUFFICES ASSUME ImportsOk, ~overlapped, ~leftover, target # None,
                        \A p \in Importing : job[p].op = "meteo"
                 PROVE  Whole(containers[target], kept)
        BY DEF TargetIsWhatWasImported, Whole, Slices
    <2>1. \A p \in Importing : Aside(job[p])
        BY DEF Aside
    <2> QED BY <2>1 DEF ImportsOk
<1> QED BY <1>1, ImportsInvariance, PTL
-----------------------------------------------------------------------------
(***************************************************************************)
(* Exports.                                                                *)
(***************************************************************************)

\* No import is about to make the container of this inode.
Held(i) == i \in Inode /\ i <= begun /\ \A q \in Importing : job[q].at \in Early => i # job[q].id

Extends(c, d) ==
    c.tiles \subseteq d.tiles /\ c.links \subseteq d.links /\ c.signatures \subseteq d.signatures

\* A container that is there only gets tiles, links and signatures, and what manifests
\* are about changes with its version.
Grows(i) ==
    /\ Extends(containers[i], containers'[i])
    /\ version'[i] >= version[i]
    /\ version'[i] = version[i] =>
          /\ containers'[i].tiles = containers[i].tiles
          /\ Manifest(containers'[i]) = Manifest(containers[i])

LowestIn(f, zooms, tiles) ==
    \A z \in zooms : (\A x \in zooms : z <= x) => <<f, z>> \in tiles

ExportJob ==
    [op : {"export"}, at : {"zooms", "rows", "link"}, id : Nat, db : Inode, slice : Input,
     since : Nat \union {None}, zooms : SUBSET Zoom, rows : SUBSET Tile, quiet : BOOLEAN]

ExportOk(p) ==
    LET j == job[p] IN
    j.op = "export" =>
        /\ j \in ExportJob /\ Held(j.db)
        /\ j.at = "rows" =>
              /\ j.since \in Nat /\ j.since <= version[j.db]
              /\ LowestIn(j.slice, j.zooms, containers[j.db].tiles)
              /\ version[j.db] = j.since =>
                    j.zooms = Span(ZoomsOf(SliceTiles(containers[j.db], j.slice)))
        /\ j.at = "link" =>
              /\ LowestIn(j.slice, j.zooms, j.rows)
              /\ j.quiet => j.zooms = Span(ZoomsOf(j.rows))

ExportFileOk ==
    files.export # None =>
        /\ LowestIn(files.export.slice, files.export.zooms, files.export.rows)
        /\ files.export.quiet => files.export.zooms = Span(ZoomsOf(files.export.rows))

ExportsOk == ExportFileOk /\ \A p \in Process : ExportOk(p)

\* The bound on commands.
LEMMA StartsAgree ==
    ASSUME IInv
    PROVE  begun \in Nat /\ begun <= MaxCommands /\ MaxCommands \in Nat
BY BoundAssumption DEF IInv, Typed

\* A step that makes no container, and puts nothing into one.
LEMMA HeldFrame ==
    ASSUME IInv, NEW i, Held(i), NEW p \in Process, NEW j, Become(p, j),
           j.op \in Import => \/ j.at \notin Early
                              \/ job[p].op \in Import /\ job[p].at \in Early /\ j.id = job[p].id,
           begun' \in Nat, begun' >= begun
    PROVE  Held(i)'
<1>1. \A q \in Process : job'[q] = IF q = p THEN j ELSE job[q]
    BY DEF Become, IInv, Typed
<1>2. \A q \in Importing' : job'[q].at \in Early =>
          \E r \in Importing : job[r].at \in Early /\ job[r].id = job'[q].id
    BY <1>1 DEF Importing
<1>3. i <= begun'
    BY StartsAgree DEF Held, Inode
<1> QED BY <1>2, <1>3 DEF Held

\* A commit of an import raises the version of its container.
LEMMA AmendGrows ==
    ASSUME IInv, NEW i, Held(i), NEW p \in Process, job[p].op \in Import, job[p].at \in Late,
           NEW c, NEW j, j.at \in Late, Amend(p, c, j), Extends(Open(p), c)
    PROVE  Held(i)' /\ Grows(i)
<1>1. /\ Become(p, j) /\ begun' = begun /\ j.at \notin Early
      /\ containers' = [containers EXCEPT ![job[p].db] = c]
      /\ version' = [version EXCEPT ![job[p].db] = @ + 1]
    BY DEF Amend, Unchanged, Commit, Early, Late
<1>2. Held(i)'
    BY <1>1, HeldFrame, StartsAgree
<1>3. /\ i \in Inode /\ version[i] \in Nat
      /\ containers'[i] = IF i = job[p].db THEN c ELSE containers[i]
      /\ version'[i] = IF i = job[p].db THEN version[i] + 1 ELSE version[i]
    BY <1>1 DEF Held, IInv, Typed
<1> QED BY <1>2, <1>3 DEF Grows, Extends, Open

\* Imports make containers that nobody holds, and add tiles to those that are there.
LEMMA ImportGrows ==
    ASSUME IInv, NEW i, Held(i), NEW p \in Process, ImportStep(p) PROVE Held(i)' /\ Grows(i)
<1>1. begun \in Nat /\ i \in Inode /\ version[i] \in Nat
    BY StartsAgree DEF Held, IInv, Typed
<1>2. Idle.op \notin Import
    BY DEF Idle, Import
<1>3. CASE StartConvert(p) \/ StartVector(p) \/ StartMeteo(p)
    <2>1. PICK op, at, tiles : BeginImport(p, op, at, tiles)
        BY <1>3 DEF StartConvert, StartVector, StartMeteo
    <2> DEFINE j == Importer(op, at, tiles)
    <2>2. j.id = begun + 1
        BY DEF Importer
    <2> HIDE DEF j
    <2>3. Become(p, j) /\ begun' = begun + 1 /\ UNCHANGED <<containers, version>>
        BY <2>1 DEF BeginImport, j
    <2>4. \A q \in Process : job'[q] = IF q = p THEN j ELSE job[q]
        BY <2>3 DEF Become, IInv, Typed
    <2>5. i <= begun' /\ i # begun + 1
        BY <1>1, <2>3 DEF Held, Inode
    <2>6. \A q \in Importing' : job'[q].at \in Early => i # job'[q].id
        BY <2>2, <2>4, <2>5 DEF Held, Importing
    <2> QED BY <1>1, <2>3, <2>5, <2>6 DEF Held, Grows, Extends
<1>4. ASSUME Become(p, Idle), UNCHANGED <<containers, version, begun>> PROVE Held(i)' /\ Grows(i)
    BY <1>1, <1>2, <1>4, HeldFrame DEF Grows, Extends
<1>5. CASE Unlink(p) \/ Parse(p)
    <2>1. job[p].op \in Import /\ job[p].at \in Early
        BY <1>5 DEF Unlink, Parse, At, Import, Early
    <2>2. job[p] \in ImportJob
        BY <2>1, JobKinds DEF IInv
    <2>3. \A at : LET j == [job[p] EXCEPT !.at = at] IN j.id = job[p].id
        BY <2>2 DEF ImportJob
    <2>4. UNCHANGED <<containers, version, begun>>
        BY <1>5 DEF Unlink, Parse, Unchanged
    <2>5. PICK j : Become(p, j) /\ (j = Idle \/ j.id = job[p].id)
        BY <1>5, <2>3 DEF Unlink, Parse, Finish
    <2> QED BY <1>1, <1>2, <2>1, <2>4, <2>5, HeldFrame DEF Grows, Extends
<1>6. CASE Create(p) \/ Stage(p)
    <2>1. job[p].op \in Import /\ job[p].at \in Early /\ begun' = begun
        BY <1>6 DEF Create, Stage, At, Import, Early, Unchanged
    <2>2. job[p] \in ImportJob
        BY <2>1, JobKinds DEF IInv
    <2> DEFINE j == [job[p] EXCEPT !.at = "put", !.db = job[p].id]
    <2>3. j.at \notin Early
        BY <2>2 DEF ImportJob, Early
    <2> HIDE DEF j
    <2>4. CASE Become(p, Idle) /\ UNCHANGED <<containers, version>>
        BY <1>4, <2>1, <2>4
    <2>5. CASE ~(Become(p, Idle) /\ UNCHANGED <<containers, version>>)
        <3>1. PICK c, v : /\ Become(p, j)
                          /\ containers' = [containers EXCEPT ![job[p].id] = c]
                          /\ version' = [version EXCEPT ![job[p].id] = v]
            <4>1. CASE Stage(p)
                BY <4>1 DEF Stage, j
            <4>2. CASE Create(p)
                BY <2>5, <4>2 DEF Create, Commit, Finish, j
            <4> QED BY <1>6, <4>1, <4>2
        <3>2. i # job[p].id
            BY <2>1 DEF Held, Importing
        <3>3. containers'[i] = containers[i] /\ version'[i] = version[i]
            BY <1>1, <3>1, <3>2 DEF IInv, Typed
        <3> QED BY <1>1, <2>1, <2>3, <3>1, <3>3, HeldFrame DEF Grows, Extends
    <2> QED BY <2>4, <2>5
<1>7. ASSUME job[p].op \in Import, job[p].at \in Late
      PROVE  /\ Open(p) \in ContainerType /\ job[p] \in ImportJob
    BY <1>7, OwnContainer
<1>8. CASE PutTile(p)
    <2>1. job[p].op \in Import /\ job[p].at \in Late
        BY <1>8 DEF PutTile, Working, Late
    <2> DEFINE at == IF job[p].op = "vector" THEN "put" ELSE "link"
    <2>2. PICK t : Amend(p, [Open(p) EXCEPT !.tiles = @ \union {t}],
                         [job[p] EXCEPT !.todo = @ \ {t}, !.unlinked = @ \union {t}, !.at = at])
        BY <1>8 DEF PutTile
    <2> DEFINE c == [Open(p) EXCEPT !.tiles = @ \union {t}]
               j == [job[p] EXCEPT !.todo = @ \ {t}, !.unlinked = @ \union {t}, !.at = at]
    <2>3. Extends(Open(p), c) /\ j.at \in Late
        BY <1>7, <2>1 DEF Extends, ContainerType, ImportJob, Late
    <2>4. Amend(p, c, j)
        BY <2>2
    <2> HIDE DEF c, j
    <2> QED BY <2>1, <2>3, <2>4, AmendGrows
<1>9. CASE LinkTile(p)
    <2>1. job[p].op \in Import /\ job[p].at \in Late
        BY <1>9 DEF LinkTile, Working, Late
    <2> DEFINE at == IF job[p].op = "vector" THEN "link" ELSE "put"
    <2>2. PICK t : Amend(p, [Open(p) EXCEPT !.links = @ \union {t}],
                         [job[p] EXCEPT !.unlinked = @ \ {t}, !.at = at])
        BY <1>9 DEF LinkTile
    <2> DEFINE c == [Open(p) EXCEPT !.links = @ \union {t}]
               j == [job[p] EXCEPT !.unlinked = @ \ {t}, !.at = at]
    <2>3. Extends(Open(p), c) /\ j.at \in Late
        BY <1>7, <2>1 DEF Extends, ContainerType, ImportJob, Late
    <2>4. Amend(p, c, j)
        BY <2>2
    <2> HIDE DEF c, j
    <2> QED BY <2>1, <2>3, <2>4, AmendGrows
<1>10. CASE Select(p)
    <2>1. job[p].op \in Import /\ job[p].at \in Late
        BY <1>10 DEF Select, Working, Late
    <2> DEFINE at == IF job[p].op = "vector" THEN "done" ELSE "describe"
    <2>2. PICK x : Amend(p, [Open(p) EXCEPT !.selected = x], [job[p] EXCEPT !.at = at])
        BY <1>10 DEF Select
    <2> DEFINE c == [Open(p) EXCEPT !.selected = x]
               j == [job[p] EXCEPT !.at = at]
    <2>3. Extends(Open(p), c) /\ j.at \in Late
        BY <1>7, <2>1 DEF Extends, ContainerType, ImportJob, Late
    <2>4. Amend(p, c, j)
        BY <2>2
    <2> HIDE DEF c, j
    <2> QED BY <2>1, <2>3, <2>4, AmendGrows
<1>11. CASE Describe(p)
    <2>1. job[p].op \in Import /\ job[p].at \in Late
        BY <1>11 DEF Describe, Working, Late
    <2> DEFINE at == IF job[p].op = "vector" THEN "link" ELSE "done"
    <2>2. PICK x : Amend(p, [Open(p) EXCEPT !.metadata = x], [job[p] EXCEPT !.at = at])
        BY <1>11 DEF Describe
    <2> DEFINE c == [Open(p) EXCEPT !.metadata = x]
               j == [job[p] EXCEPT !.at = at]
    <2>3. Extends(Open(p), c) /\ j.at \in Late
        BY <1>7, <2>1 DEF Extends, ContainerType, ImportJob, Late
    <2>4. Amend(p, c, j)
        BY <2>2
    <2> HIDE DEF c, j
    <2> QED BY <2>1, <2>3, <2>4, AmendGrows
<1>12. CASE Deliver(p) \/ FailImport(p)
    <2>1. Become(p, Idle) /\ UNCHANGED <<containers, version, begun>>
        BY <1>12 DEF Deliver, FailImport, Finish, Unchanged
    <2> QED BY <1>4, <2>1
<1> QED BY <1>3, <1>5, <1>6, <1>8, <1>9, <1>10, <1>11, <1>12 DEF ImportStep

\* The other tools put no tiles.
LEMMA ToolGrows ==
    ASSUME IInv, NEW i, Held(i), NEW p \in Process,
           SignStep(p) \/ ExportStep(p) \/ ProtectionStep(p) \/ Kill(p)
    PROVE  Held(i)' /\ Grows(i)
<1>1. begun \in Nat /\ i \in Inode /\ version[i] \in Nat
    BY StartsAgree DEF Held, IInv, Typed
<1>2. begun' \in {begun, begun + 1} /\ UNCHANGED version
    BY DEF SignStep, StartSign, ReadTable, FindManifest, Sign, Proceed,
       ExportStep, StartExport, ReadZooms, ReadRows, LinkExport,
       ProtectionStep, StartProtect, WriteHeader, WriteBody, WriteKey, StartIssue, Issue,
       StartDecrypt, OpenPackage, Stream, CheckDigest, Start, Continue, Kill
<1>3. /\ containers'[i].tiles = containers[i].tiles
      /\ containers'[i].links = containers[i].links
      /\ Manifest(containers'[i]) = Manifest(containers[i])
    <2>1. CASE Kill(p)
        BY <2>1 DEF Kill
    <2>2. CASE ~Kill(p)
        <3>1. /\ containers'[i].tiles = containers[i].tiles
              /\ containers'[i].links = containers[i].links
              /\ containers'[i].selected = containers[i].selected
              /\ containers'[i].metadata = containers[i].metadata
            BY <1>1, <2>2, ToolsKeepContainers
        <3>2. \A t \in Table : Digest(containers'[i], t) = Digest(containers[i], t)
            BY <3>1 DEF Digest, Table
        <3> QED BY <3>1, <3>2 DEF Manifest
    <2> QED BY <2>1, <2>2
<1>4. \E j : Become(p, j) /\ j.op \notin Import
    BY ToolsAreNoImports DEF Kill, Finish, Idle, Import
<1>5. Held(i)'
    BY <1>1, <1>2, <1>4, HeldFrame
<1>6. containers[i].signatures \subseteq containers'[i].signatures
    <2>1. CASE Sign(p)
        <3>1. PICK signature :
                 \/ containers' = containers
                 \/ containers' = [containers EXCEPT ![job[p].db].signatures = @ \union {signature}]
            BY <2>1 DEF Sign
        <3>2. ASSUME containers' = [containers EXCEPT ![job[p].db].signatures = @ \union {signature}]
              PROVE  containers[i].signatures \subseteq containers'[i].signatures
            BY <1>1, <3>2 DEF IInv, Typed, ContainerType
        <3> QED BY <3>1, <3>2
    <2>2. CASE ~Sign(p)
        <3>1. containers' = containers
            BY <2>2 DEF SignStep, StartSign, ReadTable, FindManifest,
               ExportStep, StartExport, ReadZooms, ReadRows, LinkExport,
               ProtectionStep, StartProtect, WriteHeader, WriteBody, WriteKey, StartIssue, Issue,
               StartDecrypt, OpenPackage, Stream, CheckDigest, Start, Continue, Kill
        <3> QED BY <3>1
    <2> QED BY <2>1, <2>2
<1> QED BY <1>1, <1>2, <1>3, <1>5, <1>6 DEF Grows, Extends

\* What an export read of a container that only gets tiles is still there.
LEMMA ExportFrame ==
    ASSUME IInv, ExportsOk, NEW p \in Process,
           \A q \in Process : q # p => job'[q] = job[q],
           \A i : Held(i) => Held(i)' /\ Grows(i),
           version' \in [Inode -> Nat],
           ExportFileOk', ExportOk(p)'
    PROVE  ExportsOk'
<1>1. ASSUME NEW q \in Process, q # p PROVE ExportOk(q)'
    <2>1. SUFFICES ASSUME job[q].op = "export" PROVE ExportOk(q)'
        BY <1>1 DEF ExportOk
    <2> DEFINE j == job[q]
               i == j.db
    <2>2. ExportOk(q) /\ j \in ExportJob /\ Held(i) /\ Held(i)' /\ Grows(i) /\ job'[q] = j
        BY <1>1, <2>1 DEF ExportsOk, ExportOk
    <2>3. version[i] \in Nat /\ version'[i] \in Nat
        BY <2>2 DEF ExportJob, IInv, Typed
    <2>4. ASSUME j.at = "rows"
          PROVE  /\ j.since \in Nat /\ j.since <= version'[i]
                 /\ LowestIn(j.slice, j.zooms, containers'[i].tiles)
                 /\ version'[i] = j.since =>
                       j.zooms = Span(ZoomsOf(SliceTiles(containers'[i], j.slice)))
        <3>1. /\ j.since \in Nat /\ j.since <= version[i]
              /\ LowestIn(j.slice, j.zooms, containers[i].tiles)
              /\ version[i] = j.since =>
                    j.zooms = Span(ZoomsOf(SliceTiles(containers[i], j.slice)))
            BY <2>1, <2>2, <2>4 DEF ExportOk
        <3>2. LowestIn(j.slice, j.zooms, containers'[i].tiles)
            BY <2>2, <3>1 DEF LowestIn, Grows, Extends
        <3>3. /\ version'[i] >= version[i]
              /\ version'[i] = version[i] => containers'[i].tiles = containers[i].tiles
            BY <2>2 DEF Grows
        <3> HIDE DEF j, i
        <3>4. j.since <= version'[i] /\ (version'[i] = j.since => version[i] = j.since)
            BY <2>3, <3>1, <3>3
        <3>5. version'[i] = j.since =>
                  SliceTiles(containers'[i], j.slice) = SliceTiles(containers[i], j.slice)
            BY <3>3, <3>4 DEF SliceTiles
        <3> QED BY <3>1, <3>2, <3>4, <3>5
    <2> QED BY <2>1, <2>2, <2>4 DEF ExportOk
<1> QED BY <1>1 DEF ExportsOk

\* The inode under the name is one that no import is about to make.
LEMMA StartExportKeepsExports ==
    ASSUME IInv, ExportsOk, NEW p \in Process, StartExport(p)
    PROVE  ExportFileOk' /\ ExportOk(p)'
<1>1. PICK f \in Input :
          Become(p, [op |-> "export", at |-> "zooms", id |-> begun + 1, db |-> target, slice |-> f,
                     since |-> None, zooms |-> {}, rows |-> {}, quiet |-> TRUE])
    BY DEF StartExport
<1> DEFINE j == [op |-> "export", at |-> "zooms", id |-> begun + 1, db |-> target, slice |-> f,
                 since |-> None, zooms |-> {}, rows |-> {}, quiet |-> TRUE]
<1>2. begun \in Nat /\ target \in Inode /\ target <= begun
    BY StartsAgree DEF StartExport, IInv, Typed, ContainersOk
<1>3. j \in ExportJob /\ j.at = "zooms" /\ j.db = target
    BY <1>2 DEF ExportJob
<1>4. Held(target)
    BY <1>2 DEF Held, IInv, ContainersOk, ImportOk, Importing
<1>5. Held(target)' /\ target' = target
    BY <1>4, ToolGrows DEF ExportStep, StartExport
<1>6. job'[p] = j
    BY <1>1 DEF Become, IInv, Typed
<1> HIDE DEF j
<1>7. ExportOk(p)'
    BY <1>3, <1>5, <1>6 DEF ExportOk
<1>8. UNCHANGED files
    BY DEF StartExport
<1> QED BY <1>7, <1>8 DEF ExportFileOk, ExportsOk

\* The lowest level of those that have tiles has one.
LEMMA LowestHasATile ==
    ASSUME NEW c, NEW f PROVE LowestIn(f, Span(ZoomsOf(SliceTiles(c, f))), c.tiles)
<1> DEFINE Z == ZoomsOf(SliceTiles(c, f))
<1> SUFFICES ASSUME NEW z \in Span(Z), \A x \in Span(Z) : z <= x PROVE <<f, z>> \in c.tiles
    BY DEF LowestIn
<1>1. Z \subseteq Zoom
    BY DEF ZoomsOf, SliceTiles
<1>2. PICK low \in Z : low <= z
    BY DEF Span
<1>3. low \in Span(Z) /\ low \in Int /\ z \in Int
    BY <1>1 DEF Span, Zoom
<1>4. z = low
    BY <1>2, <1>3
<1>5. PICK t \in SliceTiles(c, f) : t[2] = z
    BY <1>4 DEF ZoomsOf
<1>6. t = <<f, z>>
    BY <1>5 DEF SliceTiles
<1> QED BY <1>5, <1>6 DEF SliceTiles

\* The zoom levels are those of the tiles that are there.
LEMMA ReadZoomsKeepsExports ==
    ASSUME IInv, ExportsOk, NEW p \in Process, ReadZooms(p)
    PROVE  ExportFileOk' /\ ExportOk(p)'
<1> DEFINE old == job[p]
           zooms == Span(ZoomsOf(SliceTiles(Open(p), old.slice)))
           j == [old EXCEPT !.at = "rows", !.zooms = zooms, !.since = version[old.db]]
<1>1. Become(p, j) /\ UNCHANGED <<files, containers, version>> /\ old.op = "export"
    BY DEF ReadZooms, Exports
<1>2. old \in ExportJob /\ Held(old.db) /\ version[old.db] \in Nat
    BY <1>1 DEF ExportsOk, ExportOk, ExportJob, IInv, Typed
<1>3. zooms \in SUBSET Zoom /\ LowestIn(old.slice, zooms, containers[old.db].tiles)
    BY LowestHasATile DEF Span, Open
<1> HIDE DEF zooms
<1>4. /\ j \in ExportJob /\ j.at = "rows" /\ j.db = old.db /\ j.slice = old.slice
      /\ j.zooms = zooms /\ j.since = version[old.db]
    BY <1>2, <1>3 DEF ExportJob
<1>5. job'[p] = j
    BY <1>1 DEF Become, IInv, Typed
<1>6. Held(job[p].db)'
    <2>1. PICK i : i = old.db
        OBVIOUS
    <2>2. Held(i)'
        BY <1>2, <2>1, ToolGrows DEF ExportStep
    <2> QED BY <1>4, <1>5, <2>1, <2>2
<1> HIDE DEF j, old
<1>7. ExportOk(p)'
    BY <1>1, <1>2, <1>3, <1>4, <1>5, <1>6 DEF ExportOk, zooms, Open, old
<1> QED BY <1>1, <1>7 DEF ExportFileOk, ExportsOk

\* The rows have what the zoom levels were read of, and perhaps more.
LEMMA ReadRowsKeepsExports ==
    ASSUME IInv, ExportsOk, NEW p \in Process, ReadRows(p)
    PROVE  ExportFileOk' /\ ExportOk(p)'
<1> DEFINE old == job[p]
           rows == SliceTiles(Open(p), old.slice)
           quiet == version[old.db] = old.since
           j == [old EXCEPT !.at = "link", !.rows = rows, !.quiet = quiet]
<1>1. Become(p, j) /\ UNCHANGED <<files, containers, version>> /\ old.op = "export" /\ old.at = "rows"
    BY DEF ReadRows, Exports
<1>2. /\ old \in ExportJob /\ Held(old.db) /\ containers[old.db] \in ContainerType
      /\ LowestIn(old.slice, old.zooms, containers[old.db].tiles)
      /\ version[old.db] = old.since => old.zooms = Span(ZoomsOf(rows))
    BY <1>1 DEF ExportsOk, ExportOk, ExportJob, IInv, Typed, Open
<1>3. rows \in SUBSET Tile /\ quiet \in BOOLEAN
    BY <1>2 DEF SliceTiles, Open, ContainerType
<1>4. LowestIn(old.slice, old.zooms, rows)
    BY <1>2 DEF LowestIn, SliceTiles, Open, ExportJob
<1>5. quiet => old.zooms = Span(ZoomsOf(rows))
    BY <1>2
<1> HIDE DEF rows, quiet
<1>6. /\ j \in ExportJob /\ j.at = "link" /\ j.db = old.db /\ j.slice = old.slice
      /\ j.zooms = old.zooms /\ j.rows = rows /\ j.quiet = quiet
    BY <1>2, <1>3 DEF ExportJob
<1>7. job'[p] = j
    BY <1>1 DEF Become, IInv, Typed
<1>8. Held(job[p].db)'
    <2>1. PICK i : i = old.db
        OBVIOUS
    <2>2. Held(i)'
        BY <1>2, <2>1, ToolGrows DEF ExportStep
    <2> QED BY <1>6, <1>7, <2>1, <2>2
<1> HIDE DEF j, old
<1>9. ExportOk(p)'
    BY <1>4, <1>5, <1>6, <1>7, <1>8 DEF ExportOk
<1> QED BY <1>1, <1>9 DEF ExportFileOk, ExportsOk

\* What is linked is what the job had, or the export that was there.
LEMMA LinkExportKeepsExports ==
    ASSUME IInv, ExportsOk, NEW p \in Process, LinkExport(p)
    PROVE  ExportFileOk' /\ ExportOk(p)'
<1>1. ExportOk(p)'
    BY DEF LinkExport, Finish, Become, Idle, ExportOk, IInv, Typed
<1>2. files'.export = files.export \/ files'.export = Exported(job[p])
    BY DEF LinkExport, Write, IInv, Typed, FileName
<1>3. CASE files'.export = files.export
    BY <1>1, <1>3 DEF ExportFileOk, ExportsOk
<1>4. CASE files'.export = Exported(job[p])
    <2>1. /\ LowestIn(job[p].slice, job[p].zooms, job[p].rows)
          /\ job[p].quiet => job[p].zooms = Span(ZoomsOf(job[p].rows))
        BY DEF LinkExport, Exports, ExportsOk, ExportOk
    <2>2. /\ files'.export.slice = job[p].slice /\ files'.export.zooms = job[p].zooms
          /\ files'.export.rows = job[p].rows /\ files'.export.quiet = job[p].quiet
        BY <1>4 DEF Exported
    <2> QED BY <1>1, <2>1, <2>2 DEF ExportFileOk
<1> QED BY <1>2, <1>3, <1>4

\* Only exporters write the export.
LEMMA ExportStaysOtherwise ==
    ASSUME IInv, NEW p \in Process, ImportStep(p) \/ SignStep(p) \/ ProtectionStep(p) \/ Kill(p)
    PROVE  files'.export = files.export
<1>1. CASE ImportStep(p) \/ SignStep(p) \/ Kill(p)
    BY <1>1 DEF ImportStep, StartConvert, StartVector, StartMeteo, BeginImport, Unlink, Parse,
       Create, Stage, PutTile, LinkTile, Select, Describe, Deliver, FailImport, Amend,
       Unchanged, SignStep, StartSign, ReadTable, FindManifest, Sign, Proceed, Kill
<1>2. CASE ProtectionStep(p)
    <2>1. \/ files' = files
          \/ \E name \in FileName \ {"export"} : \E value : Write(name, value)
        BY <1>2 DEF ProtectionStep, StartProtect, WriteHeader, WriteBody, WriteKey, StartIssue,
           Issue, StartDecrypt, OpenPackage, Stream, CheckDigest, Start, FileName
    <2>2. ASSUME NEW name \in FileName \ {"export"}, NEW value, Write(name, value)
          PROVE  files'["export"] = files["export"]
        <3>1. Typed /\ "export" \in FileName /\ "export" # name
            BY DEF IInv, FileName
        <3> QED BY <2>2, <3>1, WriteKeepsNames
    <2> QED BY <2>1, <2>2
<1> QED BY <1>1, <1>2

\* Nothing is taken from a container that is there, by no tool and no kill.
LEMMA NextGrows == ASSUME IInv, [Next]_vars, NEW i, Held(i) PROVE Held(i)' /\ Grows(i)
<1>1. CASE UNCHANGED vars
    <2>1. i \in Inode /\ version[i] \in Nat
        BY DEF Held, IInv, Typed
    <2> QED BY <1>1, <2>1 DEF vars, Held, Importing, Grows, Extends
<1>2. CASE Next
    BY <1>2, ImportGrows, ToolGrows DEF Next
<1> QED BY <1>1, <1>2

\* Every step.
LEMMA NextKeepsExports == ASSUME IInv, ExportsOk, [Next]_vars PROVE ExportsOk'
<1>1. CASE UNCHANGED vars
    BY <1>1 DEF vars, ExportsOk, ExportFileOk, ExportOk, Held, Importing
<1>2. CASE Next
    <2>1. PICK p \in Process : \/ ImportStep(p) \/ SignStep(p) \/ ExportStep(p) \/ ProtectionStep(p)
                               \/ Kill(p)
        BY <1>2 DEF Next
    <2>2. \A i : Held(i) => Held(i)' /\ Grows(i)
        BY <2>1, ImportGrows, ToolGrows
    <2>3. version' \in [Inode -> Nat]
        BY <1>2, NextKeeps DEF IInv, Typed
    <2>4. \E j : Become(p, j)
        BY <2>1, ToolsAreNoImports, ImportGoes DEF Goes, Kill, Finish
    <2>5. \A q \in Process : q # p => job'[q] = job[q]
        BY <2>4 DEF Become, IInv, Typed
    <2>6. CASE ExportStep(p)
        <3>1. ExportFileOk' /\ ExportOk(p)'
            BY <2>6, StartExportKeepsExports, ReadZoomsKeepsExports, ReadRowsKeepsExports,
               LinkExportKeepsExports DEF ExportStep
        <3> QED BY <2>2, <2>3, <2>5, <3>1, ExportFrame
    <2>7. CASE ~ExportStep(p)
        <3>1. files'.export = files.export
            BY <2>1, <2>7, ExportStaysOtherwise
        <3>2. \E j : Become(p, j) /\ Is(j, Import \union {"sign", "protect", "issue", "decrypt"})
            <4>1. ProtectionStep(p) <=> Protects(p) \/ Decrypts(p)
                BY DEF ProtectionStep, Protects, Decrypts
            <4> QED BY <2>1, <2>7, <4>1, ImportGoes, SignGoes, ProtectGoes, DecryptGoes, IdleIs
                    DEF Goes, Is, Kill, Finish
        <3>3. job'[p].op # "export"
            BY <3>2 DEF Become, Is, Import, IInv, Typed
        <3>4. ExportFileOk' /\ ExportOk(p)'
            BY <3>1, <3>3 DEF ExportFileOk, ExportOk, ExportsOk
        <3> QED BY <2>2, <2>3, <2>5, <3>4, ExportFrame
    <2> QED BY <2>6, <2>7
<1> QED BY <1>1, <1>2

\* No export, and no exporter.
LEMMA InitExports == Init => ExportsOk
BY DEF Init, NoFiles, Idle, ExportsOk, ExportFileOk, ExportOk

\* Both invariants together.
LEMMA ExportsInvariance == Spec => [](IInv /\ ExportsOk)
<1>1. Init => IInv /\ ExportsOk
    BY InitIInv, InitExports
<1>2. (IInv /\ ExportsOk) /\ [Next]_vars => (IInv /\ ExportsOk)'
    BY NextKeeps, NextKeepsExports
<1> QED BY <1>1, <1>2, PTL DEF Spec

\* The zoom levels that an export announces are those that its rows have, unless a commit
\* came between its two statements; the lowest has a tile in any case: imports only add
\* tiles to a container that is there (src/src/datatiles/store.py, export_mbtiles).
THEOREM ExportsHaveTheirZooms == Spec => []ExportHasItsZooms
<1>1. ExportsOk => ExportHasItsZooms
    <2> SUFFICES ASSUME ExportsOk, files.export # None,
                        NEW z \in {y \in files.export.zooms : \A x \in files.export.zooms : y <= x}
                 PROVE  <<files.export.slice, z>> \in files.export.rows
        BY DEF ExportsOk, ExportFileOk, ExportHasItsZooms
    <2> QED BY DEF ExportsOk, ExportFileOk, LowestIn
<1> QED BY <1>1, ExportsInvariance, PTL

\* Whatever tools run side by side, fail or are killed: nobody takes a tile, a link to a
\* source or a signature from a container that was made, and what its manifest is about
\* changes only with its version.  (--force and a forecast's delivery put another
\* container under the name, they do not empty this one.)
ContainersGrow == [][\A i \in Inode : Held(i) => Held(i)' /\ Grows(i)]_vars

\* Containers that were made only grow, through every tool, failure and kill.
THEOREM GrowingContainers == Spec => ContainersGrow
<1>1. IInv /\ [Next]_vars => [\A i \in Inode : Held(i) => Held(i)' /\ Grows(i)]_vars
    BY NextGrows
<1> QED BY <1>1, Invariance, PTL DEF Spec, ContainersGrow

SlicesOf(i, f) == SliceTiles(containers[i], f)

\* What an export has read of its slice, which had tiles when it began.
SliceOk(p) ==
    LET j == job[p] IN
    j.op = "export" =>
        /\ SlicesOf(j.db, j.slice) # {}
        /\ j.at = "link" => j.rows # {} /\ j.rows \subseteq SlicesOf(j.db, j.slice)

\* An export has rows, all of one slice of one container, which still has them: it is
\* never the empty file that the tool refuses to make, nor a mixture of the containers
\* that had the name while it ran.
ExportIsASlice ==
    LET e == files.export IN
    e # None =>
        e.rows # {} /\ \E i \in Inode : Held(i) /\ e.rows \subseteq SlicesOf(i, e.slice)

SlicesOk == ExportIsASlice /\ \A p \in Process : SliceOk(p)

\* An exporter begins with a slice that has tiles, and reads it.
LEMMA ExportStepKeepsSlice ==
    ASSUME IInv, ExportsOk, SlicesOk, NEW p \in Process, ExportStep(p) PROVE SliceOk(p)'
<1>0. UNCHANGED containers /\ DOMAIN job = Process
    BY DEF ExportStep, StartExport, ReadZooms, ReadRows, LinkExport, IInv, Typed
<1>1. CASE StartExport(p)
    <2>1. PICK f \in Input :
             /\ SliceTiles(containers[target], f) # {}
             /\ job' = [job EXCEPT ![p] =
                   [op |-> "export", at |-> "zooms", id |-> begun + 1, db |-> target, slice |-> f,
                    since |-> None, zooms |-> {}, rows |-> {}, quiet |-> TRUE]]
        BY <1>1 DEF StartExport, Become
    <2>2. job'[p].db = target /\ job'[p].slice = f /\ job'[p].at = "zooms"
        BY <1>0, <2>1
    <2> QED BY <1>0, <2>1, <2>2 DEF SliceOk, SlicesOf
<1>2. CASE ReadZooms(p) \/ ReadRows(p)
    <2> DEFINE old == job[p]
    <2>1. old.op = "export" /\ old \in ExportJob /\ SlicesOf(old.db, old.slice) # {}
        BY <1>2 DEF ReadZooms, ReadRows, Exports, ExportsOk, ExportOk, SlicesOk, SliceOk
    <2>2. CASE ReadZooms(p)
        <3>1. PICK zooms, since :
                 job' = [job EXCEPT ![p] = [old EXCEPT !.at = "rows", !.zooms = zooms, !.since = since]]
            BY <2>2 DEF ReadZooms, Become
        <3>2. job'[p].db = old.db /\ job'[p].slice = old.slice /\ job'[p].at = "rows"
            BY <1>0, <2>1, <3>1 DEF ExportJob
        <3> QED BY <1>0, <2>1, <3>2 DEF SliceOk, SlicesOf
    <2>3. CASE ReadRows(p)
        <3>1. PICK quiet :
                 job' = [job EXCEPT ![p] = [old EXCEPT !.at = "link",
                            !.rows = SlicesOf(old.db, old.slice), !.quiet = quiet]]
            BY <2>3 DEF ReadRows, Become, Open, SlicesOf
        <3>2. /\ job'[p].db = old.db /\ job'[p].slice = old.slice
              /\ job'[p].rows = SlicesOf(old.db, old.slice)
            BY <1>0, <2>1, <3>1 DEF ExportJob
        <3> QED BY <1>0, <2>1, <3>2 DEF SliceOk, SlicesOf
    <2> QED BY <1>2, <2>2, <2>3
<1>3. CASE LinkExport(p)
    BY <1>0, <1>3 DEF LinkExport, Finish, Become, Idle, SliceOk
<1> QED BY <1>1, <1>2, <1>3 DEF ExportStep

LEMMA NextKeepsSlices == ASSUME IInv, ExportsOk, SlicesOk, [Next]_vars PROVE SlicesOk'
<1>1. ASSUME NEW q \in Process, job'[q] = job[q] PROVE SliceOk(q)'
    <2>1. SUFFICES ASSUME job[q].op = "export" PROVE SliceOk(q)'
        BY <1>1 DEF SliceOk
    <2> DEFINE i == job[q].db
               f == job[q].slice
    <2>2. Held(i) /\ SliceOk(q)
        BY <2>1 DEF ExportsOk, ExportOk, SlicesOk
    <2>3. SliceTiles(containers[i], f) \subseteq SliceTiles(containers'[i], f)
        <3>1. PICK k : k = i
            OBVIOUS
        <3>2. Grows(k)
            BY <2>2, <3>1, NextGrows
        <3> QED BY <3>1, <3>2 DEF Grows, Extends, SliceTiles
    <2> QED BY <1>1, <2>1, <2>2, <2>3 DEF SliceOk, SlicesOf
<1>2. ASSUME files'.export = files.export PROVE ExportIsASlice'
    <2>1. SUFFICES ASSUME files.export # None PROVE ExportIsASlice'
        BY <1>2 DEF ExportIsASlice
    <2>2. PICK i \in Inode : Held(i) /\ files.export.rows \subseteq SlicesOf(i, files.export.slice)
        BY <2>1 DEF SlicesOk, ExportIsASlice
    <2>3. Held(i)' /\ SliceTiles(containers[i], files.export.slice)
                        \subseteq SliceTiles(containers'[i], files.export.slice)
        BY <2>2, NextGrows DEF Grows, Extends, SliceTiles
    <2>4. files.export.rows # {}
        BY <2>1 DEF SlicesOk, ExportIsASlice
    <2> QED BY <1>2, <2>2, <2>3, <2>4 DEF ExportIsASlice, SlicesOf
<1>3. CASE UNCHANGED vars
    BY <1>1, <1>2, <1>3 DEF vars, SlicesOk
<1>4. CASE Next
    <2>1. PICK p \in Process : \/ ImportStep(p) \/ SignStep(p) \/ ExportStep(p) \/ ProtectionStep(p)
                               \/ Kill(p)
        BY <1>4 DEF Next
    <2>2. \E j : Become(p, j)
        BY <2>1, ToolsAreNoImports, ImportGoes DEF Goes, Kill, Finish
    <2>3. \A q \in Process : q # p => job'[q] = job[q]
        BY <2>2 DEF Become, IInv, Typed
    <2>4. CASE ExportStep(p)
        <3>1. SliceOk(p)'
            BY <2>4, ExportStepKeepsSlice
        <3>2. CASE files'.export = files.export
            BY <1>1, <1>2, <2>3, <3>1, <3>2 DEF SlicesOk
        <3>3. CASE files'.export # files.export
            <4>1. LinkExport(p) /\ files'.export = Exported(job[p])
                BY <2>4, <3>3 DEF ExportStep, StartExport, ReadZooms, ReadRows, LinkExport, Write,
                                  IInv, Typed, FileName
            <4>2. /\ job[p].op = "export" /\ job[p].at = "link" /\ Held(job[p].db)
                  /\ SliceOk(p)
                BY <4>1 DEF LinkExport, Exports, ExportsOk, ExportOk, SlicesOk
            <4>3. PICK i : i = job[p].db
                OBVIOUS
            <4>4. i \in Inode /\ Held(i)' /\ containers' = containers
                BY <4>1, <4>2, <4>3, NextGrows DEF LinkExport, Held
            <4>5. /\ files'.export.rows = job[p].rows /\ files'.export.slice = job[p].slice
                BY <4>1 DEF Exported
            <4>6. ExportIsASlice'
                BY <4>2, <4>3, <4>4, <4>5 DEF ExportIsASlice, SliceOk, SlicesOf
            <4> QED BY <1>1, <2>3, <3>1, <4>6 DEF SlicesOk
        <3> QED BY <3>2, <3>3
    <2>5. CASE ~ExportStep(p)
        <3>1. files'.export = files.export
            BY <2>1, <2>5, ExportStaysOtherwise
        <3>2. \E j : Become(p, j) /\ Is(j, Import \union {"sign", "protect", "issue", "decrypt"})
            <4>1. ProtectionStep(p) <=> Protects(p) \/ Decrypts(p)
                BY DEF ProtectionStep, Protects, Decrypts
            <4> QED BY <2>1, <2>5, <4>1, ImportGoes, SignGoes, ProtectGoes, DecryptGoes, IdleIs
                    DEF Goes, Is, Kill, Finish
        <3>3. job'[p].op # "export"
            BY <3>2 DEF Become, Is, Import, IInv, Typed
        <3>4. SliceOk(p)'
            BY <3>3 DEF SliceOk
        <3> QED BY <1>1, <1>2, <2>3, <3>1, <3>4 DEF SlicesOk
    <2> QED BY <2>4, <2>5
<1> QED BY <1>3, <1>4

\* An export has the rows of one slice, and some.
THEOREM ExportedSlices == Spec => []ExportIsASlice
<1>1. Init => SlicesOk
    BY DEF Init, NoFiles, Idle, SlicesOk, ExportIsASlice, SliceOk
<1>2. IInv /\ ExportsOk /\ SlicesOk /\ [Next]_vars => SlicesOk'
    BY NextKeepsSlices
<1>3. SlicesOk => ExportIsASlice
    BY DEF SlicesOk
<1> QED BY <1>1, <1>2, <1>3, ExportsInvariance, PTL DEF Spec
-----------------------------------------------------------------------------
(***************************************************************************)
(* Decryption.                                                             *)
(***************************************************************************)

Output(o) == DOMAIN o = {"by", "promised", "content", "mixed"} /\ o.by \in Nat /\ o.by <= begun

\* What a decryption knows of the output, when it is the one that truncated it last.
DecryptOk(p) ==
    LET j == job[p]
        o == files.output
        own == o # None /\ o.by = j.id
    IN
    j.op = "decrypt" =>
        /\ {"at", "id", "licence", "package", "good"} \subseteq DOMAIN j
        /\ j.id \in Nat /\ j.id <= begun
        /\ j.at \in {"package", "stream", "digest"}
        /\ j.at = "package" => ~own
        /\ own /\ j.at \in {"stream", "digest"} => o.promised = j.package.hash
        /\ own /\ ~o.mixed /\ j.at = "digest" =>
              o.content = j.package.body /\ (j.good => j.package.body = j.package.hash)

\* No two decryptions have one number.
DecryptsApart ==
    \A p, q \in Process :
        job[p].op = "decrypt" /\ job[q].op = "decrypt" /\ job[p].id = job[q].id => p = q

\* Who truncated the output has ended, or is at work.
OutputOk ==
    LET o == files.output IN
    o # None =>
        /\ Output(o)
        /\ ~o.mixed /\ kills = 0 /\ (\A p \in Decrypting : job[p].id # o.by) =>
              o.content = o.promised

DecryptsOk == OutputOk /\ DecryptsApart /\ \A p \in Process : DecryptOk(p)

\* No output, and no decryption.
LEMMA InitDecrypts == Init => DecryptsOk
BY DEF Init, NoFiles, Idle, DecryptsOk, OutputOk, DecryptsApart, DecryptOk

\* A step of another tool.
LEMMA OthersKeepDecrypts ==
    ASSUME IInv, DecryptsOk, NEW p \in Process, NEW j, Become(p, j), job[p].op # "decrypt",
           j.op # "decrypt", files'.output = files.output, kills' = kills,
           begun' \in Nat, begun' >= begun
    PROVE  DecryptsOk'
<1>1. \A q \in Process : job'[q] = IF q = p THEN j ELSE job[q]
    BY DEF Become, IInv, Typed
<1>2. Decrypting' = Decrypting /\ \A q \in Decrypting : job'[q] = job[q]
    BY <1>1 DEF Decrypting
<1>3. begun \in Nat
    BY StartsAgree
<1>4. OutputOk'
    BY <1>2, <1>3 DEF OutputOk, DecryptsOk, Output
<1>5. DecryptsApart'
    BY <1>1 DEF DecryptsApart, DecryptsOk
<1>6. ASSUME NEW q \in Process PROVE DecryptOk(q)'
    <2>1. CASE q = p
        BY <1>1, <2>1 DEF DecryptOk
    <2>2. CASE q # p
        BY <1>1, <1>3, <2>2 DEF DecryptOk, DecryptsOk
    <2> QED BY <2>1, <2>2
<1> QED BY <1>4, <1>5, <1>6 DEF DecryptsOk

\* After a kill nothing is said of the output's content.
LEMMA KillKeepsDecrypts == ASSUME IInv, DecryptsOk, NEW p \in Process, Kill(p) PROVE DecryptsOk'
<1>1. Become(p, Idle) /\ UNCHANGED <<files, begun>> /\ kills' = kills + 1 /\ kills \in Nat
    BY BoundAssumption DEF Kill, Finish, IInv, Typed
<1>2. \A q \in Process : job'[q] = IF q = p THEN Idle ELSE job[q]
    BY <1>1 DEF Become, IInv, Typed
<1>3. Idle.op # "decrypt"
    BY DEF Idle
<1>4. kills' # 0
    BY <1>1
<1>5. OutputOk'
    BY <1>1, <1>4 DEF OutputOk, DecryptsOk, Output
<1>6. DecryptsApart'
    BY <1>2, <1>3 DEF DecryptsApart, DecryptsOk
<1>7. \A q \in Process : DecryptOk(q)'
    BY <1>1, <1>2, <1>3 DEF DecryptOk, DecryptsOk
<1> QED BY <1>5, <1>6, <1>7 DEF DecryptsOk

\* A new number is nobody's.
LEMMA StartDecryptKeeps ==
    ASSUME IInv, DecryptsOk, NEW p \in Process, StartDecrypt(p)
    PROVE  DecryptsOk'
<1> DEFINE j == [op |-> "decrypt", at |-> "package", id |-> begun + 1, licence |-> files.licence,
                 package |-> None, good |-> TRUE]
<1>1. /\ job[p] = Idle /\ Become(p, j) /\ begun' = begun + 1 /\ UNCHANGED <<files, kills>>
      /\ begun \in Nat
    BY StartsAgree DEF StartDecrypt, Start, MayBegin
<1>2. \A q \in Process : job'[q] = IF q = p THEN j ELSE job[q]
    BY <1>1 DEF Become, IInv, Typed
<1>3. job[p].op # "decrypt"
    BY <1>1 DEF Idle
<1>4. /\ {"at", "id", "licence", "package", "good"} \subseteq DOMAIN j /\ j.op = "decrypt"
      /\ j.at = "package" /\ j.id = begun + 1 /\ j.id \in Nat
    BY <1>1
<1> HIDE DEF j
<1>5. Decrypting' = Decrypting /\ \A q \in Decrypting : job'[q] = job[q]
    BY <1>2, <1>3, <1>4 DEF Decrypting
<1>6. OutputOk'
    BY <1>1, <1>5 DEF OutputOk, DecryptsOk, Output
<1>7. ASSUME NEW q \in Process, job[q].op = "decrypt" PROVE job[q].id # begun + 1
    BY <1>1, <1>7 DEF DecryptOk, DecryptsOk
<1>8. DecryptsApart'
    BY <1>2, <1>3, <1>4, <1>7 DEF DecryptsApart, DecryptsOk
<1>9. DecryptOk(p)'
    <2>1. files.output # None => files.output.by # begun + 1
        BY <1>1 DEF DecryptsOk, OutputOk, Output
    <2> QED BY <1>1, <1>2, <1>4, <2>1 DEF DecryptOk
<1>10. \A q \in Process : q # p => DecryptOk(q)'
    BY <1>1, <1>2 DEF DecryptOk, DecryptsOk
<1> QED BY <1>6, <1>8, <1>9, <1>10 DEF DecryptsOk

\* What a decryption does to the output.
LEMMA DecryptFrame ==
    ASSUME IInv, DecryptsOk, NEW p \in Process, NEW j, Become(p, j), job[p].op = "decrypt",
           j = Idle \/ (j.op = "decrypt" /\ j.id = job[p].id),
           UNCHANGED <<begun, kills>>, OutputOk', DecryptOk(p)',
           \/ files'.output \in {files.output, None}
           \/ files'.output # None /\ files'.output.by = job[p].id
           \/ /\ files.output # None /\ files'.output # None /\ files'.output.mixed
              /\ files'.output.by = files.output.by
              /\ files'.output.promised = files.output.promised
    PROVE  DecryptsOk'
<1>1. \A q \in Process : job'[q] = IF q = p THEN j ELSE job[q]
    BY DEF Become, IInv, Typed
<1>2. Idle.op # "decrypt"
    BY DEF Idle
<1>3. DecryptsApart'
    BY <1>1, <1>2 DEF DecryptsApart, DecryptsOk
<1>4. ASSUME NEW q \in Process, q # p, job[q].op = "decrypt" PROVE DecryptOk(q)'
    <2>1. job'[q] = job[q] /\ DecryptOk(q) /\ job[q].id # job[p].id
        BY <1>1, <1>4 DEF DecryptsOk, DecryptsApart
    <2>2. CASE files'.output = files.output
        BY <2>1, <2>2 DEF DecryptOk
    <2>3. CASE files'.output = None \/ (files'.output # None /\ files'.output.by = job[p].id)
        BY <1>4, <2>1, <2>3 DEF DecryptOk
    <2>4. CASE /\ files.output # None /\ files'.output # None /\ files'.output.mixed
               /\ files'.output.by = files.output.by
               /\ files'.output.promised = files.output.promised
        BY <1>4, <2>1, <2>4 DEF DecryptOk
    <2> QED BY <2>2, <2>3, <2>4
<1>5. ASSUME NEW q \in Process, q # p, job[q].op # "decrypt" PROVE DecryptOk(q)'
    BY <1>1, <1>5 DEF DecryptOk
<1> QED BY <1>3, <1>4, <1>5 DEF DecryptsOk

\* The output is truncated, for what the package promises.
LEMMA OpenPackageKeeps ==
    ASSUME IInv, DecryptsOk, NEW p \in Process, OpenPackage(p)
    PROVE  DecryptsOk'
<1> DEFINE old == job[p]
           package == files.package
           mixed == Decrypting # {}
           o == [by |-> old.id, promised |-> package.hash, content |-> None, mixed |-> mixed]
           j == [old EXCEPT !.at = "stream", !.package = package]
<1>1. /\ old.op = "decrypt" /\ old.at = "package" /\ DecryptOk(p) /\ UNCHANGED <<begun, kills>>
      /\ old.id \in Nat /\ old.id <= begun
    BY DEF OpenPackage, Does, Continue, DecryptsOk, DecryptOk
<1>2. Idle.op # "decrypt"
    BY DEF Idle
<1>3. CASE Fits(old.licence, package)
    <2>1. files' = [files EXCEPT !["output"] = o] /\ Become(p, j)
        BY <1>3 DEF OpenPackage, Write, Continue
    <2>2. files'.output = o
        BY <2>1 DEF IInv, Typed, FileName
    <2> HIDE DEF mixed
    <2>3. /\ DOMAIN o = {"by", "promised", "content", "mixed"} /\ o.by = old.id
          /\ o.promised = package.hash
        OBVIOUS
    <2>4. /\ "op" \in DOMAIN old /\ {"at", "id", "licence", "package", "good"} \subseteq DOMAIN old
        BY <1>1, JobKinds DEF DecryptOk, IInv
    <2>5. /\ {"at", "id", "licence", "package", "good"} \subseteq DOMAIN j
          /\ j.op = old.op /\ j.at = "stream" /\ j.id = old.id /\ j.package = package
        BY <2>4
    <2>6. job'[p] = j
        BY <2>1 DEF Become, IInv, Typed
    <2> HIDE DEF j, o, old
    <2>7. p \in Decrypting' /\ job'[p].id = o.by
        BY <1>1, <2>3, <2>5, <2>6 DEF Decrypting
    <2>8. OutputOk'
        BY <1>1, <2>2, <2>3, <2>7 DEF OutputOk, Output
    <2>9. DecryptOk(p)'
        BY <1>1, <2>2, <2>3, <2>5, <2>6 DEF DecryptOk
    <2>10. files'.output = None \/ (files'.output # None /\ files'.output.by = job[p].id)
        BY <2>2, <2>3 DEF old
    <2> QED BY <1>1, <2>1, <2>5, <2>8, <2>9, <2>10, DecryptFrame DEF old
<1>4. CASE ~Fits(old.licence, package)
    <2>1. UNCHANGED files /\ Become(p, Idle)
        BY <1>4 DEF OpenPackage, Continue
    <2>2. \A q \in Process : job'[q] = IF q = p THEN Idle ELSE job[q]
        BY <2>1 DEF Become, IInv, Typed
    <2>3. Decrypting' = Decrypting /\ \A q \in Decrypting : job'[q] = job[q]
        BY <1>1, <1>2, <2>2 DEF Decrypting
    <2>4. OutputOk'
        BY <1>1, <2>1, <2>3 DEF OutputOk, DecryptsOk, Output
    <2>5. DecryptOk(p)'
        BY <1>2, <2>2 DEF DecryptOk
    <2> QED BY <1>1, <2>1, <2>4, <2>5, DecryptFrame
<1> QED BY <1>3, <1>4

\* The plaintext is that of the package that was opened, or the output is unlinked.
LEMMA StreamKeeps == ASSUME IInv, DecryptsOk, NEW p \in Process, Stream(p) PROVE DecryptsOk'
<1> DEFINE old == job[p]
           package == old.package
           good == package.body = package.hash
           opens == files.package = package /\ package.whole /\ old.licence.key = package.key
           j == [old EXCEPT !.at = "digest", !.good = good]
           o == files.output
<1>1. /\ old.op = "decrypt" /\ old.at = "stream" /\ DecryptOk(p) /\ UNCHANGED <<begun, kills>>
      /\ OutputOk
    BY DEF Stream, Does, Continue, DecryptsOk
<1>2. Idle.op # "decrypt"
    BY DEF Idle
<1>3. CASE opens
    <2>1. files' = [files EXCEPT !["output"] = Overwritten(old, package.body)] /\ Become(p, j)
        BY <1>3 DEF Stream, Write, Continue
    <2>2. files'.output = Overwritten(old, package.body)
        BY <2>1 DEF IInv, Typed, FileName
    <2> HIDE DEF good
    <2>3. /\ "op" \in DOMAIN old /\ {"at", "id", "licence", "package", "good"} \subseteq DOMAIN old
        BY <1>1, JobKinds DEF DecryptOk, IInv
    <2>4. /\ {"at", "id", "licence", "package", "good"} \subseteq DOMAIN j
          /\ j.op = old.op /\ j.at = "digest" /\ j.id = old.id /\ j.package = package /\ j.good = good
        BY <2>3
    <2>5. job'[p] = j
        BY <2>1 DEF Become, IInv, Typed
    <2>6. p \in Decrypting' /\ Decrypting' \subseteq Decrypting \union {p}
        BY <1>1, <2>1, <2>4, <2>5 DEF Decrypting, Become, IInv, Typed
    <2> HIDE DEF j
    <2>7. CASE o = None
        <3>1. files'.output = None
            BY <2>2, <2>7 DEF Overwritten
        <3>2. OutputOk' /\ DecryptOk(p)'
            BY <1>1, <2>4, <2>5, <3>1 DEF OutputOk, DecryptOk
        <3> QED BY <1>1, <2>1, <2>4, <3>1, <3>2, DecryptFrame
    <2>8. CASE o # None /\ o.by = old.id
        <3>1. files'.output = [o EXCEPT !.content = package.body]
            BY <2>2, <2>8 DEF Overwritten
        <3>2. Output(o)
            BY <1>1, <2>8 DEF OutputOk
        <3>3. /\ Output(files'.output) /\ files'.output.content = package.body
              /\ files'.output.by = old.id /\ files'.output.promised = o.promised
              /\ files'.output.mixed = o.mixed
            BY <2>8, <3>1, <3>2 DEF Output
        <3>4. o.promised = package.hash
            BY <1>1, <2>8 DEF DecryptOk
        <3>5. files'.output # None => OutputOk'
            BY <1>1, <2>4, <2>5, <2>6, <3>3 DEF OutputOk, Output
        <3>6. OutputOk'
            BY <3>5 DEF OutputOk
        <3>7. DecryptOk(p)'
            BY <1>1, <2>4, <2>5, <3>3, <3>4 DEF DecryptOk, good
        <3> QED BY <1>1, <2>1, <2>4, <3>3, <3>6, <3>7, DecryptFrame
    <2>9. CASE o # None /\ o.by # old.id
        <3> DEFINE true == TRUE
                   o2 == [o EXCEPT !.mixed = true]
        <3>1. files'.output = o2
            BY <2>2, <2>9 DEF Overwritten
        <3>2. Output(o)
            BY <1>1, <2>9 DEF OutputOk
        <3>3. true = TRUE
            OBVIOUS
        <3> HIDE DEF true
        <3>4. /\ Output(o2) /\ o2.by = o.by /\ o2.promised = o.promised /\ o2.mixed = true
            BY <3>2 DEF Output
        <3> HIDE DEF o2
        <3>5. OutputOk'
            BY <1>1, <3>1, <3>3, <3>4 DEF OutputOk, Output
        <3>6. DecryptOk(p)'
            BY <1>1, <2>4, <2>5, <2>9, <3>1, <3>4 DEF DecryptOk
        <3> QED BY <1>1, <2>1, <2>4, <2>9, <3>1, <3>3, <3>4, <3>5, <3>6, DecryptFrame
    <2> QED BY <2>7, <2>8, <2>9
<1>4. CASE ~opens
    <2>1. files' = [files EXCEPT !["output"] = None] /\ Become(p, Idle)
        BY <1>4 DEF Stream, Write, Continue
    <2>2. files'.output = None
        BY <2>1 DEF IInv, Typed, FileName
    <2>3. job'[p] = Idle
        BY <2>1 DEF Become, IInv, Typed
    <2>4. OutputOk' /\ DecryptOk(p)'
        BY <1>2, <2>2, <2>3 DEF OutputOk, DecryptOk
    <2> QED BY <1>1, <2>1, <2>2, <2>4, DecryptFrame
<1> QED BY <1>3, <1>4

\* Only a content with the digest of the header is left.
LEMMA CheckDigestKeeps ==
    ASSUME IInv, DecryptsOk, NEW p \in Process, CheckDigest(p)
    PROVE  DecryptsOk'
<1> DEFINE old == job[p]
           o == files.output
<1>1. /\ old.op = "decrypt" /\ old.at = "digest" /\ DecryptOk(p) /\ UNCHANGED <<begun, kills>>
      /\ OutputOk /\ Become(p, Idle)
    BY DEF CheckDigest, Does, Continue, DecryptsOk
<1>2. Idle.op # "decrypt"
    BY DEF Idle
<1>3. \A q \in Process : job'[q] = IF q = p THEN Idle ELSE job[q]
    BY <1>1 DEF Become, IInv, Typed
<1>4. DecryptOk(p)'
    BY <1>2, <1>3 DEF DecryptOk
<1>5. CASE old.good
    <2>1. UNCHANGED files
        BY <1>5 DEF CheckDigest
    <2>2. ASSUME o # None, ~o.mixed, kills = 0, \A q \in Decrypting' : job'[q].id # o.by
          PROVE  o.content = o.promised
        <3>1. CASE o.by = old.id
            BY <1>1, <1>5, <2>2, <3>1 DEF DecryptOk
        <3>2. CASE o.by # old.id
            <4>1. \A q \in Decrypting : job[q].id # o.by
                BY <1>3, <2>2, <3>2 DEF Decrypting
            <4> QED BY <1>1, <2>2, <4>1 DEF OutputOk
        <3> QED BY <3>1, <3>2
    <2>3. o # None => Output(o)
        BY <1>1 DEF OutputOk
    <2>4. OutputOk'
        BY <1>1, <2>1, <2>2, <2>3 DEF OutputOk, Output
    <2> QED BY <1>1, <1>4, <2>1, <2>4, DecryptFrame
<1>6. CASE ~old.good
    <2>1. files'.output = None
        BY <1>6 DEF CheckDigest, Write, IInv, Typed, FileName
    <2>2. OutputOk'
        BY <2>1 DEF OutputOk
    <2> QED BY <1>1, <1>4, <2>1, <2>2, DecryptFrame
<1> QED BY <1>5, <1>6

\* Only decryption writes the output.
LEMMA OutputStaysOtherwise ==
    ASSUME IInv, NEW p \in Process, ImportStep(p) \/ SignStep(p) \/ ExportStep(p) \/ Protects(p)
    PROVE  files'.output = files.output
<1>1. CASE ImportStep(p) \/ SignStep(p)
    BY <1>1 DEF ImportStep, StartConvert, StartVector, StartMeteo, BeginImport, Unlink, Parse,
       Create, Stage, PutTile, LinkTile, Select, Describe, Deliver, FailImport, Amend,
       Unchanged, SignStep, StartSign, ReadTable, FindManifest, Sign, Proceed
<1>2. CASE ExportStep(p) \/ Protects(p)
    <2>1. \/ files' = files
          \/ \E name \in FileName \ {"output"} : \E value : Write(name, value)
        BY <1>2 DEF ExportStep, StartExport, ReadZooms, ReadRows, LinkExport,
           Protects, StartProtect, WriteHeader, WriteBody, WriteKey, StartIssue, Issue, Start, FileName
    <2>2. ASSUME NEW name \in FileName \ {"output"}, NEW value, Write(name, value)
          PROVE  files'["output"] = files["output"]
        <3>1. Typed /\ "output" \in FileName /\ "output" # name
            BY DEF IInv, FileName
        <3> QED BY <2>2, <3>1, WriteKeepsNames
    <2> QED BY <2>1, <2>2
<1> QED BY <1>1, <1>2

\* Every step.
LEMMA NextKeepsDecrypts == ASSUME IInv, DecryptsOk, [Next]_vars PROVE DecryptsOk'
<1>1. CASE UNCHANGED vars
    BY <1>1 DEF vars, DecryptsOk, OutputOk, DecryptsApart, DecryptOk, Decrypting, Output
<1>2. CASE Next
    <2>1. PICK p \in Process : \/ ImportStep(p) \/ SignStep(p) \/ ExportStep(p) \/ ProtectionStep(p)
                               \/ Kill(p)
        BY <1>2 DEF Next
    <2>2. ProtectionStep(p) <=> Protects(p) \/ Decrypts(p)
        BY DEF ProtectionStep, Protects, Decrypts
    <2>3. CASE ImportStep(p) \/ SignStep(p) \/ ExportStep(p) \/ Protects(p)
        <3>1. Goes(p, Import \union {"sign", "export", "protect", "issue"})
            BY <2>3, ImportGoes, SignGoes, ExportGoes, ProtectGoes DEF Goes, Is
        <3>2. PICK j : Become(p, j) /\ j.op # "decrypt"
            BY <3>1 DEF Goes, Is, Import
        <3>3. job[p].op # "decrypt"
            BY <3>1 DEF Goes, Is, Import
        <3>4. kills' = kills
            BY <2>3 DEF ImportStep, StartConvert, StartVector, StartMeteo, BeginImport, Unlink, Parse,
               Create, Stage, PutTile, LinkTile, Select, Describe, Deliver, FailImport, Amend,
               Unchanged, SignStep, StartSign, ReadTable, FindManifest, Sign, Proceed,
               ExportStep, StartExport, ReadZooms, ReadRows, LinkExport, Protects,
               StartProtect, WriteHeader, WriteBody, WriteKey, StartIssue, Issue, Start, Continue
        <3>5. begun' \in {begun, begun + 1}
            BY <2>3 DEF ImportStep, StartConvert, StartVector, StartMeteo, BeginImport, Unlink, Parse,
               Create, Stage, PutTile, LinkTile, Select, Describe, Deliver, FailImport, Amend,
               Unchanged, SignStep, StartSign, ReadTable, FindManifest, Sign, Proceed,
               ExportStep, StartExport, ReadZooms, ReadRows, LinkExport, Protects,
               StartProtect, WriteHeader, WriteBody, WriteKey, StartIssue, Issue, Start, Continue
        <3>6. begun' \in Nat /\ begun' >= begun
            BY <3>5, StartsAgree
        <3> QED BY <2>3, <3>2, <3>3, <3>4, <3>6, OutputStaysOtherwise, OthersKeepDecrypts
    <2>4. CASE Decrypts(p)
        BY <2>4, StartDecryptKeeps, OpenPackageKeeps, StreamKeeps, CheckDigestKeeps DEF Decrypts
    <2>5. CASE Kill(p)
        BY <2>5, KillKeepsDecrypts
    <2> QED BY <2>1, <2>2, <2>3, <2>4, <2>5
<1> QED BY <1>1, <1>2

\* Both invariants together.
LEMMA DecryptsInvariance == Spec => [](IInv /\ DecryptsOk)
<1>1. Init => IInv /\ DecryptsOk
    BY InitIInv, InitDecrypts
<1>2. (IInv /\ DecryptsOk) /\ [Next]_vars => (IInv /\ DecryptsOk)'
    BY NextKeeps, NextKeepsDecrypts
<1> QED BY <1>1, <1>2, PTL DEF Spec

\* An output that one decryption alone wrote, and that is there when it has ended, is the
\* container that the licence and the package promise, unless a process was killed
\* (src/src/datatiles/drm.py, decrypt_package).
THEOREM OutputsAreLicensed == Spec => []OutputIsLicensed
<1>1. DecryptsOk => OutputIsLicensed
    BY DEF DecryptsOk, OutputOk, OutputIsLicensed
<1> QED BY <1>1, DecryptsInvariance, PTL
=============================================================================
