----------------------------- MODULE Workfiles -----------------------------
(***************************************************************************)
(* The files that the command line tools of DataTiles work on, and the     *)
(* processes that run the tools (src/utils, src/src/datatiles/store.py,    *)
(* integrity.py, drm.py).                                                  *)
(*                                                                         *)
(* One container has the name that importers write to and the other tools  *)
(* read from.  A process that has it open keeps its inode, also when the   *)
(* name is unlinked or another inode is moved over it.  Every commit to a  *)
(* container is a step, as is every write to another file.                 *)
(*                                                                         *)
(* Abstracted: the payload of a tile is a function of its input and its    *)
(* zoom level; one tile of an input on a zoom level; dimensions, variables,*)
(* rights and sources are left out; a file is copied, and read for its     *)
(* digest, in one step; how a container is created and put into is the     *)
(* matter of SchemaRevision and Container.                                 *)
(***************************************************************************)
EXTENDS Integers, FiniteSets

CONSTANTS
    Process,        \* processes that run a tool
    Input,          \* slices: variables, collections of features, forecast frames
    Key,            \* who signs
    Recipient,      \* who is licensed
    None,
    MaxCommands,    \* bound: tools started
    MaxImports,     \* bound: imports are among the first so many of them
    MaxTiles,       \* bound: tiles of an import
    MaxKills        \* bound: processes killed

ASSUME BoundAssumption == {MaxCommands, MaxImports, MaxTiles, MaxKills} \subseteq Nat

ASSUME NoneAssumption == None \notin Nat /\ None \notin [product : Nat, key : Nat]

VARIABLES
    target,         \* the inode that has the container's name, or None
    containers,     \* inode -> the container there
    version,        \* inode -> how many commits changed what a manifest is about
    files,          \* the other files
    job,            \* process -> the tool it runs, and how far it is
    begun,          \* how many tools were started
    kills,          \* how many were killed
    kept,           \* history: the tiles of the imports that finished
    overlapped,     \* history: two imports ran at the same time
    leftover,       \* history: who made the container under the name gave up half way
    spoiled         \* history: a protection overlapped another, or was cut short

history == <<kept, overlapped, leftover, spoiled>>
vars == <<target, containers, version, files, job, begun, kills, history>>

Zoom == 0 .. 1
Tile == Input \X Zoom

\* 0 was there from the start, n is made by the n-th tool.
Inode == 0 .. MaxCommands

\* A manifest is a digest of every table; the tables stand for what they hold.
Table == {"links", "tiles", "selected", "metadata"}

Empty ==
    [tiles |-> {}, links |-> {}, selected |-> None, metadata |-> [frames |-> {}, zooms |-> {}],
     signatures |-> {}]

NoFiles ==
    [export |-> None, package |-> None, contentKey |-> None, licence |-> None, output |-> None]
-----------------------------------------------------------------------------
Idle == [op |-> "idle"]

Become(p, j) == job' = [job EXCEPT ![p] = j]

Finish(p) == Become(p, Idle)

At(p, op, at) == job[p] # Idle /\ job[p].op = op /\ job[p].at = at

MayBegin(p) == job[p] = Idle /\ begun < MaxCommands

\* The container that a process has open.
Open(p) == containers[job[p].db]

ZoomsOf(tiles) == {t[2] : t \in tiles}

Write(name, value) == files' = [files EXCEPT ![name] = value]

\* A commit that changes what manifests are about.
Commit(i, c) ==
    /\ containers' = [containers EXCEPT ![i] = c]
    /\ version' = [version EXCEPT ![i] = @ + 1]

Import == {"convert", "vector", "meteo"}

Importing == {p \in Process : job[p].op \in Import}

Protecting == {p \in Process : job[p].op = "protect"}

\* The process made the container under the name, and works on it there.
Abandons(p) == job[p].op \in {"convert", "vector"} /\ job[p].db = target /\ target # None

\* Killed: nothing is tidied up.
Kill(p) ==
    /\ job[p] # Idle /\ kills < MaxKills
    /\ Finish(p)
    /\ kills' = kills + 1
    /\ leftover' = (leftover \/ Abandons(p))
    /\ spoiled' = (spoiled \/ job[p].op = "protect")
    /\ UNCHANGED <<target, containers, version, files, begun, kept, overlapped>>

\* No container, or a finished one of an input.
Init ==
    /\ target \in {None, 0}
    /\ \E f \in Input :
          containers = [i \in Inode |->
              IF i = 0 /\ target = 0
              THEN [tiles |-> {f} \X Zoom, links |-> {f} \X Zoom, selected |-> f,
                    metadata |-> [frames |-> {}, zooms |-> Zoom], signatures |-> {}]
              ELSE Empty]
    /\ version = [i \in Inode |-> 0]
    /\ files = NoFiles
    /\ job = [p \in Process |-> Idle]
    /\ begun = 0 /\ kills = 0
    /\ kept = (IF target = 0 THEN containers[0].tiles ELSE {})
    /\ overlapped = FALSE /\ leftover = FALSE /\ spoiled = FALSE
=============================================================================
