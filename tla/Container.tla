------------------------------ MODULE Container ------------------------------
(***************************************************************************)
(* The DataTiles container library (src/src/datatiles/store.py) used by    *)
(* several processes on one SQLite file.                                   *)
(*                                                                         *)
(* Python's sqlite3 opens a transaction at the first INSERT, UPDATE or     *)
(* DELETE, so every SELECT that an operation makes before it is a read of  *)
(* its own: another process may commit between two of them, and between    *)
(* the last of them and the transaction.  From its first write to its      *)
(* commit a transaction holds SQLite's write lock: it is one step here.    *)
(* A process that raises, is killed or gives up waiting for the lock       *)
(* leaves nothing (SQLite rolls back): Abandon.                            *)
(*                                                                         *)
(* op[p] is what process p has in its Python frame between two steps.      *)
(***************************************************************************)
EXTENDS ContentProfile

CONSTANTS
    Process,        \* processes that have the file open for writing
    Dimension,      \* dimension names
    Variable,       \* the dimension named "variable"
    Spelling,       \* coordinate values as the callers write them
    Value,          \* canonical values
    Canonical,      \* _canonical: the canonical value of a spelling
    Coordinates,    \* the coordinate maps the callers pass: dimension -> spelling
    Address,        \* tile addresses (zoom, column, TMS row)
    NoKey,          \* no selected slice
    NoJson,         \* metadata has no 'json' row
    HandWritten     \* a 'json' row that set_metadata wrote

Key == UNION {[D -> Value] : D \in SUBSET Dimension}

ASSUME ContainerAssumption ==
    /\ Variable \in Dimension
    /\ Canonical \in [Spelling -> Value]
    /\ Coordinates \subseteq UNION {[D -> Spelling] : D \in SUBSET Dimension}
    /\ NoKey \notin Key
    /\ NoJson \notin Schema /\ HandWritten \notin Schema /\ NoJson # HandWritten

VARIABLES
    dimensions,     \* datatiles_dimensions: name -> required?
    variables,      \* datatiles_variables: registered variable names
    policy,         \* metadata 'datatiles:variable_semantics'
    sets,           \* datatiles_coordinate_sets: canonical keys
    contents,       \* datatiles_contents: key -> profile
    tiles,          \* datatiles_tiles: <<address, key>> -> what its writer declared
    selected,       \* datatiles_selected_slice
    format,         \* metadata 'format'
    json,           \* metadata 'json': the schema it was projected from
    op              \* process -> the operation it is in the middle of

settings == <<dimensions, variables, policy>>
slices == <<sets, contents, tiles>>
interface == <<selected, format, json>>
vars == <<settings, slices, interface, op>>

Policy == {"required", "recommended"}

Idle == [stage |-> "idle"]

Put == [stage : {"check_variable", "find_set", "reuse_set", "create_set"},
        key : Key, address : Address, request : Request]

Select == [stage : {"check_variable", "find_set", "select"}, key : Key]

Operation == {Idle} \union Put \union Select

Init ==
    /\ dimensions = [d \in {} |-> FALSE]
    /\ variables = {}
    /\ policy = "recommended"
    /\ sets = {}
    /\ contents = [k \in {} |-> {}]
    /\ tiles = [t \in {} |-> {}]
    /\ selected = NoKey
    /\ format \in InitialFormat
    /\ json = NoJson
    /\ op = [p \in Process |-> Idle]

Extend(f, x, y) == [z \in DOMAIN f \union {x} |-> IF z = x THEN y ELSE f[z]]

Become(p, operation) == op' = [op EXCEPT ![p] = operation]
-----------------------------------------------------------------------------
(***************************************************************************)
(* Dimensions, variables and metadata: one transaction each.               *)
(***************************************************************************)

AddDimension(p, d, required) ==
    /\ op[p] = Idle
    /\ d \notin DOMAIN dimensions
    /\ dimensions' = Extend(dimensions, d, required)
    /\ UNCHANGED <<variables, policy, slices, interface, op>>

AddVariable(p, v) ==
    /\ op[p] = Idle
    /\ v \notin variables
    /\ variables' = variables \union {v}
    /\ UNCHANGED <<dimensions, policy, slices, interface, op>>

\* set_variable_semantics, and set_metadata of the same row, which it does not refuse.
SetVariableSemantics(p, value) ==
    /\ op[p] = Idle
    /\ policy' = value
    /\ UNCHANGED <<dimensions, variables, slices, interface, op>>

\* set_metadata refuses 'format', 'datatiles:dimensions' and
\* 'datatiles:default_media_type'; 'json' it writes.
SetMetadataJson(p) ==
    /\ op[p] = Idle
    /\ json' = HandWritten
    /\ UNCHANGED <<settings, slices, selected, format, op>>
-----------------------------------------------------------------------------
(***************************************************************************)
(* put and select.  _coordinate_set makes the reads of both: dimensions,   *)
(* variable policy, canonical key.                                         *)
(***************************************************************************)

Required == {d \in DOMAIN dimensions : dimensions[d]}

Accepted(coordinates) ==
    /\ DOMAIN coordinates \subseteq DOMAIN dimensions
    /\ Required \subseteq DOMAIN coordinates

\* Fault: the caller's spelling is stored as it is.
RawKey(coordinates) == [d \in DOMAIN coordinates |-> coordinates[d]]

CanonicalKey(coordinates) == [d \in DOMAIN coordinates |-> Canonical[coordinates[d]]]

Registered(key) == Variable \in DOMAIN key => key[Variable] \in variables

VariableAllowed(key) == policy = "required" => Registered(key)

\* Reads datatiles_dimensions.
BeginPut(p, coordinates, address, request) ==
    /\ op[p] = Idle
    /\ Accepted(coordinates)
    /\ Become(p, [stage |-> "check_variable", key |-> CanonicalKey(coordinates),
                  address |-> address, request |-> request])
    /\ UNCHANGED <<settings, slices, interface>>

\* Reads the policy and, under "required", the registry.
CheckVariable(p) ==
    /\ op[p].stage = "check_variable"
    /\ VariableAllowed(op[p].key)
    /\ Become(p, [op[p] EXCEPT !.stage = "find_set"])
    /\ UNCHANGED <<settings, slices, interface>>

\* Fault: the stored profile is not compared.
FindSetUncompared(p) ==
    /\ op[p] \in Put
    /\ op[p].stage = "find_set"
    /\ Become(p, [op[p] EXCEPT !.stage =
            IF op[p].key \in sets THEN "reuse_set" ELSE "create_set"])
    /\ UNCHANGED <<settings, slices, interface>>

\* Looks the key up; when it exists, compares the profile with the caller's.
FindSet(p) ==
    /\ op[p] \in Put
    /\ op[p].stage = "find_set"
    /\ \/ /\ op[p].key \notin sets
          /\ Become(p, [op[p] EXCEPT !.stage = "create_set"])
       \/ /\ op[p].key \in sets
          /\ ~Conflicts(op[p].request, contents[op[p].key])
          /\ Become(p, [op[p] EXCEPT !.stage = "reuse_set"])
    /\ UNCHANGED <<settings, slices, interface>>

\* The tile upsert of a put that found its set.
ReuseSet(p) ==
    /\ op[p].stage = "reuse_set"
    /\ tiles' = Extend(tiles, <<op[p].address, op[p].key>>, op[p].request)
    /\ Become(p, Idle)
    /\ UNCHANGED <<settings, sets, contents, interface>>

\* Fault: the set is committed before its profile and tile.
CreateSetAlone(p) ==
    /\ op[p].stage = "create_set"
    /\ op[p].key \notin sets
    /\ sets' = sets \union {op[p].key}
    /\ Become(p, [op[p] EXCEPT !.stage = "reuse_set"])
    /\ UNCHANGED <<settings, contents, tiles, interface>>

\* Fault: INSERT OR IGNORE of the set and its profile; the loser of the race goes on.
CreateSetOrIgnore(p) ==
    /\ op[p].stage = "create_set"
    /\ sets' = sets \union {op[p].key}
    /\ contents' = IF op[p].key \in DOMAIN contents THEN contents
                   ELSE Extend(contents, op[p].key, NormalizeContent(op[p].request))
    /\ tiles' = Extend(tiles, <<op[p].address, op[p].key>>, op[p].request)
    /\ Become(p, Idle)
    /\ UNCHANGED <<settings, interface>>

\* Fault: INSERT OR REPLACE of the profile.
CreateSetOrReplace(p) ==
    /\ op[p].stage = "create_set"
    /\ sets' = sets \union {op[p].key}
    /\ contents' = Extend(contents, op[p].key, NormalizeContent(op[p].request))
    /\ tiles' = Extend(tiles, <<op[p].address, op[p].key>>, op[p].request)
    /\ Become(p, Idle)
    /\ UNCHANGED <<settings, interface>>

\* The transaction of a put that found no set: set, values, coordinates,
\* profile and tile.  The UNIQUE key refuses it when another process was first.
CreateSet(p) ==
    /\ op[p].stage = "create_set"
    /\ op[p].key \notin sets
    /\ sets' = sets \union {op[p].key}
    /\ contents' = Extend(contents, op[p].key, NormalizeContent(op[p].request))
    /\ tiles' = Extend(tiles, <<op[p].address, op[p].key>>, op[p].request)
    /\ Become(p, Idle)
    /\ UNCHANGED <<settings, interface>>

\* select resolves the coordinates first, in the same reads as put.
BeginSelect(p, coordinates) ==
    /\ op[p] = Idle
    /\ Accepted(coordinates)
    /\ Become(p, [stage |-> "check_variable", key |-> CanonicalKey(coordinates)])
    /\ UNCHANGED <<settings, slices, interface>>

FindSlice(p) ==
    /\ op[p] \in Select
    /\ op[p].stage = "find_set"
    /\ op[p].key \in sets
    /\ Become(p, [op[p] EXCEPT !.stage = "select"])
    /\ UNCHANGED <<settings, slices, interface>>

\* Fault: the 'json' row of an earlier MVT selection stays.
CommitSelectKeepsJson(p) ==
    LET profile == contents[op[p].key] IN
    /\ op[p].stage = "select"
    /\ selected' = op[p].key
    /\ format' = MbtilesFormat(profile)
    /\ json' = IF profile.media = MVT THEN profile.schema ELSE json
    /\ Become(p, Idle)
    /\ UNCHANGED <<settings, slices>>

\* The transaction of select: singleton, 'format', 'json'.
CommitSelect(p) ==
    LET profile == contents[op[p].key] IN
    /\ op[p].stage = "select"
    /\ selected' = op[p].key
    /\ format' = MbtilesFormat(profile)
    /\ json' = IF profile.media = MVT THEN profile.schema ELSE NoJson
    /\ Become(p, Idle)
    /\ UNCHANGED <<settings, slices>>

\* An exception, a kill, or "database is locked": nothing was committed.
Abandon(p) ==
    /\ op[p] # Idle
    /\ Become(p, Idle)
    /\ UNCHANGED <<settings, slices, interface>>
-----------------------------------------------------------------------------
Configure(p) ==
    \/ \E d \in Dimension, required \in BOOLEAN : AddDimension(p, d, required)
    \/ \E v \in Value : AddVariable(p, v)
    \/ \E value \in Policy : SetVariableSemantics(p, value)
    \/ SetMetadataJson(p)

WriteTile(p) ==
    \/ \E coordinates \in Coordinates, address \in Address, request \in Request :
            BeginPut(p, coordinates, address, request)
    \/ FindSet(p)
    \/ ReuseSet(p)
    \/ CreateSet(p)

SwitchSlice(p) ==
    \/ \E coordinates \in Coordinates : BeginSelect(p, coordinates)
    \/ FindSlice(p)
    \/ CommitSelect(p)

Next ==
    \E p \in Process :
        Configure(p) \/ WriteTile(p) \/ SwitchSlice(p) \/ CheckVariable(p) \/ Abandon(p)

Spec == Init /\ [][Next]_vars
-----------------------------------------------------------------------------
(***************************************************************************)
(* Properties.                                                             *)
(***************************************************************************)

\* Every variable has its type.
TypeOK ==
    /\ DOMAIN dimensions \subseteq Dimension
    /\ dimensions \in [DOMAIN dimensions -> BOOLEAN]
    /\ variables \subseteq Value
    /\ policy \in Policy
    /\ sets \subseteq Key
    /\ DOMAIN contents \subseteq Key
    /\ contents \in [DOMAIN contents -> Profile]
    /\ DOMAIN tiles \subseteq Address \X Key
    /\ tiles \in [DOMAIN tiles -> Request]
    /\ selected \in Key \union {NoKey}
    /\ format \in Format
    /\ json \in Schema \union {NoJson, HandWritten}
    /\ op \in [Process -> Operation]

\* A coordinate set is never seen without its one profile or without a tile, and
\* a tile never without its set: a put that fails half way, or loses the race for
\* a new key, leaves neither an empty set nor a tile under no profile.
SetsAreComplete ==
    /\ DOMAIN contents = sets
    /\ \A k \in sets : \E a \in Address : <<a, k>> \in DOMAIN tiles
    /\ \A a \in Address, k \in Key : <<a, k>> \in DOMAIN tiles => k \in sets

\* No tile is filed under a profile its writer contradicted, although the profile
\* is compared before the transaction and another process may create the set in
\* between.
TilesMatchTheirProfile ==
    \A a \in Address, k \in Key :
        <<a, k>> \in DOMAIN tiles => ~Conflicts(tiles[<<a, k>>], contents[k])

\* What the MBTiles interface says of the selected slice is what its profile says,
\* whatever was put and selected by others since; 'json' may be other than the
\* projection only after set_metadata wrote it.
SelectionAgrees ==
    selected # NoKey =>
        /\ selected \in sets
        /\ format = MbtilesFormat(contents[selected])
        /\ contents[selected].media = MVT => json # NoJson
        /\ json # HandWritten =>
                json = IF contents[selected].media = MVT
                         THEN contents[selected].schema ELSE NoJson

\* A content profile is immutable once its first tile is stored, and no coordinate
\* set disappears.
ProfilesNeverChange ==
    [][\A k \in sets : k \in sets' /\ contents'[k] = contents[k]]_vars

\* Several processes with check-then-act puts and selects keep the promise of the
\* abstract tile store.
Promise == INSTANCE TileStore
    WITH profiles <- contents, stored <- tiles,
         slice <- [key |-> selected, format |-> format]

KeepsPromise == Promise!StoreSpec

\* docs/semantic-variables.md: under policy "required" a variable has a registry
\* entry before tiles using it may be written.
RegisteredBeforeWrite ==
    [][\A a \in Address, k \in Key :
            /\ policy = "required"
            /\ <<a, k>> \in DOMAIN tiles'
            /\ <<a, k>> \in DOMAIN tiles => tiles'[<<a, k>>] # tiles[<<a, k>>]
            => Registered(k)]_vars

\* set_metadata's docstring: it sets a value "without bypassing container
\* invariants", and validate() reports a 'json' row on a non-MVT selection.
NoStaleJson ==
    selected # NoKey /\ contents[selected].media # MVT => json = NoJson

\* validate(): the errors it reports on what this module keeps.
ValidationErrors ==
    (IF \E k \in sets : k \notin DOMAIN contents /\ \E a \in Address : <<a, k>> \in DOMAIN tiles
       THEN {"coordinate sets missing content profiles"} ELSE {})
    \union (IF \E k \in DOMAIN contents :
                    contents[k].media = MVT /\ contents[k].schema # "vector_layers"
              THEN {"invalid MVT vector_layers schema"} ELSE {})
    \union (IF policy = "required" /\ \E k \in sets : ~Registered(k)
              THEN {"unregistered variable coordinate"} ELSE {})
    \union (IF selected # NoKey /\ format # MbtilesFormat(contents[selected])
              THEN {"selected content profile disagrees with format"} ELSE {})
    \union (IF selected # NoKey /\ contents[selected].media = MVT /\ json = NoJson
              THEN {"selected MVT slice lacks json"} ELSE {})
    \union (IF selected # NoKey /\ contents[selected].media # MVT /\ json # NoJson
              THEN {"selected non-MVT slice retains stale json"} ELSE {})

\* docs/specification.md section 15: a container validator MUST check required
\* dimensions.
ValidSetsHaveRequiredDimensions ==
    ValidationErrors = {} => \A k \in sets : Required \subseteq DOMAIN k
=============================================================================
