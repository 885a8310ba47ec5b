--------------------------- MODULE SchemaRevision ---------------------------
(***************************************************************************)
(* Creation of a DataTiles file and its migration to the current schema    *)
(* revision when it is opened (src/src/datatiles/store.py, schema.sql and  *)
(* migration_*.sql), by several processes, any of which may be killed.     *)
(*                                                                         *)
(* executescript commits what is open and runs each statement in           *)
(* autocommit; a CREATE that execute runs is autocommit too, because       *)
(* Python's sqlite3 opens a transaction only for INSERT, UPDATE, DELETE.   *)
(* A script is therefore a sequence of commits, each of which survives a   *)
(* crash after it.  A CREATE of what exists raises, an INSERT OR IGNORE    *)
(* does not.                                                               *)
(*                                                                         *)
(* Abstracted: the objects of the first revision are one object where no   *)
(* guard tells them apart, and indexes of one table are part of it.        *)
(***************************************************************************)
EXTENDS Naturals, Sequences, FiniteSets

CONSTANTS
    Process,        \* processes that create or open the file
    MaxCrashes      \* bound: how many processes may be killed half way

ASSUME MaxCrashesAssumption == MaxCrashes \in Nat

Current == 8

Supported == 2 .. Current

Mode == {"create", "write", "read_only"}

VARIABLES
    legacy,     \* the revision of the file when the first process came; 0 is no file
    revision,   \* PRAGMA user_version; 0 is no file
    objects,    \* sqlite_master: tables, views, indexes, triggers
    rows,       \* metadata rows, and "profiles": a profile row and a key per set
    opener,     \* process -> what its constructor is doing
    crashes     \* how many processes were killed

vars == <<legacy, revision, objects, rows, opener, crashes>>
-----------------------------------------------------------------------------
(***************************************************************************)
(* Scripts.  A commit creates objects, writes rows and, when version is    *)
(* not 0, sets user_version.                                               *)
(***************************************************************************)

Creates(object) == [creates |-> {object}, writes |-> {}, version |-> 0]
Writes(row)     == [creates |-> {}, writes |-> {row}, version |-> 0]
Version(r)      == [creates |-> {}, writes |-> {}, version |-> r]

Objects(script) == UNION {script[i].creates : i \in DOMAIN script}
Rows(script) == UNION {script[i].writes : i \in DOMAIN script}

\* The two transactions that Python opens at the first INSERT.
ProfilesTransaction ==
    [creates |-> {}, writes |-> {"profiles", "default_media_type"}, version |-> 3]
SemanticsTransaction ==
    [creates |-> {}, writes |-> {"variable_semantics"}, version |-> 4]

MigrationScript ==
    [r \in 2 .. 7 |->
        CASE r = 2 -> <<Creates("contents"), Creates("contents_type"), ProfilesTransaction>>
          [] r = 3 -> <<Creates("variables"), Creates("variables_standard_name"),
                        Creates("variable_identifiers"), SemanticsTransaction>>
          [] r = 4 -> <<Creates("identifiers"), Creates("one_primary_identifier"),
                        Creates("related_identifiers"), Creates("rights"),
                        Creates("rights_scope"), Creates("fair_agents"),
                        Creates("publication_evidence"), Writes("fair_profile"),
                        Writes("provenance_profile"), Writes("metadata_profile"),
                        Writes("license_profile"), Version(5)>>
          [] r = 5 -> <<Creates("integrity_manifests"), Creates("signatures"),
                        Creates("signatures_manifest"), Creates("signatures_key"),
                        Writes("integrity_profile"), Writes("signature_profile"),
                        Version(6)>>
          [] r = 6 -> <<Creates("commercial_products"), Creates("drm_policies"),
                        Creates("drm_policy_product"), Writes("drm_profile"),
                        Writes("rights_policy_profile"), Version(7)>>
          [] r = 7 -> <<Creates("release"), Creates("release_product_version"),
                        Writes("versioning_profile"), Version(8)>>]

\* schema.sql: the tables of slices and tiles, after user_version, which comes first.
SliceTables ==
    <<Version(8), Creates("metadata"), Creates("dimensions"), Creates("variables"),
      Creates("variables_standard_name"), Creates("variable_identifiers"),
      Creates("values"), Creates("coordinate_sets"), Creates("coordinates"),
      Creates("contents"), Creates("contents_type"), Creates("tiles_table")>>

\* schema.sql: the tables that describe the container, and the MBTiles interface.
DescriptiveTables ==
    <<Creates("crs"), Creates("provenance"), Creates("release"),
      Creates("release_product_version"), Creates("commercial_products"),
      Creates("drm_policies"), Creates("drm_policy_product"),
      Creates("integrity_manifests"), Creates("signatures"),
      Creates("signatures_manifest"), Creates("signatures_key"),
      Creates("identifiers"), Creates("one_primary_identifier"),
      Creates("related_identifiers"), Creates("rights"), Creates("rights_scope"),
      Creates("fair_agents"), Creates("publication_evidence"),
      Creates("selected_slice"), Creates("tiles_view"), Creates("dimension_guard")>>

\* The constructor's one INSERT.
ConstructorRows ==
    [creates |-> {}, version |-> 0,
     writes |-> {"profiles", "default_media_type", "variable_semantics",
                 "fair_profile", "provenance_profile", "metadata_profile",
                 "license_profile", "integrity_profile", "signature_profile",
                 "drm_profile", "rights_policy_profile"}]

SchemaScript == SliceTables \o DescriptiveTables \o <<ConstructorRows>>

\* _check_and_migrate: the tables it looks for in a file of revision r.
Required(r) ==
    {"metadata", "tiles_view", "dimensions", "values", "coordinate_sets",
     "coordinates", "tiles_table", "selected_slice"}
    \union (IF r >= 3 THEN {"contents"} ELSE {})
    \union (IF r >= 4 THEN {"variables", "variable_identifiers"} ELSE {})
    \union (IF r >= 5 THEN {"identifiers", "related_identifiers", "rights",
                            "fair_agents", "publication_evidence"} ELSE {})
    \union (IF r >= 6 THEN {"integrity_manifests", "signatures"} ELSE {})
    \union (IF r >= 7 THEN {"commercial_products", "drm_policies"} ELSE {})
    \union (IF r = 8 THEN {"release"} ELSE {})

\* What a file made by an earlier release at revision r holds.
LegacyObjects(r) ==
    Objects(SchemaScript) \ UNION {Objects(MigrationScript[s]) : s \in r .. 7}
LegacyRows(r) == UNION {Rows(MigrationScript[s]) : s \in 2 .. (r - 1)}
-----------------------------------------------------------------------------
(***************************************************************************)
(* The constructor of DataTiles.                                           *)
(***************************************************************************)

Closed == [stage |-> "closed"]

Working(p) == opener[p].stage \in {"checking", "running"}

Become(p, state) == opener' = [opener EXCEPT ![p] = state]

Init ==
    /\ opener = [p \in Process |-> Closed]
    /\ crashes = 0
    /\ legacy \in {0} \union Supported
    /\ revision = legacy
    /\ objects = IF legacy = 0 THEN {} ELSE LegacyObjects(legacy)
    /\ rows = IF legacy = 0 THEN {} ELSE LegacyRows(legacy)

Script(state) ==
    IF state.mode = "create" THEN SchemaScript ELSE MigrationScript[state.from]

\* DataTiles(path, create=True): the file must not exist.
StartCreate(p) ==
    /\ opener[p] = Closed
    /\ revision = 0
    /\ Become(p, [stage |-> "running", mode |-> "create", from |-> 0, next |-> 1])
    /\ UNCHANGED <<legacy, revision, objects, rows, crashes>>

\* DataTiles(path): reads user_version, which must be supported.
ReadRevision(p, mode) ==
    /\ opener[p] = Closed
    /\ revision \in Supported
    /\ Become(p, [stage |-> "checking", mode |-> mode, from |-> revision, next |-> 1])
    /\ UNCHANGED <<legacy, revision, objects, rows, crashes>>

\* Fault: a read-only open takes an earlier revision as it is.
CheckObjectsOnly(p) ==
    LET state == opener[p] IN
    /\ state.stage = "checking"
    /\ CASE ~(Required(state.from) \subseteq objects) -> Become(p, Closed)
         [] state.from = Current \/ state.mode = "read_only" ->
                Become(p, [state EXCEPT !.stage = "open"])
         [] OTHER -> Become(p, [state EXCEPT !.stage = "running"])
    /\ UNCHANGED <<legacy, revision, objects, rows, crashes>>

\* Reads sqlite_master; a missing table, or a read-only open of an earlier
\* revision, raises.
CheckObjects(p) ==
    LET state == opener[p] IN
    /\ state.stage = "checking"
    /\ CASE ~(Required(state.from) \subseteq objects) -> Become(p, Closed)
         [] state.from = Current -> Become(p, [state EXCEPT !.stage = "open"])
         [] state.mode = "read_only" -> Become(p, Closed)
         [] OTHER -> Become(p, [state EXCEPT !.stage = "running"])
    /\ UNCHANGED <<legacy, revision, objects, rows, crashes>>

\* Fault: one statement too many.
AdvanceTooFar(state) ==
    IF state.next <= Len(Script(state)) THEN [state EXCEPT !.next = @ + 1]
    ELSE [state EXCEPT !.stage = "open"]

\* Fault: the last statement, which sets user_version, is left out.
AdvanceTooSoon(state) ==
    IF state.next + 1 < Len(Script(state)) THEN [state EXCEPT !.next = @ + 1]
    ELSE IF state.mode = "create" \/ state.from = 7 THEN [state EXCEPT !.stage = "open"]
    ELSE [state EXCEPT !.from = @ + 1, !.next = 1]

\* Fault: one migration per open.
AdvanceOnce(state) ==
    IF state.next < Len(Script(state)) THEN [state EXCEPT !.next = @ + 1]
    ELSE [state EXCEPT !.stage = "open"]

\* After its last commit a migration goes on to the next one, without a new check.
Advance(state) ==
    IF state.next < Len(Script(state)) THEN [state EXCEPT !.next = @ + 1]
    ELSE IF state.mode = "create" \/ state.from = 7 THEN [state EXCEPT !.stage = "open"]
    ELSE [state EXCEPT !.from = @ + 1, !.next = 1]

\* Fault: a migration sets user_version first, as schema.sql does.
CommitVersionFirst(p, commit) ==
    LET state == opener[p] IN
    /\ objects' = objects \union commit.creates
    /\ rows' = rows \union commit.writes
    /\ revision' = IF state.mode = "write" /\ state.next = 1 THEN state.from + 1
                   ELSE IF commit.version = 0 THEN revision ELSE commit.version
    /\ Become(p, Advance(state))
    /\ UNCHANGED <<legacy, crashes>>

Commit(p, commit) ==
    /\ objects' = objects \union commit.creates
    /\ rows' = rows \union commit.writes
    /\ revision' = IF commit.version = 0 THEN revision ELSE commit.version
    /\ Become(p, Advance(opener[p]))
    /\ UNCHANGED <<legacy, crashes>>

\* Fault: CREATE ... IF NOT EXISTS.
RunIfNotExists(p) ==
    /\ opener[p].stage = "running"
    /\ Commit(p, Script(opener[p])[opener[p].next])

\* The next statement commits, or raises because what it creates exists.
Run(p) ==
    LET commit == Script(opener[p])[opener[p].next] IN
    /\ opener[p].stage = "running"
    /\ \/ /\ commit.creates \intersect objects = {}
          /\ Commit(p, commit)
       \/ /\ commit.creates \intersect objects # {}
          /\ Become(p, Closed)
          /\ UNCHANGED <<legacy, revision, objects, rows, crashes>>

Close(p) ==
    /\ opener[p].stage = "open"
    /\ Become(p, Closed)
    /\ UNCHANGED <<legacy, revision, objects, rows, crashes>>

\* Killed, or "database is locked" for longer than the timeout.
Crash(p) ==
    /\ crashes < MaxCrashes
    /\ Working(p)
    /\ Become(p, Closed)
    /\ crashes' = crashes + 1
    /\ UNCHANGED <<legacy, revision, objects, rows>>

Construct(p) ==
    \/ StartCreate(p)
    \/ \E mode \in {"write", "read_only"} : ReadRevision(p, mode)
    \/ CheckObjects(p)
    \/ Run(p)

Next == \E p \in Process : Construct(p) \/ Close(p) \/ Crash(p)

\* A constructor that has begun goes on unless its process is killed.
Fairness == \A p \in Process : WF_vars(CheckObjects(p) \/ Run(p))

Spec == Init /\ [][Next]_vars /\ Fairness
-----------------------------------------------------------------------------
Stage == {"checking", "running", "open"}

TypeOK ==
    /\ revision \in {0} \union Supported
    /\ objects \subseteq Objects(SchemaScript)
    /\ rows \subseteq Rows(SchemaScript) \union {"versioning_profile"}
    /\ crashes \in 0 .. MaxCrashes
    /\ \A p \in Process :
          \/ opener[p] = Closed
          \/ /\ opener[p].stage \in Stage /\ opener[p].mode \in Mode
             /\ opener[p].from \in {0} \union Supported
             /\ opener[p].stage = "running" => opener[p].next \in 1 .. Len(Script(opener[p]))

Migrated == legacy # 0

\* A file that is migrated, or that a killed migration left behind, has every object
\* and row of the revision it claims, whoever ran which part of the scripts.
MigratedIsComplete ==
    Migrated => LegacyObjects(revision) \subseteq objects /\ LegacyRows(revision) \subseteq rows

\* Nobody works on a file of an earlier revision, not even read-only, and not when
\* another process is half way through the migration.
OpenedIsCurrent ==
    Migrated => \A p \in Process : opener[p].stage = "open" => revision = Current

\* A slow migration does not set the revision back behind a faster one's.
RevisionNeverDecreases == [][revision' >= revision]_vars

\* A migration that has begun, by one process or by several that raise each other's
\* "table already exists", ends at the current revision unless a process is killed.
MigrationCompletes ==
    \A p \in Process :
        opener[p].stage = "running" /\ opener[p].mode = "write" ~>
            revision = Current \/ crashes > 0

\* Without a kill, no interleaving of processes leaves part of a migration in the file, or
\* more or less than a release of its revision would have put there.
UnkilledMigrationsAreWhole ==
    Migrated /\ crashes = 0 /\ (\A p \in Process : ~Working(p)) =>
        objects = LegacyObjects(revision) /\ rows = LegacyRows(revision)

\* docs/specification.md section 18: a migration MUST be transactional.  When no
\* process is at work, nothing of an unfinished migration is in the file.
MigrationIsTransactional ==
    Migrated /\ (\A p \in Process : ~Working(p)) => objects = LegacyObjects(revision)
=============================================================================
