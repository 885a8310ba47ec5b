------------------------ MODULE SchemaRevisionProofs ------------------------
(***************************************************************************)
(* Proofs about SchemaRevision: its type, that a migrated file is complete *)
(* at the revision it claims, that nobody works on a file of an earlier    *)
(* revision, that the revision never decreases, and that a migration that  *)
(* is not killed leaves neither less nor more than the next revision, for  *)
(* any number of processes and kills.                                      *)
(*                                                                         *)
(* The argument: the first statement of each migration creates an object   *)
(* that no other migration creates, so that of all processes that begin a  *)
(* migration one gets past it.  That one alone is at work, at the file's   *)
(* revision, until it commits the next; when it is killed, nobody gets     *)
(* past the object again.                                                  *)
(***************************************************************************)
EXTENDS SchemaRevision, TLAPS

\* The object that the first statement of a migration creates.
First == [r \in 2 .. 7 |->
    CASE r = 2 -> "contents"
      [] r = 3 -> "variables"
      [] r = 4 -> "identifiers"
      [] r = 5 -> "integrity_manifests"
      [] r = 6 -> "commercial_products"
      [] r = 7 -> "release"]

Shape(script) == DOMAIN script = 1 .. Len(script) /\ Len(script) \in Nat \ {0}

\* A script that begins with its first object and sets the revision with its last commit.
IsMigration(script, r) ==
    /\ Shape(script) /\ Len(script) > 1
    /\ script[1].creates = {First[r]}
    /\ script[Len(script)].version = r + 1
    /\ \A i \in 1 .. Len(script) : i < Len(script) => script[i].version = 0
    /\ \A i, j \in 1 .. Len(script) :
          i # j => script[i].creates \intersect script[j].creates = {}

Describes(script, r, created, written) ==
    IsMigration(script, r) /\ Objects(script) = created /\ Rows(script) = written
-----------------------------------------------------------------------------
(***************************************************************************)
(* What the scripts do.                                                    *)
(***************************************************************************)

\* What the statements of a script do.
LEMMA StatementFields ==
    ASSUME NEW x
    PROVE  /\ Creates(x).creates = {x} /\ Creates(x).writes = {} /\ Creates(x).version = 0
           /\ Writes(x).creates = {} /\ Writes(x).writes = {x} /\ Writes(x).version = 0
           /\ Version(x).creates = {} /\ Version(x).writes = {} /\ Version(x).version = x
BY DEF Creates, Writes, Version

\* What the two transactions that Python opens do.
LEMMA TransactionFields ==
    /\ ProfilesTransaction.creates = {} /\ ProfilesTransaction.version = 3
    /\ ProfilesTransaction.writes = {"profiles", "default_media_type"}
    /\ SemanticsTransaction.creates = {} /\ SemanticsTransaction.version = 4
    /\ SemanticsTransaction.writes = {"variable_semantics"}
BY DEF ProfilesTransaction, SemanticsTransaction

\* The statements of the migrations, with what they create and write.
LEMMA Migration2 ==
    Describes(MigrationScript[2], 2,
        {"contents", "contents_type"},
        {"profiles", "default_media_type"})
<1> DEFINE script == MigrationScript[2]
<1>1. script = <<Creates("contents"), Creates("contents_type"), ProfilesTransaction>>
    BY DEF MigrationScript
<1> HIDE DEF script
<1>2. IsMigration(script, 2)
    BY <1>1, StatementFields, TransactionFields DEF IsMigration, Shape, First
<1>3. Objects(script) =
        {"contents", "contents_type"}
    BY <1>1, StatementFields, TransactionFields DEF Objects
<1>4. Rows(script) =
        {"profiles", "default_media_type"}
    BY <1>1, StatementFields, TransactionFields DEF Rows
<1> QED BY <1>2, <1>3, <1>4 DEF script, Describes

LEMMA Migration3 ==
    Describes(MigrationScript[3], 3,
        {"variables", "variables_standard_name", "variable_identifiers"},
        {"variable_semantics"})
<1> DEFINE script == MigrationScript[3]
<1>1. script = <<Creates("variables"), Creates("variables_standard_name"),
                   Creates("variable_identifiers"), SemanticsTransaction>>
    BY DEF MigrationScript
<1> HIDE DEF script
<1>2. IsMigration(script, 3)
    BY <1>1, StatementFields, TransactionFields DEF IsMigration, Shape, First
<1>3. Objects(script) =
        {"variables", "variables_standard_name", "variable_identifiers"}
    BY <1>1, StatementFields, TransactionFields DEF Objects
<1>4. Rows(script) =
        {"variable_semantics"}
    BY <1>1, StatementFields, TransactionFields DEF Rows
<1> QED BY <1>2, <1>3, <1>4 DEF script, Describes

LEMMA Migration4 ==
    Describes(MigrationScript[4], 4,
        {"identifiers", "one_primary_identifier", "related_identifiers", "rights",
         "rights_scope", "fair_agents", "publication_evidence"},
        {"fair_profile", "provenance_profile", "metadata_profile", "license_profile"})
<1> DEFINE script == MigrationScript[4]
<1>1. script = <<Creates("identifiers"), Creates("one_primary_identifier"),
                   Creates("related_identifiers"), Creates("rights"),
                   Creates("rights_scope"), Creates("fair_agents"),
                   Creates("publication_evidence"), Writes("fair_profile"),
                   Writes("provenance_profile"), Writes("metadata_profile"),
                   Writes("license_profile"), Version(5)>>
    BY DEF MigrationScript
<1> HIDE DEF script
<1>2. IsMigration(script, 4)
    BY <1>1, StatementFields, TransactionFields DEF IsMigration, Shape, First
<1>3. Objects(script) =
        {"identifiers", "one_primary_identifier", "related_identifiers", "rights",
         "rights_scope", "fair_agents", "publication_evidence"}
    BY <1>1, StatementFields, TransactionFields DEF Objects
<1>4. Rows(script) =
        {"fair_profile", "provenance_profile", "metadata_profile", "license_profile"}
    BY <1>1, StatementFields, TransactionFields DEF Rows
<1> QED BY <1>2, <1>3, <1>4 DEF script, Describes

LEMMA Migration5 ==
    Describes(MigrationScript[5], 5,
        {"integrity_manifests", "signatures", "signatures_manifest", "signatures_key"},
        {"integrity_profile", "signature_profile"})
<1> DEFINE script == MigrationScript[5]
<1>1. script = <<Creates("integrity_manifests"), Creates("signatures"), Creates("signatures_manifest"),
                   Creates("signatures_key"), Writes("integrity_profile"),
                   Writes("signature_profile"), Version(6)>>
    BY DEF MigrationScript
<1> HIDE DEF script
<1>2. IsMigration(script, 5)
    BY <1>1, StatementFields, TransactionFields DEF IsMigration, Shape, First
<1>3. Objects(script) =
        {"integrity_manifests", "signatures", "signatures_manifest", "signatures_key"}
    BY <1>1, StatementFields, TransactionFields DEF Objects
<1>4. Rows(script) =
        {"integrity_profile", "signature_profile"}
    BY <1>1, StatementFields, TransactionFields DEF Rows
<1> QED BY <1>2, <1>3, <1>4 DEF script, Describes

LEMMA Migration6 ==
    Describes(MigrationScript[6], 6,
        {"commercial_products", "drm_policies", "drm_policy_product"},
        {"drm_profile", "rights_policy_profile"})
<1> DEFINE script == MigrationScript[6]
<1>1. script = <<Creates("commercial_products"), Creates("drm_policies"), Creates("drm_policy_product"),
                   Writes("drm_profile"), Writes("rights_policy_profile"), Version(7)>>
    BY DEF MigrationScript
<1> HIDE DEF script
<1>2. IsMigration(script, 6)
    BY <1>1, StatementFields, TransactionFields DEF IsMigration, Shape, First
<1>3. Objects(script) =
        {"commercial_products", "drm_policies", "drm_policy_product"}
    BY <1>1, StatementFields, TransactionFields DEF Objects
<1>4. Rows(script) =
        {"drm_profile", "rights_policy_profile"}
    BY <1>1, StatementFields, TransactionFields DEF Rows
<1> QED BY <1>2, <1>3, <1>4 DEF script, Describes

LEMMA Migration7 ==
    Describes(MigrationScript[7], 7,
        {"release", "release_product_version"},
        {"versioning_profile"})
<1> DEFINE script == MigrationScript[7]
<1>1. script = <<Creates("release"), Creates("release_product_version"), Writes("versioning_profile"),
                   Version(8)>>
    BY DEF MigrationScript
<1> HIDE DEF script
<1>2. IsMigration(script, 7)
    BY <1>1, StatementFields, TransactionFields DEF IsMigration, Shape, First
<1>3. Objects(script) =
        {"release", "release_product_version"}
    BY <1>1, StatementFields, TransactionFields DEF Objects
<1>4. Rows(script) =
        {"versioning_profile"}
    BY <1>1, StatementFields, TransactionFields DEF Rows
<1> QED BY <1>2, <1>3, <1>4 DEF script, Describes

\* The revisions that a migration leaves behind.
Revisable == 2 .. 7

\* Each migration creates objects of its own.
LEMMA Migrations ==
    ASSUME NEW r \in Revisable
    PROVE  /\ IsMigration(MigrationScript[r], r)
           /\ First[r] \in Objects(MigrationScript[r])
           /\ \A s \in Revisable : s # r =>
                /\ First[s] \notin Objects(MigrationScript[r])
                /\ Objects(MigrationScript[s]) \intersect Objects(MigrationScript[r]) = {}
<1>1. r \in {2, 3, 4, 5, 6, 7}
    BY DEF Revisable
<1>2. \A s \in Revisable : s \in {2, 3, 4, 5, 6, 7}
    BY DEF Revisable
<1> QED BY <1>1, <1>2, Migration2, Migration3, Migration4, Migration5, Migration6, Migration7
       DEF Describes, First

\* A script made of two does what each of them does.
LEMMA Concatenation ==
    ASSUME NEW S, NEW s \in Seq(S), NEW t \in Seq(S)
    PROVE  /\ s \o t \in Seq(S) /\ Len(s \o t) = Len(s) + Len(t)
           /\ Objects(s) \union Objects(t) \subseteq Objects(s \o t)
           /\ Rows(s) \union Rows(t) \subseteq Rows(s \o t)
<1>1. /\ s \o t \in Seq(S) /\ Len(s \o t) = Len(s) + Len(t)
      /\ DOMAIN s = 1 .. Len(s) /\ DOMAIN t = 1 .. Len(t)
      /\ DOMAIN (s \o t) = 1 .. Len(s) + Len(t)
    OBVIOUS
<1>2. \A i \in DOMAIN s : i \in DOMAIN (s \o t) /\ (s \o t)[i] = s[i]
    BY <1>1
<1>3. \A i \in DOMAIN t : Len(s) + i \in DOMAIN (s \o t) /\ (s \o t)[Len(s) + i] = t[i]
    BY <1>1
<1> DEFINE st == s \o t
<1>4. \A i \in DOMAIN s : \E j \in DOMAIN st : st[j] = s[i]
    BY <1>2
<1>5. \A i \in DOMAIN t : \E j \in DOMAIN st : st[j] = t[i]
    BY <1>3
<1> HIDE DEF st
<1>6. Objects(s) \union Objects(t) \subseteq Objects(st)
    BY <1>4, <1>5 DEF Objects
<1>7. Rows(s) \union Rows(t) \subseteq Rows(st)
    BY <1>4, <1>5 DEF Rows
<1> QED BY <1>1, <1>6, <1>7 DEF st

\* schema.sql sets the current revision and no other.
LEMMA Creation ==
    /\ Shape(SchemaScript)
    /\ \A i \in 1 .. Len(SchemaScript) : SchemaScript[i].version \in {0, Current}
    /\ Objects(SliceTables) \union Objects(DescriptiveTables) \subseteq Objects(SchemaScript)
    /\ ConstructorRows.writes \subseteq Rows(SchemaScript)
<1> DEFINE S == {SliceTables[i] : i \in 1 .. 12} \union {DescriptiveTables[i] : i \in 1 .. 21}
                \union {ConstructorRows}
           last == <<ConstructorRows>>
           first == SliceTables \o DescriptiveTables
<1>1. SliceTables \in Seq(S) /\ Len(SliceTables) = 12
    <2>1. Len(SliceTables) = 12 /\ DOMAIN SliceTables = 1 .. 12
        BY DEF SliceTables
    <2> QED BY <2>1 DEF SliceTables
<1>2. DescriptiveTables \in Seq(S) /\ Len(DescriptiveTables) = 21
    <2>1. Len(DescriptiveTables) = 21 /\ DOMAIN DescriptiveTables = 1 .. 21
        BY DEF DescriptiveTables
    <2> QED BY <2>1 DEF DescriptiveTables
<1>3. last \in Seq(S) /\ Len(last) = 1 /\ Rows(last) = ConstructorRows.writes
    BY DEF Rows
<1>4. \A x \in S : x.version \in {0, Current}
    <2>1. \A i \in 1 .. 12 : SliceTables[i].version \in {0, Current}
        BY StatementFields DEF SliceTables, Current
    <2>2. \A i \in 1 .. 21 : DescriptiveTables[i].version \in {0, Current}
        BY StatementFields DEF DescriptiveTables, Current
    <2>3. ConstructorRows.version = 0
        BY DEF ConstructorRows
    <2> QED BY <2>1, <2>2, <2>3
<1> HIDE DEF S, last
<1>5. /\ first \in Seq(S) /\ Len(first) = 33
      /\ Objects(SliceTables) \union Objects(DescriptiveTables) \subseteq Objects(first)
    <2>1. /\ first \in Seq(S) /\ Len(first) = Len(SliceTables) + Len(DescriptiveTables)
          /\ Objects(SliceTables) \union Objects(DescriptiveTables) \subseteq Objects(first)
        BY <1>1, <1>2, Concatenation, Zenon
    <2> QED BY <2>1, <1>1, <1>2
<1>6. SchemaScript = first \o last
    BY DEF SchemaScript, last
<1> HIDE DEF first
<1>7. /\ SchemaScript \in Seq(S) /\ Len(SchemaScript) = 34
      /\ Objects(first) \subseteq Objects(SchemaScript)
      /\ Rows(last) \subseteq Rows(SchemaScript)
    <2>1. /\ SchemaScript \in Seq(S) /\ Len(SchemaScript) = Len(first) + Len(last)
          /\ Objects(first) \union Objects(last) \subseteq Objects(SchemaScript)
          /\ Rows(first) \union Rows(last) \subseteq Rows(SchemaScript)
        BY <1>3, <1>5, <1>6, Concatenation, Zenon
    <2> QED BY <2>1, <1>3, <1>5
<1>8. /\ DOMAIN SchemaScript = 1 .. Len(SchemaScript)
      /\ \A i \in 1 .. Len(SchemaScript) : SchemaScript[i] \in S
    <2>1. \A s \in Seq(S) : DOMAIN s = 1 .. Len(s) /\ \A i \in 1 .. Len(s) : s[i] \in S
        OBVIOUS
    <2> QED BY <1>7, <2>1, Zenon
<1>9. \A i \in 1 .. Len(SchemaScript) : SchemaScript[i].version \in {0, Current}
    BY <1>4, <1>8, Zenon
<1>10. Shape(SchemaScript)
    BY <1>7, <1>8 DEF Shape
<1> QED BY <1>3, <1>5, <1>7, <1>9, <1>10, Zenon

\* What a migration adds, the schema has, but for one row.
LEMMA MigrationsAddTheSchema ==
    ASSUME NEW r \in Revisable
    PROVE  /\ Objects(MigrationScript[r]) \subseteq Objects(SchemaScript)
           /\ Rows(MigrationScript[r]) \subseteq Rows(SchemaScript) \union {"versioning_profile"}
<1>1. /\ {"variables", "variables_standard_name", "variable_identifiers", "contents",
          "contents_type"} \subseteq Objects(SliceTables)
    BY StatementFields DEF SliceTables, Objects
<1>2. {"release", "release_product_version", "commercial_products", "drm_policies",
       "drm_policy_product", "integrity_manifests", "signatures", "signatures_manifest",
       "signatures_key", "identifiers", "one_primary_identifier", "related_identifiers",
       "rights", "rights_scope", "fair_agents", "publication_evidence"}
          \subseteq Objects(DescriptiveTables)
    BY StatementFields DEF DescriptiveTables, Objects
<1>3. r \in {2, 3, 4, 5, 6, 7}
    BY DEF Revisable
<1>4. Objects(MigrationScript[r]) \subseteq Objects(SliceTables) \union Objects(DescriptiveTables)
    BY <1>1, <1>2, <1>3, Migration2, Migration3, Migration4, Migration5, Migration6, Migration7
       DEF Describes
<1>5. Rows(MigrationScript[r]) \subseteq ConstructorRows.writes \union {"versioning_profile"}
    BY <1>3, Migration2, Migration3, Migration4, Migration5, Migration6, Migration7
       DEF Describes, ConstructorRows
<1> QED BY <1>4, <1>5, Creation
-----------------------------------------------------------------------------
(***************************************************************************)
(* The inductive invariant.                                                *)
(***************************************************************************)

OpenerState == [stage : Stage, mode : Mode, from : {0} \union Supported, next : Nat]

Typed ==
    /\ TypeOK
    /\ legacy \in {0} \union Supported
    /\ opener \in [Process -> {Closed} \union OpenerState]
    /\ \A p \in Process : opener[p].stage = "checking" =>
          opener[p].mode # "create" /\ opener[p].next = 1

\* A file that some process made is of the current revision as soon as it has one.
Creating ==
    /\ revision \in {0, Current}
    /\ \A p \in Process :
          /\ opener[p].stage = "checking" => opener[p].from = Current
          /\ opener[p].stage = "running" => opener[p].mode = "create"

Past(p) == opener[p].stage = "running" /\ opener[p].next > 1

\* What a process that has begun a migration has done of it.
Begun(p) ==
    LET state == opener[p] IN
    /\ state.from = revision
    /\ First[state.from] \in objects
    /\ \A i \in 1 .. (state.next - 1) :
          /\ MigrationScript[state.from][i].creates \subseteq objects
          /\ MigrationScript[state.from][i].writes \subseteq rows

Migrating(p) ==
    LET state == opener[p] IN
    /\ state.stage = "checking" => state.from \in 2 .. revision
    /\ state.stage = "running" =>
          state.from \in Revisable /\ state.from <= revision /\ state.mode = "write"
    /\ state.stage = "open" => revision = Current
    /\ Past(p) => Begun(p)

\* One process is past the first statement of a migration, and none after it was killed.
OneAtATime ==
    /\ revision \in Supported
    /\ LegacyObjects(revision) \subseteq objects /\ LegacyRows(revision) \subseteq rows
    /\ \A s \in Revisable : s > revision => First[s] \notin objects
    /\ \A p \in Process : Migrating(p)
    /\ \A p, q \in Process : Past(p) /\ Past(q) => p = q

IInv == Typed /\ IF legacy = 0 THEN Creating ELSE OneAtATime
-----------------------------------------------------------------------------
\* A file of a later revision has what earlier migrations create first.
LEMMA FirstIsLegacy ==
    ASSUME NEW r \in Revisable, NEW s \in Supported, r < s PROVE First[r] \in LegacyObjects(s)
<1>1. First[r] \in Objects(SchemaScript)
    BY Migrations, MigrationsAddTheSchema
<1>2. \A t \in s .. 7 : t \in Revisable /\ t # r
    BY DEF Revisable, Supported, Current
<1>3. \A t \in s .. 7 : First[r] \notin Objects(MigrationScript[t])
    BY <1>2, Migrations
<1> QED BY <1>1, <1>3 DEF LegacyObjects

\* A migration adds all that the next revision has.
LEMMA LegacyStep ==
    ASSUME NEW r \in Revisable
    PROVE  /\ LegacyObjects(r + 1) \subseteq LegacyObjects(r) \union Objects(MigrationScript[r])
           /\ LegacyRows(r + 1) \subseteq LegacyRows(r) \union Rows(MigrationScript[r])
<1>1. r .. 7 = ((r + 1) .. 7) \union {r}
    BY DEF Revisable
<1>2. 2 .. (r + 1 - 1) = (2 .. (r - 1)) \union {r}
    BY DEF Revisable
<1>3. LegacyObjects(r + 1) \subseteq LegacyObjects(r) \union Objects(MigrationScript[r])
    BY <1>1 DEF LegacyObjects
<1>4. LegacyRows(r + 1) \subseteq LegacyRows(r) \union Rows(MigrationScript[r])
    BY <1>2 DEF LegacyRows
<1> QED BY <1>3, <1>4

\* The invariant holds of the file the first process finds.
LEMMA InitIInv == Init => IInv
<1> SUFFICES ASSUME Init PROVE IInv
    OBVIOUS
<1>1. \A p \in Process : opener[p] = Closed /\ opener[p].stage = "closed"
    BY DEF Init, Closed
<1>2. /\ objects \subseteq Objects(SchemaScript)
      /\ rows \subseteq Rows(SchemaScript) \union {"versioning_profile"}
    <2>1. CASE legacy = 0
        BY <2>1 DEF Init
    <2>2. CASE legacy # 0
        <3>1. legacy \in Supported
            BY <2>2 DEF Init
        <3>2. \A s \in 2 .. (legacy - 1) : s \in Revisable
            BY <3>1 DEF Supported, Current, Revisable
        <3>3. rows \subseteq Rows(SchemaScript) \union {"versioning_profile"}
            BY <2>2, <3>2, MigrationsAddTheSchema DEF Init, LegacyRows
        <3> QED BY <2>2, <3>3 DEF Init, LegacyObjects
    <2> QED BY <2>1, <2>2
<1>3. Typed
    BY <1>1, <1>2, MaxCrashesAssumption DEF Init, Typed, TypeOK, Closed
<1>4. CASE legacy = 0
    BY <1>1, <1>3, <1>4 DEF Init, IInv, Creating
<1>5. CASE legacy # 0
    <2>1. legacy \in Supported /\ revision = legacy
        BY <1>5 DEF Init
    <2>2. \A s \in Revisable : s > revision => s \in revision .. 7
        BY <2>1 DEF Supported, Current, Revisable
    <2>3. \A s \in Revisable : s > revision => First[s] \notin objects
        BY <1>5, <2>1, <2>2, Migrations DEF Init, LegacyObjects
    <2>4. OneAtATime
        BY <1>1, <1>5, <2>1, <2>3 DEF Init, OneAtATime, Migrating, Past
    <2> QED BY <1>3, <1>5, <2>4 DEF IInv
<1> QED BY <1>4, <1>5
-----------------------------------------------------------------------------
(***************************************************************************)
(* Steps that leave the file alone.                                        *)
(***************************************************************************)

\* A process may go on to a state that claims nothing it does not find.
Fits(state) ==
    /\ state \in {Closed} \union OpenerState
    /\ state.stage = "checking" =>
          /\ state.mode # "create" /\ state.next = 1
          /\ state.from = revision /\ revision \in Supported
    /\ state.stage = "running" =>
          /\ state.next = 1
          /\ IF legacy = 0 THEN state.mode = "create"
             ELSE state.mode = "write" /\ state.from \in Revisable /\ state.from <= revision
    /\ state.stage = "open" => legacy = 0 \/ revision = Current

\* Every script has a first statement.
LEMMA ScriptStarts ==
    ASSUME NEW state, state.mode # "create" => state.from \in Revisable
    PROVE  Shape(Script(state)) /\ 1 \in 1 .. Len(Script(state))
<1>1. Script(state) = SchemaScript \/ \E r \in Revisable : Script(state) = MigrationScript[r]
    BY DEF Script
<1>2. Shape(Script(state))
    BY <1>1, Creation, Migrations DEF IsMigration
<1> QED BY <1>2 DEF Shape

\* Going on to such a state keeps the invariant.
LEMMA BecomeKeeps ==
    ASSUME IInv, NEW p \in Process, NEW state, Fits(state), Become(p, state),
           UNCHANGED <<legacy, revision, objects, rows>>, crashes' \in 0 .. MaxCrashes
    PROVE  IInv'
<1>1. /\ opener' \in [Process -> {Closed} \union OpenerState]
      /\ \A q \in Process : opener'[q] = IF q = p THEN state ELSE opener[q]
    BY DEF IInv, Typed, Become, Fits
<1>2. state.stage = "running" => state.next \in 1 .. Len(Script(state))
    BY ScriptStarts DEF Fits
<1>3. Typed'
    <2>1. \A q \in Process :
              \/ opener'[q] = Closed
              \/ /\ opener'[q].stage \in Stage /\ opener'[q].mode \in Mode
                 /\ opener'[q].from \in {0} \union Supported
                 /\ opener'[q].stage = "running" =>
                        opener'[q].next \in 1 .. Len(Script(opener'[q]))
        <3> TAKE q \in Process
        <3>1. CASE q = p
            BY <1>1, <1>2, <3>1 DEF Fits, OpenerState
        <3>2. CASE q # p
            BY <1>1, <3>2 DEF IInv, Typed, TypeOK
        <3> QED BY <3>1, <3>2
    <2>2. \A q \in Process : opener'[q].stage = "checking" =>
              opener'[q].mode # "create" /\ opener'[q].next = 1
        BY <1>1 DEF IInv, Typed, Fits
    <2> QED BY <1>1, <2>1, <2>2 DEF IInv, Typed, TypeOK, Script
<1>4. CASE legacy = 0
    BY <1>1, <1>3, <1>4 DEF IInv, Creating, Fits, Supported
<1>5. CASE legacy # 0
    <2>1. Migrating(p)' /\ ~Past(p)'
        BY <1>1, <1>5 DEF IInv, OneAtATime, Migrating, Past, Fits, Supported, Revisable
    <2>2. \A q \in Process : q # p => Migrating(q)' /\ (Past(q)' <=> Past(q))
        BY <1>1, <1>5 DEF IInv, OneAtATime, Migrating, Past, Begun
    <2>3. OneAtATime'
        BY <1>5, <2>1, <2>2 DEF IInv, OneAtATime, LegacyObjects, LegacyRows
    <2> QED BY <1>3, <1>5, <2>3 DEF IInv
<1> QED BY <1>4, <1>5

\* A process may close at any time.
LEMMA ClosedFits == Fits(Closed)
BY DEF Fits, Closed

\* Each action of a constructor that leaves the file alone is such a step.
LEMMA StartCreateKeeps == ASSUME IInv, NEW p \in Process, StartCreate(p) PROVE IInv'
<1> DEFINE state == [stage |-> "running", mode |-> "create", from |-> 0, next |-> 1]
<1>1. legacy = 0
    BY DEF StartCreate, IInv, OneAtATime, Supported
<1>2. Fits(state)
    BY <1>1 DEF Fits, OpenerState, Stage, Mode
<1> QED BY <1>2, BecomeKeeps DEF StartCreate, IInv, Typed, TypeOK

LEMMA ReadRevisionKeeps ==
    ASSUME IInv, NEW p \in Process, NEW mode \in {"write", "read_only"}, ReadRevision(p, mode)
    PROVE  IInv'
<1> DEFINE state == [stage |-> "checking", mode |-> mode, from |-> revision, next |-> 1]
<1>1. Fits(state)
    BY DEF Fits, OpenerState, Stage, Mode, ReadRevision
<1> QED BY <1>1, BecomeKeeps DEF ReadRevision, IInv, Typed, TypeOK

LEMMA CheckObjectsKeeps == ASSUME IInv, NEW p \in Process, CheckObjects(p) PROVE IInv'
<1> DEFINE state == opener[p]
<1>1. /\ state \in OpenerState /\ state.stage = "checking" /\ state.next = 1
      /\ state.mode # "create"
    BY DEF CheckObjects, IInv, Typed, Closed
<1>2. PICK after :
          /\ Become(p, after)
          /\ \/ after = Closed
             \/ after = [state EXCEPT !.stage = "open"] /\ state.from = Current
             \/ /\ after = [state EXCEPT !.stage = "running"]
                /\ state.from # Current /\ state.mode # "read_only"
    BY DEF CheckObjects
<1>3. ASSUME after = [state EXCEPT !.stage = "open"], state.from = Current PROVE Fits(after)
    <2>1. after \in OpenerState /\ after.stage = "open"
        BY <1>1, <1>3 DEF OpenerState, Stage
    <2>2. legacy = 0 \/ revision = Current
        BY <1>1, <1>3 DEF IInv, OneAtATime, Migrating, Supported, Current
    <2> QED BY <2>1, <2>2 DEF Fits
<1>4. ASSUME after = [state EXCEPT !.stage = "running"], state.from # Current,
             state.mode # "read_only"
      PROVE  Fits(after)
    <2>1. /\ after \in OpenerState /\ after.stage = "running" /\ after.next = 1
          /\ after.mode = state.mode /\ after.from = state.from
        BY <1>1, <1>4 DEF OpenerState, Stage
    <2>2. state.mode = "write"
        BY <1>1, <1>4 DEF OpenerState, Mode
    <2>3. legacy # 0
        BY <1>1, <1>4 DEF IInv, Creating
    <2>4. state.from \in Revisable /\ state.from <= revision
        BY <1>1, <1>4, <2>3 DEF IInv, OneAtATime, Migrating, Supported, Current, Revisable
    <2> QED BY <2>1, <2>2, <2>3, <2>4 DEF Fits
<1>5. UNCHANGED <<legacy, revision, objects, rows, crashes>>
    BY DEF CheckObjects
<1> QED BY <1>2, <1>3, <1>4, <1>5, ClosedFits, BecomeKeeps DEF IInv, Typed, TypeOK

LEMMA CloseKeeps == ASSUME IInv, NEW p \in Process, Close(p) PROVE IInv'
BY ClosedFits, BecomeKeeps DEF Close, IInv, Typed, TypeOK

LEMMA CrashKeeps == ASSUME IInv, NEW p \in Process, Crash(p) PROVE IInv'
<1>1. crashes' \in 0 .. MaxCrashes
    BY MaxCrashesAssumption DEF Crash, IInv, Typed, TypeOK
<1> QED BY <1>1, ClosedFits, BecomeKeeps DEF Crash
-----------------------------------------------------------------------------
(***************************************************************************)
(* Statements of a script.                                                 *)
(***************************************************************************)

\* A statement of schema.sql keeps the invariant.
LEMMA CreationKeeps ==
    ASSUME IInv, legacy = 0, NEW p \in Process, opener[p].stage = "running",
           Commit(p, Script(opener[p])[opener[p].next])
    PROVE  IInv' /\ revision' >= revision
<1> DEFINE state == opener[p]
           commit == SchemaScript[state.next]
           after == Advance(state)
<1>1. /\ state \in OpenerState /\ state.stage = "running" /\ state.mode = "create"
      /\ state.next \in 1 .. Len(SchemaScript)
    BY DEF IInv, Typed, TypeOK, Creating, Script, Closed
<1>2. /\ Len(SchemaScript) \in Nat
      /\ commit.version \in {0, Current}
      /\ commit.creates \subseteq Objects(SchemaScript) /\ commit.writes \subseteq Rows(SchemaScript)
    BY <1>1, Creation DEF Shape, Objects, Rows
<1>3. /\ after \in OpenerState /\ after.stage \in {"running", "open"} /\ after.mode = "create"
      /\ after.stage = "running" => after.next \in 1 .. Len(SchemaScript)
    <2>1. CASE state.next < Len(SchemaScript)
        <3>1. after = [state EXCEPT !.next = @ + 1]
            BY <1>1, <2>1 DEF Advance, Script
        <3> HIDE DEF after, state
        <3> QED BY <1>1, <1>2, <2>1, <3>1 DEF OpenerState
    <2>2. CASE state.next >= Len(SchemaScript)
        <3>1. after = [state EXCEPT !.stage = "open"]
            BY <1>1, <1>2, <2>2 DEF Advance, Script
        <3> HIDE DEF after, state
        <3> QED BY <1>1, <3>1 DEF OpenerState, Stage
    <2> QED BY <1>1, <1>2, <2>1, <2>2
<1>4. /\ objects' = objects \union commit.creates /\ rows' = rows \union commit.writes
      /\ revision' = (IF commit.version = 0 THEN revision ELSE commit.version)
      /\ opener' = [opener EXCEPT ![p] = after] /\ UNCHANGED <<legacy, crashes>>
    BY <1>1 DEF Commit, Become, Script
<1> HIDE DEF after, commit
<1>5. /\ opener' \in [Process -> {Closed} \union OpenerState]
      /\ \A q \in Process : opener'[q] = IF q = p THEN after ELSE opener[q]
    BY <1>3, <1>4 DEF IInv, Typed
<1>6. revision' \in {0, Current} /\ revision' >= revision
    BY <1>2, <1>4 DEF IInv, Creating, Current
<1>7. Typed'
    <2>1. \A q \in Process :
              \/ opener'[q] = Closed
              \/ /\ opener'[q].stage \in Stage /\ opener'[q].mode \in Mode
                 /\ opener'[q].from \in {0} \union Supported
                 /\ opener'[q].stage = "running" =>
                        opener'[q].next \in 1 .. Len(Script(opener'[q]))
        <3> TAKE q \in Process
        <3>1. CASE q = p
            BY <1>3, <1>5, <3>1 DEF OpenerState, Script
        <3>2. CASE q # p
            BY <1>5, <3>2 DEF IInv, Typed, TypeOK
        <3> QED BY <3>1, <3>2
    <2>2. \A q \in Process : opener'[q].stage = "checking" =>
              opener'[q].mode # "create" /\ opener'[q].next = 1
        BY <1>3, <1>5 DEF IInv, Typed
    <2>3. /\ revision' \in {0} \union Supported
          /\ objects' \subseteq Objects(SchemaScript)
          /\ rows' \subseteq Rows(SchemaScript) \union {"versioning_profile"}
        BY <1>2, <1>4, <1>6 DEF IInv, Typed, TypeOK, Supported, Current
    <2> QED BY <1>4, <1>5, <2>1, <2>2, <2>3 DEF IInv, Typed, TypeOK, Script
<1>8. Creating'
    BY <1>3, <1>5, <1>6 DEF IInv, Creating
<1> QED BY <1>4, <1>6, <1>7, <1>8 DEF IInv

\* A process that gets past a statement of a migration is at work there alone.
LEMMA MigrationIsAlone ==
    ASSUME IInv, legacy # 0, NEW p \in Process, opener[p].stage = "running",
           MigrationScript[opener[p].from][opener[p].next].creates \intersect objects = {}
    PROVE  /\ opener[p].from = revision /\ revision \in Revisable
           /\ \A q \in Process : q # p => ~Past(q) /\ opener[q].stage # "open"
           /\ \A i \in 1 .. (opener[p].next - 1) :
                 /\ MigrationScript[revision][i].creates \subseteq objects
                 /\ MigrationScript[revision][i].writes \subseteq rows
<1> DEFINE state == opener[p]
<1>1. /\ state \in OpenerState /\ state.from \in Revisable /\ state.from <= revision
      /\ revision \in Supported /\ state.next \in Nat
    BY DEF IInv, OneAtATime, Migrating, Typed, Closed, OpenerState
<1>2. state.next \in 1 .. Len(MigrationScript[state.from])
    BY DEF IInv, OneAtATime, Migrating, Typed, TypeOK, Script, Closed
<1>3. CASE state.next = 1
    <2>1. First[state.from] \notin objects
        BY <1>1, <1>3, Migrations DEF IsMigration
    <2>2. state.from = revision
        BY <1>1, <2>1, FirstIsLegacy DEF IInv, OneAtATime, Supported, Revisable
    <2>3. \A q \in Process : ~Past(q)
        BY <2>1, <2>2 DEF IInv, OneAtATime, Migrating, Begun
    <2>4. revision # Current
        BY <1>1, <2>2 DEF Revisable, Current
    <2>5. \A q \in Process : opener[q].stage # "open"
        BY <2>4 DEF IInv, OneAtATime, Migrating
    <2>6. 1 .. (state.next - 1) = {}
        BY <1>3
    <2> QED BY <1>1, <2>2, <2>3, <2>5, <2>6
<1>4. CASE state.next > 1
    <2>1. Past(p)
        BY <1>4 DEF Past
    <2>2. Begun(p)
        BY <2>1 DEF IInv, OneAtATime, Migrating
    <2>3. state.from = revision /\ revision # Current
        BY <1>1, <2>2 DEF Begun, Revisable, Current
    <2>4. \A q \in Process : q # p => ~Past(q)
        BY <2>1 DEF IInv, OneAtATime
    <2>5. \A q \in Process : opener[q].stage # "open"
        BY <2>3 DEF IInv, OneAtATime, Migrating
    <2> QED BY <1>1, <2>2, <2>3, <2>4, <2>5 DEF Begun
<1> QED BY <1>2, <1>3, <1>4

\* A statement of the process at work may set the revision to the next one.
LEMMA FinishMigration ==
    ASSUME IInv, legacy # 0, NEW p \in Process, revision \in Revisable,
           \A q \in Process : q # p => ~Past(q) /\ opener[q].stage # "open",
           NEW after \in OpenerState, after.stage \in {"running", "open"},
           after.stage = "running" => after.next \in 1 .. Len(Script(after)),
           opener' = [opener EXCEPT ![p] = after], UNCHANGED <<legacy, crashes>>,
           NEW r \in {revision, revision + 1}, revision' = r,
           objects' \subseteq Objects(SchemaScript),
           rows' \subseteq Rows(SchemaScript) \union {"versioning_profile"},
           LegacyObjects(r) \subseteq objects', LegacyRows(r) \subseteq rows',
           \A s \in Revisable : s > r => First[s] \notin objects',
           Migrating(p)'
    PROVE  IInv' /\ revision' >= revision
<1>1. /\ opener' \in [Process -> {Closed} \union OpenerState]
      /\ \A q \in Process : opener'[q] = IF q = p THEN after ELSE opener[q]
    BY DEF IInv, Typed
<1>2. r \in Supported /\ r >= revision
    BY DEF Supported, Revisable, Current
<1>3. Typed'
    <2>1. \A q \in Process :
              \/ opener'[q] = Closed
              \/ /\ opener'[q].stage \in Stage /\ opener'[q].mode \in Mode
                 /\ opener'[q].from \in {0} \union Supported
                 /\ opener'[q].stage = "running" =>
                        opener'[q].next \in 1 .. Len(Script(opener'[q]))
        <3> TAKE q \in Process
        <3>1. CASE q = p
            BY <1>1, <3>1 DEF OpenerState
        <3>2. CASE q # p
            BY <1>1, <3>2 DEF IInv, Typed, TypeOK
        <3> QED BY <3>1, <3>2
    <2>2. \A q \in Process : opener'[q].stage = "checking" =>
              opener'[q].mode # "create" /\ opener'[q].next = 1
        BY <1>1 DEF IInv, Typed
    <2> QED BY <1>1, <1>2, <2>1, <2>2 DEF IInv, Typed, TypeOK, Script
<1>4. \A q \in Process : q # p => Migrating(q)' /\ ~Past(q)'
    BY <1>1, <1>2 DEF IInv, OneAtATime, Migrating, Past, Revisable, OpenerState, Supported
<1>5. OneAtATime'
    BY <1>2, <1>4 DEF OneAtATime, LegacyObjects, LegacyRows
<1> QED BY <1>2, <1>3, <1>5 DEF IInv

\* A statement of a migration keeps the invariant.
LEMMA MigrationKeeps ==
    ASSUME IInv, legacy # 0, NEW p \in Process, opener[p].stage = "running",
           Commit(p, Script(opener[p])[opener[p].next]),
           Script(opener[p])[opener[p].next].creates \intersect objects = {}
    PROVE  IInv' /\ revision' >= revision
<1> DEFINE state == opener[p]
           script == MigrationScript[state.from]
           commit == script[state.next]
           after == Advance(state)
<1>1. /\ state \in OpenerState /\ state.stage = "running" /\ state.mode = "write"
      /\ state.from \in Revisable /\ state.next \in 1 .. Len(script)
      /\ Script(state) = script
    BY DEF IInv, OneAtATime, Migrating, Typed, TypeOK, Script, Closed
<1>2. /\ state.from = revision
      /\ \A q \in Process : q # p => ~Past(q) /\ opener[q].stage # "open"
      /\ \A i \in 1 .. (state.next - 1) :
            script[i].creates \subseteq objects /\ script[i].writes \subseteq rows
    BY <1>1, MigrationIsAlone
<1>3. IsMigration(script, revision)
    BY <1>1, <1>2, Migrations
<1>4. /\ objects' = objects \union commit.creates /\ rows' = rows \union commit.writes
      /\ revision' = (IF commit.version = 0 THEN revision ELSE commit.version)
      /\ opener' = [opener EXCEPT ![p] = after] /\ UNCHANGED <<legacy, crashes>>
    BY <1>1 DEF Commit, Become
<1>5. /\ commit.creates \subseteq Objects(script) /\ commit.writes \subseteq Rows(script)
      /\ Objects(script) \subseteq Objects(SchemaScript)
      /\ Rows(script) \subseteq Rows(SchemaScript) \union {"versioning_profile"}
    BY <1>1, <1>3, MigrationsAddTheSchema DEF IsMigration, Shape, Objects, Rows
<1>6. revision \in Revisable /\ Len(script) \in Nat /\ Len(script) > 1 /\ state.next \in Nat
    BY <1>1, <1>2, <1>3 DEF IsMigration
<1> HIDE DEF commit
<1>7. \A i \in 1 .. state.next :
          script[i].creates \subseteq objects' /\ script[i].writes \subseteq rows'
    BY <1>2, <1>4, <1>6 DEF commit
<1>8. First[revision] \in objects'
    BY <1>1, <1>3, <1>7 DEF IsMigration
<1>9. \A s \in Revisable : s > revision => First[s] \notin objects'
    BY <1>1, <1>2, <1>4, <1>5, <1>6, Migrations DEF IInv, OneAtATime, Revisable
<1>10. LegacyObjects(revision) \subseteq objects' /\ LegacyRows(revision) \subseteq rows'
    BY <1>4 DEF IInv, OneAtATime
<1>11. CASE state.next < Len(script)
    <2>1. /\ revision' = revision /\ after = [state EXCEPT !.next = @ + 1]
        BY <1>1, <1>3, <1>4, <1>11 DEF IsMigration, commit, Advance
    <2>2. /\ after \in OpenerState /\ after.stage = "running" /\ after.mode = "write"
          /\ after.from = revision /\ after.next = state.next + 1
        <3> HIDE DEF after, state, script
        <3> QED BY <1>1, <1>2, <1>6, <2>1 DEF OpenerState
    <2>3. Script(after) = script
        BY <1>2, <2>2 DEF Script
    <2>4. after.next \in 1 .. Len(Script(after)) /\ after.next - 1 = state.next
        BY <1>6, <1>11, <2>2, <2>3
    <2>5. opener'[p] = after
        BY <1>4 DEF IInv, Typed
    <2>6. Begun(p)'
        <3> HIDE DEF after, state, script
        <3> QED BY <1>7, <1>8, <2>1, <2>2, <2>4, <2>5, <1>2 DEF Begun, script, state
    <2>7. Migrating(p)'
        <3> HIDE DEF after, state, script
        <3> QED BY <1>6, <2>1, <2>2, <2>5, <2>6 DEF Migrating, Revisable
    <2> HIDE DEF after, state, script
    <2> QED BY <1>1, <1>2, <1>4, <1>5, <1>6, <1>9, <1>10, <2>1, <2>2, <2>4, <2>7,
           FinishMigration DEF IInv, Typed, TypeOK
<1>12. CASE state.next = Len(script)
    <2>1. commit.version = revision + 1 /\ revision' = revision + 1
        BY <1>3, <1>4, <1>6, <1>12 DEF IsMigration, commit, Revisable
    <2>2. Objects(script) \subseteq objects' /\ Rows(script) \subseteq rows'
        BY <1>3, <1>7, <1>12 DEF IsMigration, Shape, Objects, Rows
    <2>3. /\ LegacyObjects(revision + 1) \subseteq objects'
          /\ LegacyRows(revision + 1) \subseteq rows'
        BY <1>2, <1>6, <1>10, <2>2, LegacyStep
    <2>4. \A s \in Revisable : s > revision + 1 => First[s] \notin objects'
        BY <1>6, <1>9 DEF Revisable
    <2>5. opener'[p] = after
        BY <1>4 DEF IInv, Typed
    <2>6. CASE revision = 7
        <3>1. after = [state EXCEPT !.stage = "open"]
            BY <1>1, <1>2, <1>6, <1>12, <2>6 DEF Advance
        <3>2. after \in OpenerState /\ after.stage = "open"
            <4> HIDE DEF after, state
            <4> QED BY <1>1, <3>1 DEF OpenerState, Stage
        <3>3. Migrating(p)'
            <4> HIDE DEF after
            <4> QED BY <2>1, <2>5, <2>6, <3>2 DEF Migrating, Past, Current
        <3> HIDE DEF after, state, script
        <3> QED BY <1>1, <1>2, <1>4, <1>5, <1>6, <2>1, <2>3, <2>4, <3>2, <3>3, FinishMigration
               DEF IInv, Typed, TypeOK
    <2>7. CASE revision # 7
        <3>1. after = [state EXCEPT !.from = @ + 1, !.next = 1]
            BY <1>1, <1>2, <1>6, <1>12, <2>7 DEF Advance
        <3>2. /\ after \in OpenerState /\ after.stage = "running" /\ after.mode = "write"
              /\ after.from = revision + 1 /\ after.next = 1
            <4>1. revision + 1 \in {0} \union Supported /\ 1 \in Nat
                BY <1>6, <2>7 DEF Supported, Current, Revisable
            <4> HIDE DEF after, state, script
            <4> QED BY <1>1, <1>2, <3>1, <4>1 DEF OpenerState
        <3>3. revision + 1 \in Revisable
            BY <1>6, <2>7 DEF Revisable
        <3>4. after.next \in 1 .. Len(Script(after))
            <4> HIDE DEF after
            <4> QED BY <3>2, <3>3, ScriptStarts
        <3>5. Migrating(p)'
            <4> HIDE DEF after
            <4> QED BY <1>6, <2>1, <2>5, <3>2, <3>3 DEF Migrating, Past, Revisable
        <3> HIDE DEF after, state, script
        <3> QED BY <1>1, <1>2, <1>4, <1>5, <1>6, <2>1, <2>3, <2>4, <3>2, <3>4, <3>5,
               FinishMigration DEF IInv, Typed, TypeOK
    <2> QED BY <2>6, <2>7
<1> QED BY <1>6, <1>1, <1>11, <1>12

\* A statement that commits, or raises, keeps the invariant.
LEMMA RunKeeps ==
    ASSUME IInv, NEW p \in Process, Run(p) PROVE IInv' /\ revision' >= revision
<1> DEFINE commit == Script(opener[p])[opener[p].next]
<1>1. CASE commit.creates \intersect objects = {} /\ Commit(p, commit)
    BY <1>1, CreationKeeps, MigrationKeeps DEF Run
<1>2. CASE Become(p, Closed) /\ UNCHANGED <<legacy, revision, objects, rows, crashes>>
    BY <1>2, ClosedFits, BecomeKeeps DEF IInv, Typed, TypeOK, Supported
<1> QED BY <1>1, <1>2 DEF Run

\* Every step keeps the invariant, and the revision.
LEMMA NextKeeps == ASSUME IInv, [Next]_vars PROVE IInv' /\ revision' >= revision
<1>1. revision \in Nat
    BY DEF IInv, Typed, TypeOK, Supported
<1>2. CASE UNCHANGED vars
    <2>1. IInv'
        BY <1>2 DEF vars, IInv, Typed, TypeOK, Creating, OneAtATime, Migrating, Past, Begun
    <2> QED BY <1>1, <1>2, <2>1 DEF vars
<1>3. ASSUME NEW p \in Process, Construct(p) \/ Close(p) \/ Crash(p), ~Run(p)
      PROVE  IInv' /\ revision' = revision
    <2>1. IInv'
        BY <1>3, StartCreateKeeps, ReadRevisionKeeps, CheckObjectsKeeps, CloseKeeps, CrashKeeps
           DEF Construct
    <2>2. revision' = revision
        BY <1>3 DEF Construct, StartCreate, ReadRevision, CheckObjects, Close, Crash
    <2> QED BY <2>1, <2>2
<1> QED BY <1>1, <1>2, <1>3, RunKeeps DEF Next

\* The invariant is inductive.
THEOREM Invariance == Spec => []IInv
<1>1. IInv /\ [Next]_vars => IInv'
    BY NextKeeps
<1> QED BY InitIInv, <1>1, PTL DEF Spec

\* The file, and what the constructors do with it, has its type.
THEOREM TypeCorrect == Spec => []TypeOK
<1>1. IInv => TypeOK
    BY DEF IInv, Typed
<1> QED BY Invariance, <1>1, PTL

\* A migrated file, or what a killed migration leaves, has all of the revision it claims.
THEOREM CompleteMigrations == Spec => []MigratedIsComplete
<1>1. IInv => MigratedIsComplete
    BY DEF IInv, OneAtATime, MigratedIsComplete, Migrated
<1> QED BY Invariance, <1>1, PTL

\* Nobody works on a file of an earlier revision, not even while another migrates it.
THEOREM CurrentFiles == Spec => []OpenedIsCurrent
<1>1. IInv => OpenedIsCurrent
    BY DEF IInv, OneAtATime, Migrating, OpenedIsCurrent, Migrated
<1> QED BY Invariance, <1>1, PTL

\* A slow migration does not set back what a faster one set.
THEOREM ForwardRevisions == Spec => RevisionNeverDecreases
<1>1. IInv /\ [Next]_vars => [revision' >= revision]_vars
    BY NextKeeps
<1> QED BY Invariance, <1>1, PTL DEF Spec, RevisionNeverDecreases
-----------------------------------------------------------------------------
(***************************************************************************)
(* A migration that is not killed, whoever else opens the file meanwhile,  *)
(* leaves exactly what the next revision is, and never raises on its way.  *)
(***************************************************************************)

\* The file is what a release of its revision would have made, no more and no less.
AtRevision == objects = LegacyObjects(revision) /\ rows = LegacyRows(revision)

\* The file is one revision, and what the process at work has added to it.
Halfway(p) ==
    LET done == 1 .. (opener[p].next - 1)
        script == MigrationScript[revision]
    IN
    /\ objects = LegacyObjects(revision) \union UNION {script[i].creates : i \in done}
    /\ rows = LegacyRows(revision) \union UNION {script[i].writes : i \in done}

\* What a kill leaves: an earlier revision with the first object of the next.
LeftHalfway == crashes > 0 /\ revision # Current /\ First[revision] \in objects

Exact ==
    Migrated =>
        /\ \A p \in Process : Past(p) => Halfway(p)
        /\ AtRevision \/ LeftHalfway \/ \E p \in Process : Past(p)

\* A migration adds what the next revision has, and nothing else.
LEMMA LegacyStepIsExact ==
    ASSUME NEW r \in Revisable
    PROVE  /\ LegacyObjects(r + 1) = LegacyObjects(r) \union Objects(MigrationScript[r])
           /\ LegacyRows(r + 1) = LegacyRows(r) \union Rows(MigrationScript[r])
<1>1. r .. 7 = ((r + 1) .. 7) \union {r}
    BY DEF Revisable
<1>2. 2 .. (r + 1 - 1) = (2 .. (r - 1)) \union {r}
    BY DEF Revisable
<1>3. LegacyObjects(r) \subseteq LegacyObjects(r + 1)
    BY <1>1 DEF LegacyObjects
<1>4. Objects(MigrationScript[r]) \subseteq LegacyObjects(r + 1)
    <2>1. \A s \in (r + 1) .. 7 : s \in Revisable /\ s # r
        BY DEF Revisable
    <2>2. \A s \in (r + 1) .. 7 :
              Objects(MigrationScript[s]) \intersect Objects(MigrationScript[r]) = {}
        BY <2>1, Migrations
    <2>3. Objects(MigrationScript[r]) \subseteq Objects(SchemaScript)
        BY MigrationsAddTheSchema
    <2> QED BY <2>2, <2>3 DEF LegacyObjects
<1>5. LegacyRows(r + 1) = LegacyRows(r) \union Rows(MigrationScript[r])
    BY <1>2 DEF LegacyRows
<1> QED BY <1>3, <1>4, <1>5, LegacyStep

\* The next statement of a migration that has begun creates what is not there.
LEMMA PastDoesNotRaise ==
    ASSUME IInv, Exact, Migrated, NEW p \in Process, Past(p)
    PROVE  Script(opener[p])[opener[p].next].creates \intersect objects = {}
<1> DEFINE state == opener[p]
           script == MigrationScript[revision]
<1>1. /\ state \in OpenerState /\ state.stage = "running" /\ state.mode = "write"
      /\ state.from = revision /\ revision \in Revisable /\ state.next > 1
      /\ Script(state) = script /\ state.next \in 1 .. Len(script)
    BY DEF IInv, OneAtATime, Migrating, Typed, TypeOK, Script, Closed, Past, Begun, Migrated
<1>2. Halfway(p)
    BY DEF Exact
<1>3. /\ DOMAIN script = 1 .. Len(script) /\ Len(script) \in Nat /\ state.next \in Nat
      /\ \A i, j \in 1 .. Len(script) :
            i # j => script[i].creates \intersect script[j].creates = {}
    BY <1>1, Migrations DEF IsMigration, Shape, OpenerState
<1>4. \A i \in 1 .. (state.next - 1) : i \in 1 .. Len(script) /\ i # state.next
    BY <1>1, <1>3
<1>5. script[state.next].creates \subseteq Objects(script)
    BY <1>1, <1>3 DEF Objects
<1>6. script[state.next].creates \intersect LegacyObjects(revision) = {}
    <2>1. revision \in revision .. 7
        BY <1>1 DEF Revisable
    <2> QED BY <1>5, <2>1 DEF LegacyObjects
<1> HIDE DEF script, state
<1>7. \A i \in 1 .. (state.next - 1) : script[state.next].creates \intersect script[i].creates = {}
    BY <1>1, <1>3, <1>4
<1>8. objects = LegacyObjects(revision)
                  \union UNION {script[i].creates : i \in 1 .. (state.next - 1)}
    BY <1>2 DEF Halfway, script, state
<1> QED BY <1>1, <1>6, <1>7, <1>8 DEF state

\* A step that leaves the file alone, and no process past its first statement.
LEMMA BecomeKeepsExact ==
    ASSUME IInv, Exact, NEW p \in Process, NEW state, Become(p, state),
           state.stage = "running" => state.next = 1, ~Past(p) \/ crashes' > 0,
           UNCHANGED <<legacy, revision, objects, rows>>, crashes' \in Nat, crashes' >= crashes
    PROVE  Exact'
<1>1. \A q \in Process : opener'[q] = IF q = p THEN state ELSE opener[q]
    BY DEF Become, IInv, Typed
<1>2. ~Past(p)'
    BY <1>1 DEF Past
<1>3. \A q \in Process : q # p => (Past(q)' <=> Past(q)) /\ opener'[q] = opener[q]
    BY <1>1 DEF Past
<1> SUFFICES ASSUME Migrated
             PROVE  /\ \A q \in Process : Past(q)' => Halfway(q)'
                    /\ AtRevision' \/ LeftHalfway' \/ \E q \in Process : Past(q)'
    BY DEF Exact, Migrated
<1>4. \A q \in Process : Past(q)' => Halfway(q)'
    BY <1>2, <1>3 DEF Exact, Halfway, LegacyObjects, LegacyRows
<1>5. crashes \in Nat
    BY MaxCrashesAssumption DEF IInv, Typed, TypeOK
<1>6. CASE AtRevision
    BY <1>4, <1>6 DEF AtRevision, LegacyObjects, LegacyRows
<1>7. CASE LeftHalfway
    BY <1>4, <1>5, <1>7 DEF LeftHalfway
<1>8. CASE \E q \in Process : Past(q) /\ q # p
    BY <1>3, <1>4, <1>8
<1>9. CASE Past(p)
    <2>1. First[revision] \in objects /\ revision # Current
        BY <1>9 DEF IInv, OneAtATime, Migrating, Begun, Past, Revisable, Current, Migrated
    <2> QED BY <1>4, <1>9, <2>1 DEF LeftHalfway
<1> QED BY <1>4, <1>6, <1>7, <1>8, <1>9 DEF Exact

\* A statement that commits adds what it creates and writes to what is there.
LEMMA CommitKeepsExact ==
    ASSUME IInv, Exact, Migrated, NEW p \in Process, opener[p].stage = "running",
           Commit(p, Script(opener[p])[opener[p].next]),
           Script(opener[p])[opener[p].next].creates \intersect objects = {}
    PROVE  Exact'
<1> DEFINE state == opener[p]
           script == MigrationScript[revision]
           commit == script[state.next]
           done == 1 .. (state.next - 1)
<1>1. /\ state \in OpenerState /\ state.mode = "write" /\ state.next \in Nat
      /\ state.from \in Revisable /\ Script(state) = MigrationScript[state.from]
      /\ state.next \in 1 .. Len(Script(state))
    BY DEF IInv, OneAtATime, Migrating, Typed, TypeOK, Script, Closed, Migrated, OpenerState
<1>2. /\ state.from = revision /\ revision \in Revisable
      /\ \A q \in Process : q # p => ~Past(q)
    BY <1>1, MigrationIsAlone DEF Migrated
<1>3. IsMigration(script, revision)
    BY <1>2, Migrations
<1>4. /\ state.next \in 1 .. Len(script) /\ Len(script) \in Nat /\ Len(script) > 1
      /\ DOMAIN script = 1 .. Len(script)
    BY <1>1, <1>2, <1>3 DEF IsMigration, Shape
<1>5. /\ objects' = objects \union commit.creates /\ rows' = rows \union commit.writes
      /\ revision' = (IF commit.version = 0 THEN revision ELSE commit.version)
      /\ opener' = [opener EXCEPT ![p] = Advance(state)] /\ legacy' = legacy
    BY <1>1, <1>2 DEF Commit, Become
<1>6. /\ objects = LegacyObjects(revision) \union UNION {script[i].creates : i \in done}
      /\ rows = LegacyRows(revision) \union UNION {script[i].writes : i \in done}
    <2>1. CASE state.next > 1
        <3>1. Halfway(p)
            BY <2>1 DEF Exact, Past
        <3> QED BY <3>1 DEF Halfway
    <2>2. CASE state.next = 1
        <3>1. First[revision] \notin objects
            BY <1>1, <1>2, <1>3, <2>2 DEF IsMigration
        <3>2. ~Past(p)
            BY <2>2 DEF Past
        <3>3. AtRevision
            BY <1>2, <3>1, <3>2 DEF Exact, LeftHalfway
        <3>4. done = {}
            BY <2>2
        <3> QED BY <3>3, <3>4 DEF AtRevision
    <2> QED BY <1>1, <1>4, <2>1, <2>2
<1>7. 1 .. state.next = done \union {state.next}
    BY <1>4
<1>8. /\ objects' = LegacyObjects(revision) \union UNION {script[i].creates : i \in 1 .. state.next}
      /\ rows' = LegacyRows(revision) \union UNION {script[i].writes : i \in 1 .. state.next}
    <2> HIDE DEF script, state, done
    <2> QED BY <1>5, <1>6, <1>7
<1>9. opener'[p] = Advance(state) /\ \A q \in Process : q # p => opener'[q] = opener[q]
    BY <1>5 DEF IInv, Typed
<1>10. \A q \in Process : q # p => ~Past(q)'
    BY <1>2, <1>9 DEF Past
<1>11. CASE state.next < Len(script)
    <2>1. /\ revision' = revision /\ Advance(state) = [state EXCEPT !.next = @ + 1]
        BY <1>1, <1>2, <1>3, <1>4, <1>5, <1>11 DEF IsMigration, Advance
    <2>2. opener'[p].stage = "running" /\ opener'[p].next = state.next + 1
        <3>1. state.stage = "running"
            OBVIOUS
        <3> HIDE DEF state, script
        <3> QED BY <1>1, <1>9, <2>1, <3>1 DEF OpenerState
    <2>3. opener'[p].next - 1 = state.next /\ opener'[p].next > 1
        BY <1>4, <2>2
    <2>4. Past(p)' /\ Halfway(p)'
        <3>1. Past(p)'
            BY <2>2, <2>3 DEF Past
        <3>2. /\ LegacyObjects(revision)' = LegacyObjects(revision)
              /\ LegacyRows(revision)' = LegacyRows(revision)
              /\ MigrationScript[revision]' = script
            BY <2>1 DEF LegacyObjects, LegacyRows
        <3> HIDE DEF state, script
        <3>3. Halfway(p)'
            BY <1>8, <2>1, <2>3, <3>2 DEF Halfway
        <3> QED BY <3>1, <3>3
    <2> QED BY <1>10, <2>4 DEF Exact
<1>12. CASE state.next = Len(script)
    <2>1. revision' = revision + 1
        BY <1>2, <1>3, <1>4, <1>5, <1>12 DEF IsMigration, Revisable
    <2>2. /\ Objects(script) = UNION {script[i].creates : i \in 1 .. state.next}
          /\ Rows(script) = UNION {script[i].writes : i \in 1 .. state.next}
        BY <1>4, <1>12 DEF Objects, Rows
    <2>3. AtRevision'
        <3>1. /\ LegacyObjects(revision)' = LegacyObjects(revision + 1)
              /\ LegacyRows(revision)' = LegacyRows(revision + 1)
            BY <2>1 DEF LegacyObjects, LegacyRows
        <3> HIDE DEF script, state
        <3>2. /\ objects' = LegacyObjects(revision + 1)
              /\ rows' = LegacyRows(revision + 1)
            BY <1>2, <1>8, <2>2, LegacyStepIsExact DEF script
        <3> QED BY <3>1, <3>2 DEF AtRevision
    <2>4. ~Past(p)'
        <3>1. \/ Advance(state) = [state EXCEPT !.stage = "open"]
              \/ Advance(state) = [state EXCEPT !.from = @ + 1, !.next = 1]
            BY <1>1, <1>2, <1>4, <1>12 DEF Advance
        <3> HIDE DEF state
        <3>2. state \in OpenerState
            BY <1>1
        <3>3. Advance(state).stage = "open" \/ Advance(state).next = 1
            BY <3>1, <3>2 DEF OpenerState
        <3> QED BY <1>9, <3>3 DEF Past
    <2> QED BY <1>10, <2>3, <2>4 DEF Exact
<1> QED BY <1>4, <1>11, <1>12

\* Every step keeps the file exact.
LEMMA NextKeepsExact ==
    ASSUME IInv, Exact, [Next]_vars
    PROVE  Exact'
<1>1. crashes \in Nat
    BY MaxCrashesAssumption DEF IInv, Typed, TypeOK
<1>2. CASE UNCHANGED vars
    BY <1>2 DEF vars, Exact, Migrated, Past, Halfway, AtRevision, LeftHalfway, LegacyObjects,
                LegacyRows
<1>3. CASE ~Migrated
    BY <1>3 DEF Exact, Migrated, Next, Construct, StartCreate, ReadRevision, CheckObjects, Run,
                Commit, Close, Crash, vars
<1>4. ASSUME Migrated, NEW p \in Process, StartCreate(p) PROVE Exact'
    BY <1>4 DEF StartCreate, IInv, OneAtATime, Supported, Migrated
<1>5. ASSUME NEW p \in Process, NEW mode \in {"write", "read_only"}, ReadRevision(p, mode)
      PROVE  Exact'
    <2>1. ~Past(p)
        BY <1>5 DEF ReadRevision, Past, Closed
    <2> QED BY <1>1, <1>5, <2>1, BecomeKeepsExact DEF ReadRevision
<1>6. ASSUME NEW p \in Process, CheckObjects(p) PROVE Exact'
    <2> DEFINE state == opener[p]
    <2>1. state \in OpenerState /\ state.stage = "checking" /\ state.next = 1
        BY <1>6 DEF CheckObjects, IInv, Typed, Closed
    <2>2. PICK after :
            /\ Become(p, after)
            /\ after \in {Closed, [state EXCEPT !.stage = "open"], [state EXCEPT !.stage = "running"]}
        BY <1>6 DEF CheckObjects
    <2>3. after.stage = "running" => after.next = 1
        <3> HIDE DEF state
        <3> QED BY <2>1, <2>2 DEF OpenerState, Closed
    <2>4. ~Past(p)
        BY <2>1 DEF Past
    <2> QED BY <1>1, <1>6, <2>2, <2>3, <2>4, BecomeKeepsExact DEF CheckObjects
<1>7. ASSUME Migrated, NEW p \in Process, Run(p) PROVE Exact'
    <2> DEFINE commit == Script(opener[p])[opener[p].next]
    <2>1. CASE commit.creates \intersect objects = {} /\ Commit(p, commit)
        BY <1>7, <2>1, CommitKeepsExact DEF Run
    <2>2. CASE /\ commit.creates \intersect objects # {} /\ Become(p, Closed)
               /\ UNCHANGED <<legacy, revision, objects, rows, crashes>>
        <3>1. ~Past(p)
            BY <1>7, <2>2, PastDoesNotRaise
        <3> QED BY <1>1, <2>2, <3>1, BecomeKeepsExact DEF Closed
    <2> QED BY <1>7, <2>1, <2>2 DEF Run
<1>8. ASSUME NEW p \in Process, Close(p) PROVE Exact'
    <2>1. ~Past(p)
        BY <1>8 DEF Close, Past
    <2> QED BY <1>1, <1>8, <2>1, BecomeKeepsExact DEF Close, Closed
<1>9. ASSUME NEW p \in Process, Crash(p) PROVE Exact'
    <2>1. crashes' \in Nat /\ crashes' > 0 /\ crashes' >= crashes
        BY <1>1, <1>9 DEF Crash
    <2> QED BY <1>9, <2>1, BecomeKeepsExact DEF Crash, Closed
<1> QED BY <1>2, <1>3, <1>4, <1>5, <1>6, <1>7, <1>8, <1>9 DEF Next, Construct

\* In every state a migrated file is one revision, or one process is on the way to the
\* next, or one was killed on it.
THEOREM ExactMigrations == Spec => []Exact
<1>1. Init => Exact
    BY DEF Init, Exact, Migrated, AtRevision, Past, Closed
<1>2. IInv /\ Exact /\ [Next]_vars => Exact'
    BY NextKeepsExact
<1> QED BY Invariance, <1>1, <1>2, PTL DEF Spec

\* _check_and_migrate: without a kill, no interleaving of processes that open one file
\* leaves part of a migration behind, or another revision's user_version.
THEOREM WholeMigrations == Spec => []UnkilledMigrationsAreWhole
<1>1. Exact => UnkilledMigrationsAreWhole
    BY DEF Exact, LeftHalfway, AtRevision, Past, Working, UnkilledMigrationsAreWhole
<1> QED BY ExactMigrations, <1>1, PTL

\* The rows and objects of a file of the current revision that was migrated.
OpenedIsWhole ==
    Migrated => \A p \in Process : opener[p].stage = "open" =>
        /\ objects = Objects(SchemaScript)
        /\ rows = ConstructorRows.writes \union {"versioning_profile"}

\* _check_and_migrate looks for some of the tables: an open file has all of them, every
\* index and view, and every metadata row.
THEOREM WholeFiles == Spec => []OpenedIsWhole
<1>1. IInv /\ Exact => OpenedIsWhole
    <2> SUFFICES ASSUME IInv, Exact, Migrated, NEW p \in Process, opener[p].stage = "open"
                 PROVE  /\ objects = Objects(SchemaScript)
                        /\ rows = ConstructorRows.writes \union {"versioning_profile"}
        BY DEF OpenedIsWhole
    <2>1. revision = Current
        BY DEF IInv, OneAtATime, Migrating, Migrated
    <2>2. \A q \in Process : ~Past(q)
        BY <2>1 DEF IInv, OneAtATime, Migrating, Begun, Past, Revisable, Current, Migrated
    <2>3. AtRevision
        BY <2>1, <2>2 DEF Exact, LeftHalfway
    <2>4. LegacyObjects(8) = Objects(SchemaScript)
        BY DEF LegacyObjects
    <2>5. LegacyRows(8) = ConstructorRows.writes \union {"versioning_profile"}
        <3>1. 2 .. (8 - 1) = {2, 3, 4, 5, 6, 7}
            OBVIOUS
        <3>2. LegacyRows(8) = Rows(MigrationScript[2]) \union Rows(MigrationScript[3])
                    \union Rows(MigrationScript[4]) \union Rows(MigrationScript[5])
                    \union Rows(MigrationScript[6]) \union Rows(MigrationScript[7])
            BY <3>1 DEF LegacyRows
        <3> QED BY <3>2, Migration2, Migration3, Migration4, Migration5, Migration6, Migration7
               DEF Describes, ConstructorRows
    <2> QED BY <2>1, <2>3, <2>4, <2>5 DEF AtRevision, Current
<1> QED BY Invariance, ExactMigrations, <1>1, PTL

\* A migration that is past its first statement stops for a kill only: the statements
\* that follow do not raise, whatever the others do.
BegunMigrationsGoOn ==
    [][\A p \in Process :
        Migrated /\ Past(p) /\ opener'[p] = Closed => crashes' > crashes]_vars

\* _migrate_r*: "table already exists" can only meet a migration's first statement.
THEOREM SafeToBegin == Spec => BegunMigrationsGoOn
<1>1. IInv /\ Exact /\ [Next]_vars =>
        \A p \in Process : Migrated /\ Past(p) /\ opener'[p] = Closed => crashes' > crashes
    <2> SUFFICES ASSUME IInv, Exact, [Next]_vars, NEW p \in Process, Migrated, Past(p),
                        opener'[p] = Closed
                 PROVE  crashes' > crashes
        OBVIOUS
    <2>1. opener[p] # Closed /\ opener[p].stage = "running"
        BY DEF Past, Closed
    <2>2. PICK q \in Process : Construct(q) \/ Close(q) \/ Crash(q)
        BY <2>1 DEF Next, vars
    <2>3. ASSUME NEW state, Become(q, state) PROVE q = p /\ state = Closed
        BY <2>1, <2>3 DEF Become, IInv, Typed
    <2>4. CASE Run(q)
        <3>1. q = p
            BY <2>3, <2>4 DEF Run, Commit
        <3>2. Become(p, Advance(opener[p]))
            BY <2>4, <3>1, PastDoesNotRaise DEF Run, Commit
        <3>3. Advance(opener[p]).stage \in {"running", "open"}
            <4>1. opener[p] \in OpenerState
                BY <2>1 DEF IInv, Typed
            <4> DEFINE state == opener[p]
            <4>2. Advance(state) \in {[state EXCEPT !.next = @ + 1], [state EXCEPT !.stage = "open"],
                                      [state EXCEPT !.from = @ + 1, !.next = 1]}
                BY DEF Advance
            <4>3. state.stage = "running"
                BY <2>1
            <4> HIDE DEF state
            <4>4. state \in OpenerState
                BY <4>1 DEF state
            <4>5. Advance(state).stage \in {"running", "open"}
                BY <4>2, <4>3, <4>4 DEF OpenerState
            <4> QED BY <4>5 DEF state
        <3> QED BY <2>3, <3>1, <3>2, <3>3 DEF Closed
    <2>5. CASE Crash(q)
        <3>1. crashes \in Nat
            BY MaxCrashesAssumption DEF IInv, Typed, TypeOK
        <3> QED BY <2>5, <3>1 DEF Crash
    <2>6. CASE StartCreate(q) \/ \E mode \in {"write", "read_only"} : ReadRevision(q, mode)
        BY <2>1, <2>3, <2>6 DEF StartCreate, ReadRevision
    <2>7. CASE CheckObjects(q) \/ Close(q)
        <3>1. q = p
            BY <2>3, <2>7 DEF CheckObjects, Close
        <3> QED BY <2>1, <2>7, <3>1 DEF CheckObjects, Close
    <2> QED BY <2>2, <2>4, <2>5, <2>6, <2>7 DEF Construct
<1> QED BY Invariance, ExactMigrations, <1>1, PTL DEF Spec, BegunMigrationsGoOn
=============================================================================
