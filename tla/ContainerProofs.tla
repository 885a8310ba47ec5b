--------------------------- MODULE ContainerProofs ---------------------------
(***************************************************************************)
(* Proofs about Container: type correctness, the inductive invariant, the  *)
(* immutability of profiles and the refinement of TileStore.               *)
(***************************************************************************)
EXTENDS Container, TLAPS

-----------------------------------------------------------------------------
(***************************************************************************)
(* The content-profile rules.                                              *)
(***************************************************************************)

\* _normalize_content always yields a profile.
LEMMA NormalizedIsProfile ==
    ASSUME NEW request \in Request
    PROVE  NormalizeContent(request) \in Profile
<1>1. /\ "media" \in DOMAIN request => request["media"] \in Media
      /\ "encoding" \in DOMAIN request => request["encoding"] \in Encoding
      /\ "schema" \in DOMAIN request => request["schema"] \in Schema
    BY RequestAssumption
<1>2. Given(request, "media", DefaultMedia) \in Media
    BY <1>1, DefaultMediaAssumption DEF Given
<1>3. \A m \in Media : DefaultEncoding(m) \in Encoding
    BY DEF DefaultEncoding, Encoding, Media, MVT
<1>4. Given(request, "encoding", DefaultEncoding(Given(request, "media", DefaultMedia)))
        \in Encoding
    <2>1. CASE "encoding" \in DOMAIN request
        BY <1>1, <2>1 DEF Given
    <2>2. CASE "encoding" \notin DOMAIN request
        <3>1. DefaultEncoding(Given(request, "media", DefaultMedia)) \in Encoding
            BY <1>2, <1>3
        <3> QED BY <2>2, <3>1, Zenon DEF Given
    <2> QED BY <2>1, <2>2
<1>5. Given(request, "schema", "empty") \in Schema
    BY <1>1 DEF Given, Schema
<1> QED BY <1>2, <1>4, <1>5 DEF NormalizeContent, Profile

\* A new set's profile never contradicts the arguments it was made from.
LEMMA NormalizedDoesNotConflict ==
    ASSUME NEW request \in Request
    PROVE  ~Conflicts(request, NormalizeContent(request))
<1>1. DOMAIN request \subseteq Field
    BY RequestAssumption
<1>2. ASSUME NEW f \in DOMAIN request
      PROVE  request[f] = NormalizeContent(request)[f]
    <2>1. CASE f = "media"
        BY <1>2, <2>1 DEF NormalizeContent, Given
    <2>2. CASE f = "encoding"
        BY <1>2, <2>2 DEF NormalizeContent, Given
    <2>3. CASE f = "schema"
        BY <1>2, <2>3 DEF NormalizeContent, Given
    <2> QED BY <1>1, <1>2, <2>1, <2>2, <2>3 DEF Field
<1> QED BY <1>2 DEF Conflicts

\* The projected 'format' is a format.
LEMMA ProjectedFormat ==
    ASSUME NEW profile \in Profile
    PROVE  MbtilesFormat(profile) \in Format
<1>1. profile.media \in Media
    BY DEF Profile
<1> QED BY <1>1 DEF MbtilesFormat, Format

\* Adding one entry to a partial function.
LEMMA ExtendFacts ==
    ASSUME NEW f, NEW x, NEW y
    PROVE  /\ DOMAIN Extend(f, x, y) = DOMAIN f \union {x}
           /\ Extend(f, x, y)[x] = y
           /\ \A z \in DOMAIN f : z # x => Extend(f, x, y)[z] = f[z]
BY DEF Extend

\* It keeps its type when the entry has it.
LEMMA ExtendType ==
    ASSUME NEW S, NEW T, NEW f, DOMAIN f \subseteq S, f \in [DOMAIN f -> T],
           NEW x \in S, NEW y \in T
    PROVE  /\ DOMAIN Extend(f, x, y) \subseteq S
           /\ Extend(f, x, y) \in [DOMAIN Extend(f, x, y) -> T]
BY DEF Extend
-----------------------------------------------------------------------------
(***************************************************************************)
(* Type correctness.                                                       *)
(***************************************************************************)

\* A coordinate map has a canonical key.
LEMMA CanonicalKeyType ==
    ASSUME NEW coordinates \in Coordinates
    PROVE  CanonicalKey(coordinates) \in Key
<1>1. PICK D \in SUBSET Dimension : coordinates \in [D -> Spelling]
    BY ContainerAssumption
<1>2. CanonicalKey(coordinates) \in [D -> Value]
    BY <1>1, ContainerAssumption DEF CanonicalKey
<1> QED BY <1>2 DEF Key

\* The initial state has every type.
LEMMA InitType == Init => TypeOK
<1> SUFFICES ASSUME Init PROVE TypeOK
    OBVIOUS
<1>1. format \in Format
    <2>1. NormalizeContent([f \in {} |-> ""]) \in Profile
        <3>1. NormalizeContent([f \in {} |-> ""])
                = [media |-> DefaultMedia, encoding |-> DefaultEncoding(DefaultMedia),
                   schema |-> "empty"]
            BY DEF NormalizeContent, Given
        <3>2. DefaultEncoding(DefaultMedia) \in Encoding
            BY DefaultMediaAssumption DEF DefaultEncoding, Encoding, Media, MVT
        <3> QED BY <3>1, <3>2, DefaultMediaAssumption DEF Profile, Schema
    <2>2. MbtilesFormat(NormalizeContent([f \in {} |-> ""])) \in Format
        BY <2>1, ProjectedFormat
    <2> QED BY <2>2 DEF Init, InitialFormat, Format
<1>2. op \in [Process -> Operation]
    BY DEF Init, Operation
<1> QED BY <1>1, <1>2 DEF Init, TypeOK, Policy

\* A process moves to an operation: op keeps its type.
LEMMA BecomeType ==
    ASSUME NEW p \in Process, NEW operation \in Operation,
           op \in [Process -> Operation], Become(p, operation)
    PROVE  op' \in [Process -> Operation]
BY DEF Become

\* Which operation has which stages.
LEMMA StageKinds ==
    ASSUME TypeOK, NEW p \in Process
    PROVE  /\ op[p] \in Operation
           /\ op[p].stage \in {"reuse_set", "create_set"} => op[p] \in Put
           /\ op[p].stage = "select" => op[p] \in Select
           /\ op[p].stage = "check_variable" => op[p] \in Put \union Select
BY DEF TypeOK, Operation, Put, Select, Idle

\* What a process that is in the middle of an operation can still rely on: the set
\* it found is still there, with a profile that does not contradict its arguments.
OperationsSound ==
    \A p \in Process :
        /\ op[p].stage = "reuse_set" =>
                op[p].key \in sets /\ ~Conflicts(op[p].request, contents[op[p].key])
        /\ op[p].stage = "select" => op[p].key \in sets

\* The inductive invariant.
IInv ==
    /\ TypeOK
    /\ OperationsSound
    /\ SetsAreComplete
    /\ TilesMatchTheirProfile
    /\ SelectionAgrees

\* Every step keeps every variable in its type.
LEMMA NextType == IInv /\ [Next]_vars => TypeOK'
<1> SUFFICES ASSUME IInv, [Next]_vars
             PROVE  TypeOK'
    OBVIOUS
<1>0. TypeOK
    BY DEF IInv
<1> USE DEF settings, slices, interface
<1>1. ASSUME NEW p \in Process, NEW d \in Dimension, NEW required \in BOOLEAN,
             AddDimension(p, d, required)
      PROVE  TypeOK'
    <2>1. /\ DOMAIN dimensions' \subseteq Dimension
          /\ dimensions' \in [DOMAIN dimensions' -> BOOLEAN]
        BY <1>0, <1>1, ExtendType DEF TypeOK, AddDimension
    <2> QED BY <1>0, <1>1, <2>1 DEF TypeOK, AddDimension
<1>2. ASSUME NEW p \in Process, NEW v \in Value, AddVariable(p, v)
      PROVE  TypeOK'
    BY <1>0, <1>2 DEF TypeOK, AddVariable
<1>3. ASSUME NEW p \in Process, NEW value \in Policy, SetVariableSemantics(p, value)
      PROVE  TypeOK'
    BY <1>0, <1>3 DEF TypeOK, SetVariableSemantics
<1>4. ASSUME NEW p \in Process, SetMetadataJson(p)
      PROVE  TypeOK'
    BY <1>0, <1>4 DEF TypeOK, SetMetadataJson
<1>5. ASSUME NEW p \in Process, NEW coordinates \in Coordinates, NEW a \in Address,
             NEW request \in Request, BeginPut(p, coordinates, a, request)
      PROVE  TypeOK'
    <2>1. CanonicalKey(coordinates) \in Key
        BY CanonicalKeyType
    <2>2. [stage |-> "check_variable", key |-> CanonicalKey(coordinates),
           address |-> a, request |-> request] \in Operation
        BY <2>1 DEF Operation, Put
    <2>3. op' \in [Process -> Operation]
        BY <1>0, <1>5, <2>2, BecomeType DEF BeginPut, TypeOK
    <2> QED BY <1>0, <1>5, <2>3 DEF TypeOK, BeginPut
<1>6. ASSUME NEW p \in Process, CheckVariable(p)
      PROVE  TypeOK'
    <2>1. [op[p] EXCEPT !.stage = "find_set"] \in Operation
        <3>1. op[p] \in Put \union Select
            BY <1>0, <1>6, StageKinds DEF CheckVariable
        <3>2. CASE op[p] \in Put
            BY <3>2 DEF Put, Operation
        <3>3. CASE op[p] \in Select
            BY <3>3 DEF Select, Operation
        <3> QED BY <3>1, <3>2, <3>3
    <2>2. op' \in [Process -> Operation]
        BY <1>0, <1>6, <2>1, BecomeType DEF CheckVariable, TypeOK
    <2> QED BY <1>0, <1>6, <2>2 DEF TypeOK, CheckVariable
<1>7. ASSUME NEW p \in Process, FindSet(p)
      PROVE  TypeOK'
    <2>1. /\ [op[p] EXCEPT !.stage = "create_set"] \in Operation
          /\ [op[p] EXCEPT !.stage = "reuse_set"] \in Operation
        BY <1>7 DEF FindSet, Put, Operation
    <2>2. op' \in [Process -> Operation]
        BY <1>0, <1>7, <2>1, BecomeType DEF FindSet, TypeOK
    <2> QED BY <1>0, <1>7, <2>2 DEF TypeOK, FindSet
<1>8. ASSUME NEW p \in Process, ReuseSet(p)
      PROVE  TypeOK'
    <2>1. op[p] \in Put
        BY <1>0, <1>8, StageKinds DEF ReuseSet
    <2>2. /\ DOMAIN tiles' \subseteq Address \X Key
          /\ tiles' \in [DOMAIN tiles' -> Request]
        <3>1. <<op[p].address, op[p].key>> \in Address \X Key /\ op[p].request \in Request
            BY <2>1 DEF Put
        <3>2. tiles' = Extend(tiles, <<op[p].address, op[p].key>>, op[p].request)
            BY <1>8 DEF ReuseSet
        <3>3. DOMAIN tiles \subseteq Address \X Key /\ tiles \in [DOMAIN tiles -> Request]
            BY <1>0 DEF TypeOK
        <3> QED BY <3>1, <3>2, <3>3, ExtendType, Zenon
    <2>3. op' \in [Process -> Operation]
        BY <1>0, <1>8, BecomeType DEF ReuseSet, TypeOK, Operation
    <2> QED BY <1>0, <1>8, <2>2, <2>3 DEF TypeOK, ReuseSet
<1>9. ASSUME NEW p \in Process, CreateSet(p)
      PROVE  TypeOK'
    <2>1. op[p] \in Put
        BY <1>0, <1>9, StageKinds DEF CreateSet
    <2>2. /\ DOMAIN tiles' \subseteq Address \X Key
          /\ tiles' \in [DOMAIN tiles' -> Request]
        <3>1. <<op[p].address, op[p].key>> \in Address \X Key /\ op[p].request \in Request
            BY <2>1 DEF Put
        <3>2. tiles' = Extend(tiles, <<op[p].address, op[p].key>>, op[p].request)
            BY <1>9 DEF CreateSet
        <3>3. DOMAIN tiles \subseteq Address \X Key /\ tiles \in [DOMAIN tiles -> Request]
            BY <1>0 DEF TypeOK
        <3> QED BY <3>1, <3>2, <3>3, ExtendType, Zenon
    <2>3. NormalizeContent(op[p].request) \in Profile
        BY <2>1, NormalizedIsProfile DEF Put
    <2>4. /\ DOMAIN contents' \subseteq Key
          /\ contents' \in [DOMAIN contents' -> Profile]
        <3>1. op[p].key \in Key
            BY <2>1 DEF Put
        <3>2. contents' = Extend(contents, op[p].key, NormalizeContent(op[p].request))
            BY <1>9 DEF CreateSet
        <3>3. DOMAIN contents \subseteq Key /\ contents \in [DOMAIN contents -> Profile]
            BY <1>0 DEF TypeOK
        <3> QED BY <2>3, <3>1, <3>2, <3>3, ExtendType, Zenon
    <2>5. sets' \subseteq Key
        BY <1>0, <1>9, <2>1 DEF TypeOK, CreateSet, Put
    <2>6. op' \in [Process -> Operation]
        BY <1>0, <1>9, BecomeType DEF CreateSet, TypeOK, Operation
    <2> QED BY <1>0, <1>9, <2>2, <2>4, <2>5, <2>6 DEF TypeOK, CreateSet
<1>10. ASSUME NEW p \in Process, NEW coordinates \in Coordinates,
              BeginSelect(p, coordinates)
       PROVE  TypeOK'
    <2>1. [stage |-> "check_variable", key |-> CanonicalKey(coordinates)] \in Operation
        BY CanonicalKeyType DEF Operation, Select
    <2>2. op' \in [Process -> Operation]
        BY <1>0, <1>10, <2>1, BecomeType DEF BeginSelect, TypeOK
    <2> QED BY <1>0, <1>10, <2>2 DEF TypeOK, BeginSelect
<1>11. ASSUME NEW p \in Process, CommitSelect(p)
       PROVE  TypeOK'
    <2>1. op[p] \in Select
        BY <1>0, <1>11, StageKinds DEF CommitSelect
    <2>2. contents[op[p].key] \in Profile
        BY <1>0, <1>11 DEF IInv, OperationsSound, SetsAreComplete, TypeOK, CommitSelect
    <2>3. format' \in Format
        BY <1>0, <1>11, <2>2, ProjectedFormat DEF CommitSelect
    <2>4. json' \in Schema \union {NoJson, HandWritten}
        BY <1>0, <1>11, <2>2 DEF CommitSelect, Profile
    <2>5. op' \in [Process -> Operation]
        BY <1>0, <1>11, BecomeType DEF CommitSelect, TypeOK, Operation
    <2> QED BY <1>0, <1>11, <2>1, <2>3, <2>4, <2>5 DEF TypeOK, CommitSelect, Select
<1>12. ASSUME NEW p \in Process, Abandon(p)
       PROVE  TypeOK'
    <2>1. op' \in [Process -> Operation]
        BY <1>0, <1>12, BecomeType DEF Abandon, TypeOK, Operation
    <2> QED BY <1>0, <1>12, <2>1 DEF TypeOK, Abandon
<1>13. ASSUME NEW p \in Process, FindSlice(p)
       PROVE  TypeOK'
    <2>1. [op[p] EXCEPT !.stage = "select"] \in Operation
        BY <1>13 DEF FindSlice, Select, Operation
    <2>2. op' \in [Process -> Operation]
        BY <1>0, <1>13, <2>1, BecomeType DEF FindSlice, TypeOK
    <2> QED BY <1>0, <1>13, <2>2 DEF TypeOK, FindSlice
<1>14. CASE UNCHANGED vars
    BY <1>0, <1>14 DEF TypeOK, vars
<1> QED
    BY <1>1, <1>2, <1>3, <1>4, <1>5, <1>6, <1>7, <1>8, <1>9, <1>10, <1>11, <1>12, <1>13,
       <1>14
    DEF Next, Configure, WriteTile, SwitchSlice
-----------------------------------------------------------------------------
(***************************************************************************)
(* The other conjuncts of the inductive invariant.                         *)
(***************************************************************************)

\* Only the transaction of a put changes the stored slices.
LEMMA WhoWritesSlices ==
    ASSUME [Next]_vars
    PROVE  \/ UNCHANGED slices
           \/ \E p \in Process : ReuseSet(p) \/ CreateSet(p)
BY DEF Next, Configure, WriteTile, SwitchSlice, vars, AddDimension, AddVariable,
       SetVariableSemantics, SetMetadataJson, BeginPut, CheckVariable, FindSet,
       BeginSelect, FindSlice, CommitSelect, Abandon

\* Only set_metadata and the transaction of a select change the MBTiles interface.
LEMMA WhoWritesInterface ==
    ASSUME [Next]_vars
    PROVE  \/ UNCHANGED interface
           \/ \E p \in Process : SetMetadataJson(p) \/ CommitSelect(p)
BY DEF Next, Configure, WriteTile, SwitchSlice, vars, AddDimension, AddVariable,
       SetVariableSemantics, BeginPut, CheckVariable, FindSet, ReuseSet, CreateSet,
       BeginSelect, FindSlice, Abandon

\* No set disappears and no profile changes.
LEMMA SlicesOnlyGrow ==
    ASSUME IInv, [Next]_vars, NEW k \in sets
    PROVE  k \in sets' /\ contents'[k] = contents[k]
<1>1. CASE UNCHANGED slices
    BY <1>1 DEF slices
<1>2. CASE \E p \in Process : ReuseSet(p)
    BY <1>2 DEF ReuseSet
<1>3. ASSUME NEW p \in Process, CreateSet(p)
      PROVE  k \in sets' /\ contents'[k] = contents[k]
    <2>1. k \in DOMAIN contents
        BY DEF IInv, SetsAreComplete
    <2>2. k # op[p].key
        BY <1>3 DEF CreateSet
    <2>3. contents'[k] = contents[k]
        <3>1. contents' = Extend(contents, op[p].key, NormalizeContent(op[p].request))
            BY <1>3 DEF CreateSet
        <3> QED BY <2>1, <2>2, <3>1 DEF Extend
    <2> QED BY <1>3, <2>3 DEF CreateSet
<1> QED BY <1>1, <1>2, <1>3, WhoWritesSlices

\* A set that was found stays found.
LEMMA NextOperations == IInv /\ [Next]_vars => OperationsSound'
<1> SUFFICES ASSUME IInv, [Next]_vars, NEW q \in Process
             PROVE  /\ op'[q].stage = "reuse_set" =>
                        /\ op'[q].key \in sets'
                        /\ ~Conflicts(op'[q].request, contents'[op'[q].key])
                    /\ op'[q].stage = "select" => op'[q].key \in sets'
    BY DEF OperationsSound, Conflicts
<1>0. op \in [Process -> Operation]
    BY DEF IInv, TypeOK
<1>1. CASE op'[q] = op[q]
    BY <1>1, SlicesOnlyGrow DEF IInv, OperationsSound
<1>2. CASE op'[q] = Idle
    BY <1>2 DEF Idle
<1>3. CASE \E coordinates \in Coordinates, a \in Address, request \in Request :
                BeginPut(q, coordinates, a, request)
    BY <1>0, <1>3 DEF BeginPut, Become
<1>4. CASE CheckVariable(q)
    <2>1. op[q] \in Put \union Select
        BY <1>4, StageKinds DEF CheckVariable, IInv
    <2>2. op'[q] = [op[q] EXCEPT !.stage = "find_set"]
        BY <1>0, <1>4 DEF CheckVariable, Become
    <2>3. op'[q].stage = "find_set"
        BY <2>1, <2>2 DEF Put, Select
    <2> QED BY <2>3
<1>5. CASE FindSet(q)
    <2>1. op[q] \in Put
        BY <1>5 DEF FindSet
    <2>2. \/ op'[q] = [op[q] EXCEPT !.stage = "create_set"]
          \/ /\ op'[q] = [op[q] EXCEPT !.stage = "reuse_set"]
             /\ op[q].key \in sets
             /\ ~Conflicts(op[q].request, contents[op[q].key])
        BY <1>0, <1>5 DEF FindSet, Become
    <2>3. sets' = sets /\ contents' = contents
        BY <1>5 DEF FindSet, slices
    <2> QED BY <2>1, <2>2, <2>3 DEF Put
<1>6. CASE \E coordinates \in Coordinates : BeginSelect(q, coordinates)
    BY <1>0, <1>6 DEF BeginSelect, Become, slices
<1>7. CASE FindSlice(q)
    <2>1. op'[q].stage = "select" /\ op'[q].key = op[q].key
        BY <1>0, <1>7 DEF FindSlice, Become, Select
    <2> QED BY <1>7, <2>1 DEF FindSlice, slices
<1>8. \/ op'[q] = op[q]
      \/ op'[q] = Idle
      \/ \E coordinates \in Coordinates, a \in Address, request \in Request :
                BeginPut(q, coordinates, a, request)
      \/ CheckVariable(q)
      \/ FindSet(q)
      \/ \E coordinates \in Coordinates : BeginSelect(q, coordinates)
      \/ FindSlice(q)
    <2>1. CASE UNCHANGED vars
        BY <2>1 DEF vars
    <2>2. CASE \E p \in Process : Configure(p)
        BY <2>2 DEF Configure, AddDimension, AddVariable, SetVariableSemantics,
                    SetMetadataJson
    <2>3. ASSUME NEW p \in Process, p # q,
                 WriteTile(p) \/ SwitchSlice(p) \/ CheckVariable(p) \/ Abandon(p)
          PROVE  op'[q] = op[q]
        <3>1. \E operation : Become(p, operation)
            BY <2>3 DEF WriteTile, SwitchSlice, BeginPut, CheckVariable, FindSet, ReuseSet,
                        CreateSet, BeginSelect, FindSlice, CommitSelect, Abandon
        <3> QED BY <1>0, <2>3, <3>1 DEF Become
    <2>4. CASE ReuseSet(q) \/ CreateSet(q) \/ CommitSelect(q) \/ Abandon(q)
        BY <1>0, <2>4 DEF ReuseSet, CreateSet, CommitSelect, Abandon, Become
    <2> QED BY <2>1, <2>2, <2>3, <2>4 DEF Next, WriteTile, SwitchSlice
<1> QED BY <1>1, <1>2, <1>3, <1>4, <1>5, <1>6, <1>7, <1>8

\* A set, its profile and a tile come together.
LEMMA NextSets == IInv /\ [Next]_vars => SetsAreComplete'
<1> SUFFICES ASSUME IInv, [Next]_vars
             PROVE  SetsAreComplete'
    OBVIOUS
<1>0. TypeOK /\ SetsAreComplete
    BY DEF IInv
<1>1. CASE UNCHANGED slices
    BY <1>0, <1>1 DEF SetsAreComplete, slices
<1>2. ASSUME NEW p \in Process, ReuseSet(p)
      PROVE  SetsAreComplete'
    <2>1. op[p].address \in Address /\ op[p].key \in Key
        BY <1>0, <1>2, StageKinds DEF ReuseSet, Put
    <2>2. op[p].key \in sets
        BY <1>2 DEF IInv, OperationsSound, ReuseSet
    <2>3. sets' = sets /\ contents' = contents
        BY <1>2 DEF ReuseSet
    <2>4. DOMAIN tiles' = DOMAIN tiles \union {<<op[p].address, op[p].key>>}
        BY <1>2, ExtendFacts DEF ReuseSet
    <2> QED BY <1>0, <2>1, <2>2, <2>3, <2>4 DEF SetsAreComplete
<1>3. ASSUME NEW p \in Process, CreateSet(p)
      PROVE  SetsAreComplete'
    <2>1. op[p].address \in Address /\ op[p].key \in Key
        BY <1>0, <1>3, StageKinds DEF CreateSet, Put
    <2>2. sets' = sets \union {op[p].key}
        BY <1>3 DEF CreateSet
    <2>3. DOMAIN contents' = DOMAIN contents \union {op[p].key}
        <3>1. contents' = Extend(contents, op[p].key, NormalizeContent(op[p].request))
            BY <1>3 DEF CreateSet
        <3> QED BY <3>1 DEF Extend
    <2>4. DOMAIN tiles' = DOMAIN tiles \union {<<op[p].address, op[p].key>>}
        BY <1>3, ExtendFacts DEF CreateSet
    <2> QED BY <1>0, <2>1, <2>2, <2>3, <2>4 DEF SetsAreComplete
<1> QED BY <1>1, <1>2, <1>3, WhoWritesSlices

\* The tile a put writes does not contradict the profile it is filed under; the
\* profiles the other tiles are filed under do not change.
LEMMA NextTiles == IInv /\ [Next]_vars => TilesMatchTheirProfile'
<1> SUFFICES ASSUME IInv, [Next]_vars, NEW a \in Address, NEW k \in Key,
                    <<a, k>> \in DOMAIN tiles'
             PROVE  ~Conflicts(tiles'[<<a, k>>], contents'[k])
    BY DEF TilesMatchTheirProfile, Conflicts
<1>0. TypeOK /\ SetsAreComplete /\ TilesMatchTheirProfile
    BY DEF IInv
<1>1. ASSUME <<a, k>> \in DOMAIN tiles, tiles'[<<a, k>>] = tiles[<<a, k>>]
      PROVE  ~Conflicts(tiles'[<<a, k>>], contents'[k])
    <2>1. k \in sets
        BY <1>0, <1>1 DEF SetsAreComplete
    <2>2. contents'[k] = contents[k]
        BY <2>1, SlicesOnlyGrow
    <2> QED BY <1>0, <1>1, <2>2 DEF TilesMatchTheirProfile
<1>2. CASE UNCHANGED slices
    BY <1>1, <1>2 DEF slices
<1>3. ASSUME NEW p \in Process, ReuseSet(p)
      PROVE  ~Conflicts(tiles'[<<a, k>>], contents'[k])
    <2>1. tiles' = Extend(tiles, <<op[p].address, op[p].key>>, op[p].request)
        BY <1>3 DEF ReuseSet
    <2>2. CASE <<a, k>> = <<op[p].address, op[p].key>>
        <3>1. tiles'[<<a, k>>] = op[p].request
            BY <2>1, <2>2 DEF Extend
        <3>2. k = op[p].key
            BY <2>2
        <3>3. ~Conflicts(op[p].request, contents[op[p].key])
            BY <1>3 DEF IInv, OperationsSound, ReuseSet
        <3>4. contents' = contents
            BY <1>3 DEF ReuseSet
        <3> QED BY <3>1, <3>2, <3>3, <3>4
    <2>3. CASE <<a, k>> # <<op[p].address, op[p].key>>
        BY <1>1, <2>1, <2>3 DEF Extend
    <2> QED BY <2>2, <2>3
<1>4. ASSUME NEW p \in Process, CreateSet(p)
      PROVE  ~Conflicts(tiles'[<<a, k>>], contents'[k])
    <2>1. tiles' = Extend(tiles, <<op[p].address, op[p].key>>, op[p].request)
        BY <1>4 DEF CreateSet
    <2>2. CASE <<a, k>> = <<op[p].address, op[p].key>>
        <3>1. tiles'[<<a, k>>] = op[p].request
            BY <2>1, <2>2 DEF Extend
        <3>2. k = op[p].key
            BY <2>2
        <3>3. contents' = Extend(contents, op[p].key, NormalizeContent(op[p].request))
            BY <1>4 DEF CreateSet
        <3>4. contents'[op[p].key] = NormalizeContent(op[p].request)
            BY <3>3 DEF Extend
        <3>5. op[p].request \in Request
            BY <1>0, <1>4, StageKinds DEF CreateSet, Put
        <3> QED BY <3>1, <3>2, <3>4, <3>5, NormalizedDoesNotConflict
    <2>3. CASE <<a, k>> # <<op[p].address, op[p].key>>
        BY <1>1, <2>1, <2>3 DEF Extend
    <2> QED BY <2>2, <2>3
<1> QED BY <1>2, <1>3, <1>4, WhoWritesSlices

\* The profile of the selected set does not change under the MBTiles interface.
LEMMA NextSelection == IInv /\ [Next]_vars => SelectionAgrees'
<1> SUFFICES ASSUME IInv, [Next]_vars
             PROVE  SelectionAgrees'
    OBVIOUS
<1>0. SelectionAgrees
    BY DEF IInv
<1>1. CASE UNCHANGED interface
    <2>1. selected # NoKey => selected \in sets' /\ contents'[selected] = contents[selected]
        BY <1>0, SlicesOnlyGrow DEF SelectionAgrees
    <2> QED BY <1>0, <1>1, <2>1 DEF SelectionAgrees, interface
<1>2. ASSUME NEW p \in Process, SetMetadataJson(p)
      PROVE  SelectionAgrees'
    BY <1>0, <1>2, ContainerAssumption DEF SelectionAgrees, SetMetadataJson, slices
<1>3. ASSUME NEW p \in Process, CommitSelect(p)
      PROVE  SelectionAgrees'
    <2>1. op[p].key \in sets
        BY <1>3 DEF IInv, OperationsSound, CommitSelect
    <2>2. contents[op[p].key] \in Profile
        BY <2>1 DEF IInv, TypeOK, SetsAreComplete
    <2>3. contents[op[p].key].schema # NoJson
        BY <2>2, ContainerAssumption DEF Profile
    <2> QED BY <1>3, <2>1, <2>3 DEF SelectionAgrees, CommitSelect, slices
<1> QED BY <1>1, <1>2, <1>3, WhoWritesInterface
-----------------------------------------------------------------------------
(***************************************************************************)
(* The theorems.                                                           *)
(***************************************************************************)

\* The inductive invariant holds of a new container.
LEMMA InitIInv == Init => IInv
<1> SUFFICES ASSUME Init PROVE IInv
    OBVIOUS
<1>1. OperationsSound
    BY DEF Init, OperationsSound, Idle
<1>2. SetsAreComplete /\ TilesMatchTheirProfile /\ SelectionAgrees
    BY DEF Init, SetsAreComplete, TilesMatchTheirProfile, SelectionAgrees
<1> QED BY <1>1, <1>2, InitType DEF IInv

\* Every step keeps the inductive invariant.
LEMMA NextIInv == IInv /\ [Next]_vars => IInv'
BY NextType, NextOperations, NextSets, NextTiles, NextSelection DEF IInv

\* The invariant holds whatever the processes do and however they interleave.
THEOREM Invariant == Spec => []IInv
BY InitIInv, NextIInv, PTL DEF Spec

\* Every variable of the container keeps its type: in particular every stored key
\* is canonical and 'format' is one the MBTiles readers know.
THEOREM TypeCorrect == Spec => []TypeOK
<1>1. IInv => TypeOK
    BY DEF IInv
<1> QED BY <1>1, Invariant, PTL

\* put is all or nothing: no set without profile and tile, no tile without set.
THEOREM PutIsAtomic == Spec => []SetsAreComplete
<1>1. IInv => SetsAreComplete
    BY DEF IInv
<1> QED BY <1>1, Invariant, PTL

\* The check-then-act of put never files a tile under a profile it contradicts.
THEOREM ProfilesAreRespected == Spec => []TilesMatchTheirProfile
<1>1. IInv => TilesMatchTheirProfile
    BY DEF IInv
<1> QED BY <1>1, Invariant, PTL

\* The MBTiles interface always tells the truth about the selected slice.
THEOREM SelectionIsCoherent == Spec => []SelectionAgrees
<1>1. IInv => SelectionAgrees
    BY DEF IInv
<1> QED BY <1>1, Invariant, PTL

\* A content profile never changes and a coordinate set never disappears.
THEOREM ProfilesAreImmutable == Spec => ProfilesNeverChange
<1>1. IInv /\ [Next]_vars =>
        [\A k \in sets : k \in sets' /\ contents'[k] = contents[k]]_vars
    BY SlicesOnlyGrow
<1> QED BY <1>1, Invariant, PTL DEF Spec, ProfilesNeverChange
-----------------------------------------------------------------------------
(***************************************************************************)
(* The container implements the abstract tile store: ReuseSet and          *)
(* CreateSet are Store, CommitSelect is SelectSlice, the rest stutters.    *)
(***************************************************************************)

\* The abstract store uses the same rules for content profiles.
LEMMA SameRules ==
    /\ Promise!InitialFormat = InitialFormat
    /\ \A request, profile : Promise!Conflicts(request, profile) <=> Conflicts(request, profile)
    /\ \A request : Promise!NormalizeContent(request) = NormalizeContent(request)
    /\ \A profile : Promise!MbtilesFormat(profile) = MbtilesFormat(profile)
<1>1. \A request : Promise!NormalizeContent(request) = NormalizeContent(request)
    BY DEF Promise!NormalizeContent, NormalizeContent, Promise!Given, Given,
           Promise!DefaultEncoding, DefaultEncoding, Promise!MVT, MVT
<1>2. \A profile : Promise!MbtilesFormat(profile) = MbtilesFormat(profile)
    BY DEF Promise!MbtilesFormat, MbtilesFormat, Promise!MVT, MVT
<1>3. Promise!InitialFormat = InitialFormat
    BY <1>1, <1>2 DEF Promise!InitialFormat, InitialFormat, Promise!MVT, MVT
<1>4. \A request, profile : Promise!Conflicts(request, profile) <=> Conflicts(request, profile)
    BY DEF Promise!Conflicts, Conflicts
<1> QED BY <1>1, <1>2, <1>3, <1>4

\* A new container is a new abstract store.
LEMMA InitRefines == Init => Promise!StoreInit
BY SameRules DEF Init, Promise!StoreInit

\* The transaction of a put is one abstract Store.
LEMMA PutRefines ==
    ASSUME IInv, NEW p \in Process, ReuseSet(p) \/ CreateSet(p)
    PROVE  Promise!StoreNext
<1>0. TypeOK /\ SetsAreComplete
    BY DEF IInv
<1> DEFINE k == op[p].key
           a == op[p].address
           request == op[p].request
<1>1. k \in Key /\ a \in Address /\ request \in Request
    BY <1>0, StageKinds DEF ReuseSet, CreateSet, Put
<1>2. tiles' = Promise!Extend(tiles, <<a, k>>, request)
    BY DEF ReuseSet, CreateSet, Extend, Promise!Extend
<1>3. UNCHANGED [key |-> selected, format |-> format]
    BY DEF ReuseSet, CreateSet, interface
<1>4. CASE ReuseSet(p)
    <2>1. k \in DOMAIN contents /\ ~Conflicts(request, contents[k])
        BY <1>0, <1>4 DEF IInv, OperationsSound, SetsAreComplete, ReuseSet
    <2>2. UNCHANGED contents
        BY <1>4 DEF ReuseSet
    <2>3. Promise!Store(k, a, request)
        BY <1>2, <1>3, <2>1, <2>2, SameRules DEF Promise!Store
    <2> QED BY <1>1, <2>3 DEF Promise!StoreNext
<1>5. CASE CreateSet(p)
    <2>1. k \notin DOMAIN contents
        BY <1>0, <1>5 DEF SetsAreComplete, CreateSet
    <2>2. contents' = Promise!Extend(contents, k, NormalizeContent(request))
        BY <1>5 DEF CreateSet, Extend, Promise!Extend
    <2>3. Promise!Store(k, a, request)
        BY <1>2, <1>3, <2>1, <2>2, SameRules DEF Promise!Store
    <2> QED BY <1>1, <2>3 DEF Promise!StoreNext
<1> QED BY <1>4, <1>5

\* The transaction of a select is one abstract SelectSlice.
LEMMA SelectRefines ==
    ASSUME IInv, NEW p \in Process, CommitSelect(p)
    PROVE  Promise!StoreNext
<1>1. op[p].key \in DOMAIN contents
    BY DEF IInv, OperationsSound, SetsAreComplete, CommitSelect
<1>2. op[p].key \in Key
    BY <1>1 DEF IInv, TypeOK
<1>3. Promise!SelectSlice(op[p].key)
    BY <1>1, SameRules DEF CommitSelect, slices, Promise!SelectSlice
<1> QED BY <1>2, <1>3 DEF Promise!StoreNext

\* Every step is a step of the abstract store or leaves it alone.
LEMMA StepRefines ==
    IInv /\ [Next]_vars => [Promise!StoreNext]_(Promise!storeVars)
<1> SUFFICES ASSUME IInv, [Next]_vars
             PROVE  Promise!StoreNext \/ UNCHANGED Promise!storeVars
    OBVIOUS
<1>1. CASE \E p \in Process : ReuseSet(p) \/ CreateSet(p)
    BY <1>1, PutRefines
<1>2. CASE \E p \in Process : CommitSelect(p)
    BY <1>2, SelectRefines
<1>3. CASE UNCHANGED slices /\ ~ \E p \in Process : CommitSelect(p)
    <2>1. UNCHANGED <<selected, format>>
        BY <1>3, WhoWritesInterface DEF interface, SetMetadataJson
    <2> QED BY <1>3, <2>1 DEF slices, Promise!storeVars
<1> QED BY <1>1, <1>2, <1>3, WhoWritesSlices

\* Concurrent check-then-act puts and selects implement atomic ones.
THEOREM Refinement == Spec => KeepsPromise
<1>1. Init => Promise!StoreInit
    BY InitRefines
<1>2. IInv /\ [Next]_vars => [Promise!StoreNext]_(Promise!storeVars)
    BY StepRefines
<1> QED BY <1>1, <1>2, Invariant, PTL DEF Spec, KeepsPromise, Promise!StoreSpec
-----------------------------------------------------------------------------
(***************************************************************************)
(* What is stored is addressable: keys and tiles.                          *)
(***************************************************************************)

\* The key of coordinates that a caller passes, all of whose dimensions are in D.
Addressable(k, D) ==
    /\ \E coordinates \in Coordinates : k = CanonicalKey(coordinates)
    /\ DOMAIN k \subseteq D

\* No set is filed under a key that no canonical form of a caller's coordinates has, or
\* under a dimension nobody declared, although dimensions are read in autocommit, before
\* the set is stored.
SetsAreAddressable == \A k \in sets : Addressable(k, DOMAIN dimensions)

\* The key a process has in its frame stays addressable, for nothing undeclares a
\* dimension.
KeysAreAddressable ==
    \A p \in Process : op[p] # Idle => Addressable(op[p].key, DOMAIN dimensions)

LEMMA DimensionsStay ==
    ASSUME IInv, [Next]_vars PROVE DOMAIN dimensions \subseteq DOMAIN dimensions'
<1>1. CASE UNCHANGED dimensions
    BY <1>1
<1>2. ASSUME NEW p \in Process, NEW d, NEW required, AddDimension(p, d, required)
      PROVE  DOMAIN dimensions \subseteq DOMAIN dimensions'
    BY <1>2 DEF AddDimension, Extend
<1>3. \/ UNCHANGED dimensions
      \/ \E p \in Process, d \in Dimension, required \in BOOLEAN : AddDimension(p, d, required)
    BY DEF Next, Configure, WriteTile, SwitchSlice, vars, settings, AddVariable,
           SetVariableSemantics, SetMetadataJson, BeginPut, CheckVariable, FindSet, ReuseSet,
           CreateSet, BeginSelect, FindSlice, CommitSelect, Abandon
<1> QED BY <1>1, <1>2, <1>3

\* A process keeps its key or takes one that is accepted.
LEMMA NextKey ==
    ASSUME IInv, [Next]_vars, NEW q \in Process, op'[q] # Idle
    PROVE  \/ op[q] # Idle /\ op'[q].key = op[q].key
           \/ \E coordinates \in Coordinates :
                 Accepted(coordinates) /\ op'[q].key = CanonicalKey(coordinates)
<1> DEFINE Goal == \/ op[q] # Idle /\ op'[q].key = op[q].key
                   \/ \E coordinates \in Coordinates :
                         Accepted(coordinates) /\ op'[q].key = CanonicalKey(coordinates)
<1>0. op \in [Process -> Operation]
    BY DEF IInv, TypeOK
<1>1. CASE op'[q] = op[q]
    BY <1>1
<1>3. ASSUME NEW p \in Process,
             ReuseSet(p) \/ CreateSet(p) \/ CommitSelect(p) \/ Abandon(p)
      PROVE  Goal
    <2>1. op' = [op EXCEPT ![p] = Idle]
        BY <1>3 DEF ReuseSet, CreateSet, CommitSelect, Abandon, Become
    <2> QED BY <1>0, <2>1
<1>4. ASSUME NEW p \in Process, CheckVariable(p) \/ FindSet(p) \/ FindSlice(p) PROVE Goal
    <2>1. op[p] \in Put \union Select
        BY <1>4, StageKinds DEF CheckVariable, FindSet, FindSlice, IInv
    <2>2. PICK stage : op' = [op EXCEPT ![p] = [op[p] EXCEPT !.stage = stage]]
        BY <1>4 DEF CheckVariable, FindSet, FindSlice, Become
    <2>3. [op[p] EXCEPT !.stage = stage].key = op[p].key /\ op[p] # Idle
        BY <2>1 DEF Put, Select, Idle
    <2>4. CASE p = q
        BY <1>0, <2>2, <2>3, <2>4
    <2>5. CASE p # q
        BY <1>0, <2>2, <2>5
    <2> QED BY <2>4, <2>5
<1>5. ASSUME NEW p \in Process, NEW coordinates \in Coordinates, NEW a, NEW request,
             BeginPut(p, coordinates, a, request)
      PROVE  Goal
    <2>1. /\ Accepted(coordinates)
          /\ op' = [op EXCEPT ![p] =
                [stage |-> "check_variable", key |-> CanonicalKey(coordinates),
                 address |-> a, request |-> request]]
        BY <1>5 DEF BeginPut, Become
    <2>2. CASE p = q
        <3>1. op'[q].key = CanonicalKey(coordinates)
            BY <1>0, <2>1, <2>2
        <3> QED BY <2>1, <3>1
    <2>3. CASE p # q
        BY <1>0, <2>1, <2>3
    <2> QED BY <2>2, <2>3
<1>6. ASSUME NEW p \in Process, NEW coordinates \in Coordinates, BeginSelect(p, coordinates)
      PROVE  Goal
    <2>1. /\ Accepted(coordinates)
          /\ op' = [op EXCEPT ![p] =
                [stage |-> "check_variable", key |-> CanonicalKey(coordinates)]]
        BY <1>6 DEF BeginSelect, Become
    <2>2. CASE p = q
        <3>1. op'[q].key = CanonicalKey(coordinates)
            BY <1>0, <2>1, <2>2
        <3> QED BY <2>1, <3>1
    <2>3. CASE p # q
        BY <1>0, <2>1, <2>3
    <2> QED BY <2>2, <2>3
<1>7. ASSUME NEW p \in Process, Configure(p) PROVE op'[q] = op[q]
    BY <1>7 DEF Configure, AddDimension, AddVariable, SetVariableSemantics, SetMetadataJson
<1>8. UNCHANGED vars => op'[q] = op[q]
    BY DEF vars
<1> HIDE DEF Goal
<1>9. op'[q] = op[q] => Goal
    BY <1>1 DEF Goal
<1>10. Goal
    BY <1>3, <1>4, <1>5, <1>6, <1>7, <1>8, <1>9 DEF Next, WriteTile, SwitchSlice
<1> QED BY <1>10 DEF Goal

LEMMA AddressableStep ==
    ASSUME IInv, SetsAreAddressable, KeysAreAddressable, [Next]_vars
    PROVE  SetsAreAddressable' /\ KeysAreAddressable'
<1> DEFINE D == DOMAIN dimensions
<1>0. D \subseteq DOMAIN dimensions'
    BY DimensionsStay
<1>1. ASSUME NEW q \in Process, op'[q] # Idle
      PROVE  Addressable(op'[q].key, DOMAIN dimensions')
    <2>1. CASE op[q] # Idle /\ op'[q].key = op[q].key
        <3>1. Addressable(op[q].key, D)
            BY <2>1 DEF KeysAreAddressable
        <3> QED BY <1>0, <2>1, <3>1 DEF Addressable
    <2>2. ASSUME NEW coordinates \in Coordinates, Accepted(coordinates),
                 op'[q].key = CanonicalKey(coordinates)
          PROVE  Addressable(op'[q].key, DOMAIN dimensions')
        <3>1. DOMAIN CanonicalKey(coordinates) \subseteq DOMAIN dimensions'
            BY <1>0, <2>2 DEF Accepted, CanonicalKey
        <3> QED BY <2>2, <3>1 DEF Addressable
    <2> QED BY <1>1, <2>1, <2>2, NextKey
<1>2. ASSUME NEW k \in sets' PROVE k \in sets \/ \E p \in Process : op[p] # Idle /\ k = op[p].key
    <2>1. ASSUME NEW p \in Process, CreateSet(p)
          PROVE  op[p] # Idle /\ sets' = sets \union {op[p].key}
        BY <2>1 DEF CreateSet, Idle
    <2>2. ASSUME NEW p \in Process, ReuseSet(p) PROVE sets' = sets
        BY <2>2 DEF ReuseSet
    <2>3. UNCHANGED slices => sets' = sets
        BY DEF slices
    <2> QED BY <1>2, <2>1, <2>2, <2>3, WhoWritesSlices
<1>3. ASSUME NEW k \in sets' PROVE Addressable(k, DOMAIN dimensions')
    <2>1. Addressable(k, D)
        BY <1>2, <1>3 DEF SetsAreAddressable, KeysAreAddressable
    <2> QED BY <1>0, <2>1 DEF Addressable
<1>4. SetsAreAddressable'
    BY <1>3 DEF SetsAreAddressable
<1>5. KeysAreAddressable'
    BY <1>1 DEF KeysAreAddressable
<1> QED BY <1>4, <1>5

\* Every set can be addressed by coordinates of declared dimensions (unless one was
\* required later).
THEOREM AddressableSets == Spec => []SetsAreAddressable
<1>1. Init => SetsAreAddressable /\ KeysAreAddressable
    BY DEF Init, SetsAreAddressable, KeysAreAddressable
<1>2. IInv /\ SetsAreAddressable /\ KeysAreAddressable /\ [Next]_vars
        => SetsAreAddressable' /\ KeysAreAddressable'
    BY AddressableStep
<1> QED BY <1>1, <1>2, Invariant, PTL DEF Spec

\* A step stores at most one tile, in the slice and at the address of the put that takes
\* it, and takes none away.
OneTileAtATime ==
    [][/\ DOMAIN tiles \subseteq DOMAIN tiles'
       /\ \/ tiles' = tiles
          \/ \E p \in Process :
                /\ op[p] \in Put
                /\ tiles'[<<op[p].address, op[p].key>>] = op[p].request
                /\ \A t \in DOMAIN tiles' \ {<<op[p].address, op[p].key>>} :
                      t \in DOMAIN tiles /\ tiles'[t] = tiles[t]]_vars

\* put is one commit per tile: whatever runs beside it, it adds its own tile and no other.
THEOREM SingleTiles == Spec => OneTileAtATime
<1>1. ASSUME IInv, [Next]_vars
      PROVE  /\ DOMAIN tiles \subseteq DOMAIN tiles'
             /\ \/ tiles' = tiles
                \/ \E p \in Process :
                      /\ op[p] \in Put
                      /\ tiles'[<<op[p].address, op[p].key>>] = op[p].request
                      /\ \A t \in DOMAIN tiles' \ {<<op[p].address, op[p].key>>} :
                            t \in DOMAIN tiles /\ tiles'[t] = tiles[t]
    <2>1. CASE UNCHANGED slices
        BY <2>1 DEF slices
    <2>2. ASSUME NEW p \in Process, ReuseSet(p) \/ CreateSet(p)
          PROVE  /\ DOMAIN tiles \subseteq DOMAIN tiles'
                 /\ op[p] \in Put
                 /\ tiles'[<<op[p].address, op[p].key>>] = op[p].request
                 /\ \A t \in DOMAIN tiles' \ {<<op[p].address, op[p].key>>} :
                       t \in DOMAIN tiles /\ tiles'[t] = tiles[t]
        <3>1. op[p] \in Put
            BY <1>1, <2>2, StageKinds DEF ReuseSet, CreateSet, IInv
        <3>2. tiles' = Extend(tiles, <<op[p].address, op[p].key>>, op[p].request)
            BY <2>2 DEF ReuseSet, CreateSet
        <3> QED BY <3>1, <3>2 DEF Extend
    <2> QED BY <1>1, <2>1, <2>2, WhoWritesSlices
<1>2. IInv /\ [Next]_vars =>
        [/\ DOMAIN tiles \subseteq DOMAIN tiles'
         /\ \/ tiles' = tiles
            \/ \E p \in Process :
                  /\ op[p] \in Put
                  /\ tiles'[<<op[p].address, op[p].key>>] = op[p].request
                  /\ \A t \in DOMAIN tiles' \ {<<op[p].address, op[p].key>>} :
                        t \in DOMAIN tiles /\ tiles'[t] = tiles[t]]_vars
    BY <1>1
<1> QED BY <1>2, Invariant, PTL DEF Spec, OneTileAtATime

\* Whatever processes do at once, validate() has nothing to report but what a caller
\* brought in: a schema it declared, a policy it made stricter, a 'json' it wrote by hand.
ReportsAreOfCallers ==
    /\ ValidationErrors \subseteq {"invalid MVT vector_layers schema",
                                   "unregistered variable coordinate",
                                   "selected non-MVT slice retains stale json"}
    /\ "selected non-MVT slice retains stale json" \in ValidationErrors => json = HandWritten

\* What validate() can report after any interleaving of put, select and configuration.
THEOREM ValidContainers == Spec => []ReportsAreOfCallers
<1>1. IInv => ReportsAreOfCallers
    <2> SUFFICES ASSUME IInv PROVE ReportsAreOfCallers
        OBVIOUS
    <2>1. \A k \in sets : k \in DOMAIN contents
        BY DEF IInv, SetsAreComplete
    <2>2. selected # NoKey =>
             /\ format = MbtilesFormat(contents[selected])
             /\ contents[selected].media = MVT => json # NoJson
             /\ contents[selected].media # MVT /\ json # NoJson => json = HandWritten
        BY DEF IInv, SelectionAgrees
    <2> QED BY <2>1, <2>2 DEF ReportsAreOfCallers, ValidationErrors
<1> QED BY <1>1, Invariant, PTL
=============================================================================
