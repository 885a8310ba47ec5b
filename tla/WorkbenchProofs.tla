-------------------------- MODULE WorkbenchProofs --------------------------
(***************************************************************************)
(* Proofs about Workbench, for any number of processes, inputs and tools   *)
(* started or killed.                                                      *)
(*                                                                         *)
(* The argument: an import works on an inode of its own (ImportOk), and a  *)
(* signer holds an inode that no import is about to make (SignOk), so that *)
(* whatever changes a container that a signer reads raises its version;    *)
(* a digest of an unchanged version is therefore still right, and a        *)
(* signature that is stored is of a version that was or of the one that is *)
(* (SignatureOk).  Of protections that do not overlap, the one at work     *)
(* made what is in the package (KeyOk).                                    *)
(***************************************************************************)
EXTENDS Workbench, TLAPS

Metadata == [frames : SUBSET Input, zooms : SUBSET Zoom]

Value == (SUBSET Tile) \union Input \union {None} \union Metadata

Signature == [manifest : [Table -> Value], key : Key, at : Nat \union {None}]

ContainerType ==
    [tiles : SUBSET Tile, links : SUBSET Tile, selected : Input \union {None},
     metadata : Metadata, signatures : SUBSET Signature]

FileName == {"export", "package", "contentKey", "licence", "output"}

\* An import that has no container yet, and one that has.
Early == {"create", "parse", "unlink", "stage"}
Late == {"put", "link", "describe", "done"}

ImportJob ==
    [op : Import, at : Early \union Late, id : Nat, db : Inode \union {None},
     plan : SUBSET Tile, todo : SUBSET Tile, unlinked : SUBSET Tile]

SignJob ==
    [op : {"sign"}, at : {"read", "find", "sign", "both"}, id : Nat, db : Inode, key : Key,
     since : Nat, seen : UNION {[D -> Value] : D \in SUBSET Table}]

ProtectJob ==
    [op : {"protect"}, at : {"header", "body", "key"}, id : Nat, db : Inode \union {None},
     product : Nat, hash : ContainerType]

\* What the other tools do is left open.
OtherTool(j) == "op" \in DOMAIN j /\ j.op \in {"export", "issue", "decrypt"}

Jobs ==
    \A p \in Process :
        \/ job[p] \in {Idle} \union ImportJob \union SignJob \union ProtectJob
        \/ OtherTool(job[p])

Typed ==
    /\ target \in Inode \union {None}
    /\ containers \in [Inode -> ContainerType]
    /\ version \in [Inode -> Nat]
    /\ DOMAIN files = FileName
    /\ begun \in 0 .. MaxCommands /\ kills \in 0 .. MaxKills
    /\ kept \subseteq Tile
    /\ overlapped \in BOOLEAN /\ spoiled \in BOOLEAN
    /\ DOMAIN job = Process /\ Jobs

ImportOk(p) ==
    LET j == job[p] IN
    j.op \in Import =>
        /\ j.id \in 1 .. begun
        /\ j.at \in Early => j.db = None /\ j.unlinked = {} /\ target # j.id
        /\ j.at \in Late => j.db = j.id /\ j.unlinked \subseteq containers[j.id].tiles

Apart == \A p, q \in Importing : p # q => job[p].id # job[q].id

SignOk(p) ==
    LET j == job[p] IN
    j.op = "sign" =>
        /\ j.db <= begun
        /\ \A q \in Importing : job[q].at \in Early => j.db # job[q].id
        /\ j.since <= version[j.db]
        /\ j.at # "read" => DOMAIN j.seen = Table
        /\ version[j.db] = j.since =>
              \A t \in DOMAIN j.seen : j.seen[t] = Digest(containers[j.db], t)

SignatureOk(i) ==
    \A s \in containers[i].signatures :
        /\ s.at # None => s.at <= version[i]
        /\ s.at = version[i] => s.manifest = Manifest(containers[i])

LinksAreThere == \A i \in Inode : containers[i].links \subseteq containers[i].tiles

ContainersOk ==
    /\ target # None => target <= begun
    /\ LinksAreThere /\ Apart
    /\ \A p \in Process : ImportOk(p) /\ SignOk(p)
    /\ \A i \in Inode : SignatureOk(i)

KeyFits ==
    /\ files.package.whole
    /\ files.contentKey # None
    /\ files.contentKey.product = files.package.product
    /\ files.contentKey.key = files.package.key

PackageIs(j) ==
    /\ DOMAIN files.package = {"product", "hash", "key", "body", "whole"}
    /\ files.package.key = j.id /\ files.package.product = j.product

\* What the one protection at work has done of its package.
ProtectionOk(p) ==
    LET j == job[p] IN
    j.op = "protect" =>
        /\ (j.at = "header" /\ files.package # None) => KeyFits
        /\ j.at \in {"body", "key"} => PackageIs(j)
        /\ j.at = "key" => files.package.whole

KeyOk ==
    ~spoiled =>
        /\ \A p, q \in Protecting : p = q
        /\ \A p \in Process : ProtectionOk(p)
        /\ Protecting = {} /\ files.package # None => KeyFits

IInv == Typed /\ ContainersOk /\ KeyOk
-----------------------------------------------------------------------------
\* What the tools are told apart by.
LEMMA JobKinds ==
    ASSUME Typed, NEW p \in Process
    PROVE  /\ "op" \in DOMAIN job[p]
           /\ job[p].op = "idle" => job[p] = Idle
           /\ job[p].op \in Import => job[p] \in ImportJob
           /\ job[p].op = "sign" => job[p] \in SignJob
           /\ job[p].op = "protect" => job[p] \in ProtectJob
           /\ job[p].op \in {"export", "issue", "decrypt"} => OtherTool(job[p])
<1>1. CASE job[p] = Idle
    BY <1>1 DEF Idle, Import
<1>2. CASE job[p] \in ImportJob
    BY <1>2 DEF ImportJob, Import
<1>3. CASE job[p] \in SignJob
    BY <1>3 DEF SignJob, Import
<1>4. CASE job[p] \in ProtectJob
    BY <1>4 DEF ProtectJob, Import
<1>5. CASE OtherTool(job[p])
    BY <1>5 DEF OtherTool, Import
<1> QED BY <1>1, <1>2, <1>3, <1>4, <1>5 DEF Typed, Jobs

\* A new container.
LEMMA EmptyIsTyped == Empty \in ContainerType /\ Empty.links = {} /\ Empty.signatures = {}
BY DEF Empty, ContainerType, Metadata

\* No container, or a finished one.
LEMMA InitIInv == Init => IInv
<1> SUFFICES ASSUME Init PROVE IInv
    OBVIOUS
<1>1. \A p \in Process : job[p] = Idle /\ job[p].op = "idle"
    BY DEF Init, Idle
<1>2. PICK f \in Input : containers = [i \in Inode |->
              IF i = 0 /\ target = 0
              THEN [tiles |-> {f} \X Zoom, links |-> {f} \X Zoom, selected |-> f,
                    metadata |-> [frames |-> {}, zooms |-> Zoom], signatures |-> {}]
              ELSE Empty]
    BY DEF Init
<1> DEFINE finished == [tiles |-> {f} \X Zoom, links |-> {f} \X Zoom, selected |-> f,
                        metadata |-> [frames |-> {}, zooms |-> Zoom], signatures |-> {}]
<1>3. {f} \X Zoom \subseteq Tile
    BY DEF Tile
<1>4. finished \in ContainerType /\ finished.links \subseteq finished.tiles /\ finished.signatures = {}
    BY <1>3 DEF ContainerType, Metadata
<1> HIDE DEF finished
<1>5. \A i \in Inode : /\ containers[i] \in ContainerType
                       /\ containers[i].links \subseteq containers[i].tiles
                       /\ containers[i].signatures = {} /\ version[i] = 0
    BY <1>2, <1>4, EmptyIsTyped DEF Init, finished
<1>6. 0 \in Inode /\ 0 \in 0 .. MaxCommands /\ 0 \in 0 .. MaxKills
    BY BoundAssumption DEF Inode
<1>7. kept \subseteq Tile
    BY <1>2, <1>3, <1>6, EmptyIsTyped DEF Init
<1>8. Typed
    <2>1. Jobs
        BY <1>1 DEF Jobs
    <2>2. containers \in [Inode -> ContainerType] /\ version \in [Inode -> Nat]
        BY <1>2, <1>5 DEF Init
    <2>3. DOMAIN files = FileName
        BY DEF Init, NoFiles, FileName
    <2> QED BY <1>6, <1>7, <2>1, <2>2, <2>3 DEF Init, Typed
<1>9. ContainersOk
    BY <1>1, <1>5, <1>6 DEF Init, ContainersOk, LinksAreThere, Apart, Importing, ImportOk, SignOk,
       SignatureOk, Import
<1>10. KeyOk
    BY <1>1 DEF Init, NoFiles, KeyOk, Protecting, ProtectionOk
<1> QED BY <1>8, <1>9, <1>10 DEF IInv
-----------------------------------------------------------------------------
(***************************************************************************)
(* What a step of one tool does not disturb of the others.                 *)
(***************************************************************************)

\* A process that goes on leaves the others where they are.
LEMMA BecomeTyped ==
    ASSUME Typed, NEW p \in Process, NEW j, Become(p, j),
           j \in {Idle} \union ImportJob \union SignJob \union ProtectJob \/ OtherTool(j)
    PROVE  /\ DOMAIN job' = Process /\ Jobs'
           /\ \A q \in Process : job'[q] = IF q = p THEN j ELSE job[q]
<1>1. DOMAIN job' = Process /\ \A q \in Process : job'[q] = IF q = p THEN j ELSE job[q]
    BY DEF Become, Typed
<1> QED BY <1>1 DEF Typed, Jobs

\* A tool that makes no container.
LEMMA ContainersFrame ==
    ASSUME Typed, ContainersOk, NEW p \in Process,
           \A q \in Process : q # p => job'[q] = job[q],
           job[p].op \notin Import, job'[p].op \notin Import, SignOk(p)',
           UNCHANGED <<target, containers, version>>, begun' \in Nat, begun' >= begun
    PROVE  ContainersOk'
<1>1. begun \in Nat
    BY BoundAssumption DEF Typed
<1>2. \A q \in Process : ImportOk(q)'
    BY <1>1 DEF ContainersOk, ImportOk, Typed
<1>3. Importing' = Importing /\ \A q \in Importing : job'[q] = job[q]
    BY DEF Importing
<1>4. \A q \in Process : q # p => SignOk(q)'
    BY <1>1, <1>3, JobKinds DEF ContainersOk, SignOk, Typed, SignJob, Inode
<1>5. Apart'
    BY <1>3 DEF ContainersOk, Apart
<1>6. target' # None => target' <= begun'
    BY <1>1 DEF ContainersOk, Typed, Inode
<1>7. LinksAreThere'
    BY DEF ContainersOk, LinksAreThere
<1>8. \A i \in Inode : SignatureOk(i)'
    BY DEF ContainersOk, SignatureOk
<1> QED BY <1>2, <1>4, <1>5, <1>6, <1>7, <1>8 DEF ContainersOk

\* A tool that protects nothing and writes neither of the two files.
LEMMA KeyFrame ==
    ASSUME KeyOk, NEW p \in Process, \A q \in Process : q # p => job'[q] = job[q],
           job[p].op # "protect", job'[p].op # "protect",
           files'.package = files.package, files'.contentKey = files.contentKey,
           spoiled' = spoiled
    PROVE  KeyOk'
<1>1. Protecting' = Protecting /\ \A q \in Protecting : job'[q] = job[q]
    BY DEF Protecting
<1>2. \A q \in Process : ProtectionOk(q) => ProtectionOk(q)'
    BY DEF ProtectionOk, PackageIs, KeyFits
<1>3. KeyFits => KeyFits'
    BY DEF KeyFits
<1> QED BY <1>1, <1>2, <1>3 DEF KeyOk
-----------------------------------------------------------------------------
(***************************************************************************)
(* Exports, licences, decryption.                                          *)
(***************************************************************************)

\* Write changes one file.
LEMMA WriteKeepsNames ==
    ASSUME Typed, NEW name \in FileName, NEW value, Write(name, value)
    PROVE  /\ DOMAIN files' = FileName
           /\ \A n \in FileName : n # name => files'[n] = files[n]
           /\ files'[name] = value
BY DEF Write, Typed

\* A tool whose files no invariant is about.
LEMMA OtherToolKeeps ==
    ASSUME IInv, NEW p \in Process, NEW j, Become(p, j),
           j = Idle \/ OtherTool(j), job[p] = Idle \/ OtherTool(job[p]),
           UNCHANGED <<target, containers, version, kills, history>>,
           begun' \in 0 .. MaxCommands, begun' >= begun,
           DOMAIN files' = FileName,
           files'["package"] = files["package"], files'["contentKey"] = files["contentKey"]
    PROVE  IInv'
<1>1. /\ DOMAIN job' = Process /\ Jobs'
      /\ \A q \in Process : job'[q] = IF q = p THEN j ELSE job[q]
    BY BecomeTyped DEF IInv
<1>2. /\ job[p].op \notin Import \union {"protect", "sign"}
      /\ job'[p].op \notin Import \union {"protect", "sign"}
    BY <1>1 DEF OtherTool, Idle, Import
<1>3. Typed'
    BY <1>1 DEF IInv, Typed, history
<1>4. SignOk(p)'
    BY <1>2 DEF SignOk
<1>5. ContainersOk'
    BY <1>1, <1>2, <1>4, ContainersFrame DEF IInv
<1>6. KeyOk'
    BY <1>1, <1>2, KeyFrame DEF IInv, history
<1> QED BY <1>3, <1>5, <1>6 DEF IInv

\* export_mbtiles.
LEMMA ExportKeeps == ASSUME IInv, NEW p \in Process, ExportStep(p) PROVE IInv'
<1>1. begun \in 0 .. MaxCommands /\ MaxCommands \in Nat
    BY BoundAssumption DEF IInv, Typed
<1>2. CASE StartExport(p)
    <2>1. PICK j : OtherTool(j) /\ Become(p, j)
        BY <1>2 DEF StartExport, OtherTool
    <2> QED BY <1>1, <1>2, <2>1, OtherToolKeeps DEF StartExport, MayBegin, IInv, Typed
<1>3. CASE ReadZooms(p)
    <2>1. OtherTool(job[p])
        BY <1>3, JobKinds DEF ReadZooms, Exports, IInv
    <2>2. PICK j : OtherTool(j) /\ Become(p, j)
        BY <1>3, <2>1 DEF ReadZooms, OtherTool
    <2> QED BY <1>1, <1>3, <2>1, <2>2, OtherToolKeeps DEF ReadZooms, IInv, Typed
<1>4. CASE ReadRows(p)
    <2>1. OtherTool(job[p])
        BY <1>4, JobKinds DEF ReadRows, Exports, IInv
    <2>2. PICK j : OtherTool(j) /\ Become(p, j)
        BY <1>4, <2>1 DEF ReadRows, OtherTool
    <2> QED BY <1>1, <1>4, <2>1, <2>2, OtherToolKeeps DEF ReadRows, IInv, Typed
<1>5. CASE LinkExport(p)
    <2>1. OtherTool(job[p])
        BY <1>5, JobKinds DEF LinkExport, Exports, IInv
    <2>2. /\ DOMAIN files' = FileName /\ files'["package"] = files["package"]
          /\ files'["contentKey"] = files["contentKey"]
        BY <1>5, WriteKeepsNames DEF LinkExport, FileName, IInv, Typed
    <2> QED BY <1>1, <1>5, <2>1, <2>2, OtherToolKeeps DEF LinkExport, Finish
<1> QED BY <1>2, <1>3, <1>4, <1>5 DEF ExportStep

\* Licences and decryption write to files of their own.
LEMMA OtherStep ==
    ASSUME IInv, NEW p \in Process,
           \/ StartIssue(p) \/ Issue(p)
           \/ StartDecrypt(p) \/ OpenPackage(p) \/ Stream(p) \/ CheckDigest(p)
    PROVE  IInv'
<1>1. begun \in 0 .. MaxCommands /\ MaxCommands \in Nat
    BY BoundAssumption DEF IInv, Typed
<1>2. /\ Idle \in {Idle} /\ (job[p] = Idle \/ OtherTool(job[p]))
      /\ UNCHANGED <<target, containers, version, kills, history>>
    BY JobKinds DEF StartIssue, Issue, StartDecrypt, OpenPackage, Stream, CheckDigest, Start,
       MayBegin, Continue, Does, IInv, history
<1>3. begun' \in 0 .. MaxCommands /\ begun' >= begun
    <2>1. CASE StartIssue(p) \/ StartDecrypt(p)
        <3>1. begun < MaxCommands /\ begun' = begun + 1
            BY <2>1 DEF StartIssue, StartDecrypt, Start, MayBegin
        <3> QED BY <1>1, <3>1
    <2>2. CASE Issue(p) \/ OpenPackage(p) \/ Stream(p) \/ CheckDigest(p)
        <3>1. begun' = begun
            BY <2>2 DEF Issue, OpenPackage, Stream, CheckDigest, Continue
        <3> QED BY <1>1, <3>1
    <2> QED BY <2>1, <2>2
<1>4. /\ DOMAIN files' = FileName /\ files'["package"] = files["package"]
      /\ files'["contentKey"] = files["contentKey"]
    <2>1. CASE StartIssue(p) \/ StartDecrypt(p)
        <3>1. files' = files
            BY <2>1 DEF StartIssue, StartDecrypt, Start
        <3> QED BY <3>1 DEF IInv, Typed
    <2>2. CASE Issue(p)
        <3>1. files' = files \/ \E value : Write("licence", value)
            BY <2>2 DEF Issue
        <3> QED BY <3>1, WriteKeepsNames DEF FileName, IInv, Typed
    <2>3. CASE OpenPackage(p) \/ Stream(p) \/ CheckDigest(p)
        <3>1. files' = files \/ \E value : Write("output", value)
            BY <2>3 DEF OpenPackage, Stream, CheckDigest
        <3> QED BY <3>1, WriteKeepsNames DEF FileName, IInv, Typed
    <2> QED BY <2>1, <2>2, <2>3
<1>5. PICK j : (j = Idle \/ OtherTool(j)) /\ Become(p, j)
    <2>1. CASE StartIssue(p) \/ StartDecrypt(p)
        BY <2>1 DEF StartIssue, StartDecrypt, Start, OtherTool
    <2>2. CASE Issue(p) \/ CheckDigest(p)
        BY <2>2 DEF Issue, CheckDigest, Continue
    <2>3. CASE OpenPackage(p)
        <3>1. OtherTool(job[p])
            BY <2>3, JobKinds DEF OpenPackage, Does, IInv
        <3> QED BY <2>3, <3>1 DEF OpenPackage, Continue, OtherTool
    <2>4. CASE Stream(p)
        <3>1. OtherTool(job[p])
            BY <2>4, JobKinds DEF Stream, Does, IInv
        <3> QED BY <2>4, <3>1 DEF Stream, Continue, OtherTool
    <2> QED BY <2>1, <2>2, <2>3, <2>4
<1> QED BY <1>2, <1>3, <1>4, <1>5, OtherToolKeeps
-----------------------------------------------------------------------------
(***************************************************************************)
(* Protections.                                                            *)
(***************************************************************************)

\* A protection touches nothing of the containers.
LEMMA ProtectionKeepsContainers ==
    ASSUME IInv, NEW p \in Process, NEW j \in {Idle} \union ProtectJob, Become(p, j),
           job[p].op \in {"idle", "protect"},
           UNCHANGED <<target, containers, version, kills, kept, overlapped>>,
           begun' \in 0 .. MaxCommands, begun' >= begun,
           DOMAIN files' = FileName, spoiled' \in BOOLEAN
    PROVE  Typed' /\ ContainersOk'
<1>1. /\ DOMAIN job' = Process /\ Jobs'
      /\ \A q \in Process : job'[q] = IF q = p THEN j ELSE job[q]
    BY BecomeTyped DEF IInv
<1>2. job[p].op \notin Import \union {"sign"} /\ job'[p].op \notin Import \union {"sign"}
    BY <1>1 DEF ProtectJob, Idle, Import
<1>3. Typed'
    BY <1>1 DEF IInv, Typed
<1>4. SignOk(p)'
    BY <1>2 DEF SignOk
<1>5. ContainersOk'
    BY <1>1, <1>2, <1>4, ContainersFrame DEF IInv
<1> QED BY <1>3, <1>5

\* A protection that is not spoiled is the only one.
LEMMA ProtectionIsAlone ==
    ASSUME IInv, NEW p \in Process, ~spoiled', spoiled' = (spoiled \/ Protecting # {}) \/ spoiled' = spoiled,
           job[p].op = "protect" \/ Protecting = {},
           \A q \in Process : q # p => job'[q] = job[q],
           job'[p].op = "protect" => ProtectionOk(p)',
           job'[p].op # "protect" /\ files'.package # None => KeyFits'
    PROVE  KeyOk'
<1>1. ~spoiled
    OBVIOUS
<1>2. \A q \in Process : q # p => job[q].op # "protect"
    BY <1>1 DEF IInv, KeyOk, Protecting
<1>3. \A q \in Process : q # p => job'[q].op # "protect"
    BY <1>2
<1>4. \A q, r \in Protecting' : q = r
    BY <1>3 DEF Protecting
<1>5. \A q \in Process : ProtectionOk(q)'
    BY <1>3 DEF ProtectionOk
<1>6. Protecting' = {} /\ files'.package # None => KeyFits'
    BY DEF Protecting
<1> QED BY <1>4, <1>5, <1>6 DEF KeyOk

\* What WriteHeader and WriteBody make of a package.
LEMMA PackageFields ==
    ASSUME NEW r, DOMAIN r = {"product", "hash", "key", "body", "whole"}, NEW body, NEW whole
    PROVE  LET package == [r EXCEPT !.body = body, !.whole = whole] IN
           /\ DOMAIN package = DOMAIN r /\ package.whole = whole
           /\ package.product = r.product /\ package.key = r.key
OBVIOUS

\* Of protections that do not overlap, this is the only one at work.
LEMMA StartProtectKeeps == ASSUME IInv, NEW p \in Process, StartProtect(p) PROVE IInv'
<1>1. PICK product \in Nat :
          Start(p, [op |-> "protect", at |-> "header", id |-> begun + 1, db |-> None,
                    product |-> product, hash |-> containers[target]])
    <2>1. Given \in Nat /\ begun + 1 \in Nat
        BY DEF Given, IInv, Typed
    <2> QED BY <2>1 DEF StartProtect
<1> DEFINE j == [op |-> "protect", at |-> "header", id |-> begun + 1, db |-> None,
                 product |-> product, hash |-> containers[target]]
<1>2. /\ j \in ProtectJob /\ j.op = "protect" /\ j.at = "header"
    BY DEF StartProtect, IInv, Typed, ProtectJob
<1>3. /\ job[p] = Idle /\ begun < MaxCommands /\ Become(p, j) /\ begun' = begun + 1
      /\ UNCHANGED <<target, containers, version, files, kills, kept, overlapped>>
    BY <1>1 DEF Start, MayBegin
<1> HIDE DEF j
<1>4. job[p].op = "idle" /\ job'[p] = j
    BY <1>3 DEF Idle, Become, IInv, Typed
<1>5. spoiled' = (spoiled \/ Protecting # {})
    BY DEF StartProtect
<1>6. begun' \in 0 .. MaxCommands /\ begun' >= begun
    BY <1>3, BoundAssumption DEF IInv, Typed
<1>7. spoiled' \in BOOLEAN
    BY <1>5
<1>8. Typed' /\ ContainersOk'
    BY <1>2, <1>3, <1>4, <1>6, <1>7, ProtectionKeepsContainers DEF IInv, Typed
<1>9. ASSUME ~spoiled' PROVE KeyOk'
    <2>1. Protecting = {} /\ ~spoiled
        BY <1>5, <1>9
    <2>2. files.package # None => KeyFits
        BY <2>1 DEF IInv, KeyOk
    <2>3. ProtectionOk(p)'
        BY <1>2, <1>3, <1>4, <2>2 DEF ProtectionOk, KeyFits
    <2>4. \A q \in Process : q # p => job'[q] = job[q]
        BY <1>3 DEF Become, IInv, Typed
    <2> QED BY <1>2, <1>4, <1>5, <1>9, <2>1, <2>3, <2>4, ProtectionIsAlone
<1> QED BY <1>8, <1>9 DEF IInv, KeyOk

\* It truncates the package, fills it and writes its key.
LEMMA ProtectKeeps ==
    ASSUME IInv, NEW p \in Process, WriteHeader(p) \/ WriteBody(p) \/ WriteKey(p)
    PROVE  IInv'
<1>1. /\ job[p] \in ProtectJob /\ job[p].op = "protect" /\ UNCHANGED spoiled
      /\ UNCHANGED <<target, containers, version, begun, kills, kept, overlapped>>
    BY JobKinds DEF WriteHeader, WriteBody, WriteKey, Does, Continue, IInv
<1>2. PICK j \in {Idle} \union ProtectJob :
          /\ Become(p, j)
          /\ \/ WriteHeader(p) /\ target # None /\ j = [job[p] EXCEPT !.at = "body", !.db = target]
             \/ WriteHeader(p) /\ target = None /\ j = Idle /\ UNCHANGED files
             \/ WriteBody(p) /\ j = [job[p] EXCEPT !.at = "key"]
             \/ WriteKey(p) /\ j = Idle
    <2>1. CASE WriteHeader(p)
        BY <1>1, <2>1 DEF WriteHeader, Continue, ProtectJob, IInv, Typed
    <2>2. CASE WriteBody(p)
        BY <1>1, <2>2 DEF WriteBody, Continue, ProtectJob
    <2>3. CASE WriteKey(p)
        BY <2>3 DEF WriteKey, Continue
    <2> QED BY <2>1, <2>2, <2>3
<1>3. job'[p] = j /\ \A q \in Process : q # p => job'[q] = job[q]
    BY <1>2 DEF Become, IInv, Typed
<1>4. \/ UNCHANGED files
      \/ \E value : Write("package", value) \/ Write("contentKey", value)
    BY DEF WriteHeader, WriteBody, WriteKey
<1>5. DOMAIN files' = FileName
    BY <1>4, WriteKeepsNames DEF FileName, IInv, Typed
<1>6. Typed' /\ ContainersOk'
    BY <1>1, <1>2, <1>5, ProtectionKeepsContainers DEF IInv, Typed
<1>7. ASSUME ~spoiled PROVE KeyOk'
    <2>1. ProtectionOk(p)
        BY <1>7 DEF IInv, KeyOk
    <2>2. CASE WriteHeader(p) /\ target # None /\ j = [job[p] EXCEPT !.at = "body", !.db = target]
        <3>1. j.op = "protect" /\ j.at = "body" /\ j.id = job[p].id /\ j.product = job[p].product
            BY <1>1, <2>2 DEF ProtectJob
        <3>2. Write("package", [product |-> job[p].product, hash |-> job[p].hash,
                                key |-> job[p].id, body |-> None, whole |-> FALSE])
            BY <2>2 DEF WriteHeader
        <3>3. /\ files'["package"].product = j.product /\ files'["package"].key = j.id
              /\ DOMAIN files'["package"] = {"product", "hash", "key", "body", "whole"}
            BY <3>1, <3>2, WriteKeepsNames DEF FileName, IInv
        <3>4. ProtectionOk(p)'
            BY <1>3, <3>1, <3>3 DEF ProtectionOk, PackageIs
        <3> QED BY <1>1, <1>3, <1>7, <3>1, <3>4, ProtectionIsAlone
    <2>3. CASE WriteHeader(p) /\ target = None /\ j = Idle /\ UNCHANGED files
        <3>1. files.package # None => KeyFits
            BY <1>1, <2>1, <2>3 DEF WriteHeader, Does, ProtectionOk
        <3>2. j.op = "idle"
            BY <2>3 DEF Idle
        <3>3. files'.package # None => KeyFits'
            BY <2>3, <3>1 DEF KeyFits
        <3> QED BY <1>1, <1>3, <1>7, <3>2, <3>3, ProtectionIsAlone
    <2>4. CASE WriteBody(p) /\ j = [job[p] EXCEPT !.at = "key"]
        <3>1. /\ j.op = "protect" /\ j.at = "key" /\ j.id = job[p].id
              /\ j.product = job[p].product
            BY <1>1, <2>4 DEF ProtectJob
        <3>2. PackageIs(job[p])
            BY <1>1, <2>1, <2>4 DEF WriteBody, Does, ProtectionOk
        <3>3. PICK body, whole :
                  whole = TRUE /\ Write("package", [files.package EXCEPT !.body = body, !.whole = whole])
            BY <1>7, <2>4, <3>2 DEF WriteBody, PackageIs
        <3>4. /\ files'["package"].product = j.product /\ files'["package"].key = j.id
              /\ files'["package"].whole
              /\ DOMAIN files'["package"] = {"product", "hash", "key", "body", "whole"}
            <4> DEFINE package == [files.package EXCEPT !.body = body, !.whole = whole]
            <4>1. files'["package"] = package
                BY <3>3, WriteKeepsNames DEF FileName, IInv
            <4>2. /\ DOMAIN package = DOMAIN files.package /\ package.whole = whole
                  /\ package.product = files.package.product
                  /\ package.key = files.package.key
                BY <3>2, PackageFields DEF PackageIs
            <4> HIDE DEF package
            <4> QED BY <3>1, <3>2, <3>3, <4>1, <4>2 DEF PackageIs
        <3>5. ProtectionOk(p)'
            BY <1>3, <3>1, <3>4 DEF ProtectionOk, PackageIs
        <3> QED BY <1>1, <1>3, <1>7, <3>1, <3>5, ProtectionIsAlone
    <2>5. CASE WriteKey(p) /\ j = Idle
        <3>1. Write("contentKey", [product |-> job[p].product, key |-> job[p].id])
            BY <2>5 DEF WriteKey
        <3>2. PackageIs(job[p]) /\ files.package.whole
            BY <1>1, <2>1, <2>5 DEF WriteKey, Does, ProtectionOk
        <3>3. /\ files'["contentKey"] = [product |-> job[p].product, key |-> job[p].id]
              /\ files'["package"] = files["package"]
            BY <3>1, WriteKeepsNames DEF FileName, IInv
        <3>4. files'.contentKey # None
            BY <1>1, <3>3, NoneAssumption DEF ProtectJob
        <3>5. KeyFits'
            BY <3>2, <3>3, <3>4 DEF KeyFits, PackageIs
        <3>6. j.op = "idle"
            BY <2>5 DEF Idle
        <3> QED BY <1>1, <1>3, <1>7, <3>5, <3>6, ProtectionIsAlone
    <2> QED BY <1>2, <2>2, <2>3, <2>4, <2>5
<1>8. ASSUME spoiled PROVE KeyOk'
    BY <1>1, <1>8 DEF KeyOk
<1> QED BY <1>6, <1>7, <1>8 DEF IInv
-----------------------------------------------------------------------------
(***************************************************************************)
(* Signatures.                                                             *)
(***************************************************************************)

\* Digests are values of the tables.
LEMMA DigestIsTyped ==
    ASSUME NEW c \in ContainerType, NEW t \in Table PROVE Digest(c, t) \in Value
<1>1. /\ c.tiles \in Value /\ c.links \in Value /\ c.selected \in Value
      /\ c.metadata \in Value
    BY DEF ContainerType, Value
<1> QED BY <1>1 DEF Table, Digest

\* A digest of every table is the manifest.
LEMMA ManifestIsDigests ==
    ASSUME NEW c, NEW seen, DOMAIN seen = Table, seen = [t \in DOMAIN seen |-> seen[t]],
           \A t \in DOMAIN seen : seen[t] = Digest(c, t)
    PROVE  seen = Manifest(c)
BY DEF Manifest

\* A signer that reads.
LEMMA ReadingKeeps ==
    ASSUME IInv, NEW p \in Process, NEW j \in SignJob, Proceed(p, j),
           job[p].op \in {"idle", "sign"}, SignOk(p)',
           UNCHANGED <<containers, version>>, begun' \in 0 .. MaxCommands, begun' >= begun
    PROVE  IInv'
<1>1. /\ DOMAIN job' = Process /\ Jobs'
      /\ \A q \in Process : job'[q] = IF q = p THEN j ELSE job[q]
    BY BecomeTyped DEF IInv, Proceed
<1>2. /\ job[p].op \notin Import \union {"protect"}
      /\ job'[p].op \notin Import \union {"protect"}
    BY <1>1 DEF SignJob, Import
<1>3. Typed'
    BY <1>1 DEF IInv, Typed, Proceed, history
<1>4. ContainersOk'
    BY <1>1, <1>2, ContainersFrame DEF IInv, Proceed
<1>5. KeyOk'
    BY <1>1, <1>2, KeyFrame DEF IInv, Proceed, history
<1> QED BY <1>3, <1>4, <1>5 DEF IInv

\* The container that has the name is of no import that has yet to make one.
LEMMA StartSignKeeps == ASSUME IInv, NEW p \in Process, StartSign(p) PROVE IInv'
<1>1. PICK k \in Key :
          Proceed(p, [op |-> "sign", at |-> "read", id |-> begun + 1, db |-> target, key |-> k,
                      since |-> version[target], seen |-> [t \in {} |-> None]])
    BY DEF StartSign
<1> DEFINE seen == [t \in {} |-> None]
           j == [op |-> "sign", at |-> "read", id |-> begun + 1, db |-> target, key |-> k,
                 since |-> version[target], seen |-> seen]
<1>2. /\ job[p] = Idle /\ begun < MaxCommands /\ begun' = begun + 1 /\ target # None
      /\ target \in Inode /\ version[target] \in Nat /\ begun + 1 \in Nat
      /\ UNCHANGED <<containers, version, target>>
    BY DEF StartSign, MayBegin, Proceed, IInv, Typed
<1>3. seen \in UNION {[D -> Value] : D \in SUBSET Table} /\ DOMAIN seen = {}
    <2>1. seen \in [{} -> Value] /\ {} \in SUBSET Table
        OBVIOUS
    <2> QED BY <2>1
<1> HIDE DEF seen
<1>4. /\ j \in SignJob /\ j.op = "sign" /\ j.at = "read" /\ j.db = target
      /\ j.since = version[target] /\ DOMAIN j.seen = {}
    BY <1>2, <1>3 DEF SignJob
<1>5. Proceed(p, j)
    BY <1>1 DEF seen
<1> HIDE DEF j
<1>6. job'[p] = j /\ \A q \in Process : q # p => job'[q] = job[q]
    BY <1>5 DEF Proceed, Become, IInv, Typed
<1>7. \A q \in Importing' : q # p /\ q \in Importing /\ job'[q] = job[q]
    BY <1>4, <1>6 DEF Importing, Import
<1>8. begun' \in 0 .. MaxCommands /\ begun' >= begun
    BY <1>2, BoundAssumption DEF IInv, Typed
<1>9. target <= begun /\ \A q \in Importing' : job'[q].at \in Early => target # job'[q].id
    BY <1>2, <1>7 DEF IInv, ContainersOk, ImportOk, Importing
<1>10. SignOk(p)'
    BY <1>2, <1>4, <1>6, <1>8, <1>9 DEF SignOk, IInv, Typed, Inode
<1> QED BY <1>2, <1>4, <1>5, <1>8, <1>10, ReadingKeeps DEF Idle

\* One more table: its digest is right while the version is that of the start.
LEMMA ReadTableKeeps == ASSUME IInv, NEW p \in Process, ReadTable(p) PROVE IInv'
<1> DEFINE old == job[p]
           t == NextTable(DOMAIN old.seen)
           D == DOMAIN old.seen \union {t}
           seen == [u \in D |-> IF u = t THEN Digest(Open(p), t) ELSE old.seen[u]]
           at == IF DOMAIN seen = Table THEN "find" ELSE "read"
           j == [old EXCEPT !.seen = seen, !.at = at]
<1>1. /\ old \in SignJob /\ old.op = "sign" /\ Proceed(p, j)
      /\ UNCHANGED <<containers, version, begun>>
    BY JobKinds DEF ReadTable, Reading, IInv
<1>2. /\ old.seen \in [DOMAIN old.seen -> Value] /\ DOMAIN old.seen \subseteq Table
      /\ old.db \in Inode
    BY <1>1 DEF SignJob
<1>3. t \in Table
    BY DEF NextTable, Table
<1>4. Digest(Open(p), t) \in Value /\ Open(p) = containers[old.db]
    BY <1>2, <1>3, DigestIsTyped DEF Open, IInv, Typed
<1>5. seen \in [D -> Value] /\ D \in SUBSET Table
    <2> HIDE DEF t
    <2> QED BY <1>2, <1>3, <1>4
<1>6. /\ SignOk(p)
      /\ version[old.db] = old.since =>
            \A u \in D : seen[u] = Digest(containers[old.db], u)
    <2> HIDE DEF t
    <2> QED BY <1>1, <1>4 DEF IInv, ContainersOk, SignOk
<1>7. DOMAIN seen = D
    OBVIOUS
<1> HIDE DEF seen
<1>8. at \in {"find", "read"} /\ (at = "find" => D = Table)
    BY <1>7
<1> HIDE DEF at, D
<1>9. /\ j \in SignJob /\ j.op = "sign" /\ j.at = at /\ j.seen = seen
      /\ j.db = old.db /\ j.since = old.since
    <2>1. seen \in UNION {[E -> Value] : E \in SUBSET Table}
        BY <1>5
    <2>2. at \in {"read", "find", "sign", "both"}
        BY <1>8
    <2> HIDE DEF old
    <2> QED BY <1>1, <2>1, <2>2 DEF SignJob
<1> HIDE DEF j, old
<1>10. job'[p] = j /\ \A q \in Process : q # p => job'[q] = job[q]
    BY <1>1 DEF Proceed, Become, IInv, Typed
<1>11. \A q \in Importing' : q # p /\ q \in Importing /\ job'[q] = job[q]
    BY <1>9, <1>10 DEF Importing, Import
<1>12. SignOk(p)'
    BY <1>1, <1>6, <1>7, <1>8, <1>9, <1>10, <1>11 DEF SignOk, old
<1>13. begun' \in 0 .. MaxCommands /\ begun' >= begun
    BY <1>1, BoundAssumption DEF IInv, Typed
<1> QED BY <1>1, <1>9, <1>12, <1>13, ReadingKeeps DEF old

\* Every table was read.
LEMMA FindManifestKeeps == ASSUME IInv, NEW p \in Process, FindManifest(p) PROVE IInv'
<1> DEFINE old == job[p]
           at == IF Stored(Open(p), old.seen) THEN "sign" ELSE "both"
           j == [old EXCEPT !.at = at]
<1>1. /\ old \in SignJob /\ old.op = "sign" /\ old.at = "find" /\ Proceed(p, j)
      /\ UNCHANGED <<containers, version, begun>>
    BY JobKinds DEF FindManifest, Reading, IInv
<1>2. at \in {"sign", "both"}
    OBVIOUS
<1> HIDE DEF at
<1>3. /\ j \in SignJob /\ j.op = "sign" /\ j.at = at /\ j.seen = old.seen
      /\ j.db = old.db /\ j.since = old.since
    BY <1>1, <1>2 DEF SignJob
<1>4. SignOk(p)
    BY DEF IInv, ContainersOk
<1> HIDE DEF j, old
<1>5. job'[p] = j /\ \A q \in Process : q # p => job'[q] = job[q]
    BY <1>1 DEF Proceed, Become, IInv, Typed
<1>6. \A q \in Importing' : q # p /\ q \in Importing /\ job'[q] = job[q]
    BY <1>3, <1>5 DEF Importing, Import
<1>7. SignOk(p)'
    BY <1>1, <1>3, <1>4, <1>5, <1>6 DEF SignOk, old
<1>8. begun' \in 0 .. MaxCommands /\ begun' >= begun
    BY <1>1, BoundAssumption DEF IInv, Typed
<1> QED BY <1>1, <1>3, <1>7, <1>8, ReadingKeeps DEF old

\* Signatures are in no digest.
LEMMA SigningSparesTables ==
    ASSUME NEW c \in ContainerType, NEW signatures \in SUBSET Signature
    PROVE  LET signed == [c EXCEPT !.signatures = signatures] IN
           /\ signed \in ContainerType /\ signed.signatures = signatures
           /\ signed.tiles = c.tiles /\ signed.links = c.links
           /\ \A t \in Table : Digest(signed, t) = Digest(c, t)
<1> DEFINE signed == [c EXCEPT !.signatures = signatures]
<1>1. /\ signed \in ContainerType /\ signed.signatures = signatures
      /\ signed.tiles = c.tiles /\ signed.links = c.links
      /\ signed.selected = c.selected /\ signed.metadata = c.metadata
    BY DEF ContainerType
<1> HIDE DEF signed
<1>2. \A t \in Table : Digest(signed, t) = Digest(c, t)
    BY <1>1 DEF Digest, Table
<1> QED BY <1>1, <1>2 DEF signed

\* What is stored is of the version that the reading began with, or of none.
LEMMA SignKeeps == ASSUME IInv, NEW p \in Process, Sign(p) PROVE IInv'
<1> DEFINE j == job[p]
           c == containers[j.db]
           signature == [manifest |-> j.seen, key |-> j.key,
                         at |-> IF version[j.db] = j.since THEN j.since ELSE None]
           signed == [c EXCEPT !.signatures = @ \union {signature}]
<1>1. /\ j \in SignJob /\ j.op = "sign" /\ j.at # "read" /\ Proceed(p, Idle)
      /\ UNCHANGED <<version, begun>>
    BY JobKinds DEF Sign, Reading, IInv
<1>2. containers' = containers \/ containers' = [containers EXCEPT ![j.db] = signed]
    BY DEF Sign, Open
<1>3. j.db \in Inode /\ c \in ContainerType /\ version[j.db] \in Nat /\ j.since \in Nat
    BY <1>1 DEF SignJob, IInv, Typed
<1>4. SignOk(p)
    BY DEF IInv, ContainersOk
<1>5. /\ DOMAIN j.seen = Table /\ j.seen \in [Table -> Value] /\ j.key \in Key
      /\ version[j.db] = j.since => j.seen = Manifest(c)
    <2>1. DOMAIN j.seen = Table /\ j.seen \in [DOMAIN j.seen -> Value] /\ j.key \in Key
        BY <1>1, <1>4 DEF SignOk, SignJob
    <2>2. j.seen = [t \in DOMAIN j.seen |-> j.seen[t]]
        BY <2>1
    <2>3. ASSUME version[j.db] = j.since PROVE j.seen = Manifest(c)
        <3>1. \A t \in DOMAIN j.seen : j.seen[t] = Digest(c, t)
            BY <1>1, <1>4, <2>3 DEF SignOk
        <3> HIDE DEF j, c
        <3> QED BY <2>1, <2>2, <3>1, ManifestIsDigests
    <2> QED BY <2>1, <2>3
<1>6. /\ signature \in Signature
      /\ signature.at # None => signature.at = version[j.db]
      /\ signature.at = version[j.db] => signature.manifest = Manifest(c)
    BY <1>3, <1>5, NoneAssumption DEF Signature
<1> HIDE DEF signature
<1>7. c.signatures \union {signature} \in SUBSET Signature
    BY <1>3, <1>6 DEF ContainerType
<1>8. /\ signed \in ContainerType /\ signed.signatures = c.signatures \union {signature}
      /\ signed.tiles = c.tiles /\ signed.links = c.links
      /\ \A t \in Table : Digest(signed, t) = Digest(c, t)
    BY <1>3, <1>7, SigningSparesTables
<1> HIDE DEF signed
<1>9. \A i \in Inode :
          /\ containers'[i] \in ContainerType
          /\ containers'[i].tiles = containers[i].tiles /\ containers'[i].links = containers[i].links
          /\ \A t \in Table : Digest(containers'[i], t) = Digest(containers[i], t)
    BY <1>2, <1>3, <1>8 DEF IInv, Typed
<1>10. \A i \in Inode : Manifest(containers'[i]) = Manifest(containers[i])
    BY <1>9 DEF Manifest
<1>11. \A i \in Inode : SignatureOk(i)'
    <2> TAKE i \in Inode
    <2>1. SignatureOk(i)
        BY DEF IInv, ContainersOk
    <2>2. \A s \in containers'[i].signatures :
              (s \in containers[i].signatures) \/ (i = j.db /\ s = signature)
        <3>1. CASE containers' = containers
            BY <3>1
        <3>2. CASE containers' = [containers EXCEPT ![j.db] = signed]
            <4>1. containers'[i] = IF i = j.db THEN signed ELSE containers[i]
                BY <3>2 DEF IInv, Typed
            <4> HIDE DEF j
            <4> QED BY <1>8, <4>1
        <3> QED BY <1>2, <3>1, <3>2
    <2>3. version'[i] = version[i] /\ Manifest(containers'[i]) = Manifest(containers[i])
        BY <1>1, <1>10
    <2> HIDE DEF j
    <2> QED BY <1>3, <1>6, <2>1, <2>2, <2>3 DEF SignatureOk
<1>12. containers' \in [Inode -> ContainerType]
    BY <1>2, <1>3, <1>8 DEF IInv, Typed
<1>13. /\ DOMAIN job' = Process /\ Jobs'
       /\ \A q \in Process : job'[q] = IF q = p THEN Idle ELSE job[q]
    BY <1>1, BecomeTyped DEF IInv, Proceed
<1>14. job[p].op \notin Import \union {"protect"} /\ job'[p].op \notin Import \union {"protect", "sign"}
    BY <1>1, <1>13 DEF Idle, Import
<1>15. Typed'
    BY <1>1, <1>12, <1>13 DEF IInv, Typed, Proceed, history
<1>16. Importing' = Importing /\ \A q \in Importing : job'[q] = job[q]
    BY <1>13, <1>14 DEF Importing
<1>17. target' = target
    BY <1>1 DEF Proceed
<1>18. \A q \in Process : ImportOk(q)'
    <2> TAKE q \in Process
    <2>1. CASE job'[q].op \in Import
        <3>1. q \in Importing /\ job'[q] = job[q] /\ job[q].id \in 1 .. begun
            BY <1>16, <2>1 DEF Importing, IInv, ContainersOk, ImportOk
        <3>2. job[q].id \in Inode
            BY <3>1, BoundAssumption DEF IInv, Typed, Inode
        <3> QED BY <1>1, <1>9, <1>17, <3>1, <3>2 DEF IInv, ContainersOk, ImportOk, Importing
    <2> QED BY <2>1 DEF ImportOk
<1>19. \A q \in Process : SignOk(q)'
    <2> TAKE q \in Process
    <2>1. CASE job'[q].op = "sign"
        <3>1. q # p /\ job'[q] = job[q] /\ job[q] \in SignJob /\ SignOk(q)
            BY <1>13, <1>14, <2>1, JobKinds DEF IInv, ContainersOk
        <3>2. job[q].db \in Inode /\ DOMAIN job[q].seen \subseteq Table
            BY <3>1 DEF SignJob
        <3> HIDE DEF j, c
        <3> QED BY <1>1, <1>9, <1>16, <2>1, <3>1, <3>2 DEF SignOk
    <2> QED BY <2>1 DEF SignOk
<1>20. LinksAreThere' /\ Apart'
    BY <1>9, <1>16 DEF IInv, ContainersOk, LinksAreThere, Apart
<1>21. ContainersOk'
    BY <1>1, <1>11, <1>17, <1>18, <1>19, <1>20 DEF IInv, ContainersOk
<1>22. KeyOk'
    BY <1>1, <1>13, <1>14, KeyFrame DEF IInv, Proceed, history
<1> QED BY <1>15, <1>21, <1>22 DEF IInv
-----------------------------------------------------------------------------
(***************************************************************************)
(* Imports.                                                                *)
(***************************************************************************)

\* What every step of an import leaves of the other tools.
LEMMA ImportFrame ==
    ASSUME IInv, NEW p \in Process, NEW j \in {Idle} \union ImportJob, Become(p, j),
           job[p] = Idle \/ job[p].op \in Import,
           target' \in Inode \union {None}, containers' \in [Inode -> ContainerType],
           version' \in [Inode -> Nat], begun' \in 0 .. MaxCommands, overlapped' \in BOOLEAN,
           kept' \subseteq Tile, UNCHANGED <<files, kills, spoiled>>
    PROVE  /\ Typed' /\ KeyOk'
           /\ \A q \in Process : job'[q] = IF q = p THEN j ELSE job[q]
<1>1. /\ DOMAIN job' = Process /\ Jobs'
      /\ \A q \in Process : job'[q] = IF q = p THEN j ELSE job[q]
    BY BecomeTyped DEF IInv
<1>2. job[p].op # "protect" /\ job'[p].op # "protect"
    BY <1>1 DEF Idle, ImportJob, Import
<1>3. Typed'
    BY <1>1 DEF IInv, Typed
<1>4. KeyOk'
    BY <1>1, <1>2, KeyFrame DEF IInv
<1> QED BY <1>1, <1>3, <1>4

\* A step that begins or ends an import, or goes on without a container.
LEMMA EarlyKeeps ==
    ASSUME IInv, NEW p \in Process, NEW j \in {Idle} \union ImportJob, Become(p, j),
           job[p] = Idle \/ job[p].op \in Import,
           \/ target' \in {target, None}
           \/ job[p].op \in Import /\ job[p].at \in Late /\ target' = job[p].id,
           begun' \in 0 .. MaxCommands, begun' >= begun, overlapped' \in BOOLEAN,
           UNCHANGED <<containers, version, files, kills, spoiled>>, kept' \subseteq Tile,
           \/ j = Idle
           \/ /\ j.at \in Early /\ j.db = None /\ j.unlinked = {}
              /\ \/ job[p] = Idle /\ j.id = begun + 1 /\ begun' = begun + 1
                 \/ job[p].op \in Import /\ job[p].at \in Early /\ j.id = job[p].id
    PROVE  IInv'
<1>1. /\ begun \in Nat /\ begun' \in Nat /\ MaxCommands \in Nat
      /\ \A q \in Process : ImportOk(q) /\ SignOk(q)
    BY BoundAssumption DEF IInv, Typed, ContainersOk
<1>2. target' \in Inode \union {None} /\ (target' # None => target' <= begun')
    BY <1>1 DEF IInv, Typed, ContainersOk, ImportOk, Inode
<1>3. /\ Typed' /\ KeyOk'
      /\ \A q \in Process : job'[q] = IF q = p THEN j ELSE job[q]
    BY <1>2, ImportFrame DEF IInv, Typed
<1>4. \A q \in Importing' : q # p => q \in Importing /\ job'[q] = job[q]
    BY <1>3 DEF Importing
<1>5. p \in Importing' => j.at \in Early /\ (\A q \in Importing' : q # p => j.id # job[q].id)
    BY <1>1, <1>3, <1>4 DEF Importing, IInv, ContainersOk, Apart, ImportOk, Idle, Import
<1>6. Apart'
    BY <1>3, <1>4, <1>5 DEF Apart, IInv, ContainersOk
<1>7. \A q \in Process : ImportOk(q)'
    <2> TAKE q \in Process
    <2>1. CASE q \in Importing' /\ q # p
        <3>1. q \in Importing /\ job'[q] = job[q] /\ job[q].id \in 1 .. begun
            BY <1>1, <1>4, <2>1 DEF Importing, ImportOk
        <3>2. job[q].at \in Early => target' # job[q].id
            BY <1>1, <2>1, <3>1, NoneAssumption DEF Importing, ImportOk, IInv, ContainersOk, Apart
        <3> QED BY <1>1, <3>1, <3>2 DEF ImportOk, Importing
    <2>2. CASE q \in Importing' /\ q = p
        <3>1. j.at \in Early /\ j.db = None /\ j.unlinked = {} /\ j.at \notin Late
            BY <1>5, <2>2, <1>3 DEF Importing, Idle, Import, Early, Late
        <3>2. j.id \in 1 .. begun'
            BY <1>1, <1>3, <2>2 DEF Importing, ImportOk, Idle, Import
        <3>3. target' = target \/ target' = None
            <4>1. CASE job[p] = Idle
                BY <4>1 DEF Idle, Import
            <4>2. CASE job[p].op \in Import /\ job[p].at \in Early
                BY <4>2 DEF Early, Late
            <4> QED BY <1>3, <2>2, <4>1, <4>2 DEF Importing, Idle, Import
        <3>4. target # j.id
            BY <1>1, <1>3, <2>2, NoneAssumption DEF Importing, ImportOk, Idle, Import, IInv, Typed,
               ContainersOk, Inode
        <3>5. target' # j.id
            BY <3>2, <3>3, <3>4, NoneAssumption
        <3> QED BY <1>3, <2>2, <3>1, <3>2, <3>5 DEF ImportOk
    <2> QED BY <2>1, <2>2 DEF ImportOk, Importing
<1>8. \A q \in Process : SignOk(q)'
    <2> TAKE q \in Process
    <2>1. CASE job'[q].op = "sign"
        <3>1. q # p /\ job'[q] = job[q] /\ job[q] \in SignJob /\ SignOk(q)
            BY <1>1, <1>3, <2>1, JobKinds DEF IInv, Idle, ImportJob, Import
        <3>2. \A r \in Importing' : job'[r].at \in Early => job[q].db # job'[r].id
            <4> TAKE r \in Importing'
            <4>1. CASE r = p
                BY <1>1, <1>3, <2>1, <3>1, <4>1 DEF Importing, SignOk, Idle, Import, SignJob, Inode
            <4>2. CASE r # p
                BY <1>4, <2>1, <3>1, <4>2 DEF SignOk
            <4> QED BY <4>1, <4>2
        <3>3. job[q].db \in Nat
            BY <3>1, BoundAssumption DEF SignJob, Inode
        <3> QED BY <1>1, <2>1, <3>1, <3>2, <3>3 DEF SignOk
    <2> QED BY <2>1 DEF SignOk
<1>9. LinksAreThere' /\ \A i \in Inode : SignatureOk(i)'
    <2>1. LinksAreThere'
        BY DEF IInv, ContainersOk, LinksAreThere
    <2>2. \A i \in Inode : SignatureOk(i)'
        BY DEF IInv, ContainersOk, SignatureOk
    <2> QED BY <2>1, <2>2
<1>10. ContainersOk'
    BY <1>2, <1>6, <1>7, <1>8, <1>9 DEF ContainersOk
<1> QED BY <1>3, <1>10 DEF IInv

\* A step that writes to the import's own container.
LEMMA LateKeeps ==
    ASSUME IInv, NEW p \in Process, job[p].op \in Import,
           NEW j \in ImportJob, Become(p, j), j.at \in Late, j.id = job[p].id, j.db = j.id,
           NEW c \in ContainerType, containers' = [containers EXCEPT ![j.id] = c],
           NEW v \in Nat, version' = [version EXCEPT ![j.id] = v],
           j.unlinked \subseteq c.tiles, c.links \subseteq c.tiles,
           \A s \in c.signatures : /\ s.at # None => s.at <= v
                                   /\ s.at = v => s.manifest = Manifest(c),
           v > version[j.id] \/ job[p].at \in Early,
           target' = target \/ target' = j.id,
           UNCHANGED <<files, kills, spoiled, begun, overlapped>>, kept' \subseteq Tile
    PROVE  IInv'
<1> DEFINE i == j.id
<1>1. /\ begun \in 0 .. MaxCommands /\ MaxCommands \in Nat /\ overlapped' \in BOOLEAN
      /\ \A q \in Process : ImportOk(q) /\ SignOk(q)
    BY BoundAssumption DEF IInv, Typed, ContainersOk
<1>2. i \in 1 .. begun /\ i \in Inode /\ p \in Importing
    BY <1>1 DEF ImportOk, Inode, Importing
<1>3. /\ containers' \in [Inode -> ContainerType] /\ version' \in [Inode -> Nat]
      /\ \A k \in Inode : /\ containers'[k] = IF k = i THEN c ELSE containers[k]
                          /\ version'[k] = IF k = i THEN v ELSE version[k]
    BY <1>2 DEF IInv, Typed
<1>4. target' \in Inode \union {None} /\ (target' # None => target' <= begun)
    BY <1>1, <1>2 DEF IInv, Typed, ContainersOk
<1>5. /\ Typed' /\ KeyOk'
      /\ \A q \in Process : job'[q] = IF q = p THEN j ELSE job[q]
    BY <1>1, <1>3, <1>4, ImportFrame DEF IInv, Typed
<1>6. Importing' = Importing /\ \A q \in Importing : q # p => job'[q] = job[q] /\ job[q].id # i
    BY <1>2, <1>5 DEF Importing, ImportJob, IInv, ContainersOk, Apart
<1>7. Apart'
    BY <1>5, <1>6 DEF Apart, IInv, ContainersOk
<1>8. \A q \in Process : ImportOk(q)'
    <2> TAKE q \in Process
    <2>1. CASE q \in Importing /\ q # p
        <3>1. job'[q] = job[q] /\ job[q].id # i /\ job[q].id \in 1 .. begun /\ job[q].op \in Import
            BY <1>1, <1>6, <2>1 DEF Importing, ImportOk
        <3>2. job[q].id \in Inode
            BY <1>1, <3>1 DEF Inode
        <3>3. containers'[job[q].id] = containers[job[q].id]
            BY <1>3, <3>1, <3>2
        <3> QED BY <1>1, <3>1, <3>3 DEF ImportOk
    <2>2. CASE q = p
        <3>1. j.at \notin Early
            BY DEF Early, Late
        <3>2. containers'[j.id] = c
            BY <1>2, <1>3
        <3> QED BY <1>2, <1>5, <2>2, <3>1, <3>2 DEF ImportOk
    <2> QED BY <1>6, <2>1, <2>2 DEF ImportOk, Importing
<1>9. \A q \in Process : SignOk(q)'
    <2> TAKE q \in Process
    <2>1. CASE job'[q].op = "sign"
        <3>1. q # p /\ job'[q] = job[q] /\ job[q] \in SignJob /\ SignOk(q) /\ job[q].op = "sign"
            BY <1>1, <1>5, <2>1, JobKinds DEF IInv, ImportJob, Import
        <3>2. /\ job[q].db \in Inode /\ job[q].since \in Nat /\ job[q].since <= version[job[q].db]
              /\ version[job[q].db] \in Nat
            BY <3>1 DEF SignJob, SignOk, IInv, Typed
        <3>3. \A r \in Importing' : job'[r].at \in Early => job[q].db # job'[r].id
            <4> TAKE r \in Importing'
            <4>1. CASE r = p
                BY <1>5, <4>1 DEF Early, Late
            <4>2. CASE r # p
                BY <1>6, <3>1, <4>2 DEF SignOk
            <4> QED BY <4>1, <4>2
        <3>4. CASE job[q].db = i
            <4>1. v > version[i]
                BY <1>2, <3>1, <3>4 DEF SignOk
            <4>2. job[q].since < v /\ version'[job[q].db] = v
                BY <1>2, <1>3, <3>2, <3>4, <4>1
            <4> QED BY <1>5, <2>1, <3>1, <3>2, <3>3, <4>2 DEF SignOk
        <3>5. CASE job[q].db # i
            <4>1. /\ containers'[job[q].db] = containers[job[q].db]
                  /\ version'[job[q].db] = version[job[q].db]
                BY <1>3, <3>2, <3>5
            <4> QED BY <2>1, <3>1, <3>3, <4>1 DEF SignOk
        <3> QED BY <3>4, <3>5
    <2> QED BY <2>1 DEF SignOk
<1>10. LinksAreThere'
    BY <1>3 DEF IInv, ContainersOk, LinksAreThere
<1>11. \A k \in Inode : SignatureOk(k)'
    <2> TAKE k \in Inode
    <2>1. SignatureOk(k)
        BY DEF IInv, ContainersOk
    <2>2. CASE k = i
        <3>1. containers'[k] = c /\ version'[k] = v
            BY <1>3, <2>2
        <3> QED BY <3>1 DEF SignatureOk
    <2>3. CASE k # i
        <3>1. containers'[k] = containers[k] /\ version'[k] = version[k]
            BY <1>3, <2>3
        <3> QED BY <2>1, <3>1 DEF SignatureOk
    <2> QED BY <2>2, <2>3
<1>12. ContainersOk'
    BY <1>4, <1>7, <1>8, <1>9, <1>10, <1>11 DEF ContainersOk
<1> QED BY <1>5, <1>12 DEF IInv

\* A commit of an import to its container.
LEMMA AmendKeeps ==
    ASSUME IInv, NEW p \in Process, job[p].op \in Import, job[p].at \in Late,
           NEW c \in ContainerType, c.signatures = Open(p).signatures, c.links \subseteq c.tiles,
           NEW j \in ImportJob, j.at \in Late, j.id = job[p].id, j.db = job[p].db,
           j.unlinked \subseteq c.tiles, Amend(p, c, j)
    PROVE  IInv'
<1>1. ImportOk(p) /\ begun \in Nat /\ begun <= MaxCommands /\ MaxCommands \in Nat
    BY BoundAssumption DEF IInv, Typed, ContainersOk
<1>2. /\ j.db = j.id /\ j.id \in Inode /\ Open(p) = containers[j.id] /\ version[j.id] \in Nat
      /\ SignatureOk(j.id)
    BY <1>1 DEF ImportOk, Inode, Open, IInv, Typed, ContainersOk
<1> DEFINE v == version[j.id] + 1
<1>3. v \in Nat /\ v > version[j.id]
    BY <1>2
<1>4. /\ containers' = [containers EXCEPT ![j.id] = c] /\ version' = [version EXCEPT ![j.id] = v]
      /\ Become(p, j) /\ UNCHANGED <<target, kept, files, kills, spoiled, begun, overlapped>>
    BY <1>2 DEF Amend, Commit, Stay, Unchanged
<1>5. \A s \in c.signatures : s \in Signature /\ (s.at # None => s.at <= version[j.id])
    BY <1>2 DEF SignatureOk, ContainerType
<1>6. \A s \in c.signatures : s.at \in Nat \union {None}
    BY <1>5 DEF Signature
<1>7. \A s \in c.signatures : /\ s.at # None => s.at <= v
                              /\ s.at = v => s.manifest = Manifest(c)
    BY <1>2, <1>5, <1>6, NoneAssumption
<1>8. kept' \subseteq Tile
    BY <1>4 DEF IInv, Typed
<1> HIDE DEF v
<1> QED BY <1>2, <1>3, <1>4, <1>7, <1>8, LateKeeps

\* The inode of the new import is one that nothing was made with.
LEMMA StartImportKeeps ==
    ASSUME IInv, NEW p \in Process, StartConvert(p) \/ StartVector(p) \/ StartMeteo(p)
    PROVE  IInv'
<1>1. PICK op \in Import, at \in Early, tiles \in SUBSET Tile : BeginImport(p, op, at, tiles)
    <2>1. CASE StartConvert(p)
        BY <2>1 DEF StartConvert, Tile, Import, Early
    <2>2. CASE StartVector(p)
        BY <2>2 DEF StartVector, Tile, Import, Early
    <2>3. CASE StartMeteo(p)
        BY <2>3 DEF StartMeteo, Tile, Import, Early
    <2> QED BY <2>1, <2>2, <2>3
<1> DEFINE j == Importer(op, at, tiles)
<1>2. begun \in Nat /\ begun <= MaxCommands /\ MaxCommands \in Nat
    BY BoundAssumption DEF IInv, Typed
<1>3. /\ j \in ImportJob /\ j.at = at /\ j.db = None /\ j.unlinked = {} /\ j.id = begun + 1
    BY <1>2 DEF Importer, ImportJob
<1> HIDE DEF j
<1>4. /\ job[p] = Idle /\ begun' = begun + 1 /\ begun < MaxCommands /\ Become(p, j)
      /\ overlapped' = (overlapped \/ Importing # {})
      /\ UNCHANGED <<target, containers, version, files, kills, kept, spoiled>>
    BY <1>1 DEF BeginImport, MayBegin, j
<1>5. begun' \in 0 .. MaxCommands /\ begun' >= begun
    BY <1>2, <1>4
<1>6. overlapped' \in BOOLEAN
    BY <1>4
<1> QED BY <1>3, <1>4, <1>5, <1>6, EarlyKeeps DEF IInv, Typed

\* A step without a container, or one that ends.
LEMMA EarlyStep ==
    ASSUME IInv, NEW p \in Process, job[p].op \in Import, NEW j \in {Idle} \union ImportJob,
           Become(p, j), Unchanged, UNCHANGED <<containers, version>>, kept' \subseteq Tile,
           \/ target' \in {target, None}
           \/ job[p].at \in Late /\ target' = job[p].id,
           \/ j = Idle
           \/ /\ job[p].at \in Early /\ j.at \in Early
              /\ j.id = job[p].id /\ j.db = job[p].db /\ j.unlinked = job[p].unlinked
    PROVE  IInv'
<1>1. /\ ImportOk(p) /\ begun' \in 0 .. MaxCommands /\ begun' >= begun /\ overlapped' \in BOOLEAN
      /\ UNCHANGED <<files, kills, spoiled>>
    BY BoundAssumption DEF IInv, Typed, ContainersOk, Unchanged
<1>2. \/ j = Idle
      \/ /\ j.at \in Early /\ j.db = None /\ j.unlinked = {}
         /\ job[p].op \in Import /\ job[p].at \in Early /\ j.id = job[p].id
    BY <1>1 DEF ImportOk
<1> QED BY <1>1, <1>2, EarlyKeeps

\* The feature importers before they make a container.
LEMMA ParseKeeps == ASSUME IInv, NEW p \in Process, Unlink(p) \/ Parse(p) PROVE IInv'
<1>1. job[p].op = "vector" /\ job[p].op \in Import /\ job[p].at \in {"unlink", "parse"}
    BY DEF Unlink, Parse, At, Import
<1>2. job[p] \in ImportJob /\ job[p].at \in Early
    BY <1>1, JobKinds DEF IInv, Early
<1>3. /\ Unchanged /\ UNCHANGED <<containers, version>>
      /\ target' \in {target, None} /\ kept' \in {kept, {}}
    BY DEF Unlink, Parse, Forget, Stay
<1>4. PICK j \in {Idle} \union ImportJob :
          /\ Become(p, j)
          /\ \/ j = Idle
             \/ /\ j.at \in Early /\ j.id = job[p].id /\ j.db = job[p].db
                /\ j.unlinked = job[p].unlinked
    <2>1. \A at \in {"parse", "create"} : LET j == [job[p] EXCEPT !.at = at] IN
              /\ j \in ImportJob /\ j.at \in Early /\ j.id = job[p].id /\ j.db = job[p].db
              /\ j.unlinked = job[p].unlinked
        BY <1>2 DEF ImportJob, Early
    <2> QED BY <2>1 DEF Unlink, Parse, Finish
<1>5. kept' \subseteq Tile
    BY <1>3 DEF IInv, Typed
<1> QED BY <1>1, <1>2, <1>3, <1>4, <1>5, EarlyStep

\* An import gets its container.
LEMMA BeginWork ==
    ASSUME IInv, NEW p \in Process, job[p].op \in Import, job[p].at \in Early,
           Become(p, [job[p] EXCEPT !.at = "put", !.db = job[p].id]), Unchanged,
           NEW c \in ContainerType, containers' = [containers EXCEPT ![job[p].id] = c],
           NEW v \in Nat, version' = [version EXCEPT ![job[p].id] = v],
           c.links \subseteq c.tiles,
           \A s \in c.signatures : /\ s.at # None => s.at <= v
                                   /\ s.at = v => s.manifest = Manifest(c),
           target' = target \/ target' = job[p].id, kept' \subseteq Tile
    PROVE  IInv'
<1> DEFINE old == job[p]
           j == [old EXCEPT !.at = "put", !.db = old.id]
<1>1. old \in ImportJob /\ ImportOk(p) /\ begun \in Nat /\ MaxCommands \in Nat /\ begun <= MaxCommands
    BY JobKinds, BoundAssumption DEF IInv, ContainersOk, Typed
<1>2. old.id \in Inode /\ old.unlinked = {}
    BY <1>1 DEF ImportOk, Inode
<1>3. /\ j \in ImportJob /\ j.at \in Late /\ j.id = old.id /\ j.db = j.id /\ j.unlinked = {}
    BY <1>1, <1>2 DEF ImportJob, Late
<1>4. Become(p, j)
    OBVIOUS
<1> HIDE DEF j
<1>5. /\ containers' = [containers EXCEPT ![j.id] = c] /\ version' = [version EXCEPT ![j.id] = v]
      /\ target' = target \/ target' = j.id
    BY <1>3
<1>6. UNCHANGED <<files, kills, spoiled, begun, overlapped>>
    BY DEF Unchanged
<1>7. j.unlinked \subseteq c.tiles /\ j.id = job[p].id
    BY <1>3
<1> HIDE DEF old
<1> QED BY <1>3, <1>4, <1>5, <1>6, <1>7, LateKeeps

\* A container is made, or refused.
LEMMA CreateKeeps == ASSUME IInv, NEW p \in Process, Create(p) PROVE IInv'
<1> DEFINE old == job[p]
<1>1. old \in ImportJob /\ old.op \in Import /\ old.at \in Early /\ ImportOk(p) /\ Unchanged
    BY JobKinds DEF Create, At, Import, Early, IInv, ContainersOk
<1>2. kept' \subseteq Tile
    BY DEF Create, Forget, Stay, IInv, Typed
<1>3. CASE target # None
    <2>1. /\ Become(p, Idle) /\ UNCHANGED <<containers, version>>
          /\ target' \in {target, None}
        BY <1>3 DEF Create, Finish, Forget, Stay
    <2> QED BY <1>1, <1>2, <2>1, EarlyStep
<1>4. CASE target = None
    <2>1. /\ target' = old.id /\ Become(p, [old EXCEPT !.at = "put", !.db = old.id])
          /\ containers' = [containers EXCEPT ![old.id] = Empty]
          /\ version' = [version EXCEPT ![old.id] = version[old.id] + 1]
        BY <1>4 DEF Create, Commit
    <2>2. old.id \in Inode
        BY <1>1, BoundAssumption DEF ImportOk, IInv, Typed, Inode
    <2>3. PICK v \in Nat : version' = [version EXCEPT ![old.id] = v]
        <3>1. version[old.id] + 1 \in Nat
            BY <2>2 DEF IInv, Typed
        <3> QED BY <2>1, <3>1
    <2>4. PICK c \in ContainerType :
              /\ containers' = [containers EXCEPT ![old.id] = c]
              /\ c.links \subseteq c.tiles /\ c.signatures = {}
        BY <2>1, EmptyIsTyped
    <2> HIDE DEF old
    <2> QED BY <1>1, <1>2, <2>1, <2>3, <2>4, BeginWork DEF old
<1> QED BY <1>3, <1>4

\* The staging file has what the target had, its signatures among it.
LEMMA StageKeeps == ASSUME IInv, NEW p \in Process, Stage(p) PROVE IInv'
<1> DEFINE old == job[p]
           c == IF target = None THEN Empty ELSE containers[target]
           v == IF target = None THEN 0 ELSE version[target]
<1>1. /\ old.op \in Import /\ old.at \in Early /\ Unchanged /\ UNCHANGED <<target, kept>>
    BY DEF Stage, At, Import, Early, Stay
<1>2. /\ containers' = [containers EXCEPT ![old.id] = c]
      /\ version' = [version EXCEPT ![old.id] = v]
      /\ Become(p, [old EXCEPT !.at = "put", !.db = old.id])
    BY DEF Stage
<1>3. /\ c \in ContainerType /\ v \in Nat /\ c.links \subseteq c.tiles
      /\ \A s \in c.signatures : /\ s.at # None => s.at <= v
                                 /\ s.at = v => s.manifest = Manifest(c)
    <2>1. CASE target = None
        BY <2>1, EmptyIsTyped
    <2>2. CASE target # None
        BY <2>2 DEF IInv, Typed, ContainersOk, LinksAreThere, SignatureOk
    <2> QED BY <2>1, <2>2
<1>4. kept' \subseteq Tile
    BY <1>1 DEF IInv, Typed
<1> HIDE DEF c, v
<1> QED BY <1>1, <1>2, <1>3, <1>4, BeginWork

\* What an import that has a container finds there.
LEMMA OwnContainer ==
    ASSUME IInv, NEW p \in Process, job[p].op \in Import, job[p].at \in Late
    PROVE  /\ job[p] \in ImportJob /\ job[p].db = job[p].id /\ job[p].db \in Inode
           /\ Open(p) \in ContainerType /\ Open(p).links \subseteq Open(p).tiles
           /\ job[p].unlinked \subseteq Open(p).tiles
           /\ job[p].todo \subseteq Tile /\ job[p].plan \subseteq Tile
<1>1. /\ job[p] \in ImportJob /\ ImportOk(p) /\ begun \in Nat /\ MaxCommands \in Nat
      /\ begun <= MaxCommands
    BY JobKinds, BoundAssumption DEF IInv, Typed, ContainersOk
<1>2. job[p].db = job[p].id /\ job[p].db \in Inode
    BY <1>1 DEF ImportOk, Inode
<1>3. job[p].todo \subseteq Tile /\ job[p].plan \subseteq Tile
    BY <1>1 DEF ImportJob
<1> QED BY <1>1, <1>2, <1>3 DEF ImportOk, Open, IInv, Typed, ContainersOk, LinksAreThere

\* A tile is put, and is then one to be linked.
LEMMA PutTileKeeps == ASSUME IInv, NEW p \in Process, PutTile(p) PROVE IInv'
<1> DEFINE old == job[p]
           c == Open(p)
<1>1. old.op \in Import /\ old.at = "put" /\ old.at \in Late
    BY DEF PutTile, Working, Late
<1>2. PICK t \in old.todo :
          Amend(p, [c EXCEPT !.tiles = @ \union {t}],
                [old EXCEPT !.todo = @ \ {t}, !.unlinked = @ \union {t},
                            !.at = IF old.op = "vector" THEN "put" ELSE "link"])
    BY DEF PutTile
<1> DEFINE c2 == [c EXCEPT !.tiles = @ \union {t}]
           at == IF old.op = "vector" THEN "put" ELSE "link"
           j == [old EXCEPT !.todo = @ \ {t}, !.unlinked = @ \union {t}, !.at = at]
<1>3. /\ old \in ImportJob /\ c \in ContainerType /\ c.links \subseteq c.tiles /\ t \in Tile
      /\ old.unlinked \subseteq c.tiles
    BY <1>1, OwnContainer
<1>4. at \in Late /\ at \in Early \union Late
    BY DEF Late
<1> HIDE DEF at, c
<1>5. /\ c2 \in ContainerType /\ c2.signatures = c.signatures /\ c2.links = c.links
      /\ c2.tiles = c.tiles \union {t}
    BY <1>3 DEF ContainerType
<1>6. /\ j \in ImportJob /\ j.at = at /\ j.id = old.id /\ j.db = old.db
      /\ j.unlinked = old.unlinked \union {t}
    BY <1>3, <1>4 DEF ImportJob
<1>7. Amend(p, c2, j)
    BY <1>2 DEF at
<1> HIDE DEF c2, j, old
<1> QED BY <1>1, <1>3, <1>4, <1>5, <1>6, <1>7, AmendKeeps DEF c, old

\* Only tiles that are there are linked.
LEMMA LinkTileKeeps == ASSUME IInv, NEW p \in Process, LinkTile(p) PROVE IInv'
<1> DEFINE old == job[p]
           c == Open(p)
<1>1. old.op \in Import /\ old.at = "link" /\ old.at \in Late
    BY DEF LinkTile, Working, Late
<1>2. PICK t \in old.unlinked :
          Amend(p, [c EXCEPT !.links = @ \union {t}],
                [old EXCEPT !.unlinked = @ \ {t}, !.at = IF old.op = "vector" THEN "link" ELSE "put"])
    BY DEF LinkTile
<1> DEFINE c2 == [c EXCEPT !.links = @ \union {t}]
           at == IF old.op = "vector" THEN "link" ELSE "put"
           j == [old EXCEPT !.unlinked = @ \ {t}, !.at = at]
<1>3. /\ old \in ImportJob /\ c \in ContainerType /\ c.links \subseteq c.tiles /\ t \in c.tiles
      /\ old.unlinked \subseteq c.tiles
    BY <1>1, OwnContainer
<1>4. at \in Late /\ at \in Early \union Late
    BY DEF Late
<1> HIDE DEF at, c
<1>5. /\ c2 \in ContainerType /\ c2.signatures = c.signatures /\ c2.links \subseteq c2.tiles
      /\ c2.tiles = c.tiles
    BY <1>3 DEF ContainerType
<1>6. /\ j \in ImportJob /\ j.at = at /\ j.id = old.id /\ j.db = old.db
      /\ j.unlinked = old.unlinked \ {t}
    BY <1>3, <1>4 DEF ImportJob
<1>7. Amend(p, c2, j)
    BY <1>2 DEF at
<1> HIDE DEF c2, j, old
<1> QED BY <1>1, <1>3, <1>4, <1>5, <1>6, <1>7, AmendKeeps DEF c, old

\* A commit to other tables than those of tiles and links.
LEMMA DescribeKeeps ==
    ASSUME IInv, NEW p \in Process, job[p].op \in Import, job[p].at \in Late,
           NEW selected \in Input \union {None}, NEW metadata \in Metadata,
           NEW at \in Late,
           Amend(p, [Open(p) EXCEPT !.selected = selected, !.metadata = metadata],
                 [job[p] EXCEPT !.at = at])
    PROVE  IInv'
<1> DEFINE old == job[p]
           c == Open(p)
           c2 == [c EXCEPT !.selected = selected, !.metadata = metadata]
           j == [old EXCEPT !.at = at]
<1>1. /\ old \in ImportJob /\ c \in ContainerType /\ c.links \subseteq c.tiles
      /\ old.unlinked \subseteq c.tiles
    BY OwnContainer
<1> HIDE DEF c
<1>2. /\ c2 \in ContainerType /\ c2.signatures = c.signatures /\ c2.links = c.links
      /\ c2.tiles = c.tiles
    BY <1>1 DEF ContainerType
<1>3. /\ j \in ImportJob /\ j.at = at /\ j.id = old.id /\ j.db = old.db
      /\ j.unlinked = old.unlinked
    BY <1>1 DEF ImportJob
<1>4. Amend(p, c2, j)
    BY DEF c
<1> HIDE DEF c2, j, old
<1> QED BY <1>1, <1>2, <1>3, <1>4, AmendKeeps DEF c, old

\* The selection is of an input.
LEMMA SelectKeeps == ASSUME IInv, NEW p \in Process, Select(p) PROVE IInv'
<1> DEFINE c == Open(p)
           at == IF job[p].op = "vector" THEN "done" ELSE "describe"
<1>1. job[p].op \in Import /\ job[p].at \in Late
    BY DEF Select, Working, Late
<1>2. c \in ContainerType /\ job[p].plan \subseteq Tile
    BY <1>1, OwnContainer
<1>3. PICK t \in job[p].plan :
          Amend(p, [c EXCEPT !.selected = IF job[p].op = "meteo" /\ @ # None THEN @ ELSE t[1]],
                [job[p] EXCEPT !.at = at])
    BY DEF Select
<1> DEFINE selected == IF job[p].op = "meteo" /\ c.selected # None THEN c.selected ELSE t[1]
<1> HIDE DEF c
<1>4. selected \in Input \union {None} /\ c.metadata \in Metadata
    BY <1>2 DEF ContainerType, Tile
<1>5. [c EXCEPT !.selected = IF job[p].op = "meteo" /\ @ # None THEN @ ELSE t[1]]
          = [c EXCEPT !.selected = selected, !.metadata = c.metadata]
    BY <1>2 DEF ContainerType
<1>6. at \in Late
    BY DEF Late
<1> HIDE DEF selected, at
<1>7. Amend(p, [c EXCEPT !.selected = selected, !.metadata = c.metadata], [job[p] EXCEPT !.at = at])
    BY <1>3, <1>5
<1>8. Amend(p, [Open(p) EXCEPT !.selected = selected, !.metadata = c.metadata],
            [job[p] EXCEPT !.at = at])
    BY <1>7 DEF c
<1> QED BY <1>1, <1>4, <1>6, <1>8, DescribeKeeps

\* Frames and zoom levels are those of tiles.
LEMMA DescriptionKeeps == ASSUME IInv, NEW p \in Process, Describe(p) PROVE IInv'
<1> DEFINE c == Open(p)
           metadata == Described(job[p], c.metadata)
           at == IF job[p].op = "vector" THEN "link" ELSE "done"
<1>1. job[p].op \in Import /\ job[p].at \in Late
    BY DEF Describe, Working, Late
<1>2. c \in ContainerType /\ job[p].plan \subseteq Tile
    BY <1>1, OwnContainer
<1>3. Amend(p, [c EXCEPT !.metadata = Described(job[p], @)], [job[p] EXCEPT !.at = at])
    BY DEF Describe
<1> HIDE DEF c
<1>4. c.selected \in Input \union {None} /\ metadata \in Metadata
    <2>1. ZoomsOf(job[p].plan) \subseteq Zoom /\ {t[1] : t \in job[p].plan} \subseteq Input
        BY <1>2 DEF ZoomsOf, Tile
    <2>2. /\ c.selected \in Input \union {None}
          /\ c.metadata.frames \subseteq Input /\ c.metadata.zooms \subseteq Zoom
        BY <1>2 DEF ContainerType, Metadata
    <2> QED BY <2>1, <2>2 DEF Described, Metadata
<1>5. [c EXCEPT !.metadata = Described(job[p], @)]
          = [c EXCEPT !.selected = c.selected, !.metadata = metadata]
    BY <1>2 DEF ContainerType
<1>6. at \in Late
    BY DEF Late
<1> HIDE DEF metadata, at
<1>7. Amend(p, [Open(p) EXCEPT !.selected = c.selected, !.metadata = metadata],
            [job[p] EXCEPT !.at = at])
    BY <1>3, <1>5 DEF c
<1> QED BY <1>1, <1>4, <1>6, <1>7, DescribeKeeps

\* The target becomes the import's own inode, is removed, or stays.
LEMMA EndKeeps == ASSUME IInv, NEW p \in Process, Deliver(p) \/ FailImport(p) PROVE IInv'
<1>1. job[p].op \in Import
    BY DEF Deliver, FailImport, Working
<1>2. job[p] \in ImportJob /\ ImportOk(p)
    BY <1>1, JobKinds DEF IInv, ContainersOk
<1>3. Become(p, Idle) /\ Unchanged /\ UNCHANGED <<containers, version>>
    BY DEF Deliver, FailImport, Finish
<1>4. kept' \subseteq Tile
    BY <1>2 DEF Deliver, FailImport, Forget, ImportJob, IInv, Typed
<1>5. \/ target' \in {target, None}
      \/ job[p].at \in Late /\ target' = job[p].id
    BY <1>1, <1>2 DEF Deliver, FailImport, Forget, Working, ImportOk, Late
<1> QED BY <1>1, <1>3, <1>4, <1>5, EarlyStep

\* Every step of an importer.
LEMMA ImportKeeps == ASSUME IInv, NEW p \in Process, ImportStep(p) PROVE IInv'
BY StartImportKeeps, ParseKeeps, CreateKeeps, StageKeeps, PutTileKeeps, LinkTileKeeps, SelectKeeps,
   DescriptionKeeps, EndKeeps DEF ImportStep
-----------------------------------------------------------------------------
\* Every step of a signer.
LEMMA SigningKeeps == ASSUME IInv, NEW p \in Process, SignStep(p) PROVE IInv'
BY StartSignKeeps, ReadTableKeeps, FindManifestKeeps, SignKeeps DEF SignStep

\* Every step of protect, issue-license and decrypt.
LEMMA ProtectionKeeps == ASSUME IInv, NEW p \in Process, ProtectionStep(p) PROVE IInv'
BY OtherStep, StartProtectKeeps, ProtectKeeps DEF ProtectionStep

\* Whatever the process was at, it leaves what it committed; a protection cut short spoils
\* what KeyOk is about.
LEMMA KillKeeps == ASSUME IInv, NEW p \in Process, Kill(p) PROVE IInv'
<1>1. /\ Become(p, Idle) /\ UNCHANGED <<target, containers, version, files, begun, kept, overlapped>>
      /\ kills < MaxKills /\ kills' = kills + 1 /\ kills \in Nat /\ MaxKills \in Nat
      /\ spoiled' = (spoiled \/ job[p].op = "protect")
    BY BoundAssumption DEF Kill, Finish, IInv, Typed
<1>2. /\ DOMAIN job' = Process /\ Jobs'
      /\ \A q \in Process : job'[q] = IF q = p THEN Idle ELSE job[q]
    BY <1>1, BecomeTyped DEF IInv
<1>3. Typed'
    <2>1. kills' \in 0 .. MaxKills
        BY <1>1
    <2>2. spoiled' \in BOOLEAN
        BY <1>1 DEF IInv, Typed
    <2> QED BY <1>1, <1>2, <2>1, <2>2 DEF IInv, Typed
<1>4. job'[p].op = "idle" /\ Importing' = Importing \ {p}
    BY <1>2 DEF Importing, Idle, Import
<1>5. \A q \in Importing' : job'[q] = job[q] /\ q \in Importing
    BY <1>2, <1>4 DEF Importing
<1>6. \A q \in Process : ImportOk(q)'
    BY <1>1, <1>2 DEF IInv, ContainersOk, ImportOk, Idle, Import
<1>7. \A q \in Process : SignOk(q)'
    BY <1>1, <1>2, <1>5 DEF IInv, ContainersOk, SignOk, Idle
<1>8. Apart'
    BY <1>5 DEF IInv, ContainersOk, Apart
<1>9. ContainersOk'
    BY <1>1, <1>6, <1>7, <1>8 DEF IInv, ContainersOk, LinksAreThere, SignatureOk
<1>10. KeyOk'
    <2>1. CASE job[p].op = "protect"
        <3>1. spoiled'
            BY <1>1, <2>1
        <3> QED BY <3>1 DEF KeyOk
    <2>2. CASE job[p].op # "protect"
        <3>1. spoiled' = spoiled
            BY <1>1, <2>2 DEF IInv, Typed
        <3> QED BY <1>1, <1>2, <1>4, <2>2, <3>1, KeyFrame DEF IInv
    <2> QED BY <2>1, <2>2
<1> QED BY <1>3, <1>9, <1>10 DEF IInv

\* Every step.
LEMMA NextKeeps == ASSUME IInv, [Next]_vars PROVE IInv'
<1>1. CASE Next
    BY <1>1, ImportKeeps, SigningKeeps, ExportKeeps, ProtectionKeeps, KillKeeps DEF Next
<1>2. CASE UNCHANGED vars
    <2>1. UNCHANGED <<target, containers, version, files, job, begun, kills, kept, overlapped, spoiled>>
        BY <1>2 DEF vars, history
    <2>2. Typed'
        BY <2>1 DEF IInv, Typed, Jobs
    <2>3. Importing' = Importing /\ Protecting' = Protecting
        BY <2>1 DEF Importing, Protecting
    <2>4. ContainersOk'
        BY <2>1, <2>3 DEF IInv, ContainersOk, LinksAreThere, Apart, ImportOk, SignOk, SignatureOk
    <2>5. KeyOk'
        BY <2>1, <2>3 DEF IInv, KeyOk, ProtectionOk, PackageIs, KeyFits
    <2> QED BY <2>2, <2>4, <2>5 DEF IInv
<1> QED BY <1>1, <1>2
-----------------------------------------------------------------------------
(***************************************************************************)
(* The theorems.                                                           *)
(***************************************************************************)

\* IInv is inductive: every tool keeps it, and so does a kill.
THEOREM Invariance == Spec => []IInv
<1>1. Init => IInv
    BY InitIInv
<1>2. IInv /\ [Next]_vars => IInv'
    BY NextKeeps
<1> QED BY <1>1, <1>2, PTL DEF Spec

\* What the variables hold: only tiles that are there are linked, and no two imports at
\* work make one container (Importers, Signing).
THEOREM TypeCorrect == Spec => []TypeOK
<1>1. IInv => TypeOK
    <2> SUFFICES ASSUME IInv PROVE TypeOK
        OBVIOUS
    <2>1. ASSUME NEW i \in Inode
          PROVE  LET c == containers[i] IN
                 /\ c.tiles \subseteq Tile /\ c.links \subseteq c.tiles
                 /\ c.selected \in Input \union {None}
                 /\ c.metadata.frames \subseteq Input /\ c.metadata.zooms \subseteq Zoom
                 /\ \A s \in c.signatures : s.key \in Key /\ DOMAIN s.manifest = Table
                 /\ version[i] \in Nat
        <3>1. containers[i] \in ContainerType /\ version[i] \in Nat
            BY DEF IInv, Typed
        <3>2. containers[i].links \subseteq containers[i].tiles
            BY DEF IInv, ContainersOk, LinksAreThere
        <3>3. containers[i].metadata \in Metadata /\ containers[i].signatures \subseteq Signature
            BY <3>1 DEF ContainerType
        <3> QED BY <3>1, <3>2, <3>3 DEF ContainerType, Metadata, Signature
    <2> QED BY <2>1 DEF IInv, Typed, ContainersOk, Apart, TypeOK
<1> QED BY <1>1, Invariance, PTL

\* The manifest a signature was made of without a commit in between is that of the
\* container until a commit changes what manifests are about: store_envelope, other
\* signers and the copy an importer of forecasts makes leave it (Signing).
THEOREM SignaturesHold == Spec => []SignaturesSurviveSigning
<1>1. IInv => SignaturesSurviveSigning
    BY DEF IInv, ContainersOk, SignatureOk, SignaturesSurviveSigning, Verifies
<1> QED BY <1>1, Invariance, PTL

\* protect_file, repeated for one product but not overlapping or killed, leaves a package
\* that its key file opens (Protection).
THEOREM PackagesOpen == Spec => []KeyOpensPackage
<1>1. IInv => KeyOpensPackage
    BY DEF IInv, KeyOk, KeyFits, KeyOpensPackage
<1> QED BY <1>1, Invariance, PTL

\* export_mbtiles never changes an export that is there, whoever else was at making it,
\* and no other tool writes to its name (Exporting).
THEOREM ExportsStay == Spec => ExportsNeverChange
<1>1. ASSUME IInv, [Next]_vars PROVE [files.export # None => files'.export = files.export]_vars
    <2>1. ASSUME NEW p \in Process,
                 ImportStep(p) \/ SignStep(p) \/ Kill(p)
          PROVE  files' = files
        BY <2>1 DEF ImportStep, StartConvert, StartVector, StartMeteo, BeginImport, Unlink, Parse,
           Create, Stage, PutTile, LinkTile, Select, Describe, Deliver, FailImport, Amend,
           Unchanged, SignStep, StartSign, ReadTable, FindManifest, Sign, Proceed, Kill
    <2>2. ASSUME NEW p \in Process, ExportStep(p), files.export # None
          PROVE  files' = files
        BY <2>2 DEF ExportStep, StartExport, ReadZooms, ReadRows, LinkExport
    <2>3. ASSUME NEW p \in Process, ProtectionStep(p)
          PROVE  files'["export"] = files["export"]
        <3>1. \/ files' = files
              \/ \E name \in FileName \ {"export"} : \E value : Write(name, value)
            BY <2>3 DEF ProtectionStep, StartProtect, WriteHeader, WriteBody, WriteKey, StartIssue,
               Issue, StartDecrypt, OpenPackage, Stream, CheckDigest, Start, FileName
        <3>2. ASSUME NEW name \in FileName \ {"export"}, NEW value, Write(name, value)
              PROVE  files'["export"] = files["export"]
            <4>1. Typed /\ name \in FileName /\ "export" \in FileName /\ "export" # name
                BY <1>1, <3>2 DEF IInv, FileName
            <4> QED BY <3>2, <4>1, WriteKeepsNames
        <3> QED BY <3>1, <3>2
    <2> QED BY <1>1, <2>1, <2>2, <2>3 DEF Next, vars
<1> QED BY <1>1, Invariance, PTL DEF Spec, ExportsNeverChange
=============================================================================
