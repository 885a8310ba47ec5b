-------------------------- MODULE StoreCatalogProofs --------------------------
(***************************************************************************)
(* Safety of the store's catalogue, for any number of users, threads,      *)
(* files, rows and requests: its type, and that what is downloaded was     *)
(* accepted and, where it had a price, bought.                             *)
(*                                                                         *)
(* A download is gated by the row that its request read, and rows change   *)
(* under it; what holds is that the user accepted what that row said       *)
(* (GatedWereAccepted), since acceptances are made of rows as they were    *)
(* read, too, and what was once accepted stays so.                         *)
(***************************************************************************)
EXTENDS StoreCatalog, TLAPS, WellFoundedInduction

Table == [Id -> Row \union {None}]

\* The kinds of requests.
ItemRequest ==
    [op : {"accept", "download", "preview", "price", "delete"},
     at : {"read", "gated", "recorded", "locked", "unlinked"},
     user : User, id : Id, row : Row]

RenameRequest == [op : {"rename"}, at : {"read", "renamed"}, id : Id, row : Row, path : Path]

UploadRequest ==
    {r \in [op : {"upload", "replace"}, at : {"saved", "unlink", "moved", "stat", "digest"},
            id : Id \union {0}, row : Row \union {None}, path : Path, file : File,
            stat : 0 .. MaxRequests] :
        r.row # None => r.id \in Id}

ScanRequest ==
    {r \in [op : {"scan"}, at : {"read", "next", "stat", "announce"}, loaded : Table,
            table : Table, todo : SUBSET Path, path : Path \union {None}, id : {0},
            stat : 0 .. MaxRequests, quiet : BOOLEAN, number : Nat] :
        r.at = "stat" => r.path \in Path}

Request == ItemRequest \union RenameRequest \union UploadRequest \union ScanRequest

CatalogTyped == CatalogTypeOK /\ request \in [Worker -> Request \union {Idle}]

\* What a user accepts is remembered.
AcceptancesWereMade ==
    \A a \in acceptances : [user |-> a.user, content |-> a.content] \in accepted

\* A request that passed the gates is of a user who accepted, and bought, what the row
\* it read says.
GatedWereAccepted ==
    \A w \in Worker : Stage(w, "download", "gated") =>
        LET r == request[w] IN
        /\ [user |-> r.user, content |-> r.row.content] \in accepted
        /\ r.row.paid => \E p \in purchases : p.user = r.user /\ p.item = r.id

CatalogIInv ==
    /\ CatalogTyped
    /\ AcceptancesWereMade
    /\ GatedWereAccepted
    /\ DownloadsWereAccepted
    /\ PaidDownloadsAreBuyers
-----------------------------------------------------------------------------
(***************************************************************************)
(* Operators on rows and requests.                                         *)
(***************************************************************************)

\* Where a request stands tells its kind.
LEMMA Stages ==
    ASSUME CatalogTyped, NEW w \in Worker
    PROVE  LET r == request[w] IN
           /\ r # Idle => r \in Request
           /\ \A op \in {"accept", "download", "preview", "price", "delete"} :
                 \A at : Stage(w, op, at) => r \in ItemRequest
           /\ \A at : Stage(w, "rename", at) => r \in RenameRequest
           /\ \A at : Uploading(w, at) => r \in UploadRequest
           /\ \A at : Stage(w, "scan", at) => r \in ScanRequest
BY DEF CatalogTyped, Request, Stage, Uploading, ItemRequest, RenameRequest, UploadRequest,
       ScanRequest

\* An UPDATE leaves a row.
LEMMA FlushIsRow ==
    ASSUME NEW row \in Row, NEW loaded \in Row, NEW new \in Row
    PROVE  Flush(row, loaded, new) \in Row
BY DEF Flush, Row

LEMMA IndexedIsRow ==
    ASSUME NEW row \in Row, NEW stamp \in 0 .. MaxRequests, NEW content \in Content
    PROVE  Indexed(row, stamp, content) \in Row
BY DEF Indexed, Row

\* Indexing a file leaves a table.
LEMMA IndexIntoIsTable ==
    ASSUME NEW table \in Table, NEW id \in Id, NEW loaded \in Row \union {None},
           loaded # None => table[id] \in Row,
           NEW p \in Path, NEW stamp \in 0 .. MaxRequests, NEW content \in Content
    PROVE  IndexInto(table, id, loaded, p, stamp, content) \in Table
<1>1. CASE loaded = None
    <2>1. [path |-> p, stamp |-> stamp, content |-> content, available |-> TRUE,
           paid |-> FALSE] \in Row
        BY DEF Row
    <2> QED BY <1>1, <2>1 DEF IndexInto, Table
<1>2. CASE loaded # None
    <2>1. Flush(table[id], loaded, Indexed(loaded, stamp, content)) \in Row
        BY <1>2, FlushIsRow, IndexedIsRow
    <2>2. IndexInto(table, id, loaded, p, stamp, content) =
             [table EXCEPT ![id] = Flush(table[id], loaded, Indexed(loaded, stamp, content))]
        BY <1>2 DEF IndexInto
    <2> QED BY <2>1, <2>2 DEF Table
<1> QED BY <1>1, <1>2

LEMMA HideIsTable == ASSUME NEW table \in Table PROVE Hide(table) \in Table
<1>1. ASSUME NEW id \in Id, table[id] # None
      PROVE  [table[id] EXCEPT !.available = FALSE] \in Row
    BY <1>1 DEF Table, Row
<1> QED BY <1>1 DEF Hide, Table

\* What is recorded is of a file or of the row.
LEMMA DigestIsFile ==
    ASSUME NEW loaded \in Row \union {None}, NEW stat \in 0 .. MaxRequests, NEW file \in File
    PROVE  Digest(loaded, stat, file) \in File
BY DEF Digest, Row, File

\* Notifications are of users and sequence numbers.
LEMMA NoticesAreTyped ==
    ASSUME NEW id \in Id, NEW content \in Content
    PROVE  Notices(id, content) \subseteq UpdateNotification
BY SequenceAssumption DEF Notices, UpdateNotification

LEMMA AnnounceIsTyped ==
    ASSUME CatalogTyped, NEW notices \in SUBSET UpdateNotification, Announce(notices)
    PROVE  notifications' \subseteq UpdateNotification
BY DEF CatalogTyped, CatalogTypeOK, Announce

\* Stale readings are of rows.
LEMMA StaleAreIds ==
    ASSUME NEW ids \in SUBSET Id, NEW loaded, NEW id \in Id, NEW stat, NEW read
    PROVE  Stale(ids, loaded) \subseteq Id /\ Torn(id, stat, read) \subseteq Id
BY DEF Stale, Torn
-----------------------------------------------------------------------------
(***************************************************************************)
(* Type correctness, a group of actions at a time.                         *)
(***************************************************************************)

\* A request begins.
LEMMA ServedGrows ==
    ASSUME CatalogTyped, served < MaxRequests, served' = served + 1
    PROVE  served' \in 0 .. MaxRequests /\ served' \in Nat
BY BoundAssumption DEF CatalogTyped, CatalogTypeOK

LEMMA BecomeIsTyped ==
    ASSUME CatalogTyped, NEW w \in Worker, NEW r \in Request \union {Idle}, Become(w, r)
    PROVE  request' \in [Worker -> Request \union {Idle}]
BY DEF CatalogTyped, Become

LEMMA RaiseIsTyped == ASSUME CatalogTyped, NEW w \in Worker, Raise(w) PROVE CatalogTyped'
<1>1. request' \in [Worker -> Request \union {Idle}]
    BY BecomeIsTyped DEF Raise, Finish
<1>2. writer' \in Worker \union Cashier \union {None}
    BY DEF Raise, CatalogTyped, CatalogTypeOK
<1> QED BY <1>1, <1>2 DEF Raise, CatalogTyped, CatalogTypeOK, tables, history

LEMMA ReadItemIsTyped ==
    ASSUME CatalogTyped, NEW w \in Worker,
           NEW op \in {"accept", "download", "preview", "price", "delete"}, ReadItem(w, op)
    PROVE  CatalogTyped'
<1>1. PICK id \in Id, u \in User :
        /\ rows[id] # None
        /\ Become(w, [op |-> op, at |-> "read", user |-> u, id |-> id, row |-> rows[id]])
    BY DEF ReadItem
<1>2. [op |-> op, at |-> "read", user |-> u, id |-> id, row |-> rows[id]] \in Request
    BY <1>1 DEF CatalogTyped, CatalogTypeOK, Request, ItemRequest
<1>3. request' \in [Worker -> Request \union {Idle}]
    BY <1>1, <1>2, BecomeIsTyped
<1>4. served' \in 0 .. MaxRequests
    BY ServedGrows DEF ReadItem
<1> QED BY <1>3, <1>4 DEF ReadItem, CatalogTyped, CatalogTypeOK, tables, history

LEMMA ServeIsTyped == ASSUME CatalogTyped, NEW w \in Worker, Serve(w) PROVE CatalogTyped'
<1> DEFINE r == request[w]
<1>1. ASSUME AcceptCurrent(w) PROVE CatalogTyped'
    <2>1. r \in ItemRequest
        BY <1>1, Stages DEF AcceptCurrent
    <2>2. /\ Acceptance(r) \in AgreementAcceptance
          /\ [user |-> r.user, content |-> r.row.content] \in [user : User, content : Content]
        BY <2>1 DEF Acceptance, AgreementAcceptance, ItemRequest, Row, CatalogTyped,
                    CatalogTypeOK
    <2>3. request' \in [Worker -> Request \union {Idle}]
        BY <1>1, BecomeIsTyped DEF AcceptCurrent, Finish
    <2>4. /\ acceptances' \subseteq AgreementAcceptance
          /\ accepted' \subseteq [user : User, content : Content]
        BY <1>1, <2>2 DEF AcceptCurrent, CatalogTyped, CatalogTypeOK
    <2> QED BY <1>1, <2>3, <2>4 DEF AcceptCurrent, CatalogTyped, CatalogTypeOK
<1>2. ASSUME Gate(w) PROVE CatalogTyped'
    <2>1. r \in ItemRequest
        BY <1>2, Stages DEF Gate
    <2>2. [r EXCEPT !.at = "gated"] \in Request
        BY <2>1 DEF Request, ItemRequest
    <2>3. request' \in [Worker -> Request \union {Idle}]
        BY <1>2, <2>2, BecomeIsTyped DEF Gate, Finish
    <2> QED BY <1>2, <2>3 DEF Gate, CatalogTyped, CatalogTypeOK, tables, history
<1>3. ASSUME RecordDownload(w) PROVE CatalogTyped'
    <2>1. r \in ItemRequest
        BY <1>3, Stages DEF RecordDownload
    <2>2. /\ [r EXCEPT !.at = "recorded"] \in Request
          /\ [user |-> r.user, item |-> r.id, content |-> r.row.content, paid |-> r.row.paid]
                \in DownloadRecord
        BY <2>1 DEF Request, ItemRequest, DownloadRecord, Row
    <2>3. request' \in [Worker -> Request \union {Idle}]
        BY <1>3, <2>2, BecomeIsTyped DEF RecordDownload
    <2>4. downloads' \subseteq DownloadRecord
        BY <1>3, <2>2 DEF RecordDownload, CatalogTyped, CatalogTypeOK
    <2> QED BY <1>3, <2>3, <2>4 DEF RecordDownload, CatalogTyped, CatalogTypeOK, history
<1>4. ASSUME SendFile(w) \/ SendTile(w) PROVE CatalogTyped'
    <2> DEFINE file == files[r.row.path]
    <2>1. r \in ItemRequest
        BY <1>4, Stages DEF SendFile, SendTile
    <2>2. r.user \in User /\ file \in File \union {None}
        BY <2>1 DEF ItemRequest, Row, CatalogTyped, CatalogTypeOK
    <2>3. file # None =>
             [user |-> r.user, content |-> file.content] \in [user : User, content : Content]
        BY <2>2 DEF File
    <2>4. sent' = IF file = None THEN sent
                  ELSE sent \union {[user |-> r.user, content |-> file.content]}
        BY <1>4 DEF SendFile, SendTile
    <2> HIDE DEF r, file
    <2>5. sent' \subseteq [user : User, content : Content]
        BY <2>3, <2>4 DEF CatalogTyped, CatalogTypeOK
    <2>6. request' \in [Worker -> Request \union {Idle}]
        BY <1>4, BecomeIsTyped DEF SendFile, SendTile, Finish
    <2> QED BY <1>4, <2>5, <2>6 DEF SendFile, SendTile, CatalogTyped, CatalogTypeOK, tables
<1>5. ASSUME ReadItem(w, "accept") \/ ReadItem(w, "download") \/ ReadItem(w, "preview")
      PROVE  CatalogTyped'
    BY <1>5, ReadItemIsTyped
<1> QED BY <1>1, <1>2, <1>3, <1>4, <1>5 DEF Serve

LEMMA UploadIsTyped == ASSUME CatalogTyped, NEW w \in Worker, Upload(w) PROVE CatalogTyped'
<1> DEFINE r == request[w]
<1>1. ASSUME StartUpload(w) PROVE CatalogTyped'
    <2>1. PICK p \in Path, c \in Content :
             Become(w, [op |-> "upload", at |-> "saved", id |-> 0, row |-> None, path |-> p,
                        file |-> [content |-> c, stamp |-> served + 1], stat |-> 0])
        BY <1>1 DEF StartUpload
    <2>2. served' \in 0 .. MaxRequests /\ served + 1 = served' /\ 0 \in 0 .. MaxRequests
        BY <1>1, ServedGrows, BoundAssumption DEF StartUpload
    <2>3. [op |-> "upload", at |-> "saved", id |-> 0, row |-> None, path |-> p,
           file |-> [content |-> c, stamp |-> served + 1], stat |-> 0] \in UploadRequest
        BY <2>2 DEF UploadRequest, File
    <2>4. request' \in [Worker -> Request \union {Idle}]
        BY <2>1, <2>3, BecomeIsTyped DEF Request
    <2> QED BY <1>1, <2>2, <2>4 DEF StartUpload, CatalogTyped, CatalogTypeOK, tables, history
<1>2. ASSUME StartReplace(w) PROVE CatalogTyped'
    <2>1. PICK id \in Id, p \in Path, c \in Content :
             /\ rows[id] # None
             /\ Become(w, [op |-> "replace", at |-> IF p = rows[id].path THEN "saved" ELSE "unlink",
                      id |-> id, row |-> rows[id], path |-> p,
                      file |-> [content |-> c, stamp |-> served + 1], stat |-> 0])
        BY <1>2 DEF StartReplace
    <2>2. served' \in 0 .. MaxRequests /\ served + 1 = served' /\ 0 \in 0 .. MaxRequests
        BY <1>2, ServedGrows, BoundAssumption DEF StartReplace
    <2>3. rows[id] \in Row
        BY <2>1 DEF CatalogTyped, CatalogTypeOK
    <2>4. [op |-> "replace", at |-> IF p = rows[id].path THEN "saved" ELSE "unlink",
           id |-> id, row |-> rows[id], path |-> p,
           file |-> [content |-> c, stamp |-> served + 1], stat |-> 0] \in UploadRequest
        BY <2>2, <2>3 DEF UploadRequest, File
    <2>5. request' \in [Worker -> Request \union {Idle}]
        BY <2>1, <2>4, BecomeIsTyped DEF Request
    <2> QED BY <1>2, <2>2, <2>5 DEF StartReplace, CatalogTyped, CatalogTypeOK, tables, history
<1>3. ASSUME UnlinkOld(w) PROVE CatalogTyped'
    <2>1. r \in UploadRequest
        BY <1>3, Stages DEF UnlinkOld, Uploading
    <2>2. [r EXCEPT !.at = "saved"] \in Request
        BY <2>1 DEF Request, UploadRequest
    <2>3. request' \in [Worker -> Request \union {Idle}]
        BY <1>3, <2>2, BecomeIsTyped DEF UnlinkOld
    <2>4. files' \in [Path -> File \union {None}]
        BY <1>3 DEF UnlinkOld, CatalogTyped, CatalogTypeOK
    <2> QED BY <1>3, <2>3, <2>4 DEF UnlinkOld, CatalogTyped, CatalogTypeOK, tables, history
<1>4. ASSUME MoveIn(w) PROVE CatalogTyped'
    <2>1. r \in UploadRequest
        BY <1>4, Stages DEF MoveIn
    <2>2. [r EXCEPT !.at = "moved"] \in Request /\ r.file \in File
        BY <2>1 DEF Request, UploadRequest
    <2>3. request' \in [Worker -> Request \union {Idle}]
        BY <1>4, <2>2, BecomeIsTyped DEF MoveIn
    <2>4. files' \in [Path -> File \union {None}]
        BY <1>4, <2>2 DEF MoveIn, CatalogTyped, CatalogTypeOK
    <2> QED BY <1>4, <2>3, <2>4 DEF MoveIn, CatalogTyped, CatalogTypeOK, tables, history
<1>5. ASSUME StatFile(w) PROVE CatalogTyped'
    <2> DEFINE found == IF Renames(r) THEN [id |-> r.id, row |-> r.row] ELSE Found(r)
               after == [r EXCEPT !.at = "stat", !.stat = files[r.path].stamp,
                                  !.id = found.id, !.row = found.row]
    <2>1. r \in UploadRequest
        BY <1>5, Stages DEF StatFile
    <2>2. CASE Raise(w)
        BY <2>2, RaiseIsTyped
    <2>3. CASE ~Raise(w)
        <3>1. /\ files[r.path] # None
              /\ writer' = IF Renames(r) THEN w ELSE writer
              /\ Become(w, after)
              /\ UNCHANGED <<files, tables, served, faults, history>>
            BY <1>5, <2>3 DEF StatFile
        <3>2. /\ found.id \in Id \union {0} /\ found.row \in Row \union {None}
              /\ found.row # None => found.id \in Id
            <4>1. CASE Renames(r)
                BY <2>1, <4>1 DEF UploadRequest
            <4>2. CASE ~Renames(r) /\ RowAt(rows, r.path) = {}
                BY <4>2 DEF Found
            <4>3. CASE ~Renames(r) /\ RowAt(rows, r.path) # {}
                <5>1. PICK id : /\ id \in RowAt(rows, r.path)
                                /\ id = CHOOSE i \in RowAt(rows, r.path) : TRUE
                    BY <4>3
                <5>2. id \in Id /\ rows[id] \in Row \union {None}
                    BY <5>1 DEF RowAt, CatalogTyped, CatalogTypeOK
                <5>3. /\ found.id = id
                      /\ found.row \in {r.row, rows[id]}
                    BY <4>3, <5>1 DEF Found
                <5> QED BY <2>1, <5>2, <5>3 DEF UploadRequest
            <4> QED BY <4>1, <4>2, <4>3
        <3>3. files[r.path].stamp \in 0 .. MaxRequests
            BY <2>1, <3>1 DEF UploadRequest, CatalogTyped, CatalogTypeOK, File
        <3> HIDE DEF found
        <3>4. after \in UploadRequest
            BY <2>1, <3>2, <3>3 DEF UploadRequest
        <3>5. request' \in [Worker -> Request \union {Idle}]
            BY <3>1, <3>4, BecomeIsTyped DEF Request
        <3> QED BY <3>1, <3>5 DEF CatalogTyped, CatalogTypeOK, tables, history
    <2> QED BY <2>2, <2>3
<1>6. ASSUME ReadFile(w) PROVE CatalogTyped'
    <2>1. r \in UploadRequest
        BY <1>6, Stages DEF ReadFile
    <2>2. CASE Raise(w)
        BY <2>2, RaiseIsTyped
    <2>3. CASE ~Raise(w)
        <3> DEFINE read == Digest(r.row, r.stat, files[r.path])
        <3>1. /\ files[r.path] # None
              /\ Become(w, [r EXCEPT !.at = "digest", !.file = read])
              /\ UNCHANGED <<files, tables, writer, served, faults, history>>
            BY <1>6, <2>3 DEF ReadFile
        <3>2. /\ files[r.path] \in File /\ r.row \in Row \union {None}
              /\ r.stat \in 0 .. MaxRequests
            BY <2>1, <3>1 DEF UploadRequest, CatalogTyped, CatalogTypeOK
        <3>3. read \in File
            BY <3>2, DigestIsFile
        <3> HIDE DEF read
        <3>4. [r EXCEPT !.at = "digest", !.file = read] \in UploadRequest
            BY <2>1, <3>3 DEF UploadRequest
        <3>5. request' \in [Worker -> Request \union {Idle}]
            BY <3>1, <3>4, BecomeIsTyped DEF Request
        <3> QED BY <3>1, <3>5 DEF CatalogTyped, CatalogTypeOK, tables, history
    <2> QED BY <2>2, <2>3
<1>7. ASSUME CommitIndex(w) PROVE CatalogTyped'
    <2> DEFINE id == IF r.row = None THEN NewId(rows) ELSE r.id
               moved == IF Renames(r) THEN [rows EXCEPT ![id].path = r.path] ELSE rows
               table == IndexInto(moved, id, r.row, r.path, r.stat, r.file.content)
    <2>1. r \in UploadRequest
        BY <1>7, Stages DEF CommitIndex
    <2>2. CASE Raise(w)
        BY <2>2, RaiseIsTyped
    <2>3. CASE ~Raise(w)
        <3>1. /\ r.row # None => rows[id] # None
              /\ id \in Id /\ rows' = table
              /\ IF r.op = "upload" THEN Announce(Notices(id, table[id].content))
                 ELSE UNCHANGED notifications
              /\ clashed' = clashed \union Stale({id}, [i \in Id |-> r.row])
                                    \union Torn(id, r.stat, r.file)
              /\ writer' = None /\ Finish(w)
              /\ UNCHANGED <<files, acceptances, downloads, purchases, safety, served,
                             faults, accepted, sent>>
            BY <1>7, <2>3 DEF CommitIndex
        <3>2. /\ r.row \in Row \union {None} /\ r.path \in Path /\ r.stat \in 0 .. MaxRequests
              /\ r.file.content \in Content
            BY <2>1 DEF UploadRequest, File
        <3>3. moved \in Table /\ (r.row # None => moved[id] \in Row)
            <4>1. rows \in Table /\ (r.row # None => rows[id] \in Row)
                BY <3>1 DEF CatalogTyped, CatalogTypeOK, Table
            <4>2. CASE ~Renames(r)
                BY <4>1, <4>2
            <4>3. CASE Renames(r)
                <5>1. rows[id] \in Row
                    BY <4>1, <4>3 DEF Renames
                <5>2. [rows[id] EXCEPT !.path = r.path] \in Row
                    BY <3>2, <5>1 DEF Row
                <5>3. moved = [rows EXCEPT ![id] = [rows[id] EXCEPT !.path = r.path]]
                    BY <4>3
                <5> HIDE DEF moved, id
                <5> QED BY <3>1, <4>1, <5>2, <5>3 DEF Table
            <4> QED BY <4>2, <4>3
        <3> HIDE DEF moved, id
        <3>4. table \in Table
            BY <3>1, <3>2, <3>3, IndexIntoIsTable
        <3>5. table[id] \in Row
            <4>1. CASE r.row = None
                <5>1. table[id] = [path |-> r.path, stamp |-> r.stat,
                                   content |-> r.file.content, available |-> TRUE, paid |-> FALSE]
                    BY <3>1, <3>3, <4>1 DEF IndexInto, Table
                <5> QED BY <3>2, <5>1 DEF Row
            <4>2. CASE r.row # None
                <5>1. Flush(moved[id], r.row, Indexed(r.row, r.stat, r.file.content)) \in Row
                    BY <3>2, <3>3, <4>2, FlushIsRow, IndexedIsRow
                <5>2. table[id] = Flush(moved[id], r.row, Indexed(r.row, r.stat, r.file.content))
                    BY <3>1, <3>3, <4>2 DEF IndexInto, Table
                <5> QED BY <5>1, <5>2
            <4> QED BY <4>1, <4>2
        <3> HIDE DEF table
        <3>6. table[id].content \in Content
            BY <3>5 DEF Row
        <3>7. notifications' \subseteq UpdateNotification
            BY <3>1, <3>6, NoticesAreTyped, AnnounceIsTyped DEF CatalogTyped, CatalogTypeOK
        <3>8. clashed' \subseteq Id
            BY <3>1, StaleAreIds DEF CatalogTyped, CatalogTypeOK
        <3>9. request' \in [Worker -> Request \union {Idle}]
            BY <3>1, BecomeIsTyped DEF Finish
        <3> QED BY <3>1, <3>4, <3>7, <3>8, <3>9 DEF CatalogTyped, CatalogTypeOK, Table
    <2> QED BY <2>2, <2>3
<1> QED BY <1>1, <1>2, <1>3, <1>4, <1>5, <1>6, <1>7 DEF Upload

LEMMA AdministerIsTyped ==
    ASSUME CatalogTyped, NEW w \in Worker, Administer(w) PROVE CatalogTyped'
<1> DEFINE r == request[w]
<1>1. ASSUME Raise(w) PROVE CatalogTyped'
    BY <1>1, RaiseIsTyped
<1>2. ASSUME Finish(w) PROVE request' \in [Worker -> Request \union {Idle}]
    BY <1>2, BecomeIsTyped DEF Finish
<1>3. ASSUME StartRename(w) PROVE CatalogTyped'
    <2>1. PICK id \in Id, p \in Path :
             /\ rows[id] # None
             /\ Become(w, [op |-> "rename", at |-> "read", id |-> id, row |-> rows[id],
                           path |-> p])
        BY <1>3 DEF StartRename
    <2>2. [op |-> "rename", at |-> "read", id |-> id, row |-> rows[id], path |-> p] \in Request
        BY <2>1 DEF Request, RenameRequest, CatalogTyped, CatalogTypeOK
    <2>3. request' \in [Worker -> Request \union {Idle}]
        BY <2>1, <2>2, BecomeIsTyped
    <2>4. served' \in 0 .. MaxRequests
        BY <1>3, ServedGrows DEF StartRename
    <2> QED BY <1>3, <2>3, <2>4 DEF StartRename, CatalogTyped, CatalogTypeOK, tables, history
<1>4. ASSUME RenameFile(w), ~Raise(w) PROVE CatalogTyped'
    <2>1. r \in RenameRequest
        BY <1>4, Stages DEF RenameFile
    <2>2. [r EXCEPT !.at = "renamed"] \in Request /\ r.row.path \in Path /\ r.path \in Path
        BY <2>1 DEF Request, RenameRequest, Row
    <2>3. request' \in [Worker -> Request \union {Idle}]
        BY <1>4, <2>2, BecomeIsTyped DEF RenameFile
    <2>4. files' \in [Path -> File \union {None}]
        BY <1>4, <2>2 DEF RenameFile, CatalogTyped, CatalogTypeOK
    <2> QED BY <1>4, <2>3, <2>4 DEF RenameFile, CatalogTyped, CatalogTypeOK, tables, history
<1>5. ASSUME CommitRename(w), ~Raise(w) PROVE CatalogTyped'
    <2>1. r \in RenameRequest
        BY <1>5, Stages DEF CommitRename
    <2>2. r.path \in Path /\ r.id \in Id /\ rows[r.id] \in Row
        BY <1>5, <2>1 DEF RenameRequest, CommitRename, CatalogTyped, CatalogTypeOK
    <2>3. [rows[r.id] EXCEPT !.path = r.path] \in Row
        BY <2>2 DEF Row
    <2>4. rows' = [rows EXCEPT ![r.id] = [rows[r.id] EXCEPT !.path = r.path]]
        BY <1>5 DEF CommitRename
    <2> HIDE DEF r
    <2>5. rows' \in [Id -> Row \union {None}]
        BY <2>2, <2>3, <2>4 DEF CatalogTyped, CatalogTypeOK
    <2>6. clashed' \subseteq Id
        <3>1. {request[w].id} \subseteq Id
            BY <2>2 DEF r
        <3> QED BY <1>5, <3>1, StaleAreIds DEF CommitRename, CatalogTyped, CatalogTypeOK, Stale
    <2> QED BY <1>2, <1>5, <2>5, <2>6 DEF CommitRename, CatalogTyped, CatalogTypeOK
<1>6. ASSUME SetPrice(w), ~Raise(w) PROVE CatalogTyped'
    <2>1. r \in ItemRequest
        BY <1>6, Stages DEF SetPrice
    <2>2. r.id \in Id /\ r.row \in Row /\ rows[r.id] \in Row
        BY <1>6, <2>1 DEF ItemRequest, SetPrice, CatalogTyped, CatalogTypeOK
    <2>3. PICK paid \in BOOLEAN :
             rows' = [rows EXCEPT ![r.id] = Flush(rows[r.id], r.row, [r.row EXCEPT !.paid = paid])]
        BY <1>6 DEF SetPrice
    <2>4. [r.row EXCEPT !.paid = paid] \in Row
        BY <2>2 DEF Row
    <2>5. Flush(rows[r.id], r.row, [r.row EXCEPT !.paid = paid]) \in Row
        BY <2>2, <2>4, FlushIsRow
    <2> HIDE DEF r
    <2>6. rows' \in [Id -> Row \union {None}]
        BY <2>2, <2>3, <2>5 DEF CatalogTyped, CatalogTypeOK
    <2> QED BY <1>2, <1>6, <2>6 DEF SetPrice, CatalogTyped, CatalogTypeOK, history
<1>7. ASSUME StartDelete(w), ~Raise(w) PROVE CatalogTyped'
    <2>1. r \in ItemRequest
        BY <1>7, Stages DEF StartDelete
    <2>2. [r EXCEPT !.at = "locked"] \in Request
        BY <2>1 DEF Request, ItemRequest
    <2>3. request' \in [Worker -> Request \union {Idle}]
        BY <1>7, <2>2, BecomeIsTyped DEF StartDelete
    <2> QED BY <1>7, <2>3 DEF StartDelete, CatalogTyped, CatalogTypeOK, tables, history
<1>8. ASSUME UnlinkFile(w), ~Raise(w) PROVE CatalogTyped'
    <2>1. r \in ItemRequest
        BY <1>8, Stages DEF UnlinkFile
    <2>2. [r EXCEPT !.at = "unlinked"] \in Request
        BY <2>1 DEF Request, ItemRequest
    <2>3. request' \in [Worker -> Request \union {Idle}]
        BY <1>8, <2>2, BecomeIsTyped DEF UnlinkFile
    <2>4. files' \in [Path -> File \union {None}]
        BY <1>8 DEF UnlinkFile, CatalogTyped, CatalogTypeOK
    <2> QED BY <1>8, <2>3, <2>4 DEF UnlinkFile, CatalogTyped, CatalogTypeOK, tables, history
<1>9. ASSUME CommitDelete(w) PROVE CatalogTyped'
    <2>1. rows' \in [Id -> Row \union {None}] /\ acceptances' \subseteq AgreementAcceptance
        BY <1>9 DEF CommitDelete, CatalogTyped, CatalogTypeOK
    <2> QED BY <1>2, <1>9, <2>1 DEF CommitDelete, CatalogTyped, CatalogTypeOK, history
<1>10. ASSUME ReadItem(w, "price") \/ ReadItem(w, "delete") PROVE CatalogTyped'
    BY <1>10, ReadItemIsTyped
<1> QED BY <1>1, <1>3, <1>4, <1>5, <1>6, <1>7, <1>8, <1>9, <1>10 DEF Administer

LEMMA ScanIsTyped == ASSUME CatalogTyped, NEW w \in Worker, Scan(w) PROVE CatalogTyped'
<1> DEFINE r == request[w]
<1>0. rows \in Table
    BY DEF CatalogTyped, CatalogTypeOK, Table
<1>1. ASSUME StartScan(w) PROVE CatalogTyped'
    <2> DEFINE new == [op |-> "scan", at |-> "read", loaded |-> rows, table |-> rows,
                  todo |-> {p \in Path : files[p] # None}, path |-> None, id |-> 0, stat |-> 0,
                  quiet |-> (\A v \in Worker \ {w} : request[v] = Idle), number |-> served + 1]
    <2>1. Become(w, new) /\ served' = served + 1
        BY <1>1 DEF StartScan
    <2>2. served' \in 0 .. MaxRequests /\ served + 1 \in Nat /\ 0 \in 0 .. MaxRequests
        BY <1>1, ServedGrows, BoundAssumption DEF StartScan
    <2>3. new \in ScanRequest
        BY <1>0, <2>2 DEF ScanRequest
    <2> HIDE DEF new
    <2>4. request' \in [Worker -> Request \union {Idle}]
        BY <2>1, <2>3, BecomeIsTyped DEF Request
    <2> QED BY <1>1, <2>2, <2>4 DEF StartScan, CatalogTyped, CatalogTypeOK, tables, history
<1>2. ASSUME HideRows(w) PROVE CatalogTyped'
    <2> DEFINE hidden == {id \in Id : r.loaded[id] # None /\ r.loaded[id].available}
               table == [id \in Id |-> IF id \in hidden THEN Hide(rows)[id] ELSE rows[id]]
               after == [r EXCEPT !.at = "next", !.loaded = Hide(@), !.table = table]
    <2>1. r \in ScanRequest
        BY <1>2, Stages DEF HideRows
    <2>2. CASE Raise(w)
        BY <2>2, RaiseIsTyped
    <2>3. CASE ~Raise(w)
        <3>1. /\ writer' = w
              /\ clashed' = clashed \union Stale({id \in Id : r.loaded[id] # None}, r.loaded)
              /\ Become(w, after)
              /\ UNCHANGED <<files, tables, served, faults, accepted, sent>>
            BY <1>2, <2>3 DEF HideRows
        <3>2. r.loaded \in Table /\ Hide(r.loaded) \in Table /\ Hide(rows) \in Table
            BY <1>0, <2>1, HideIsTable DEF ScanRequest
        <3>3. table \in Table
            BY <1>0, <3>2 DEF Table
        <3> HIDE DEF table
        <3>4. after \in ScanRequest
            BY <2>1, <3>2, <3>3 DEF ScanRequest
        <3>5. request' \in [Worker -> Request \union {Idle}]
            BY <3>1, <3>4, BecomeIsTyped DEF Request
        <3>6. clashed' \subseteq Id
            BY <3>1 DEF Stale, CatalogTyped, CatalogTypeOK
        <3> QED BY <3>1, <3>5, <3>6 DEF CatalogTyped, CatalogTypeOK, tables
    <2> QED BY <2>2, <2>3
<1>3. ASSUME ScanStat(w) PROVE CatalogTyped'
    <2>1. r \in ScanRequest
        BY <1>3, Stages DEF ScanStat
    <2>2. PICK p \in r.todo :
             Become(w, IF files[p] = None THEN [r EXCEPT !.todo = @ \ {p}]
                       ELSE [r EXCEPT !.at = "stat", !.path = p, !.stat = files[p].stamp])
        BY <1>3 DEF ScanStat
    <2>3. p \in Path /\ (files[p] # None => files[p].stamp \in 0 .. MaxRequests)
        BY <2>1 DEF ScanRequest, CatalogTyped, CatalogTypeOK, File
    <2>4. r.at = "next"
        BY <1>3 DEF ScanStat, Stage
    <2>5. [r EXCEPT !.todo = @ \ {p}] \in ScanRequest
        BY <2>1, <2>4 DEF ScanRequest
    <2>6. files[p] # None =>
             [r EXCEPT !.at = "stat", !.path = p, !.stat = files[p].stamp] \in ScanRequest
        BY <2>1, <2>3 DEF ScanRequest
    <2>7. request' \in [Worker -> Request \union {Idle}]
        BY <2>2, <2>5, <2>6, BecomeIsTyped DEF Request
    <2> QED BY <1>3, <2>7 DEF ScanStat, CatalogTyped, CatalogTypeOK, tables, history
<1>4. ASSUME ScanRead(w) PROVE CatalogTyped'
    <2> DEFINE old == RowAt(r.table, r.path)
               id == IF old = {} THEN NewId(r.table) ELSE CHOOSE i \in old : TRUE
               loaded == IF old = {} THEN None
                         ELSE IF r.loaded[id] # None THEN r.loaded[id] ELSE r.table[id]
               read == Digest(loaded, r.stat, files[r.path])
               after == [r EXCEPT !.at = "next", !.todo = @ \ {r.path}]
               table == IndexInto(r.table, id, loaded, r.path, r.stat, read.content)
               next == [after EXCEPT !.table = table,
                            !.loaded[id] = IF loaded = None THEN table[id]
                                           ELSE Indexed(loaded, r.stat, read.content)]
    <2>1. /\ r \in ScanRequest /\ r.at = "stat"
          /\ r.table \in Table /\ r.loaded \in Table /\ r.path \in Path
          /\ r.stat \in 0 .. MaxRequests
        BY <1>4, Stages DEF ScanRead, ScanRequest, Stage
    <2>2. after \in ScanRequest /\ after.loaded = r.loaded
        BY <2>1 DEF ScanRequest
    <2>3. CASE files[r.path] = None
        <3>1. Become(w, after)
            BY <1>4, <2>3 DEF ScanRead
        <3> HIDE DEF after
        <3>2. request' \in [Worker -> Request \union {Idle}]
            BY <2>2, <3>1, BecomeIsTyped DEF Request
        <3> QED BY <1>4, <2>3, <3>2 DEF ScanRead, CatalogTyped, CatalogTypeOK, tables
    <2>4. CASE files[r.path] # None
        <3>1. /\ id \in Id /\ Become(w, next)
              /\ clashed' = clashed \union Torn(id, r.stat, read)
            BY <1>4, <2>4 DEF ScanRead
        <3>2. /\ loaded \in Row \union {None}
              /\ loaded # None => r.table[id] \in Row
            <4>1. CASE old = {}
                BY <4>1
            <4>2. CASE old # {}
                <5>1. id \in old
                    BY <4>2
                <5>2. r.table[id] \in Row
                    BY <2>1, <5>1 DEF RowAt, Table
                <5>3. loaded \in {r.loaded[id], r.table[id]}
                    BY <4>2
                <5> HIDE DEF id
                <5>4. r.loaded[id] \in Row \union {None}
                    BY <2>1, <3>1 DEF Table
                <5> QED BY <5>2, <5>3, <5>4
            <4> QED BY <4>1, <4>2
        <3>3. files[r.path] \in File
            BY <2>1, <2>4 DEF CatalogTyped, CatalogTypeOK
        <3> HIDE DEF id, loaded
        <3>4. read \in File /\ read.content \in Content
            BY <2>1, <3>2, <3>3, DigestIsFile DEF File
        <3> HIDE DEF read
        <3>5. table \in Table
            BY <2>1, <3>1, <3>2, <3>4, IndexIntoIsTable
        <3>6. loaded # None => Indexed(loaded, r.stat, read.content) \in Row
            BY <2>1, <3>2, <3>4, IndexedIsRow
        <3> HIDE DEF table, after
        <3> DEFINE known == IF loaded = None THEN table[id]
                            ELSE Indexed(loaded, r.stat, read.content)
        <3>7. known \in Row \union {None}
            BY <3>1, <3>5, <3>6 DEF Table
        <3> HIDE DEF known
        <3>8. [after.loaded EXCEPT ![id] = known] \in Table
            BY <2>1, <2>2, <3>1, <3>7 DEF Table
        <3>9. next = [after EXCEPT !.table = table, !.loaded = [after.loaded EXCEPT ![id] = known]]
            BY <2>2 DEF known, ScanRequest
        <3>10. next \in ScanRequest
            BY <2>2, <3>5, <3>8, <3>9 DEF ScanRequest
        <3> HIDE DEF next
        <3>11. request' \in [Worker -> Request \union {Idle}]
            BY <3>1, <3>10, BecomeIsTyped DEF Request
        <3>12. clashed' \subseteq Id
            BY <3>1 DEF Torn, CatalogTyped, CatalogTypeOK
        <3> QED BY <1>4, <3>11, <3>12 DEF ScanRead, CatalogTyped, CatalogTypeOK, tables
    <2> QED BY <2>3, <2>4
<1>5. ASSUME CommitScan(w) PROVE CatalogTyped'
    <2>1. r \in ScanRequest
        BY <1>5, Stages DEF CommitScan
    <2>2. [r EXCEPT !.at = "announce"] \in Request /\ r.table \in Table
        BY <2>1 DEF Request, ScanRequest
    <2>3. request' \in [Worker -> Request \union {Idle}]
        BY <1>5, <2>2, BecomeIsTyped DEF CommitScan
    <2> QED BY <1>5, <2>2, <2>3 DEF CommitScan, CatalogTyped, CatalogTypeOK, Table, history
<1>6. ASSUME AnnounceScan(w) PROVE CatalogTyped'
    <2> DEFINE available == {i \in Id : rows[i] # None /\ rows[i].available}
               notices == UNION {Notices(id, rows[id].content) : id \in available}
    <2>1. \A id \in available : rows[id].content \in Content
        BY <1>0 DEF Table, Row
    <2>2. notices \in SUBSET UpdateNotification
        BY <2>1, NoticesAreTyped
    <2>3. Announce(notices)
        BY <1>6 DEF AnnounceScan
    <2> HIDE DEF notices
    <2>4. notifications' \subseteq UpdateNotification
        BY <2>2, <2>3, AnnounceIsTyped
    <2>5. request' \in [Worker -> Request \union {Idle}]
        BY <1>6, BecomeIsTyped DEF AnnounceScan, Finish
    <2> QED BY <1>6, <2>4, <2>5 DEF AnnounceScan, CatalogTyped, CatalogTypeOK, history
<1> QED BY <1>1, <1>2, <1>3, <1>4, <1>5, <1>6 DEF Scan

LEMMA CatalogTypeStep == ASSUME CatalogTyped, CatalogNext PROVE CatalogTyped'
<1>1. ASSUME NEW w \in Worker, Kill(w) PROVE CatalogTyped'
    <2>1. request' \in [Worker -> Request \union {Idle}]
        BY <1>1, BecomeIsTyped DEF Kill, Finish
    <2>2. /\ writer' \in Worker \union Cashier \union {None}
          /\ faults' \in 0 .. MaxFaults
        BY <1>1, BoundAssumption DEF Kill, CatalogTyped, CatalogTypeOK
    <2> QED BY <1>1, <2>1, <2>2 DEF Kill, CatalogTyped, CatalogTypeOK, tables, history
<1>2. ASSUME RaiseSafety PROVE CatalogTyped'
    <2>1. served' \in 0 .. MaxRequests /\ safety' \in 1 .. MaxSafety
        BY <1>2, BoundAssumption DEF RaiseSafety, CatalogTyped, CatalogTypeOK
    <2> QED BY <1>2, <2>1 DEF RaiseSafety, CatalogTyped, CatalogTypeOK, history
<1> QED BY <1>1, <1>2, ServeIsTyped, UploadIsTyped, AdministerIsTyped, ScanIsTyped
        DEF CatalogNext

LEMMA CatalogTypeInit == CatalogInit => CatalogTyped
<1> SUFFICES ASSUME CatalogInit PROVE CatalogTyped
    OBVIOUS
<1>0. /\ 1 \in Id /\ 0 \in 0 .. MaxRequests /\ 0 \in 0 .. MaxFaults /\ 1 \in 1 .. MaxSafety
    BY BoundAssumption DEF Id
<1>1. files \in [Path -> File \union {None}]
    BY <1>0 DEF CatalogInit, File
<1>2. rows \in [Id -> Row \union {None}]
    <2>1. PICK paid \in BOOLEAN : rows = FirstRows(paid)
        BY DEF CatalogInit
    <2>2. CASE \E q \in Path : files[q] # None
        <3> DEFINE p == CHOOSE q \in Path : files[q] # None
        <3>1. p \in Path /\ files[p] # None
            BY <2>2
        <3> HIDE DEF p
        <3>2. [path |-> p, stamp |-> 0, content |-> files[p].content,
               available |-> TRUE, paid |-> paid] \in Row
            BY <1>0, <1>1, <3>1 DEF Row, File
        <3>3. \A id \in Id : rows[id] = IF id = 1
                THEN [path |-> p, stamp |-> 0, content |-> files[p].content,
                      available |-> TRUE, paid |-> paid] ELSE None
            BY <2>1, <2>2 DEF p, FirstRows
        <3> QED BY <2>1, <3>2, <3>3 DEF FirstRows
    <2>3. CASE ~ \E q \in Path : files[q] # None
        BY <2>1, <2>3 DEF FirstRows
    <2> QED BY <2>2, <2>3
<1>3. /\ acceptances \subseteq AgreementAcceptance
      /\ accepted \subseteq [user : User, content : Content]
    <2>1. PICK accepting \in SUBSET User :
             /\ acceptances = FirstAcceptances(accepting)
             /\ accepted = {[user |-> a.user, content |-> a.content] : a \in acceptances}
        BY DEF CatalogInit
    <2>2. rows[1] # None => rows[1].content \in Content
        BY <1>0, <1>2 DEF Row
    <2>3. acceptances \subseteq AgreementAcceptance
        BY <1>0, <2>1, <2>2 DEF AgreementAcceptance, FirstAcceptances
    <2>4. \A a \in acceptances : a.user \in User /\ a.content \in Content
        BY <2>3 DEF AgreementAcceptance
    <2> QED BY <2>1, <2>3, <2>4
<1> QED BY <1>0, <1>1, <1>2, <1>3 DEF CatalogInit, CatalogTyped, CatalogTypeOK
-----------------------------------------------------------------------------
(***************************************************************************)
(* Downloads.                                                              *)
(***************************************************************************)

Gated(r) == r # Idle /\ r.op = "download" /\ r.at = "gated"

\* A scan that read a file goes on.
LEMMA ScanReadBecomes ==
    ASSUME NEW w \in Worker, ScanRead(w)
    PROVE  LET read == [request[w] EXCEPT !.at = "next", !.todo = @ \ {request[w].path}] IN
           \/ Become(w, read)
           \/ \E table, id, known :
                 Become(w, [read EXCEPT !.table = table, !.loaded[id] = known])
BY DEF ScanRead

\* Only the gates put a request behind the gates.
LEMMA OnlyGateGates ==
    ASSUME CatalogTyped, CatalogNext, NEW w \in Worker, Gated(request'[w])
    PROVE  \/ request'[w] = request[w]
           \/ /\ Gate(w) /\ CurrentAcceptance(request[w]) /\ HasPurchase(request[w])
              /\ request'[w] = [request[w] EXCEPT !.at = "gated"]
              /\ request[w] \in ItemRequest
<1> DEFINE Goal == \/ request'[w] = request[w]
                   \/ /\ Gate(w) /\ CurrentAcceptance(request[w]) /\ HasPurchase(request[w])
                      /\ request'[w] = [request[w] EXCEPT !.at = "gated"]
                      /\ request[w] \in ItemRequest
<1>1. ASSUME NEW v \in Worker, NEW r, Become(v, r), ~Gated(r) PROVE Goal
    BY <1>1 DEF Become, CatalogTyped
<1>2. ASSUME NEW v \in Worker, Finish(v) PROVE Goal
    BY <1>1, <1>2 DEF Finish, Gated
<1>3. ASSUME NEW v \in Worker, Raise(v) PROVE Goal
    BY <1>2, <1>3 DEF Raise
<1>4. ASSUME NEW v \in Worker, Gate(v) PROVE Goal
    <2>1. request[v] \in ItemRequest
        BY <1>4, Stages DEF Gate
    <2>2. CASE Finish(v)
        BY <1>2, <2>2
    <2>3. CASE ~Finish(v)
        <3>1. /\ CurrentAcceptance(request[v])
              /\ request[v].op = "download" => HasPurchase(request[v])
              /\ request' = [request EXCEPT ![v] = [request[v] EXCEPT !.at = "gated"]]
            BY <1>4, <2>3 DEF Gate, Become
        <3>2. CASE v = w
            <4>1. request'[w] = [request[w] EXCEPT !.at = "gated"]
                BY <3>1, <3>2 DEF CatalogTyped
            <4>2. request[w].op = "download"
                BY <2>1, <3>2, <4>1 DEF Gated, ItemRequest
            <4> QED BY <1>4, <2>1, <3>1, <3>2, <4>1, <4>2
        <3>3. CASE v # w
            BY <3>1, <3>3 DEF CatalogTyped
        <3> QED BY <3>2, <3>3
    <2> QED BY <2>2, <2>3
<1>5. ASSUME NEW v \in Worker, NEW op, ReadItem(v, op) PROVE Goal
    BY <1>1, <1>5 DEF ReadItem, Gated
<1>6. ASSUME NEW v \in Worker, RecordDownload(v) PROVE Goal
    <2>1. request[v] \in ItemRequest
        BY <1>6, Stages DEF RecordDownload
    <2>2. ~Gated([request[v] EXCEPT !.at = "recorded"])
        BY <2>1 DEF Gated, ItemRequest
    <2> QED BY <1>1, <1>6, <2>2 DEF RecordDownload
<1>7. ASSUME NEW v \in Worker,
             \/ AcceptCurrent(v) \/ SendFile(v) \/ SendTile(v) \/ CommitDelete(v)
             \/ AnnounceScan(v) \/ Kill(v)
      PROVE  Goal
    BY <1>2, <1>7 DEF AcceptCurrent, SendFile, SendTile, CommitDelete, AnnounceScan, Kill
<1>8. ASSUME NEW v \in Worker, StartUpload(v) \/ StartReplace(v) \/ StartRename(v) \/ StartScan(v)
      PROVE  Goal
    BY <1>1, <1>8 DEF StartUpload, StartReplace, StartRename, StartScan, Gated
<1>9. ASSUME NEW v \in Worker, NEW r \in UploadRequest \union RenameRequest \union ScanRequest,
             Become(v, r)
      PROVE  Goal
    BY <1>1, <1>9 DEF Gated, UploadRequest, RenameRequest, ScanRequest
<1>10. ASSUME NEW v \in Worker, Upload(v) PROVE Goal
    <2>1. CatalogTyped'
        BY <1>10, UploadIsTyped
    <2>2. CASE StartUpload(v) \/ StartReplace(v)
        BY <1>8, <2>2
    <2>3. CASE Raise(v) \/ Finish(v)
        BY <1>2, <1>3, <2>3
    <2>4. CASE /\ UnlinkOld(v) \/ MoveIn(v) \/ StatFile(v) \/ ReadFile(v) \/ CommitIndex(v)
               /\ ~Raise(v) /\ ~Finish(v)
        <3>1. request[v] \in UploadRequest
            BY <2>4, Stages DEF UnlinkOld, MoveIn, StatFile, ReadFile, CommitIndex, Uploading
        <3>2. \A at, stat, id, row, file :
                 /\ ~Gated([request[v] EXCEPT !.at = at])
                 /\ ~Gated([request[v] EXCEPT !.at = at, !.stat = stat, !.id = id, !.row = row])
                 /\ ~Gated([request[v] EXCEPT !.at = at, !.file = file])
            BY <3>1 DEF Gated, UploadRequest
        <3> QED BY <1>1, <2>4, <3>2 DEF UnlinkOld, MoveIn, StatFile, ReadFile, CommitIndex
    <2> QED BY <1>10, <2>2, <2>3, <2>4 DEF Upload
<1>11. ASSUME NEW v \in Worker, Administer(v) PROVE Goal
    <2>1. CASE StartRename(v) \/ CommitDelete(v) \/ ReadItem(v, "price") \/ ReadItem(v, "delete")
        BY <1>5, <1>7, <1>8, <2>1
    <2>2. CASE Raise(v) \/ Finish(v)
        BY <1>2, <1>3, <2>2
    <2>3. CASE RenameFile(v) /\ ~Raise(v)
        <3>1. request[v] \in RenameRequest
            BY <2>3, Stages DEF RenameFile
        <3>2. ~Gated([request[v] EXCEPT !.at = "renamed"])
            BY <3>1 DEF Gated, RenameRequest
        <3> QED BY <1>1, <2>3, <3>2 DEF RenameFile
    <2>4. CASE (StartDelete(v) \/ UnlinkFile(v)) /\ ~Raise(v)
        <3>1. request[v] \in ItemRequest
            BY <2>4, Stages DEF StartDelete, UnlinkFile
        <3>2. /\ ~Gated([request[v] EXCEPT !.at = "locked"])
              /\ ~Gated([request[v] EXCEPT !.at = "unlinked"])
            BY <3>1 DEF Gated, ItemRequest
        <3> QED BY <1>1, <2>4, <3>2 DEF StartDelete, UnlinkFile
    <2>5. CASE (CommitRename(v) \/ SetPrice(v)) /\ ~Raise(v)
        BY <1>2, <2>5 DEF CommitRename, SetPrice
    <2> QED BY <1>11, <2>1, <2>2, <2>3, <2>4, <2>5 DEF Administer
<1>12. ASSUME NEW v \in Worker, Scan(v) PROVE Goal
    <2>1. CASE StartScan(v) \/ AnnounceScan(v) \/ Raise(v)
        BY <1>3, <1>7, <1>8, <2>1
    <2>2. CASE /\ HideRows(v) \/ ScanStat(v) \/ ScanRead(v) \/ CommitScan(v)
               /\ ~Raise(v)
        <3>1. request[v] \in ScanRequest
            BY <2>2, Stages DEF HideRows, ScanStat, ScanRead, CommitScan
        <3>2. ASSUME NEW r, Become(v, r), r.op = "scan" PROVE Goal
            BY <1>1, <3>2 DEF Gated
        <3> HIDE DEF Goal
        <3>3. CASE HideRows(v)
            <4> DEFINE hidden == {id \in Id : request[v].loaded[id] # None
                                                /\ request[v].loaded[id].available}
                       table == [id \in Id |-> IF id \in hidden THEN Hide(rows)[id] ELSE rows[id]]
                       new == [request[v] EXCEPT !.at = "next", !.loaded = Hide(@),
                                                 !.table = table]
            <4>1. Become(v, new)
                BY <2>2, <3>3 DEF HideRows
            <4> HIDE DEF table
            <4>2. new.op = "scan"
                BY <3>1 DEF ScanRequest
            <4> HIDE DEF new
            <4> QED BY <3>2, <4>1, <4>2
        <3>4. CASE ScanStat(v)
            <4>1. PICK p \in request[v].todo :
                     Become(v, IF files[p] = None THEN [request[v] EXCEPT !.todo = @ \ {p}]
                               ELSE [request[v] EXCEPT !.at = "stat", !.path = p,
                                                       !.stat = files[p].stamp])
                BY <3>4 DEF ScanStat
            <4> DEFINE new == IF files[p] = None THEN [request[v] EXCEPT !.todo = @ \ {p}]
                              ELSE [request[v] EXCEPT !.at = "stat", !.path = p,
                                                      !.stat = files[p].stamp]
            <4>2. Become(v, new)
                BY <4>1
            <4>3. new.op = "scan"
                BY <3>1 DEF ScanRequest
            <4> HIDE DEF new
            <4> QED BY <3>2, <4>2, <4>3
        <3>5. CASE ScanRead(v)
            <4> DEFINE read == [request[v] EXCEPT !.at = "next", !.todo = @ \ {request[v].path}]
            <4>1. read.op = "scan" /\ "op" \in DOMAIN read
                BY <3>1 DEF ScanRequest
            <4>2. \/ Become(v, read)
                  \/ \E table, id, known :
                        Become(v, [read EXCEPT !.table = table, !.loaded[id] = known])
                BY <3>5, ScanReadBecomes
            <4> HIDE DEF read
            <4>3. ASSUME NEW table, NEW id, NEW known,
                         Become(v, [read EXCEPT !.table = table, !.loaded[id] = known])
                  PROVE  Goal
                <5> DEFINE new == [read EXCEPT !.table = table, !.loaded[id] = known]
                <5>1. new.op = "scan"
                    BY <4>1
                <5> HIDE DEF new
                <5> QED BY <3>2, <4>3, <5>1 DEF new
            <4> QED BY <3>2, <4>1, <4>2, <4>3
        <3>6. CASE CommitScan(v)
            <4> DEFINE new == [request[v] EXCEPT !.at = "announce"]
            <4>1. Become(v, new) /\ new.op = "scan"
                BY <3>1, <3>6 DEF CommitScan, ScanRequest
            <4> HIDE DEF new
            <4> QED BY <3>2, <4>1
        <3> QED BY <2>2, <3>3, <3>4, <3>5, <3>6
    <2> QED BY <1>12, <2>1, <2>2 DEF Scan
<1>13. ASSUME RaiseSafety PROVE Goal
    BY <1>13 DEF RaiseSafety
<1> HIDE DEF Goal
<1>14. Goal
    BY <1>4, <1>5, <1>6, <1>7, <1>10, <1>11, <1>12, <1>13 DEF CatalogNext, Serve
<1> QED BY <1>14 DEF Goal

\* What the catalogue does to the records that downloads rest on.
LEMMA CatalogRecords ==
    ASSUME CatalogTyped, CatalogNext
    PROVE  /\ purchases' = purchases /\ served <= served'
           /\ accepted \subseteq accepted'
           /\ acceptances' \subseteq acceptances \/ \E w \in Worker : AcceptCurrent(w)
           /\ downloads' = downloads \/ \E w \in Worker : RecordDownload(w)
<1> DEFINE Quiet == /\ purchases' = purchases /\ served <= served'
                    /\ accepted' = accepted /\ acceptances' \subseteq acceptances
                    /\ downloads' = downloads
<1>0. served \in Nat
    BY BoundAssumption DEF CatalogTyped, CatalogTypeOK
<1>1. ASSUME NEW w \in Worker, AcceptCurrent(w) \/ RecordDownload(w)
      PROVE  /\ purchases' = purchases /\ served <= served'
             /\ accepted \subseteq accepted'
             /\ RecordDownload(w) => acceptances' = acceptances
             /\ AcceptCurrent(w) => downloads' = downloads
    BY <1>0, <1>1 DEF AcceptCurrent, RecordDownload, history
<1>2. ASSUME NEW w \in Worker, Raise(w) PROVE Quiet
    BY <1>0, <1>2 DEF Raise, tables, history
<1>3. ASSUME NEW w \in Worker, NEW op, ReadItem(w, op) PROVE Quiet
    BY <1>0, <1>3 DEF ReadItem, tables, history
<1>4. ASSUME NEW w \in Worker, Gate(w) \/ SendFile(w) \/ SendTile(w) PROVE Quiet
    BY <1>0, <1>4 DEF Gate, SendFile, SendTile, tables, history
<1>5. ASSUME NEW w \in Worker, Upload(w) PROVE Quiet
    <2>1. CASE StartUpload(w) \/ StartReplace(w)
        <3>1. CASE StartUpload(w)
            BY <1>0, <3>1 DEF StartUpload, tables, history
        <3>2. CASE StartReplace(w)
            <4>1. served' = served + 1 /\ UNCHANGED <<files, tables, writer, faults, history>>
                BY <3>2 DEF StartReplace
            <4> QED BY <1>0, <4>1 DEF tables, history
        <3> QED BY <2>1, <3>1, <3>2
    <2>2. CASE Raise(w)
        BY <1>2, <2>2
    <2>3. CASE UnlinkOld(w) \/ MoveIn(w)
        BY <1>0, <2>3 DEF UnlinkOld, MoveIn, tables, history
    <2>4. CASE (StatFile(w) \/ ReadFile(w)) /\ ~Raise(w)
        BY <1>0, <2>4 DEF StatFile, ReadFile, tables, history
    <2>5. CASE CommitIndex(w) /\ ~Raise(w)
        BY <1>0, <2>5 DEF CommitIndex
    <2> QED BY <1>5, <2>1, <2>2, <2>3, <2>4, <2>5 DEF Upload
<1>6. ASSUME NEW w \in Worker, Administer(w) PROVE Quiet
    <2>1. CASE StartRename(w)
        BY <1>0, <2>1 DEF StartRename, tables, history
    <2>2. CASE Raise(w) \/ ReadItem(w, "price") \/ ReadItem(w, "delete")
        BY <1>2, <1>3, <2>2
    <2>3. CASE (RenameFile(w) \/ CommitRename(w)) /\ ~Raise(w)
        BY <1>0, <2>3 DEF RenameFile, CommitRename, tables, history
    <2>4. CASE (SetPrice(w) \/ StartDelete(w)) /\ ~Raise(w)
        BY <1>0, <2>4 DEF SetPrice, StartDelete, tables, history
    <2>5. CASE (UnlinkFile(w) \/ CommitDelete(w)) /\ ~Raise(w)
        BY <1>0, <2>5 DEF UnlinkFile, CommitDelete, tables, history
    <2> QED BY <1>6, <2>1, <2>2, <2>3, <2>4, <2>5 DEF Administer
<1>7. ASSUME NEW w \in Worker, Scan(w) PROVE Quiet
    <2>1. CASE StartScan(w)
        BY <1>0, <2>1 DEF StartScan, tables, history
    <2>2. CASE Raise(w)
        BY <1>2, <2>2
    <2>3. CASE HideRows(w) /\ ~Raise(w)
        <3>1. UNCHANGED <<files, tables, served, faults, accepted, sent>>
            BY <2>3 DEF HideRows
        <3> QED BY <1>0, <3>1 DEF tables
    <2>4. CASE ScanStat(w) \/ ScanRead(w)
        <3>1. UNCHANGED <<files, tables, writer, served, faults, accepted, sent>>
            BY <2>4 DEF ScanStat, ScanRead, history
        <3> QED BY <1>0, <3>1 DEF tables
    <2>5. CASE CommitScan(w) \/ AnnounceScan(w)
        BY <1>0, <2>5 DEF CommitScan, AnnounceScan, history
    <2> QED BY <1>7, <2>1, <2>2, <2>3, <2>4, <2>5 DEF Scan
<1>8. ASSUME NEW w \in Worker, Kill(w) PROVE Quiet
    BY <1>0, <1>8 DEF Kill, tables, history
<1>9. ASSUME RaiseSafety PROVE Quiet
    BY <1>0, <1>9 DEF RaiseSafety, history
<1> QED BY <1>1, <1>3, <1>4, <1>5, <1>6, <1>7, <1>8, <1>9 DEF CatalogNext, Serve

\* The catalogue keeps what downloads rest on.
LEMMA DownloadsStep ==
    ASSUME CatalogIInv, CatalogNext
    PROVE  /\ AcceptancesWereMade' /\ GatedWereAccepted'
           /\ DownloadsWereAccepted' /\ PaidDownloadsAreBuyers'
<1>0. CatalogTyped /\ purchases' = purchases /\ accepted \subseteq accepted'
    BY CatalogRecords DEF CatalogIInv
<1>1. AcceptancesWereMade'
    <2>1. CASE acceptances' \subseteq acceptances
        BY <1>0, <2>1 DEF CatalogIInv, AcceptancesWereMade
    <2>2. ASSUME NEW w \in Worker, AcceptCurrent(w) PROVE AcceptancesWereMade'
        <3> DEFINE new == Acceptance(request[w])
        <3>1. /\ acceptances' = acceptances \union {new}
              /\ [user |-> new.user, content |-> new.content] \in accepted'
            BY <2>2 DEF AcceptCurrent, Acceptance
        <3> HIDE DEF new
        <3> QED BY <1>0, <3>1 DEF CatalogIInv, AcceptancesWereMade
    <2> QED BY <1>0, <2>1, <2>2, CatalogRecords
<1>2. GatedWereAccepted'
    <2> SUFFICES ASSUME NEW w \in Worker, Gated(request'[w])
                 PROVE  /\ [user |-> request'[w].user, content |-> request'[w].row.content]
                              \in accepted'
                        /\ request'[w].row.paid => \E p \in purchases' :
                              p.user = request'[w].user /\ p.item = request'[w].id
        BY DEF GatedWereAccepted, Stage, Gated, Idle
    <2>1. CASE request'[w] = request[w]
        <3>1. Stage(w, "download", "gated")
            BY <2>1 DEF Gated, Stage
        <3> QED BY <1>0, <2>1, <3>1 DEF CatalogIInv, GatedWereAccepted
    <2>2. CASE /\ CurrentAcceptance(request[w]) /\ HasPurchase(request[w])
               /\ request'[w] = [request[w] EXCEPT !.at = "gated"]
               /\ request[w] \in ItemRequest
        <3>1. /\ request'[w].user = request[w].user /\ request'[w].row = request[w].row
              /\ request'[w].id = request[w].id
            BY <2>2 DEF ItemRequest
        <3>2. [user |-> request[w].user, content |-> request[w].row.content] \in accepted
            BY <2>2 DEF CatalogIInv, AcceptancesWereMade, CurrentAcceptance, Acceptance
        <3> QED BY <1>0, <2>2, <3>1, <3>2 DEF HasPurchase
    <2> QED BY <1>0, <2>1, <2>2, OnlyGateGates
<1>3. DownloadsWereAccepted' /\ PaidDownloadsAreBuyers'
    <2>1. CASE downloads' = downloads
        BY <1>0, <2>1 DEF CatalogIInv, DownloadsWereAccepted, PaidDownloadsAreBuyers
    <2>2. ASSUME NEW w \in Worker, RecordDownload(w)
          PROVE  DownloadsWereAccepted' /\ PaidDownloadsAreBuyers'
        <3> DEFINE r == request[w]
                   d == [user |-> r.user, item |-> r.id, content |-> r.row.content,
                         paid |-> r.row.paid]
        <3>1. downloads' = downloads \union {d} /\ Stage(w, "download", "gated")
            BY <2>2 DEF RecordDownload
        <3>2. /\ [user |-> d.user, content |-> d.content] \in accepted
              /\ d.paid => \E p \in purchases : p.user = d.user /\ p.item = d.item
            BY <3>1 DEF CatalogIInv, GatedWereAccepted
        <3> HIDE DEF d
        <3> QED BY <1>0, <3>1, <3>2
                DEF CatalogIInv, DownloadsWereAccepted, PaidDownloadsAreBuyers
    <2> QED BY <1>0, <2>1, <2>2, CatalogRecords
<1> QED BY <1>1, <1>2, <1>3
-----------------------------------------------------------------------------
(***************************************************************************)
(* What stamps tell.  A stamp is given once: some map f says to which      *)
(* content.  Files fit it wherever they are moved, and so do the rows, and *)
(* what requests know of both, but for rows written on a stale reading.    *)
(* f is extended when a request saves a file.                              *)
(***************************************************************************)

StampMap == [Nat -> Content \union {None}]

\* x is a file or a row of one of the first n stamps.
Fits(f, n, x) == x.stamp \in 0 .. n /\ x.content = f[x.stamp]

SameStamp(x, y) == x.stamp = y.stamp /\ x.content = y.content

\* What request r knows fits, if it is not of rows that are stale.
KnowsRow(f, n, stale, r) == r.row # None /\ r.id \notin stale => Fits(f, n, r.row)

KnowsFile(f, n, stale, r) ==
    Fits(f, n, r.file) \/ (r.at = "digest" /\ r.row # None /\ r.id \in stale)

KnowsTables(f, n, stale, r) ==
    \A id \in Id \ stale :
        /\ r.table[id] # None => Fits(f, n, r.table[id])
        /\ r.loaded[id] # None => Fits(f, n, r.loaded[id])
        /\ r.table[id] # None /\ r.loaded[id] # None => SameStamp(r.table[id], r.loaded[id])

Knows(f, n, stale, r) ==
    /\ r \in ItemRequest \union RenameRequest \union UploadRequest => KnowsRow(f, n, stale, r)
    /\ r \in UploadRequest => KnowsFile(f, n, stale, r)
    /\ r \in ScanRequest => KnowsTables(f, n, stale, r)

FilesFit(f) == \A p \in Path : files[p] # None => Fits(f, served, files[p])

RowsFit(f) == \A id \in Id \ clashed : rows[id] # None => Fits(f, served, rows[id])

RequestsFit(f) == \A w \in Worker : Knows(f, served, clashed, request[w])

StampsFit(f) == FilesFit(f) /\ RowsFit(f) /\ RequestsFit(f)

StampsAreApart == \E f \in StampMap : StampsFit(f)

\* Kinds of requests are apart.
LEMMA Kinds ==
    ASSUME NEW f, NEW n, NEW stale, NEW r
    PROVE  /\ r \in ItemRequest \union RenameRequest /\ KnowsRow(f, n, stale, r)
                 => Knows(f, n, stale, r)
           /\ r \in UploadRequest /\ KnowsRow(f, n, stale, r) /\ KnowsFile(f, n, stale, r)
                 => Knows(f, n, stale, r)
           /\ r \in ScanRequest /\ KnowsTables(f, n, stale, r) => Knows(f, n, stale, r)
           /\ r = Idle => Knows(f, n, stale, r)
BY DEF Knows, ItemRequest, RenameRequest, UploadRequest, ScanRequest, Idle

\* What fits goes on to fit when stamps are given and rows become stale.
LEMMA FitsGrow ==
    ASSUME NEW f, NEW g, NEW n \in Nat, NEW m \in Nat, n <= m,
           \A s \in 0 .. n : g[s] = f[s], NEW x, Fits(f, n, x)
    PROVE  Fits(g, m, x)
BY DEF Fits

LEMMA KnowsGrow ==
    ASSUME NEW f, NEW g, NEW n \in Nat, NEW m \in Nat, n <= m,
           \A s \in 0 .. n : g[s] = f[s], NEW old, NEW stale, old \subseteq stale,
           NEW r, Knows(f, n, old, r)
    PROVE  Knows(g, m, stale, r)
<1>1. KnowsRow(f, n, old, r) => KnowsRow(g, m, stale, r)
    BY FitsGrow DEF KnowsRow
<1>2. KnowsFile(f, n, old, r) => KnowsFile(g, m, stale, r)
    BY FitsGrow DEF KnowsFile
<1>3. KnowsTables(f, n, old, r) => KnowsTables(g, m, stale, r)
    BY FitsGrow DEF KnowsTables
<1> QED BY <1>1, <1>2, <1>3 DEF Knows

\* A request goes on; what others know, and the files and rows that stay, fit as before.
LEMMA StampsFrame ==
    ASSUME CatalogTyped, NEW f, StampsFit(f),
           NEW g \in StampMap, \A s \in 0 .. served : g[s] = f[s],
           served' \in Nat, served <= served', clashed \subseteq clashed',
           NEW w \in Worker, NEW r, Become(w, r), Knows(g, served', clashed', r),
           \A p \in Path : files'[p] # None =>
              Fits(g, served', files'[p]) \/ \E q \in Path : files[q] # None /\ files'[p] = files[q],
           \A id \in Id \ clashed' : rows'[id] # None =>
              Fits(g, served', rows'[id]) \/ (rows[id] # None /\ SameStamp(rows'[id], rows[id]))
    PROVE  StampsAreApart'
<1>0. served \in Nat
    BY BoundAssumption DEF CatalogTyped, CatalogTypeOK
<1>1. FilesFit(g)'
    BY <1>0, FitsGrow DEF StampsFit, FilesFit
<1>2. ASSUME NEW id \in Id \ clashed', rows'[id] # None PROVE Fits(g, served', rows'[id])
    <2>1. CASE rows[id] # None /\ SameStamp(rows'[id], rows[id])
        <3>1. Fits(g, served', rows[id])
            BY <1>0, <1>2, <2>1, FitsGrow DEF StampsFit, RowsFit
        <3> QED BY <2>1, <3>1 DEF Fits, SameStamp
    <2> QED BY <1>2, <2>1
<1>3. \A v \in Worker : Knows(g, served', clashed', request'[v])
    <2> TAKE v \in Worker
    <2>1. request'[v] = IF v = w THEN r ELSE request[v]
        BY DEF Become, CatalogTyped
    <2>2. Knows(g, served', clashed', request[v])
        BY <1>0, KnowsGrow DEF StampsFit, RequestsFit
    <2> QED BY <2>1, <2>2
<1> QED BY <1>1, <1>2, <1>3 DEF StampsAreApart, StampsFit, RowsFit, RequestsFit

\* ... and nothing but the request changes.
LEMMA StampsStay ==
    ASSUME CatalogTyped, NEW f \in StampMap, StampsFit(f),
           UNCHANGED <<files, rows, clashed>>, served' \in Nat, served <= served',
           NEW w \in Worker, NEW r, Become(w, r), Knows(f, served', clashed, r)
    PROVE  StampsAreApart'
<1>1. \A id \in Id : SameStamp(rows'[id], rows[id])
    BY DEF SameStamp
<1> QED BY <1>1, StampsFrame

\* What is known of the row of a request that is not a scan, or of a new one.
LEMMA KnownRow ==
    ASSUME CatalogTyped, NEW f, StampsFit(f)
    PROVE  /\ served \in Nat
           /\ \A w \in Worker : Knows(f, served, clashed, request[w])
           /\ \A id \in Id : rows[id] # None /\ id \notin clashed => Fits(f, served, rows[id])
BY BoundAssumption DEF CatalogTyped, CatalogTypeOK, StampsFit, RowsFit, RequestsFit

\* A request that ends knows nothing.
LEMMA EndStamps ==
    ASSUME CatalogTyped, NEW f \in StampMap, StampsFit(f), NEW w \in Worker,
           \/ Raise(w) \/ AcceptCurrent(w) \/ SendFile(w) \/ SendTile(w) \/ AnnounceScan(w)
           \/ Kill(w)
    PROVE  StampsAreApart'
<1>1. /\ Become(w, Idle) /\ UNCHANGED <<files, rows, clashed, served>>
    BY DEF Raise, AcceptCurrent, SendFile, SendTile, AnnounceScan, Kill, Finish, tables, history
<1>2. Knows(f, served', clashed, Idle)
    BY Kinds
<1> QED BY <1>1, <1>2, StampsStay, KnownRow

\* A request that reads a row knows what the row says.
LEMMA ReadStamps ==
    ASSUME CatalogTyped, NEW f \in StampMap, StampsFit(f), NEW w \in Worker,
           \/ \E op \in {"accept", "download", "preview", "price", "delete"} : ReadItem(w, op)
           \/ StartRename(w)
    PROVE  StampsAreApart'
<1>1. /\ UNCHANGED <<files, rows, clashed>> /\ served' = served + 1
    BY DEF ReadItem, StartRename, tables, history
<1>2. \E id \in Id, r \in ItemRequest \union RenameRequest :
         Become(w, r) /\ r.id = id /\ r.row = rows[id]
    <2>1. CASE \E op \in {"accept", "download", "preview", "price", "delete"} : ReadItem(w, op)
        <3>1. PICK op \in {"accept", "download", "preview", "price", "delete"},
                   id \in Id, u \in User :
                /\ rows[id] # None
                /\ Become(w, [op |-> op, at |-> "read", user |-> u, id |-> id, row |-> rows[id]])
            BY <2>1 DEF ReadItem
        <3>2. [op |-> op, at |-> "read", user |-> u, id |-> id, row |-> rows[id]] \in ItemRequest
            BY <3>1 DEF CatalogTyped, CatalogTypeOK, ItemRequest
        <3> QED BY <3>1, <3>2
    <2>2. CASE StartRename(w)
        <3>1. PICK id \in Id, p \in Path :
                /\ rows[id] # None
                /\ Become(w, [op |-> "rename", at |-> "read", id |-> id, row |-> rows[id],
                              path |-> p])
            BY <2>2 DEF StartRename
        <3>2. [op |-> "rename", at |-> "read", id |-> id, row |-> rows[id], path |-> p]
                 \in RenameRequest
            BY <3>1 DEF RenameRequest, CatalogTyped, CatalogTypeOK
        <3> QED BY <3>1, <3>2
    <2> QED BY <2>1, <2>2
<1>3. PICK id \in Id, r \in ItemRequest \union RenameRequest :
         Become(w, r) /\ r.id = id /\ r.row = rows[id]
    BY <1>2
<1>4. KnowsRow(f, served', clashed, r)
    <2>1. served \in Nat /\ served' \in Nat /\ served <= served'
        BY <1>1, KnownRow
    <2>2. r.row # None /\ r.id \notin clashed => Fits(f, served, r.row)
        BY <1>3, KnownRow
    <2>3. r.row # None /\ r.id \notin clashed => Fits(f, served', r.row)
        BY <2>1, <2>2, FitsGrow
    <2> QED BY <2>3 DEF KnowsRow
<1>5. Knows(f, served', clashed, r)
    BY <1>3, <1>4, Kinds
<1>6. served' \in Nat /\ served <= served'
    BY <1>1, KnownRow
<1> QED BY <1>1, <1>3, <1>5, <1>6, StampsStay

\* A request of an item goes on with what it knows; a file it moves or unlinks fits.
LEMMA GoOnStamps ==
    ASSUME CatalogTyped, NEW f \in StampMap, StampsFit(f), NEW w \in Worker,
           UNCHANGED <<rows, clashed, served>>,
           \A p \in Path : files'[p] # None =>
              \E q \in Path : files[q] # None /\ files'[p] = files[q],
           NEW at,
           \/ request[w] \in ItemRequest /\ [request[w] EXCEPT !.at = at] \in ItemRequest
           \/ request[w] \in RenameRequest /\ [request[w] EXCEPT !.at = at] \in RenameRequest
           \/ /\ request[w] \in UploadRequest /\ [request[w] EXCEPT !.at = at] \in UploadRequest
              /\ request[w].at # "digest",
           Become(w, [request[w] EXCEPT !.at = at])
    PROVE  StampsAreApart'
<1> DEFINE r == request[w]
           new == [request[w] EXCEPT !.at = at]
<1>0. served' \in Nat /\ served <= served' /\ clashed \subseteq clashed'
      /\ Knows(f, served', clashed', r)
    BY KnownRow
<1>1. Knows(f, served', clashed', new)
    <2>1. CASE r \in ItemRequest \union RenameRequest /\ new \in ItemRequest \union RenameRequest
        <3>1. new.row = r.row /\ new.id = r.id
            BY <2>1 DEF ItemRequest, RenameRequest
        <3>2. KnowsRow(f, served', clashed', new)
            BY <1>0, <2>1, <3>1 DEF Knows, KnowsRow
        <3> QED BY <2>1, <3>2, Kinds
    <2>2. CASE r \in UploadRequest /\ new \in UploadRequest /\ r.at # "digest"
        <3>1. new.row = r.row /\ new.id = r.id /\ new.file = r.file
            BY <2>2 DEF UploadRequest
        <3>2. KnowsRow(f, served', clashed', new) /\ KnowsFile(f, served', clashed', new)
            BY <1>0, <2>2, <3>1 DEF Knows, KnowsRow, KnowsFile
        <3> QED BY <2>2, <3>2, Kinds
    <2> QED BY <2>1, <2>2
<1>2. \A id \in Id : SameStamp(rows'[id], rows[id])
    BY DEF SameStamp
<1> HIDE DEF new
<1>3. Become(w, new)
    BY DEF new
<1> QED BY <1>0, <1>1, <1>2, <1>3, StampsFrame

\* A request that saves a file gives a stamp.
LEMMA SaveStamps ==
    ASSUME CatalogTyped, NEW f \in StampMap, StampsFit(f), NEW w \in Worker,
           StartUpload(w) \/ StartReplace(w)
    PROVE  StampsAreApart'
<1>1. PICK id \in Id \union {0}, c \in Content, r \in UploadRequest :
        /\ Become(w, r) /\ r.id = id
        /\ r.file = [content |-> c, stamp |-> served + 1]
        /\ r.row = None \/ (id \in Id /\ r.row = rows[id])
    <2>0. served < MaxRequests /\ served' = served + 1
        BY DEF StartUpload, StartReplace
    <2>1. served' \in 0 .. MaxRequests /\ served + 1 = served' /\ 0 \in 0 .. MaxRequests
        BY <2>0, ServedGrows, BoundAssumption
    <2>2. CASE StartUpload(w)
        <3>1. PICK p \in Path, c \in Content :
                 Become(w, [op |-> "upload", at |-> "saved", id |-> 0, row |-> None, path |-> p,
                            file |-> [content |-> c, stamp |-> served + 1], stat |-> 0])
            BY <2>2 DEF StartUpload
        <3>2. [op |-> "upload", at |-> "saved", id |-> 0, row |-> None, path |-> p,
               file |-> [content |-> c, stamp |-> served + 1], stat |-> 0] \in UploadRequest
            BY <2>1 DEF UploadRequest, File
        <3> QED BY <3>1, <3>2
    <2>3. CASE StartReplace(w)
        <3>1. PICK id \in Id, p \in Path, c \in Content :
                 /\ rows[id] # None
                 /\ Become(w, [op |-> "replace",
                          at |-> IF p = rows[id].path THEN "saved" ELSE "unlink",
                          id |-> id, row |-> rows[id], path |-> p,
                          file |-> [content |-> c, stamp |-> served + 1], stat |-> 0])
            BY <2>3 DEF StartReplace
        <3>2. rows[id] \in Row
            BY <3>1 DEF CatalogTyped, CatalogTypeOK
        <3>3. [op |-> "replace", at |-> IF p = rows[id].path THEN "saved" ELSE "unlink",
               id |-> id, row |-> rows[id], path |-> p,
               file |-> [content |-> c, stamp |-> served + 1], stat |-> 0] \in UploadRequest
            BY <2>1, <3>2 DEF UploadRequest, File
        <3> QED BY <3>1, <3>3
    <2> QED BY <2>2, <2>3
<1>2. served \in Nat /\ served' = served + 1 /\ UNCHANGED <<files, rows, clashed>>
    BY KnownRow DEF StartUpload, StartReplace, tables, history
<1> DEFINE g == [f EXCEPT ![served + 1] = c]
<1>3. g \in StampMap /\ (\A s \in 0 .. served : g[s] = f[s]) /\ g[served + 1] = c
    BY <1>2 DEF StampMap
<1> HIDE DEF g
<1>4. KnowsFile(g, served', clashed, r)
    BY <1>1, <1>2, <1>3 DEF KnowsFile, Fits
<1>5. KnowsRow(g, served', clashed, r)
    <2>1. r.row # None /\ r.id \notin clashed => Fits(f, served, r.row)
        BY <1>1, KnownRow
    <2> QED BY <1>2, <1>3, <2>1, FitsGrow DEF KnowsRow
<1>6. Knows(g, served', clashed, r)
    BY <1>1, <1>4, <1>5, Kinds
<1>7. \A id_1 \in Id : SameStamp(rows'[id_1], rows[id_1])
    BY <1>2 DEF SameStamp
<1> QED BY <1>1, <1>2, <1>3, <1>6, <1>7, StampsFrame

\* Gates, records, locks, and files that are moved or unlinked.
LEMMA MoveStamps ==
    ASSUME CatalogTyped, NEW f \in StampMap, StampsFit(f), NEW w \in Worker, ~Raise(w),
           Gate(w) => ~Finish(w),
           \/ Gate(w) \/ RecordDownload(w) \/ StartDelete(w) \/ UnlinkFile(w)
           \/ RenameFile(w) \/ UnlinkOld(w)
    PROVE  StampsAreApart'
<1> DEFINE r == request[w]
<1>1. UNCHANGED <<rows, clashed, served>>
    BY DEF Gate, RecordDownload, StartDelete, UnlinkFile, RenameFile, UnlinkOld, tables, history
<1>2. CASE Gate(w) \/ RecordDownload(w) \/ StartDelete(w) \/ UnlinkFile(w)
    <2>1. r \in ItemRequest
        BY <1>2, Stages DEF Gate, RecordDownload, StartDelete, UnlinkFile
    <2>2. \E at \in {"gated", "recorded", "locked", "unlinked"} :
             Become(w, [request[w] EXCEPT !.at = at])
        BY <1>2 DEF Gate, RecordDownload, StartDelete, UnlinkFile
    <2>3. \A at \in {"gated", "recorded", "locked", "unlinked"} :
             [request[w] EXCEPT !.at = at] \in ItemRequest
        BY <2>1 DEF ItemRequest
    <2>4. files' = files \/ \E p : files' = [files EXCEPT ![p] = None]
        BY <1>2 DEF Gate, RecordDownload, StartDelete, UnlinkFile
    <2>5. \A p \in Path : files'[p] # None => files'[p] = files[p]
        BY <2>4 DEF CatalogTyped, CatalogTypeOK
    <2> QED BY <1>1, <2>1, <2>2, <2>3, <2>5, GoOnStamps
<1>3. CASE RenameFile(w)
    <2>1. r \in RenameRequest
        BY <1>3, Stages DEF RenameFile
    <2>2. [request[w] EXCEPT !.at = "renamed"] \in RenameRequest
        BY <2>1 DEF RenameRequest
    <2>3. /\ files[r.row.path] # None
          /\ files' = [files EXCEPT ![r.row.path] = None, ![r.path] = files[r.row.path]]
          /\ Become(w, [request[w] EXCEPT !.at = "renamed"])
          /\ r.row.path \in Path /\ r.path \in Path
        BY <1>3, <2>1 DEF RenameFile, RenameRequest, Row
    <2>4. \A p \in Path : files'[p] # None =>
             \E q \in Path : files[q] # None /\ files'[p] = files[q]
        <3> HIDE DEF r
        <3> QED BY <2>3 DEF CatalogTyped, CatalogTypeOK
    <2> QED BY <1>1, <2>1, <2>2, <2>3, <2>4, GoOnStamps
<1>4. CASE UnlinkOld(w)
    <2>1. r \in UploadRequest /\ r.at = "unlink"
        BY <1>4, Stages DEF UnlinkOld, Uploading, Stage
    <2>2. [request[w] EXCEPT !.at = "saved"] \in UploadRequest
        BY <2>1 DEF UploadRequest
    <2>3. /\ files' = [files EXCEPT ![r.row.path] = None]
          /\ Become(w, [request[w] EXCEPT !.at = "saved"])
        BY <1>4 DEF UnlinkOld
    <2>4. \A p \in Path : files'[p] # None => files'[p] = files[p]
        BY <2>3 DEF CatalogTyped, CatalogTypeOK
    <2> QED BY <1>1, <2>1, <2>2, <2>3, <2>4, GoOnStamps
<1> QED BY <1>2, <1>3, <1>4

\* The file that is moved in has the stamp it was saved with.
LEMMA MoveInStamps ==
    ASSUME CatalogTyped, NEW f \in StampMap, StampsFit(f), NEW w \in Worker, MoveIn(w)
    PROVE  StampsAreApart'
<1> DEFINE r == request[w]
           new == [request[w] EXCEPT !.at = "moved"]
<1>1. r \in UploadRequest /\ r.at = "saved"
    BY Stages DEF MoveIn, Uploading, Stage
<1>2. /\ files' = [files EXCEPT ![r.path] = r.file] /\ Become(w, new)
      /\ UNCHANGED <<rows, clashed, served>>
    BY DEF MoveIn, tables, history
<1>3. new \in UploadRequest /\ new.row = r.row /\ new.id = r.id /\ new.file = r.file
    BY <1>1 DEF UploadRequest
<1>4. Knows(f, served, clashed, r) /\ served \in Nat
    BY KnownRow
<1>5. Fits(f, served, r.file)
    BY <1>1, <1>4 DEF Knows, KnowsFile
<1>6. KnowsRow(f, served, clashed, new) /\ KnowsFile(f, served, clashed, new)
    BY <1>1, <1>3, <1>4, <1>5 DEF Knows, KnowsRow, KnowsFile
<1>7. Knows(f, served, clashed, new)
    BY <1>3, <1>6, Kinds
<1> HIDE DEF new, r
<1>8. \A p \in Path : files'[p] # None =>
         Fits(f, served, files'[p]) \/ \E q \in Path : files[q] # None /\ files'[p] = files[q]
    BY <1>2, <1>5 DEF CatalogTyped, CatalogTypeOK
<1>9. \A id \in Id : SameStamp(rows'[id], rows[id])
    BY <1>2 DEF SameStamp
<1> QED BY <1>2, <1>4, <1>7, <1>8, <1>9, StampsFrame

\* What index_file finds in the table fits.
LEMMA StatStamps ==
    ASSUME CatalogTyped, NEW f \in StampMap, StampsFit(f), NEW w \in Worker, StatFile(w),
           ~Raise(w)
    PROVE  StampsAreApart'
<1> DEFINE r == request[w]
           found == IF Renames(r) THEN [id |-> r.id, row |-> r.row] ELSE Found(r)
           new == [request[w] EXCEPT !.at = "stat", !.stat = files[r.path].stamp,
                                     !.id = found.id, !.row = found.row]
<1>1. r \in UploadRequest /\ r.at = "moved"
    BY Stages DEF StatFile, Uploading, Stage
<1>2. Become(w, new) /\ UNCHANGED <<files, rows, clashed, served>>
    BY DEF StatFile, tables, history
<1>3. Knows(f, served, clashed, r) /\ served \in Nat
    BY KnownRow
<1>4. KnowsRow(f, served, clashed, r) /\ Fits(f, served, r.file)
    BY <1>1, <1>3 DEF Knows, KnowsFile
<1>5. found.row # None /\ found.id \notin clashed => Fits(f, served, found.row)
    <2>1. CASE Renames(r)
        BY <1>4, <2>1 DEF KnowsRow
    <2>2. CASE ~Renames(r) /\ RowAt(rows, r.path) = {}
        BY <2>2 DEF Found
    <2>3. CASE ~Renames(r) /\ RowAt(rows, r.path) # {}
        <3>1. PICK id : id \in RowAt(rows, r.path) /\ id = CHOOSE i \in RowAt(rows, r.path) : TRUE
            BY <2>3
        <3>2. id \in Id /\ rows[id] # None
            BY <3>1 DEF RowAt
        <3>3. found.id = id /\ found.row = IF r.op = "replace" /\ id = r.id THEN r.row ELSE rows[id]
            BY <2>3, <3>1 DEF Found
        <3> QED BY <1>4, <3>2, <3>3, KnownRow DEF KnowsRow
    <2> QED BY <2>1, <2>2, <2>3
<1> HIDE DEF found
<1>6. /\ new.row = found.row /\ new.id = found.id /\ new.file = r.file /\ new.op = r.op
    BY <1>1 DEF UploadRequest
<1>7. KnowsRow(f, served, clashed, new) /\ KnowsFile(f, served, clashed, new)
    BY <1>4, <1>5, <1>6 DEF KnowsRow, KnowsFile
<1>8. Knows(f, served, clashed, new)
    BY <1>1, <1>6, <1>7 DEF Knows, UploadRequest, ScanRequest
<1> HIDE DEF new
<1> QED BY <1>2, <1>3, <1>8, StampsStay

\* What is read fits, or it is taken from a row that does not.
LEMMA ReadFileStamps ==
    ASSUME CatalogTyped, NEW f \in StampMap, StampsFit(f), NEW w \in Worker, ReadFile(w),
           ~Raise(w)
    PROVE  StampsAreApart'
<1> DEFINE r == request[w]
           read == Digest(r.row, r.stat, files[r.path])
           new == [request[w] EXCEPT !.at = "digest", !.file = read]
<1>1. r \in UploadRequest /\ r.path \in Path
    BY Stages DEF ReadFile, UploadRequest
<1>2. /\ Become(w, new) /\ files[r.path] # None
      /\ UNCHANGED <<files, rows, clashed, served>>
    BY DEF ReadFile, tables, history
<1>3. Knows(f, served, clashed, r) /\ served \in Nat /\ Fits(f, served, files[r.path])
    BY <1>1, <1>2, KnownRow DEF StampsFit, FilesFit
<1>4. KnowsRow(f, served, clashed, r)
    BY <1>1, <1>3 DEF Knows
<1>5. Fits(f, served, read) \/ (r.row # None /\ r.id \in clashed)
    <2>1. CASE r.row # None /\ r.row.stamp = r.stat
        <3>1. read = [content |-> r.row.content, stamp |-> r.stat]
            BY <2>1 DEF Digest
        <3>2. read.stamp = r.row.stamp /\ read.content = r.row.content
            BY <2>1, <3>1
        <3> HIDE DEF read
        <3> QED BY <1>4, <2>1, <3>2 DEF KnowsRow, Fits
    <2>2. CASE ~(r.row # None /\ r.row.stamp = r.stat)
        BY <1>3, <2>2 DEF Digest
    <2> QED BY <2>1, <2>2
<1> HIDE DEF read
<1>6. /\ new.row = r.row /\ new.id = r.id /\ new.file = read /\ new.at = "digest"
      /\ new.op = r.op
    BY <1>1 DEF UploadRequest
<1>7. KnowsRow(f, served, clashed, new) /\ KnowsFile(f, served, clashed, new)
    BY <1>4, <1>5, <1>6 DEF KnowsRow, KnowsFile
<1>8. Knows(f, served, clashed, new)
    BY <1>1, <1>6, <1>7 DEF Knows, UploadRequest, ScanRequest
<1> HIDE DEF new
<1> QED BY <1>2, <1>3, <1>8, StampsStay

\* An UPDATE of a row that is as it was loaded writes the new stamp and content.
LEMMA FlushStamps ==
    ASSUME NEW row \in Row, NEW loaded \in Row, NEW new \in Row
    PROVE  /\ SameStamp(row, loaded) => SameStamp(Flush(row, loaded, new), new)
           /\ SameStamp(new, loaded) => SameStamp(Flush(row, loaded, new), row)
<1>1. /\ Flush(row, loaded, new).stamp = IF new.stamp = loaded.stamp THEN row.stamp ELSE new.stamp
      /\ Flush(row, loaded, new).content =
            IF new.content = loaded.content THEN row.content ELSE new.content
    BY DEF Flush, Row
<1> QED BY <1>1 DEF SameStamp

LEMMA IndexIntoStamps ==
    ASSUME NEW table \in Table, NEW id \in Id, NEW loaded \in Row \union {None},
           loaded # None => table[id] \in Row,
           NEW p \in Path, NEW stamp \in 0 .. MaxRequests, NEW content \in Content
    PROVE  LET new == IndexInto(table, id, loaded, p, stamp, content) IN
           /\ (loaded # None => SameStamp(table[id], loaded)) =>
                 new[id].stamp = stamp /\ new[id].content = content
           /\ \A other \in Id \ {id} : new[other] = table[other]
<1> DEFINE new == IndexInto(table, id, loaded, p, stamp, content)
<1>1. CASE loaded = None
    <2> DEFINE row == [path |-> p, stamp |-> stamp, content |-> content, available |-> TRUE,
                       paid |-> FALSE]
    <2>1. new = [table EXCEPT ![id] = row] /\ row.stamp = stamp /\ row.content = content
        BY <1>1 DEF IndexInto
    <2> HIDE DEF row, new
    <2>2. new[id] = row /\ \A other \in Id \ {id} : new[other] = table[other]
        BY <2>1 DEF Table
    <2> QED BY <2>1, <2>2 DEF new
<1>2. CASE loaded # None
    <2> DEFINE indexed == Indexed(loaded, stamp, content)
               row == Flush(table[id], loaded, indexed)
    <2>1. new = [table EXCEPT ![id] = row]
        BY <1>2 DEF IndexInto
    <2>2. indexed \in Row /\ indexed.stamp = stamp /\ indexed.content = content
        BY <1>2, IndexedIsRow DEF Indexed, Row
    <2> HIDE DEF indexed
    <2>3. SameStamp(table[id], loaded) => SameStamp(row, indexed)
        BY <1>2, <2>2, FlushStamps
    <2> HIDE DEF row, new
    <2>4. new[id] = row /\ \A other \in Id \ {id} : new[other] = table[other]
        BY <2>1 DEF Table
    <2> QED BY <1>2, <2>2, <2>3, <2>4 DEF new, SameStamp
<1> QED BY <1>1, <1>2

\* A row is written with the stamp that was taken: of the file that was read, and over
\* the row that was loaded, or it is stale.
LEMMA CommitIndexStamps ==
    ASSUME CatalogTyped, NEW f \in StampMap, StampsFit(f), NEW w \in Worker, CommitIndex(w),
           ~Raise(w)
    PROVE  StampsAreApart'
<1> DEFINE r == request[w]
           id == IF r.row = None THEN NewId(rows) ELSE r.id
           moved == IF Renames(r) THEN [rows EXCEPT ![id].path = r.path] ELSE rows
<1>1. /\ r \in UploadRequest /\ r.row \in Row \union {None} /\ r.path \in Path
      /\ r.stat \in 0 .. MaxRequests /\ r.file.content \in Content /\ rows \in Table
    BY Stages DEF CommitIndex, UploadRequest, File, CatalogTyped, CatalogTypeOK, Table
<1>2. /\ r.row # None => rows[id] # None
      /\ id \in Id /\ rows' = IndexInto(moved, id, r.row, r.path, r.stat, r.file.content)
      /\ clashed' = clashed \union Stale({id}, [i \in Id |-> r.row]) \union Torn(id, r.stat, r.file)
      /\ Become(w, Idle) /\ UNCHANGED <<files, served>>
    BY DEF CommitIndex, Finish
<1>3. Knows(f, served, clashed, r) /\ served \in Nat /\ Knows(f, served', clashed', Idle)
    BY KnownRow, Kinds
<1>4. /\ moved \in Table /\ (r.row # None => moved[id] \in Row)
      /\ \A other \in Id : moved[other] = rows[other] \/
            (rows[other] # None /\ SameStamp(moved[other], rows[other]))
    <2>1. CASE ~Renames(r)
        BY <1>1, <1>2, <2>1 DEF Table
    <2>2. CASE Renames(r)
        <3>1. rows[id] \in Row /\ rows[id] # None
            BY <1>1, <1>2, <2>2 DEF Renames, Table
        <3> DEFINE row == [rows[id] EXCEPT !.path = r.path]
        <3>2. row \in Row /\ SameStamp(row, rows[id])
            BY <1>1, <3>1 DEF Row, SameStamp
        <3>3. moved = [rows EXCEPT ![id] = row]
            BY <2>2
        <3> HIDE DEF moved, id, row
        <3>4. moved = [other \in Id |-> IF other = id THEN row ELSE rows[other]]
            BY <1>1, <3>3 DEF Table
        <3>5. moved \in Table
            BY <1>1, <3>2, <3>4 DEF Table
        <3>6. moved[id] = row /\ \A other \in Id \ {id} : moved[other] = rows[other]
            BY <1>2, <3>4
        <3> QED BY <1>2, <3>1, <3>2, <3>5, <3>6
    <2> QED BY <2>1, <2>2
<1>5. ASSUME id \notin clashed' PROVE Fits(f, served, rows'[id])
    <2>1. r.file.stamp = r.stat /\ id \notin clashed
        BY <1>2, <1>5 DEF Torn
    <2>2. Fits(f, served, r.file)
        BY <1>1, <1>3, <2>1 DEF Knows, KnowsFile
    <2>3. r.row # None => SameStamp(moved[id], r.row)
        <3>1. r.row # None => rows[id] = r.row
            BY <1>2, <1>5 DEF Stale
        <3> HIDE DEF moved, id
        <3> QED BY <1>2, <1>4, <3>1 DEF SameStamp
    <2> HIDE DEF moved, id, r
    <2>4. rows'[id].stamp = r.stat /\ rows'[id].content = r.file.content
        BY <1>1, <1>2, <1>4, <2>3, IndexIntoStamps
    <2> QED BY <2>1, <2>2, <2>4 DEF Fits
<1> HIDE DEF moved, id, r
<1>6. \A other \in Id \ {id} : rows'[other] = moved[other]
    BY <1>2, <1>4 DEF IndexInto, Table
<1>7. \A other \in Id \ clashed' : rows'[other] # None =>
         Fits(f, served', rows'[other]) \/ (rows[other] # None /\ SameStamp(rows'[other], rows[other]))
    <2> SUFFICES ASSUME NEW other \in Id \ clashed', rows'[other] # None, other # id
                 PROVE  rows[other] # None /\ SameStamp(rows'[other], rows[other])
        BY <1>2, <1>5
    <2> QED BY <1>4, <1>6 DEF SameStamp
<1>8. /\ served' \in Nat /\ served <= served' /\ clashed \subseteq clashed'
      /\ Become(w, Idle) /\ files' = files
    BY <1>2, <1>3
<1> QED BY <1>3, <1>7, <1>8, StampsFrame

\* A new path or price leaves stamp and content.
LEMMA UpdateStamps ==
    ASSUME CatalogTyped, NEW f \in StampMap, StampsFit(f), NEW w \in Worker, ~Raise(w),
           CommitRename(w) \/ SetPrice(w) \/ CommitDelete(w)
    PROVE  StampsAreApart'
<1> DEFINE r == request[w]
<1>1. /\ Become(w, Idle) /\ UNCHANGED <<files, served>> /\ clashed \subseteq clashed'
    BY DEF CommitRename, SetPrice, CommitDelete, Finish, history
<1>2. served \in Nat /\ Knows(f, served', clashed', Idle)
    BY KnownRow, Kinds
<1>3. \A id \in Id : rows'[id] # None =>
         rows[id] # None /\ SameStamp(rows'[id], rows[id])
    <2>1. CASE CommitRename(w)
        <3>1. r \in RenameRequest
            BY <2>1, Stages DEF CommitRename
        <3>2. r.id \in Id /\ rows[r.id] \in Row /\ rows[r.id] # None
            BY <2>1, <3>1 DEF CommitRename, RenameRequest, CatalogTyped, CatalogTypeOK
        <3> DEFINE row == [rows[r.id] EXCEPT !.path = r.path]
        <3>3. SameStamp(row, rows[r.id])
            BY <3>2 DEF Row, SameStamp
        <3>4. rows' = [rows EXCEPT ![r.id] = row]
            BY <2>1 DEF CommitRename
        <3> HIDE DEF row, r
        <3> QED BY <3>2, <3>3, <3>4 DEF CatalogTyped, CatalogTypeOK, SameStamp
    <2>2. CASE SetPrice(w)
        <3>1. r \in ItemRequest
            BY <2>2, Stages DEF SetPrice
        <3>2. r.id \in Id /\ r.row \in Row /\ rows[r.id] \in Row /\ rows[r.id] # None
            BY <2>2, <3>1 DEF SetPrice, ItemRequest, CatalogTyped, CatalogTypeOK
        <3>3. PICK paid \in BOOLEAN :
                 rows' = [rows EXCEPT ![r.id] = Flush(rows[r.id], r.row, [r.row EXCEPT !.paid = paid])]
            BY <2>2 DEF SetPrice
        <3>4. [r.row EXCEPT !.paid = paid] \in Row /\ SameStamp([r.row EXCEPT !.paid = paid], r.row)
            BY <3>2 DEF Row, SameStamp
        <3> DEFINE row == Flush(rows[r.id], r.row, [r.row EXCEPT !.paid = paid])
        <3>5. SameStamp(row, rows[r.id])
            BY <3>2, <3>4, FlushStamps
        <3>6. rows' = [rows EXCEPT ![r.id] = row]
            BY <3>3
        <3> HIDE DEF row, r
        <3> QED BY <3>2, <3>5, <3>6 DEF CatalogTyped, CatalogTypeOK, SameStamp
    <2>3. CASE CommitDelete(w)
        <3>1. rows' = [rows EXCEPT ![r.id] = None]
            BY <2>3 DEF CommitDelete
        <3> HIDE DEF r
        <3> QED BY <3>1 DEF CatalogTyped, CatalogTypeOK, SameStamp
    <2> QED BY <2>1, <2>2, <2>3
<1> QED BY <1>1, <1>2, <1>3, StampsFrame

\* A hidden row is not available, and otherwise as it was.
LEMMA HideStamps ==
    ASSUME NEW table \in Table, NEW id \in Id, Hide(table)[id] # None
    PROVE  /\ table[id] # None /\ SameStamp(Hide(table)[id], table[id])
           /\ Hide(table)[id].path = table[id].path /\ ~Hide(table)[id].available
           /\ ~table[id].available => Hide(table)[id] = table[id]
<1>1. table[id] # None /\ Hide(table)[id] = [table[id] EXCEPT !.available = FALSE]
    BY DEF Hide
<1>2. table[id] \in Row
    BY <1>1 DEF Table
<1> DEFINE row == [table[id] EXCEPT !.available = FALSE]
<1>3. SameStamp(row, table[id]) /\ row.path = table[id].path /\ ~row.available
    BY <1>2 DEF Row, SameStamp
<1>4. ~table[id].available => row = table[id]
    BY <1>2 DEF Row
<1> QED BY <1>1, <1>3, <1>4

\* A scan loads all rows.
LEMMA StartScanStamps ==
    ASSUME CatalogTyped, NEW f \in StampMap, StampsFit(f), NEW w \in Worker, StartScan(w)
    PROVE  StampsAreApart'
<1> DEFINE new == [op |-> "scan", at |-> "read", loaded |-> rows, table |-> rows,
              todo |-> {p \in Path : files[p] # None}, path |-> None, id |-> 0, stat |-> 0,
              quiet |-> (\A v \in Worker \ {w} : request[v] = Idle), number |-> served + 1]
<1>1. Become(w, new) /\ served' = served + 1 /\ UNCHANGED <<files, rows, clashed>>
    BY DEF StartScan, tables, history
<1>2. new \in ScanRequest /\ new.table = rows /\ new.loaded = rows
    <2>1. served + 1 \in Nat /\ 0 \in 0 .. MaxRequests /\ rows \in Table
        BY BoundAssumption, KnownRow DEF CatalogTyped, CatalogTypeOK, Table
    <2> QED BY <2>1 DEF ScanRequest
<1> HIDE DEF new
<1>3. served \in Nat /\ served' \in Nat /\ served <= served'
    BY <1>1, KnownRow
<1>4. \A id \in Id \ clashed : rows[id] # None => Fits(f, served', rows[id])
    BY <1>3, KnownRow, FitsGrow
<1>5. KnowsTables(f, served', clashed, new)
    BY <1>2, <1>4 DEF KnowsTables, SameStamp
<1>6. Knows(f, served', clashed, new)
    BY <1>2, <1>5, Kinds
<1> QED BY <1>1, <1>3, <1>6, StampsStay

\* It hides them, and those that are not as they were loaded are stale.
LEMMA HideRowsStamps ==
    ASSUME CatalogTyped, NEW f \in StampMap, StampsFit(f), NEW w \in Worker, HideRows(w),
           ~Raise(w)
    PROVE  StampsAreApart'
<1> DEFINE r == request[w]
           hidden == {id \in Id : r.loaded[id] # None /\ r.loaded[id].available}
           table == [id \in Id |-> IF id \in hidden THEN Hide(rows)[id] ELSE rows[id]]
           new == [request[w] EXCEPT !.at = "next", !.loaded = Hide(@), !.table = table]
<1>1. /\ r \in ScanRequest /\ r.loaded \in Table /\ rows \in Table
    BY Stages DEF HideRows, ScanRequest, CatalogTyped, CatalogTypeOK, Table
<1>2. /\ Become(w, new) /\ UNCHANGED <<files, rows, served>>
      /\ clashed' = clashed \union Stale({id \in Id : r.loaded[id] # None}, r.loaded)
    BY DEF HideRows, tables
<1>3. \A id \in Id : table[id] # None => rows[id] # None /\ SameStamp(table[id], rows[id])
    <2> TAKE id \in Id
    <2>1. CASE id \in hidden
        <3>1. table[id] = Hide(rows)[id]
            BY <2>1
        <3> HIDE DEF table, hidden
        <3> QED BY <1>1, <3>1, HideStamps
    <2>2. CASE id \notin hidden
        <3>1. table[id] = rows[id]
            BY <2>2
        <3> QED BY <3>1 DEF SameStamp
    <2> QED BY <2>1, <2>2
<1> HIDE DEF table, hidden
<1>4. new.table = table /\ new.loaded = Hide(r.loaded) /\ new.op = "scan"
    BY <1>1 DEF ScanRequest
<1> HIDE DEF new
<1>5. /\ Knows(f, served, clashed, r) /\ served \in Nat /\ KnowsTables(f, served, clashed, r)
      /\ \A id \in Id : rows[id] # None /\ id \notin clashed => Fits(f, served, rows[id])
    BY <1>1, KnownRow DEF Knows
<1>6. KnowsTables(f, served, clashed', new)
    <2> SUFFICES ASSUME NEW id \in Id \ clashed'
                 PROVE  /\ table[id] # None => Fits(f, served, table[id])
                        /\ Hide(r.loaded)[id] # None => Fits(f, served, Hide(r.loaded)[id])
                        /\ table[id] # None /\ Hide(r.loaded)[id] # None =>
                              SameStamp(table[id], Hide(r.loaded)[id])
        BY <1>4 DEF KnowsTables
    <2>1. id \notin clashed
        BY <1>2
    <2> HIDE DEF r
    <2>2. Hide(r.loaded)[id] # None =>
             r.loaded[id] # None /\ SameStamp(Hide(r.loaded)[id], r.loaded[id])
        BY <1>1, HideStamps
    <2>3. rows[id] # None /\ r.loaded[id] # None => rows[id] = r.loaded[id]
        BY <1>2 DEF Stale
    <2> QED BY <1>3, <1>5, <2>1, <2>2, <2>3 DEF KnowsTables, Fits, SameStamp
<1>7. Knows(f, served, clashed', new)
    BY <1>4, <1>6 DEF Knows, ItemRequest, RenameRequest, UploadRequest
<1>8. /\ served' = served /\ clashed \subseteq clashed' /\ Become(w, new) /\ files' = files
      /\ \A id \in Id : SameStamp(rows'[id], rows[id])
      /\ rows' = rows
    BY <1>2 DEF SameStamp
<1> QED BY <1>5, <1>7, <1>8, StampsFrame

\* A file is to be read next.
LEMMA ScanStatStamps ==
    ASSUME CatalogTyped, NEW f \in StampMap, StampsFit(f), NEW w \in Worker, ScanStat(w)
    PROVE  StampsAreApart'
<1> DEFINE r == request[w]
<1>1. r \in ScanRequest
    BY Stages DEF ScanStat
<1>2. PICK p \in r.todo :
         Become(w, IF files[p] = None THEN [r EXCEPT !.todo = @ \ {p}]
                   ELSE [r EXCEPT !.at = "stat", !.path = p, !.stat = files[p].stamp])
    BY DEF ScanStat
<1>3. served \in Nat /\ served' = served /\ KnowsTables(f, served, clashed, r)
      /\ UNCHANGED <<files, rows, clashed>>
    BY <1>1, KnownRow DEF Knows, ScanStat, tables, history
<1> DEFINE new == IF files[p] = None THEN [r EXCEPT !.todo = @ \ {p}]
                  ELSE [r EXCEPT !.at = "stat", !.path = p, !.stat = files[p].stamp]
<1>4. new.table = r.table /\ new.loaded = r.loaded /\ new.op = "scan"
    BY <1>1 DEF ScanRequest
<1>5. Become(w, new)
    BY <1>2
<1> HIDE DEF new
<1>6. KnowsTables(f, served, clashed, new)
    BY <1>3, <1>4 DEF KnowsTables
<1>7. Knows(f, served, clashed, new)
    BY <1>4, <1>6 DEF Knows, ItemRequest, RenameRequest, UploadRequest
<1> QED BY <1>3, <1>5, <1>7, StampsStay

\* The table is committed.
LEMMA CommitScanStamps ==
    ASSUME CatalogTyped, NEW f \in StampMap, StampsFit(f), NEW w \in Worker, CommitScan(w)
    PROVE  StampsAreApart'
<1> DEFINE r == request[w]
           new == [request[w] EXCEPT !.at = "announce"]
<1>1. r \in ScanRequest
    BY Stages DEF CommitScan
<1>2. Become(w, new) /\ rows' = r.table /\ UNCHANGED <<files, clashed, served>>
    BY DEF CommitScan, history
<1>3. new.table = r.table /\ new.loaded = r.loaded /\ new.op = "scan"
    BY <1>1 DEF ScanRequest
<1>4. served \in Nat /\ KnowsTables(f, served, clashed, r)
    BY <1>1, KnownRow DEF Knows
<1> HIDE DEF new
<1>5. KnowsTables(f, served, clashed, new)
    BY <1>3, <1>4 DEF KnowsTables
<1>6. Knows(f, served, clashed, new)
    BY <1>3, <1>5 DEF Knows, ItemRequest, RenameRequest, UploadRequest
<1>7. \A id \in Id \ clashed : rows'[id] # None => Fits(f, served, rows'[id])
    BY <1>2, <1>4 DEF KnowsTables
<1> QED BY <1>2, <1>4, <1>6, <1>7, StampsFrame

\* A file that was read goes into the scan's table as one goes into the database's.
LEMMA ScanReadStamps ==
    ASSUME CatalogTyped, NEW f \in StampMap, StampsFit(f), NEW w \in Worker, ScanRead(w)
    PROVE  StampsAreApart'
<1> DEFINE r == request[w]
           old == RowAt(r.table, r.path)
           id == IF old = {} THEN NewId(r.table) ELSE CHOOSE i \in old : TRUE
           loaded == IF old = {} THEN None
                     ELSE IF r.loaded[id] # None THEN r.loaded[id] ELSE r.table[id]
           read == Digest(loaded, r.stat, files[r.path])
           after == [r EXCEPT !.at = "next", !.todo = @ \ {r.path}]
           table == IndexInto(r.table, id, loaded, r.path, r.stat, read.content)
           known == IF loaded = None THEN table[id] ELSE Indexed(loaded, r.stat, read.content)
           next == [after EXCEPT !.table = table, !.loaded[id] = known]
<1>1. /\ r \in ScanRequest /\ r.at = "stat"
      /\ r.table \in Table /\ r.loaded \in Table /\ r.path \in Path
      /\ r.stat \in 0 .. MaxRequests
    BY Stages DEF ScanRead, ScanRequest, Stage
<1>2. served \in Nat /\ KnowsTables(f, served, clashed, r) /\ UNCHANGED <<files, rows, served>>
    BY <1>1, KnownRow DEF Knows, ScanRead, tables
<1>3. after \in ScanRequest /\ after.table = r.table /\ after.loaded = r.loaded
    BY <1>1 DEF ScanRequest
<1>4. CASE files[r.path] = None
    <2>1. Become(w, after) /\ clashed' = clashed
        BY <1>4 DEF ScanRead
    <2> HIDE DEF after
    <2>2. KnowsTables(f, served, clashed, after)
        BY <1>2, <1>3 DEF KnowsTables
    <2>3. Knows(f, served, clashed, after)
        BY <1>3, <2>2, Kinds
    <2> QED BY <1>2, <2>1, <2>3, StampsStay
<1>5. CASE files[r.path] # None
    <2>1. /\ id \in Id /\ Become(w, next)
          /\ clashed' = clashed \union Torn(id, r.stat, read)
        BY <1>5 DEF ScanRead
    <2>2. /\ loaded \in Row \union {None}
          /\ loaded # None => /\ r.table[id] \in Row /\ r.table[id] # None
                              /\ loaded = IF r.loaded[id] # None THEN r.loaded[id] ELSE r.table[id]
        <3>1. CASE old = {}
            BY <3>1
        <3>2. CASE old # {}
            <4>1. id \in old
                BY <3>2
            <4>2. r.table[id] \in Row /\ r.table[id] # None
                BY <1>1, <4>1 DEF RowAt, Table
            <4>3. loaded = IF r.loaded[id] # None THEN r.loaded[id] ELSE r.table[id]
                BY <3>2
            <4> HIDE DEF id
            <4>4. r.loaded[id] \in Row \union {None}
                BY <1>1, <2>1 DEF Table
            <4> HIDE DEF loaded
            <4> QED BY <4>2, <4>3, <4>4
        <3> QED BY <3>1, <3>2
    <2>3. /\ files[r.path] \in File /\ Fits(f, served, files[r.path])
        BY <1>1, <1>5 DEF CatalogTyped, CatalogTypeOK, StampsFit, FilesFit
    <2> HIDE DEF id, loaded, r
    <2>4. read \in File /\ read.content \in Content
        BY <1>1, <2>2, <2>3, DigestIsFile DEF File
    <2>5. id \notin clashed /\ loaded # None =>
             Fits(f, served, loaded) /\ SameStamp(r.table[id], loaded)
        BY <1>2, <2>1, <2>2 DEF KnowsTables, SameStamp
    <2>6. id \notin clashed => Fits(f, served, read)
        <3>1. CASE loaded # None /\ loaded.stamp = r.stat
            <4>1. read = [content |-> loaded.content, stamp |-> r.stat]
                BY <3>1 DEF Digest
            <4>2. read.stamp = loaded.stamp /\ read.content = loaded.content
                BY <3>1, <4>1
            <4> HIDE DEF read
            <4> QED BY <2>5, <3>1, <4>2 DEF Fits
        <3>2. CASE ~(loaded # None /\ loaded.stamp = r.stat)
            BY <2>3, <3>2 DEF Digest
        <3> QED BY <3>1, <3>2
    <2> HIDE DEF read
    <2>7. id \notin clashed' => id \notin clashed /\ read.stamp = r.stat
        BY <2>1 DEF Torn
    <2>8. table \in Table
        BY <1>1, <2>1, <2>2, <2>4, IndexIntoIsTable
    <2>9. /\ (loaded # None => SameStamp(r.table[id], loaded)) =>
                table[id].stamp = r.stat /\ table[id].content = read.content
          /\ \A other \in Id \ {id} : table[other] = r.table[other]
        BY <1>1, <2>1, <2>2, <2>4, IndexIntoStamps
    <2>10. loaded # None => known.stamp = r.stat /\ known.content = read.content
        <3>1. loaded # None => loaded \in Row
            BY <2>2
        <3> QED BY <3>1 DEF Indexed, Row
    <2>11. loaded = None => known = table[id]
        OBVIOUS
    <2> HIDE DEF table, known, after
    <2>12. next.table = table /\ next.loaded = [after.loaded EXCEPT ![id] = known] /\ next.op = "scan"
        BY <1>3 DEF ScanRequest
    <2> HIDE DEF next
    <2>13. /\ next.loaded[id] = known
           /\ \A other \in Id \ {id} : next.loaded[other] = r.loaded[other]
        BY <1>1, <1>3, <2>1, <2>12 DEF Table
    <2>14. KnowsTables(f, served, clashed', next)
        <3> SUFFICES ASSUME NEW other \in Id \ clashed'
                     PROVE  /\ table[other] # None => Fits(f, served, table[other])
                            /\ next.loaded[other] # None => Fits(f, served, next.loaded[other])
                            /\ table[other] # None /\ next.loaded[other] # None =>
                                  SameStamp(table[other], next.loaded[other])
            BY <2>12 DEF KnowsTables
        <3>1. other \notin clashed
            BY <2>1
        <3>2. CASE other # id
            <4>1. table[other] = r.table[other] /\ next.loaded[other] = r.loaded[other]
                BY <2>9, <2>13, <3>2
            <4> QED BY <1>2, <3>1, <4>1 DEF KnowsTables
        <3>3. CASE other = id
            <4>1. Fits(f, served, read) /\ read.stamp = r.stat
                BY <2>6, <2>7, <3>3
            <4>2. table[id].stamp = r.stat /\ table[id].content = read.content
                BY <2>5, <2>9, <3>1, <3>3
            <4>3. known.stamp = r.stat /\ known.content = read.content
                BY <2>10, <2>11, <4>2
            <4> QED BY <2>13, <3>3, <4>1, <4>2, <4>3 DEF Fits, SameStamp
        <3> QED BY <3>2, <3>3
    <2>15. Knows(f, served, clashed', next)
        BY <2>12, <2>14 DEF Knows, ItemRequest, RenameRequest, UploadRequest
    <2>16. \A i \in Id : SameStamp(rows'[i], rows[i])
        BY <1>2 DEF SameStamp
    <2>17. /\ served' = served /\ clashed \subseteq clashed' /\ files' = files /\ rows' = rows
           /\ Become(w, next)
        BY <1>2, <2>1
    <2> QED BY <1>2, <2>15, <2>16, <2>17, StampsFrame
<1> QED BY <1>4, <1>5

\* Stamps stay apart through all steps of the catalogue.
LEMMA StampsStep == ASSUME CatalogTyped, StampsAreApart, CatalogNext PROVE StampsAreApart'
<1>1. PICK f \in StampMap : StampsFit(f)
    BY DEF StampsAreApart
<1>2. ASSUME NEW w \in Worker, Raise(w) PROVE StampsAreApart'
    BY <1>1, <1>2, EndStamps
<1>3. ASSUME NEW w \in Worker, Serve(w) PROVE StampsAreApart'
    <2>1. CASE Gate(w) /\ Finish(w)
        <3>1. Become(w, Idle) /\ UNCHANGED <<files, rows, clashed, served>>
            BY <2>1 DEF Gate, Finish, tables, history
        <3> QED BY <1>1, <3>1, Kinds, KnownRow, StampsStay
    <2>2. CASE AcceptCurrent(w) \/ SendFile(w) \/ SendTile(w)
        BY <1>1, <2>2, EndStamps
    <2>3. CASE ReadItem(w, "accept") \/ ReadItem(w, "download") \/ ReadItem(w, "preview")
        BY <1>1, <2>3, ReadStamps
    <2>4. CASE Gate(w) /\ ~Finish(w)
        BY <1>1, <1>2, <2>4, MoveStamps
    <2>5. CASE RecordDownload(w)
        <3>1. ~Gate(w)
            BY <2>5 DEF RecordDownload, Gate, Stage
        <3> QED BY <1>1, <1>2, <2>5, <3>1, MoveStamps
    <2> QED BY <1>3, <2>1, <2>2, <2>3, <2>4, <2>5 DEF Serve
<1>4. ASSUME NEW w \in Worker, Upload(w) PROVE StampsAreApart'
    <2>1. Gate(w) => ~UnlinkOld(w)
        BY DEF Gate, UnlinkOld, Stage
    <2>2. CASE UnlinkOld(w) /\ ~Raise(w)
        BY <1>1, <2>1, <2>2, MoveStamps
    <2>3. CASE StartUpload(w) \/ StartReplace(w) \/ MoveIn(w)
        BY <1>1, <2>3, SaveStamps, MoveInStamps
    <2>4. CASE (StatFile(w) \/ ReadFile(w) \/ CommitIndex(w)) /\ ~Raise(w)
        BY <1>1, <2>4, StatStamps, ReadFileStamps, CommitIndexStamps
    <2> QED BY <1>2, <1>4, <2>2, <2>3, <2>4 DEF Upload
<1>5. ASSUME NEW w \in Worker, Administer(w) PROVE StampsAreApart'
    <2>1. Gate(w) => ~RenameFile(w) /\ ~StartDelete(w) /\ ~UnlinkFile(w)
        BY DEF Gate, RenameFile, StartDelete, UnlinkFile, Stage
    <2>2. CASE (RenameFile(w) \/ StartDelete(w) \/ UnlinkFile(w)) /\ ~Raise(w)
        BY <1>1, <2>1, <2>2, MoveStamps
    <2>3. CASE StartRename(w) \/ ReadItem(w, "price") \/ ReadItem(w, "delete")
        BY <1>1, <2>3, ReadStamps
    <2>4. CASE (CommitRename(w) \/ SetPrice(w) \/ CommitDelete(w)) /\ ~Raise(w)
        BY <1>1, <2>4, UpdateStamps
    <2> QED BY <1>2, <1>5, <2>2, <2>3, <2>4 DEF Administer
<1>6. ASSUME NEW w \in Worker, Scan(w) PROVE StampsAreApart'
    <2>1. CASE (StartScan(w) \/ HideRows(w) \/ ScanStat(w)) /\ ~Raise(w)
        BY <1>1, <2>1, StartScanStamps, HideRowsStamps, ScanStatStamps
    <2>2. CASE ScanRead(w) \/ CommitScan(w) \/ AnnounceScan(w)
        BY <1>1, <2>2, ScanReadStamps, CommitScanStamps, EndStamps
    <2> QED BY <1>2, <1>6, <2>1, <2>2 DEF Scan
<1>7. ASSUME NEW w \in Worker, Kill(w) PROVE StampsAreApart'
    BY <1>1, <1>7, EndStamps
<1>8. ASSUME RaiseSafety PROVE StampsAreApart'
    <2>1. /\ served \in Nat /\ served' = served + 1 /\ UNCHANGED <<files, rows, clashed, request>>
        BY <1>1, <1>8, KnownRow DEF RaiseSafety, history
    <2>2. \A w \in Worker : Knows(f, served', clashed, request[w])
        BY <1>1, <2>1, KnowsGrow DEF StampsFit, RequestsFit
    <2>3. FilesFit(f)' /\ RowsFit(f)'
        BY <1>1, <2>1, FitsGrow DEF StampsFit, FilesFit, RowsFit
    <2> QED BY <1>1, <2>1, <2>2, <2>3 DEF StampsAreApart, StampsFit, RequestsFit
<1> QED BY <1>3, <1>4, <1>5, <1>6, <1>7, <1>8 DEF CatalogNext

\* At first there is one file, with one stamp.
LEMMA StampsInit == ASSUME CatalogInit PROVE StampsAreApart
<1>1. PICK c \in Content \union {None} :
         \A p \in Path : files[p] # None => files[p].stamp = 0 /\ files[p].content = c
    <2>1. CASE files = [p \in Path |-> None]
        BY <2>1
    <2>2. ASSUME NEW q \in Path, NEW c \in Content,
                 files = [p \in Path |-> IF p = q THEN [content |-> c, stamp |-> 0] ELSE None]
          PROVE  \A p \in Path : files[p] # None => files[p].stamp = 0 /\ files[p].content = c
        BY <2>2
    <2> QED BY <2>1, <2>2 DEF CatalogInit
<1> DEFINE f == [n \in Nat |-> c]
<1>2. f \in StampMap /\ f[0] = c
    BY DEF StampMap
<1>3. served = 0 /\ 0 \in 0 .. 0 /\ request = [w \in Worker |-> Idle]
    BY DEF CatalogInit
<1> HIDE DEF f
<1>4. FilesFit(f)
    BY <1>1, <1>2, <1>3 DEF FilesFit, Fits
<1>5. ASSUME NEW id \in Id, rows[id] # None PROVE Fits(f, served, rows[id])
    <2>1. PICK paid \in BOOLEAN : rows = FirstRows(paid)
        BY DEF CatalogInit
    <2> DEFINE p == CHOOSE q \in Path : files[q] # None
    <2>2. \E q \in Path : files[q] # None
        BY <1>5, <2>1 DEF FirstRows
    <2>3. p \in Path /\ files[p] # None
        BY <2>2
    <2>4. rows[id] = [path |-> p, stamp |-> 0, content |-> files[p].content,
                      available |-> TRUE, paid |-> paid]
        BY <1>5, <2>1, <2>2 DEF FirstRows
    <2> HIDE DEF p
    <2>5. rows[id].stamp = 0 /\ rows[id].content = c
        BY <1>1, <2>3, <2>4
    <2> QED BY <1>2, <1>3, <2>5 DEF Fits
<1>6. RowsFit(f) /\ RequestsFit(f)
    BY <1>3, <1>5, Kinds DEF RowsFit, RequestsFit
<1> QED BY <1>2, <1>4, <1>6 DEF StampsAreApart, StampsFit

\* A row that fits describes the file of its stamp.
LEMMA StampsIdentify == ASSUME CatalogTyped, StampsAreApart PROVE StampIdentifiesContent
<1>1. PICK f \in StampMap : FilesFit(f) /\ RowsFit(f)
    BY DEF StampsAreApart, StampsFit
<1>2. \A id \in Id : rows[id] # None => rows[id].path \in Path
    BY DEF CatalogTyped, CatalogTypeOK, Row
<1> QED BY <1>1, <1>2 DEF StampIdentifiesContent, Tells, FilesFit, RowsFit, Fits
-----------------------------------------------------------------------------
(***************************************************************************)
(* A scan that no other request overlaps.  Requests are counted as they    *)
(* begin, so that a scan whose number is the last has been alone since: it *)
(* loads the rows as they are, hides them all, and what it makes available *)
(* is what it has read.                                                    *)
(***************************************************************************)

\* The columns that a scan reads and writes.
SameRow(x, y) ==
    x.path = y.path /\ x.stamp = y.stamp /\ x.content = y.content /\ x.available = y.available

AllTell == \A id \in Id : rows[id] # None => Tells(id)

\* The scan of w began last, undisturbed.
Quiet(w) ==
    /\ request[w] \in ScanRequest /\ request[w].at # "announce"
    /\ request[w].quiet /\ request[w].number = served

\* What a scan has loaded is what it writes.
LoadedIsTable(r) ==
    \A id \in Id : /\ r.loaded[id] = None <=> r.table[id] = None
                   /\ r.table[id] # None => SameRow(r.loaded[id], r.table[id])

\* What it has not come to is as it was.
HiddenIsRow(r) ==
    \A id \in Id : r.table[id] # None /\ ~r.table[id].available =>
        /\ rows[id] # None /\ rows[id].path = r.table[id].path
        /\ rows[id].stamp = r.table[id].stamp /\ rows[id].content = r.table[id].content

\* What it has come to is as the files are.
AvailableIsFile(r) ==
    \A id \in Id : r.table[id] # None /\ r.table[id].available =>
        /\ r.table[id].path \notin r.todo
        /\ files[r.table[id].path] = [content |-> r.table[id].content, stamp |-> r.table[id].stamp]

FileIsAvailable(r) ==
    \A p \in Path \ r.todo : files[p] # None => \E id \in RowAt(r.table, p) : r.table[id].available

Repairing(r) ==
    /\ r.at = "read" => r.loaded = rows /\ r.todo = {p \in Path : files[p] # None}
    /\ r.at \in {"next", "stat"} =>
          /\ LoadedIsTable(r) /\ HiddenIsRow(r) /\ FileIsAvailable(r)
          /\ AllTell => AvailableIsFile(r)
    /\ r.at = "stat" => /\ r.path \in r.todo /\ files[r.path] # None
                        /\ r.stat = files[r.path].stamp

QuietScans ==
    \A w \in Worker :
        /\ request[w] \in ScanRequest => request[w].number <= served
        /\ Quiet(w) => (\A v \in Worker \ {w} : request[v] = Idle) /\ Repairing(request[w])

\* A step of the catalogue begins a request, or goes on with one.
Begins(v) ==
    /\ request[v] = Idle /\ served' = served + 1
    /\ \E r : Become(v, r) /\ (r.op = "scan" => StartScan(v))

ScanGoesOn(v) ==
    (HideRows(v) /\ ~Raise(v)) \/ ScanStat(v) \/ ScanRead(v) \/ CommitScan(v)

GoesOn(v) ==
    /\ request[v] # Idle /\ served' = served
    /\ \E r : Become(v, r) /\ (r.op # "scan" \/ ScanGoesOn(v))

LEMMA IdleEnds ==
    ASSUME NEW v \in Worker, request[v] # Idle, served' = served, Finish(v)
    PROVE  GoesOn(v)
<1>1. Become(v, Idle) /\ Idle.op # "scan"
    BY DEF Finish, Idle
<1> QED BY <1>1 DEF GoesOn

LEMMA RaiseEnds ==
    ASSUME NEW v \in Worker, request[v] # Idle, Raise(v) PROVE GoesOn(v)
BY IdleEnds DEF Raise

LEMMA StepActs ==
    ASSUME CatalogTyped, CatalogNext
    PROVE  RaiseSafety \/ \E v \in Worker : Begins(v) \/ GoesOn(v)
<1>1. ASSUME NEW v \in Worker, NEW op \in {"accept", "download", "preview", "price", "delete"},
             ReadItem(v, op)
      PROVE  Begins(v)
    BY <1>1 DEF ReadItem, Begins
<1>2. ASSUME NEW v \in Worker, StartUpload(v) \/ StartRename(v) \/ StartReplace(v)
      PROVE  Begins(v)
    <2>1. request[v] = Idle /\ served' = served + 1
        BY <1>2 DEF StartUpload, StartRename, StartReplace
    <2>2. \E r : Become(v, r) /\ r.op # "scan"
        <3>1. \A id, row, p, file : [op |-> "rename", at |-> "read", id |-> id, row |-> row,
                                     path |-> p].op # "scan"
            OBVIOUS
        <3>2. \A at, id, row, p, file :
                 /\ [op |-> "upload", at |-> at, id |-> id, row |-> row, path |-> p,
                     file |-> file, stat |-> 0].op # "scan"
                 /\ [op |-> "replace", at |-> at, id |-> id, row |-> row, path |-> p,
                     file |-> file, stat |-> 0].op # "scan"
            OBVIOUS
        <3>3. CASE StartUpload(v)
            BY <3>2, <3>3 DEF StartUpload
        <3>4. CASE StartReplace(v)
            BY <3>2, <3>4 DEF StartReplace
        <3>5. CASE StartRename(v)
            BY <3>1, <3>5 DEF StartRename
        <3> QED BY <1>2, <3>3, <3>4, <3>5
    <2> QED BY <2>1, <2>2 DEF Begins
<1>3. ASSUME NEW v \in Worker, StartScan(v) PROVE Begins(v)
    <2>1. request[v] = Idle /\ served' = served + 1 /\ \E r : Become(v, r)
        BY <1>3 DEF StartScan
    <2> QED BY <1>3, <2>1 DEF Begins
<1>4. ASSUME NEW v \in Worker,
             \/ AcceptCurrent(v) \/ SendFile(v) \/ SendTile(v) \/ CommitDelete(v)
             \/ AnnounceScan(v) \/ Kill(v)
      PROVE  GoesOn(v)
    <2>1. request[v] # Idle /\ served' = served /\ Finish(v)
        BY <1>4 DEF AcceptCurrent, SendFile, SendTile, CommitDelete, AnnounceScan, Kill, Stage
    <2> QED BY <2>1, IdleEnds
<1>5. ASSUME NEW v \in Worker, Gate(v) \/ RecordDownload(v) \/ StartDelete(v) \/ UnlinkFile(v)
      PROVE  GoesOn(v)
    <2>1. request[v] # Idle /\ served' = served /\ request[v] \in ItemRequest
        BY <1>5, Stages DEF Gate, RecordDownload, StartDelete, UnlinkFile, Stage, Raise
    <2>2. \/ Finish(v)
          \/ \E at : Become(v, [request[v] EXCEPT !.at = at])
        BY <1>5 DEF Gate, RecordDownload, StartDelete, UnlinkFile, Raise
    <2>3. \A at : [request[v] EXCEPT !.at = at].op # "scan"
        BY <2>1 DEF ItemRequest
    <2> QED BY <2>1, <2>2, <2>3, IdleEnds DEF GoesOn
<1>6. ASSUME NEW v \in Worker, RenameFile(v) \/ CommitRename(v) \/ SetPrice(v) PROVE GoesOn(v)
    <2>1. request[v] # Idle /\ served' = served
        BY <1>6 DEF RenameFile, CommitRename, SetPrice, Stage, Raise
    <2>2. Finish(v) \/ (RenameFile(v) /\ Become(v, [request[v] EXCEPT !.at = "renamed"]))
        BY <1>6 DEF RenameFile, CommitRename, SetPrice, Raise
    <2>3. RenameFile(v) => [request[v] EXCEPT !.at = "renamed"].op # "scan"
        BY Stages DEF RenameFile, RenameRequest
    <2> QED BY <2>1, <2>2, <2>3, IdleEnds DEF GoesOn
<1>7. ASSUME NEW v \in Worker,
             UnlinkOld(v) \/ MoveIn(v) \/ StatFile(v) \/ ReadFile(v) \/ CommitIndex(v)
      PROVE  GoesOn(v)
    <2>1. request[v] # Idle /\ served' = served /\ request[v] \in UploadRequest
        BY <1>7, Stages DEF UnlinkOld, MoveIn, StatFile, ReadFile, CommitIndex, Stage, Uploading,
                            Raise
    <2>2. \A at : [request[v] EXCEPT !.at = at].op # "scan"
        BY <2>1 DEF UploadRequest
    <2>3. Finish(v) \/ \E r : Become(v, r) /\ r.op # "scan"
        <3>1. CASE UnlinkOld(v) \/ MoveIn(v) \/ CommitIndex(v)
            BY <2>2, <3>1 DEF UnlinkOld, MoveIn, CommitIndex, Raise
        <3>2. CASE StatFile(v)
            <4> DEFINE found == IF Renames(request[v])
                                THEN [id |-> request[v].id, row |-> request[v].row]
                                ELSE Found(request[v])
                       new == [request[v] EXCEPT !.at = "stat",
                                  !.stat = files[request[v].path].stamp,
                                  !.id = found.id, !.row = found.row]
            <4>1. Raise(v) \/ Become(v, new)
                BY <3>2 DEF StatFile
            <4> HIDE DEF found
            <4>2. new.op # "scan"
                BY <2>1 DEF UploadRequest
            <4> HIDE DEF new
            <4> QED BY <4>1, <4>2 DEF Raise
        <3>3. CASE ReadFile(v)
            <4> DEFINE read == Digest(request[v].row, request[v].stat, files[request[v].path])
                       new == [request[v] EXCEPT !.at = "digest", !.file = read]
            <4>1. Raise(v) \/ Become(v, new)
                BY <3>3 DEF ReadFile
            <4>2. new.op # "scan"
                BY <2>1 DEF UploadRequest
            <4> HIDE DEF new
            <4> QED BY <4>1, <4>2 DEF Raise
        <3> QED BY <1>7, <3>1, <3>2, <3>3
    <2> QED BY <2>1, <2>3, IdleEnds DEF GoesOn
<1>8. ASSUME NEW v \in Worker, HideRows(v) \/ ScanStat(v) \/ ScanRead(v) \/ CommitScan(v)
      PROVE  GoesOn(v)
    <2>1. request[v] # Idle /\ served' = served
        BY <1>8 DEF HideRows, ScanStat, ScanRead, CommitScan, Stage, Raise
    <2>2. CASE Raise(v)
        BY <2>1, <2>2, RaiseEnds
    <2>3. CASE ~Raise(v)
        <3>1. \E r : Become(v, r)
            BY <1>8, <2>3 DEF HideRows, ScanStat, ScanRead, CommitScan
        <3> QED BY <1>8, <2>1, <2>3, <3>1 DEF GoesOn, ScanGoesOn
    <2> QED BY <2>2, <2>3
<1> QED BY <1>1, <1>2, <1>3, <1>4, <1>5, <1>6, <1>7, <1>8
        DEF CatalogNext, Serve, Upload, Administer, Scan

\* Of numbers one is the least.
LEMMA LeastNumber ==
    ASSUME NEW T \in SUBSET Nat, T # {} PROVE \E n \in T : \A m \in T : n <= m
<1> DEFINE R == {ss \in Nat \X Nat : ss[1] < ss[2]}
<1>1. IsWellFoundedOn(R, Nat)
    BY NatLessThanWellFounded DEF OpToRel
<1>2. \A m, n \in Nat : m < n => <<m, n>> \in R
    OBVIOUS
<1> HIDE DEF R
<1>3. PICK n \in T : \A m \in T : ~(<<m, n>> \in R)
    BY <1>1, WFMin
<1>4. \A m \in T : m \in Nat /\ n \in Nat /\ ~(m < n)
    BY <1>2, <1>3
<1> QED BY <1>4

\* The new id is above those in use.
LEMMA NewIdIsNew ==
    ASSUME NEW table
    PROVE  NewId(table) \in 1 .. MaxId + 1 /\ \A id \in Id : table[id] # None => id < NewId(table)
<1> DEFINE T == {n \in 1 .. MaxId + 1 : \A id \in Id : table[id] # None => id < n}
<1>1. MaxId \in Nat /\ Id = 1 .. MaxId
    BY BoundAssumption DEF Id
<1>2. MaxId + 1 \in T /\ T \in SUBSET Nat
    BY <1>1
<1>3. PICK n \in T : \A m \in T : n <= m
    <2> HIDE DEF T
    <2> QED BY <1>2, LeastNumber
<1>4. n = 1 \/ table[n - 1] # None
    <2> SUFFICES ASSUME n # 1 PROVE table[n - 1] # None
        OBVIOUS
    <2>1. n - 1 \in 1 .. MaxId + 1 /\ n - 1 \notin T /\ n \in Nat
        BY <1>1, <1>3
    <2>2. PICK id \in Id : table[id] # None /\ ~(id < n - 1)
        BY <2>1
    <2>3. id < n /\ id \in Nat
        BY <1>1, <1>3, <2>2
    <2>4. id = n - 1
        BY <2>1, <2>2, <2>3
    <2> QED BY <2>2, <2>4
<1>5. \E new \in 1 .. MaxId + 1 :
         /\ \A id \in Id : table[id] # None => id < new
         /\ new = 1 \/ table[new - 1] # None
    BY <1>3, <1>4
<1> QED BY <1>5 DEF NewId

\* A scan begins with the rows as they are.
LEMMA StartScanRepairs ==
    ASSUME CatalogTyped, NEW w \in Worker, StartScan(w), Quiet(w)'
    PROVE  (\A v \in Worker \ {w} : request'[v] = Idle) /\ Repairing(request[w])'
<1> DEFINE new == [op |-> "scan", at |-> "read", loaded |-> rows, table |-> rows,
              todo |-> {p \in Path : files[p] # None}, path |-> None, id |-> 0, stat |-> 0,
              quiet |-> (\A v \in Worker \ {w} : request[v] = Idle), number |-> served + 1]
<1>1. Become(w, new) /\ UNCHANGED <<files, rows>>
    BY DEF StartScan, tables
<1>2. /\ new.at = "read" /\ new.loaded = rows /\ new.todo = {p \in Path : files[p] # None}
      /\ new.quiet = (\A v \in Worker \ {w} : request[v] = Idle)
    OBVIOUS
<1> HIDE DEF new
<1>3. request'[w] = new /\ \A v \in Worker \ {w} : request'[v] = request[v]
    BY <1>1 DEF Become, CatalogTyped
<1> QED BY <1>1, <1>2, <1>3 DEF Quiet, Repairing

\* It hides them all.
LEMMA HideRowsRepairs ==
    ASSUME CatalogTyped, NEW w \in Worker, HideRows(w), ~Raise(w), Quiet(w),
           Repairing(request[w])
    PROVE  Repairing(request[w])'
<1> DEFINE r == request[w]
           hidden == {id \in Id : r.loaded[id] # None /\ r.loaded[id].available}
           table == [id \in Id |-> IF id \in hidden THEN Hide(rows)[id] ELSE rows[id]]
           new == [request[w] EXCEPT !.at = "next", !.loaded = Hide(@), !.table = table]
<1>1. /\ r \in ScanRequest /\ r.at = "read" /\ rows \in Table
      /\ r.loaded = rows /\ r.todo = {p \in Path : files[p] # None}
    BY Stages DEF HideRows, CatalogTyped, CatalogTypeOK, Table, Repairing, Stage
<1>2. Become(w, new) /\ UNCHANGED <<files, rows>>
    BY DEF HideRows, tables
<1>3. \A id \in Id : table[id] = Hide(rows)[id]
    <2> TAKE id \in Id
    <2>1. CASE id \in hidden
        BY <2>1
    <2>2. CASE id \notin hidden /\ rows[id] = None
        BY <2>2 DEF Hide
    <2>3. CASE id \notin hidden /\ rows[id] # None
        <3>1. ~rows[id].available /\ rows[id] \in Row
            BY <1>1, <2>3 DEF Table
        <3>2. [rows[id] EXCEPT !.available = FALSE] = rows[id]
            BY <3>1 DEF Row
        <3>3. Hide(rows)[id] = [rows[id] EXCEPT !.available = FALSE]
            BY <2>3 DEF Hide
        <3> QED BY <2>3, <3>2, <3>3
    <2> QED BY <2>1, <2>2, <2>3
<1> HIDE DEF table, hidden
<1>4. new.table = table /\ new.loaded = Hide(rows) /\ new.at = "next" /\ new.todo = r.todo
    BY <1>1 DEF ScanRequest
<1> HIDE DEF new
<1>5. request'[w] = new
    BY <1>2 DEF Become, CatalogTyped
<1>6. LoadedIsTable(new)
    BY <1>3, <1>4 DEF LoadedIsTable, SameRow
<1>7. \A id \in Id : new.table[id] # None =>
         /\ ~new.table[id].available /\ rows[id] # None /\ rows[id].path = new.table[id].path
         /\ rows[id].stamp = new.table[id].stamp /\ rows[id].content = new.table[id].content
    BY <1>1, <1>3, <1>4, HideStamps DEF SameStamp
<1>8. \A p \in Path \ new.todo : files[p] = None
    BY <1>1, <1>4
<1> QED BY <1>2, <1>4, <1>5, <1>6, <1>7, <1>8
        DEF Repairing, HiddenIsRow, AvailableIsFile, FileIsAvailable, LoadedIsTable

\* It takes the stamp of a file that is still there.
LEMMA ScanStatRepairs ==
    ASSUME CatalogTyped, NEW w \in Worker, ScanStat(w), Quiet(w), Repairing(request[w])
    PROVE  Repairing(request[w])'
<1> DEFINE r == request[w]
<1>1. r \in ScanRequest /\ r.at = "next"
    BY Stages DEF ScanStat, Stage
<1>2. PICK p \in r.todo :
         Become(w, IF files[p] = None THEN [r EXCEPT !.todo = @ \ {p}]
                   ELSE [r EXCEPT !.at = "stat", !.path = p, !.stat = files[p].stamp])
    BY DEF ScanStat
<1>3. UNCHANGED <<files, rows>>
    BY DEF ScanStat, tables
<1> DEFINE new == IF files[p] = None THEN [r EXCEPT !.todo = @ \ {p}]
                  ELSE [r EXCEPT !.at = "stat", !.path = p, !.stat = files[p].stamp]
<1>4. /\ new.table = r.table /\ new.loaded = r.loaded
      /\ \/ files[p] = None /\ new.todo = r.todo \ {p} /\ new.at = "next"
         \/ /\ files[p] # None /\ new.todo = r.todo /\ new.at = "stat" /\ new.path = p
            /\ new.stat = files[p].stamp
    BY <1>1 DEF ScanRequest
<1>5. Become(w, new)
    BY <1>2
<1> HIDE DEF new
<1>6. request'[w] = new
    BY <1>5 DEF Become, CatalogTyped
<1>7. LoadedIsTable(new) /\ HiddenIsRow(new) /\ (AllTell => AvailableIsFile(new))
    BY <1>1, <1>4 DEF Repairing, LoadedIsTable, HiddenIsRow, AvailableIsFile
<1>8. FileIsAvailable(new)
    BY <1>1, <1>4 DEF Repairing, FileIsAvailable
<1> HIDE DEF r
<1>9. Repairing(new)
    BY <1>2, <1>4, <1>7, <1>8 DEF Repairing
<1> QED BY <1>3, <1>6, <1>9 DEF Repairing, LoadedIsTable, HiddenIsRow, AvailableIsFile,
                                FileIsAvailable, AllTell, Tells

\* A row as index_file leaves it.
IsIndexed(row, p, stamp, content) ==
    /\ row # None /\ row.path = p /\ row.stamp = stamp /\ row.content = content
    /\ row.available = TRUE

LEMMA IndexedRow ==
    ASSUME NEW row \in Row, NEW loaded \in Row, SameRow(loaded, row),
           NEW stamp \in 0 .. MaxRequests, NEW content \in Content
    PROVE  LET new == Indexed(loaded, stamp, content) IN
           /\ IsIndexed(new, row.path, stamp, content)
           /\ IsIndexed(Flush(row, loaded, new), row.path, stamp, content)
<1> DEFINE new == Indexed(loaded, stamp, content)
<1>1. /\ new \in Row /\ new.path = loaded.path /\ new.stamp = stamp /\ new.content = content
      /\ new.available = TRUE
    BY IndexedIsRow DEF Indexed, Row
<1> HIDE DEF new
<1>2. Flush(row, loaded, new) \in Row
    BY <1>1, FlushIsRow
<1>3. /\ Flush(row, loaded, new).path = IF new.path = loaded.path THEN row.path ELSE new.path
      /\ Flush(row, loaded, new).stamp = IF new.stamp = loaded.stamp THEN row.stamp ELSE new.stamp
      /\ Flush(row, loaded, new).content =
            IF new.content = loaded.content THEN row.content ELSE new.content
      /\ Flush(row, loaded, new).available =
            IF new.available = loaded.available THEN row.available ELSE new.available
    BY DEF Flush, Row
<1>4. new.path = row.path
    BY <1>1 DEF SameRow
<1>5. IsIndexed(Flush(row, loaded, new), row.path, stamp, content)
    BY <1>1, <1>2, <1>3, RowAssumption DEF SameRow, IsIndexed
<1>6. IsIndexed(new, row.path, stamp, content)
    BY <1>1, <1>4, RowAssumption DEF IsIndexed
<1> QED BY <1>5, <1>6 DEF new

\* It makes a file available as it is.
LEMMA ScanReadRepairs ==
    ASSUME CatalogTyped, NEW w \in Worker, ScanRead(w), Quiet(w), Repairing(request[w])
    PROVE  Repairing(request[w])'
<1> DEFINE r == request[w]
           old == RowAt(r.table, r.path)
           id == IF old = {} THEN NewId(r.table) ELSE CHOOSE i \in old : TRUE
           loaded == IF old = {} THEN None
                     ELSE IF r.loaded[id] # None THEN r.loaded[id] ELSE r.table[id]
           read == Digest(loaded, r.stat, files[r.path])
           after == [r EXCEPT !.at = "next", !.todo = @ \ {r.path}]
           table == IndexInto(r.table, id, loaded, r.path, r.stat, read.content)
           known == IF loaded = None THEN table[id] ELSE Indexed(loaded, r.stat, read.content)
           next == [after EXCEPT !.table = table, !.loaded[id] = known]
<1>1. /\ r \in ScanRequest /\ r.at = "stat"
      /\ r.table \in Table /\ r.loaded \in Table /\ r.path \in Path
      /\ r.stat \in 0 .. MaxRequests
    BY Stages DEF ScanRead, ScanRequest, Stage
<1>2. /\ LoadedIsTable(r) /\ HiddenIsRow(r) /\ FileIsAvailable(r)
      /\ AllTell => AvailableIsFile(r)
      /\ r.path \in r.todo /\ files[r.path] # None /\ r.stat = files[r.path].stamp
    BY <1>1 DEF Repairing
<1>3. /\ id \in Id /\ Become(w, next) /\ UNCHANGED <<files, rows>>
    BY <1>2 DEF ScanRead, tables
<1>4. /\ after.todo = r.todo \ {r.path} /\ after.loaded = r.loaded /\ after.at = "next"
      /\ after \in ScanRequest
    BY <1>1 DEF ScanRequest
<1>5. /\ files[r.path] \in File /\ files[r.path].content \in Content
      /\ files[r.path] = [content |-> files[r.path].content, stamp |-> r.stat]
    BY <1>1, <1>2 DEF CatalogTyped, CatalogTypeOK, File
<1>6. \/ old = {} /\ loaded = None /\ r.table[id] = None
      \/ /\ old # {} /\ r.table[id] \in Row /\ r.table[id] # None /\ r.table[id].path = r.path
         /\ loaded = r.loaded[id] /\ loaded \in Row /\ loaded # None
         /\ SameRow(loaded, r.table[id])
    <2>1. CASE old = {}
        <3>1. id = NewId(r.table)
            BY <2>1
        <3>2. ~(NewId(r.table) < NewId(r.table))
            <4>1. NewId(r.table) \in 1 .. MaxId + 1 /\ MaxId \in Nat
                BY NewIdIsNew, BoundAssumption
            <4> QED BY <4>1
        <3>3. r.table[id] = None
            BY <1>3, <3>1, <3>2, NewIdIsNew
        <3> QED BY <2>1, <3>3
    <2>2. CASE old # {}
        <3>1. id \in old
            BY <2>2
        <3>2. r.table[id] # None /\ r.table[id].path = r.path
            BY <3>1 DEF RowAt
        <3>3. r.loaded[id] # None /\ SameRow(r.loaded[id], r.table[id])
            BY <1>2, <1>3, <3>2 DEF LoadedIsTable
        <3>4. loaded = r.loaded[id]
            BY <2>2, <3>3
        <3> HIDE DEF id, loaded
        <3>5. r.table[id] \in Row /\ r.loaded[id] \in Row
            BY <1>1, <1>3, <3>2, <3>3 DEF Table
        <3> QED BY <2>2, <3>2, <3>3, <3>4, <3>5
    <2> QED BY <2>1, <2>2
<1> HIDE DEF id, loaded, old
<1>7. read.content \in Content
    <2>1. read \in File
        BY <1>1, <1>5, <1>6, DigestIsFile
    <2> HIDE DEF read
    <2> QED BY <2>1 DEF File
<1>8. AllTell => read.content = files[r.path].content
    <2> SUFFICES ASSUME AllTell, loaded # None, loaded.stamp = r.stat
                 PROVE  loaded.content = files[r.path].content
        <3>1. loaded # None /\ loaded.stamp = r.stat => read.content = loaded.content
            BY DEF Digest
        <3>2. ~(loaded # None /\ loaded.stamp = r.stat) => read.content = files[r.path].content
            BY DEF Digest
        <3> HIDE DEF read
        <3> QED BY <3>1, <3>2
    <2>1. ~r.table[id].available
        BY <1>2, <1>3, <1>6 DEF AvailableIsFile
    <2>2. /\ rows[id] # None /\ rows[id].path = r.path /\ rows[id].stamp = loaded.stamp
          /\ rows[id].content = loaded.content
        BY <1>2, <1>3, <1>6, <2>1 DEF HiddenIsRow, SameRow
    <2> QED BY <1>2, <1>3, <2>2 DEF AllTell, Tells
<1> HIDE DEF read
<1>9. /\ IsIndexed(table[id], r.path, r.stat, read.content)
      /\ IsIndexed(known, r.path, r.stat, read.content)
      /\ \A other \in Id \ {id} : table[other] = r.table[other]
    <2>1. CASE loaded = None
        <3> DEFINE row == [path |-> r.path, stamp |-> r.stat, content |-> read.content,
                           available |-> TRUE, paid |-> FALSE]
        <3>1. row \in Row
            BY <1>1, <1>7 DEF Row
        <3>2. table = [r.table EXCEPT ![id] = row]
            BY <2>1 DEF IndexInto
        <3>3. IsIndexed(row, r.path, r.stat, read.content)
            BY <3>1, RowAssumption DEF IsIndexed
        <3> HIDE DEF row, r
        <3>4. table[id] = row /\ \A other \in Id \ {id} : table[other] = r.table[other]
            BY <1>1, <1>3, <3>2 DEF Table
        <3> QED BY <2>1, <3>3, <3>4
    <2>2. CASE loaded # None
        <3> DEFINE new == Indexed(loaded, r.stat, read.content)
        <3>1. table = [r.table EXCEPT ![id] = Flush(@, loaded, new)]
            BY <2>2 DEF IndexInto
        <3>2. /\ IsIndexed(new, r.path, r.stat, read.content)
              /\ IsIndexed(Flush(r.table[id], loaded, new), r.path, r.stat, read.content)
            BY <1>1, <1>6, <1>7, <2>2, IndexedRow
        <3>3. known = new
            BY <2>2
        <3> HIDE DEF new, r, table
        <3>4. /\ table[id] = Flush(r.table[id], loaded, new)
              /\ \A other \in Id \ {id} : table[other] = r.table[other]
            BY <1>1, <1>3, <3>1 DEF Table
        <3> QED BY <3>2, <3>3, <3>4
    <2> QED BY <2>1, <2>2
<1> HIDE DEF table, known, after
<1>10. /\ next.table = table /\ next.todo = r.todo \ {r.path} /\ next.at = "next"
       /\ next.loaded = [r.loaded EXCEPT ![id] = known]
    BY <1>4 DEF ScanRequest
<1> HIDE DEF next
<1>11. request'[w] = next
    BY <1>3 DEF Become, CatalogTyped
<1>12. /\ next.loaded[id] = known
       /\ \A other \in Id \ {id} : next.loaded[other] = r.loaded[other]
    BY <1>1, <1>3, <1>10 DEF Table
<1> HIDE DEF r
<1>13. LoadedIsTable(next)
    <2> SUFFICES ASSUME NEW i \in Id
                 PROVE  /\ next.loaded[i] = None <=> table[i] = None
                        /\ table[i] # None => SameRow(next.loaded[i], table[i])
        BY <1>10 DEF LoadedIsTable
    <2>1. CASE i = id
        BY <1>9, <1>12, <2>1 DEF SameRow, IsIndexed
    <2>2. CASE i # id
        <3>1. table[i] = r.table[i] /\ next.loaded[i] = r.loaded[i]
            BY <1>9, <1>12, <2>2
        <3> QED BY <1>2, <3>1 DEF LoadedIsTable
    <2> QED BY <2>1, <2>2
<1>14. HiddenIsRow(next)
    BY <1>2, <1>9, <1>10 DEF HiddenIsRow, IsIndexed
<1>15. ASSUME AllTell PROVE AvailableIsFile(next)
    <2> SUFFICES ASSUME NEW i \in Id, table[i] # None, table[i].available
                 PROVE  /\ table[i].path \notin next.todo
                        /\ files[table[i].path] =
                              [content |-> table[i].content, stamp |-> table[i].stamp]
        BY <1>10 DEF AvailableIsFile
    <2>1. CASE i = id
        BY <1>5, <1>8, <1>9, <1>10, <1>15, <2>1 DEF IsIndexed
    <2>2. CASE i # id
        <3>1. table[i] = r.table[i]
            BY <1>9, <2>2
        <3> QED BY <1>2, <1>10, <1>15, <3>1 DEF AvailableIsFile
    <2> QED BY <2>1, <2>2
<1>16. FileIsAvailable(next)
    <2> SUFFICES ASSUME NEW p \in Path \ next.todo, files[p] # None
                 PROVE  \E i \in Id : table[i] # None /\ table[i].path = p /\ table[i].available
        BY <1>10 DEF FileIsAvailable, RowAt
    <2>1. CASE p = r.path
        BY <1>3, <1>9, <2>1 DEF IsIndexed
    <2>2. CASE p # r.path
        <3>1. PICK i \in Id : r.table[i] # None /\ r.table[i].path = p /\ r.table[i].available
            BY <1>2, <1>10, <2>2 DEF FileIsAvailable, RowAt
        <3>2. i # id
            BY <1>6, <2>2, <3>1
        <3> QED BY <1>9, <3>1, <3>2
    <2> QED BY <2>1, <2>2
<1>17. Repairing(next)
    BY <1>10, <1>13, <1>14, <1>15, <1>16 DEF Repairing
<1> QED BY <1>3, <1>11, <1>17 DEF Repairing, LoadedIsTable, HiddenIsRow, AvailableIsFile,
                                  FileIsAvailable, AllTell, Tells

\* The scan's next steps, up to its commit.
LEMMA ScanStepRepairs ==
    ASSUME CatalogTyped, NEW w \in Worker, ScanGoesOn(w), Quiet(w), Repairing(request[w]),
           Quiet(w)'
    PROVE  Repairing(request[w])'
<1>1. ~CommitScan(w)
    <2> SUFFICES ASSUME CommitScan(w) PROVE FALSE
        OBVIOUS
    <2>1. request[w] \in ScanRequest /\ Become(w, [request[w] EXCEPT !.at = "announce"])
        BY Stages DEF CommitScan
    <2>2. request'[w] = [request[w] EXCEPT !.at = "announce"]
        BY <2>1 DEF Become, CatalogTyped
    <2> QED BY <2>1, <2>2 DEF Quiet, ScanRequest
<1> QED BY <1>1, HideRowsRepairs, ScanStatRepairs, ScanReadRepairs DEF ScanGoesOn

\* A scan keeps its number and what it was told of the others.
LEMMA ScanKeepsNumber ==
    ASSUME CatalogTyped, NEW w \in Worker, ScanGoesOn(w), request'[w] \in ScanRequest
    PROVE  /\ request[w] \in ScanRequest /\ request[w].at # "announce"
           /\ request'[w].number = request[w].number /\ request'[w].quiet = request[w].quiet
<1> DEFINE r == request[w]
<1>1. r \in ScanRequest /\ r.at # "announce"
    BY Stages DEF ScanGoesOn, HideRows, ScanStat, ScanRead, CommitScan, Stage
<1>2. ASSUME NEW new, Become(w, new) PROVE request'[w] = new
    BY <1>2 DEF Become, CatalogTyped
<1>3. \E new : Become(w, new) /\ new.number = r.number /\ new.quiet = r.quiet
    <2>1. CASE HideRows(w) /\ ~Raise(w)
        <3>1. PICK loaded, table :
                 Become(w, [r EXCEPT !.at = "next", !.loaded = loaded, !.table = table])
            BY <2>1 DEF HideRows
        <3> DEFINE new == [r EXCEPT !.at = "next", !.loaded = loaded, !.table = table]
        <3>2. Become(w, new) /\ new.number = r.number /\ new.quiet = r.quiet
            BY <1>1, <3>1 DEF ScanRequest
        <3> HIDE DEF new
        <3> QED BY <3>2
    <2>2. CASE ScanStat(w)
        <3>1. PICK p : \/ Become(w, [r EXCEPT !.todo = @ \ {p}])
                       \/ Become(w, [r EXCEPT !.at = "stat", !.path = p, !.stat = files[p].stamp])
            BY <2>2 DEF ScanStat
        <3>2. /\ LET new == [r EXCEPT !.todo = @ \ {p}]
                 IN  new.number = r.number /\ new.quiet = r.quiet
              /\ LET new == [r EXCEPT !.at = "stat", !.path = p, !.stat = files[p].stamp]
                 IN  new.number = r.number /\ new.quiet = r.quiet
            BY <1>1 DEF ScanRequest
        <3> QED BY <3>1, <3>2
    <2>3. CASE ScanRead(w)
        <3> DEFINE after == [r EXCEPT !.at = "next", !.todo = @ \ {r.path}]
        <3>1. after.number = r.number /\ after.quiet = r.quiet /\ after \in ScanRequest
            BY <1>1 DEF ScanRequest
        <3>2. \/ Become(w, after)
              \/ \E i, table, known :
                    Become(w, [after EXCEPT !.table = table, !.loaded[i] = known])
            BY <2>3 DEF ScanRead
        <3> HIDE DEF after
        <3>3. CASE Become(w, after)
            BY <3>1, <3>3
        <3>4. ASSUME NEW i, NEW table, NEW known,
                     Become(w, [after EXCEPT !.table = table, !.loaded[i] = known])
              PROVE  \E new : Become(w, new) /\ new.number = r.number /\ new.quiet = r.quiet
            <4> DEFINE new == [after EXCEPT !.table = table, !.loaded[i] = known]
            <4>1. Become(w, new) /\ new.number = after.number /\ new.quiet = after.quiet
                BY <3>1, <3>4 DEF ScanRequest
            <4> HIDE DEF new
            <4> QED BY <3>1, <4>1
        <3> QED BY <3>2, <3>3, <3>4
    <2>4. CASE CommitScan(w)
        <3>1. LET new == [r EXCEPT !.at = "announce"]
              IN  new.number = r.number /\ new.quiet = r.quiet
            BY <1>1 DEF ScanRequest
        <3>2. Become(w, [r EXCEPT !.at = "announce"])
            BY <2>4 DEF CommitScan
        <3> QED BY <3>1, <3>2
    <2> QED BY <2>1, <2>2, <2>3, <2>4 DEF ScanGoesOn
<1> QED BY <1>1, <1>2, <1>3

\* The step of another request begins it, and then the scan is not the last to begin.
LEMMA QuietScansStep ==
    ASSUME CatalogTyped, QuietScans, CatalogNext PROVE QuietScans'
<1> USE DEF CatalogTyped, CatalogTypeOK
<1>1. served \in Nat /\ Idle \notin ScanRequest
    BY BoundAssumption DEF Idle, ScanRequest
<1> SUFFICES ASSUME NEW w \in Worker, request'[w] \in ScanRequest
             PROVE  /\ request'[w].number <= served'
                    /\ Quiet(w)' => /\ \A v \in Worker \ {w} : request'[v] = Idle
                                    /\ Repairing(request[w])'
    BY DEF QuietScans, Quiet
<1>2. CASE RaiseSafety
    <2>1. request' = request /\ served' = served + 1
        BY <1>2 DEF RaiseSafety
    <2>2. request[w].number <= served /\ request[w].number \in Nat
        BY <2>1 DEF QuietScans, ScanRequest
    <2> QED BY <1>1, <2>1, <2>2 DEF Quiet
<1>3. ASSUME NEW v \in Worker, Begins(v)
      PROVE  /\ request'[w].number <= served'
             /\ Quiet(w)' => /\ \A u \in Worker \ {w} : request'[u] = Idle
                             /\ Repairing(request[w])'
    <2>1. CASE v # w
        <3>1. request'[w] = request[w] /\ served' = served + 1
            BY <1>3, <2>1 DEF Begins, Become
        <3>2. request[w].number <= served /\ request[w].number \in Nat
            BY <3>1 DEF QuietScans, ScanRequest
        <3> QED BY <1>1, <3>1, <3>2 DEF Quiet
    <2>2. CASE v = w
        <3>1. PICK r : Become(w, r) /\ (r.op = "scan" => StartScan(w))
            BY <1>3, <2>2 DEF Begins
        <3>2. request'[w] = r /\ r.op = "scan"
            BY <3>1 DEF Become, ScanRequest
        <3>3. StartScan(w) /\ served' = served + 1
            BY <1>3, <2>2, <3>1, <3>2 DEF Begins
        <3>4. request'[w].number = served + 1
            <4> DEFINE new == [op |-> "scan", at |-> "read", loaded |-> rows, table |-> rows,
                          todo |-> {p \in Path : files[p] # None}, path |-> None, id |-> 0,
                          stat |-> 0, quiet |-> (\A u \in Worker \ {w} : request[u] = Idle),
                          number |-> served + 1]
            <4>1. Become(w, new) /\ new.number = served + 1
                BY <3>3 DEF StartScan
            <4> HIDE DEF new
            <4> QED BY <4>1 DEF Become
        <3> QED BY <1>1, <3>3, <3>4, StartScanRepairs
    <2> QED BY <2>1, <2>2
<1>4. ASSUME NEW v \in Worker, GoesOn(v)
      PROVE  /\ request'[w].number <= served'
             /\ Quiet(w)' => /\ \A u \in Worker \ {w} : request'[u] = Idle
                             /\ Repairing(request[w])'
    <2>1. CASE v # w
        <3>1. request'[w] = request[w] /\ served' = served /\ request[v] # Idle
            BY <1>4, <2>1 DEF GoesOn, Become
        <3>2. ~Quiet(w)
            BY <2>1, <3>1 DEF QuietScans
        <3> QED BY <3>1, <3>2 DEF Quiet, QuietScans
    <2>2. CASE v = w
        <3>1. PICK r : Become(w, r) /\ (r.op # "scan" \/ ScanGoesOn(w))
            BY <1>4, <2>2 DEF GoesOn
        <3>2. request'[w] = r /\ \A u \in Worker \ {w} : request'[u] = request[u]
            BY <3>1 DEF Become
        <3>3. ScanGoesOn(w) /\ served' = served
            BY <1>4, <2>2, <3>1, <3>2 DEF ScanRequest, GoesOn
        <3>4. /\ request[w] \in ScanRequest /\ request[w].at # "announce"
              /\ request'[w].number = request[w].number /\ request'[w].quiet = request[w].quiet
            BY <3>3, ScanKeepsNumber
        <3>5. Quiet(w)' => Quiet(w)
            BY <3>3, <3>4 DEF Quiet
        <3>6. Quiet(w)' => Repairing(request[w])'
            BY <3>3, <3>5, ScanStepRepairs DEF QuietScans
        <3> QED BY <3>2, <3>3, <3>4, <3>5, <3>6 DEF QuietScans
    <2> QED BY <2>1, <2>2
<1> QED BY <1>2, <1>3, <1>4, StepActs

LEMMA QuietScansInit == ASSUME CatalogInit PROVE QuietScans
<1>1. \A w \in Worker : request[w] = Idle
    BY DEF CatalogInit
<1>2. Idle \notin ScanRequest
    BY DEF Idle, ScanRequest
<1> QED BY <1>1, <1>2 DEF QuietScans, Quiet

\* What a quiet scan commits is what is in the directory.
LEMMA QuietScanCommits ==
    ASSUME CatalogTyped, QuietScans, NEW w \in Worker, CommitScan(w),
           request[w].quiet, request[w].number = served, AllTell
    PROVE  /\ \A id \in Id : rows'[id] # None /\ rows'[id].available =>
                 files[rows'[id].path] = [content |-> rows'[id].content, stamp |-> rows'[id].stamp]
           /\ \A p \in Path : files[p] # None => \E id \in RowAt(rows', p) : rows'[id].available
<1>1. /\ request[w] \in ScanRequest /\ request[w].at = "next" /\ request[w].todo = {}
      /\ rows' = request[w].table
    BY Stages DEF CommitScan, Stage
<1>2. Repairing(request[w])
    BY <1>1 DEF QuietScans, Quiet
<1> QED BY <1>1, <1>2 DEF Repairing, AvailableIsFile, FileIsAvailable
-----------------------------------------------------------------------------
(***************************************************************************)
(* The write lock.  A step is of one thread, which keeps to the lock: it   *)
(* passes without it, takes it, or returns it.                             *)
(***************************************************************************)

\* The lock stays as it is; if a table changes, the statement is a transaction of its own.
Passes(v) ==
    /\ writer' = writer
    /\ Writes(request'[v]) <=> Writes(request[v])
    /\ UNCHANGED tables \/ (MayWrite(v) /\ ~Writes(request[v]))

Takes(v) == MayWrite(v) /\ writer' = v /\ Writes(request'[v]) /\ UNCHANGED tables

\* Rolled back, or committed by who holds the lock or could take it.
Returns(v) ==
    /\ ~Writes(request'[v])
    /\ \/ writer' = (IF writer = v THEN None ELSE writer) /\ UNCHANGED tables
       \/ writer' = None /\ (MayWrite(v) \/ Writes(request[v]))

KeepsToTheLock(v) ==
    /\ \A u \in Worker \ {v} : request'[u] = request[u]
    /\ Passes(v) \/ Takes(v) \/ Returns(v)

\* What each kind of request has written.
LEMMA WritesOf ==
    /\ ~Writes(Idle)
    /\ \A r \in ItemRequest : Writes(r) <=> r.op = "delete" /\ r.at \in {"locked", "unlinked"}
    /\ \A r \in RenameRequest : ~Writes(r)
    /\ \A r \in UploadRequest :
          Writes(r) <=> r.op = "replace" /\ r.at \in {"stat", "digest"} /\ Renames(r)
    /\ \A r \in ScanRequest : Writes(r) <=> r.at \in {"next", "stat"}
BY DEF Writes, Idle, ItemRequest, RenameRequest, UploadRequest, ScanRequest

LEMMA BecomesThat ==
    ASSUME CatalogTyped, NEW v \in Worker, NEW r, Become(v, r)
    PROVE  request'[v] = r /\ \A u \in Worker \ {v} : request'[u] = request[u]
BY DEF CatalogTyped, Become

\* A request that ends has nothing written.
LEMMA EndsUnlocked ==
    ASSUME CatalogTyped, NEW v \in Worker, Finish(v)
    PROVE  ~Writes(request'[v]) /\ \A u \in Worker \ {v} : request'[u] = request[u]
BY BecomesThat, WritesOf DEF Finish

LEMMA RaiseLocks ==
    ASSUME CatalogTyped, NEW v \in Worker, Raise(v) PROVE KeepsToTheLock(v)
<1>1. ~Writes(request'[v]) /\ \A u \in Worker \ {v} : request'[u] = request[u]
    BY EndsUnlocked DEF Raise
<1> QED BY <1>1 DEF Raise, KeepsToTheLock, Returns

\* A request begins, and has written nothing.
LEMMA BeginLocks ==
    ASSUME CatalogTyped, NEW v \in Worker, request[v] = Idle, UNCHANGED <<tables, writer>>,
           NEW r, Become(v, r), r.at \in {"read", "saved", "unlink"}
    PROVE  KeepsToTheLock(v)
<1>1. ~Writes(r)
    BY DEF Writes
<1>2. request'[v] = r /\ \A u \in Worker \ {v} : request'[u] = request[u]
    BY BecomesThat
<1> QED BY <1>1, <1>2, WritesOf DEF KeepsToTheLock, Passes

LEMMA ReadItemLocks ==
    ASSUME CatalogTyped, NEW v \in Worker, NEW op, ReadItem(v, op) PROVE KeepsToTheLock(v)
<1>1. PICK id \in Id, u \in User :
        Become(v, [op |-> op, at |-> "read", user |-> u, id |-> id, row |-> rows[id]])
    BY DEF ReadItem
<1> DEFINE r == [op |-> op, at |-> "read", user |-> u, id |-> id, row |-> rows[id]]
<1>2. r.at = "read" /\ Become(v, r)
    BY <1>1
<1>3. request[v] = Idle /\ UNCHANGED <<tables, writer>>
    BY DEF ReadItem
<1> HIDE DEF r
<1> QED BY <1>2, <1>3, BeginLocks

LEMMA ServeLocks ==
    ASSUME CatalogTyped, NEW v \in Worker, Serve(v) PROVE KeepsToTheLock(v)
<1> DEFINE r == request[v]
<1>1. ASSUME AcceptCurrent(v) \/ SendFile(v) \/ SendTile(v) PROVE KeepsToTheLock(v)
    <2>1. /\ r \in ItemRequest /\ r.op # "delete" /\ Finish(v) /\ writer' = writer
          /\ UNCHANGED tables \/ MayWrite(v)
        BY <1>1, Stages DEF AcceptCurrent, SendFile, SendTile, Stage
    <2> QED BY <2>1, EndsUnlocked, WritesOf DEF KeepsToTheLock, Passes
<1>2. ASSUME Gate(v) \/ RecordDownload(v) PROVE KeepsToTheLock(v)
    <2>1. /\ r \in ItemRequest /\ r.op # "delete" /\ writer' = writer
          /\ UNCHANGED tables \/ MayWrite(v)
          /\ Finish(v) \/ \E at : Become(v, [r EXCEPT !.at = at])
        BY <1>2, Stages DEF Gate, RecordDownload, Stage
    <2>2. CASE Finish(v)
        BY <2>1, <2>2, EndsUnlocked, WritesOf DEF KeepsToTheLock, Passes
    <2>3. ASSUME NEW at, Become(v, [r EXCEPT !.at = at]) PROVE KeepsToTheLock(v)
        <3>1. ~Writes([r EXCEPT !.at = at])
            BY <2>1 DEF Writes, ItemRequest
        <3> QED BY <2>1, <2>3, <3>1, BecomesThat, WritesOf DEF KeepsToTheLock, Passes
    <2> QED BY <2>1, <2>2, <2>3
<1> QED BY <1>1, <1>2, ReadItemLocks DEF Serve

\* Unless the row is to be renamed, index_file finds the row of the path.
LEMMA FoundDoesNotRename ==
    ASSUME CatalogTyped, NEW r \in UploadRequest, ~Renames(r), r.op = "replace",
           Found(r).row # None
    PROVE  Found(r).row.path = r.path
<1>1. PICK id : /\ id \in RowAt(rows, r.path)
                /\ id = CHOOSE i \in RowAt(rows, r.path) : TRUE
    BY DEF Found
<1>2. Found(r).row = IF r.op = "replace" /\ id = r.id THEN r.row ELSE rows[id]
    BY <1>1 DEF Found
<1>3. rows[id].path = r.path
    BY <1>1 DEF RowAt
<1> QED BY <1>2, <1>3 DEF Renames

LEMMA UploadLocks ==
    ASSUME CatalogTyped, NEW v \in Worker, Upload(v) PROVE KeepsToTheLock(v)
<1> DEFINE r == request[v]
<1>1. ASSUME StartUpload(v) PROVE KeepsToTheLock(v)
    <2>1. PICK p \in Path, c \in Content :
             Become(v, [op |-> "upload", at |-> "saved", id |-> 0, row |-> None, path |-> p,
                        file |-> [content |-> c, stamp |-> served + 1], stat |-> 0])
        BY <1>1 DEF StartUpload
    <2> DEFINE new == [op |-> "upload", at |-> "saved", id |-> 0, row |-> None, path |-> p,
                       file |-> [content |-> c, stamp |-> served + 1], stat |-> 0]
    <2>2. new.at = "saved" /\ Become(v, new)
        BY <2>1
    <2>3. request[v] = Idle /\ UNCHANGED <<tables, writer>>
        BY <1>1 DEF StartUpload
    <2> HIDE DEF new
    <2> QED BY <2>2, <2>3, BeginLocks
<1>2. ASSUME StartReplace(v) PROVE KeepsToTheLock(v)
    <2>1. PICK id \in Id, p \in Path, c \in Content :
             Become(v, [op |-> "replace", at |-> IF p = rows[id].path THEN "saved" ELSE "unlink",
                      id |-> id, row |-> rows[id], path |-> p,
                      file |-> [content |-> c, stamp |-> served + 1], stat |-> 0])
        BY <1>2 DEF StartReplace
    <2> DEFINE new == [op |-> "replace", at |-> IF p = rows[id].path THEN "saved" ELSE "unlink",
                      id |-> id, row |-> rows[id], path |-> p,
                      file |-> [content |-> c, stamp |-> served + 1], stat |-> 0]
    <2>2. new.at \in {"saved", "unlink"} /\ Become(v, new)
        BY <2>1
    <2>3. request[v] = Idle /\ UNCHANGED <<tables, writer>>
        BY <1>2 DEF StartReplace
    <2> HIDE DEF new
    <2> QED BY <2>2, <2>3, BeginLocks
<1>3. ASSUME UnlinkOld(v) \/ MoveIn(v) PROVE KeepsToTheLock(v)
    <2>1. /\ r \in UploadRequest /\ r.at \in {"unlink", "saved"} /\ UNCHANGED <<tables, writer>>
          /\ \E at \in {"saved", "moved"} : Become(v, [r EXCEPT !.at = at])
        BY <1>3, Stages DEF UnlinkOld, MoveIn, Uploading, Stage
    <2>2. PICK at \in {"saved", "moved"} : Become(v, [r EXCEPT !.at = at])
        BY <2>1
    <2>3. ~Writes([r EXCEPT !.at = at]) /\ ~Writes(r)
        BY <2>1 DEF Writes, UploadRequest
    <2> QED BY <2>1, <2>2, <2>3, BecomesThat DEF KeepsToTheLock, Passes
<1>4. ASSUME StatFile(v) PROVE KeepsToTheLock(v)
    <2> DEFINE found == IF Renames(r) THEN [id |-> r.id, row |-> r.row] ELSE Found(r)
               new == [r EXCEPT !.at = "stat", !.stat = files[r.path].stamp,
                                !.id = found.id, !.row = found.row]
    <2>1. r \in UploadRequest /\ r.at = "moved"
        BY <1>4, Stages DEF StatFile, Uploading, Stage
    <2>2. CASE Raise(v)
        BY <2>2, RaiseLocks
    <2>3. CASE ~Raise(v)
        <3>1. /\ Renames(r) => MayWrite(v)
              /\ writer' = IF Renames(r) THEN v ELSE writer
              /\ Become(v, new) /\ UNCHANGED tables
            BY <1>4, <2>3 DEF StatFile
        <3>2. new.op = r.op /\ new.at = "stat" /\ new.row = found.row /\ new.path = r.path
              /\ r.op \in {"upload", "replace"}
            BY <2>1 DEF UploadRequest
        <3>3. Renames(r) => found.row = r.row
            OBVIOUS
        <3>4. ~Renames(r) => found = Found(r)
            OBVIOUS
        <3>5. request'[v] = new /\ \A u \in Worker \ {v} : request'[u] = request[u]
            BY <3>1, BecomesThat
        <3>6. ~Writes(r)
            BY <2>1 DEF Writes, UploadRequest
        <3> HIDE DEF new, found
        <3>7. CASE Renames(r)
            <4>1. Writes(new)
                BY <3>2, <3>3, <3>7 DEF Writes, Renames
            <4> QED BY <3>1, <3>5, <3>7, <4>1 DEF KeepsToTheLock, Takes
        <3>8. CASE ~Renames(r)
            <4>1. r.op = "replace" /\ found.row # None => found.row.path = r.path
                BY <2>1, <3>4, <3>8, FoundDoesNotRename
            <4>2. ~Writes(new)
                BY <3>2, <4>1 DEF Writes, Renames
            <4> QED BY <3>1, <3>5, <3>6, <3>8, <4>2 DEF KeepsToTheLock, Passes
        <3> QED BY <3>7, <3>8
    <2> QED BY <2>2, <2>3
<1>5. ASSUME ReadFile(v) PROVE KeepsToTheLock(v)
    <2> DEFINE read == Digest(r.row, r.stat, files[r.path])
               new == [r EXCEPT !.at = "digest", !.file = read]
    <2>1. r \in UploadRequest /\ r.at = "stat"
        BY <1>5, Stages DEF ReadFile, Uploading, Stage
    <2>2. CASE Raise(v)
        BY <2>2, RaiseLocks
    <2>3. CASE ~Raise(v)
        <3>1. Become(v, new) /\ UNCHANGED <<tables, writer>>
            BY <1>5, <2>3 DEF ReadFile
        <3> HIDE DEF read
        <3>2. Writes(new) <=> Writes(r)
            BY <2>1 DEF Writes, Renames, UploadRequest
        <3>3. request'[v] = new /\ \A u \in Worker \ {v} : request'[u] = request[u]
            BY <3>1, BecomesThat
        <3> HIDE DEF new
        <3> QED BY <3>1, <3>2, <3>3 DEF KeepsToTheLock, Passes
    <2> QED BY <2>2, <2>3
<1>6. ASSUME CommitIndex(v) PROVE KeepsToTheLock(v)
    <2>1. Raise(v) \/ (MayWrite(v) /\ writer' = None /\ Finish(v))
        BY <1>6 DEF CommitIndex
    <2> QED BY <2>1, RaiseLocks, EndsUnlocked DEF KeepsToTheLock, Returns
<1> QED BY <1>1, <1>2, <1>3, <1>4, <1>5, <1>6 DEF Upload

LEMMA AdministerLocks ==
    ASSUME CatalogTyped, NEW v \in Worker, Administer(v) PROVE KeepsToTheLock(v)
<1> DEFINE r == request[v]
<1>1. ASSUME StartRename(v) PROVE KeepsToTheLock(v)
    <2>1. PICK id \in Id, p \in Path :
             Become(v, [op |-> "rename", at |-> "read", id |-> id, row |-> rows[id], path |-> p])
        BY <1>1 DEF StartRename
    <2> DEFINE new == [op |-> "rename", at |-> "read", id |-> id, row |-> rows[id], path |-> p]
    <2>2. new.at = "read" /\ Become(v, new)
        BY <2>1
    <2>3. request[v] = Idle /\ UNCHANGED <<tables, writer>>
        BY <1>1 DEF StartRename
    <2> HIDE DEF new
    <2> QED BY <2>2, <2>3, BeginLocks
<1>2. ASSUME RenameFile(v), ~Raise(v) PROVE KeepsToTheLock(v)
    <2>1. /\ r \in RenameRequest /\ UNCHANGED <<tables, writer>>
          /\ Become(v, [r EXCEPT !.at = "renamed"])
        BY <1>2, Stages DEF RenameFile
    <2>2. ~Writes([r EXCEPT !.at = "renamed"]) /\ ~Writes(r)
        BY <2>1 DEF Writes, RenameRequest
    <2> QED BY <2>1, <2>2, BecomesThat DEF KeepsToTheLock, Passes
<1>3. ASSUME CommitRename(v) \/ SetPrice(v), ~Raise(v) PROVE KeepsToTheLock(v)
    <2>1. MayWrite(v) /\ writer' = writer /\ Finish(v)
        BY <1>3 DEF CommitRename, SetPrice
    <2>2. ~Writes(r)
        BY <1>3, Stages, WritesOf DEF CommitRename, SetPrice, Stage
    <2> QED BY <2>1, <2>2, EndsUnlocked DEF KeepsToTheLock, Passes
<1>4. ASSUME StartDelete(v), ~Raise(v) PROVE KeepsToTheLock(v)
    <2>1. /\ r \in ItemRequest /\ r.op = "delete" /\ MayWrite(v) /\ writer' = v
          /\ Become(v, [r EXCEPT !.at = "locked"]) /\ UNCHANGED tables
        BY <1>4, Stages DEF StartDelete, Stage
    <2>2. Writes([r EXCEPT !.at = "locked"])
        BY <2>1 DEF Writes, ItemRequest
    <2> QED BY <2>1, <2>2, BecomesThat DEF KeepsToTheLock, Takes
<1>5. ASSUME UnlinkFile(v), ~Raise(v) PROVE KeepsToTheLock(v)
    <2>1. /\ r \in ItemRequest /\ r.op = "delete" /\ r.at = "locked"
          /\ Become(v, [r EXCEPT !.at = "unlinked"]) /\ UNCHANGED <<tables, writer>>
        BY <1>5, Stages DEF UnlinkFile, Stage
    <2>2. Writes([r EXCEPT !.at = "unlinked"]) /\ Writes(r)
        BY <2>1 DEF Writes, ItemRequest
    <2> QED BY <2>1, <2>2, BecomesThat DEF KeepsToTheLock, Passes
<1>6. ASSUME CommitDelete(v) PROVE KeepsToTheLock(v)
    <2>1. r \in ItemRequest /\ r.op = "delete" /\ r.at = "unlinked" /\ writer' = None /\ Finish(v)
        BY <1>6, Stages DEF CommitDelete, Stage
    <2> QED BY <2>1, EndsUnlocked, WritesOf DEF KeepsToTheLock, Returns
<1> QED BY <1>1, <1>2, <1>3, <1>4, <1>5, <1>6, ReadItemLocks, RaiseLocks DEF Administer

LEMMA ScanLocks ==
    ASSUME CatalogTyped, NEW v \in Worker, Scan(v) PROVE KeepsToTheLock(v)
<1> DEFINE r == request[v]
<1>1. ASSUME StartScan(v) PROVE KeepsToTheLock(v)
    <2> DEFINE new == [op |-> "scan", at |-> "read", loaded |-> rows, table |-> rows,
                  todo |-> {p \in Path : files[p] # None}, path |-> None, id |-> 0, stat |-> 0,
                  quiet |-> (\A w \in Worker \ {v} : request[w] = Idle), number |-> served + 1]
    <2>1. new.at = "read" /\ Become(v, new) /\ request[v] = Idle /\ UNCHANGED <<tables, writer>>
        BY <1>1 DEF StartScan
    <2> HIDE DEF new
    <2> QED BY <2>1, BeginLocks
<1>2. ASSUME HideRows(v), ~Raise(v) PROVE KeepsToTheLock(v)
    <2>1. r \in ScanRequest /\ MayWrite(v) /\ writer' = v /\ UNCHANGED tables
        BY <1>2, Stages DEF HideRows
    <2>2. PICK loaded, table :
             Become(v, [r EXCEPT !.at = "next", !.loaded = loaded, !.table = table])
        BY <1>2 DEF HideRows
    <2>3. Writes([r EXCEPT !.at = "next", !.loaded = loaded, !.table = table])
        BY <2>1 DEF Writes, ScanRequest
    <2> QED BY <2>1, <2>2, <2>3, BecomesThat DEF KeepsToTheLock, Takes
<1>3. ASSUME ScanStat(v) \/ ScanRead(v) PROVE KeepsToTheLock(v)
    <2>1. /\ r \in ScanRequest /\ r.at \in {"next", "stat"} /\ Writes(r)
          /\ UNCHANGED <<tables, writer>>
        BY <1>3, Stages DEF ScanStat, ScanRead, Stage, Writes
    <2>2. \E new : Become(v, new) /\ Writes(new)
        <3>1. CASE ScanStat(v)
            <4>1. PICK p : \/ Become(v, [r EXCEPT !.todo = @ \ {p}])
                           \/ Become(v, [r EXCEPT !.at = "stat", !.path = p,
                                                  !.stat = files[p].stamp])
                BY <3>1 DEF ScanStat
            <4>2. /\ Writes([r EXCEPT !.todo = @ \ {p}])
                  /\ Writes([r EXCEPT !.at = "stat", !.path = p, !.stat = files[p].stamp])
                BY <2>1 DEF Writes, ScanRequest
            <4> QED BY <4>1, <4>2
        <3>2. CASE ScanRead(v)
            <4> DEFINE read == [r EXCEPT !.at = "next", !.todo = @ \ {r.path}]
            <4>1. read \in ScanRequest /\ read.at = "next"
                BY <2>1 DEF ScanRequest
            <4>2. \/ Become(v, read)
                  \/ \E table, id, known :
                        Become(v, [read EXCEPT !.table = table, !.loaded[id] = known])
                BY <3>2, ScanReadBecomes
            <4> HIDE DEF read
            <4>3. \A table, id, known :
                     Writes([read EXCEPT !.table = table, !.loaded[id] = known])
                BY <4>1 DEF Writes, ScanRequest
            <4>4. Writes(read)
                BY <4>1, WritesOf
            <4> QED BY <4>2, <4>3, <4>4
        <3> QED BY <1>3, <3>1, <3>2
    <2> QED BY <2>1, <2>2, BecomesThat DEF KeepsToTheLock, Passes
<1>4. ASSUME CommitScan(v) PROVE KeepsToTheLock(v)
    <2>1. /\ r \in ScanRequest /\ r.at = "next" /\ writer' = None
          /\ Become(v, [r EXCEPT !.at = "announce"])
        BY <1>4, Stages DEF CommitScan, Stage
    <2>2. Writes(r) /\ ~Writes([r EXCEPT !.at = "announce"])
        BY <2>1 DEF Writes, ScanRequest
    <2> QED BY <2>1, <2>2, BecomesThat DEF KeepsToTheLock, Returns
<1>5. ASSUME AnnounceScan(v) PROVE KeepsToTheLock(v)
    <2>1. r \in ScanRequest /\ r.at = "announce" /\ MayWrite(v) /\ writer' = writer /\ Finish(v)
        BY <1>5, Stages DEF AnnounceScan, Stage
    <2> QED BY <2>1, EndsUnlocked, WritesOf DEF KeepsToTheLock, Passes
<1> QED BY <1>1, <1>2, <1>3, <1>4, <1>5, RaiseLocks DEF Scan

\* Every step of the catalogue keeps to the lock.
LEMMA CatalogLocks ==
    ASSUME CatalogTyped, CatalogNext
    PROVE  \/ writer = None /\ UNCHANGED <<writer, request>>
           \/ \E v \in Worker : KeepsToTheLock(v)
<1>1. ASSUME NEW v \in Worker, Kill(v) PROVE KeepsToTheLock(v)
    BY <1>1, EndsUnlocked DEF Kill, KeepsToTheLock, Returns
<1>2. ASSUME RaiseSafety PROVE writer = None /\ UNCHANGED <<writer, request>>
    BY <1>2 DEF RaiseSafety
<1> QED BY <1>1, <1>2, ServeLocks, UploadLocks, AdministerLocks, ScanLocks DEF CatalogNext
-----------------------------------------------------------------------------
(***************************************************************************)
(* Notifications: what the catalogue announces.                            *)
(***************************************************************************)

\* A notification is of a release that is newer than one its user has, and of none
\* that is older than any.
IsUpdate(n) ==
    /\ Accessed(n.user) # {}
    /\ \A s \in Accessed(n.user) : s < n.sequence

\* Updates to announce, one of an item for a user.
AreUpdates(notices) ==
    /\ \A n \in notices : IsUpdate(n)
    /\ \A n, m \in notices : n.user = m.user /\ n.item = m.item => n = m

LEMMA NoticesOfItem ==
    ASSUME NEW id, NEW content
    PROVE  /\ AreUpdates(Notices(id, content))
           /\ \A n \in Notices(id, content) : n.item = id
BY DEF Notices, AreUpdates, IsUpdate

LEMMA NoticesOfItems ==
    ASSUME NEW ids, NEW contents
    PROVE  AreUpdates(UNION {Notices(id, contents[id]) : id \in ids})
<1> DEFINE all == UNION {Notices(id, contents[id]) : id \in ids}
<1>1. ASSUME NEW n \in all PROVE n \in Notices(n.item, contents[n.item])
    <2>1. PICK id \in ids : n \in Notices(id, contents[id])
        BY <1>1
    <2> QED BY <2>1, NoticesOfItem
<1> HIDE DEF all
<1>2. \A n \in all : IsUpdate(n)
    BY <1>1, NoticesOfItem DEF AreUpdates
<1>3. ASSUME NEW n \in all, NEW m \in all, n.user = m.user, n.item = m.item PROVE n = m
    <2>1. n \in Notices(n.item, contents[n.item]) /\ m \in Notices(n.item, contents[n.item])
        BY <1>1, <1>3
    <2> QED BY <1>3, <2>1, NoticesOfItem DEF AreUpdates
<1> QED BY <1>2, <1>3 DEF AreUpdates, all

\* A step of the catalogue announces updates or nothing.
LEMMA CatalogAnnounces ==
    ASSUME CatalogTyped, CatalogNext
    PROVE  \/ notifications' = notifications
           \/ \E notices : Announce(notices) /\ AreUpdates(notices)
<1> DEFINE Goal == \/ notifications' = notifications
                   \/ \E notices : Announce(notices) /\ AreUpdates(notices)
<1>1. ASSUME NEW w \in Worker, Serve(w) PROVE Goal
    BY <1>1 DEF Serve, ReadItem, AcceptCurrent, Gate, RecordDownload, SendFile, SendTile, tables
<1>2. ASSUME NEW w \in Worker, Raise(w) \/ Kill(w) PROVE Goal
    BY <1>2 DEF Raise, Kill, tables
<1>3. ASSUME NEW w \in Worker, CommitIndex(w) PROVE Goal
    <2>1. PICK id, content :
             Raise(w) \/ notifications' = notifications \/ Announce(Notices(id, content))
        BY <1>3 DEF CommitIndex
    <2> QED BY <1>2, <2>1, NoticesOfItem
<1>4. ASSUME NEW w \in Worker, Upload(w), ~CommitIndex(w), ~Raise(w) PROVE Goal
    <2>1. CASE StartUpload(w)
        BY <2>1 DEF StartUpload, tables
    <2>2. CASE StartReplace(w)
        <3>1. UNCHANGED tables
            BY <2>2 DEF StartReplace
        <3> QED BY <3>1 DEF tables
    <2>3. CASE UnlinkOld(w) \/ MoveIn(w) \/ StatFile(w) \/ ReadFile(w)
        <3>1. UNCHANGED tables
            BY <1>4, <2>3 DEF UnlinkOld, MoveIn, StatFile, ReadFile
        <3> QED BY <3>1 DEF tables
    <2> QED BY <1>4, <2>1, <2>2, <2>3 DEF Upload
<1>5. ASSUME NEW w \in Worker, Administer(w), ~Raise(w) PROVE Goal
    BY <1>5 DEF Administer, StartRename, RenameFile, CommitRename, ReadItem, SetPrice,
                StartDelete, UnlinkFile, CommitDelete, tables
<1>6. ASSUME NEW w \in Worker, AnnounceScan(w) PROVE Goal
    <2> DEFINE ids == {i \in Id : rows[i] # None /\ rows[i].available}
               contents == [i \in Id |-> rows[i].content]
               all == UNION {Notices(id, contents[id]) : id \in ids}
    <2>1. Announce(all)
        <3>1. UNION {Notices(id, rows[id].content) : id \in ids} = all
            OBVIOUS
        <3>2. Announce(UNION {Notices(id, rows[id].content) : id \in ids})
            BY <1>6 DEF AnnounceScan
        <3> HIDE DEF all
        <3> QED BY <3>1, <3>2
    <2> HIDE DEF ids, contents
    <2>2. AreUpdates(all)
        BY NoticesOfItems
    <2> HIDE DEF all
    <2> QED BY <2>1, <2>2
<1>7. ASSUME NEW w \in Worker, Scan(w), ~AnnounceScan(w), ~Raise(w) PROVE Goal
    <2>1. CASE StartScan(w)
        BY <2>1 DEF StartScan, tables
    <2>2. CASE HideRows(w)
        <3>1. UNCHANGED tables
            BY <1>7, <2>2 DEF HideRows
        <3> QED BY <3>1 DEF tables
    <2>3. CASE ScanStat(w) \/ ScanRead(w)
        <3>1. UNCHANGED tables
            BY <2>3 DEF ScanStat, ScanRead
        <3> QED BY <3>1 DEF tables
    <2>4. CASE CommitScan(w)
        BY <2>4 DEF CommitScan
    <2> QED BY <1>7, <2>1, <2>2, <2>3, <2>4 DEF Scan
<1>8. ASSUME RaiseSafety PROVE Goal
    BY <1>8 DEF RaiseSafety
<1> HIDE DEF Goal
<1>9. Goal
    BY <1>1, <1>2, <1>3, <1>4, <1>5, <1>6, <1>7, <1>8 DEF CatalogNext
<1> QED BY <1>9 DEF Goal
=============================================================================
