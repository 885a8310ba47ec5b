---------------------------- MODULE StoreCatalog ----------------------------
(***************************************************************************)
(* The catalogue of the DataTiles Store (src/store/datatiles_store/app.py, *)
(* catalog.py, agreements.py): a directory of files, the database that     *)
(* indexes it, and what the users of the store accept and download.        *)
(*                                                                         *)
(* Several threads serve requests.  A request reads rows in autocommit and *)
(* keeps them; its first INSERT, UPDATE or DELETE takes the database's     *)
(* write lock, which it holds until it commits; files change at once.  An  *)
(* UPDATE writes the columns that differ from what the request had loaded. *)
(* Foreign keys are not enforced and SQLite gives the id of the last row   *)
(* again when that row was deleted.                                        *)
(*                                                                         *)
(* Abstracted: the permission of the user; a file saved at another time    *)
(* has another stamp (size and mtime); metadata and digest of a file are   *)
(* read in one step; one product; the licence and the release are          *)
(* functions of the content; a request that raises changes nothing more    *)
(* than one that is killed at the same place.                              *)
(***************************************************************************)
EXTENDS Integers, FiniteSets

CONSTANTS
    Worker,         \* threads that serve the catalogue
    Cashier,        \* threads that serve payments (StoreCommerce)
    User,
    Path,           \* names in the catalogue directory
    Content,        \* what a DataTiles file can hold; its SHA-256 stands for it
    Sequence,       \* content -> its release's sequence, 0 when it is not a release
    None,
    MaxId,          \* bound: row ids
    MaxRequests,    \* bound: requests served
    MaxFaults,      \* bound: requests killed, or refused the write lock
    MaxSafety       \* bound: versions of the safety text

ASSUME SequenceAssumption == Sequence \in [Content -> Nat]
ASSUME BoundAssumption ==
    MaxId \in Nat \ {0} /\ MaxRequests \in Nat /\ MaxFaults \in Nat /\ MaxSafety \in Nat \ {0}

VARIABLES
    files,          \* path -> the file there, or None
    rows,           \* id -> catalog_items, or None
    acceptances,    \* agreement_acceptances
    downloads,      \* download_records, with the price of the row they were gated by
    purchases,      \* purchase_records
    notifications,  \* update_notifications
    safety,         \* agreement.safety.version
    writer,         \* who holds the write lock, or None
    request,        \* worker -> the request it serves
    served,         \* how many requests began; stamps are taken from it too
    faults,         \* how many requests were killed
    clashed,        \* history: rows written on a stale reading of the row or of its file
    accepted,       \* history: what users ever accepted
    sent            \* history: what was sent to users

history == <<clashed, accepted, sent>>
tables == <<rows, acceptances, downloads, purchases, notifications, safety>>
catalogVars == <<files, tables, writer, request, served, faults, history>>

Id == 1 .. MaxId

File == [content : Content, stamp : 0 .. MaxRequests]

Row == [path : Path, stamp : 0 .. MaxRequests, content : Content,
        available : BOOLEAN, paid : BOOLEAN]

ASSUME RowAssumption == None \notin Row

AgreementAcceptance == [user : User, item : Id, content : Content, safety : 1 .. MaxSafety]

DownloadRecord == [user : User, item : Id, content : Content, paid : BOOLEAN]

UpdateNotification == [user : User, item : Id, sequence : Nat]
-----------------------------------------------------------------------------
Idle == [op |-> "idle"]

Become(w, r) == request' = [request EXCEPT ![w] = r]

Finish(w) == Become(w, Idle)

Stage(w, op, at) == request[w] # Idle /\ request[w].op = op /\ request[w].at = at

\* The write lock is free, or held by this thread.
MayWrite(w) == writer \in {None, w}

\* A request whose row is available; get_item answers 404 otherwise.
ReadItem(w, op) ==
    \E id \in Id, u \in User :
        /\ request[w] = Idle /\ served < MaxRequests
        /\ rows[id] # None /\ rows[id].available
        /\ Become(w, [op |-> op, at |-> "read", user |-> u, id |-> id, row |-> rows[id]])
        /\ served' = served + 1
        /\ UNCHANGED <<files, tables, writer, faults, history>>

\* An UPDATE of a row: the columns that differ from those that were loaded.
Flush(row, loaded, new) ==
    [column \in DOMAIN row |->
        IF new[column] = loaded[column] THEN row[column] ELSE new[column]]

\* Rows are written as they were loaded, or somebody came between.
Stale(ids, loaded) == {id \in ids : rows[id] # None /\ rows[id] # loaded[id]}

\* The file that was read is the one whose stamp was taken, or another was put there.
Torn(id, stat, read) == IF read.stamp = stat THEN {} ELSE {id}

PathTaken(table, p, id) == \E other \in Id \ {id} : table[other] # None /\ table[other].path = p

RowAt(table, p) == {id \in Id : table[id] # None /\ table[id].path = p}

\* One more than the largest id in use, which may be that of a deleted row.
NewId(table) ==
    CHOOSE new \in 1 .. MaxId + 1 :
        /\ \A id \in Id : table[id] # None => id < new
        /\ new = 1 \/ table[new - 1] # None
-----------------------------------------------------------------------------
(***************************************************************************)
(* Agreements and downloads.                                               *)
(***************************************************************************)

Acceptance(r) ==
    [user |-> r.user, item |-> r.id, content |-> r.row.content, safety |-> safety]

\* Fault: an acceptance counts for the item, whatever its content is now.
AcceptedItem(r) == \E a \in acceptances : a.user = r.user /\ a.item = r.id

\* current_acceptance: of this row's digest and licence and today's safety version.
CurrentAcceptance(r) == Acceptance(r) \in acceptances

AcceptCurrent(w) ==
    LET r == request[w] IN
    /\ Stage(w, "accept", "read")
    /\ MayWrite(w)
    /\ acceptances' = acceptances \union {Acceptance(r)}
    /\ accepted' = accepted \union {[user |-> r.user, content |-> r.row.content]}
    /\ Finish(w)
    /\ UNCHANGED <<files, rows, downloads, purchases, notifications, safety, writer,
                   served, faults, clashed, sent>>

HasPurchase(r) == r.row.paid =>
    \E p \in purchases : p.user = r.user /\ p.item = r.id

\* Fault: one gate is enough.
GateOnce(w) ==
    LET r == request[w] IN
    /\ Stage(w, "download", "read") \/ Stage(w, "preview", "read")
    /\ IF CurrentAcceptance(r) THEN Become(w, [r EXCEPT !.at = "gated"]) ELSE Finish(w)
    /\ UNCHANGED <<files, tables, writer, served, faults, history>>

\* The agreement gate, then, for a download, the entitlement gate.
Gate(w) ==
    LET r == request[w] IN
    /\ Stage(w, "download", "read") \/ Stage(w, "preview", "read")
    /\ IF CurrentAcceptance(r) /\ (r.op = "download" => HasPurchase(r))
       THEN Become(w, [r EXCEPT !.at = "gated"]) ELSE Finish(w)
    /\ UNCHANGED <<files, tables, writer, served, faults, history>>

RecordDownload(w) ==
    LET r == request[w] IN
    /\ Stage(w, "download", "gated")
    /\ MayWrite(w)
    /\ downloads' = downloads \union
           {[user |-> r.user, item |-> r.id, content |-> r.row.content, paid |-> r.row.paid]}
    /\ Become(w, [r EXCEPT !.at = "recorded"])
    /\ UNCHANGED <<files, rows, acceptances, purchases, notifications, safety, writer,
                   served, faults, history>>

\* send_file opens the path of the row that was read; 500 when the file is gone.
SendFile(w) ==
    LET r == request[w]
        file == files[r.row.path] IN
    /\ Stage(w, "download", "recorded")
    /\ sent' = IF file = None THEN sent
               ELSE sent \union {[user |-> r.user, content |-> file.content]}
    /\ Finish(w)
    /\ UNCHANGED <<files, tables, writer, served, faults, clashed, accepted>>

\* A tile of the selected slice, from the file that is at the path of the row; nothing
\* is recorded.
SendTile(w) ==
    LET r == request[w]
        file == files[r.row.path] IN
    /\ Stage(w, "preview", "gated")
    /\ sent' = IF file = None THEN sent
               ELSE sent \union {[user |-> r.user, content |-> file.content]}
    /\ Finish(w)
    /\ UNCHANGED <<files, tables, writer, served, faults, clashed, accepted>>

\* An administrator publishes another safety text.
RaiseSafety ==
    /\ safety < MaxSafety /\ served < MaxRequests /\ writer = None
    /\ safety' = safety + 1
    /\ served' = served + 1
    /\ UNCHANGED <<files, rows, acceptances, downloads, purchases, notifications, writer,
                   request, faults, history>>

Serve(w) ==
    \/ ReadItem(w, "accept") \/ AcceptCurrent(w)
    \/ ReadItem(w, "download") \/ Gate(w) \/ RecordDownload(w) \/ SendFile(w)
    \/ ReadItem(w, "preview") \/ SendTile(w)
-----------------------------------------------------------------------------
(***************************************************************************)
(* Update notifications: who accessed an older release, and none as new.   *)
(***************************************************************************)

Accessed(u) ==
    ({Sequence[d.content] : d \in {e \in downloads : e.user = u}}
     \union {p.sequence : p \in {q \in purchases : q.user = u}}) \ {0}

Notices(id, content) ==
    {[user |-> u, item |-> id, sequence |-> Sequence[content]] :
        u \in {v \in User : /\ Accessed(v) # {}
                            /\ \A s \in Accessed(v) : s < Sequence[content]}}

\* The unique key: one notification of a user for an item.
Announce(notices) ==
    notifications' = notifications \union
        {n \in notices : \A m \in notifications : m.user # n.user \/ m.item # n.item}
-----------------------------------------------------------------------------
(***************************************************************************)
(* index_file: find the row of the path, and unless its stamp is the       *)
(* file's read the file.                                                   *)
(***************************************************************************)

Indexed(row, stamp, content) ==
    [row EXCEPT !.stamp = stamp, !.content = content, !.available = TRUE]

\* The table after the file at p is indexed as row id, of which loaded is known.
IndexInto(table, id, loaded, p, stamp, content) ==
    IF loaded = None
    THEN [table EXCEPT ![id] = [path |-> p, stamp |-> stamp, content |-> content,
                                available |-> TRUE, paid |-> FALSE]]
    ELSE [table EXCEPT ![id] = Flush(@, loaded, Indexed(loaded, stamp, content))]

\* What index_file takes the file for: the row's content when the stamps agree, else
\* what it reads.
Digest(loaded, stat, file) ==
    IF loaded # None /\ loaded.stamp = stat THEN [content |-> loaded.content, stamp |-> stat]
    ELSE file

\* An upload under a free name, saved to a temporary file.
StartUpload(w) ==
    \E p \in Path, c \in Content :
        /\ request[w] = Idle /\ served < MaxRequests
        /\ files[p] = None
        /\ Become(w, [op |-> "upload", at |-> "saved", id |-> 0, row |-> None, path |-> p,
                      file |-> [content |-> c, stamp |-> served + 1], stat |-> 0])
        /\ served' = served + 1
        /\ UNCHANGED <<files, tables, writer, faults, history>>

\* A replacement, under the same name or a free one.  A release is never replaced.
StartReplace(w) ==
    \E id \in Id, p \in Path, c \in Content :
        LET row == rows[id] IN
        /\ request[w] = Idle /\ served < MaxRequests
        /\ row # None /\ row.available /\ Sequence[row.content] = 0
        /\ files[row.path] # None /\ (files[p] = None \/ p = row.path)
        /\ Become(w, [op |-> "replace", at |-> IF p = row.path THEN "saved" ELSE "unlink",
                      id |-> id, row |-> row, path |-> p,
                      file |-> [content |-> c, stamp |-> served + 1], stat |-> 0])
        /\ served' = served + 1
        /\ UNCHANGED <<files, tables, writer, faults, history>>

UnlinkOld(w) ==
    LET r == request[w] IN
    /\ Stage(w, "replace", "unlink")
    /\ files' = [files EXCEPT ![r.row.path] = None]
    /\ Become(w, [r EXCEPT !.at = "saved"])
    /\ UNCHANGED <<tables, writer, served, faults, history>>

Uploading(w, at) == Stage(w, "upload", at) \/ Stage(w, "replace", at)

\* os.replace of the temporary file
MoveIn(w) ==
    LET r == request[w] IN
    /\ Uploading(w, "saved")
    /\ files' = [files EXCEPT ![r.path] = r.file]
    /\ Become(w, [r EXCEPT !.at = "moved"])
    /\ UNCHANGED <<tables, writer, served, faults, history>>

\* Fault: the transaction is not rolled back.
RaiseLocked(w) ==
    /\ Finish(w)
    /\ UNCHANGED <<files, tables, writer, served, faults, history>>

Raise(w) ==
    /\ writer' = IF writer = w THEN None ELSE writer
    /\ Finish(w)
    /\ UNCHANGED <<files, tables, served, faults, history>>

\* The row's new path is flushed by index_file's SELECT, which takes the lock.
Renames(r) == r.row # None /\ r.op = "replace" /\ r.path # r.row.path

\* The row index_file finds at the path, as this request knows it.
Found(r) ==
    IF RowAt(rows, r.path) = {} THEN [id |-> 0, row |-> None]
    ELSE LET id == CHOOSE i \in RowAt(rows, r.path) : TRUE
         IN [id |-> id, row |-> IF r.op = "replace" /\ id = r.id THEN r.row ELSE rows[id]]

\* The stamp is taken, and the row of that path read.
StatFile(w) ==
    LET r == request[w]
        found == IF Renames(r) THEN [id |-> r.id, row |-> r.row] ELSE Found(r) IN
    /\ Uploading(w, "moved")
    /\ Renames(r) => MayWrite(w)
    /\ IF \/ files[r.path] = None
          \/ Renames(r) /\ (rows[r.id] = None \/ PathTaken(rows, r.path, r.id))
       THEN Raise(w)
       ELSE /\ writer' = IF Renames(r) THEN w ELSE writer
            /\ Become(w, [r EXCEPT !.at = "stat", !.stat = files[r.path].stamp,
                                   !.id = found.id, !.row = found.row])
            /\ UNCHANGED <<files, tables, served, faults, history>>

ReadFile(w) ==
    LET r == request[w] IN
    /\ Uploading(w, "stat")
    /\ IF files[r.path] = None
       THEN Raise(w)
       ELSE /\ Become(w, [r EXCEPT !.at = "digest",
                              !.file = Digest(r.row, r.stat, files[r.path])])
            /\ UNCHANGED <<files, tables, writer, served, faults, history>>

\* Fault: the stamp is taken from the file after it was read.
ReadThenStat(w) ==
    LET r == request[w] IN
    /\ Uploading(w, "digest")
    /\ MayWrite(w) /\ r.row # None /\ rows[r.id] # None /\ files[r.path] # None
    /\ rows' = IndexInto(rows, r.id, r.row, r.path, files[r.path].stamp, r.file.content)
    /\ writer' = None
    /\ Finish(w)
    /\ UNCHANGED <<files, acceptances, downloads, purchases, notifications, safety, served,
                   faults, history>>

\* The INSERT or UPDATE, the notifications of an upload, and the commit.  The id of
\* a new row is free; its path must be, too.
CommitIndex(w) ==
    LET r == request[w]
        id == IF r.row = None THEN NewId(rows) ELSE r.id
        moved == IF Renames(r) THEN [rows EXCEPT ![id].path = r.path] ELSE rows
        table == IndexInto(moved, id, r.row, r.path, r.stat, r.file.content) IN
    /\ Uploading(w, "digest")
    /\ MayWrite(w)
    /\ IF IF r.row = None THEN RowAt(rows, r.path) # {} ELSE rows[id] = None
       THEN Raise(w)
       ELSE /\ id \in Id
            /\ rows' = table
            /\ IF r.op = "upload"
               THEN Announce(Notices(id, table[id].content))
               ELSE UNCHANGED notifications
            /\ clashed' = clashed \union Stale({id}, [i \in Id |-> r.row])
                                  \union Torn(id, r.stat, r.file)
            /\ writer' = None
            /\ Finish(w)
            /\ UNCHANGED <<files, acceptances, downloads, purchases, safety, served,
                           faults, accepted, sent>>

Upload(w) ==
    \/ StartUpload(w) \/ StartReplace(w) \/ UnlinkOld(w) \/ MoveIn(w)
    \/ StatFile(w) \/ ReadFile(w) \/ CommitIndex(w)
-----------------------------------------------------------------------------
(***************************************************************************)
(* Rename, price, deletion.                                                *)
(***************************************************************************)

\* The file must exist and the new name be free.
StartRename(w) ==
    \E id \in Id, p \in Path :
        LET row == rows[id] IN
        /\ request[w] = Idle /\ served < MaxRequests
        /\ row # None /\ row.available
        /\ files[row.path] # None /\ files[p] = None
        /\ Become(w, [op |-> "rename", at |-> "read", id |-> id, row |-> row, path |-> p])
        /\ served' = served + 1
        /\ UNCHANGED <<files, tables, writer, faults, history>>

\* Path.rename replaces what is there by now, and raises when the file is gone.
RenameFile(w) ==
    LET r == request[w] IN
    /\ Stage(w, "rename", "read")
    /\ IF files[r.row.path] = None
       THEN Raise(w)
       ELSE /\ files' = [files EXCEPT ![r.row.path] = None, ![r.path] = files[r.row.path]]
            /\ Become(w, [r EXCEPT !.at = "renamed"])
            /\ UNCHANGED <<tables, writer, served, faults, history>>

CommitRename(w) ==
    LET r == request[w] IN
    /\ Stage(w, "rename", "renamed")
    /\ MayWrite(w)
    /\ IF rows[r.id] = None \/ PathTaken(rows, r.path, r.id)
       THEN Raise(w)
       ELSE /\ rows' = [rows EXCEPT ![r.id].path = r.path]
            /\ clashed' = clashed \union Stale({r.id}, [id \in Id |-> r.row])
            /\ Finish(w)
            /\ UNCHANGED <<files, acceptances, downloads, purchases, notifications,
                           safety, writer, served, faults, accepted, sent>>

\* purchase_required and price_amount, which is_paid takes together.
SetPrice(w) ==
    LET r == request[w] IN
    /\ Stage(w, "price", "read")
    /\ MayWrite(w)
    /\ IF rows[r.id] = None
       THEN Raise(w)
       ELSE /\ \E paid \in BOOLEAN :
                  rows' = [rows EXCEPT ![r.id] = Flush(@, r.row, [r.row EXCEPT !.paid = paid])]
            /\ Finish(w)
            /\ UNCHANGED <<files, acceptances, downloads, purchases, notifications,
                           safety, writer, served, faults, history>>

\* resolve_item_path, then the DELETE of the acceptances, which takes the lock.
StartDelete(w) ==
    LET r == request[w] IN
    /\ Stage(w, "delete", "read")
    /\ IF files[r.row.path] = None
       THEN Raise(w)
       ELSE /\ MayWrite(w)
            /\ writer' = w
            /\ Become(w, [r EXCEPT !.at = "locked"])
            /\ UNCHANGED <<files, tables, served, faults, history>>

UnlinkFile(w) ==
    LET r == request[w] IN
    /\ Stage(w, "delete", "locked")
    /\ IF files[r.row.path] = None
       THEN Raise(w)
       ELSE /\ files' = [files EXCEPT ![r.row.path] = None]
            /\ Become(w, [r EXCEPT !.at = "unlinked"])
            /\ UNCHANGED <<tables, writer, served, faults, history>>

CommitDelete(w) ==
    LET r == request[w] IN
    /\ Stage(w, "delete", "unlinked")
    /\ rows' = [rows EXCEPT ![r.id] = None]
    /\ acceptances' = {a \in acceptances : a.item # r.id}
    /\ writer' = None
    /\ Finish(w)
    /\ UNCHANGED <<files, downloads, purchases, notifications, safety, served, faults,
                   history>>

Administer(w) ==
    \/ StartRename(w) \/ RenameFile(w) \/ CommitRename(w)
    \/ ReadItem(w, "price") \/ SetPrice(w)
    \/ ReadItem(w, "delete") \/ StartDelete(w) \/ UnlinkFile(w) \/ CommitDelete(w)
-----------------------------------------------------------------------------
(***************************************************************************)
(* scan_catalog: every row becomes unavailable, every file is indexed.     *)
(***************************************************************************)

StartScan(w) ==
    /\ request[w] = Idle /\ served < MaxRequests
    /\ Become(w, [op |-> "scan", at |-> "read", loaded |-> rows, table |-> rows,
                  todo |-> {p \in Path : files[p] # None}, path |-> None, id |-> 0, stat |-> 0,
                  quiet |-> (\A v \in Worker \ {w} : request[v] = Idle), number |-> served + 1])
    /\ served' = served + 1
    /\ UNCHANGED <<files, tables, writer, faults, history>>

\* Fault: rows whose file is gone stay available.
HideNothing(table) == table

Hide(table) ==
    [id \in Id |-> IF table[id] = None THEN None ELSE [table[id] EXCEPT !.available = FALSE]]

\* The first flush: the rows that were available when they were loaded, if any.
HideRows(w) ==
    LET r == request[w]
        hidden == {id \in Id : r.loaded[id] # None /\ r.loaded[id].available} IN
    /\ Stage(w, "scan", "read")
    /\ MayWrite(w)
    /\ IF \E id \in hidden : rows[id] = None
       THEN Raise(w)
       ELSE /\ writer' = w
            /\ clashed' = clashed \union Stale({id \in Id : r.loaded[id] # None}, r.loaded)
            /\ Become(w, [r EXCEPT !.at = "next", !.loaded = Hide(@),
                              !.table = [id \in Id |-> IF id \in hidden THEN Hide(rows)[id]
                                                       ELSE rows[id]]])
            /\ UNCHANGED <<files, tables, served, faults, accepted, sent>>

\* A file that is gone by now fails and is skipped.
ScanStat(w) ==
    LET r == request[w] IN
    /\ Stage(w, "scan", "next")
    /\ \E p \in r.todo :
          Become(w, IF files[p] = None
                    THEN [r EXCEPT !.todo = @ \ {p}]
                    ELSE [r EXCEPT !.at = "stat", !.path = p, !.stat = files[p].stamp])
    /\ UNCHANGED <<files, tables, writer, served, faults, history>>

ScanRead(w) ==
    LET r == request[w]
        old == RowAt(r.table, r.path)
        id == IF old = {} THEN NewId(r.table) ELSE CHOOSE i \in old : TRUE
        loaded == IF old = {} THEN None
                  ELSE IF r.loaded[id] # None THEN r.loaded[id] ELSE r.table[id]
        read == Digest(loaded, r.stat, files[r.path])
        after == [r EXCEPT !.at = "next", !.todo = @ \ {r.path}] IN
    /\ Stage(w, "scan", "stat")
    /\ IF files[r.path] = None
       THEN Become(w, after) /\ UNCHANGED clashed
       ELSE /\ id \in Id
            /\ LET table == IndexInto(r.table, id, loaded, r.path, r.stat, read.content)
               IN Become(w, [after EXCEPT
                      !.table = table,
                      !.loaded[id] = IF loaded = None THEN table[id]
                                     ELSE Indexed(loaded, r.stat, read.content)])
            /\ clashed' = clashed \union Torn(id, r.stat, read)
    /\ UNCHANGED <<files, tables, writer, served, faults, accepted, sent>>

CommitScan(w) ==
    LET r == request[w] IN
    /\ Stage(w, "scan", "next") /\ r.todo = {}
    /\ rows' = r.table
    /\ writer' = None
    /\ Become(w, [r EXCEPT !.at = "announce"])
    /\ UNCHANGED <<files, acceptances, downloads, purchases, notifications, safety, served,
                   faults, history>>

\* The notifications of every available row, in a second transaction.
AnnounceScan(w) ==
    /\ Stage(w, "scan", "announce")
    /\ MayWrite(w)
    /\ Announce(UNION {Notices(id, rows[id].content) :
                          id \in {i \in Id : rows[i] # None /\ rows[i].available}})
    /\ Finish(w)
    /\ UNCHANGED <<files, rows, acceptances, downloads, purchases, safety, writer, served,
                   faults, history>>

Scan(w) ==
    StartScan(w) \/ HideRows(w) \/ ScanStat(w) \/ ScanRead(w) \/ CommitScan(w) \/ AnnounceScan(w)

\* Killed, or refused the lock after five seconds: the transaction is rolled back.
Kill(w) ==
    /\ request[w] # Idle /\ faults < MaxFaults
    /\ request[w].at \notin {"read", "gated", "unlink"}
    /\ Finish(w)
    /\ faults' = faults + 1
    /\ writer' = IF writer = w THEN None ELSE writer
    /\ UNCHANGED <<files, tables, served, history>>

\* A request that has written and has not committed: an uncommitted row is in the
\* transaction of a rename's UPDATE, of a DELETE, of the UPDATEs of a scan.
Writes(r) ==
    \/ r.op = "replace" /\ r.at \in {"stat", "digest"} /\ Renames(r)
    \/ r.op = "delete" /\ r.at \in {"locked", "unlinked"}
    \/ r.op = "scan" /\ r.at \in {"next", "stat"}

CatalogNext ==
    \/ \E w \in Worker : Serve(w) \/ Upload(w) \/ Administer(w) \/ Scan(w) \/ Kill(w)
    \/ RaiseSafety

\* The row of the only file, if there is one.
FirstRows(paid) ==
    [id \in Id |->
        IF id = 1 /\ \E p \in Path : files[p] # None
        THEN LET p == CHOOSE q \in Path : files[q] # None
             IN [path |-> p, stamp |-> 0, content |-> files[p].content,
                 available |-> TRUE, paid |-> paid]
        ELSE None]

FirstAcceptances(accepting) ==
    {[user |-> u, item |-> 1, content |-> rows[1].content, safety |-> 1] :
        u \in IF rows[1] = None THEN {} ELSE accepting}

\* An empty catalogue, or one of a file that a scan found, perhaps with a price and
\* acceptances since.
CatalogInit ==
    /\ files \in {[p \in Path |-> None]} \union
           {[p \in Path |-> IF p = q THEN [content |-> c, stamp |-> 0] ELSE None] :
               q \in Path, c \in Content}
    /\ \E paid \in BOOLEAN : rows = FirstRows(paid)
    /\ \E accepting \in SUBSET User :
          /\ acceptances = FirstAcceptances(accepting)
          /\ accepted = {[user |-> a.user, content |-> a.content] : a \in acceptances}
    /\ downloads = {} /\ purchases = {} /\ notifications = {}
    /\ safety = 1 /\ writer = None
    /\ request = [w \in Worker |-> Idle]
    /\ served = 0 /\ faults = 0
    /\ clashed = {} /\ sent = {}
-----------------------------------------------------------------------------
\* The type of the catalogue's state.
CatalogTypeOK ==
    /\ files \in [Path -> File \union {None}]
    /\ rows \in [Id -> Row \union {None}]
    /\ acceptances \subseteq AgreementAcceptance
    /\ downloads \subseteq DownloadRecord
    /\ notifications \subseteq UpdateNotification
    /\ safety \in 1 .. MaxSafety
    /\ writer \in Worker \union Cashier \union {None}
    /\ served \in 0 .. MaxRequests /\ faults \in 0 .. MaxFaults
    /\ clashed \subseteq Id
    /\ accepted \subseteq [user : User, content : Content]
    /\ sent \subseteq [user : User, content : Content]

\* When the row has the stamp of the file at its path, it describes this file.
Tells(id) ==
    LET file == files[rows[id].path] IN
    file # None /\ file.stamp = rows[id].stamp => file.content = rows[id].content

\* The index is sound: whoever replaced, renamed, deleted or scanned and was killed
\* between any two steps, a row that is out of date can be told by its stamp.  Excepted
\* are rows written on a stale reading: of the row, when the columns of two updates
\* mix, or of the file, when another was put there between stat and read (which tells
\* by the stamp, too, unless renames bring back the one that stat saw).
StampIdentifiesContent == \A id \in Id \ clashed : rows[id] # None => Tells(id)

\* What a user's download is recorded for is a content that this user accepted,
\* although items are replaced, deleted and given the ids of others.
DownloadsWereAccepted ==
    \A d \in downloads : [user |-> d.user, content |-> d.content] \in accepted

\* A download of an item that had a price is a buyer's.
PaidDownloadsAreBuyers ==
    \A d \in downloads : d.paid => \E p \in purchases : p.user = d.user /\ p.item = d.item

\* A scan that no other request overlaps makes rows and files agree, whatever crashes,
\* mixed updates and failed commits left behind, unless a row is wrong under the right
\* stamp, which it believes.
QuietScanRepairs ==
    [][\A w \in Worker :
          /\ CommitScan(w)
          /\ request[w].quiet /\ request[w].number = served
          /\ \A id \in Id : rows[id] # None => Tells(id)
          => /\ \A id \in Id : rows'[id] # None /\ rows'[id].available =>
                   files[rows'[id].path] = [content |-> rows'[id].content, stamp |-> rows'[id].stamp]
             /\ \A p \in Path : files[p] # None => \E id \in RowAt(rows', p) : rows'[id].available
      ]_catalogVars

\* docs: the exact release is downloaded after its agreement is accepted.
SentWasAccepted == sent \subseteq accepted
=============================================================================
