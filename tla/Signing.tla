------------------------------ MODULE Signing ------------------------------
(***************************************************************************)
(* datatiles-integrity sign (src/src/datatiles/integrity.py): a digest of  *)
(* every table but those of the signatures, read one table at a time, is   *)
(* signed, and manifest and signature are stored in the container.         *)
(*                                                                         *)
(* Abstracted: a digest is what it is the digest of, so that two are equal *)
(* when the contents are; a signature of a manifest is its key.            *)
(***************************************************************************)
EXTENDS Workfiles

\* The tables in the order of sqlite_master's names.
NextTable(seen) ==
    CASE "selected" \notin seen -> "selected"
      [] "selected" \in seen /\ "links" \notin seen -> "links"
      [] "links" \in seen /\ "tiles" \notin seen -> "tiles"
      [] OTHER -> "metadata"

\* Fault: the signatures are part of what is signed.
DigestOfAll(c, table) ==
    IF table = "tiles" THEN <<c.tiles, c.signatures>>
    ELSE IF table = "links" THEN c.links
    ELSE IF table = "selected" THEN c.selected ELSE c.metadata

Digest(c, table) ==
    CASE table = "selected" -> c.selected
      [] table = "links" -> c.links
      [] table = "tiles" -> c.tiles
      [] table = "metadata" -> c.metadata

\* build_manifest of a container at rest.
Manifest(c) == [t \in Table |-> Digest(c, t)]

\* The signature is stored, its manifest is that of the container as it is now.
Verifies(c, s) == s \in c.signatures /\ s.manifest = Manifest(c)

Reading(p, at) == job[p].op = "sign" /\ job[p].at = at

Proceed(p, j) ==
    /\ Become(p, j)
    /\ UNCHANGED <<target, files, kills, history>>

\* A file that does not exist would be created empty, and refused for want of tables.
StartSign(p) ==
    /\ MayBegin(p) /\ target # None
    /\ \E k \in Key :
          Proceed(p, [op |-> "sign", at |-> "read", id |-> begun + 1, db |-> target, key |-> k,
                      since |-> version[target], seen |-> [t \in {} |-> None]])
    /\ begun' = begun + 1
    /\ UNCHANGED <<containers, version>>

ReadTable(p) ==
    LET j == job[p]
        t == NextTable(DOMAIN j.seen)
        seen == [u \in DOMAIN j.seen \union {t} |-> IF u = t THEN Digest(Open(p), t) ELSE j.seen[u]]
    IN
    /\ Reading(p, "read")
    /\ Proceed(p, [j EXCEPT !.seen = seen, !.at = IF DOMAIN seen = Table THEN "find" ELSE "read"])
    /\ UNCHANGED <<containers, version, begun>>

Stored(c, manifest) == \E s \in c.signatures : s.manifest = manifest

\* store_envelope looks for the manifest before its transaction has begun.
FindManifest(p) ==
    LET j == job[p] IN
    /\ Reading(p, "find")
    /\ Proceed(p, [j EXCEPT !.at = IF Stored(Open(p), j.seen) THEN "sign" ELSE "both"])
    /\ UNCHANGED <<containers, version, begun>>

\* A manifest that another signer stored meanwhile, and a signature that is stored, are
\* refused by the UNIQUE constraints.
Sign(p) ==
    LET j == job[p]
        c == Open(p)
        twice == \/ j.at = "both" /\ Stored(c, j.seen)
                 \/ \E s \in c.signatures : s.manifest = j.seen /\ s.key = j.key
        quiet == version[j.db] = j.since
        signature == [manifest |-> j.seen, key |-> j.key, at |-> IF quiet THEN j.since ELSE None]
    IN
    /\ Reading(p, "both") \/ Reading(p, "sign")
    /\ IF twice THEN UNCHANGED containers
       ELSE containers' = [containers EXCEPT ![j.db].signatures = @ \union {signature}]
    /\ Proceed(p, Idle)
    /\ UNCHANGED <<version, begun>>

SignStep(p) == StartSign(p) \/ ReadTable(p) \/ FindManifest(p) \/ Sign(p)
-----------------------------------------------------------------------------
\* A signature of a manifest that no commit came into verifies until a commit changes
\* the container: signing again, by the same or another key, and copying the container
\* to import into it do not break it.
SignaturesSurviveSigning ==
    \A i \in Inode : \A s \in containers[i].signatures :
        s.at = version[i] => Verifies(containers[i], s)
=============================================================================
