----------------------------- MODULE Protection -----------------------------
(***************************************************************************)
(* datatiles-drm protect, issue-license and decrypt                        *)
(* (src/src/datatiles/drm.py).  A package is a header with the digest of   *)
(* the container and the container encrypted; its content key goes to a    *)
(* file of its own, and, wrapped for one recipient, into licences.         *)
(*                                                                         *)
(* Abstracted: a digest of a file is the file; the key of a package is the *)
(* number of the command that made it; encryption opens with its key and   *)
(* nothing else; the issuer's signature and the times of a licence, which  *)
(* do not change, are good.  A package that two commands wrote is not      *)
(* whole: its tag does not fit.                                            *)
(***************************************************************************)
EXTENDS Workfiles

\* A product id that is given is given again for the next edition; others are fresh.
Given == 0

Does(p, op, at) == job[p].op = op /\ job[p].at = at

Start(p, j) ==
    /\ MayBegin(p)
    /\ Become(p, j)
    /\ begun' = begun + 1
    /\ UNCHANGED <<target, containers, version, files, kills, kept, overlapped, leftover>>

Continue(p, j) ==
    /\ Become(p, j)
    /\ UNCHANGED <<target, containers, version, begun, kills, kept, overlapped, leftover>>

\* The digest is taken of the file that has the name.
StartProtect(p) ==
    /\ target # None
    /\ \E product \in {Given, begun + 1} :
          Start(p, [op |-> "protect", at |-> "header", id |-> begun + 1, db |-> None,
                    product |-> product, hash |-> containers[target]])
    /\ spoiled' = (spoiled \/ Protecting # {})

\* The source is opened again, and the package truncated.
WriteHeader(p) ==
    LET j == job[p] IN
    /\ Does(p, "protect", "header")
    /\ IF target = None
       THEN Continue(p, Idle) /\ UNCHANGED files
       ELSE /\ Write("package", [product |-> j.product, hash |-> j.hash, key |-> j.id,
                                 body |-> None, whole |-> FALSE])
            /\ Continue(p, [j EXCEPT !.at = "body", !.db = target])
    /\ UNCHANGED spoiled

\* Two that write to the one file go on at their own offsets; of these the one that
\* truncated it last may write over all that the other wrote.
WriteBody(p) ==
    LET j == job[p]
        package == files.package
    IN
    /\ Does(p, "protect", "body")
    /\ IF package.key = j.id
       THEN \E whole \in (IF spoiled THEN BOOLEAN ELSE {TRUE}) :
               Write("package", [package EXCEPT !.body = Open(p), !.whole = whole])
       ELSE Write("package", [package EXCEPT !.whole = FALSE])
    /\ Continue(p, [j EXCEPT !.at = "key"])
    /\ UNCHANGED spoiled

\* Fault: a key file that exists is kept.
WriteFirstKey(p) ==
    LET j == job[p] IN
    /\ Does(p, "protect", "key")
    /\ IF files.contentKey = None
       THEN Write("contentKey", [product |-> j.product, key |-> j.id]) ELSE UNCHANGED files
    /\ Continue(p, Idle)
    /\ UNCHANGED spoiled

WriteKey(p) ==
    LET j == job[p] IN
    /\ Does(p, "protect", "key")
    /\ Write("contentKey", [product |-> j.product, key |-> j.id])
    /\ Continue(p, Idle)
    /\ UNCHANGED spoiled
-----------------------------------------------------------------------------
StartIssue(p) ==
    /\ files.package # None
    /\ \E r \in Recipient :
          Start(p, [op |-> "issue", at |-> "key", recipient |-> r,
                    product |-> files.package.product, hash |-> files.package.hash])
    /\ UNCHANGED spoiled

\* A key file of another product is refused; one of another edition is not told apart.
Issue(p) ==
    LET j == job[p]
        k == files.contentKey
    IN
    /\ Does(p, "issue", "key")
    /\ IF k # None /\ k.product = j.product
       THEN Write("licence", [product |-> j.product, hash |-> j.hash, key |-> k.key,
                              recipient |-> j.recipient])
       ELSE UNCHANGED files
    /\ Continue(p, Idle)
    /\ UNCHANGED spoiled
-----------------------------------------------------------------------------
Decrypting == {p \in Process : job[p].op = "decrypt" /\ job[p].at # "package"}

\* A licence of someone else is refused.
StartDecrypt(p) ==
    /\ files.licence # None
    /\ Start(p, [op |-> "decrypt", at |-> "package", id |-> begun + 1, licence |-> files.licence,
                 package |-> None, good |-> TRUE])
    /\ UNCHANGED spoiled

Fits(licence, package) == licence.product = package.product /\ licence.hash = package.hash

\* The package is opened, its header compared with the licence, and the output truncated.
OpenPackage(p) ==
    LET j == job[p]
        package == files.package
    IN
    /\ Does(p, "decrypt", "package")
    /\ IF Fits(j.licence, package)
       THEN /\ Write("output", [by |-> j.id, promised |-> package.hash, content |-> None,
                                mixed |-> Decrypting # {}])
            /\ Continue(p, [j EXCEPT !.at = "stream", !.package = package])
       ELSE /\ Continue(p, Idle)
            /\ UNCHANGED files
    /\ UNCHANGED spoiled

\* What is written goes to the file that was opened, which may have lost its name, and
\* over what another command that truncated the file wrote.
Overwritten(j, content) ==
    IF files.output = None THEN None
    ELSE IF files.output.by = j.id THEN [files.output EXCEPT !.content = content]
    ELSE [files.output EXCEPT !.mixed = TRUE]

\* The plaintext is written before the tag is looked at.  Where it does not fit, the
\* output is unlinked, whosever it is by now.
Stream(p) ==
    LET j == job[p]
        package == j.package
        opens == files.package = package /\ package.whole /\ j.licence.key = package.key
    IN
    /\ Does(p, "decrypt", "stream")
    /\ IF opens
       THEN /\ Write("output", Overwritten(j, package.body))
            /\ Continue(p, [j EXCEPT !.at = "digest", !.good = (package.body = package.hash)])
       ELSE Write("output", None) /\ Continue(p, Idle)
    /\ UNCHANGED spoiled

\* Fault: what was decrypted is not compared with the header.
AcceptDigest(p) ==
    /\ Does(p, "decrypt", "digest")
    /\ UNCHANGED files
    /\ Continue(p, Idle)
    /\ UNCHANGED spoiled

CheckDigest(p) ==
    /\ Does(p, "decrypt", "digest")
    /\ IF job[p].good THEN UNCHANGED files ELSE Write("output", None)
    /\ Continue(p, Idle)
    /\ UNCHANGED spoiled

ProtectionStep(p) ==
    \/ StartProtect(p) \/ WriteHeader(p) \/ WriteBody(p) \/ WriteKey(p)
    \/ StartIssue(p) \/ Issue(p)
    \/ StartDecrypt(p) \/ OpenPackage(p) \/ Stream(p) \/ CheckDigest(p)
-----------------------------------------------------------------------------
\* What one decryption alone wrote to the output is, when it has ended, the container
\* whose digest the licence names: also when the container changed while it was protected,
\* the package while it was decrypted, or the licence carries another edition's key.
OutputIsLicensed ==
    LET o == files.output IN
    o # None /\ ~o.mixed /\ kills = 0 /\ (\A p \in Decrypting : job[p].id # o.by) =>
        o.content = o.promised

\* When no protection runs, none was cut short and no two overlapped, the package is
\* whole and the key file has its key, however often the product was protected before.
KeyOpensPackage ==
    ~spoiled /\ Protecting = {} /\ files.package # None =>
        /\ files.package.whole
        /\ files.contentKey # None
        /\ files.contentKey.product = files.package.product
        /\ files.contentKey.key = files.package.key
=============================================================================
