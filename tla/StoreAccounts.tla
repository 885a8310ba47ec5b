---------------------------- MODULE StoreAccounts ----------------------------
(***************************************************************************)
(* Accounts of the DataTiles Store (src/store/datatiles_store/app.py,      *)
(* security.py, auth_ext.py, mailer.py, db.py): users, their groups and    *)
(* roles, API tokens, sessions, identities at external providers, email    *)
(* verification, and what the bootstrap of a restart restores.             *)
(*                                                                         *)
(* A request reads, and commits later: its SELECTs are not in a            *)
(* transaction, which begins with the first row it flushes.  Deleting a    *)
(* user deletes the group memberships the request had read, but no tokens  *)
(* and identities: SQLite does not enforce foreign keys here, and gives    *)
(* the last id again.                                                      *)
(*                                                                         *)
(* Abstracted: passwords (a person has those of its own accounts),         *)
(* usernames (a person's name is its address), runtime settings (any       *)
(* request may be refused), expiry (a credential need not be used any      *)
(* more), and the managers group, which differs from downloaders by being  *)
(* protected.                                                              *)
(***************************************************************************)
EXTENDS Integers, FiniteSets

CONSTANTS
    Worker,         \* threads that serve requests
    Person,         \* who has, or may register, an account
    Root,           \* ADMIN_USERNAME
    None,
    MaxId,          \* bound: user ids
    MaxTokens,      \* bound: API tokens issued
    MaxRequests     \* bound: requests and restarts

ASSUME RootAssumption == Root \in Person
ASSUME BoundAssumption == MaxId \in Nat \ {0} /\ MaxTokens \in Nat /\ MaxRequests \in Nat

Group == {"administrators", "downloaders"}
Role == {"admin", "downloader"}

VARIABLES
    users,          \* id -> the user, or None
    members,        \* user_groups: pairs of user and group
    groups,         \* the groups there are
    grants,         \* group_roles: pairs of group and role
    tokens,         \* api_tokens, or None
    identities,     \* external_identities: subject -> user id, or None
    sessions,       \* signed cookies: whose browser, and the user id they name
    mails,          \* verification links in mailboxes
    request,        \* worker -> the request it serves, with what it has read
    served,         \* how many requests began
    holder,         \* history: token -> who was given it
    confirmed,      \* history: who followed a link, or was vouched for by a provider
    appointed,      \* history: whom an administrator or the bootstrap appointed
    regiven,        \* history: ids given again while a credential named them
    crossed         \* history: memberships and verifications of an id that a request
                    \* wrote, or left, when they were no longer of what it had read

database == <<users, members, groups, grants, tokens, identities>>
history == <<holder, confirmed, appointed, regiven, crossed>>
vars == <<database, sessions, mails, request, served, history>>

Id == 1 .. MaxId
Token == 1 .. MaxTokens
User == [name : Person, email : Person \union {None}, active : BOOLEAN, verified : BOOLEAN]
ApiToken == [user : Id, revoked : BOOLEAN, used : BOOLEAN]
Session == [person : Person, user : Id]
Mail == [user : Id, name : Person]

ASSUME NoneAssumption ==
    /\ None \notin Person /\ None \notin Id /\ None \notin User /\ None \notin ApiToken
-----------------------------------------------------------------------------
\* A request carries the id it acts for, or 0.
Idle == [op |-> "idle", user |-> 0]

\* One more than the largest id in use.
NewId ==
    CHOOSE new \in 1 .. MaxId + 1 :
        /\ \A id \in Id : users[id] # None => id < new
        /\ new = 1 \/ users[new - 1] # None

Named(name) == {id \in Id : users[id] # None /\ users[id].name = name}

Roles(id) == {role \in Role : \E g \in groups : <<id, g>> \in members /\ <<g, role>> \in grants}

\* User.can("users.manage"): the admin role is "*".
Manages(id) == "admin" \in Roles(id)

Counted == served < MaxRequests /\ served' = served + 1

\* A thread begins to serve a request, and has done its first reads.
Begin(w, frame) ==
    /\ request[w] = Idle
    /\ Counted
    /\ request' = [request EXCEPT ![w] = frame]

Done(w) == request' = [request EXCEPT ![w] = Idle]

\* The email is unique.
EmailFree(email, id) ==
    {other \in Id \ {id} : users[other] # None /\ users[other].email = email} = {}

Added(name, email, active, verified) ==
    [name |-> name, email |-> email, active |-> active, verified |-> verified]

\* A user is added under a name nobody has.  The id may have been another's.
AddUser(user) ==
    /\ Named(user.name) = {}
    /\ (user.email # None) => EmailFree(user.email, 0)
    /\ NewId \in Id
    /\ users' = [users EXCEPT ![NewId] = user]
    /\ regiven' = IF \/ \E t \in Token : tokens[t] # None /\ tokens[t].user = NewId
                     \/ \E s \in sessions : s.user = NewId
                     \/ \E p \in Person : identities[p] = NewId
                     \/ \E w \in Worker : request[w].user = NewId
                  THEN regiven \union {NewId} ELSE regiven

\* groups.append: what an earlier user of the id left behind stays.
Join(id, some) == members' = members \union ({id} \X (some \intersect groups))

\* A flush writes the columns that the request changed, on the row of that id.
Flush(id, row, new) ==
    /\ new # row => users[id] # None
    /\ users' = IF new = row THEN users ELSE
         [users EXCEPT ![id].email = IF new.email = row.email THEN @ ELSE new.email,
                       ![id].active = IF new.active = row.active THEN @ ELSE new.active,
                       ![id].verified = IF new.verified = row.verified THEN @ ELSE new.verified]
-----------------------------------------------------------------------------
(***************************************************************************)
(* How a credential is obtained.                                           *)
(***************************************************************************)

\* /login and /api/v1/auth/token: an active account is read, its password hashed.
CheckPassword(w, p) ==
    /\ \E op \in {"login", "token"}, id \in Named(p) :
          /\ users[id].active
          /\ Begin(w, [op |-> op, user |-> id, person |-> p])
    /\ UNCHANGED <<database, sessions, mails, history>>

\* login_user: a session for the id that was read.
Login(w) ==
    /\ request[w].op = "login"
    /\ sessions' = sessions \union {[person |-> request[w].person, user |-> request[w].user]}
    /\ Done(w)
    /\ UNCHANGED <<database, mails, served, history>>

Logout(s) ==
    /\ sessions' = sessions \ {s}
    /\ UNCHANGED <<database, mails, request, served, history>>

\* issue_token
Issue(id, p, table) ==
    \E t \in Token :
        /\ tokens[t] = None /\ \A s \in Token : s < t => tokens[s] # None
        /\ tokens' = [table EXCEPT ![t] = [user |-> id, revoked |-> FALSE, used |-> FALSE]]
        /\ holder' = [holder EXCEPT ![t] = p]

\* A token for the id that was read.
LoginToken(w) ==
    /\ request[w].op = "token"
    /\ Issue(request[w].user, request[w].person, tokens)
    /\ Done(w)
    /\ UNCHANGED <<users, members, groups, grants, identities, sessions, mails, served,
                   confirmed, appointed, regiven, crossed>>

\* Fault: the link is made before the INSERT gave the account its id.
RegisterUnflushed(p) ==
    /\ Counted
    /\ AddUser(Added(p, p, FALSE, FALSE))
    /\ Join(NewId, {"downloaders"})
    /\ mails' \in {mails, mails \union {[user |-> None, name |-> p]}}
    /\ UNCHANGED <<groups, grants, tokens, identities, sessions, request, holder,
                   confirmed, appointed, crossed>>

\* register: the inactive account is committed, then the link is sent, unless mail
\* fails.  The INSERT comes before the default group is read.
Register(p) ==
    /\ Counted
    /\ AddUser(Added(p, p, FALSE, FALSE))
    /\ Join(NewId, {"downloaders"})
    /\ mails' \in {mails, mails \union {[user |-> NewId, name |-> p]}}
    /\ UNCHANGED <<groups, grants, tokens, identities, sessions, request, holder,
                   confirmed, appointed, crossed>>

\* Fault: the link is checked against the id only.
OpenLinkOfId(w, mail) ==
    /\ users[mail.user] # None
    /\ Begin(w, [op |-> "verify", user |-> 0, mail |-> mail, row |-> users[mail.user]])
    /\ UNCHANGED <<database, sessions, mails, history>>

\* verify_email: the link is good for a day, for whatever account has the id and the
\* address now.
OpenLink(w, mail) ==
    /\ users[mail.user] # None /\ users[mail.user].email = mail.name
    /\ Begin(w, [op |-> "verify", user |-> 0, mail |-> mail, row |-> users[mail.user]])
    /\ UNCHANGED <<database, sessions, mails, history>>

\* The row of that id is activated and its address verified.
Verify(w) ==
    LET r == request[w]
        id == r.mail.user
    IN
    /\ r.op = "verify"
    /\ Flush(id, r.row, [r.row EXCEPT !.active = TRUE, !.verified = TRUE])
    /\ confirmed' = confirmed \union {r.mail.name}
    /\ crossed' = IF users[id] # None /\ users[id].email # r.row.email
                  THEN crossed \union {<<id, "verified">>} ELSE crossed
    /\ Done(w)
    /\ UNCHANGED <<members, groups, grants, tokens, identities, sessions, mails, served,
                   holder, appointed, regiven>>

\* Fault: any identity at the provider will do.
FindAnyIdentity(p) ==
    {id \in Id : users[id] # None /\ \E q \in Person : identities[q] = id} \union Named(p)

\* The user of the identity, and without an identity the user of that name.
FindExternal(p) ==
    IF identities[p] # None THEN {id \in Id : users[id] # None /\ identities[p] = id}
    ELSE Named(p)

\* external_callback: a provider vouches for an address; its user is looked for.
Callback(w, p) ==
    /\ \E id \in IF FindExternal(p) = {} THEN {0} ELSE FindExternal(p) :
          Begin(w, [op |-> "external", user |-> id, person |-> p,
                    row |-> IF id = 0 THEN None ELSE users[id], known |-> identities[p] # None])
    /\ UNCHANGED <<database, sessions, mails, history>>

\* Nobody was found: a user is added.
AddExternal(p) ==
    /\ AddUser(Added(p, p, TRUE, TRUE))
    /\ Join(NewId, {"downloaders"})
    /\ UNCHANGED crossed

\* The user that was read is activated and given the provider's address.
UpdateExternal(r) ==
    LET new == [r.row EXCEPT !.email = r.person, !.active = TRUE, !.verified = TRUE] IN
    /\ (r.row.email # r.person) => EmailFree(r.person, r.user)
    /\ Flush(r.user, r.row, new)
    /\ crossed' = IF users'[r.user] # None /\ users'[r.user].email # r.person
                  THEN crossed \union {<<r.user, "verified">>} ELSE crossed
    /\ UNCHANGED <<members, regiven>>

\* The identity is added unless there was one, and its person has a session.
External(w) ==
    LET r == request[w]
        id == IF r.user = 0 THEN NewId ELSE r.user
    IN
    /\ r.op = "external"
    /\ IF r.user = 0 THEN AddExternal(r.person) ELSE UpdateExternal(r)
    /\ IF r.known THEN UNCHANGED identities
       ELSE /\ identities[r.person] = None
            /\ identities' = [identities EXCEPT ![r.person] = id]
    /\ sessions' = sessions \union {[person |-> r.person, user |-> id]}
    /\ confirmed' = confirmed \union {r.person}
    /\ Done(w)
    /\ UNCHANGED <<groups, grants, tokens, mails, served, holder, appointed>>
-----------------------------------------------------------------------------
(***************************************************************************)
(* Authorized requests.                                                    *)
(***************************************************************************)

\* api_user: a token that is not revoked, or a session, of a user who exists and is
\* active.  What the user may do is decided now.
Authorize(w) ==
    /\ \/ \E t \in Token :
             /\ tokens[t] # None /\ ~tokens[t].revoked
             /\ users[tokens[t].user] # None /\ users[tokens[t].user].active
             /\ Begin(w, [op |-> "serve", user |-> tokens[t].user, person |-> holder[t],
                          token |-> t, loaded |-> tokens[t],
                          manages |-> Manages(tokens[t].user), read |-> None])
       \/ \E s \in sessions :
             /\ users[s.user] # None /\ users[s.user].active
             /\ Begin(w, [op |-> "serve", user |-> s.user, person |-> s.person,
                          token |-> 0, loaded |-> None,
                          manages |-> Manages(s.user), read |-> None])
    /\ UNCHANGED <<database, sessions, mails, history>>

\* Fault: the whole row of the token is written.
TouchRow(r) ==
    IF r.token = 0 THEN tokens
    ELSE [tokens EXCEPT ![r.token] = [r.loaded EXCEPT !.used = TRUE]]

\* The commit of a request that used a token writes last_used_at.
Touch(r) == IF r.token = 0 THEN tokens ELSE [tokens EXCEPT ![r.token].used = TRUE]

Serving(w) == request[w].op = "serve"

Managing(w) == Serving(w) /\ request[w].manages

CreateToken(w) ==
    /\ Serving(w)
    /\ Issue(request[w].user, request[w].person, Touch(request[w]))
    /\ Done(w)
    /\ UNCHANGED <<users, members, groups, grants, identities, sessions, mails, served,
                   confirmed, appointed, regiven, crossed>>

\* One's own token, or anyone's for an administrator.
RevokeToken(w) ==
    LET r == request[w] IN
    /\ Serving(w)
    /\ \E t \in Token :
          /\ tokens[t] # None /\ (tokens[t].user = r.user \/ r.manages)
          /\ tokens' = [Touch(r) EXCEPT ![t].revoked = TRUE]
    /\ Done(w)
    /\ UNCHANGED <<users, members, groups, grants, identities, sessions, mails, served, history>>

\* The INSERT comes before the groups are read, and they replace what an earlier user
\* of the id left behind, if any are given.
CreateUser(w) ==
    /\ Managing(w)
    /\ \E p \in Person, some \in SUBSET groups :
          /\ AddUser(Added(p, None, TRUE, FALSE))
          /\ members' = IF some = {} THEN members
                        ELSE (members \ ({NewId} \X groups)) \union ({NewId} \X some)
          /\ appointed' = IF "administrators" \in some THEN appointed \union {p} ELSE appointed
    /\ tokens' = Touch(request[w])
    /\ Done(w)
    /\ UNCHANGED <<groups, grants, identities, sessions, mails, served, holder, confirmed, crossed>>

(***************************************************************************)
(* What is changed is read first.  A token's last_used_at is flushed by    *)
(* the first SELECT after the authorization, so that what is read from     *)
(* then on stays until the commit.  A request that came with a session     *)
(* flushes nothing before its commit, and nobody reads again what the      *)
(* authorization loaded: the own account, and the groups it is in.         *)
(***************************************************************************)
UserNow(id) ==
    [id |-> id, row |-> users[id], joined |-> {g \in groups : <<id, g>> \in members},
     known |-> groups]

GroupNow(g) ==
    [group |-> g, roles |-> {role \in Role : <<g, role>> \in grants},
     joined |-> {id \in Id : <<id, g>> \in members /\ users[id] # None}]

LoadUser(w) ==
    /\ Managing(w)
    /\ \E id \in Id :
          /\ users[id] # None /\ (request[w].token = 0 \/ id = request[w].user)
          /\ request' = [request EXCEPT ![w].op = "user", ![w].read = UserNow(id)]
    /\ UNCHANGED <<database, sessions, mails, served, history>>

LoadGroup(w) ==
    /\ Managing(w)
    /\ \E g \in groups :
          /\ request[w].token = 0 \/ <<request[w].user, g>> \in members
          /\ request' = [request EXCEPT ![w].op = "group", ![w].read = GroupNow(g)]
    /\ UNCHANGED <<database, sessions, mails, served, history>>

\* What a request that is to change a user or a group may have read of it.
UsersRead(w) ==
    LET r == request[w] IN
    IF r.op = "user" THEN {r.read}
    ELSE IF Managing(w) /\ r.token # 0
    THEN {UserNow(id) : id \in {other \in Id \ {r.user} : users[other] # None}}
    ELSE {}

GroupsRead(w) ==
    LET r == request[w] IN
    IF r.op = "group" THEN {r.read}
    ELSE IF Managing(w) /\ r.token # 0
    THEN {GroupNow(g) : g \in {other \in groups : <<r.user, other>> \notin members}}
    ELSE {}

\* The difference between the rows of a table that were read and those it is to have is
\* written: a row to be added is not there yet, a row to be removed still is.
Replaces(table, read, given) ==
    /\ (given \ read) \intersect table = {}
    /\ (read \ given) \subseteq table

Replaced(table, read, given) == (table \ (read \ given)) \union (given \ read)

\* The active flag, the groups, or both.
UpdateUser(w) ==
    /\ \E read \in UsersRead(w), active \in BOOLEAN :
       \E some \in SUBSET read.known :
          LET id == read.id
              was == {id} \X read.joined
              given == {id} \X some
          IN
          /\ Flush(id, read.row, [read.row EXCEPT !.active = active])
          /\ Replaces(members, was, given)
          /\ members' = Replaced(members, was, given)
          /\ appointed' = IF <<id, "administrators">> \in given \ was
                          THEN appointed \union {read.row.name} ELSE appointed
          /\ crossed' = crossed \union
                IF id \in Named(read.row.name) THEN (given \ was) \ (Id \X groups)
                ELSE given \ was
    /\ tokens' = Touch(request[w])
    /\ Done(w)
    /\ UNCHANGED <<groups, grants, identities, sessions, mails, served, holder, confirmed, regiven>>

\* Fault: the memberships stay, as tokens and identities do.
DeleteUserRow(w) ==
    /\ \E read \in UsersRead(w) :
          /\ read.id # request[w].user
          /\ users' = [users EXCEPT ![read.id] = None]
    /\ tokens' = Touch(request[w])
    /\ Done(w)
    /\ UNCHANGED <<members, groups, grants, identities, sessions, mails, served, history>>

\* Anybody but oneself, and the memberships that were read.
DeleteUser(w) ==
    /\ \E read \in UsersRead(w) :
          LET id == read.id
              was == {id} \X read.joined
          IN
          /\ id # request[w].user
          /\ Replaces(members, was, {})
          /\ users' = [users EXCEPT ![id] = None]
          /\ members' = Replaced(members, was, {})
          /\ crossed' = crossed \union (members' \intersect ({id} \X Group))
    /\ tokens' = Touch(request[w])
    /\ Done(w)
    /\ UNCHANGED <<groups, grants, identities, sessions, mails, served, holder, confirmed,
                   appointed, regiven>>

\* A new group is given roles that an earlier group of the id did not leave behind.
CreateGroup(w) ==
    /\ Managing(w)
    /\ \E g \in Group \ groups, given \in SUBSET Role :
          /\ Replaces(grants, {}, {g} \X given)
          /\ groups' = groups \union {g}
          /\ grants' = Replaced(grants, {}, {g} \X given)
    /\ tokens' = Touch(request[w])
    /\ Done(w)
    /\ UNCHANGED <<users, members, identities, sessions, mails, served, history>>

\* The roles of a group, protected or not.
UpdateGroup(w) ==
    /\ \E read \in GroupsRead(w), given \in SUBSET Role :
          LET was == {read.group} \X read.roles
              new == {read.group} \X given
          IN
          /\ Replaces(grants, was, new)
          /\ grants' = Replaced(grants, was, new)
    /\ tokens' = Touch(request[w])
    /\ Done(w)
    /\ UNCHANGED <<users, members, groups, identities, sessions, mails, served, history>>

\* Any group but the protected ones, with the roles and the memberships that were read.
DeleteGroup(w) ==
    /\ \E read \in GroupsRead(w) :
          LET was == read.joined \X {read.group}
              roles == {read.group} \X read.roles
          IN
          /\ read.group # "administrators"
          /\ Replaces(members, was, {}) /\ Replaces(grants, roles, {})
          /\ groups' = groups \ {read.group}
          /\ grants' = Replaced(grants, roles, {})
          /\ members' = Replaced(members, was, {})
          /\ crossed' = crossed \union (members' \intersect (Id \X {read.group}))
    /\ tokens' = Touch(request[w])
    /\ Done(w)
    /\ UNCHANGED <<users, identities, sessions, mails, served, holder, confirmed, appointed,
                   regiven>>

\* The request raises, is refused, or only reads.
GiveUp(w) ==
    /\ request[w] # Idle
    /\ Done(w)
    /\ UNCHANGED <<database, sessions, mails, served, history>>

\* bootstrap_security: the groups have their role, and the root user is in its group.
\* Whether it is active is left as it is.
Restart ==
    /\ Counted
    /\ request' = [w \in Worker |-> Idle]
    /\ groups' = Group
    /\ grants' = grants \union {<<"administrators", "admin">>, <<"downloaders", "downloader">>}
    /\ IF Named(Root) = {}
       THEN /\ AddUser(Added(Root, None, TRUE, FALSE))
            /\ members' = members \union {<<NewId, "administrators">>}
       ELSE /\ members' = members \union (Named(Root) \X {"administrators"})
            /\ UNCHANGED <<users, regiven>>
    /\ appointed' = appointed \union {Root}
    /\ UNCHANGED <<tokens, identities, sessions, mails, holder, confirmed, crossed>>

Serve(w) ==
    \/ Login(w) \/ LoginToken(w) \/ Verify(w) \/ External(w)
    \/ Authorize(w) \/ CreateToken(w) \/ RevokeToken(w) \/ GiveUp(w)
    \/ LoadUser(w) \/ CreateUser(w) \/ UpdateUser(w) \/ DeleteUser(w)
    \/ LoadGroup(w) \/ CreateGroup(w) \/ UpdateGroup(w) \/ DeleteGroup(w)

\* The database after its first bootstrap.
Init ==
    /\ users = [id \in Id |-> IF id = 1 THEN Added(Root, None, TRUE, FALSE) ELSE None]
    /\ members = {<<1, "administrators">>}
    /\ groups = Group
    /\ grants = {<<"administrators", "admin">>, <<"downloaders", "downloader">>}
    /\ tokens = [t \in Token |-> None]
    /\ identities = [p \in Person |-> None]
    /\ sessions = {} /\ mails = {}
    /\ request = [w \in Worker |-> Idle]
    /\ served = 0
    /\ holder = [t \in Token |-> None]
    /\ confirmed = {} /\ appointed = {Root} /\ regiven = {} /\ crossed = {}

Next ==
    \/ \E p \in Person : Register(p)
    \/ \E s \in sessions : Logout(s)
    \/ \E w \in Worker, p \in Person : CheckPassword(w, p) \/ Callback(w, p)
    \/ \E w \in Worker, mail \in mails : OpenLink(w, mail)
    \/ \E w \in Worker : Serve(w)
    \/ Restart

Spec == Init /\ [][Next]_vars
-----------------------------------------------------------------------------
\* The type of the accounts' state.
TypeOK ==
    /\ users \in [Id -> User \union {None}]
    /\ members \subseteq Id \X Group
    /\ groups \subseteq Group /\ grants \subseteq Group \X Role
    /\ tokens \in [Token -> ApiToken \union {None}]
    /\ identities \in [Person -> Id \union {None}]
    /\ sessions \subseteq Session
    /\ mails \subseteq Mail
    /\ served \in 0 .. MaxRequests
    /\ holder \in [Token -> Person \union {None}]
    /\ confirmed \subseteq Person /\ appointed \subseteq Person /\ regiven \subseteq Id
    /\ crossed \subseteq Id \X (Group \union {"verified"})

\* Who holds a credential of this id is the person of its account, unless there is no
\* account, or it is another's who was given the id while the credential was there.
SpeaksFor(person, id) == users[id] = None \/ id \in regiven \/ users[id].name = person

\* Who acts for an account is the person of that account, whichever way the credential
\* came about: by a token, a session, an identity, or a request on its way to one that
\* read the account before.  The exception is the id of a deleted user that was given
\* again: what named it then speaks for the new user.
CredentialsSpeakForTheirHolder ==
    /\ \A t \in Token : tokens[t] # None => SpeaksFor(holder[t], tokens[t].user)
    /\ \A s \in sessions : SpeaksFor(s.person, s.user)
    /\ \A p \in Person : identities[p] # None => SpeaksFor(p, identities[p])
    /\ \A w \in Worker : request[w].user # 0 => SpeaksFor(request[w].person, request[w].user)

\* Nobody is in the administrators' group whom no administrator and no bootstrap put
\* there, whatever ids are given again, groups deleted and roles changed.  The exception
\* is a membership that an overtaken update wrote, or an overtaken deletion left, for
\* an id that was no longer what the request had read.
AdministratorsWereAppointed ==
    \A id \in Id : <<id, "administrators">> \in members \ crossed =>
        users[id] # None /\ users[id].name \in appointed

\* An address is verified only when its owner followed a link, or a provider vouched,
\* although links outlive the account they were sent for and ids are given again.  The
\* exception is an id that changed hands between the check of the address and the UPDATE.
VerifiedWasConfirmed ==
    \A id \in Id :
        users[id] # None /\ users[id].verified /\ <<id, "verified">> \notin crossed =>
            users[id].email \in confirmed

\* A revoked token stays revoked, although requests that it authorized before are
\* still to commit what they write to its row.
RevocationIsPermanent ==
    [][\A t \in Token : tokens[t] # None /\ tokens[t].revoked =>
          tokens'[t] # None /\ tokens'[t].revoked]_vars
=============================================================================
