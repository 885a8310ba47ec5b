------------------------- MODULE StoreAccountsProofs -------------------------
(***************************************************************************)
(* Safety of the store's accounts, for any number of persons, threads,     *)
(* accounts, tokens and requests.                                          *)
(*                                                                         *)
(* Everything rests on when an id is given: NewId is the id of no user     *)
(* (NewIdIsFree), and whoever still holds a credential of that id, or      *)
(* serves a request that read it before, is remembered in regiven.  What   *)
(* a request read may be stale when it commits, so the invariant says of   *)
(* the requests under way only what they took with them.                   *)
(***************************************************************************)
EXTENDS StoreAccounts, WellFoundedInduction, TLAPS

(***************************************************************************)
(* What a request carries, kind by kind.                                   *)
(***************************************************************************)
LoginRequest == [op : {"login", "token"}, user : Id, person : Person]

LinkRequest == [op : {"verify"}, user : {0}, mail : Mail, row : User]

UnknownRequest ==
    [op : {"external"}, user : {0}, person : Person, row : {None}, known : BOOLEAN]

KnownRequest ==
    [op : {"external"}, user : Id, person : Person, row : User, known : BOOLEAN]

UserRead == [id : Id, row : User, joined : SUBSET Group, known : SUBSET Group]

GroupRead == [group : Group, roles : SUBSET Role, joined : SUBSET Id]

AuthorizedRequest ==
    [op : {"serve"}, user : Id, person : Person \union {None}, token : Token \union {0},
     loaded : ApiToken \union {None}, manages : BOOLEAN, read : {None}]

UserRequest ==
    [op : {"user"}, user : Id, person : Person \union {None}, token : Token \union {0},
     loaded : ApiToken \union {None}, manages : BOOLEAN, read : UserRead]

GroupRequest ==
    [op : {"group"}, user : Id, person : Person \union {None}, token : Token \union {0},
     loaded : ApiToken \union {None}, manages : BOOLEAN, read : GroupRead]

Request ==
    LoginRequest \union LinkRequest \union UnknownRequest \union KnownRequest
    \union AuthorizedRequest \union UserRequest \union GroupRequest

\* A request that was authorized, and perhaps has read what it is to change.
Authorized(w) == request[w].op \in {"serve", "user", "group"}
-----------------------------------------------------------------------------
Typed == TypeOK /\ request \in [Worker -> Request \union {Idle}]

\* The token that authorized a request is never deleted.
UsedTokensExist ==
    \A w \in Worker : Authorized(w) /\ request[w].token # 0 => tokens[request[w].token] # None

\* A link is followed for the account that had its address when it was opened.
LinksMatched ==
    \A w \in Worker : request[w].op = "verify" => request[w].row.email = request[w].mail.name

\* A membership is of an account and of a group that exist, unless it was written for,
\* or left by, one that was gone: whoever is given the id of a deleted account gets none
\* of the groups that its deletion had read.
MembershipsResolve ==
    \A id \in Id, g \in Group :
        <<id, g>> \in members \ crossed => users[id] # None /\ g \in groups

IInv ==
    /\ Typed
    /\ UsedTokensExist
    /\ LinksMatched
    /\ MembershipsResolve
    /\ CredentialsSpeakForTheirHolder
    /\ AdministratorsWereAppointed
    /\ VerifiedWasConfirmed

\* Whom a credential speaks for in the next state.
SpeaksForNext(person, id) ==
    users'[id] = None \/ id \in regiven' \/ users'[id].name = person

\* Nobody holds a credential of this id, or serves a request for it.
Unheld(id) ==
    /\ \A t \in Token : tokens[t] # None => tokens[t].user # id
    /\ \A s \in sessions : s.user # id
    /\ \A p \in Person : identities[p] # id
    /\ \A w \in Worker : request[w].user # id
-----------------------------------------------------------------------------
(***************************************************************************)
(* Facts about states.                                                     *)
(***************************************************************************)

\* There is an id above all those of users, and none of it is theirs.
LEMMA NewIdIsFree ==
    ASSUME Typed
    PROVE  /\ NewId \in 1 .. MaxId + 1
           /\ \A id \in Id : users[id] # None => id < NewId
           /\ NewId \in Id => users[NewId] = None
<1> DEFINE Above == {n \in 1 .. MaxId + 1 : \A id \in Id : users[id] # None => id < n}
<1>1. MaxId + 1 \in Above /\ Above \subseteq Nat
    BY BoundAssumption DEF Id
<1>2. PICK new \in Above : \A n \in Above : new <= n
    <2>1. \E new \in Above : \A n \in Above : ~(n < new)
        <3>1. \E new \in Above : \A n \in Above : ~(<<n, new>> \in OpToRel(<, Nat))
            BY <1>1, WFMin, NatLessThanWellFounded, Zenon
        <3> QED BY <1>1, <3>1, Zenon DEF OpToRel
    <2> QED BY <1>1, <2>1
<1>3. new = 1 \/ users[new - 1] # None
    <2>1. SUFFICES ASSUME new # 1, users[new - 1] = None PROVE FALSE
        OBVIOUS
    <2>2. new - 1 \in Above
        BY <1>2, <2>1, BoundAssumption DEF Id
    <2> QED BY <1>2, <2>2, <1>1
<1>4. \E n \in 1 .. MaxId + 1 :
        /\ \A id \in Id : users[id] # None => id < n
        /\ n = 1 \/ users[n - 1] # None
    BY <1>2, <1>3
<1>5. /\ NewId \in 1 .. MaxId + 1
      /\ \A id \in Id : users[id] # None => id < NewId
    BY <1>4 DEF NewId
<1> QED BY <1>5 DEF Id

\* The operation of a request tells what it carries.
LEMMA RequestKinds ==
    ASSUME Typed, NEW w \in Worker
    PROVE  /\ request[w].op \in {"login", "token"} => request[w] \in LoginRequest
           /\ request[w].op = "verify" => request[w] \in LinkRequest
           /\ request[w].op = "external" => request[w] \in UnknownRequest \union KnownRequest
           /\ request[w].op = "serve" => request[w] \in AuthorizedRequest
           /\ request[w].op = "user" => request[w] \in UserRequest
           /\ request[w].op = "group" => request[w] \in GroupRequest
           /\ request[w] # Idle => request[w] \in Request
BY DEF Typed, Request, Idle, LoginRequest, LinkRequest, UnknownRequest, KnownRequest,
       AuthorizedRequest, UserRequest, GroupRequest

\* An authorized request has a user, and perhaps a token.
LEMMA AuthorizedRequests ==
    ASSUME Typed, NEW w \in Worker, Authorized(w)
    PROVE  /\ request[w].user \in Id /\ request[w].person \in Person \union {None}
           /\ request[w].token \in Token \union {0}
BY RequestKinds DEF Authorized, AuthorizedRequest, UserRequest, GroupRequest

\* Using a token writes one column of its row.
LEMMA TouchWritesUse ==
    ASSUME Typed, UsedTokensExist, NEW w \in Worker, Authorized(w)
    PROVE  LET touched == Touch(request[w]) IN
           /\ touched \in [Token -> ApiToken \union {None}]
           /\ \A t \in Token : tokens[t] = None => touched[t] = None
           /\ \A t \in Token : tokens[t] # None =>
                 /\ touched[t] \in ApiToken
                 /\ touched[t].user = tokens[t].user
                 /\ touched[t].revoked = tokens[t].revoked
<1>2. CASE request[w].token = 0
    BY <1>2 DEF Typed, TypeOK, Touch
<1>3. CASE request[w].token # 0
    <2> DEFINE t == request[w].token
    <2>1. t \in Token /\ tokens[t] # None /\ tokens[t] \in ApiToken
        BY <1>3, AuthorizedRequests DEF Typed, TypeOK, UsedTokensExist
    <2>2. [tokens[t] EXCEPT !.used = TRUE] \in ApiToken
        BY <2>1 DEF ApiToken
    <2>3. Touch(request[w]) = [tokens EXCEPT ![t] = [tokens[t] EXCEPT !.used = TRUE]]
        BY <1>3 DEF Touch
    <2>4. /\ [tokens[t] EXCEPT !.used = TRUE].user = tokens[t].user
          /\ [tokens[t] EXCEPT !.used = TRUE].revoked = tokens[t].revoked
        BY <2>1 DEF ApiToken
    <2> HIDE DEF t
    <2> QED BY <2>1, <2>2, <2>3, <2>4 DEF Typed, TypeOK
<1> QED BY <1>2, <1>3

\* What an account that is added changes.
LEMMA AddUserAdds ==
    ASSUME Typed, NEW user \in User, AddUser(user)
    PROVE  /\ NewId \in Id /\ users[NewId] = None
           /\ users' = [users EXCEPT ![NewId] = user]
           /\ users' \in [Id -> User \union {None}]
           /\ regiven \subseteq regiven' /\ regiven' \subseteq Id
           /\ NewId \in regiven' \/ Unheld(NewId)
<1>1. NewId \in Id /\ users[NewId] = None
    BY NewIdIsFree DEF AddUser
<1>2. NewId \in regiven' \/ Unheld(NewId)
    BY DEF AddUser, Unheld
<1> QED BY <1>1, <1>2 DEF AddUser, Typed, TypeOK

\* What a token that is issued changes.
LEMMA IssueAdds ==
    ASSUME Typed, NEW id \in Id, NEW p \in Person \union {None},
           NEW table \in [Token -> ApiToken \union {None}], Issue(id, p, table)
    PROVE  /\ tokens' \in [Token -> ApiToken \union {None}]
           /\ holder' \in [Token -> Person \union {None}]
           /\ \E t \in Token :
                 /\ tokens[t] = None /\ tokens'[t].user = id /\ holder'[t] = p
                 /\ \A s \in Token \ {t} : tokens'[s] = table[s] /\ holder'[s] = holder[s]
BY DEF Issue, Typed, TypeOK, ApiToken

\* A flush leaves the name, and the columns that the request left.
LEMMA FlushUpdates ==
    ASSUME Typed, NEW id \in Id, NEW row \in User, NEW new \in User, Flush(id, row, new)
    PROVE  \/ users' = users
           \/ /\ users[id] # None
              /\ \E user \in User :
                    /\ users' = [users EXCEPT ![id] = user]
                    /\ user.name = users[id].name
                    /\ user.email = IF new.email = row.email THEN users[id].email ELSE new.email
                    /\ user.verified = IF new.verified = row.verified THEN users[id].verified
                                       ELSE new.verified
<1>1. SUFFICES ASSUME new # row
      PROVE  /\ users[id] # None
             /\ \E user \in User :
                   /\ users' = [users EXCEPT ![id] = user]
                   /\ user.name = users[id].name
                   /\ user.email = IF new.email = row.email THEN users[id].email ELSE new.email
                   /\ user.verified = IF new.verified = row.verified THEN users[id].verified
                                      ELSE new.verified
    BY DEF Flush
<1> DEFINE email == IF new.email = row.email THEN users[id].email ELSE new.email
           active == IF new.active = row.active THEN users[id].active ELSE new.active
           verified == IF new.verified = row.verified THEN users[id].verified ELSE new.verified
           user == [users[id] EXCEPT !.email = email, !.active = active, !.verified = verified]
<1>2. users[id] # None /\ users[id] \in User
    BY <1>1 DEF Flush, Typed, TypeOK
<1>3. /\ email \in Person \union {None} /\ active \in BOOLEAN /\ verified \in BOOLEAN
    BY <1>2 DEF User
<1>4. users' = [users EXCEPT ![id] = user]
    BY <1>1, <1>2 DEF Flush, Typed, TypeOK, User
<1> HIDE DEF email, active, verified
<1>5. user \in User /\ user.name = users[id].name /\ user.email = email /\ user.verified = verified
    BY <1>2, <1>3 DEF User
<1> HIDE DEF user
<1> QED BY <1>2, <1>4, <1>5 DEF email, verified

\* What a request read of a user, and of a group.
LEMMA UsersReadTyped ==
    ASSUME Typed, NEW w \in Worker, NEW read \in UsersRead(w)
    PROVE  Authorized(w) /\ read \in UserRead
<1>1. CASE request[w].op = "user"
    BY <1>1, RequestKinds DEF UsersRead, UserRequest, Authorized
<1>2. CASE request[w].op # "user"
    <2>1. /\ Managing(w)
          /\ \E id \in Id : users[id] # None /\ read = UserNow(id)
        BY <1>2 DEF UsersRead
    <2>2. PICK id \in Id : users[id] # None /\ read = UserNow(id)
        BY <2>1
    <2>3. users[id] \in User /\ groups \subseteq Group
        BY <2>2 DEF Typed, TypeOK
    <2> QED BY <2>1, <2>2, <2>3 DEF UserNow, UserRead, Managing, Serving, Authorized
<1> QED BY <1>1, <1>2

LEMMA GroupsReadTyped ==
    ASSUME Typed, NEW w \in Worker, NEW read \in GroupsRead(w)
    PROVE  Authorized(w) /\ read \in GroupRead
<1>1. CASE request[w].op = "group"
    BY <1>1, RequestKinds DEF GroupsRead, GroupRequest, Authorized
<1>2. CASE request[w].op # "group"
    <2>1. Managing(w) /\ \E g \in groups : read = GroupNow(g)
        BY <1>2 DEF GroupsRead
    <2>2. PICK g \in groups : read = GroupNow(g)
        BY <2>1
    <2> QED BY <2>1, <2>2 DEF GroupNow, GroupRead, Managing, Serving, Authorized, Typed, TypeOK
<1> QED BY <1>1, <1>2
-----------------------------------------------------------------------------
(***************************************************************************)
(* What a step does to the accounts.                                       *)
(***************************************************************************)

\* An account is added; its address is verified only if it was confirmed.
Adds(user) == AddUser(user) /\ (user.verified => user.email \in confirmed')

\* An account keeps its name, and its address unless the new one is free.
Updates(id, user) ==
    /\ users[id] # None /\ users' = [users EXCEPT ![id] = user] /\ regiven' = regiven
    /\ user.name = users[id].name
    /\ user.email = users[id].email \/ EmailFree(user.email, id)
    /\ user.verified =>
          \/ users[id].verified /\ user.email = users[id].email
          \/ user.email \in confirmed'
          \/ <<id, "verified">> \in crossed'

Deletes(id) == users' = [users EXCEPT ![id] = None] /\ regiven' = regiven

UsersChange ==
    \/ UNCHANGED <<users, regiven>>
    \/ \E user \in User : Adds(user)
    \/ \E id \in Id : \E user \in User : Updates(id, user)
    \/ \E id \in Id : Deletes(id)

\* Nothing of the histories is forgotten.
LEMMA HistoryGrows ==
    ASSUME [Next]_vars
    PROVE  /\ confirmed \subseteq confirmed' /\ appointed \subseteq appointed'
           /\ crossed \subseteq crossed'
<1> DEFINE Goal == /\ confirmed \subseteq confirmed' /\ appointed \subseteq appointed'
                   /\ crossed \subseteq crossed'
<1>1. ASSUME NEW p \in Person, Register(p) PROVE Goal
    BY <1>1 DEF Register
<1>2. ASSUME NEW w \in Worker, NEW p \in Person, CheckPassword(w, p) \/ Callback(w, p) PROVE Goal
    BY <1>2 DEF CheckPassword, Callback, history
<1>3. ASSUME NEW w \in Worker, NEW mail \in mails, OpenLink(w, mail) PROVE Goal
    BY <1>3 DEF OpenLink, history
<1>4. ASSUME NEW w \in Worker, Verify(w) \/ External(w) PROVE Goal
    BY <1>4 DEF Verify, External, AddExternal, UpdateExternal
<1>5. ASSUME NEW w \in Worker, Login(w) \/ LoginToken(w) \/ Authorize(w) \/ GiveUp(w) PROVE Goal
    BY <1>5 DEF Login, LoginToken, Authorize, GiveUp, history
<1>6. ASSUME NEW w \in Worker, CreateToken(w) \/ RevokeToken(w) \/ LoadUser(w) \/ LoadGroup(w)
      PROVE  Goal
    BY <1>6 DEF CreateToken, RevokeToken, LoadUser, LoadGroup, history
<1>7. ASSUME NEW w \in Worker, CreateUser(w) \/ UpdateUser(w) \/ DeleteUser(w) PROVE Goal
    BY <1>7 DEF CreateUser, UpdateUser, DeleteUser
<1>8. ASSUME NEW w \in Worker, CreateGroup(w) \/ UpdateGroup(w) \/ DeleteGroup(w) PROVE Goal
    BY <1>8 DEF CreateGroup, UpdateGroup, DeleteGroup, history
<1>9. ASSUME NEW s \in sessions, Logout(s) PROVE Goal
    BY <1>9 DEF Logout, history
<1>10. Restart \/ UNCHANGED vars => Goal
    BY DEF Restart, vars, history
<1> QED BY <1>1, <1>2, <1>3, <1>4, <1>5, <1>6, <1>7, <1>8, <1>9, <1>10 DEF Next, Serve

\* An account that was found through a link, checked when it was read.
LEMMA VerifyUpdates ==
    ASSUME IInv, NEW w \in Worker, Verify(w) PROVE UsersChange
<1> DEFINE r == request[w]
           id == r.mail.user
           new == [r.row EXCEPT !.active = TRUE, !.verified = TRUE]
<1>1. Typed /\ r \in LinkRequest /\ r.row.email = r.mail.name
    BY RequestKinds DEF IInv, Verify, LinksMatched
<1>2. id \in Id /\ r.row \in User /\ r.mail.name \in Person
    BY <1>1 DEF LinkRequest, Mail
<1>3. new \in User /\ new.email = r.row.email
    BY <1>2 DEF User
<1>4. /\ Flush(id, r.row, new) /\ regiven' = regiven
      /\ confirmed' = confirmed \union {r.mail.name}
      /\ users[id] # None /\ users[id].email # r.row.email => <<id, "verified">> \in crossed'
    BY DEF Verify
<1> HIDE DEF id, new
<1>5. CASE users' = users
    BY <1>4, <1>5 DEF UsersChange
<1>6. ASSUME NEW user \in User, users[id] # None, users' = [users EXCEPT ![id] = user],
             user.name = users[id].name, user.email = users[id].email
      PROVE  UsersChange
    <2>1. user.email \in confirmed' \/ <<id, "verified">> \in crossed'
        BY <1>1, <1>4, <1>6
    <2> QED BY <1>2, <1>4, <1>6, <2>1 DEF UsersChange, Updates
<1> QED BY <1>1, <1>2, <1>3, <1>4, <1>5, <1>6, FlushUpdates

\* An account that was found for a provider's address.
LEMMA ExternalUpdates ==
    ASSUME IInv, NEW w \in Worker, External(w) PROVE UsersChange
<1> DEFINE r == request[w]
           id == r.user
           p == r.person
           new == [r.row EXCEPT !.email = p, !.active = TRUE, !.verified = TRUE]
<1>1. Typed /\ r \in UnknownRequest \union KnownRequest /\ confirmed' = confirmed \union {p}
    BY RequestKinds DEF IInv, External
<1>2. CASE r \in UnknownRequest
    <2>1. AddUser(Added(p, p, TRUE, TRUE)) /\ p \in Person
        BY <1>2 DEF External, AddExternal, UnknownRequest
    <2>2. Added(p, p, TRUE, TRUE) \in User /\ Added(p, p, TRUE, TRUE).email = p
        BY <2>1 DEF Added, User
    <2> QED BY <1>1, <2>1, <2>2 DEF UsersChange, Adds
<1>3. CASE r \in KnownRequest
    <2>1. id \in Id /\ id # 0 /\ r.row \in User /\ p \in Person
        BY <1>3, BoundAssumption DEF KnownRequest, Id
    <2>2. UpdateExternal(r)
        BY <2>1 DEF External
    <2>3. new \in User /\ new.email = p
        BY <2>1 DEF User
    <2>4. /\ Flush(id, r.row, new) /\ regiven' = regiven
          /\ r.row.email # p => EmailFree(p, id)
          /\ users'[id] # None /\ users'[id].email # p => <<id, "verified">> \in crossed'
        BY <2>2 DEF UpdateExternal
    <2> HIDE DEF id, new, p, r
    <2>5. CASE users' = users
        BY <2>4, <2>5 DEF UsersChange
    <2>6. ASSUME NEW user \in User, users[id] # None, users' = [users EXCEPT ![id] = user],
                 user.name = users[id].name,
                 user.email = IF new.email = r.row.email THEN users[id].email ELSE new.email
          PROVE  UsersChange
        <3>1. users'[id] = user /\ user # None
            BY <1>1, <2>1, <2>6, NoneAssumption DEF Typed, TypeOK
        <3>2. user.email \in confirmed' \/ <<id, "verified">> \in crossed'
            BY <1>1, <2>4, <3>1
        <3>3. user.email = users[id].email \/ EmailFree(user.email, id)
            BY <2>3, <2>4, <2>6
        <3> QED BY <2>1, <2>4, <2>6, <3>2, <3>3 DEF UsersChange, Updates
    <2> QED BY <1>1, <2>1, <2>3, <2>4, <2>5, <2>6, FlushUpdates
<1> QED BY <1>1, <1>2, <1>3

\* An administrator changes the active flag only.
LEMMA UpdateUserUpdates ==
    ASSUME IInv, NEW w \in Worker, UpdateUser(w) PROVE UsersChange
<1>1. PICK read \in UsersRead(w), active \in BOOLEAN :
         Flush(read.id, read.row, [read.row EXCEPT !.active = active])
    BY DEF UpdateUser
<1> DEFINE id == read.id
           row == read.row
           new == [row EXCEPT !.active = active]
<1>2. Typed /\ id \in Id /\ row \in User /\ regiven' = regiven
    BY UsersReadTyped DEF IInv, UserRead, UpdateUser
<1>3. new \in User /\ new.email = row.email /\ new.verified = row.verified
    BY <1>2 DEF User
<1>4. Flush(id, row, new)
    BY <1>1
<1> HIDE DEF id, row, new
<1>5. CASE users' = users
    BY <1>2, <1>5 DEF UsersChange
<1>6. ASSUME NEW user \in User, users[id] # None, users' = [users EXCEPT ![id] = user],
             user.name = users[id].name, user.email = users[id].email,
             user.verified = users[id].verified
      PROVE  UsersChange
    BY <1>2, <1>6 DEF UsersChange, Updates
<1> QED BY <1>2, <1>3, <1>4, <1>5, <1>6, FlushUpdates

\* Every step leaves the users, adds one, updates one or deletes one.
LEMMA UsersStep == ASSUME IInv, [Next]_vars PROVE UsersChange
<1>1. ASSUME UNCHANGED <<users, regiven>> PROVE UsersChange
    BY <1>1 DEF UsersChange
<1>2. ASSUME NEW p \in Person, NEW email \in Person \union {None}, NEW active \in BOOLEAN,
             AddUser(Added(p, email, active, FALSE))
      PROVE  UsersChange
    <2>1. Added(p, email, active, FALSE) \in User /\ ~Added(p, email, active, FALSE).verified
        BY <1>2 DEF Added, User
    <2> QED BY <1>2, <2>1 DEF UsersChange, Adds
<1>3. ASSUME NEW p \in Person, Register(p) PROVE UsersChange
    BY <1>2, <1>3 DEF Register
<1>4. ASSUME NEW w \in Worker, CreateUser(w) PROVE UsersChange
    BY <1>2, <1>4 DEF CreateUser
<1>5. ASSUME Restart PROVE UsersChange
    BY <1>1, <1>2, <1>5, RootAssumption DEF Restart
<1>6. ASSUME NEW w \in Worker, DeleteUser(w) PROVE UsersChange
    <2>1. PICK read \in UsersRead(w) : users' = [users EXCEPT ![read.id] = None]
        BY <1>6 DEF DeleteUser
    <2>2. read.id \in Id /\ regiven' = regiven
        BY <1>6, UsersReadTyped DEF IInv, UserRead, DeleteUser
    <2> QED BY <2>1, <2>2 DEF UsersChange, Deletes
<1>7. ASSUME NEW w \in Worker, NEW p \in Person, CheckPassword(w, p) \/ Callback(w, p)
      PROVE  UsersChange
    BY <1>1, <1>7 DEF CheckPassword, Callback, history, database
<1>8. ASSUME NEW w \in Worker, NEW mail \in mails, OpenLink(w, mail) PROVE UsersChange
    BY <1>1, <1>8 DEF OpenLink, history, database
<1>9. ASSUME NEW w \in Worker,
             \/ Login(w) \/ LoginToken(w) \/ Authorize(w) \/ GiveUp(w) \/ CreateToken(w)
             \/ RevokeToken(w) \/ LoadUser(w) \/ LoadGroup(w)
      PROVE  UsersChange
    BY <1>1, <1>9 DEF Login, LoginToken, Authorize, GiveUp, CreateToken, RevokeToken,
                      LoadUser, LoadGroup, history, database
<1>10. ASSUME NEW w \in Worker, CreateGroup(w) \/ UpdateGroup(w) \/ DeleteGroup(w)
       PROVE  UsersChange
    BY <1>1, <1>10 DEF CreateGroup, UpdateGroup, DeleteGroup, history
<1>11. ASSUME NEW s \in sessions, Logout(s) PROVE UsersChange
    BY <1>1, <1>11 DEF Logout, history, database
<1>12. UNCHANGED vars => UsersChange
    BY <1>1 DEF vars, history, database
<1> QED BY <1>3, <1>4, <1>5, <1>6, <1>7, <1>8, <1>9, <1>10, <1>11, <1>12, VerifyUpdates,
           ExternalUpdates, UpdateUserUpdates DEF Next, Serve

\* Users keep their type; only ids of users are given again.
LEMMA UsersTyped ==
    ASSUME IInv, [Next]_vars
    PROVE  /\ users' \in [Id -> User \union {None}]
           /\ regiven' \subseteq Id /\ regiven \subseteq regiven'
<1>0. Typed
    BY DEF IInv
<1>1. CASE UNCHANGED <<users, regiven>>
    BY <1>0, <1>1 DEF Typed, TypeOK
<1>2. ASSUME NEW user \in User, Adds(user)
      PROVE  /\ users' \in [Id -> User \union {None}]
             /\ regiven' \subseteq Id /\ regiven \subseteq regiven'
    BY <1>0, <1>2, AddUserAdds DEF Adds
<1>3. ASSUME NEW id \in Id, NEW user \in User \union {None},
             users' = [users EXCEPT ![id] = user], regiven' = regiven
      PROVE  /\ users' \in [Id -> User \union {None}]
             /\ regiven' \subseteq Id /\ regiven \subseteq regiven'
    BY <1>0, <1>3 DEF Typed, TypeOK
<1> QED BY <1>1, <1>2, <1>3, UsersStep DEF UsersChange, Updates, Deletes

\* An account keeps its name; whoever is added under an id that credentials still name
\* is remembered.
LEMMA AccountsStay ==
    ASSUME IInv, [Next]_vars, NEW id \in Id, users'[id] # None
    PROVE  \/ users[id] # None /\ users'[id].name = users[id].name
           \/ id \in regiven' \/ Unheld(id)
<1> DEFINE Goal == \/ users[id] # None /\ users'[id].name = users[id].name
                   \/ id \in regiven' \/ Unheld(id)
<1>0. Typed
    BY DEF IInv
<1>1. CASE UNCHANGED <<users, regiven>>
    BY <1>1
<1>2. ASSUME NEW user \in User, Adds(user) PROVE Goal
    <2>1. users' = [users EXCEPT ![NewId] = user] /\ (NewId \in regiven' \/ Unheld(NewId))
        BY <1>0, <1>2, AddUserAdds DEF Adds
    <2> QED BY <1>0, <2>1 DEF Typed, TypeOK
<1>3. ASSUME NEW other \in Id, NEW user \in User, Updates(other, user) PROVE Goal
    BY <1>0, <1>3 DEF Updates, Typed, TypeOK
<1>4. ASSUME NEW other \in Id, Deletes(other) PROVE Goal
    BY <1>0, <1>4 DEF Deletes, Typed, TypeOK
<1> QED BY <1>1, <1>2, <1>3, <1>4, UsersStep DEF UsersChange

\* Whoever held a credential of an id goes on speaking for its account.
LEMMA SpeaksForStays ==
    ASSUME IInv, [Next]_vars, NEW id \in Id, NEW person, ~Unheld(id), SpeaksFor(person, id)
    PROVE  SpeaksForNext(person, id)
BY AccountsStay, UsersTyped DEF SpeaksFor, SpeaksForNext

\* Whatever sets an address as verified adds its owner to confirmed, unless the id had
\* changed hands.
LEMMA VerifiedStep == ASSUME IInv, [Next]_vars PROVE VerifiedWasConfirmed'
<1> SUFFICES ASSUME NEW id \in Id, users'[id] # None, users'[id].verified,
                    <<id, "verified">> \notin crossed'
             PROVE  users'[id].email \in confirmed'
    BY DEF VerifiedWasConfirmed
<1>0. /\ Typed /\ confirmed \subseteq confirmed' /\ <<id, "verified">> \notin crossed
      /\ users[id] # None /\ users[id].verified => users[id].email \in confirmed
    BY HistoryGrows DEF IInv, VerifiedWasConfirmed
<1>1. CASE UNCHANGED <<users, regiven>>
    BY <1>0, <1>1
<1>2. ASSUME NEW user \in User, Adds(user) PROVE users'[id].email \in confirmed'
    <2>1. users' = [users EXCEPT ![NewId] = user]
        BY <1>0, <1>2, AddUserAdds DEF Adds
    <2> QED BY <1>0, <1>2, <2>1 DEF Adds, Typed, TypeOK
<1>3. ASSUME NEW other \in Id, NEW user \in User, Updates(other, user)
      PROVE  users'[id].email \in confirmed'
    BY <1>0, <1>3 DEF Updates, Typed, TypeOK
<1>4. ASSUME NEW other \in Id, Deletes(other) PROVE users'[id].email \in confirmed'
    BY <1>0, <1>4 DEF Deletes, Typed, TypeOK
<1> QED BY <1>1, <1>2, <1>3, <1>4, UsersStep DEF UsersChange
-----------------------------------------------------------------------------
(***************************************************************************)
(* Tokens.                                                                 *)
(***************************************************************************)

\* A request issues a token to its own person, for its own user.
Issues(w, table) ==
    /\ request[w].user \in Id /\ request[w].person \in Person \union {None}
    /\ Issue(request[w].user, request[w].person, table)
    /\ UNCHANGED <<users, regiven>>

Revokes(w) ==
    \E t \in Token : tokens[t] # None /\ tokens' = [Touch(request[w]) EXCEPT ![t].revoked = TRUE]

TokensChange ==
    \/ UNCHANGED <<tokens, holder>>
    \/ \E w \in Worker : Issues(w, tokens)
    \/ \E w \in Worker : Authorized(w) /\ Issues(w, Touch(request[w]))
    \/ \E w \in Worker : Authorized(w) /\ holder' = holder /\ Revokes(w)
    \/ \E w \in Worker : Authorized(w) /\ holder' = holder /\ tokens' = Touch(request[w])

\* Every step leaves the tokens, issues one, uses one, or revokes one.
LEMMA TokensStep == ASSUME IInv, [Next]_vars PROVE TokensChange
<1>0. Typed
    BY DEF IInv
<1>1. ASSUME UNCHANGED <<tokens, holder>> PROVE TokensChange
    BY <1>1 DEF TokensChange
<1>2. ASSUME NEW w \in Worker, LoginToken(w) PROVE TokensChange
    <2>1. request[w].user \in Id /\ request[w].person \in Person \union {None}
        BY <1>0, <1>2, RequestKinds DEF LoginToken, LoginRequest
    <2>2. Issues(w, tokens)
        BY <1>2, <2>1 DEF LoginToken, Issues
    <2> QED BY <2>2 DEF TokensChange
<1>3. ASSUME NEW w \in Worker, CreateToken(w) PROVE TokensChange
    <2>1. Authorized(w)
        BY <1>3 DEF CreateToken, Serving, Authorized
    <2>2. Issues(w, Touch(request[w]))
        BY <1>0, <1>3, <2>1, AuthorizedRequests DEF CreateToken, Issues
    <2> QED BY <2>1, <2>2 DEF TokensChange
<1>4. ASSUME NEW w \in Worker, RevokeToken(w) PROVE TokensChange
    BY <1>4 DEF RevokeToken, Serving, Authorized, Revokes, TokensChange, history
<1>5. ASSUME NEW w \in Worker, CreateUser(w) \/ CreateGroup(w) PROVE TokensChange
    BY <1>5 DEF CreateUser, CreateGroup, Managing, Serving, Authorized, TokensChange, history
<1>6. ASSUME NEW w \in Worker, UpdateUser(w) \/ DeleteUser(w) PROVE TokensChange
    <2>1. Authorized(w)
        BY <1>0, <1>6, UsersReadTyped DEF UpdateUser, DeleteUser
    <2> QED BY <1>6, <2>1 DEF UpdateUser, DeleteUser, TokensChange
<1>7. ASSUME NEW w \in Worker, UpdateGroup(w) \/ DeleteGroup(w) PROVE TokensChange
    <2>1. Authorized(w)
        BY <1>0, <1>7, GroupsReadTyped DEF UpdateGroup, DeleteGroup
    <2> QED BY <1>7, <2>1 DEF UpdateGroup, DeleteGroup, TokensChange, history
<1>8. ASSUME NEW p \in Person, Register(p) PROVE TokensChange
    BY <1>1, <1>8 DEF Register
<1>9. ASSUME NEW w \in Worker, NEW p \in Person, CheckPassword(w, p) \/ Callback(w, p)
      PROVE  TokensChange
    BY <1>1, <1>9 DEF CheckPassword, Callback, history, database
<1>10. ASSUME NEW w \in Worker, NEW mail \in mails, OpenLink(w, mail) PROVE TokensChange
    BY <1>1, <1>10 DEF OpenLink, history, database
<1>11. ASSUME NEW w \in Worker, Login(w) \/ Verify(w) \/ External(w) \/ Authorize(w) \/ GiveUp(w)
       PROVE  TokensChange
    BY <1>1, <1>11 DEF Login, Verify, External, Authorize, GiveUp, history, database
<1>12. ASSUME NEW w \in Worker, LoadUser(w) \/ LoadGroup(w) PROVE TokensChange
    BY <1>1, <1>12 DEF LoadUser, LoadGroup, history, database
<1>13. ASSUME NEW s \in sessions, Logout(s) PROVE TokensChange
    BY <1>1, <1>13 DEF Logout, history, database
<1>14. Restart \/ UNCHANGED vars => TokensChange
    BY <1>1 DEF Restart, vars, history, database
<1> QED BY <1>2, <1>3, <1>4, <1>5, <1>6, <1>7, <1>8, <1>9, <1>10, <1>11, <1>12, <1>13, <1>14
        DEF Next, Serve

\* A revocation changes one row of those the request's own token leaves.
LEMMA RevokesOne ==
    ASSUME Typed, UsedTokensExist, NEW w \in Worker, Authorized(w), Revokes(w)
    PROVE  /\ tokens' \in [Token -> ApiToken \union {None}]
           /\ \A t \in Token : tokens[t] = None => tokens'[t] = None
           /\ \A t \in Token : tokens[t] # None =>
                 /\ tokens'[t] \in ApiToken /\ tokens'[t].user = tokens[t].user
                 /\ tokens[t].revoked => tokens'[t].revoked
<1> DEFINE touched == Touch(request[w])
<1>1. PICK t \in Token : tokens[t] # None /\ tokens' = [touched EXCEPT ![t].revoked = TRUE]
    BY DEF Revokes
<1>2. /\ touched \in [Token -> ApiToken \union {None}]
      /\ \A s \in Token : tokens[s] = None => touched[s] = None
      /\ \A s \in Token : tokens[s] # None =>
            /\ touched[s] \in ApiToken
            /\ touched[s].user = tokens[s].user
            /\ touched[s].revoked = tokens[s].revoked
    BY TouchWritesUse
<1> HIDE DEF touched
<1> DEFINE row == [touched[t] EXCEPT !.revoked = TRUE]
<1>3. row \in ApiToken /\ row.user = tokens[t].user /\ row.revoked
    BY <1>1, <1>2 DEF ApiToken
<1>4. tokens' = [touched EXCEPT ![t] = row]
    BY <1>1
<1> HIDE DEF row
<1> QED BY <1>1, <1>2, <1>3, <1>4

\* A token keeps its row, its user and its holder, and does not come back once revoked.
LEMMA TokensStay ==
    ASSUME IInv, [Next]_vars, NEW t \in Token, tokens[t] # None
    PROVE  /\ tokens'[t] # None /\ tokens'[t].user = tokens[t].user
           /\ tokens[t].revoked => tokens'[t].revoked
           /\ holder'[t] = holder[t]
<1> DEFINE Goal == /\ tokens'[t] # None /\ tokens'[t].user = tokens[t].user
                   /\ tokens[t].revoked => tokens'[t].revoked
                   /\ holder'[t] = holder[t]
<1>0. Typed /\ UsedTokensExist
    BY DEF IInv
<1>1. CASE UNCHANGED <<tokens, holder>>
    BY <1>1
<1>2. ASSUME NEW w \in Worker, NEW table \in [Token -> ApiToken \union {None}],
             table[t] # None, table[t].user = tokens[t].user,
             table[t].revoked = tokens[t].revoked, Issues(w, table)
      PROVE  Goal
    BY <1>0, <1>2, IssueAdds DEF Issues
<1>3. /\ tokens \in [Token -> ApiToken \union {None}]
      /\ \A w \in Worker : Authorized(w) =>
            /\ Touch(request[w]) \in [Token -> ApiToken \union {None}]
            /\ Touch(request[w])[t] # None
            /\ Touch(request[w])[t].user = tokens[t].user
            /\ Touch(request[w])[t].revoked = tokens[t].revoked
    BY <1>0, TouchWritesUse, NoneAssumption DEF Typed, TypeOK
<1>4. ASSUME NEW w \in Worker, Authorized(w), holder' = holder, Revokes(w) PROVE Goal
    BY <1>0, <1>4, RevokesOne, NoneAssumption
<1>5. ASSUME NEW w \in Worker, Authorized(w), holder' = holder, tokens' = Touch(request[w])
      PROVE  Goal
    BY <1>0, <1>5, TouchWritesUse, NoneAssumption
<1> QED BY <1>1, <1>2, <1>3, <1>4, <1>5, TokensStep DEF TokensChange

LEMMA TokensTyped ==
    ASSUME IInv, [Next]_vars
    PROVE  /\ tokens' \in [Token -> ApiToken \union {None}]
           /\ holder' \in [Token -> Person \union {None}]
<1>0. Typed /\ UsedTokensExist
    BY DEF IInv
<1>1. tokens \in [Token -> ApiToken \union {None}] /\ holder \in [Token -> Person \union {None}]
    BY <1>0 DEF Typed, TypeOK
<1>2. \A w \in Worker : Authorized(w) => Touch(request[w]) \in [Token -> ApiToken \union {None}]
    BY <1>0, TouchWritesUse
<1>3. ASSUME NEW w \in Worker, NEW table \in [Token -> ApiToken \union {None}], Issues(w, table)
      PROVE  /\ tokens' \in [Token -> ApiToken \union {None}]
             /\ holder' \in [Token -> Person \union {None}]
    BY <1>0, <1>3, IssueAdds DEF Issues
<1>4. ASSUME NEW w \in Worker, Authorized(w), Revokes(w)
      PROVE  tokens' \in [Token -> ApiToken \union {None}]
    BY <1>0, <1>4, RevokesOne
<1> QED BY <1>1, <1>2, <1>3, <1>4, TokensStep DEF TokensChange

\* A token is of the person it was issued to, whose request spoke for the account.
LEMMA TokensSpeakStep ==
    ASSUME IInv, [Next]_vars, NEW t \in Token, tokens'[t] # None
    PROVE  SpeaksForNext(holder'[t], tokens'[t].user)
<1>0. Typed /\ UsedTokensExist
    BY DEF IInv
<1>1. CASE tokens[t] # None
    <2>1. tokens'[t].user = tokens[t].user /\ holder'[t] = holder[t]
        BY <1>1, TokensStay
    <2>2. /\ SpeaksFor(holder[t], tokens[t].user) /\ ~Unheld(tokens[t].user)
          /\ tokens[t].user \in Id
        BY <1>0, <1>1 DEF IInv, CredentialsSpeakForTheirHolder, Unheld, Typed, TypeOK, ApiToken
    <2> QED BY <2>1, <2>2, SpeaksForStays
<1>2. CASE tokens[t] = None
    <2>1. ASSUME NEW w \in Worker, NEW table \in [Token -> ApiToken \union {None}],
                 table[t] = None, Issues(w, table)
          PROVE  SpeaksForNext(holder'[t], tokens'[t].user)
        <3>1. tokens'[t].user = request[w].user /\ holder'[t] = request[w].person
            BY <1>0, <1>2, <2>1, IssueAdds DEF Issues
        <3>2. request[w].user # 0 /\ UNCHANGED <<users, regiven>>
            BY <2>1, BoundAssumption DEF Issues, Id
        <3>3. SpeaksFor(request[w].person, request[w].user)
            BY <3>2 DEF IInv, CredentialsSpeakForTheirHolder
        <3> QED BY <3>1, <3>2, <3>3 DEF SpeaksFor, SpeaksForNext
    <2>2. /\ tokens \in [Token -> ApiToken \union {None}]
          /\ \A w \in Worker : Authorized(w) =>
                /\ Touch(request[w]) \in [Token -> ApiToken \union {None}]
                /\ Touch(request[w])[t] = None
        BY <1>0, <1>2, TouchWritesUse DEF Typed, TypeOK
    <2>3. \A w \in Worker : Authorized(w) => ~Revokes(w)
        BY <1>0, <1>2, RevokesOne
    <2> QED BY <1>2, <2>1, <2>2, <2>3, TokensStep DEF TokensChange
<1> QED BY <1>1, <1>2
-----------------------------------------------------------------------------
(***************************************************************************)
(* Requests, sessions and identities.                                      *)
(***************************************************************************)

\* A request that begins speaks for whom it acts for; its token exists, its link fits.
Sound(r) ==
    /\ r \in Request
    /\ r.user # 0 => SpeaksFor(r.person, r.user)
    /\ r.op \in {"serve", "user", "group"} /\ r.token # 0 => tokens[r.token] # None
    /\ r.op = "verify" => r.row.email = r.mail.name

\* Every step leaves a request, ends it, begins it, or lets it read.
RequestsChange(w) ==
    /\ request' = [v \in Worker |-> request'[v]]
    /\ \/ request'[w] = request[w] \/ request'[w] = Idle
       \/ UNCHANGED <<users, tokens, regiven>> /\ Sound(request'[w])

\* The kinds of requests that begin.
LEMMA PasswordSound ==
    ASSUME Typed, NEW p \in Person, NEW op \in {"login", "token"}, NEW id \in Named(p)
    PROVE  Sound([op |-> op, user |-> id, person |-> p])
<1> DEFINE r == [op |-> op, user |-> id, person |-> p]
<1>1. id \in Id /\ users[id].name = p
    BY DEF Named
<1>2. r \in Request
    BY <1>1 DEF Request, LoginRequest
<1> QED BY <1>1, <1>2 DEF Sound, SpeaksFor

LEMMA LinkSound ==
    ASSUME Typed, NEW mail \in mails, users[mail.user] # None, users[mail.user].email = mail.name
    PROVE  Sound([op |-> "verify", user |-> 0, mail |-> mail, row |-> users[mail.user]])
<1> DEFINE r == [op |-> "verify", user |-> 0, mail |-> mail, row |-> users[mail.user]]
<1>1. mail \in Mail /\ users[mail.user] \in User
    BY DEF Typed, TypeOK, Mail
<1>2. r \in Request
    BY <1>1 DEF Request, LinkRequest
<1> QED BY <1>2 DEF Sound

\* A provider's user is found by an identity, which speaks for it, or by its name.
LEMMA CallbackSound ==
    ASSUME IInv, NEW p \in Person, NEW id \in IF FindExternal(p) = {} THEN {0} ELSE FindExternal(p)
    PROVE  Sound([op |-> "external", user |-> id, person |-> p,
                  row |-> IF id = 0 THEN None ELSE users[id], known |-> identities[p] # None])
<1> DEFINE known == identities[p] # None
           r == [op |-> "external", user |-> id, person |-> p,
                 row |-> IF id = 0 THEN None ELSE users[id], known |-> known]
<1>0. known \in BOOLEAN /\ Typed
    BY DEF IInv
<1> HIDE DEF known
<1>1. CASE FindExternal(p) = {}
    <2>1. id = 0
        BY <1>1
    <2>2. r \in Request
        BY <1>0, <2>1 DEF Request, UnknownRequest
    <2> QED BY <2>1, <2>2 DEF Sound, known
<1>2. CASE FindExternal(p) # {}
    <2>1. id \in Id /\ users[id] # None /\ (identities[p] = id \/ users[id].name = p)
        BY <1>2 DEF FindExternal, Named
    <2>2. users[id] \in User /\ id # 0
        BY <1>0, <2>1, BoundAssumption DEF Typed, TypeOK, Id
    <2>3. SpeaksFor(p, id)
        <3>1. identities[p] # None => SpeaksFor(p, identities[p])
            BY DEF IInv, CredentialsSpeakForTheirHolder
        <3> QED BY <2>1, <3>1, NoneAssumption DEF SpeaksFor
    <2>4. r \in Request
        BY <1>0, <2>1, <2>2 DEF Request, KnownRequest
    <2> QED BY <2>3, <2>4 DEF Sound, known
<1> QED BY <1>1, <1>2

LEMMA TokenSound ==
    ASSUME IInv, NEW t \in Token, tokens[t] # None
    PROVE  Sound([op |-> "serve", user |-> tokens[t].user, person |-> holder[t], token |-> t,
                  loaded |-> tokens[t], manages |-> Manages(tokens[t].user), read |-> None])
<1> DEFINE manages == Manages(tokens[t].user)
           r == [op |-> "serve", user |-> tokens[t].user, person |-> holder[t], token |-> t,
                 loaded |-> tokens[t], manages |-> manages, read |-> None]
<1>1. manages \in BOOLEAN
    BY DEF Manages
<1>2. /\ tokens[t] \in ApiToken /\ tokens[t].user \in Id /\ holder[t] \in Person \union {None}
      /\ SpeaksFor(holder[t], tokens[t].user)
    BY DEF IInv, Typed, TypeOK, ApiToken, CredentialsSpeakForTheirHolder
<1> HIDE DEF manages
<1>3. r \in Request
    BY <1>1, <1>2 DEF Request, AuthorizedRequest
<1> QED BY <1>2, <1>3 DEF Sound, manages

LEMMA SessionSound ==
    ASSUME IInv, NEW s \in sessions
    PROVE  Sound([op |-> "serve", user |-> s.user, person |-> s.person, token |-> 0,
                  loaded |-> None, manages |-> Manages(s.user), read |-> None])
<1> DEFINE manages == Manages(s.user)
           r == [op |-> "serve", user |-> s.user, person |-> s.person, token |-> 0,
                 loaded |-> None, manages |-> manages, read |-> None]
<1>1. manages \in BOOLEAN
    BY DEF Manages
<1>2. s.user \in Id /\ s.person \in Person /\ SpeaksFor(s.person, s.user)
    BY DEF IInv, Typed, TypeOK, Session, CredentialsSpeakForTheirHolder
<1> HIDE DEF manages
<1>3. r \in Request
    BY <1>1, <1>2 DEF Request, AuthorizedRequest
<1> QED BY <1>2, <1>3 DEF Sound, manages

\* An authorized request that reads goes on for the same user.
LEMMA LoadSound ==
    ASSUME IInv, NEW w \in Worker, Serving(w)
    PROVE  /\ \A read \in UserRead : Sound([request[w] EXCEPT !.op = "user", !.read = read])
           /\ \A read \in GroupRead : Sound([request[w] EXCEPT !.op = "group", !.read = read])
<1>1. /\ request[w] \in AuthorizedRequest /\ request[w].user # 0
      /\ SpeaksFor(request[w].person, request[w].user)
      /\ request[w].token # 0 => tokens[request[w].token] # None
    <2>1. request[w] \in AuthorizedRequest
        BY RequestKinds DEF IInv, Serving
    <2>2. request[w].user # 0
        BY <2>1, BoundAssumption DEF AuthorizedRequest, Id
    <2> QED BY <2>1, <2>2
            DEF IInv, CredentialsSpeakForTheirHolder, UsedTokensExist, Serving, Authorized
<1>2. ASSUME NEW read \in UserRead
      PROVE  Sound([request[w] EXCEPT !.op = "user", !.read = read])
    <2> DEFINE r == [request[w] EXCEPT !.op = "user", !.read = read]
    <2>1. r \in UserRequest /\ r.op = "user"
        BY <1>1 DEF AuthorizedRequest, UserRequest
    <2>2. r.user = request[w].user /\ r.person = request[w].person /\ r.token = request[w].token
        BY <1>1 DEF AuthorizedRequest
    <2> HIDE DEF r
    <2> QED BY <1>1, <2>1, <2>2 DEF Sound, Request, r
<1>3. ASSUME NEW read \in GroupRead
      PROVE  Sound([request[w] EXCEPT !.op = "group", !.read = read])
    <2> DEFINE r == [request[w] EXCEPT !.op = "group", !.read = read]
    <2>1. r \in GroupRequest /\ r.op = "group"
        BY <1>1 DEF AuthorizedRequest, GroupRequest
    <2>2. r.user = request[w].user /\ r.person = request[w].person /\ r.token = request[w].token
        BY <1>1 DEF AuthorizedRequest
    <2> HIDE DEF r
    <2> QED BY <1>1, <2>1, <2>2 DEF Sound, Request, r
<1> QED BY <1>2, <1>3

LEMMA RequestsStep == ASSUME IInv, [Next]_vars, NEW w \in Worker PROVE RequestsChange(w)
<1>0. Typed /\ request \in [Worker -> Request \union {Idle}]
    BY DEF IInv, Typed
<1>1. ASSUME request' = request PROVE RequestsChange(w)
    BY <1>0, <1>1 DEF RequestsChange
<1>2. ASSUME NEW v \in Worker, Done(v) PROVE RequestsChange(w)
    BY <1>0, <1>2 DEF Done, RequestsChange
<1>3. ASSUME NEW v \in Worker, NEW r, Sound(r), request' = [request EXCEPT ![v] = r],
             UNCHANGED <<users, tokens, regiven>>
      PROVE  RequestsChange(w)
    BY <1>0, <1>3 DEF RequestsChange
<1>4. ASSUME NEW v \in Worker, NEW p \in Person, CheckPassword(v, p) PROVE RequestsChange(w)
    <2>1. PICK op \in {"login", "token"}, id \in Named(p) :
             request' = [request EXCEPT ![v] = [op |-> op, user |-> id, person |-> p]]
        BY <1>4 DEF CheckPassword, Begin
    <2>2. UNCHANGED <<users, tokens, regiven>>
        BY <1>4 DEF CheckPassword, database, history
    <2> QED BY <1>0, <1>3, <2>1, <2>2, PasswordSound
<1>5. ASSUME NEW v \in Worker, NEW p \in Person, Callback(v, p) PROVE RequestsChange(w)
    BY <1>0, <1>3, <1>5, CallbackSound DEF Callback, Begin, database, history
<1>6. ASSUME NEW v \in Worker, NEW mail \in mails, OpenLink(v, mail) PROVE RequestsChange(w)
    BY <1>0, <1>3, <1>6, LinkSound DEF OpenLink, Begin, database, history
<1>7. ASSUME NEW v \in Worker, Authorize(v) PROVE RequestsChange(w)
    BY <1>0, <1>3, <1>7, TokenSound, SessionSound DEF Authorize, Begin, database, history
<1>8. ASSUME NEW v \in Worker, LoadUser(v) PROVE RequestsChange(w)
    <2>1. PICK id \in Id :
             /\ users[id] # None
             /\ request' = [request EXCEPT ![v].op = "user", ![v].read = UserNow(id)]
        BY <1>8 DEF LoadUser
    <2>2. UserNow(id) \in UserRead
        BY <1>0, <2>1 DEF Typed, TypeOK, UserNow, UserRead
    <2>3. request' = [request EXCEPT ![v] = [request[v] EXCEPT !.op = "user", !.read = UserNow(id)]]
        BY <1>0, <2>1
    <2>4. Serving(v) /\ UNCHANGED <<users, tokens, regiven>>
        BY <1>8 DEF LoadUser, Managing, database, history
    <2> QED BY <1>3, <2>2, <2>3, <2>4, LoadSound
<1>9. ASSUME NEW v \in Worker, LoadGroup(v) PROVE RequestsChange(w)
    <2>1. PICK g \in groups :
             request' = [request EXCEPT ![v].op = "group", ![v].read = GroupNow(g)]
        BY <1>9 DEF LoadGroup
    <2>2. GroupNow(g) \in GroupRead
        BY <1>0, <2>1 DEF Typed, TypeOK, GroupNow, GroupRead
    <2>3. request' = [request EXCEPT ![v] = [request[v] EXCEPT !.op = "group", !.read = GroupNow(g)]]
        BY <1>0, <2>1
    <2>4. Serving(v) /\ UNCHANGED <<users, tokens, regiven>>
        BY <1>9 DEF LoadGroup, Managing, database, history
    <2> QED BY <1>3, <2>2, <2>3, <2>4, LoadSound
<1>10. ASSUME NEW v \in Worker,
              \/ Login(v) \/ LoginToken(v) \/ Verify(v) \/ External(v) \/ GiveUp(v)
              \/ CreateToken(v) \/ RevokeToken(v) \/ CreateUser(v) \/ UpdateUser(v)
              \/ DeleteUser(v) \/ CreateGroup(v) \/ UpdateGroup(v) \/ DeleteGroup(v)
       PROVE  RequestsChange(w)
    BY <1>2, <1>10 DEF Login, LoginToken, Verify, External, GiveUp, CreateToken, RevokeToken,
         CreateUser, UpdateUser, DeleteUser, CreateGroup, UpdateGroup, DeleteGroup
<1>11. ASSUME NEW p \in Person, Register(p) PROVE RequestsChange(w)
    BY <1>1, <1>11 DEF Register
<1>12. ASSUME NEW s \in sessions, Logout(s) PROVE RequestsChange(w)
    BY <1>1, <1>12 DEF Logout
<1>13. Restart \/ UNCHANGED vars => RequestsChange(w)
    BY <1>1 DEF Restart, vars, RequestsChange, Idle
<1> QED BY <1>4, <1>5, <1>6, <1>7, <1>8, <1>9, <1>10, <1>11, <1>12, <1>13 DEF Next, Serve

\* Requests keep their type.
LEMMA RequestsTyped == ASSUME IInv, [Next]_vars PROVE request' \in [Worker -> Request \union {Idle}]
<1>1. request \in [Worker -> Request \union {Idle}]
    BY DEF IInv, Typed
<1>2. \A w \in Worker : request'[w] \in Request \union {Idle}
    BY <1>1, RequestsStep DEF RequestsChange, Sound
<1>3. CASE Worker = {}
    <2>1. CASE UNCHANGED vars
        BY <1>1, <2>1 DEF vars
    <2>2. CASE Next
        BY <1>1, <1>3, <2>2 DEF Next, Restart, Register, Logout
    <2> QED BY <2>1, <2>2
<1>4. CASE \E w \in Worker : TRUE
    BY <1>2, <1>4, RequestsStep DEF RequestsChange
<1> QED BY <1>3, <1>4

\* A request goes on as it began.
LEMMA RequestsSpeakStep ==
    ASSUME IInv, [Next]_vars, NEW w \in Worker, request'[w].user # 0
    PROVE  SpeaksForNext(request'[w].person, request'[w].user)
<1>1. CASE request'[w] = request[w]
    <2>1. SpeaksFor(request[w].person, request[w].user) /\ ~Unheld(request[w].user)
        BY <1>1 DEF IInv, CredentialsSpeakForTheirHolder, Unheld
    <2>2. request[w].user \in Id
        BY <1>1, RequestKinds DEF IInv, Idle, Request, LoginRequest, LinkRequest, UnknownRequest,
              KnownRequest, AuthorizedRequest, UserRequest, GroupRequest
    <2> QED BY <1>1, <2>1, <2>2, SpeaksForStays
<1>2. CASE request'[w] = Idle
    BY <1>2 DEF Idle
<1>3. CASE UNCHANGED <<users, tokens, regiven>> /\ Sound(request'[w])
    BY <1>3 DEF Sound, SpeaksFor, SpeaksForNext
<1> QED BY <1>1, <1>2, <1>3, RequestsStep DEF RequestsChange

\* Tokens stay while a request uses them.
LEMMA UsedTokensStep == ASSUME IInv, [Next]_vars PROVE UsedTokensExist'
<1> SUFFICES ASSUME NEW w \in Worker, Authorized(w)', request'[w].token # 0
             PROVE  tokens'[request'[w].token] # None
    BY DEF UsedTokensExist
<1>1. CASE request'[w] = request[w]
    <2>1. Authorized(w) /\ request[w].token # 0
        BY <1>1 DEF Authorized
    <2>2. request[w].token \in Token /\ tokens[request[w].token] # None
        BY <2>1, AuthorizedRequests DEF IInv, UsedTokensExist
    <2> QED BY <1>1, <2>2, TokensStay
<1>2. CASE request'[w] = Idle
    BY <1>2 DEF Idle, Authorized
<1>3. CASE UNCHANGED <<users, tokens, regiven>> /\ Sound(request'[w])
    BY <1>3 DEF Sound, Authorized
<1> QED BY <1>1, <1>2, <1>3, RequestsStep DEF RequestsChange

\* A link that was opened keeps the address it was opened for.
LEMMA LinksStep == ASSUME IInv, [Next]_vars PROVE LinksMatched'
<1> SUFFICES ASSUME NEW w \in Worker, request'[w].op = "verify"
             PROVE  request'[w].row.email = request'[w].mail.name
    BY DEF LinksMatched
<1> QED BY RequestsStep DEF RequestsChange, Sound, Idle, IInv, LinksMatched

\* Who comes from the provider gets a session, and at first an identity, of the account
\* that was found, or of the one that is added under the name.
LEMMA ExternalSpeaks ==
    ASSUME IInv, [Next]_vars, NEW w \in Worker, External(w)
    PROVE  /\ \A s \in sessions' \ sessions : SpeaksForNext(s.person, s.user)
           /\ \A q \in Person : identities'[q] # identities[q] => SpeaksForNext(q, identities'[q])
<1> DEFINE r == request[w]
           p == r.person
           id == IF r.user = 0 THEN NewId ELSE r.user
<1>0. Typed /\ r \in UnknownRequest \union KnownRequest /\ p \in Person
    BY RequestKinds DEF IInv, External, UnknownRequest, KnownRequest
<1>1. SpeaksForNext(p, id)
    <2>1. CASE r.user = 0
        <3>1. AddUser(Added(p, p, TRUE, TRUE)) /\ id = NewId
            BY <2>1 DEF External, AddExternal
        <3>2. users' = [users EXCEPT ![id] = Added(p, p, TRUE, TRUE)] /\ id \in Id
            BY <3>1 DEF AddUser
        <3>3. users'[id].name = p
            BY <1>0, <3>2 DEF Typed, TypeOK, Added
        <3> QED BY <3>3 DEF SpeaksForNext
    <2>2. CASE r.user # 0
        <3>1. id = r.user /\ id \in Id
            BY <1>0, <2>2 DEF UnknownRequest, KnownRequest
        <3>2. SpeaksFor(p, id) /\ ~Unheld(id)
            BY <2>2 DEF IInv, CredentialsSpeakForTheirHolder, Unheld
        <3> QED BY <3>1, <3>2, SpeaksForStays
    <2> QED BY <2>1, <2>2
<1>2. sessions' = sessions \union {[person |-> p, user |-> id]}
    BY DEF External
<1>3. identities' = identities \/ identities' = [identities EXCEPT ![p] = id]
    BY DEF External
<1> HIDE DEF p, id
<1>4. \A q \in Person : identities'[q] # identities[q] => q = p /\ identities'[q] = id
    BY <1>0, <1>3 DEF Typed, TypeOK
<1> QED BY <1>1, <1>2, <1>4

\* Sessions come from a password, from a provider, or stay as they are.
LEMMA SessionsSpeakStep ==
    ASSUME IInv, [Next]_vars, NEW s \in sessions'
    PROVE  SpeaksForNext(s.person, s.user)
<1>0. Typed
    BY DEF IInv
<1>1. CASE s \in sessions
    <2>1. SpeaksFor(s.person, s.user) /\ ~Unheld(s.user) /\ s.user \in Id
        BY <1>0, <1>1 DEF IInv, CredentialsSpeakForTheirHolder, Unheld, Typed, TypeOK, Session
    <2> QED BY <2>1, SpeaksForStays
<1>2. CASE s \notin sessions
    <2>1. ASSUME NEW w \in Worker, Login(w) PROVE SpeaksForNext(s.person, s.user)
        <3>1. s.person = request[w].person /\ s.user = request[w].user
            BY <1>2, <2>1 DEF Login
        <3>2. request[w].user # 0
            BY <1>0, <2>1, RequestKinds, BoundAssumption DEF Login, LoginRequest, Id
        <3>3. SpeaksFor(request[w].person, request[w].user)
            BY <3>2 DEF IInv, CredentialsSpeakForTheirHolder
        <3>4. UNCHANGED <<users, regiven>>
            BY <2>1 DEF Login, database, history
        <3> QED BY <3>1, <3>3, <3>4 DEF SpeaksFor, SpeaksForNext
    <2>2. ASSUME NEW w \in Worker, External(w) PROVE SpeaksForNext(s.person, s.user)
        BY <1>2, <2>2, ExternalSpeaks
    <2>3. ASSUME NEW p \in Person, Register(p) PROVE FALSE
        BY <1>2, <2>3 DEF Register
    <2>4. ASSUME NEW r \in sessions, Logout(r) PROVE FALSE
        BY <1>2, <2>4 DEF Logout
    <2>5. ASSUME NEW w \in Worker, NEW p \in Person, CheckPassword(w, p) \/ Callback(w, p)
          PROVE  FALSE
        BY <1>2, <2>5 DEF CheckPassword, Callback
    <2>6. ASSUME NEW w \in Worker, NEW mail \in mails, OpenLink(w, mail) PROVE FALSE
        BY <1>2, <2>6 DEF OpenLink
    <2>7. ASSUME NEW w \in Worker, Serve(w), ~Login(w), ~External(w) PROVE FALSE
        BY <1>2, <2>7 DEF Serve, LoginToken, Verify, Authorize, GiveUp, CreateToken, RevokeToken,
             LoadUser, CreateUser, UpdateUser, DeleteUser, LoadGroup, CreateGroup, UpdateGroup,
             DeleteGroup
    <2>8. ~Restart /\ ~UNCHANGED vars
        BY <1>2 DEF Restart, vars
    <2> QED BY <2>1, <2>2, <2>3, <2>4, <2>5, <2>6, <2>7, <2>8 DEF Next
<1> QED BY <1>1, <1>2

\* An identity comes from a provider, or stays as it is.
LEMMA IdentitiesSpeakStep ==
    ASSUME IInv, [Next]_vars, NEW q \in Person, identities'[q] # None
    PROVE  SpeaksForNext(q, identities'[q])
<1>0. Typed
    BY DEF IInv
<1>1. CASE identities'[q] = identities[q]
    <2>1. /\ SpeaksFor(q, identities[q]) /\ ~Unheld(identities[q])
          /\ identities[q] \in Id
        BY <1>0, <1>1 DEF IInv, CredentialsSpeakForTheirHolder, Unheld, Typed, TypeOK
    <2> QED BY <1>1, <2>1, SpeaksForStays
<1>2. CASE identities'[q] # identities[q]
    <2>1. ASSUME NEW w \in Worker, External(w) PROVE SpeaksForNext(q, identities'[q])
        BY <1>2, <2>1, ExternalSpeaks
    <2>2. ASSUME NEW p \in Person, Register(p) PROVE FALSE
        BY <1>2, <2>2 DEF Register
    <2>3. ASSUME NEW r \in sessions, Logout(r) PROVE FALSE
        BY <1>2, <2>3 DEF Logout, database
    <2>4. ASSUME NEW w \in Worker, NEW p \in Person, CheckPassword(w, p) \/ Callback(w, p)
          PROVE  FALSE
        BY <1>2, <2>4 DEF CheckPassword, Callback, database
    <2>5. ASSUME NEW w \in Worker, NEW mail \in mails, OpenLink(w, mail) PROVE FALSE
        BY <1>2, <2>5 DEF OpenLink, database
    <2>6. ASSUME NEW w \in Worker, Serve(w), ~External(w) PROVE FALSE
        BY <1>2, <2>6 DEF Serve, Login, LoginToken, Verify, Authorize, GiveUp, CreateToken,
             RevokeToken, LoadUser, CreateUser, UpdateUser, DeleteUser, LoadGroup, CreateGroup,
             UpdateGroup, DeleteGroup, database
    <2>7. ~Restart /\ ~UNCHANGED vars
        BY <1>2 DEF Restart, vars, database
    <2> QED BY <2>1, <2>2, <2>3, <2>4, <2>5, <2>6, <2>7 DEF Next
<1> QED BY <1>1, <1>2

\* Every kind of credential goes on speaking for the person who holds it.
LEMMA CredentialsStep == ASSUME IInv, [Next]_vars PROVE CredentialsSpeakForTheirHolder'
BY TokensSpeakStep, SessionsSpeakStep, IdentitiesSpeakStep, RequestsSpeakStep
   DEF CredentialsSpeakForTheirHolder, SpeaksFor, SpeaksForNext
-----------------------------------------------------------------------------
(***************************************************************************)
(* Memberships.                                                            *)
(***************************************************************************)

\* No account goes, and none changes its name.
NamesKept ==
    \A id \in Id : users[id] # None => users'[id] # None /\ users'[id].name = users[id].name

LEMMA AddKeeps ==
    ASSUME Typed, NEW user \in User, AddUser(user)
    PROVE  NamesKept /\ NewId \in Id /\ users'[NewId] = user
<1>1. /\ NewId \in Id /\ users[NewId] = None /\ users \in [Id -> User \union {None}]
      /\ users' = [users EXCEPT ![NewId] = user]
    BY AddUserAdds DEF Typed, TypeOK
<1> HIDE DEF NewId
<1> QED BY <1>1 DEF NamesKept

LEMMA FlushKeeps ==
    ASSUME Typed, NEW id \in Id, NEW row \in User, NEW new \in User, Flush(id, row, new)
    PROVE  NamesKept
<1>1. CASE users' = users
    BY <1>1 DEF NamesKept
<1>2. ASSUME NEW user \in User, users[id] # None, users' = [users EXCEPT ![id] = user],
             user.name = users[id].name
      PROVE  NamesKept
    BY <1>2, NoneAssumption DEF NamesKept, Typed, TypeOK
<1> QED BY <1>1, <1>2, FlushUpdates

\* This membership, if no overtaken request wrote or left it, is of a user and a group
\* that exist, and of an appointed user if it is in the administrators' group.
MemberNext(id, g) ==
    users'[id] # None /\ g \in groups' /\ (g = "administrators" => users'[id].name \in appointed')

\* A membership that was there stays one while the names and the group stay.
LEMMA MemberStays ==
    ASSUME IInv, [Next]_vars, NEW id \in Id, NEW g \in Group,
           <<id, g>> \in members \ crossed',
           users[id] # None => users'[id] # None /\ users'[id].name = users[id].name,
           g \in groups => g \in groups'
    PROVE  MemberNext(id, g)
<1>1. <<id, g>> \in members \ crossed /\ appointed \subseteq appointed'
    BY HistoryGrows
<1> QED BY <1>1 DEF IInv, MembershipsResolve, AdministratorsWereAppointed, MemberNext

\* An account that is added is put into groups that exist, in that of the administrators
\* by one of them or by the bootstrap.
LEMMA AddedMember ==
    ASSUME IInv, [Next]_vars, NEW user \in User, AddUser(user), groups \subseteq groups',
           NEW some, \A g \in some : g \in groups',
           "administrators" \in some => user.name \in appointed',
           members' \subseteq members \union ({NewId} \X some),
           NEW id \in Id, NEW g \in Group, <<id, g>> \in members' \ crossed'
    PROVE  MemberNext(id, g)
<1>1. NamesKept /\ users'[NewId] = user /\ user # None
    BY AddKeeps, NoneAssumption DEF IInv
<1> HIDE DEF NewId
<1>2. CASE <<id, g>> \in members
    BY <1>1, <1>2, MemberStays DEF NamesKept
<1>3. CASE id = NewId /\ g \in some
    BY <1>1, <1>3 DEF MemberNext
<1> QED BY <1>2, <1>3

\* What an update writes of the user it had read.
Updating(read, active, some) ==
    LET was == {read.id} \X read.joined
        given == {read.id} \X some
    IN
    /\ Flush(read.id, read.row, [read.row EXCEPT !.active = active])
    /\ members' = Replaced(members, was, given)
    /\ appointed' = IF <<read.id, "administrators">> \in given \ was
                    THEN appointed \union {read.row.name} ELSE appointed
    /\ crossed' = crossed \union
          IF read.id \in Named(read.row.name) THEN (given \ was) \ (Id \X groups)
          ELSE given \ was

\* A membership of an update is of what the request read, or remembered as crossed.
LEMMA UpdatedMember ==
    ASSUME IInv, [Next]_vars, NEW w \in Worker, UpdateUser(w),
           NEW id \in Id, NEW g \in Group, <<id, g>> \in members' \ crossed'
    PROVE  MemberNext(id, g)
<1>0. PICK read \in UsersRead(w) :
         \E active \in BOOLEAN, some \in SUBSET read.known : Updating(read, active, some)
    BY DEF UpdateUser, Updating
<1>1. PICK active \in BOOLEAN, some \in SUBSET read.known : Updating(read, active, some)
    BY <1>0
<1> DEFINE new == ({read.id} \X some) \ ({read.id} \X read.joined)
<1>2. Typed /\ read.id \in Id /\ read.row \in User
    BY UsersReadTyped DEF IInv, UserRead
<1>3. NamesKept
    <2>1. [read.row EXCEPT !.active = active] \in User
        BY <1>2 DEF User
    <2> QED BY <1>1, <1>2, <2>1, FlushKeeps DEF Updating
<1>4. groups' = groups
    BY DEF UpdateUser
<1>5. CASE <<id, g>> \in new
    <2>1. id = read.id /\ <<id, g>> \notin crossed'
        BY <1>5
    <2>2. id \in Named(read.row.name) /\ g \in groups
        BY <1>1, <1>5, <2>1 DEF Updating
    <2>3. users[id] # None /\ users[id].name = read.row.name
        BY <2>2 DEF Named
    <2>4. g = "administrators" => read.row.name \in appointed'
        BY <1>1, <1>5, <2>1 DEF Updating
    <2> QED BY <1>3, <1>4, <2>2, <2>3, <2>4 DEF NamesKept, MemberNext
<1>6. CASE <<id, g>> \in members
    BY <1>3, <1>4, <1>6, MemberStays DEF NamesKept
<1>7. <<id, g>> \in members \/ <<id, g>> \in new
    BY <1>1 DEF Updating, Replaced
<1> QED BY <1>5, <1>6, <1>7

\* Whatever a step does to memberships, users and groups.
LEMMA MembersStep ==
    ASSUME IInv, [Next]_vars, NEW id \in Id, NEW g \in Group, <<id, g>> \in members' \ crossed'
    PROVE  MemberNext(id, g)
<1>0. Typed
    BY DEF IInv
<1>1. ASSUME UNCHANGED <<users, members>>, groups \subseteq groups' PROVE MemberNext(id, g)
    BY <1>1, MemberStays
<1>2. ASSUME UNCHANGED <<members, groups>>, NamesKept PROVE MemberNext(id, g)
    BY <1>2, MemberStays DEF NamesKept
<1>3. ASSUME NEW user \in User, AddUser(user), Join(NewId, {"downloaders"}), groups' = groups
      PROVE  MemberNext(id, g)
    <2> DEFINE some == {"downloaders"} \intersect groups
    <2>1. /\ members' \subseteq members \union ({NewId} \X some)
          /\ \A other \in some : other \in groups'
          /\ "administrators" \notin some
        BY <1>3 DEF Join
    <2> HIDE DEF some
    <2> QED BY <1>3, <2>1, AddedMember
<1>4. ASSUME NEW p \in Person, Register(p) PROVE MemberNext(id, g)
    <2>1. Added(p, p, FALSE, FALSE) \in User
        BY DEF Added, User
    <2> QED BY <1>3, <1>4, <2>1 DEF Register
<1>5. ASSUME NEW w \in Worker, External(w) PROVE MemberNext(id, g)
    <2> DEFINE r == request[w]
               p == r.person
               new == [r.row EXCEPT !.email = p, !.active = TRUE, !.verified = TRUE]
    <2>1. r \in UnknownRequest \union KnownRequest /\ p \in Person /\ groups' = groups
        BY <1>0, <1>5, RequestKinds DEF External, UnknownRequest, KnownRequest
    <2>2. CASE r \in UnknownRequest
        <3>1. AddExternal(p)
            BY <1>5, <2>2 DEF External, UnknownRequest
        <3>2. Added(p, p, TRUE, TRUE) \in User
            BY <2>1 DEF Added, User
        <3> QED BY <1>3, <2>1, <3>1, <3>2 DEF AddExternal
    <2>3. CASE r \in KnownRequest
        <3>1. r.user \in Id /\ r.user # 0 /\ r.row \in User
            BY <2>3, BoundAssumption DEF KnownRequest, Id
        <3>2. new \in User
            BY <2>1, <3>1 DEF User
        <3>3. UpdateExternal(r)
            BY <1>5, <3>1 DEF External
        <3>4. Flush(r.user, r.row, new) /\ members' = members
            BY <3>3 DEF UpdateExternal
        <3> HIDE DEF new, r
        <3>5. NamesKept
            BY <1>0, <3>1, <3>2, <3>4, FlushKeeps
        <3> QED BY <1>2, <2>1, <3>4, <3>5
    <2> QED BY <2>1, <2>2, <2>3
<1>6. ASSUME NEW w \in Worker, Verify(w) PROVE MemberNext(id, g)
    <2> DEFINE r == request[w]
               new == [r.row EXCEPT !.active = TRUE, !.verified = TRUE]
    <2>1. r \in LinkRequest
        BY <1>0, <1>6, RequestKinds DEF Verify
    <2>2. r.mail.user \in Id /\ r.row \in User /\ new \in User
        BY <2>1 DEF LinkRequest, Mail, User
    <2>3. Flush(r.mail.user, r.row, new) /\ UNCHANGED <<members, groups>>
        BY <1>6 DEF Verify
    <2> HIDE DEF new, r
    <2> QED BY <1>0, <1>2, <2>2, <2>3, FlushKeeps
<1>7. ASSUME NEW w \in Worker, CreateUser(w) PROVE MemberNext(id, g)
    <2>1. PICK p \in Person, some \in SUBSET groups :
             /\ AddUser(Added(p, None, TRUE, FALSE))
             /\ members' = IF some = {} THEN members
                           ELSE (members \ ({NewId} \X groups)) \union ({NewId} \X some)
             /\ appointed' = IF "administrators" \in some THEN appointed \union {p} ELSE appointed
        BY <1>7 DEF CreateUser
    <2>2. Added(p, None, TRUE, FALSE) \in User /\ Added(p, None, TRUE, FALSE).name = p
        BY DEF Added, User
    <2>3. groups' = groups /\ members' \subseteq members \union ({NewId} \X some)
        BY <1>7, <2>1 DEF CreateUser
    <2> QED BY <2>1, <2>2, <2>3, AddedMember
<1>8. ASSUME NEW w \in Worker, UpdateUser(w) PROVE MemberNext(id, g)
    BY <1>8, UpdatedMember
<1>9. ASSUME NEW w \in Worker, DeleteUser(w) PROVE MemberNext(id, g)
    <2>1. PICK read \in UsersRead(w) :
             /\ users' = [users EXCEPT ![read.id] = None]
             /\ members' = Replaced(members, {read.id} \X read.joined, {})
             /\ crossed' = crossed \union (members' \intersect ({read.id} \X Group))
        BY <1>9 DEF DeleteUser
    <2>2. id # read.id /\ <<id, g>> \in members
        BY <2>1 DEF Replaced
    <2>3. users'[id] = users[id] /\ groups' = groups
        BY <1>0, <1>9, <2>1, <2>2 DEF DeleteUser, Typed, TypeOK
    <2> QED BY <2>2, <2>3, MemberStays
<1>10. ASSUME NEW w \in Worker, DeleteGroup(w) PROVE MemberNext(id, g)
    <2>1. PICK read \in GroupsRead(w) :
             /\ groups' = groups \ {read.group}
             /\ members' = Replaced(members, read.joined \X {read.group}, {})
             /\ crossed' = crossed \union (members' \intersect (Id \X {read.group}))
        BY <1>10 DEF DeleteGroup
    <2>2. g # read.group /\ <<id, g>> \in members
        BY <2>1 DEF Replaced
    <2>3. users' = users
        BY <1>10 DEF DeleteGroup
    <2> QED BY <2>1, <2>2, <2>3, MemberStays
<1>11. ASSUME Restart PROVE MemberNext(id, g)
    <2>1. groups' = Group /\ groups \subseteq groups' /\ Root \in appointed' /\ Root \in Person
        BY <1>0, <1>11, RootAssumption DEF Restart, Typed, TypeOK
    <2>2. CASE Named(Root) = {}
        <3>1. /\ AddUser(Added(Root, None, TRUE, FALSE))
              /\ members' = members \union {<<NewId, "administrators">>}
            BY <1>11, <2>2 DEF Restart
        <3>2. Added(Root, None, TRUE, FALSE) \in User /\ Added(Root, None, TRUE, FALSE).name = Root
            BY <2>1 DEF Added, User
        <3>3. /\ members' \subseteq members \union ({NewId} \X {"administrators"})
              /\ \A other \in {"administrators"} : other \in groups'
            BY <2>1, <3>1 DEF Group
        <3> QED BY <2>1, <3>1, <3>2, <3>3, AddedMember
    <2>3. CASE Named(Root) # {}
        <3>1. members' = members \union (Named(Root) \X {"administrators"}) /\ users' = users
            BY <1>11, <2>3 DEF Restart
        <3>2. CASE <<id, g>> \in members
            BY <2>1, <3>1, <3>2, MemberStays
        <3>3. CASE id \in Named(Root)
            BY <2>1, <3>1, <3>3 DEF Named, MemberNext
        <3> QED BY <3>1, <3>2, <3>3
    <2> QED BY <2>2, <2>3
<1>12. ASSUME NEW w \in Worker, NEW p \in Person, CheckPassword(w, p) \/ Callback(w, p)
       PROVE  MemberNext(id, g)
    BY <1>1, <1>12 DEF CheckPassword, Callback, database
<1>13. ASSUME NEW w \in Worker, NEW mail \in mails, OpenLink(w, mail) PROVE MemberNext(id, g)
    BY <1>1, <1>13 DEF OpenLink, database
<1>14. ASSUME NEW w \in Worker,
              \/ Login(w) \/ LoginToken(w) \/ Authorize(w) \/ GiveUp(w) \/ CreateToken(w)
              \/ RevokeToken(w) \/ LoadUser(w) \/ LoadGroup(w) \/ CreateGroup(w) \/ UpdateGroup(w)
       PROVE  MemberNext(id, g)
    BY <1>1, <1>14 DEF Login, LoginToken, Authorize, GiveUp, CreateToken, RevokeToken, LoadUser,
         LoadGroup, CreateGroup, UpdateGroup, database
<1>15. ASSUME NEW s \in sessions, Logout(s) PROVE MemberNext(id, g)
    BY <1>1, <1>15 DEF Logout, database
<1>16. UNCHANGED vars => MemberNext(id, g)
    BY <1>1 DEF vars, database
<1> QED BY <1>4, <1>5, <1>6, <1>7, <1>8, <1>9, <1>10, <1>11, <1>12, <1>13, <1>14, <1>15, <1>16
        DEF Next, Serve

LEMMA MembershipsStep == ASSUME IInv, [Next]_vars PROVE MembershipsResolve'
BY MembersStep DEF MembershipsResolve, MemberNext

\* The administrators' group grows by appointed users only.
LEMMA AdministratorsStep == ASSUME IInv, [Next]_vars PROVE AdministratorsWereAppointed'
<1>1. "administrators" \in Group
    BY DEF Group
<1> QED BY <1>1, MembersStep DEF AdministratorsWereAppointed, MemberNext
-----------------------------------------------------------------------------
(***************************************************************************)
(* Types.                                                                  *)
(***************************************************************************)

\* The tables of groups.
GroupsTyped ==
    /\ members \subseteq Id \X Group
    /\ groups \subseteq Group /\ grants \subseteq Group \X Role
    /\ appointed \subseteq Person
    /\ crossed \subseteq Id \X (Group \union {"verified"})

\* What remains, of credentials and of the histories.
RestTyped ==
    /\ identities \in [Person -> Id \union {None}]
    /\ sessions \subseteq Session
    /\ mails \subseteq Mail
    /\ served \in 0 .. MaxRequests
    /\ confirmed \subseteq Person

LEMMA AuthorizedGroupsTyped ==
    ASSUME Typed, NEW w \in Worker,
           \/ CreateUser(w) \/ UpdateUser(w) \/ DeleteUser(w)
           \/ CreateGroup(w) \/ UpdateGroup(w) \/ DeleteGroup(w)
    PROVE  GroupsTyped'
<1>0. GroupsTyped
    BY DEF Typed, TypeOK, GroupsTyped
<1>1. CASE CreateUser(w)
    <2>1. PICK p \in Person, some \in SUBSET groups :
             /\ NewId \in Id
             /\ members' \in {members,
                    (members \ ({NewId} \X groups)) \union ({NewId} \X some)}
             /\ appointed' \in {appointed, appointed \union {p}}
        BY <1>1 DEF CreateUser, AddUser
    <2> QED BY <1>0, <1>1, <2>1 DEF GroupsTyped, CreateUser
<1>2. CASE UpdateUser(w)
    <2>1. PICK read \in UsersRead(w) :
             \E active \in BOOLEAN, some \in SUBSET read.known : Updating(read, active, some)
        BY <1>2 DEF UpdateUser, Updating
    <2>2. PICK active \in BOOLEAN, some \in SUBSET read.known : Updating(read, active, some)
        BY <2>1
    <2> DEFINE given == {read.id} \X some
               was == {read.id} \X read.joined
    <2>3. read.row.name \in Person /\ given \subseteq Id \X Group
        BY UsersReadTyped DEF UserRead, User
    <2>4. /\ members' = Replaced(members, was, given)
          /\ appointed' \in {appointed, appointed \union {read.row.name}}
          /\ crossed' \subseteq crossed \union given
        BY <2>2 DEF Updating
    <2> HIDE DEF given, was
    <2>5. members' \subseteq Id \X Group
        BY <1>0, <2>3, <2>4 DEF GroupsTyped, Replaced
    <2>6. crossed' \subseteq Id \X (Group \union {"verified"})
        BY <1>0, <2>3, <2>4 DEF GroupsTyped
    <2> QED BY <1>0, <1>2, <2>3, <2>4, <2>5, <2>6 DEF GroupsTyped, UpdateUser
<1>3. CASE DeleteUser(w)
    <2>1. PICK read \in UsersRead(w) :
             /\ members' = Replaced(members, {read.id} \X read.joined, {})
             /\ crossed' = crossed \union (members' \intersect ({read.id} \X Group))
        BY <1>3 DEF DeleteUser
    <2>2. members' \subseteq members /\ crossed' \subseteq crossed \union members'
        BY <2>1 DEF Replaced
    <2>3. UNCHANGED <<groups, grants, appointed>>
        BY <1>3 DEF DeleteUser
    <2> QED BY <1>0, <2>2, <2>3 DEF GroupsTyped
<1>4. CASE CreateGroup(w)
    <2>1. PICK g \in Group, given \in SUBSET Role :
             groups' = groups \union {g} /\ grants' = Replaced(grants, {}, {g} \X given)
        BY <1>4 DEF CreateGroup
    <2>2. grants' \subseteq Group \X Role
        BY <1>0, <2>1 DEF GroupsTyped, Replaced
    <2> QED BY <1>0, <1>4, <2>1, <2>2 DEF GroupsTyped, CreateGroup, history
<1>5. CASE UpdateGroup(w)
    <2>1. PICK read \in GroupsRead(w), given \in SUBSET Role :
             grants' = Replaced(grants, {read.group} \X read.roles, {read.group} \X given)
        BY <1>5 DEF UpdateGroup
    <2>2. read.group \in Group
        BY GroupsReadTyped DEF GroupRead
    <2>3. grants' \subseteq Group \X Role
        BY <1>0, <2>1, <2>2 DEF GroupsTyped, Replaced
    <2> QED BY <1>0, <1>5, <2>3 DEF GroupsTyped, UpdateGroup, history
<1>6. CASE DeleteGroup(w)
    <2>1. PICK read \in GroupsRead(w) :
             /\ groups' = groups \ {read.group}
             /\ grants' = Replaced(grants, {read.group} \X read.roles, {})
             /\ members' = Replaced(members, read.joined \X {read.group}, {})
             /\ crossed' = crossed \union (members' \intersect (Id \X {read.group}))
        BY <1>6 DEF DeleteGroup
    <2>2. /\ members' \subseteq members /\ grants' \subseteq grants /\ groups' \subseteq groups
          /\ crossed' \subseteq crossed \union members'
        BY <2>1 DEF Replaced
    <2>3. UNCHANGED appointed
        BY <1>6 DEF DeleteGroup
    <2> QED BY <1>0, <2>2, <2>3 DEF GroupsTyped
<1> QED BY <1>1, <1>2, <1>3, <1>4, <1>5, <1>6

LEMMA GroupsTypedStep == ASSUME IInv, [Next]_vars PROVE GroupsTyped'
<1>0. Typed /\ GroupsTyped
    BY DEF IInv, Typed, TypeOK, GroupsTyped
<1>1. ASSUME UNCHANGED <<members, groups, grants, appointed, crossed>> PROVE GroupsTyped'
    BY <1>0, <1>1 DEF GroupsTyped
<1>2. ASSUME NEW p \in Person, Register(p) PROVE GroupsTyped'
    BY <1>0, <1>2 DEF Register, AddUser, Join, GroupsTyped
<1>3. ASSUME NEW w \in Worker, Verify(w) PROVE GroupsTyped'
    <2>1. request[w].mail.user \in Id
        BY <1>0, <1>3, RequestKinds DEF Verify, LinkRequest, Mail
    <2>2. crossed' \in {crossed, crossed \union {<<request[w].mail.user, "verified">>}}
        BY <1>3 DEF Verify
    <2> QED BY <1>0, <1>3, <2>1, <2>2 DEF Verify, GroupsTyped
<1>4. ASSUME NEW w \in Worker, External(w) PROVE GroupsTyped'
    <2> DEFINE r == request[w]
    <2>1. r \in UnknownRequest \union KnownRequest /\ UNCHANGED <<groups, grants, appointed>>
        BY <1>0, <1>4, RequestKinds DEF External
    <2>2. CASE r.user = 0
        <3>1. AddExternal(r.person)
            BY <1>4, <2>2 DEF External
        <3> QED BY <1>0, <2>1, <3>1 DEF AddExternal, AddUser, Join, GroupsTyped
    <2>3. CASE r.user # 0
        <3>1. r.user \in Id
            BY <2>1, <2>3 DEF UnknownRequest, KnownRequest
        <3>2. UpdateExternal(r)
            BY <1>4, <2>3 DEF External
        <3>3. members' = members /\ crossed' \in {crossed, crossed \union {<<r.user, "verified">>}}
            BY <3>2 DEF UpdateExternal
        <3> QED BY <1>0, <2>1, <3>1, <3>3 DEF GroupsTyped
    <2> QED BY <2>2, <2>3
<1>5. ASSUME NEW w \in Worker,
             \/ CreateUser(w) \/ UpdateUser(w) \/ DeleteUser(w)
             \/ CreateGroup(w) \/ UpdateGroup(w) \/ DeleteGroup(w)
      PROVE  GroupsTyped'
    BY <1>0, <1>5, AuthorizedGroupsTyped
<1>6. ASSUME Restart PROVE GroupsTyped'
    <2>1. /\ groups' = Group /\ appointed' = appointed \union {Root} /\ crossed' = crossed
          /\ grants' = grants \union {<<"administrators", "admin">>, <<"downloaders", "downloader">>}
        BY <1>6 DEF Restart
    <2>2. \/ NewId \in Id /\ members' = members \union {<<NewId, "administrators">>}
          \/ members' = members \union (Named(Root) \X {"administrators"})
        BY <1>6 DEF Restart, AddUser
    <2>3. Named(Root) \subseteq Id
        BY DEF Named
    <2> QED BY <1>0, <2>1, <2>2, <2>3, RootAssumption DEF GroupsTyped, Group, Role
<1>7. ASSUME NEW w \in Worker, NEW p \in Person, CheckPassword(w, p) \/ Callback(w, p)
      PROVE  GroupsTyped'
    BY <1>1, <1>7 DEF CheckPassword, Callback, database, history
<1>8. ASSUME NEW w \in Worker, NEW mail \in mails, OpenLink(w, mail) PROVE GroupsTyped'
    BY <1>1, <1>8 DEF OpenLink, database, history
<1>9. ASSUME NEW w \in Worker,
             \/ Login(w) \/ LoginToken(w) \/ Authorize(w) \/ GiveUp(w) \/ CreateToken(w)
             \/ RevokeToken(w) \/ LoadUser(w) \/ LoadGroup(w)
      PROVE  GroupsTyped'
    BY <1>1, <1>9 DEF Login, LoginToken, Authorize, GiveUp, CreateToken, RevokeToken, LoadUser,
         LoadGroup, database, history
<1>10. ASSUME NEW s \in sessions, Logout(s) PROVE GroupsTyped'
    BY <1>1, <1>10 DEF Logout, database, history
<1>11. UNCHANGED vars => GroupsTyped'
    BY <1>1 DEF vars, database, history
<1> QED BY <1>2, <1>3, <1>4, <1>5, <1>6, <1>7, <1>8, <1>9, <1>10, <1>11 DEF Next, Serve

LEMMA RestTypedStep == ASSUME IInv, [Next]_vars PROVE RestTyped'
<1>0. Typed /\ RestTyped
    BY DEF IInv, Typed, TypeOK, RestTyped
<1>1. ASSUME UNCHANGED <<identities, sessions, mails, served, confirmed>> PROVE RestTyped'
    BY <1>0, <1>1 DEF RestTyped
<1>2. ASSUME UNCHANGED <<identities, sessions, mails, confirmed>>, Counted PROVE RestTyped'
    BY <1>0, <1>2, BoundAssumption DEF RestTyped, Counted
<1>3. ASSUME NEW p \in Person, Register(p) PROVE RestTyped'
    <2>1. /\ Counted /\ UNCHANGED <<identities, sessions, confirmed>> /\ NewId \in Id
          /\ mails' \in {mails, mails \union {[user |-> NewId, name |-> p]}}
        BY <1>3 DEF Register, AddUser
    <2> HIDE DEF NewId
    <2>2. mails' \subseteq Mail
        BY <1>0, <2>1 DEF RestTyped, Mail
    <2> QED BY <1>0, <2>1, <2>2, BoundAssumption DEF RestTyped, Counted
<1>4. ASSUME NEW w \in Worker, NEW p \in Person, CheckPassword(w, p) \/ Callback(w, p)
      PROVE  RestTyped'
    BY <1>2, <1>4 DEF CheckPassword, Callback, Begin, database, history
<1>5. ASSUME NEW w \in Worker, NEW mail \in mails, OpenLink(w, mail) PROVE RestTyped'
    BY <1>2, <1>5 DEF OpenLink, Begin, database, history
<1>6. ASSUME NEW w \in Worker, Authorize(w) PROVE RestTyped'
    BY <1>2, <1>6 DEF Authorize, Begin, database, history
<1>7. ASSUME Restart PROVE RestTyped'
    BY <1>2, <1>7 DEF Restart
<1>8. ASSUME NEW s \in sessions, Logout(s) PROVE RestTyped'
    BY <1>0, <1>8 DEF Logout, RestTyped, database, history
<1>9. ASSUME NEW w \in Worker, Login(w) PROVE RestTyped'
    <2>1. [person |-> request[w].person, user |-> request[w].user] \in Session
        BY <1>0, <1>9, RequestKinds DEF Login, LoginRequest, Session
    <2> QED BY <1>0, <1>9, <2>1 DEF Login, RestTyped, database, history
<1>10. ASSUME NEW w \in Worker, Verify(w) PROVE RestTyped'
    <2>1. request[w].mail.name \in Person
        BY <1>0, <1>10, RequestKinds DEF Verify, LinkRequest, Mail
    <2> QED BY <1>0, <1>10, <2>1 DEF Verify, RestTyped
<1>11. ASSUME NEW w \in Worker, External(w) PROVE RestTyped'
    <2> DEFINE r == request[w]
               p == r.person
               id == IF r.user = 0 THEN NewId ELSE r.user
    <2>1. r \in UnknownRequest \union KnownRequest /\ p \in Person
        BY <1>0, <1>11, RequestKinds DEF External, UnknownRequest, KnownRequest
    <2>2. id \in Id
        <3>1. r.user = 0 => NewId \in Id
            BY <1>11 DEF External, AddExternal, AddUser
        <3>2. r.user # 0 => r.user \in Id
            BY <2>1 DEF UnknownRequest, KnownRequest
        <3> QED BY <3>1, <3>2
    <2>3. /\ identities' = identities \/ identities' = [identities EXCEPT ![p] = id]
          /\ sessions' = sessions \union {[person |-> p, user |-> id]}
          /\ confirmed' = confirmed \union {p} /\ UNCHANGED <<mails, served>>
        BY <1>11 DEF External
    <2> HIDE DEF id, p
    <2>4. [person |-> p, user |-> id] \in Session
        BY <2>1, <2>2 DEF Session
    <2> QED BY <1>0, <2>1, <2>2, <2>3, <2>4 DEF RestTyped
<1>12. ASSUME NEW w \in Worker,
              \/ LoginToken(w) \/ GiveUp(w) \/ CreateToken(w) \/ RevokeToken(w) \/ LoadUser(w)
              \/ CreateUser(w) \/ UpdateUser(w) \/ DeleteUser(w)
              \/ LoadGroup(w) \/ CreateGroup(w) \/ UpdateGroup(w) \/ DeleteGroup(w)
       PROVE  RestTyped'
    BY <1>1, <1>12 DEF LoginToken, GiveUp, CreateToken, RevokeToken, LoadUser, CreateUser,
         UpdateUser, DeleteUser, LoadGroup, CreateGroup, UpdateGroup, DeleteGroup, database, history
<1>13. UNCHANGED vars => RestTyped'
    BY <1>1 DEF vars, database, history
<1> QED BY <1>3, <1>4, <1>5, <1>6, <1>7, <1>8, <1>9, <1>10, <1>11, <1>12, <1>13 DEF Next, Serve

LEMMA TypeStep == ASSUME IInv, [Next]_vars PROVE Typed'
BY UsersTyped, TokensTyped, RequestsTyped, GroupsTypedStep, RestTypedStep
   DEF Typed, TypeOK, GroupsTyped, RestTyped

LEMMA InitTyped == ASSUME Init PROVE Typed
<1>1. 1 \in Id
    BY BoundAssumption DEF Id
<1>2. Added(Root, None, TRUE, FALSE) \in User
    BY RootAssumption DEF Added, User
<1>3. users \in [Id -> User \union {None}]
    BY <1>2 DEF Init
<1>4. /\ members \subseteq Id \X Group /\ groups \subseteq Group /\ grants \subseteq Group \X Role
    BY <1>1 DEF Init, Group, Role
<1>5. /\ request \in [Worker -> Request \union {Idle}]
      /\ tokens \in [Token -> ApiToken \union {None}]
      /\ identities \in [Person -> Id \union {None}]
      /\ holder \in [Token -> Person \union {None}]
    BY DEF Init
<1>6. /\ sessions = {} /\ mails = {} /\ served = 0
      /\ confirmed = {} /\ appointed = {Root} /\ regiven = {} /\ crossed = {}
    BY DEF Init
<1>7. 0 \in 0 .. MaxRequests
    BY BoundAssumption
<1> QED BY <1>3, <1>4, <1>5, <1>6, <1>7, RootAssumption DEF Typed, TypeOK

LEMMA InitIInv == Init => IInv
<1> SUFFICES ASSUME Init PROVE IInv
    OBVIOUS
<1>1. Typed
    BY InitTyped
<1>2. /\ \A w \in Worker : request[w] = Idle
      /\ sessions = {} /\ members = {<<1, "administrators">>} /\ groups = Group
      /\ appointed = {Root}
      /\ \A t \in Token : tokens[t] = None
      /\ \A p \in Person : identities[p] = None
      /\ \A id \in Id : users[id] = IF id = 1 THEN Added(Root, None, TRUE, FALSE) ELSE None
    BY DEF Init
<1>3. UsedTokensExist /\ LinksMatched
    BY <1>2 DEF UsedTokensExist, LinksMatched, Authorized, Idle
<1>4. Added(Root, None, TRUE, FALSE) # None
    <2>1. Added(Root, None, TRUE, FALSE) \in User
        BY RootAssumption DEF Added, User
    <2> QED BY <2>1, NoneAssumption
<1>5. CredentialsSpeakForTheirHolder
    BY <1>2 DEF CredentialsSpeakForTheirHolder, Idle
<1>6. MembershipsResolve /\ AdministratorsWereAppointed
    BY <1>2, <1>4 DEF MembershipsResolve, AdministratorsWereAppointed, Added
<1>7. VerifiedWasConfirmed
    BY <1>2 DEF VerifiedWasConfirmed, Added
<1> QED BY <1>1, <1>3, <1>5, <1>6, <1>7 DEF IInv
-----------------------------------------------------------------------------
\* The inductive invariant: what requests took with them when they read is of the right
\* kind and speaks for whom they act for, whatever became of the accounts meanwhile.
THEOREM Invariance == Spec => []IInv
<1>1. IInv /\ [Next]_vars => IInv'
    BY TypeStep, UsedTokensStep, LinksStep, MembershipsStep, CredentialsStep, AdministratorsStep,
       VerifiedStep DEF IInv
<1> QED BY <1>1, InitIInv, PTL DEF Spec

\* The accounts keep their types.
THEOREM TypeCorrect == Spec => []TypeOK
<1>1. IInv => TypeOK
    BY DEF IInv, Typed
<1> QED BY <1>1, Invariance, PTL

\* No sequence of requests, each of which may commit what it read long ago, of restarts,
\* deleted users and groups makes an administrator whom no administrator and no bootstrap
\* appointed, but for the memberships of overtaken updates and deletions.
THEOREM AppointedAdministrators == Spec => []AdministratorsWereAppointed
<1>1. IInv => AdministratorsWereAppointed
    BY DEF IInv
<1> QED BY <1>1, Invariance, PTL

\* Links outlive the accounts they were sent for and are followed in two steps; they still
\* verify only addresses whose owner followed one, unless the id changed hands in between.
THEOREM ConfirmedAddresses == Spec => []VerifiedWasConfirmed
<1>1. IInv => VerifiedWasConfirmed
    BY DEF IInv
<1> QED BY <1>1, Invariance, PTL

\* Whoever holds a credential is the person of the account it names, also when the account
\* was read before the credential was issued, unless a deleted account's id was given again.
THEOREM HeldCredentials == Spec => []CredentialsSpeakForTheirHolder
<1>1. IInv => CredentialsSpeakForTheirHolder
    BY DEF IInv
<1> QED BY <1>1, Invariance, PTL

\* A membership is of an account and of a group that exist, but for those that overtaken
\* requests wrote or left.
THEOREM ResolvedMemberships == Spec => []MembershipsResolve
<1>1. IInv => MembershipsResolve
    BY DEF IInv
<1> QED BY <1>1, Invariance, PTL

\* No step of any request, those that a revoked token had authorized included, takes a
\* revocation back.
THEOREM PermanentRevocation == Spec => RevocationIsPermanent
<1>1. IInv /\ [Next]_vars =>
        [\A t \in Token : tokens[t] # None /\ tokens[t].revoked =>
            tokens'[t] # None /\ tokens'[t].revoked]_vars
    BY TokensStay
<1> QED BY <1>1, Invariance, PTL DEF Spec, RevocationIsPermanent
-----------------------------------------------------------------------------
\* No two accounts have a name or an address in common.
AccountsAreApart ==
    \A i, j \in Id :
        users[i] # None /\ users[j] # None /\ i # j =>
            /\ users[i].name # users[j].name
            /\ users[i].email # None => users[i].email # users[j].email

LEMMA AccountsStep ==
    ASSUME IInv, AccountsAreApart, [Next]_vars PROVE AccountsAreApart'
<1>0. Typed
    BY DEF IInv
<1>1. CASE users' = users
    BY <1>1 DEF AccountsAreApart
<1>2. ASSUME NEW new \in User, AddUser(new) PROVE AccountsAreApart'
    <2>1. NewId \in Id /\ users' = [users EXCEPT ![NewId] = new]
        BY <1>2 DEF AddUser
    <2>2. \A id \in Id : users[id] # None =>
             /\ users[id].name # new.name
             /\ new.email # None => users[id].email # new.email
        <3>1. Named(new.name) = {} /\ (new.email # None => EmailFree(new.email, 0))
            BY <1>2 DEF AddUser
        <3>2. \A id \in Id : id \in Id \ {0}
            BY BoundAssumption DEF Id
        <3> QED BY <3>1, <3>2 DEF Named, EmailFree
    <2>3. \A id \in Id : users'[id] = IF id = NewId THEN new ELSE users[id]
        BY <1>0, <2>1 DEF Typed, TypeOK
    <2> HIDE DEF NewId
    <2> QED BY <2>1, <2>2, <2>3 DEF AccountsAreApart
<1>3. ASSUME NEW id \in Id, NEW new \in User, Updates(id, new) PROVE AccountsAreApart'
    <2>1. \A other \in Id : users'[other] = IF other = id THEN new ELSE users[other]
        BY <1>0, <1>3 DEF Typed, TypeOK, Updates
    <2>2. /\ users[id] # None /\ new.name = users[id].name
          /\ \/ new.email = users[id].email
             \/ \A other \in Id \ {id} : users[other] # None => users[other].email # new.email
        BY <1>3 DEF Updates, EmailFree
    <2> QED BY <2>1, <2>2 DEF AccountsAreApart
<1>4. ASSUME NEW id \in Id, Deletes(id) PROVE AccountsAreApart'
    <2>1. \A other \in Id : users'[other] = IF other = id THEN None ELSE users[other]
        BY <1>0, <1>4 DEF Typed, TypeOK, Deletes
    <2> QED BY <2>1 DEF AccountsAreApart
<1> QED BY <1>1, <1>2, <1>3, <1>4, UsersStep DEF UsersChange, Adds

\* Accounts are told apart, whichever way they came about and whatever a provider made
\* their address.
THEOREM AccountsApart == Spec => []AccountsAreApart
<1>1. Init => AccountsAreApart
    <2>1. Init => \A id \in Id : users[id] # None => id = 1
        BY DEF Init
    <2> QED BY <2>1 DEF AccountsAreApart
<1>2. IInv /\ AccountsAreApart /\ [Next]_vars => AccountsAreApart'
    BY AccountsStep
<1> QED BY <1>1, <1>2, Invariance, PTL DEF Spec
=============================================================================
