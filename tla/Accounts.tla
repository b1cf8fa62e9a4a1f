------------------------------ MODULE Accounts ------------------------------
(***************************************************************************)
(* The accounts and the invitations: the tables AspNetUsers and            *)
(* invite_registrations, and the requests that change them                 *)
(* (AccountController, UsersController, InviteDbProvider, UserDbProvider   *)
(* and, from outside the repository, UserManager of ASP.NET Identity).     *)
(* Requests run concurrently; each reads and writes in several             *)
(* transactions, and an action is one of them.                             *)
(***************************************************************************)
EXTENDS Naturals, FiniteSets, Functions

CONSTANTS
    User,        \* ids of accounts: a bound of those there are at a time
    InviteId,    \* ids of invitations: likewise
    Email, Name, \* addresses and logins
    Role,        \* the roles that occur
    Request,     \* requests in flight at a time
    Kinds,       \* the kinds of requests that arrive
    Renaming,    \* edits may bear a new address
    Forms,       \* the address, login and dealer of registrations
    Offers,      \* the address, role and owner of invitations
    Owners,      \* the owners of edits
    Seed,        \* the accounts of RoleInitializer
    None

(* RolesPermissions.                                                       *)
Code == [technician |-> 1, owner |-> 2, dealer_admin |-> 3, dealer |-> 4,
         admin |-> 5, super_admin |-> 6]

Account == [email : Email, name : Name, role : Role, owner : User \cup {None},
            active : BOOLEAN]

(* mailed is history: its mail has gone out.                               *)
Invitation == [email : Email, role : Role, owner : User \cup {None}, fresh : BOOLEAN,
               mailed : BOOLEAN]

ASSUME AccountsAssumption ==
    /\ Kinds \subseteq {"register", "invite", "edit", "setActive", "delete"}
    /\ Forms \subseteq Email \X Name \X (Email \cup {None})
    /\ Offers \subseteq Email \X Role \X (User \cup {None})
    /\ Owners \subseteq User \cup {None}
    /\ "owner" \in Role /\ Role \subseteq DOMAIN Code
    /\ DOMAIN Seed \subseteq User /\ Seed \in [DOMAIN Seed -> Account]
    /\ \A u \in DOMAIN Seed : Seed[u].owner = None
    /\ \A u, v \in DOMAIN Seed :
         Seed[u].name = Seed[v].name \/ Seed[u].email = Seed[v].email => u = v
    /\ None \notin User \cup InviteId \cup Email \cup Name \cup Role

VARIABLES
    users,   \* the accounts, by id
    invites, \* the invitations, by id
    req      \* the requests in flight

tables == <<users, invites>>
vars == <<tables, req>>

(* A request: its place, what it asks, the row it is about to write, and   *)
(* whether its target has been written since it read it.                   *)
NoRow == [email |-> None, name |-> None, role |-> None, owner |-> None, active |-> FALSE]
Idle == [pc |-> "idle", kind |-> None, target |-> None, power |-> 0, dealer |-> None,
         invite |-> None, row |-> NoRow, stale |-> FALSE]

At(r, stage) == req[r].pc = stage
Goto(r, stage) == req' = [req EXCEPT ![r].pc = stage]
Answer(r) == req' = [req EXCEPT ![r] = Idle]
GotoIf(r, condition, stage) == IF condition THEN Goto(r, stage) ELSE Answer(r)

WithEmail(e) == {u \in DOMAIN users : users[u].email = e}
WithName(n) == {u \in DOMAIN users : users[u].name = n}
OwnedBy(u) == {v \in DOMAIN users : users[v].owner = u}
Stored(owner) == owner = None \/ owner \in DOMAIN users

(* INSERT and DELETE of one row.                                           *)
Added(table, id, row) == [i \in DOMAIN table \cup {id} |-> IF i = id THEN row ELSE table[i]]
Without(table, id) == Restrict(table, DOMAIN table \ {id})

(* Ids are new: one is given again only when nothing refers to it.         *)
NewUser == {u \in User \ DOMAIN users :
              \A r \in Request : u \notin {req[r].target, req[r].row.owner}}
NewInvite == {i \in InviteId \ DOMAIN invites : \A r \in Request : req[r].invite # i}

(* The request that writes account u is answered; what others have read of *)
(* it is stale.                                                            *)
AnswerTouching(r, u) ==
    req' = [q \in Request |->
              IF q = r THEN Idle
              ELSE [req[q] EXCEPT !.stale = @ \/ (req[q].target = u /\ ~At(q, "findUser"))]]

-----------------------------------------------------------------------------
(* A request arrives and does its first transaction.  Most ask who asks:    *)
(* an account that exists and is active.  A refused one leaves no trace.   *)
Begin(r, request) ==
    /\ At(r, "idle") /\ request.kind \in Kinds
    /\ req' = [req EXCEPT ![r] = request]
    /\ UNCHANGED tables

Authorized(b) == b \in DOMAIN users /\ users[b].active

(* Mutated: every field of the form is copied. *)
CopiedForm(kind, form, row) == form

(* The row a request is about to write: what it has read with its form in  *)
(* it.                                                                     *)
Changed(kind, form, row) ==
    IF kind = "delete" THEN NoRow ELSE
    [row EXCEPT
        !.email = IF kind = "edit" THEN form.email ELSE @,
        !.owner = IF kind = "edit" /\ row.role = "owner" THEN form.owner ELSE @,
        !.active = IF kind = "setActive" THEN form.active ELSE @]

AfterLoad(kind) ==
    CASE kind = "edit" -> "checkOthers" [] kind = "delete" -> "checkNetwork" [] OTHER -> "validate"

(* A request about the asker's own account has read its target at once;    *)
(* another looks for it next.                                              *)
BeginFor(r, kind, b, t, form) ==
    /\ Authorized(b)
    /\ IF t = b
       THEN Begin(r, [Idle EXCEPT !.kind = kind, !.target = t, !.pc = AfterLoad(kind),
                                  !.row = Changed(kind, form, users[t])])
       ELSE Begin(r, [Idle EXCEPT !.kind = kind, !.target = t, !.pc = "findUser",
                                  !.row = form])

Register(r) ==
    \E form \in Forms, i \in InviteId \cup {None} :
        LET e == form[1]  n == form[2]  d == form[3] IN
        /\ WithEmail(e) = {} /\ WithName(n) = {}
        /\ Begin(r, [Idle EXCEPT !.kind = "register", !.dealer = d, !.invite = i,
                     !.pc = IF d # None THEN "findDealer"
                            ELSE IF i # None THEN "getInvite" ELSE "validate",
                     !.row = [email |-> e, name |-> n, role |-> "owner", owner |-> None,
                              active |-> i # None]])

SetInvite(r) ==
    \E b \in DOMAIN users, offer \in Offers :
        /\ Authorized(b)
        /\ Begin(r, [Idle EXCEPT !.kind = "invite", !.pc = "removeOld",
                                 !.power = Code[users[b].role],
                                 !.row = [NoRow EXCEPT !.email = offer[1], !.role = offer[2],
                                                       !.owner = offer[3]]])

(* The form is refused when it bears the login of a seeded administrator;  *)
(* the login is not used otherwise.                                        *)
Put(r) ==
    \E b, t \in DOMAIN users, e \in Email, o \in Owners :
        /\ Renaming \/ e = users[t].email
        /\ BeginFor(r, "edit", b, t, [NoRow EXCEPT !.email = e, !.owner = o])

SetActive(r) ==
    \E b, t \in DOMAIN users, a \in BOOLEAN :
        b # t /\ BeginFor(r, "setActive", b, t, [NoRow EXCEPT !.active = a])

ChangeCredentials(r) ==
    \E b \in DOMAIN users, e \in Email :
        /\ Renaming \/ e = users[b].email
        /\ Authorized(b)
        /\ Begin(r, [Idle EXCEPT !.kind = "edit", !.target = b, !.pc = "validate",
                                 !.row = [users[b] EXCEPT !.email = e]])

(* The user's own profile, password or mail settings: the other columns.   *)
(* Some of these ask only for an account, active or not.                   *)
PutProfile(r) ==
    \E b \in DOMAIN users :
        Begin(r, [Idle EXCEPT !.kind = "edit", !.target = b, !.pc = "validate",
                              !.row = users[b]])

Delete(r) ==
    \E b, t \in DOMAIN users :
        b # t /\ users[b].role # "technician" /\ BeginFor(r, "delete", b, t, NoRow)

-----------------------------------------------------------------------------
(* Register.                                                               *)
FindDealer(r) ==
    /\ At(r, "findDealer")
    /\ IF Cardinality(WithEmail(req[r].dealer)) # 1
       THEN Answer(r)
       ELSE \E u \in WithEmail(req[r].dealer) :
              req' = [req EXCEPT ![r].row.owner = u, ![r].dealer = None,
                                 ![r].pc = IF req[r].invite # None THEN "getInvite" ELSE "validate"]
    /\ UNCHANGED tables

Usable(i) == i \in DOMAIN invites /\ invites[i].fresh

(* The invitation decides the role, and the owner unless it has none or    *)
(* the role needs none.                                                    *)
GetInvite(r) ==
    /\ At(r, "getInvite")
    /\ LET i == req[r].invite IN
       IF ~Usable(i) THEN Answer(r)
       ELSE req' = [req EXCEPT
              ![r].row.role = invites[i].role,
              ![r].row.owner = IF invites[i].owner = None THEN @ ELSE invites[i].owner,
              ![r].pc = IF invites[i].owner = None THEN "validate" ELSE "findSender"]
    /\ UNCHANGED tables

FindSender(r) ==
    /\ At(r, "findSender")
    /\ IF req[r].row.owner \notin DOMAIN users THEN Answer(r)
       ELSE req' = [req EXCEPT
              ![r].row.owner = IF req[r].row.role \in {"admin", "dealer"} THEN None ELSE @,
              ![r].pc = "validate"]
    /\ UNCHANGED tables

(* UserManager validates a new or changed row, then writes it.  The table  *)
(* has a unique index on the login, none on the address, and a foreign key *)
(* for the owner.                                                          *)
Validate(r) ==
    /\ At(r, "validate")
    /\ GotoIf(r, /\ WithEmail(req[r].row.email) \subseteq {req[r].target}
                 /\ WithName(req[r].row.name) \subseteq {req[r].target},
              IF req[r].kind = "register" THEN "insert" ELSE "update")
    /\ UNCHANGED tables

IndexAllows(u, row) == WithName(row.name) \subseteq {u}

InsertUser(r) ==
    /\ At(r, "insert")
    /\ LET row == req[r].row IN
       IF Stored(row.owner) /\ IndexAllows(None, row)
       THEN /\ \E u \in NewUser : users' = Added(users, u, row)
            /\ GotoIf(r, req[r].invite # None, "removeInvite")
       ELSE Answer(r) /\ UNCHANGED users
    /\ UNCHANGED invites

RemoveInvite(r) ==
    /\ At(r, "removeInvite")
    /\ invites' = Without(invites, req[r].invite)
    /\ Answer(r)
    /\ UNCHANGED users

-----------------------------------------------------------------------------
(* Put, SetActive, Delete: another account is read.                        *)
FindUser(r) ==
    /\ At(r, "findUser")
    /\ LET t == req[r].target  kind == req[r].kind IN
       IF \/ t \notin DOMAIN users
          \/ kind # "edit" /\ users[t].role = "super_admin"
       THEN Answer(r)
       ELSE req' = [req EXCEPT ![r].row = Changed(kind, @, users[t]), ![r].pc = AfterLoad(kind)]
    /\ UNCHANGED tables

(* CheckUserByEmail.                                                       *)
CheckOthers(r) ==
    /\ At(r, "checkOthers")
    /\ GotoIf(r, WithEmail(req[r].row.email) \subseteq {req[r].target}, "validate")
    /\ UNCHANGED tables

(* Mutated: the whole row is written whatever it has become. *)
UpdateBlindly(r) ==
    /\ At(r, "update")
    /\ LET u == req[r].target IN
       IF u \in DOMAIN users /\ Stored(req[r].row.owner)
       THEN users' = [users EXCEPT ![u] = req[r].row] /\ AnswerTouching(r, u)
       ELSE Answer(r) /\ UNCHANGED users
    /\ UNCHANGED invites

(* The row is written if it is the one that was read.                      *)
UpdateUser(r) ==
    /\ At(r, "update")
    /\ LET u == req[r].target IN
       IF ~req[r].stale /\ Stored(req[r].row.owner)
       THEN users' = [users EXCEPT ![u] = req[r].row] /\ AnswerTouching(r, u)
       ELSE Answer(r) /\ UNCHANGED users
    /\ UNCHANGED invites

(* Delete: an account with a network is kept; the foreign keys restrict    *)
(* for owners and cascade to invitations.                                  *)
CheckNetwork(r) ==
    /\ At(r, "checkNetwork")
    /\ GotoIf(r, OwnedBy(req[r].target) = {}, "delete")
    /\ UNCHANGED tables

(* Mutated: the check of the network is relied on. *)
DeleteUnrestricted(r) ==
    /\ At(r, "delete")
    /\ IF req[r].stale THEN Answer(r) /\ UNCHANGED tables
       ELSE /\ users' = Without(users, req[r].target)
            /\ AnswerTouching(r, req[r].target)
            /\ UNCHANGED invites

DeleteUser(r) ==
    /\ At(r, "delete")
    /\ LET u == req[r].target IN
       IF ~req[r].stale /\ OwnedBy(u) = {}
       THEN /\ users' = Without(users, u)
            /\ invites' = Restrict(invites, {i \in DOMAIN invites : invites[i].owner # u})
            /\ AnswerTouching(r, u)
       ELSE Answer(r) /\ UNCHANGED tables

-----------------------------------------------------------------------------
(* SetInvite.                                                              *)
RemoveOld(r) ==
    /\ At(r, "removeOld")
    /\ invites' = Restrict(invites, {i \in DOMAIN invites : invites[i].fresh})
    /\ IF req[r].power < Code[req[r].row.role] THEN Answer(r)
       ELSE req' = [req EXCEPT ![r].power = 0, ![r].pc = "checkInvite"]
    /\ UNCHANGED users

CheckInvite(r) ==
    /\ At(r, "checkInvite")
    /\ GotoIf(r, ~\E i \in DOMAIN invites : Usable(i) /\ invites[i].email = req[r].row.email,
              "checkAddress")
    /\ UNCHANGED tables

CheckAddress(r) ==
    /\ At(r, "checkAddress")
    /\ GotoIf(r, WithEmail(req[r].row.email) = {}, "addInvite")
    /\ UNCHANGED tables

AddInvite(r) ==
    /\ At(r, "addInvite")
    /\ LET row == req[r].row IN
       IF Stored(row.owner)
       THEN \E i \in NewInvite :
              /\ invites' = Added(invites, i,
                               [email |-> row.email, role |-> row.role, owner |-> row.owner,
                                fresh |-> TRUE, mailed |-> FALSE])
              /\ req' = [req EXCEPT ![r].invite = i, ![r].pc = "mail"]
       ELSE Answer(r) /\ UNCHANGED invites
    /\ UNCHANGED users

(* Mutated: the invitation stays when its mail fails. *)
MailOrKeep(r) ==
    /\ At(r, "mail")
    /\ \/ invites' = [i \in DOMAIN invites |->
                        [invites[i] EXCEPT !.mailed = @ \/ i = req[r].invite]]
       \/ UNCHANGED invites
    /\ Answer(r)
    /\ UNCHANGED users

(* The mail goes out or fails; if it fails, the invitation is taken back.  *)
MailInvite(r) ==
    /\ At(r, "mail")
    /\ \/ /\ invites' = [i \in DOMAIN invites |->
                           [invites[i] EXCEPT !.mailed = @ \/ i = req[r].invite]]
          /\ Answer(r)
       \/ Goto(r, "removeInvite") /\ UNCHANGED invites
    /\ UNCHANGED users

(* A day passes.                                                           *)
Expire(i) ==
    /\ Usable(i)
    /\ invites' = [invites EXCEPT ![i].fresh = FALSE]
    /\ UNCHANGED <<users, req>>

-----------------------------------------------------------------------------
Init ==
    /\ users = Seed
    /\ invites = <<>>
    /\ req = [r \in Request |-> Idle]

Arrive(r) ==
    \/ Register(r)
    \/ SetInvite(r)
    \/ Put(r)
    \/ SetActive(r)
    \/ ChangeCredentials(r)
    \/ PutProfile(r)
    \/ Delete(r)

Serve(r) ==
    \/ FindDealer(r)
    \/ GetInvite(r)
    \/ FindSender(r)
    \/ Validate(r)
    \/ InsertUser(r)
    \/ RemoveInvite(r)
    \/ FindUser(r)
    \/ CheckOthers(r)
    \/ UpdateUser(r)
    \/ CheckNetwork(r)
    \/ DeleteUser(r)
    \/ RemoveOld(r)
    \/ CheckInvite(r)
    \/ CheckAddress(r)
    \/ AddInvite(r)
    \/ MailInvite(r)

Next ==
    \/ \E r \in Request : Arrive(r) \/ Serve(r)
    \/ \E i \in InviteId : Expire(i)

Spec == Init /\ [][Next]_vars

-----------------------------------------------------------------------------
(* The tables hold rows of their types under ids they know.                *)
TypeOK ==
    /\ DOMAIN users \subseteq User /\ users \in [DOMAIN users -> Account]
    /\ DOMAIN invites \subseteq InviteId /\ invites \in [DOMAIN invites -> Invitation]
    /\ \A r \in Request : req[r].pc \in {"insert", "update"} => req[r].row \in Account

(* Every owner is an account: of accounts, whatever was deleted between    *)
(* the reading of an owner and the writing of its id, and of invitations   *)
(* (UsersController.cs:500-519, AccountController.cs:303-344).             *)
OwnersExist ==
    /\ \A u \in DOMAIN users : Stored(users[u].owner)
    /\ \A i \in DOMAIN invites : Stored(invites[i].owner)

(* "RequireUniqueEmail = true" (Startup.cs:85).                            *)
EmailsUnique == \A u, v \in DOMAIN users : users[u].email = users[v].email => u = v

(* An account is activated or deactivated by SetActive only: no edit       *)
(* that read the account before writes the old value back                  *)
(* (UsersController.cs:153-201, 440-447).                                  *)
ActivationKept ==
    [][\A u \in DOMAIN users \cap DOMAIN users' :
         users'[u].active # users[u].active =>
             \E r \in Request :
                 At(r, "update") /\ req[r].kind = "setActive" /\ req[r].target = u]_vars

(* An invitation that nobody is working on has been sent: after a failed   *)
(* mail none is left that would refuse the next one (AccountController.cs  *)
(* 558-587).                                                               *)
InvitesMailed ==
    \A i \in DOMAIN invites : invites[i].mailed \/ \E r \in Request : req[r].invite = i
=============================================================================
