--------------------------- MODULE AccountsProofs ---------------------------
(***************************************************************************)
(* Theorems about Accounts, for any number of accounts, invitations and    *)
(* requests in flight.                                                     *)
(***************************************************************************)
EXTENDS Accounts, TLAPS

(***************************************************************************)
(* What a request is at each of its places: of which kind, and with what   *)
(* row in its hands.                                                       *)
(***************************************************************************)
Stage == {"idle", "findDealer", "getInvite", "findSender", "validate", "insert",
          "removeInvite", "findUser", "checkOthers", "update", "checkNetwork", "delete",
          "removeOld", "checkInvite", "checkAddress", "addInvite", "mail"}

Row == [email : Email \cup {None}, name : Name \cup {None}, role : Role \cup {None},
        owner : User \cup {None}, active : BOOLEAN]

RequestState ==
    [pc : Stage, kind : Kinds \cup {None}, target : User \cup {None}, power : Nat,
     dealer : Email \cup {None}, invite : InviteId \cup {None}, row : Row, stale : BOOLEAN]

KindAt(q) ==
    /\ q.pc \in {"findDealer", "getInvite", "findSender", "insert"} => q.kind = "register"
    /\ q.pc = "validate" => q.kind \in {"register", "edit", "setActive"}
    /\ q.pc = "update" => q.kind \in {"edit", "setActive"}
    /\ q.pc = "findUser" => q.kind \in {"edit", "setActive", "delete"}
    /\ q.pc = "checkOthers" => q.kind = "edit"
    /\ q.pc \in {"checkNetwork", "delete"} => q.kind = "delete"
    /\ q.pc \in {"removeOld", "checkInvite", "checkAddress", "addInvite", "mail"} =>
         q.kind = "invite"

RowAt(q) ==
    /\ q.pc \in {"findDealer", "getInvite", "findSender", "validate", "insert",
                 "checkOthers", "update"} => q.row \in Account
    /\ q.pc = "findUser" /\ q.kind = "edit" => q.row.email \in Email
    /\ q.pc \in {"removeOld", "checkInvite", "checkAddress", "addInvite"} =>
         q.row.email \in Email /\ q.row.role \in Role

(***************************************************************************)
(* What a request that has read its target still knows of it, until the    *)
(* target is written.                                                      *)
(***************************************************************************)
Editing(q) ==
    /\ q.pc \in {"checkOthers", "validate", "update"} /\ q.kind \in {"edit", "setActive"}
    /\ ~q.stale

Deleting(q) == q.pc \in {"checkNetwork", "delete"} /\ ~q.stale

KnowsTarget(q) ==
    /\ Editing(q) => /\ q.target \in DOMAIN users
                     /\ q.row.name = users[q.target].name
                     /\ q.row.role = users[q.target].role
                     /\ q.kind = "edit" => q.row.active = users[q.target].active
                     /\ q.kind = "setActive" => users[q.target].role # "super_admin"
    /\ Deleting(q) => q.target \in DOMAIN users /\ users[q.target].role # "super_admin"

Fits(q) == q \in RequestState /\ KindAt(q) /\ RowAt(q) /\ KnowsTarget(q)

TablesOK ==
    /\ DOMAIN users \subseteq User /\ users \in [DOMAIN users -> Account]
    /\ DOMAIN invites \subseteq InviteId /\ invites \in [DOMAIN invites -> Invitation]

RequestInv ==
    /\ TablesOK
    /\ req \in [Request -> RequestState]
    /\ \A r \in Request : Fits(req[r])

-----------------------------------------------------------------------------
(* A row added, a row removed.                                             *)
LEMMA AddedRow ==
  ASSUME NEW table, NEW id, NEW row
  PROVE  /\ DOMAIN Added(table, id, row) = DOMAIN table \cup {id}
         /\ Added(table, id, row)[id] = row
         /\ \A k \in DOMAIN table : k # id => Added(table, id, row)[k] = table[k]
  BY DEF Added

LEMMA KeptRows ==
  ASSUME NEW table, NEW T, T \subseteq DOMAIN table
  PROVE  /\ DOMAIN Restrict(table, T) = T
         /\ \A k \in T : Restrict(table, T)[k] = table[k]
  BY DEF Restrict

LEMMA AddedType ==
  ASSUME NEW S, NEW Rows, NEW table, DOMAIN table \subseteq S, table \in [DOMAIN table -> Rows],
         NEW id \in S, NEW row \in Rows
  PROVE  /\ DOMAIN Added(table, id, row) \subseteq S
         /\ Added(table, id, row) \in [DOMAIN Added(table, id, row) -> Rows]
<1>1. Added(table, id, row) \in [DOMAIN table \cup {id} -> Rows]
  BY DEF Added
<1>. QED  BY <1>1, AddedRow

LEMMA KeptType ==
  ASSUME NEW S, NEW Rows, NEW table, DOMAIN table \subseteq S, table \in [DOMAIN table -> Rows],
         NEW T, T \subseteq DOMAIN table
  PROVE  /\ DOMAIN Restrict(table, T) \subseteq S
         /\ Restrict(table, T) \in [DOMAIN Restrict(table, T) -> Rows]
<1>1. Restrict(table, T) \in [T -> Rows]
  BY DEF Restrict
<1>. QED  BY <1>1, KeptRows

LEMMA NoRowType == NoRow \in Row
  BY DEF NoRow, Row

LEMMA IdleFits == Fits(Idle)
<1>1. Idle \in RequestState
  BY NoRowType DEF Idle, RequestState, Stage
<1>. QED  BY <1>1 DEF Fits, KindAt, RowAt, KnowsTarget, Editing, Deleting, Idle

LEMMA AccountRow == Account \subseteq Row
  BY DEF Account, Row

(* The form in the row that was read: the login and the role are those     *)
(* read, and so is the activation unless that is what is asked.            *)
LEMMA ChangedRow ==
  ASSUME NEW kind \in {"edit", "setActive", "delete"}, NEW form \in Row, NEW row \in Account,
         kind = "edit" => form.email \in Email
  PROVE  /\ Changed(kind, form, row) \in Row
         /\ kind # "delete" => /\ Changed(kind, form, row) \in Account
                               /\ Changed(kind, form, row).name = row.name
                               /\ Changed(kind, form, row).role = row.role
         /\ kind = "edit" => Changed(kind, form, row).active = row.active
<1>1. CASE kind = "delete"
  BY <1>1, NoRowType DEF Changed
<1>2. CASE kind = "edit"
  <2>1. Changed(kind, form, row) =
          [row EXCEPT !.email = form.email,
                      !.owner = IF row.role = "owner" THEN form.owner ELSE @,
                      !.active = @]
    BY <1>2 DEF Changed, Account
  <2>2. form.owner \in User \cup {None}
    BY DEF Row
  <2>. QED  BY <1>2, <2>1, <2>2, AccountRow DEF Account
<1>3. CASE kind = "setActive"
  <2>1. Changed(kind, form, row) = [row EXCEPT !.email = @, !.owner = @, !.active = form.active]
    BY <1>3 DEF Changed, Account
  <2>2. form.active \in BOOLEAN
    BY DEF Row
  <2>. QED  BY <1>3, <2>1, <2>2, AccountRow DEF Account
<1>. QED  BY <1>1, <1>2, <1>3

(***************************************************************************)
(* A step that leaves the accounts alone puts one request in its next      *)
(* state, which must fit as the last one did.                              *)
(***************************************************************************)
LEMMA OneRequest ==
  ASSUME RequestInv, NEW r \in Request, NEW new, Fits(new), req' = [req EXCEPT ![r] = new],
         UNCHANGED users,
         DOMAIN invites' \subseteq InviteId, invites' \in [DOMAIN invites' -> Invitation]
  PROVE  RequestInv'
<1>1. TablesOK'
  BY DEF RequestInv, TablesOK
<1>2. req' \in [Request -> RequestState]
  BY DEF RequestInv, Fits
<1>3. ASSUME NEW s \in Request PROVE Fits(req[s])'
  <2>1. Fits(req'[s])
    BY DEF RequestInv
  <2>. QED  BY <2>1 DEF Fits, KindAt, RowAt, KnowsTarget, Editing, Deleting
<1>. QED  BY <1>1, <1>2, <1>3 DEF RequestInv

LEMMA BeginInv ==
  ASSUME RequestInv, NEW r \in Request, NEW new, Begin(r, new), Fits(new)
  PROVE  RequestInv'
  BY OneRequest DEF Begin, tables, RequestInv, TablesOK

(* A request about the asker's own account, or one that looks for another. *)
LEMMA BeginForInv ==
  ASSUME RequestInv, NEW r \in Request, NEW kind \in {"edit", "setActive", "delete"},
         NEW b \in DOMAIN users, NEW t \in DOMAIN users, NEW form \in Row,
         kind = "edit" => form.email \in Email,
         kind # "edit" => b # t,
         BeginFor(r, kind, b, t, form)
  PROVE  RequestInv'
<1>. DEFINE own == [Idle EXCEPT !.kind = kind, !.target = t, !.pc = AfterLoad(kind),
                                !.row = Changed(kind, form, users[t])]
            other == [Idle EXCEPT !.kind = kind, !.target = t, !.pc = "findUser",
                                  !.row = form]
<1>0. t \in User /\ users[t] \in Account
  BY DEF RequestInv, TablesOK
<1>1. CASE t = b
  <2>1. Begin(r, own) /\ kind = "edit"
    BY <1>1 DEF BeginFor
  <2>2. kind \in Kinds
    BY <2>1 DEF Begin, Idle
  <2>3. /\ Changed(kind, form, users[t]) \in Account
        /\ Changed(kind, form, users[t]) \in Row
        /\ Changed(kind, form, users[t]).name = users[t].name
        /\ Changed(kind, form, users[t]).role = users[t].role
        /\ Changed(kind, form, users[t]).active = users[t].active
    BY <1>0, <2>1, ChangedRow
  <2>4. AfterLoad(kind) = "checkOthers"
    BY <2>1 DEF AfterLoad
  <2>5. /\ own.pc = "checkOthers" /\ own.kind = "edit" /\ own.target = t
        /\ own.row = Changed(kind, form, users[t])
    BY <2>1, <2>4 DEF Idle
  <2>6. own \in RequestState
    BY <1>0, <2>1, <2>2, <2>3, <2>4 DEF Idle, RequestState, Stage
  <2>. HIDE DEF own
  <2>7. Fits(own)
    BY <2>3, <2>5, <2>6 DEF Fits, KindAt, RowAt, KnowsTarget, Editing, Deleting
  <2>. QED  BY <2>1, <2>7, BeginInv
<1>2. CASE t # b
  <2>1. Begin(r, other)
    BY <1>2 DEF BeginFor
  <2>2. kind \in Kinds
    BY <2>1 DEF Begin, Idle
  <2>3. other.pc = "findUser" /\ other.kind = kind /\ other.row = form
    BY DEF Idle
  <2>4. other \in RequestState
    BY <1>0, <2>2 DEF Idle, RequestState, Stage
  <2>. HIDE DEF other
  <2>5. Fits(other)
    BY <2>3, <2>4 DEF Fits, KindAt, RowAt, KnowsTarget, Editing, Deleting
  <2>. QED  BY <2>1, <2>5, BeginInv
<1>. QED  BY <1>1, <1>2

LEMMA ArriveInv ==
  ASSUME RequestInv, NEW r \in Request, Arrive(r)
  PROVE  RequestInv'
<1>0. /\ users \in [DOMAIN users -> Account] /\ DOMAIN users \subseteq User
      /\ Role \subseteq DOMAIN Code /\ "owner" \in Role
  BY AccountsAssumption DEF RequestInv, TablesOK
<1>1. CASE Register(r)
  <2>1. PICK form \in Forms, i \in InviteId \cup {None} :
          Begin(r, [Idle EXCEPT !.kind = "register", !.dealer = form[3], !.invite = i,
                    !.pc = IF form[3] # None THEN "findDealer"
                           ELSE IF i # None THEN "getInvite" ELSE "validate",
                    !.row = [email |-> form[1], name |-> form[2], role |-> "owner",
                             owner |-> None, active |-> i # None]])
    BY <1>1 DEF Register
  <2>. DEFINE row == [email |-> form[1], name |-> form[2], role |-> "owner",
                      owner |-> None, active |-> i # None]
              place == IF form[3] # None THEN "findDealer"
                       ELSE IF i # None THEN "getInvite" ELSE "validate"
              new == [Idle EXCEPT !.kind = "register", !.dealer = form[3], !.invite = i,
                                  !.pc = place, !.row = row]
  <2>2. form[1] \in Email /\ form[2] \in Name /\ form[3] \in Email \cup {None}
    BY AccountsAssumption
  <2>3. row \in Account
    BY <1>0, <2>2 DEF Account
  <2>4. Begin(r, new) /\ "register" \in Kinds
    BY <2>1 DEF Begin, Idle
  <2>5. place \in {"findDealer", "getInvite", "validate"}
    OBVIOUS
  <2>6. new.pc = place /\ new.kind = "register" /\ new.row = row
    BY DEF Idle
  <2>7. row \in Row
    BY <2>3, AccountRow
  <2>. HIDE DEF row, place
  <2>8. new \in RequestState
    BY <2>2, <2>4, <2>5, <2>7 DEF Idle, RequestState, Stage
  <2>. HIDE DEF new
  <2>9. Fits(new)
    BY <2>3, <2>5, <2>6, <2>8 DEF Fits, KindAt, RowAt, KnowsTarget, Editing, Deleting
  <2>. QED  BY <2>4, <2>9, BeginInv
<1>2. CASE SetInvite(r)
  <2>1. PICK b \in DOMAIN users, offer \in Offers :
          Begin(r, [Idle EXCEPT !.kind = "invite", !.pc = "removeOld",
                                !.power = Code[users[b].role],
                                !.row = [NoRow EXCEPT !.email = offer[1], !.role = offer[2],
                                                      !.owner = offer[3]]])
    BY <1>2 DEF SetInvite
  <2>. DEFINE row == [NoRow EXCEPT !.email = offer[1], !.role = offer[2], !.owner = offer[3]]
              power == Code[users[b].role]
              new == [Idle EXCEPT !.kind = "invite", !.pc = "removeOld",
                                  !.power = power, !.row = row]
  <2>2. offer[1] \in Email /\ offer[2] \in Role /\ offer[3] \in User \cup {None}
    BY AccountsAssumption
  <2>3. row \in Row /\ row.email \in Email /\ row.role \in Role
    BY <2>2, NoRowType DEF Row, NoRow
  <2>4. users[b].role \in DOMAIN Code
    BY <1>0 DEF Account
  <2>5. power \in Nat
    BY <2>4 DEF Code
  <2>6. Begin(r, new) /\ "invite" \in Kinds
    BY <2>1 DEF Begin, Idle
  <2>7. new.pc = "removeOld" /\ new.kind = "invite" /\ new.row = row
    BY DEF Idle
  <2>. HIDE DEF row, power
  <2>8. new \in RequestState
    BY <2>3, <2>5, <2>6 DEF Idle, RequestState, Stage
  <2>. HIDE DEF new
  <2>9. Fits(new)
    BY <2>3, <2>7, <2>8 DEF Fits, KindAt, RowAt, KnowsTarget, Editing, Deleting
  <2>. QED  BY <2>6, <2>9, BeginInv
<1>3. CASE Put(r)
  <2>1. PICK b \in DOMAIN users, t \in DOMAIN users, e \in Email, o \in Owners :
          BeginFor(r, "edit", b, t, [NoRow EXCEPT !.email = e, !.owner = o])
    BY <1>3 DEF Put
  <2>. DEFINE form == [NoRow EXCEPT !.email = e, !.owner = o]
  <2>2. form \in Row /\ form.email \in Email
    BY AccountsAssumption DEF NoRow, Row
  <2>. QED  BY <2>1, <2>2, BeginForInv
<1>4. CASE SetActive(r)
  <2>1. PICK b \in DOMAIN users, t \in DOMAIN users, a \in BOOLEAN :
          b # t /\ BeginFor(r, "setActive", b, t, [NoRow EXCEPT !.active = a])
    BY <1>4 DEF SetActive
  <2>2. [NoRow EXCEPT !.active = a] \in Row
    BY DEF NoRow, Row
  <2>. QED  BY <2>1, <2>2, BeginForInv
<1>5. CASE ChangeCredentials(r) \/ PutProfile(r)
  <2>1. PICK b \in DOMAIN users, row \in Account :
          /\ Begin(r, [Idle EXCEPT !.kind = "edit", !.target = b, !.pc = "validate",
                                   !.row = row])
          /\ row.name = users[b].name /\ row.role = users[b].role
          /\ row.active = users[b].active
    <3>1. CASE PutProfile(r)
      BY <1>0, <3>1 DEF PutProfile
    <3>2. CASE ChangeCredentials(r)
      <4>1. PICK b \in DOMAIN users, e \in Email :
              Begin(r, [Idle EXCEPT !.kind = "edit", !.target = b, !.pc = "validate",
                                    !.row = [users[b] EXCEPT !.email = e]])
        BY <3>2 DEF ChangeCredentials
      <4>2. users[b] \in Account
        BY <1>0
      <4>. DEFINE row == [users[b] EXCEPT !.email = e]
      <4>3. /\ row \in Account /\ row.name = users[b].name /\ row.role = users[b].role
            /\ row.active = users[b].active
        BY <4>2 DEF Account
      <4>. QED  BY <4>1, <4>3
    <3>. QED  BY <1>5, <3>1, <3>2
  <2>. DEFINE new == [Idle EXCEPT !.kind = "edit", !.target = b, !.pc = "validate",
                                  !.row = row]
  <2>2. "edit" \in Kinds /\ b \in User
    BY <1>0, <2>1 DEF Begin, Idle
  <2>3. new.pc = "validate" /\ new.kind = "edit" /\ new.row = row /\ new.target = b
    BY DEF Idle
  <2>4. new \in RequestState
    BY <2>2, AccountRow DEF Idle, RequestState, Stage
  <2>. HIDE DEF new
  <2>5. Fits(new)
    BY <2>1, <2>3, <2>4 DEF Fits, KindAt, RowAt, KnowsTarget, Editing, Deleting
  <2>. QED  BY <2>1, <2>5, BeginInv DEF new
<1>6. CASE Delete(r)
  BY <1>6, NoRowType, BeginForInv DEF Delete
<1>. QED  BY <1>1, <1>2, <1>3, <1>4, <1>5, <1>6 DEF Arrive

-----------------------------------------------------------------------------
(* From one place to the next with the same row.                           *)
LEMMA NextPlace ==
  ASSUME NEW q, Fits(q), NEW stage,
         \/ q.pc = "validate" /\ stage = IF q.kind = "register" THEN "insert" ELSE "update"
         \/ q.pc = "checkOthers" /\ stage = "validate"
         \/ q.pc = "checkNetwork" /\ stage = "delete"
         \/ q.pc = "checkInvite" /\ stage = "checkAddress"
         \/ q.pc = "checkAddress" /\ stage = "addInvite"
         \/ stage = "removeInvite"
  PROVE  Fits([q EXCEPT !.pc = stage])
<1>. DEFINE new == [q EXCEPT !.pc = stage]
<1>0. q \in RequestState /\ stage \in Stage
  BY DEF Fits, Stage
<1>1. /\ new \in RequestState /\ new.pc = stage /\ new.kind = q.kind /\ new.row = q.row
      /\ new.target = q.target /\ new.stale = q.stale
  BY <1>0 DEF RequestState
<1>. HIDE DEF new
<1>2. KindAt(new) /\ RowAt(new) /\ KnowsTarget(new)
  BY <1>1 DEF Fits, KindAt, RowAt, KnowsTarget, Editing, Deleting
<1>. QED  BY <1>1, <1>2 DEF Fits, new

(* It goes on or is answered.                                              *)
LEMMA OnwardInv ==
  ASSUME RequestInv, NEW r \in Request, NEW stage, Fits([req[r] EXCEPT !.pc = stage]),
         Goto(r, stage) \/ Answer(r), UNCHANGED users,
         DOMAIN invites' \subseteq InviteId, invites' \in [DOMAIN invites' -> Invitation]
  PROVE  RequestInv'
<1>1. CASE Answer(r)
  BY <1>1, IdleFits, OneRequest DEF Answer
<1>2. CASE Goto(r, stage)
  <2>1. req' = [req EXCEPT ![r] = [req[r] EXCEPT !.pc = stage]]
    BY <1>2 DEF Goto
  <2>. QED  BY <2>1, OneRequest
<1>. QED  BY <1>1, <1>2

(* A request that writes or deletes account u: whoever had read u is told. *)
LEMMA TouchingInv ==
  ASSUME RequestInv, NEW r \in Request, NEW u, AnswerTouching(r, u), TablesOK',
         DOMAIN users \ {u} \subseteq DOMAIN users',
         \A v \in DOMAIN users \ {u} : users'[v] = users[v]
  PROVE  RequestInv'
<1>1. ASSUME NEW s \in Request
      PROVE  req'[s] \in RequestState /\ Fits(req[s])'
  <2>. DEFINE q == req[s]
  <2>0. Fits(q) /\ q \in RequestState
    BY DEF RequestInv, Fits
  <2>1. CASE s = r
    <3>1. req'[s] = Idle
      BY <2>1 DEF AnswerTouching
    <3>. QED  BY <3>1, IdleFits DEF Fits, KindAt, RowAt, KnowsTarget, Editing, Deleting, Idle
  <2>2. CASE s # r
    <3>0. PICK new : new = [q EXCEPT !.stale = @ \/ (q.target = u /\ ~At(s, "findUser"))]
      OBVIOUS
    <3>1. req'[s] = new
      BY <2>2, <3>0 DEF AnswerTouching
    <3>2. new \in RequestState
      BY <2>0, <3>0 DEF RequestState, At
    <3>3. /\ new.pc = q.pc /\ new.kind = q.kind /\ new.row = q.row /\ new.target = q.target
          /\ ~new.stale => ~q.stale
          /\ ~new.stale => q.target # u \/ q.pc = "findUser"
      BY <2>0, <3>0 DEF RequestState, At
    <3>4. KnowsTarget(new)'
      BY <2>0, <3>3 DEF Fits, KnowsTarget, Editing, Deleting
    <3>5. KindAt(new) /\ RowAt(new)
      BY <2>0, <3>3 DEF Fits, KindAt, RowAt
    <3>. QED  BY <3>1, <3>2, <3>4, <3>5 DEF Fits, KindAt, RowAt, KnowsTarget, Editing, Deleting
  <2>. QED  BY <2>1, <2>2
<1>2. req' \in [Request -> RequestState]
  BY <1>1 DEF AnswerTouching
<1>. QED  BY <1>1, <1>2 DEF RequestInv

(***************************************************************************)
(* The three ways the accounts change.                                     *)
(***************************************************************************)
Inserts(u, row) ==
    /\ u \in User \ DOMAIN users /\ row \in Account
    /\ Stored(row.owner) /\ WithName(row.name) = {}
    /\ users' = Added(users, u, row)
    /\ UNCHANGED invites

Updates(u, q) ==
    /\ q.pc = "update" /\ q.target = u /\ u \in DOMAIN users /\ q.row \in Account
    /\ Stored(q.row.owner) /\ q.row.name = users[u].name /\ q.row.role = users[u].role
    /\ q.kind # "setActive" => q.row.active = users[u].active
    /\ q.kind = "setActive" => users[u].role # "super_admin"
    /\ users' = [users EXCEPT ![u] = q.row]
    /\ UNCHANGED invites

Deletes(u) ==
    /\ u \in DOMAIN users /\ users[u].role # "super_admin" /\ OwnedBy(u) = {}
    /\ users' = Without(users, u)
    /\ invites' = Restrict(invites, {i \in DOMAIN invites : invites[i].owner # u})

LEMMA InsertChanges ==
  ASSUME RequestInv, NEW r \in Request, InsertUser(r)
  PROVE  \/ UNCHANGED tables /\ Answer(r)
         \/ /\ \E u \in User, row \in Account : Inserts(u, row)
            /\ Goto(r, "removeInvite") \/ Answer(r)
<1>0. req[r].row \in Account
  BY DEF InsertUser, At, RequestInv, Fits, RowAt
<1>1. WithName(req[r].row.name) \subseteq {None} => WithName(req[r].row.name) = {}
  BY AccountsAssumption DEF WithName, RequestInv, TablesOK
<1>2. CASE Stored(req[r].row.owner) /\ IndexAllows(None, req[r].row)
  <2>1. PICK u \in NewUser : users' = Added(users, u, req[r].row)
    BY <1>2 DEF InsertUser
  <2>2. u \in User \ DOMAIN users
    BY DEF NewUser
  <2>3. Inserts(u, req[r].row)
    BY <1>0, <1>1, <1>2, <2>1, <2>2 DEF InsertUser, IndexAllows, Inserts
  <2>. QED  BY <1>0, <1>2, <2>2, <2>3 DEF InsertUser, GotoIf
<1>3. CASE ~(Stored(req[r].row.owner) /\ IndexAllows(None, req[r].row))
  BY <1>3 DEF InsertUser, tables
<1>. QED  BY <1>2, <1>3

LEMMA UpdateChanges ==
  ASSUME RequestInv, NEW r \in Request, UpdateUser(r)
  PROVE  \/ UNCHANGED users /\ Answer(r)
         \/ Updates(req[r].target, req[r]) /\ AnswerTouching(r, req[r].target)
<1>1. Fits(req[r]) /\ req[r].pc = "update"
  BY DEF UpdateUser, At, RequestInv
<1>2. req[r].row \in Account /\ req[r].kind \in {"edit", "setActive"}
  BY <1>1 DEF Fits, KindAt, RowAt
<1>3. ~req[r].stale => /\ req[r].target \in DOMAIN users
                       /\ req[r].row.name = users[req[r].target].name
                       /\ req[r].row.role = users[req[r].target].role
                       /\ req[r].kind = "edit" => req[r].row.active = users[req[r].target].active
                       /\ req[r].kind = "setActive" => users[req[r].target].role # "super_admin"
  BY <1>1, <1>2 DEF Fits, KnowsTarget, Editing
<1>. QED  BY <1>1, <1>2, <1>3 DEF UpdateUser, Updates

LEMMA DeleteChanges ==
  ASSUME RequestInv, NEW r \in Request, DeleteUser(r)
  PROVE  \/ UNCHANGED tables /\ Answer(r)
         \/ Deletes(req[r].target) /\ AnswerTouching(r, req[r].target)
<1>1. Fits(req[r]) /\ req[r].pc = "delete"
  BY DEF DeleteUser, At, RequestInv
<1>2. ~req[r].stale => /\ req[r].target \in DOMAIN users
                       /\ users[req[r].target].role # "super_admin"
  BY <1>1 DEF Fits, KnowsTarget, Deleting
<1>. QED  BY <1>2 DEF DeleteUser, Deletes

-----------------------------------------------------------------------------
(* The tables keep their types.                                            *)
LEMMA ChangesTyped ==
  ASSUME TablesOK
  PROVE  /\ \A u, row : Inserts(u, row) => TablesOK'
         /\ \A u, q : Updates(u, q) => TablesOK'
         /\ \A u : Deletes(u) => TablesOK'
<1>0. /\ DOMAIN users \subseteq User /\ users \in [DOMAIN users -> Account]
      /\ DOMAIN invites \subseteq InviteId /\ invites \in [DOMAIN invites -> Invitation]
  BY DEF TablesOK
<1>1. ASSUME NEW u, NEW row, Inserts(u, row) PROVE TablesOK'
  <2>1. u \in User /\ row \in Account /\ users' = Added(users, u, row) /\ invites' = invites
    BY <1>1 DEF Inserts
  <2>2. DOMAIN users' \subseteq User /\ users' \in [DOMAIN users' -> Account]
    BY <1>0, <2>1, AddedType
  <2>. QED  BY <1>0, <2>1, <2>2 DEF TablesOK
<1>2. ASSUME NEW u, NEW q, Updates(u, q) PROVE TablesOK'
  BY <1>0, <1>2 DEF Updates, TablesOK
<1>3. ASSUME NEW u, Deletes(u) PROVE TablesOK'
  <2>1. /\ users' = Restrict(users, DOMAIN users \ {u})
        /\ invites' = Restrict(invites, {i \in DOMAIN invites : invites[i].owner # u})
    BY <1>3 DEF Deletes, Without
  <2>2. DOMAIN users' \subseteq User /\ users' \in [DOMAIN users' -> Account]
    BY <1>0, <2>1, KeptType
  <2>3. DOMAIN invites' \subseteq InviteId /\ invites' \in [DOMAIN invites' -> Invitation]
    BY <1>0, <2>1, KeptType
  <2>. QED  BY <2>2, <2>3 DEF TablesOK
<1>. QED  BY <1>1, <1>2, <1>3

LEMMA AnswerInv ==
  ASSUME RequestInv, NEW r \in Request, Answer(r), UNCHANGED users,
         DOMAIN invites' \subseteq InviteId, invites' \in [DOMAIN invites' -> Invitation]
  PROVE  RequestInv'
  BY IdleFits, OneRequest DEF Answer

LEMMA WritesInv ==
  ASSUME RequestInv, NEW r \in Request, InsertUser(r) \/ UpdateUser(r) \/ DeleteUser(r)
  PROVE  RequestInv'
<1>0. /\ TablesOK
      /\ DOMAIN users \subseteq User /\ users \in [DOMAIN users -> Account]
      /\ DOMAIN invites \subseteq InviteId /\ invites \in [DOMAIN invites -> Invitation]
  BY DEF RequestInv, TablesOK
<1>1. CASE InsertUser(r)
  <2>1. CASE UNCHANGED tables /\ Answer(r)
    <3>1. UNCHANGED <<users, invites>>
      BY <2>1 DEF tables
    <3>. QED  BY <1>0, <2>1, <3>1, AnswerInv
  <2>2. CASE /\ \E u \in User, row \in Account : Inserts(u, row)
             /\ Goto(r, "removeInvite") \/ Answer(r)
    <3>1. PICK new : Fits(new) /\ new.pc \in {"idle", "removeInvite"}
                     /\ req' = [req EXCEPT ![r] = new]
      <4>0. Fits(req[r]) /\ req[r] \in RequestState
        BY DEF RequestInv, Fits
      <4>1. /\ Fits([req[r] EXCEPT !.pc = "removeInvite"])
            /\ [req[r] EXCEPT !.pc = "removeInvite"].pc = "removeInvite"
        BY <4>0, NextPlace DEF RequestState
      <4>2. Fits(Idle) /\ Idle.pc = "idle"
        BY IdleFits DEF Idle
      <4>3. \/ req' = [req EXCEPT ![r] = [req[r] EXCEPT !.pc = "removeInvite"]]
            \/ req' = [req EXCEPT ![r] = Idle]
        BY <2>2 DEF Goto, Answer
      <4>. QED  BY <4>1, <4>2, <4>3
    <3>2. PICK u \in User, row \in Account : Inserts(u, row)
      BY <2>2
    <3>3. TablesOK'
      BY <1>0, <3>2, ChangesTyped
    <3>4. \A v \in DOMAIN users : v \in DOMAIN users' /\ users'[v] = users[v]
      <4>1. users' = Added(users, u, row) /\ u \notin DOMAIN users
        BY <3>2 DEF Inserts
      <4>2. DOMAIN users' = DOMAIN users \cup {u}
        BY <4>1, AddedRow
      <4>. QED  BY <4>1, <4>2 DEF Added
    <3>5. ASSUME NEW s \in Request PROVE req'[s] \in RequestState /\ Fits(req[s])'
      <4>1. Fits(req'[s]) /\ (s = r => req'[s].pc \in {"idle", "removeInvite"})
        BY <3>1 DEF RequestInv
      <4>. QED  BY <4>1, <3>4 DEF Fits, KindAt, RowAt, KnowsTarget, Editing, Deleting
    <3>6. req' \in [Request -> RequestState]
      BY <3>1, <3>5 DEF RequestInv
    <3>. QED  BY <3>3, <3>5, <3>6 DEF RequestInv
  <2>. QED  BY <1>1, <2>1, <2>2, InsertChanges
<1>2. CASE UpdateUser(r)
  <2>. DEFINE u == req[r].target
  <2>1. CASE UNCHANGED users /\ Answer(r)
    BY <1>0, <1>2, <2>1, AnswerInv DEF UpdateUser
  <2>2. CASE Updates(u, req[r]) /\ AnswerTouching(r, u)
    <3>1. TablesOK'
      BY <1>0, <2>2, ChangesTyped
    <3>2. DOMAIN users' = DOMAIN users /\ \A v \in DOMAIN users \ {u} : users'[v] = users[v]
      BY <1>0, <2>2 DEF Updates
    <3>. QED  BY <2>2, <3>1, <3>2, TouchingInv
  <2>. QED  BY <1>2, <2>1, <2>2, UpdateChanges
<1>3. CASE DeleteUser(r)
  <2>. DEFINE u == req[r].target
  <2>1. CASE UNCHANGED tables /\ Answer(r)
    <3>1. UNCHANGED <<users, invites>>
      BY <2>1 DEF tables
    <3>. QED  BY <1>0, <2>1, <3>1, AnswerInv
  <2>2. CASE Deletes(u) /\ AnswerTouching(r, u)
    <3>1. TablesOK'
      BY <1>0, <2>2, ChangesTyped
    <3>2. /\ DOMAIN users' = DOMAIN users \ {u}
          /\ \A v \in DOMAIN users \ {u} : users'[v] = users[v]
      <4>1. users' = Restrict(users, DOMAIN users \ {u})
        BY <2>2 DEF Deletes, Without
      <4>. QED  BY <4>1, KeptRows
    <3>. QED  BY <2>2, <3>1, <3>2, TouchingInv
  <2>. QED  BY <1>3, <2>1, <2>2, DeleteChanges
<1>. QED  BY <1>1, <1>2, <1>3

(* The rest of what a request does touches no account.                     *)
LEMMA ServeInv ==
  ASSUME RequestInv, NEW r \in Request, Serve(r)
  PROVE  RequestInv'
<1>. DEFINE q == req[r]
<1>0. /\ DOMAIN users \subseteq User /\ users \in [DOMAIN users -> Account]
      /\ DOMAIN invites \subseteq InviteId /\ invites \in [DOMAIN invites -> Invitation]
      /\ Fits(q) /\ q \in RequestState
  BY DEF RequestInv, TablesOK, Fits
<1>1. UNCHANGED tables => /\ UNCHANGED users /\ DOMAIN invites' \subseteq InviteId
                          /\ invites' \in [DOMAIN invites' -> Invitation]
  BY <1>0 DEF tables
(* A row filled in further is still an account's.                          *)
<1>2. ASSUME NEW new, new \in RequestState, UNCHANGED tables,
             new.pc \in {"getInvite", "findSender", "validate"},
             new.kind = "register", new.row \in Account,
             req' = [req EXCEPT ![r] = new]
      PROVE  RequestInv'
  <2>1. Fits(new)
    BY <1>2 DEF Fits, KindAt, RowAt, KnowsTarget, Editing, Deleting
  <2>. QED  BY <1>1, <1>2, <2>1, OneRequest
<1>3. CASE FindDealer(r)
  <2>0. q.pc = "findDealer" /\ q.kind = "register" /\ q.row \in Account /\ UNCHANGED tables
    BY <1>0, <1>3 DEF FindDealer, At, Fits, KindAt, RowAt
  <2>1. CASE Answer(r)
    BY <1>1, <2>0, <2>1, AnswerInv
  <2>2. CASE ~Answer(r)
    <3>1. PICK u \in WithEmail(q.dealer) :
            req' = [req EXCEPT ![r].row.owner = u, ![r].dealer = None,
                               ![r].pc = IF q.invite # None THEN "getInvite" ELSE "validate"]
      BY <1>3, <2>2 DEF FindDealer
    <3>2. u \in User
      BY <1>0 DEF WithEmail
    <3>3. PICK place \in {"getInvite", "validate"} :
            place = IF q.invite # None THEN "getInvite" ELSE "validate"
      OBVIOUS
    <3>4. PICK row : row = [q.row EXCEPT !.owner = u]
      OBVIOUS
    <3>5. row \in Account
      BY <2>0, <3>2, <3>4 DEF Account
    <3>6. PICK new : new = [q EXCEPT !.row = row, !.dealer = None, !.pc = place]
      OBVIOUS
    <3>7. /\ new \in RequestState /\ new.pc = place /\ new.kind = "register"
          /\ new.row = row
      BY <1>0, <2>0, <3>5, <3>6, AccountRow DEF RequestState, Stage
    <3>8. req' = [req EXCEPT ![r] = new]
      BY <3>1, <3>3, <3>4, <3>6 DEF RequestInv
    <3>. QED  BY <1>2, <2>0, <3>5, <3>7, <3>8
  <2>. QED  BY <2>1, <2>2
<1>4. CASE GetInvite(r)
  <2>0. q.pc = "getInvite" /\ q.kind = "register" /\ q.row \in Account /\ UNCHANGED tables
    BY <1>0, <1>4 DEF GetInvite, At, Fits, KindAt, RowAt
  <2>1. CASE ~Usable(q.invite)
    <3>1. Answer(r)
      BY <1>4, <2>1 DEF GetInvite
    <3>. QED  BY <1>1, <2>0, <3>1, AnswerInv
  <2>2. CASE Usable(q.invite)
    <3>1. invites[q.invite] \in Invitation
      BY <1>0, <2>2 DEF Usable
    <3>2. PICK owner : owner = IF invites[q.invite].owner = None THEN q.row.owner
                               ELSE invites[q.invite].owner
      OBVIOUS
    <3>3. PICK place \in {"validate", "findSender"} :
            place = IF invites[q.invite].owner = None THEN "validate" ELSE "findSender"
      OBVIOUS
    <3>4. PICK row : row = [q.row EXCEPT !.role = invites[q.invite].role, !.owner = owner]
      OBVIOUS
    <3>5. row \in Account
      BY <2>0, <3>1, <3>2, <3>4 DEF Account, Invitation
    <3>6. PICK new : new = [q EXCEPT !.row = row, !.pc = place]
      OBVIOUS
    <3>7. /\ new \in RequestState /\ new.pc = place /\ new.kind = "register"
          /\ new.row = row
      BY <1>0, <2>0, <3>5, <3>6, AccountRow DEF RequestState, Stage
    <3>8. req' = [req EXCEPT
              ![r].row.role = invites[q.invite].role,
              ![r].row.owner = IF invites[q.invite].owner = None THEN @
                               ELSE invites[q.invite].owner,
              ![r].pc = IF invites[q.invite].owner = None THEN "validate" ELSE "findSender"]
      BY <1>4, <2>2 DEF GetInvite
    <3>9. req' = [req EXCEPT ![r] = new]
      BY <1>0, <2>0, <3>2, <3>3, <3>4, <3>6, <3>8 DEF RequestInv, RequestState, Account
    <3>. QED  BY <1>2, <2>0, <3>5, <3>7, <3>9
  <2>. QED  BY <2>1, <2>2
<1>5. CASE FindSender(r)
  <2>0. q.pc = "findSender" /\ q.kind = "register" /\ q.row \in Account /\ UNCHANGED tables
    BY <1>0, <1>5 DEF FindSender, At, Fits, KindAt, RowAt
  <2>1. CASE q.row.owner \notin DOMAIN users
    <3>1. Answer(r)
      BY <1>5, <2>1 DEF FindSender
    <3>. QED  BY <1>1, <2>0, <3>1, AnswerInv
  <2>2. CASE q.row.owner \in DOMAIN users
    <3>1. req' = [req EXCEPT
              ![r].row.owner = IF q.row.role \in {"admin", "dealer"} THEN None ELSE @,
              ![r].pc = "validate"]
      BY <1>5, <2>2 DEF FindSender
    <3>2. PICK owner \in User \cup {None} :
            owner = IF q.row.role \in {"admin", "dealer"} THEN None ELSE q.row.owner
      BY <2>0 DEF Account
    <3>3. PICK row : row = [q.row EXCEPT !.owner = owner]
      OBVIOUS
    <3>4. row \in Account
      BY <2>0, <3>2, <3>3 DEF Account
    <3>5. PICK new : new = [q EXCEPT !.row = row, !.pc = "validate"]
      OBVIOUS
    <3>6. /\ new \in RequestState /\ new.pc = "validate" /\ new.kind = "register"
          /\ new.row = row
      BY <1>0, <2>0, <3>4, <3>5, AccountRow DEF RequestState, Stage
    <3>7. req' = [req EXCEPT ![r] = new]
      BY <1>0, <2>0, <3>1, <3>2, <3>3, <3>5 DEF RequestInv, RequestState, Account
    <3>. QED  BY <1>2, <2>0, <3>4, <3>6, <3>7
  <2>. QED  BY <2>1, <2>2
<1>6. CASE Validate(r) \/ CheckOthers(r) \/ CheckNetwork(r) \/ CheckInvite(r) \/ CheckAddress(r)
  <2>1. PICK stage :
          /\ \/ q.pc = "validate" /\ stage = IF q.kind = "register" THEN "insert" ELSE "update"
             \/ q.pc = "checkOthers" /\ stage = "validate"
             \/ q.pc = "checkNetwork" /\ stage = "delete"
             \/ q.pc = "checkInvite" /\ stage = "checkAddress"
             \/ q.pc = "checkAddress" /\ stage = "addInvite"
          /\ Goto(r, stage) \/ Answer(r)
          /\ UNCHANGED tables
    BY <1>6 DEF Validate, CheckOthers, CheckNetwork, CheckInvite, CheckAddress, At, GotoIf
  <2>2. Fits([q EXCEPT !.pc = stage])
    BY <1>0, <2>1, NextPlace
  <2>. QED  BY <1>1, <2>1, <2>2, OnwardInv
<1>7. CASE FindUser(r)
  <2>. DEFINE t == q.target
  <2>0. q.pc = "findUser" /\ q.kind \in {"edit", "setActive", "delete"} /\ UNCHANGED tables
        /\ (q.kind = "edit" => q.row.email \in Email) /\ q.row \in Row
    BY <1>0, <1>7 DEF FindUser, At, Fits, KindAt, RowAt, RequestState
  <2>1. CASE t \notin DOMAIN users \/ (q.kind # "edit" /\ users[t].role = "super_admin")
    <3>1. Answer(r)
      BY <1>7, <2>1 DEF FindUser
    <3>. QED  BY <1>1, <2>0, <3>1, AnswerInv
  <2>2. CASE ~(t \notin DOMAIN users \/ (q.kind # "edit" /\ users[t].role = "super_admin"))
    <3>1. req' = [req EXCEPT ![r].row = Changed(q.kind, @, users[t]), ![r].pc = AfterLoad(q.kind)]
      BY <1>7, <2>2 DEF FindUser
    <3>2. users[t] \in Account
      BY <1>0, <2>2
    <3>3. PICK row : row = Changed(q.kind, q.row, users[t])
      OBVIOUS
    <3>4. /\ row \in Row
          /\ q.kind # "delete" => row \in Account /\ row.name = users[t].name
                                  /\ row.role = users[t].role
          /\ q.kind = "edit" => row.active = users[t].active
      BY <2>0, <3>2, <3>3, ChangedRow
    <3>5. PICK place : place = AfterLoad(q.kind)
      OBVIOUS
    <3>6. /\ place \in Stage
          /\ q.kind = "edit" => place = "checkOthers"
          /\ q.kind = "setActive" => place = "validate"
          /\ q.kind = "delete" => place = "checkNetwork"
      BY <2>0, <3>5 DEF AfterLoad, Stage
    <3>7. PICK new : new = [q EXCEPT !.row = row, !.pc = place]
      OBVIOUS
    <3>8. /\ new \in RequestState /\ new.pc = place /\ new.kind = q.kind
          /\ new.row = row /\ new.target = t /\ new.stale = q.stale
      BY <1>0, <3>4, <3>6, <3>7 DEF RequestState
    <3>9. req' = [req EXCEPT ![r] = new]
      BY <1>0, <3>1, <3>3, <3>5, <3>7 DEF RequestInv, RequestState
    <3>10. KindAt(new) /\ RowAt(new)
      BY <2>0, <3>4, <3>6, <3>8 DEF KindAt, RowAt
    <3>11. KnowsTarget(new)
      BY <2>0, <2>2, <3>4, <3>6, <3>8 DEF KnowsTarget, Editing, Deleting
    <3>. QED  BY <1>1, <2>0, <3>8, <3>9, <3>10, <3>11, OneRequest DEF Fits
  <2>. QED  BY <2>1, <2>2
<1>8. CASE RemoveInvite(r)
  <2>1. PICK T \in SUBSET DOMAIN invites :
          Answer(r) /\ users' = users /\ invites' = Restrict(invites, T)
    BY <1>8 DEF RemoveInvite, Without
  <2>2. DOMAIN invites' \subseteq InviteId /\ invites' \in [DOMAIN invites' -> Invitation]
    BY <1>0, <2>1, KeptType
  <2>. QED  BY <2>1, <2>2, AnswerInv
<1>9. CASE RemoveOld(r)
  <2>1. /\ users' = users /\ q.pc = "removeOld" /\ q.kind = "invite"
        /\ q.row.email \in Email /\ q.row.role \in Role
        /\ invites' = Restrict(invites, {i \in DOMAIN invites : invites[i].fresh})
    BY <1>0, <1>9 DEF RemoveOld, At, Fits, KindAt, RowAt
  <2>2. DOMAIN invites' \subseteq InviteId /\ invites' \in [DOMAIN invites' -> Invitation]
    BY <1>0, <2>1, KeptType
  <2>3. CASE Answer(r)
    BY <2>1, <2>2, <2>3, AnswerInv
  <2>4. CASE ~Answer(r)
    <3>1. PICK new : new = [q EXCEPT !.power = 0, !.pc = "checkInvite"]
      OBVIOUS
    <3>2. /\ new \in RequestState /\ new.pc = "checkInvite" /\ new.kind = "invite"
          /\ new.row = q.row
      BY <1>0, <2>1, <3>1 DEF RequestState, Stage
    <3>3. Fits(new)
      BY <2>1, <3>2 DEF Fits, KindAt, RowAt, KnowsTarget, Editing, Deleting
    <3>4. req' = [req EXCEPT ![r].power = 0, ![r].pc = "checkInvite"]
      BY <1>9, <2>4 DEF RemoveOld
    <3>5. req' = [req EXCEPT ![r] = new]
      BY <3>1, <3>4 DEF RequestInv
    <3>. QED  BY <2>1, <2>2, <3>3, <3>5, OneRequest
  <2>. QED  BY <2>3, <2>4
<1>10. CASE AddInvite(r)
  <2>0. /\ users' = users /\ q.pc = "addInvite" /\ q.kind = "invite"
        /\ q.row.email \in Email /\ q.row.role \in Role /\ q.row.owner \in User \cup {None}
    BY <1>0, <1>10 DEF AddInvite, At, Fits, KindAt, RowAt, RequestState, Row
  <2>1. CASE ~Stored(q.row.owner)
    <3>1. Answer(r) /\ UNCHANGED <<users, invites>>
      BY <1>10, <2>1 DEF AddInvite
    <3>. QED  BY <1>0, <3>1, AnswerInv
  <2>2. CASE Stored(q.row.owner)
    <3>0. PICK row : row = [email |-> q.row.email, role |-> q.row.role,
                            owner |-> q.row.owner, fresh |-> TRUE, mailed |-> FALSE]
      OBVIOUS
    <3>1. PICK i \in NewInvite :
            /\ invites' = Added(invites, i, row)
            /\ req' = [req EXCEPT ![r].invite = i, ![r].pc = "mail"]
      BY <1>10, <2>2, <3>0 DEF AddInvite
    <3>2. i \in InviteId
      BY DEF NewInvite
    <3>3. row \in Invitation
      BY <2>0, <3>0 DEF Invitation
    <3>4. DOMAIN invites' \subseteq InviteId /\ invites' \in [DOMAIN invites' -> Invitation]
      BY <1>0, <3>1, <3>2, <3>3, AddedType
    <3>5. PICK new : new = [q EXCEPT !.invite = i, !.pc = "mail"]
      OBVIOUS
    <3>6. new \in RequestState /\ new.pc = "mail" /\ new.kind = "invite"
      BY <1>0, <2>0, <3>2, <3>5 DEF RequestState, Stage
    <3>7. Fits(new)
      BY <3>6 DEF Fits, KindAt, RowAt, KnowsTarget, Editing, Deleting
    <3>8. req' = [req EXCEPT ![r] = new]
      BY <3>1, <3>5 DEF RequestInv
    <3>. QED  BY <2>0, <3>4, <3>7, <3>8, OneRequest
  <2>. QED  BY <2>1, <2>2
<1>11. CASE MailInvite(r)
  <2>1. users' = users /\ (Goto(r, "removeInvite") \/ Answer(r))
    BY <1>11 DEF MailInvite
  <2>2. DOMAIN invites' \subseteq InviteId /\ invites' \in [DOMAIN invites' -> Invitation]
    <3>1. \A i \in DOMAIN invites :
            [invites[i] EXCEPT !.mailed = @ \/ i = q.invite] \in Invitation
      BY <1>0 DEF Invitation
    <3>2. CASE invites' = [i \in DOMAIN invites |->
                             [invites[i] EXCEPT !.mailed = @ \/ i = q.invite]]
      BY <1>0, <3>1, <3>2
    <3>3. CASE UNCHANGED invites
      BY <1>0, <3>3
    <3>. QED  BY <1>11, <3>2, <3>3 DEF MailInvite
  <2>3. Fits([q EXCEPT !.pc = "removeInvite"])
    BY <1>0, NextPlace
  <2>. QED  BY <2>1, <2>2, <2>3, OnwardInv
<1>. QED  BY <1>3, <1>4, <1>5, <1>6, <1>7, <1>8, <1>9, <1>10, <1>11, WritesInv DEF Serve

LEMMA ExpireType ==
  ASSUME TablesOK, NEW i, Expire(i)
  PROVE  /\ DOMAIN invites' = DOMAIN invites /\ invites' \in [DOMAIN invites' -> Invitation]
         /\ \A k \in DOMAIN invites : /\ invites'[k].owner = invites[k].owner
                                      /\ invites'[k].mailed = invites[k].mailed
<1>1. invites \in [DOMAIN invites -> Invitation] /\ i \in DOMAIN invites
  BY DEF TablesOK, Expire, Usable
<1>2. [invites[i] EXCEPT !.fresh = FALSE] \in Invitation
  BY <1>1 DEF Invitation
<1>3. invites' = [invites EXCEPT ![i] = [invites[i] EXCEPT !.fresh = FALSE]]
  BY DEF Expire
<1>4. /\ [invites[i] EXCEPT !.fresh = FALSE].owner = invites[i].owner
      /\ [invites[i] EXCEPT !.fresh = FALSE].mailed = invites[i].mailed
  BY <1>1 DEF Invitation
<1>. QED  BY <1>1, <1>2, <1>3, <1>4

LEMMA InitInv == Init => RequestInv
<1>. SUFFICES ASSUME Init PROVE RequestInv
  OBVIOUS
<1>1. DOMAIN invites = {}
  BY DEF Init
<1>2. invites \in [DOMAIN invites -> Invitation]
  BY <1>1 DEF Init
<1>3. TablesOK
  BY <1>1, <1>2, AccountsAssumption DEF Init, TablesOK
<1>4. req \in [Request -> RequestState] /\ \A r \in Request : Fits(req[r])
  BY IdleFits DEF Init, Fits
<1>. QED  BY <1>3, <1>4 DEF RequestInv

LEMMA NextInv == RequestInv /\ [Next]_vars => RequestInv'
<1>. SUFFICES ASSUME RequestInv, [Next]_vars PROVE RequestInv'
  OBVIOUS
<1>1. CASE UNCHANGED vars
  BY <1>1 DEF vars, tables, RequestInv, TablesOK, Fits, KindAt, RowAt, KnowsTarget,
              Editing, Deleting
<1>2. ASSUME NEW i, Expire(i) PROVE RequestInv'
  <2>1. users' = users /\ req' = req
    BY <1>2 DEF Expire
  <2>2. TablesOK'
    BY <1>2, <2>1, ExpireType DEF RequestInv, TablesOK
  <2>. QED  BY <2>1, <2>2 DEF RequestInv, Fits, KindAt, RowAt, KnowsTarget, Editing, Deleting
<1>. QED  BY <1>1, <1>2, ArriveInv, ServeInv DEF Next

(* Every row has its type under an id it knows, whatever requests overlap. *)
THEOREM TypeCorrect == Spec => []TypeOK
<1>1. RequestInv => TypeOK
  BY DEF RequestInv, TablesOK, TypeOK, Fits, RowAt
<1>. QED  BY InitInv, NextInv, <1>1, PTL DEF Spec

-----------------------------------------------------------------------------
(***************************************************************************)
(* What a step does to the accounts and to the owners of invitations.      *)
(***************************************************************************)
UsersStep ==
    \/ UNCHANGED users
    \/ \E u \in User, row \in Account : Inserts(u, row)
    \/ \E r \in Request : Updates(req[r].target, req[r])
    \/ \E u : Deletes(u)

LEMMA UsersSteps ==
  ASSUME RequestInv, [Next]_vars
  PROVE  UsersStep
<1>1. CASE UNCHANGED vars
  BY <1>1 DEF vars, tables, UsersStep
<1>2. ASSUME NEW i, Expire(i) PROVE UsersStep
  BY <1>2 DEF Expire, UsersStep
<1>3. ASSUME NEW r \in Request, Arrive(r) PROVE UsersStep
  <2>1. UNCHANGED users
    BY <1>3 DEF Arrive, Register, SetInvite, Put, SetActive, ChangeCredentials, PutProfile,
                Delete, BeginFor, Begin, tables
  <2>. QED  BY <2>1 DEF UsersStep
<1>4. ASSUME NEW r \in Request, InsertUser(r) \/ UpdateUser(r) \/ DeleteUser(r) PROVE UsersStep
  <2>1. CASE InsertUser(r)
    BY <2>1, InsertChanges DEF UsersStep, tables
  <2>2. CASE UpdateUser(r)
    BY <2>2, UpdateChanges DEF UsersStep
  <2>3. CASE DeleteUser(r)
    BY <2>3, DeleteChanges DEF UsersStep, tables
  <2>. QED  BY <1>4, <2>1, <2>2, <2>3
<1>5. ASSUME NEW r \in Request, Serve(r), ~(InsertUser(r) \/ UpdateUser(r) \/ DeleteUser(r))
      PROVE  UsersStep
  <2>1. UNCHANGED users
    BY <1>5 DEF Serve, FindDealer, GetInvite, FindSender, Validate, RemoveInvite, FindUser,
                CheckOthers, CheckNetwork, RemoveOld, CheckInvite, CheckAddress, AddInvite,
                MailInvite, tables
  <2>. QED  BY <2>1 DEF UsersStep
<1>. QED  BY <1>1, <1>2, <1>3, <1>4, <1>5 DEF Next

(* The accounts, one by one.                                               *)
LEMMA AccountSteps ==
  ASSUME RequestInv, UsersStep
  PROVE  \A u \in DOMAIN users :
           \/ u \in DOMAIN users' /\ users'[u] = users[u]
           \/ \E r \in Request : Updates(u, req[r]) /\ u \in DOMAIN users' /\ users'[u] = req[r].row
           \/ Deletes(u) /\ u \notin DOMAIN users'
<1>. SUFFICES ASSUME NEW u \in DOMAIN users
              PROVE  \/ u \in DOMAIN users' /\ users'[u] = users[u]
                     \/ \E r \in Request : /\ Updates(u, req[r]) /\ u \in DOMAIN users'
                                           /\ users'[u] = req[r].row
                     \/ Deletes(u) /\ u \notin DOMAIN users'
  OBVIOUS
<1>0. users \in [DOMAIN users -> Account]
  BY DEF RequestInv, TablesOK
<1>1. CASE UNCHANGED users
  BY <1>1
<1>2. ASSUME NEW v, NEW row, Inserts(v, row)
      PROVE  u \in DOMAIN users' /\ users'[u] = users[u]
  <2>1. users' = Added(users, v, row) /\ u # v
    BY <1>2 DEF Inserts
  <2>. QED  BY <2>1 DEF Added
<1>3. ASSUME NEW r \in Request, Updates(req[r].target, req[r])
      PROVE  \/ u \in DOMAIN users' /\ users'[u] = users[u]
             \/ Updates(u, req[r]) /\ u \in DOMAIN users' /\ users'[u] = req[r].row
  <2>1. users' = [users EXCEPT ![req[r].target] = req[r].row]
    BY <1>3 DEF Updates
  <2>. QED  BY <1>0, <1>3, <2>1
<1>4. ASSUME NEW v, Deletes(v)
      PROVE  \/ u \in DOMAIN users' /\ users'[u] = users[u]
             \/ Deletes(u) /\ u \notin DOMAIN users'
  <2>1. users' = Restrict(users, DOMAIN users \ {v})
    BY <1>4 DEF Deletes, Without
  <2>2. DOMAIN users' = DOMAIN users \ {v} /\ \A k \in DOMAIN users \ {v} : users'[k] = users[k]
    BY <2>1, KeptRows
  <2>. QED  BY <1>4, <2>2
<1>. QED  BY <1>1, <1>2, <1>3, <1>4 DEF UsersStep

(* An account is activated or deactivated by SetActive only, whatever      *)
(* edits, deletions and registrations it overlaps (UsersController.cs).    *)
THEOREM ActivationCorrect == Spec => ActivationKept
<1>1. ASSUME RequestInv, [Next]_vars
      PROVE  [\A u \in DOMAIN users \cap DOMAIN users' :
                users'[u].active # users[u].active =>
                    \E r \in Request :
                        At(r, "update") /\ req[r].kind = "setActive" /\ req[r].target = u]_vars
  <2>1. ASSUME NEW u \in DOMAIN users \cap DOMAIN users', users'[u].active # users[u].active
        PROVE  \E r \in Request :
                 At(r, "update") /\ req[r].kind = "setActive" /\ req[r].target = u
    <3>1. PICK r \in Request : Updates(u, req[r]) /\ users'[u] = req[r].row
      BY <1>1, <2>1, UsersSteps, AccountSteps
    <3>2. At(r, "update") /\ req[r].kind = "setActive" /\ req[r].target = u
      BY <2>1, <3>1 DEF Updates, At
    <3>. QED  BY <3>2
  <2>. QED  BY <2>1
<1>. QED  BY InitInv, NextInv, <1>1, PTL DEF Spec, ActivationKept

(* No request changes the login or the role of an account: the role is the *)
(* invitation's for good (UsersController.cs:153-178, 440-447).            *)
IdentityKept ==
    [][\A u \in DOMAIN users \cap DOMAIN users' :
         users'[u].name = users[u].name /\ users'[u].role = users[u].role]_vars

(* Neither a login nor a role changes, for any requests and accounts.      *)
THEOREM IdentityCorrect == Spec => IdentityKept
<1>1. ASSUME RequestInv, [Next]_vars
      PROVE  [\A u \in DOMAIN users \cap DOMAIN users' :
                users'[u].name = users[u].name /\ users'[u].role = users[u].role]_vars
  BY <1>1, UsersSteps, AccountSteps DEF Updates
<1>. QED  BY InitInv, NextInv, <1>1, PTL DEF Spec, IdentityKept

(* A super administrator is neither deleted nor deactivated, by any two    *)
(* requests together either: the refusal looks at the role that was read   *)
(* (UsersController.cs:440-447, 494-498).                                  *)
AdministratorsStay ==
    [][\A u \in DOMAIN users : users[u].role = "super_admin" =>
         u \in DOMAIN users' /\ users'[u].active = users[u].active]_vars

(* Neither SetActive nor Delete reaches a super administrator, although    *)
(* each writes in a later transaction than the one it has read in.         *)
THEOREM AdministratorsCorrect == Spec => AdministratorsStay
<1>1. ASSUME RequestInv, [Next]_vars
      PROVE  [\A u \in DOMAIN users : users[u].role = "super_admin" =>
                u \in DOMAIN users' /\ users'[u].active = users[u].active]_vars
  BY <1>1, UsersSteps, AccountSteps DEF Updates, Deletes
<1>. QED  BY InitInv, NextInv, <1>1, PTL DEF Spec, AdministratorsStay

(* No two accounts share a login, however registrations overlap: the index *)
(* refuses the second, and no edit renames (Register, AccountController.cs *)
(* 293-294).                                                               *)
LoginsUnique == \A u, v \in DOMAIN users : users[u].name = users[v].name => u = v

LEMMA LoginsStep == RequestInv /\ LoginsUnique /\ [Next]_vars => LoginsUnique'
<1>. SUFFICES ASSUME RequestInv, LoginsUnique, [Next]_vars PROVE LoginsUnique'
  OBVIOUS
<1>0. UsersStep
  BY UsersSteps
<1>1. ASSUME NEW u, NEW row, Inserts(u, row) PROVE LoginsUnique'
  <2>1. /\ users' = Added(users, u, row) /\ u \notin DOMAIN users
        /\ \A v \in DOMAIN users : users[v].name # row.name
    BY <1>1 DEF Inserts, WithName
  <2>2. /\ DOMAIN users' = DOMAIN users \cup {u} /\ users'[u] = row
        /\ \A v \in DOMAIN users : users'[v] = users[v]
    BY <2>1 DEF Added
  <2>. QED  BY <2>1, <2>2 DEF LoginsUnique
<1>2. ASSUME DOMAIN users' \subseteq DOMAIN users,
             \A u \in DOMAIN users' : users'[u].name = users[u].name
      PROVE  LoginsUnique'
  BY <1>2 DEF LoginsUnique
<1>3. ASSUME NEW r \in Request, Updates(req[r].target, req[r]) PROVE LoginsUnique'
  <2>1. DOMAIN users' = DOMAIN users
    BY <1>3 DEF Updates
  <2>2. \A u \in DOMAIN users' : users'[u].name = users[u].name
    BY <1>0, <2>1, AccountSteps DEF Updates, Deletes
  <2>. QED  BY <1>2, <2>1, <2>2
<1>4. ASSUME NEW v, Deletes(v) PROVE LoginsUnique'
  <2>1. users' = Restrict(users, DOMAIN users \ {v})
    BY <1>4 DEF Deletes, Without
  <2>2. DOMAIN users' = DOMAIN users \ {v} /\ \A k \in DOMAIN users \ {v} : users'[k] = users[k]
    BY <2>1, KeptRows
  <2>. QED  BY <1>2, <2>2
<1>. QED  BY <1>0, <1>1, <1>2, <1>3, <1>4 DEF UsersStep, LoginsUnique

(* Logins stay unique for any number of registrations that overlap.        *)
THEOREM LoginsCorrect == Spec => []LoginsUnique
<1>1. Init => LoginsUnique
  BY AccountsAssumption DEF Init, LoginsUnique
<1>. QED  BY InitInv, NextInv, LoginsStep, <1>1, PTL DEF Spec

-----------------------------------------------------------------------------
(***************************************************************************)
(* Owners.  A row is written under the foreign key, and an account goes    *)
(* only when no account is owned by it, with the invitations it owns.      *)
(***************************************************************************)
(* What a step does to the owners of the invitations, when it deletes no   *)
(* account.                                                                *)
InviteOwners ==
    \A i \in DOMAIN invites' :
        \/ i \in DOMAIN invites /\ invites'[i].owner = invites[i].owner
        \/ Stored(invites'[i].owner)

LEMMA InviteSteps ==
  ASSUME RequestInv, [Next]_vars
  PROVE  InviteOwners \/ \E u : Deletes(u)
<1>0. invites \in [DOMAIN invites -> Invitation] /\ TablesOK
  BY DEF RequestInv, TablesOK
<1>1. ASSUME UNCHANGED invites PROVE InviteOwners
  BY <1>1 DEF InviteOwners
<1>2. ASSUME NEW T \in SUBSET DOMAIN invites, invites' = Restrict(invites, T)
      PROVE  InviteOwners
  <2>1. DOMAIN invites' = T /\ \A i \in T : invites'[i] = invites[i]
    BY <1>2, KeptRows
  <2>. QED  BY <2>1 DEF InviteOwners
<1>3. CASE UNCHANGED vars
  BY <1>1, <1>3 DEF vars, tables
<1>4. ASSUME NEW i, Expire(i) PROVE InviteOwners
  BY <1>0, <1>4, ExpireType DEF InviteOwners
<1>5. ASSUME NEW r \in Request, Arrive(r) PROVE InviteOwners
  <2>1. UNCHANGED invites
    BY <1>5 DEF Arrive, Register, SetInvite, Put, SetActive, ChangeCredentials, PutProfile,
                Delete, BeginFor, Begin, tables
  <2>. QED  BY <1>1, <2>1
<1>6. ASSUME NEW r \in Request, DeleteUser(r) PROVE InviteOwners \/ \E u : Deletes(u)
  BY <1>1, <1>6, DeleteChanges DEF tables
<1>7. ASSUME NEW r \in Request, RemoveInvite(r) \/ RemoveOld(r) PROVE InviteOwners
  <2>1. CASE RemoveInvite(r)
    <3>1. invites' = Restrict(invites, DOMAIN invites \ {req[r].invite})
      BY <2>1 DEF RemoveInvite, Without
    <3>. QED  BY <1>2, <3>1
  <2>2. CASE RemoveOld(r)
    <3>1. invites' = Restrict(invites, {i \in DOMAIN invites : invites[i].fresh})
      BY <2>2 DEF RemoveOld
    <3>. QED  BY <1>2, <3>1
  <2>. QED  BY <1>7, <2>1, <2>2
<1>8. ASSUME NEW r \in Request, AddInvite(r) PROVE InviteOwners
  <2>1. CASE Stored(req[r].row.owner)
    <3>0. PICK row : row = [email |-> req[r].row.email, role |-> req[r].row.role,
                            owner |-> req[r].row.owner, fresh |-> TRUE, mailed |-> FALSE]
      OBVIOUS
    <3>1. PICK i : invites' = Added(invites, i, row)
      BY <1>8, <2>1, <3>0 DEF AddInvite
    <3>2. /\ DOMAIN invites' = DOMAIN invites \cup {i} /\ invites'[i] = row
          /\ \A k \in DOMAIN invites : k # i => invites'[k] = invites[k]
      BY <3>1 DEF Added
    <3>. QED  BY <2>1, <3>0, <3>2 DEF InviteOwners
  <2>2. CASE ~Stored(req[r].row.owner)
    BY <1>1, <1>8, <2>2 DEF AddInvite
  <2>. QED  BY <2>1, <2>2
<1>9. ASSUME NEW r \in Request, MailInvite(r) PROVE InviteOwners
  <2>1. CASE invites' = [i \in DOMAIN invites |->
                           [invites[i] EXCEPT !.mailed = @ \/ i = req[r].invite]]
    <3>1. \A i \in DOMAIN invites :
            [invites[i] EXCEPT !.mailed = @ \/ i = req[r].invite].owner = invites[i].owner
      BY <1>0 DEF Invitation
    <3>. QED  BY <2>1, <3>1 DEF InviteOwners
  <2>. QED  BY <1>1, <1>9, <2>1 DEF MailInvite
<1>10. ASSUME NEW r \in Request, Serve(r), ~DeleteUser(r), ~RemoveInvite(r), ~RemoveOld(r),
              ~AddInvite(r), ~MailInvite(r)
       PROVE  InviteOwners
  <2>1. UNCHANGED invites
    BY <1>10 DEF Serve, FindDealer, GetInvite, FindSender, Validate, InsertUser, FindUser,
                 CheckOthers, UpdateUser, CheckNetwork, CheckInvite, CheckAddress, tables
  <2>. QED  BY <1>1, <2>1
<1>. QED  BY <1>3, <1>4, <1>5, <1>6, <1>7, <1>8, <1>9, <1>10 DEF Next

LEMMA OwnersStep == RequestInv /\ OwnersExist /\ [Next]_vars => OwnersExist'
<1>. SUFFICES ASSUME RequestInv, OwnersExist, [Next]_vars PROVE OwnersExist'
  OBVIOUS
<1>0. /\ UsersStep /\ TablesOK /\ users \in [DOMAIN users -> Account]
      /\ InviteOwners \/ \E u : Deletes(u)
  BY UsersSteps, InviteSteps DEF RequestInv, TablesOK
<1>1. ASSUME NEW u, Deletes(u) PROVE OwnersExist'
  <2>1. /\ users' = Restrict(users, DOMAIN users \ {u}) /\ OwnedBy(u) = {}
        /\ invites' = Restrict(invites, {i \in DOMAIN invites : invites[i].owner # u})
    BY <1>1 DEF Deletes, Without
  <2>2. DOMAIN users' = DOMAIN users \ {u} /\ \A k \in DOMAIN users' : users'[k] = users[k]
    BY <2>1, KeptRows
  <2>3. \A i \in DOMAIN invites' :
          i \in DOMAIN invites /\ invites'[i] = invites[i] /\ invites[i].owner # u
    BY <2>1, KeptRows
  <2>4. \A k \in DOMAIN users : users[k].owner # u
    BY <2>1 DEF OwnedBy
  <2>. QED  BY <2>2, <2>3, <2>4 DEF OwnersExist, Stored
<1>2. ASSUME InviteOwners, DOMAIN users \subseteq DOMAIN users',
             \A u \in DOMAIN users' : \/ u \in DOMAIN users /\ users'[u].owner = users[u].owner
                                      \/ Stored(users'[u].owner)
      PROVE  OwnersExist'
  BY <1>2 DEF OwnersExist, Stored, InviteOwners
<1>3. CASE InviteOwners /\ UNCHANGED users
  BY <1>2, <1>3
<1>4. ASSUME InviteOwners, NEW u, NEW row, Inserts(u, row) PROVE OwnersExist'
  <2>1. users' = Added(users, u, row) /\ Stored(row.owner)
    BY <1>4 DEF Inserts
  <2>2. /\ DOMAIN users' = DOMAIN users \cup {u} /\ users'[u] = row
        /\ \A v \in DOMAIN users : v # u => users'[v] = users[v]
    BY <2>1 DEF Added
  <2>. QED  BY <1>2, <1>4, <2>1, <2>2
<1>5. ASSUME InviteOwners, NEW u, NEW q, Updates(u, q) PROVE OwnersExist'
  <2>1. /\ DOMAIN users' = DOMAIN users
        /\ \A v \in DOMAIN users : users'[v] = IF v = u THEN q.row ELSE users[v]
        /\ Stored(q.row.owner)
    BY <1>0, <1>5 DEF Updates
  <2>. QED  BY <1>2, <1>5, <2>1
<1>. QED  BY <1>0, <1>1, <1>3, <1>4, <1>5 DEF UsersStep

(* Every owner is an account, whatever is deleted between the reading of   *)
(* an owner and the writing of its id (UsersController.cs:500-519).        *)
THEOREM OwnersCorrect == Spec => []OwnersExist
<1>1. Init => OwnersExist
  <2>. SUFFICES ASSUME Init PROVE OwnersExist
    OBVIOUS
  <2>1. DOMAIN invites = {}
    BY DEF Init
  <2>2. \A u \in DOMAIN users : users[u].owner = None
    BY AccountsAssumption DEF Init
  <2>. QED  BY <2>1, <2>2 DEF OwnersExist, Stored
<1>. QED  BY InitInv, NextInv, OwnersStep, <1>1, PTL DEF Spec

-----------------------------------------------------------------------------
(***************************************************************************)
(* Mails.  An invitation whose mail is not out is held by the request that *)
(* made it, at a place where it is mailed or taken back; registrations     *)
(* name invitations too, and let go of them at any time.                   *)
(***************************************************************************)
Sends(q, i) == q.kind = "invite" /\ q.pc \in {"mail", "removeInvite"} /\ q.invite = i

MailInv ==
    \A i \in DOMAIN invites : invites[i].mailed \/ \E r \in Request : Sends(req[r], i)

(* Nobody lets go of an invitation, and none comes.                        *)
LEMMA MailKept ==
  ASSUME MailInv,
         \A i \in DOMAIN invites' :
            i \in DOMAIN invites /\ (invites[i].mailed => invites'[i].mailed),
         \A r \in Request, i \in DOMAIN invites' : Sends(req[r], i) => Sends(req'[r], i)
  PROVE  MailInv'
<1>1. ASSUME NEW i \in DOMAIN invites', ~invites'[i].mailed
      PROVE  \E r \in Request : Sends(req'[r], i)
  <2>1. PICK r \in Request : Sends(req[r], i)
    BY <1>1 DEF MailInv
  <2>. QED  BY <2>1
<1>2. ASSUME NEW r \in Request, NEW i, Sends(req'[r], i) PROVE Sends(req[r], i)'
  BY <1>2 DEF Sends
<1>. QED  BY <1>1 DEF MailInv, Sends

LEMMA MailStep == RequestInv /\ MailInv /\ [Next]_vars => MailInv'
<1>. SUFFICES ASSUME RequestInv, MailInv, [Next]_vars PROVE MailInv'
  OBVIOUS
<1>0. /\ invites \in [DOMAIN invites -> Invitation] /\ TablesOK
      /\ req \in [Request -> RequestState]
      /\ \A r \in Request : KindAt(req[r])
  BY DEF RequestInv, TablesOK, Fits
(* The others keep their places.                                           *)
<1>1. ASSUME NEW r \in Request,
             \/ \E new : req' = [req EXCEPT ![r] = new]
             \/ \E u : AnswerTouching(r, u)
      PROVE  \A s \in Request \ {r} : \A i : Sends(req[s], i) => Sends(req'[s], i)
  <2>1. ASSUME NEW s \in Request \ {r}
        PROVE  req'[s].kind = req[s].kind /\ req'[s].pc = req[s].pc
               /\ req'[s].invite = req[s].invite
    <3>1. CASE \E new : req' = [req EXCEPT ![r] = new]
      BY <1>0, <3>1
    <3>2. CASE \E u : AnswerTouching(r, u)
      <4>1. PICK u : AnswerTouching(r, u)
        BY <3>2
      <4>2. req'[s] = [req[s] EXCEPT !.stale = @ \/ (req[s].target = u /\ ~At(s, "findUser"))]
        BY <4>1 DEF AnswerTouching
      <4>3. req[s] \in RequestState
        BY <1>0
      <4>. QED  BY <4>2, <4>3 DEF RequestState
    <3>. QED  BY <1>1, <3>1, <3>2
  <2>. QED  BY <2>1 DEF Sends
<1>2. ASSUME NEW T \in SUBSET DOMAIN invites, invites' = Restrict(invites, T)
      PROVE  \A i \in DOMAIN invites' :
               i \in T /\ i \in DOMAIN invites /\ (invites[i].mailed => invites'[i].mailed)
  BY <1>2, KeptRows
(* A request that sends nothing may do as it likes with the invitations,   *)
(* except add one.                                                         *)
<1>3. ASSUME NEW r \in Request, \A i : ~Sends(req[r], i),
             (\E new : req' = [req EXCEPT ![r] = new]) \/ (\E u : AnswerTouching(r, u)),
             \A i \in DOMAIN invites' :
               i \in DOMAIN invites /\ (invites[i].mailed => invites'[i].mailed)
      PROVE  MailInv'
  <2>1. \A s \in Request, i \in DOMAIN invites' : Sends(req[s], i) => Sends(req'[s], i)
    BY <1>1, <1>3
  <2>. QED  BY <1>3, <2>1, MailKept
<1>4. CASE UNCHANGED vars
  BY <1>4, MailKept DEF vars, tables
<1>5. ASSUME NEW i, Expire(i) PROVE MailInv'
  <2>1. req' = req
    BY <1>5 DEF Expire
  <2>. QED  BY <1>0, <1>5, <2>1, ExpireType, MailKept
<1>6. ASSUME NEW r \in Request, Arrive(r) PROVE MailInv'
  <2>1. PICK new : At(r, "idle") /\ req' = [req EXCEPT ![r] = new] /\ UNCHANGED tables
    BY <1>6 DEF Arrive, Register, SetInvite, Put, SetActive, ChangeCredentials, PutProfile,
                Delete, BeginFor, Begin
  <2>. QED  BY <1>3, <2>1 DEF At, Sends, tables
<1>7. ASSUME NEW r \in Request, AddInvite(r) PROVE MailInv'
  <2>1. At(r, "addInvite") /\ \A i : ~Sends(req[r], i)
    BY <1>7 DEF AddInvite, At, Sends
  <2>2. CASE ~Stored(req[r].row.owner)
    BY <1>3, <1>7, <2>1, <2>2 DEF AddInvite, Answer
  <2>3. CASE Stored(req[r].row.owner)
    <3>1. PICK i, row : /\ invites' = Added(invites, i, row)
                        /\ req' = [req EXCEPT ![r].invite = i, ![r].pc = "mail"]
      BY <1>7, <2>3 DEF AddInvite
    <3>2. /\ DOMAIN invites' = DOMAIN invites \cup {i}
          /\ \A k \in DOMAIN invites : k # i => invites'[k] = invites[k]
      BY <3>1 DEF Added
    <3>3. req[r].kind = "invite" /\ req[r] \in RequestState
      BY <1>0, <2>1 DEF KindAt, At
    <3>4. Sends(req'[r], i)
      BY <1>0, <3>1, <3>3 DEF Sends, RequestState
    <3>5. \E new : req' = [req EXCEPT ![r] = new]
      BY <3>1
    <3>6. \A s \in Request \ {r} : \A k : Sends(req[s], k) => Sends(req'[s], k)
      BY <1>1, <3>5
    <3>7. ASSUME NEW k \in DOMAIN invites', ~invites'[k].mailed
          PROVE  \E s \in Request : Sends(req'[s], k)
      <4>1. CASE k = i
        BY <3>4, <4>1
      <4>2. CASE k # i
        <5>1. PICK s \in Request : Sends(req[s], k)
          BY <3>2, <3>7, <4>2 DEF MailInv
        <5>. QED  BY <2>1, <3>6, <5>1
      <4>. QED  BY <4>1, <4>2
    <3>. QED  BY <3>7 DEF MailInv, Sends
  <2>. QED  BY <2>2, <2>3
<1>8. ASSUME NEW r \in Request, MailInvite(r) PROVE MailInv'
  <2>1. req[r].kind = "invite" /\ req[r].pc = "mail" /\ req[r] \in RequestState
    BY <1>0, <1>8 DEF MailInvite, At, KindAt
  <2>2. CASE invites' = [i \in DOMAIN invites |->
                           [invites[i] EXCEPT !.mailed = @ \/ i = req[r].invite]] /\ Answer(r)
    <3>1. DOMAIN invites' = DOMAIN invites
      BY <2>2
    <3>2. \A i \in DOMAIN invites : invites'[i].mailed = (invites[i].mailed \/ i = req[r].invite)
      BY <1>0, <2>2 DEF Invitation
    <3>3. \E new : req' = [req EXCEPT ![r] = new]
      BY <2>2 DEF Answer
    <3>4. \A s \in Request \ {r} : \A i : Sends(req[s], i) => Sends(req'[s], i)
      BY <1>1, <3>3
    <3>5. ASSUME NEW k \in DOMAIN invites', ~invites'[k].mailed
          PROVE  \E s \in Request : Sends(req'[s], k)
      <4>1. PICK s \in Request : Sends(req[s], k)
        BY <3>1, <3>2, <3>5 DEF MailInv
      <4>2. s # r
        BY <3>1, <3>2, <3>5, <4>1 DEF Sends
      <4>. QED  BY <3>4, <4>1, <4>2
    <3>. QED  BY <3>5 DEF MailInv, Sends
  <2>3. CASE UNCHANGED invites /\ Goto(r, "removeInvite")
    <3>1. req' = [req EXCEPT ![r].pc = "removeInvite"]
      BY <2>3 DEF Goto
    <3>2. \A i : Sends(req[r], i) => Sends(req'[r], i)
      BY <1>0, <2>1, <3>1 DEF Sends, RequestState
    <3>3. \E new : req' = [req EXCEPT ![r] = new]
      BY <3>1
    <3>4. \A s \in Request, i \in DOMAIN invites' : Sends(req[s], i) => Sends(req'[s], i)
      BY <1>1, <3>2, <3>3
    <3>. QED  BY <2>3, <3>4, MailKept
  <2>. QED  BY <1>8, <2>2, <2>3 DEF MailInvite
<1>9. ASSUME NEW r \in Request, RemoveInvite(r) PROVE MailInv'
  <2>1. /\ invites' = Restrict(invites, DOMAIN invites \ {req[r].invite})
        /\ \E new : req' = [req EXCEPT ![r] = new]
    BY <1>9 DEF RemoveInvite, Without, Answer
  <2>2. \A i \in DOMAIN invites' : /\ i # req[r].invite /\ i \in DOMAIN invites
                                   /\ invites[i].mailed => invites'[i].mailed
    BY <1>2, <2>1
  <2>3. \A s \in Request, i \in DOMAIN invites' : Sends(req[s], i) => Sends(req'[s], i)
    BY <1>1, <2>1, <2>2 DEF Sends
  <2>. QED  BY <2>2, <2>3, MailKept
<1>10. ASSUME NEW r \in Request, RemoveOld(r) PROVE MailInv'
  <2>1. /\ invites' = Restrict(invites, {i \in DOMAIN invites : invites[i].fresh})
        /\ \A i : ~Sends(req[r], i)
    BY <1>10 DEF RemoveOld, At, Sends
  <2>2. \E new : req' = [req EXCEPT ![r] = new]
    BY <1>10 DEF RemoveOld, Answer
  <2>3. \A i \in DOMAIN invites' :
          i \in DOMAIN invites /\ (invites[i].mailed => invites'[i].mailed)
    BY <1>2, <2>1
  <2>. QED  BY <1>3, <2>1, <2>2, <2>3
<1>11. ASSUME NEW r \in Request, DeleteUser(r) PROVE MailInv'
  <2>1. \A i : ~Sends(req[r], i)
    BY <1>11 DEF DeleteUser, At, Sends
  <2>2. CASE UNCHANGED tables /\ Answer(r)
    BY <1>3, <2>1, <2>2 DEF tables, Answer
  <2>3. CASE Deletes(req[r].target) /\ AnswerTouching(r, req[r].target)
    <3>1. invites' = Restrict(invites,
                       {i \in DOMAIN invites : invites[i].owner # req[r].target})
      BY <2>3 DEF Deletes
    <3>2. \A i \in DOMAIN invites' :
            i \in DOMAIN invites /\ (invites[i].mailed => invites'[i].mailed)
      BY <1>2, <3>1
    <3>. QED  BY <1>3, <2>1, <2>3, <3>2
  <2>. QED  BY <1>11, <2>2, <2>3, DeleteChanges
<1>12. ASSUME NEW r \in Request, InsertUser(r) \/ UpdateUser(r) PROVE MailInv'
  <2>1. /\ UNCHANGED invites /\ \A i : ~Sends(req[r], i)
        /\ (\E new : req' = [req EXCEPT ![r] = new]) \/ (\E u : AnswerTouching(r, u))
    BY <1>12 DEF InsertUser, UpdateUser, At, Sends, GotoIf, Goto, Answer
  <2>. QED  BY <1>3, <2>1
<1>13. ASSUME NEW r \in Request, \/ FindDealer(r) \/ GetInvite(r) \/ FindSender(r)
                                 \/ Validate(r) \/ FindUser(r) \/ CheckOthers(r)
                                 \/ CheckNetwork(r) \/ CheckInvite(r) \/ CheckAddress(r)
       PROVE  MailInv'
  <2>1. UNCHANGED invites /\ \A i : ~Sends(req[r], i)
    BY <1>13 DEF FindDealer, GetInvite, FindSender, Validate, FindUser, CheckOthers,
                 CheckNetwork, CheckInvite, CheckAddress, At, Sends, tables
  <2>2. \E new : req' = [req EXCEPT ![r] = new]
    BY <1>13 DEF FindDealer, GetInvite, FindSender, Validate, FindUser, CheckOthers,
                 CheckNetwork, CheckInvite, CheckAddress, GotoIf, Goto, Answer
  <2>. QED  BY <1>3, <2>1, <2>2
<1>. QED  BY <1>4, <1>5, <1>6, <1>7, <1>8, <1>9, <1>10, <1>11, <1>12, <1>13 DEF Next, Serve

(* An invitation that nobody is working on has been sent: a failed mail    *)
(* leaves none behind (AccountController.cs:558-587).                      *)
THEOREM MailedCorrect == Spec => []InvitesMailed
<1>1. Init => MailInv
  <2>. SUFFICES ASSUME Init PROVE MailInv
    OBVIOUS
  <2>1. DOMAIN invites = {}
    BY DEF Init
  <2>. QED  BY <2>1 DEF MailInv
<1>2. MailInv => InvitesMailed
  BY DEF MailInv, InvitesMailed, Sends
<1>. QED  BY InitInv, NextInv, MailStep, <1>1, <1>2, PTL DEF Spec
=============================================================================
