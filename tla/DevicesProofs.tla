--------------------------- MODULE DevicesProofs ---------------------------
(* Theorems about Devices, for any number of requests, machines and owners.*)
EXTENDS Devices, TLAPS

(* The bounds are numbers.                                                 *)
Bounds == MaxDevices \in Nat /\ MaxFaults \in Nat

Row == [imei : Imei, owner : Owner, address : Address]

Resting == [pc : {"idle"}]
Editing == [pc : {"edit"}, id : Id, row : Row]
Passing == [pc : {"remove", "report"}, id : Id]
Assigning == [pc : {"assign"}, id : Id, owner : Owner]
Answering == [pc : {"assigned"}, id : Id, done : BOOLEAN, fails : BOOLEAN]

RequestState == Resting \cup Editing \cup Passing \cup Assigning \cup Answering

(* Requests are about machines that have been added.                       *)
Shapes ==
    /\ users \in SUBSET Owner /\ rows \in SUBSET Known /\ contested \in SUBSET Id
    /\ Known \subseteq 1 .. added
    /\ \A id \in Known : devices[id] \in Row /\ devices[id].owner \in users
    /\ req \in [Request -> RequestState]
    /\ \A r \in Request : ~At(r, "idle") => req[r].id \in 1 .. added
    /\ added \in 0 .. MaxDevices /\ faults \in 0 .. MaxFaults
    /\ assigned \in [Id -> Owner \cup {"none"}] /\ named \in [Id -> Address]

LEMMA InitShapes == Bounds /\ Init => Shapes
<1>. SUFFICES ASSUME Bounds, Init PROVE Shapes
  OBVIOUS
<1>1. Known = {}
  BY DEF Init, Known
<1>2. Idle \in RequestState /\ Idle.pc = "idle"
  BY DEF Idle, RequestState, Resting
<1>3. assigned \in [Id -> Owner \cup {"none"}] /\ named \in [Id -> Address]
  BY DEF Init, Address
<1>. QED  BY <1>1, <1>2, <1>3 DEF Init, Shapes, Bounds, At

(* A step that moves one request and leaves the tables alone.              *)
LEMMA MoveShapes ==
  ASSUME Shapes, NEW r \in Request, NEW q \in RequestState,
         q.pc # "idle" => q.id \in 1 .. added,
         req' = [req EXCEPT ![r] = q], tables' = tables, history' = history, added' = added,
         faults' \in 0 .. MaxFaults
  PROVE  Shapes'
  BY DEF Shapes, tables, history, At, Known

(* A step that ends one request and changes rows of machines.              *)
LEMMA EndShapes ==
  ASSUME Bounds, Shapes, NEW r \in Request, End(r)
  PROVE  /\ req' \in [Request -> RequestState]
         /\ \A s \in Request : req'[s].pc # "idle" => req[s].pc # "idle" /\ req'[s] = req[s]
  BY DEF Shapes, End, Idle, RequestState, Resting, At

LEMMA FailsShapes == Bounds /\ Shapes /\ Fails => faults' \in 0 .. MaxFaults
  BY DEF Bounds, Shapes, Fails

LEMMA WithTable ==
  ASSUME NEW id, NEW row
  PROVE  /\ DOMAIN With(devices, id, row) = Known \cup {id}
         /\ With(devices, id, row)[id] = row
         /\ \A i \in Known \ {id} : With(devices, id, row)[i] = devices[i]
  BY DEF With, Known

LEMMA WithoutTable ==
  ASSUME NEW ids
  PROVE  /\ DOMAIN Without(devices, ids) = Known \ ids
         /\ \A i \in Known \ ids : Without(devices, ids)[i] = devices[i]
  BY DEF Without, Known

LEMMA RequestShapes ==
  ASSUME Shapes, NEW r \in Request
  PROVE  /\ At(r, "edit") => req[r] \in Editing
         /\ At(r, "remove") \/ At(r, "report") => req[r] \in Passing
         /\ At(r, "assign") => req[r] \in Assigning
         /\ At(r, "assigned") => req[r] \in Answering
  BY DEF Shapes, RequestState, At, Resting, Editing, Passing, Assigning, Answering

LEMMA NextShapes == Bounds /\ Shapes /\ [Next]_vars => Shapes'
<1>. SUFFICES ASSUME Bounds, Shapes, [Next]_vars PROVE Shapes'
  OBVIOUS
<1>1. ASSUME NEW r \in Request, NEW owner \in Owner, NEW imei \in Imei, NEW address \in Address,
             Add(r, owner, imei, address)
      PROVE  Shapes'
  <2>. DEFINE row == [imei |-> imei, owner |-> owner, address |-> address]
  <2>1. /\ added' = added + 1 /\ devices' = With(devices, added', row) /\ owner \in users
        /\ added < MaxDevices
    BY <1>1 DEF Add
  <2>2. added' \in 1 .. MaxDevices /\ added' \in Id
    BY <2>1 DEF Bounds, Shapes, Id
  <2>0. row \in Row /\ row.owner \in users
    BY <2>1 DEF Row
  <2>7. /\ DOMAIN devices' = Known \cup {added'} /\ devices'[added'] = row
        /\ \A id \in Known \ {added'} : devices'[id] = devices[id]
    <3>. HIDE DEF row
    <3>. QED  BY <2>1 DEF With, Known
  <2>3. Known' = Known \cup {added'} /\ Known' \subseteq 1 .. added'
    <3>1. 1 .. added \subseteq 1 .. added' /\ added' \in 1 .. added'
      BY <2>1 DEF Shapes, Bounds
    <3>. QED  BY <2>7, <3>1 DEF Shapes, Known
  <2>4. \A id \in Known' : devices'[id] \in Row /\ devices'[id].owner \in users
    <3>. HIDE DEF row
    <3>. QED  BY <2>0, <2>3, <2>7 DEF Shapes
  <2>5. assigned' \in [Id -> Owner \cup {"none"}] /\ named' \in [Id -> Address]
    BY <1>1, <2>2 DEF Add, Shapes
  <2>6. \A s \in Request : ~At(s, "idle") => req[s].id \in 1 .. added'
    BY <2>1 DEF Shapes, Bounds
  <2>. QED  BY <1>1, <2>2, <2>3, <2>4, <2>5, <2>6 DEF Add, Shapes, At
<1>2. ASSUME NEW r \in Request, NEW id \in Id, NEW imei \in Imei, NEW address \in Address,
             ReadToEdit(r, id, imei, address)
      PROVE  Shapes'
  <2>. DEFINE q == [pc |-> "edit", id |-> id,
                    row |-> [devices[id] EXCEPT !.imei = imei, !.address = address]]
  <2>1. id \in Known /\ devices[id] \in Row
    BY <1>2 DEF ReadToEdit, Shapes
  <2>2. q \in RequestState /\ q.id \in 1 .. added
    BY <2>1 DEF Shapes, RequestState, Editing, Row
  <2>. HIDE DEF q
  <2>. QED  BY <1>2, <2>2, MoveShapes DEF ReadToEdit, Shapes, q
<1>3. ASSUME NEW r \in Request, Edit(r) PROVE Shapes'
  <2>1. req[r] \in Editing /\ req[r].id \in Id /\ req[r].row \in Row
    BY <1>3, RequestShapes DEF Edit, Editing
  <2>2. CASE req[r].id \in Known /\ Storable(req[r].id, req[r].row)
    <3>1. devices' = With(devices, req[r].id, req[r].row)
      BY <1>3, <2>2 DEF Edit
    <3>2. Known' = Known
      BY <2>2, <3>1, WithTable DEF Known
    <3>3. \A id \in Known : devices'[id] \in Row /\ devices'[id].owner \in users
      <4>1. /\ devices'[req[r].id] = req[r].row
            /\ \A id \in Known \ {req[r].id} : devices'[id] = devices[id]
        BY <2>2, <3>1 DEF With, Known
      <4>2. req[r].row.owner \in users
        BY <2>2 DEF Storable
      <4>. QED  BY <2>1, <4>1, <4>2 DEF Shapes
    <3>4. named' \in [Id -> Address]
      BY <1>3, <2>1, <2>2 DEF Edit, Shapes, Row
    <3>. QED  BY <1>3, <3>2, <3>3, <3>4, EndShapes DEF Edit, Shapes, At
  <2>3. CASE ~(req[r].id \in Known /\ Storable(req[r].id, req[r].row))
    <3>1. devices' = devices /\ named' = named
      BY <1>3, <2>3 DEF Edit
    <3>. QED  BY <1>3, <3>1, EndShapes DEF Edit, Shapes, At, Known
  <2>. QED  BY <2>2, <2>3
<1>4. ASSUME NEW r \in Request, FailEdit(r) PROVE Shapes'
  BY <1>4, EndShapes, FailsShapes DEF FailEdit, Shapes, At, Known, tables, history
<1>5. ASSUME NEW r \in Request, NEW id \in Id, ReadToRemove(r, id) PROVE Shapes'
  <2>1. [pc |-> "remove", id |-> id] \in RequestState /\ id \in 1 .. added
    BY <1>5 DEF ReadToRemove, Shapes, RequestState, Passing
  <2>. QED  BY <1>5, <2>1, MoveShapes DEF ReadToRemove, Shapes
<1>6. ASSUME NEW r \in Request, Remove(r) PROVE Shapes'
  <2>1. faults' \in 0 .. MaxFaults
    BY <1>6, FailsShapes DEF Remove, Shapes
  <2>2. CASE devices' = Without(devices, {req[r].id}) /\ rows' = rows \ {req[r].id}
    <3>1. Known' = Known \ {req[r].id} /\ \A id \in Known' : devices'[id] = devices[id]
      BY <2>2, WithoutTable DEF Known
    <3>. QED  BY <1>6, <2>1, <2>2, <3>1, EndShapes DEF Remove, Shapes, At, history
  <2>3. CASE UNCHANGED <<devices, rows>>
    BY <1>6, <2>1, <2>3, EndShapes DEF Remove, Shapes, At, Known, history
  <2>. QED  BY <1>6, <2>2, <2>3 DEF Remove
<1>7. ASSUME NEW r \in Request, NEW id \in Id, NEW owner \in Owner, FindOwner(r, id, owner)
      PROVE  Shapes'
  <2>1. [pc |-> "assign", id |-> id, owner |-> owner] \in RequestState /\ id \in 1 .. added
    BY <1>7 DEF FindOwner, RequestState, Assigning
  <2>. QED  BY <1>7, <2>1, MoveShapes DEF FindOwner, Shapes
<1>8. ASSUME NEW r \in Request, Assign(r) PROVE Shapes'
  <2>1. /\ req[r] \in Assigning /\ req[r].id \in Id /\ req[r].id \in Known
        /\ req[r].id \in 1 .. added /\ req[r].owner \in users
    BY <1>8, RequestShapes DEF Assign, Assigning, Shapes
  <2>. DEFINE q == [pc |-> "assigned", id |-> req[r].id, done |-> TRUE, fails |-> FALSE]
  <2>2. q \in RequestState /\ q.id \in 1 .. added
    BY <2>1 DEF RequestState, Answering
  <2>3. req' = [req EXCEPT ![r] = q]
    BY <1>8 DEF Assign
  <2>4. /\ req' \in [Request -> RequestState]
        /\ \A s \in Request : req'[s].pc # "idle" => req'[s].id \in 1 .. added
    <3>. HIDE DEF q
    <3>. QED  BY <2>2, <2>3 DEF Shapes, At
  <2>5. Known' = Known
    BY <1>8 DEF Assign, Known
  <2>6. \A id \in Known : devices'[id] \in Row /\ devices'[id].owner \in users
    <3>1. \A id \in Known \ {req[r].id} : devices'[id] = devices[id]
      BY <1>8 DEF Assign, Known
    <3>2. devices'[req[r].id] = [devices[req[r].id] EXCEPT !.owner = req[r].owner]
      BY <1>8, <2>1 DEF Assign, Known
    <3>3. [devices[req[r].id] EXCEPT !.owner = req[r].owner] \in Row
      BY <2>1 DEF Shapes, Row
    <3>4. devices'[req[r].id].owner = req[r].owner
      BY <2>1, <3>2 DEF Shapes, Row
    <3>. QED  BY <2>1, <3>1, <3>2, <3>3, <3>4 DEF Shapes
  <2>7. assigned' \in [Id -> Owner \cup {"none"}] /\ contested' \in SUBSET Id
    BY <1>8, <2>1 DEF Assign, Shapes
  <2>. QED  BY <1>8, <2>4, <2>5, <2>6, <2>7 DEF Assign, Shapes, At
<1>9. ASSUME NEW r \in Request, FailAssign(r) PROVE Shapes'
  <2>1. faults' \in 0 .. MaxFaults
    BY <1>9, FailsShapes DEF FailAssign, Shapes
  <2>2. req[r].id \in Id /\ req[r].id \in 1 .. added
    BY <1>9, RequestShapes DEF FailAssign, Assigning, Shapes, At
  <2>. DEFINE q == [pc |-> "assigned", id |-> req[r].id, done |-> FALSE,
                    fails |-> faults' # faults \/ req[r].owner \notin users]
  <2>3. q \in RequestState /\ q.id \in 1 .. added
    BY <2>2 DEF RequestState, Answering
  <2>4. req' = [req EXCEPT ![r] = q]
    BY <1>9 DEF FailAssign
  <2>. HIDE DEF q
  <2>. QED  BY <1>9, <2>1, <2>3, <2>4, MoveShapes DEF FailAssign
<1>10. ASSUME NEW r \in Request, AnswerAssign(r) PROVE Shapes'
  BY <1>10, EndShapes DEF AnswerAssign, Shapes, At, Known, tables, history
<1>11. ASSUME NEW r \in Request, NEW imei \in Imei, FindDevice(r, imei) PROVE Shapes'
  <2>1. PICK id \in Known : /\ req' = [req EXCEPT ![r] = [pc |-> "report", id |-> id]]
                            /\ UNCHANGED <<tables, added, faults, history>>
    BY <1>11 DEF FindDevice
  <2>2. [pc |-> "report", id |-> id] \in RequestState /\ id \in 1 .. added
    BY DEF Shapes, RequestState, Passing, Bounds, Id
  <2>. QED  BY <2>1, <2>2, MoveShapes DEF Shapes
<1>12. ASSUME NEW r \in Request, Report(r) PROVE Shapes'
  BY <1>12, EndShapes DEF Report, Shapes, At, Known, history
<1>13. ASSUME NEW owner \in Owner, DeleteUser(owner) PROVE Shapes'
  <2>. DEFINE gone == {id \in Known : devices[id].owner = owner}
  <2>1. /\ Known' = Known \ gone /\ \A id \in Known' : devices'[id] = devices[id]
        /\ rows' = rows \ gone /\ users' = users \ {owner}
    BY <1>13, WithoutTable DEF DeleteUser, Known
  <2>2. \A id \in Known' : devices'[id] \in Row /\ devices'[id].owner \in users'
    BY <2>1 DEF Shapes
  <2>. QED  BY <1>13, <2>1, <2>2 DEF DeleteUser, Shapes, At, history
<1>14. CASE UNCHANGED vars
  BY <1>14 DEF vars, tables, history, Shapes, At, Known
<1>. QED  BY <1>1, <1>2, <1>3, <1>4, <1>5, <1>6, <1>7, <1>8, <1>9, <1>10, <1>11, <1>12, <1>13, <1>14
          DEF Next, Begin, Finish

LEMMA ShapesType == Bounds /\ Shapes => TypeOK
<1>. SUFFICES ASSUME Bounds, Shapes PROVE TypeOK
  OBVIOUS
<1>1. \A r \in Request : req[r].pc \in {"idle", "edit", "remove", "assign", "assigned", "report"}
  BY DEF Shapes, RequestState, Resting, Editing, Passing, Assigning, Answering
<1>2. \A id \in Known : devices[id] \in [imei : Imei, owner : users, address : Address]
  BY DEF Shapes, Row
<1>. QED  BY <1>1, <1>2 DEF Shapes, TypeOK

(* The tables keep their types and their keys, whatever requests overlap   *)
(* and fail.                                                               *)
THEOREM TypeCorrect == ASSUME Bounds PROVE Spec => []TypeOK
<1>1. Init => Shapes
  BY InitShapes
<1>2. Shapes /\ [Next]_vars => Shapes'
  BY NextShapes
<1>3. Shapes => TypeOK
  BY ShapesType
<1>. QED  BY <1>1, <1>2, <1>3, PTL DEF Spec

(* A machine that is gone has no rows, and no step that is under way brings*)
(* it back or writes rows of it.                                           *)
LEMMA RemovedStep == Bounds /\ Shapes /\ [Next]_vars => [StaysRemoved]_vars
<1>. SUFFICES ASSUME Bounds, Shapes, [Next]_vars, NEW gone \in 1 .. added, gone \notin Known
              PROVE  gone \notin Known' /\ gone \notin rows'
  BY DEF StaysRemoved
<1>0. gone \notin rows
  BY DEF Shapes
<1>1. ASSUME NEW r \in Request, NEW owner \in Owner, NEW imei \in Imei, NEW address \in Address,
             Add(r, owner, imei, address)
      PROVE  gone \notin Known' /\ gone \notin rows'
  <2>1. PICK row : devices' = With(devices, added', row)
    BY <1>1 DEF Add
  <2>2. DOMAIN devices' = Known \cup {added'}
    BY <2>1 DEF With, Known
  <2>3. gone # added'
    BY <1>1 DEF Add, Shapes, Bounds
  <2>. QED  BY <1>0, <1>1, <2>2, <2>3 DEF Add, Known
<1>2. ASSUME NEW r \in Request, Edit(r) PROVE gone \notin Known' /\ gone \notin rows'
  <2>1. Known' = Known
    <3>1. CASE req[r].id \in Known /\ devices' = With(devices, req[r].id, req[r].row)
      BY <3>1 DEF With, Known
    <3>2. CASE devices' = devices
      BY <3>2 DEF Known
    <3>. QED  BY <1>2, <3>1, <3>2 DEF Edit
  <2>. QED  BY <1>0, <1>2, <2>1 DEF Edit
<1>3. ASSUME NEW r \in Request, Remove(r) PROVE gone \notin Known' /\ gone \notin rows'
  <2>1. Known' \subseteq Known
    BY <1>3, WithoutTable DEF Remove, Known
  <2>. QED  BY <1>0, <1>3, <2>1 DEF Remove
<1>4. ASSUME NEW r \in Request, Assign(r) PROVE gone \notin Known' /\ gone \notin rows'
  <2>1. Known' = Known
    BY <1>4 DEF Assign, Known
  <2>. QED  BY <1>0, <1>4, <2>1 DEF Assign
<1>5. ASSUME NEW r \in Request, Report(r) PROVE gone \notin Known' /\ gone \notin rows'
  BY <1>0, <1>5 DEF Report, Known
<1>6. ASSUME NEW owner \in Owner, DeleteUser(owner) PROVE gone \notin Known' /\ gone \notin rows'
  <2>1. Known' \subseteq Known
    BY <1>6, WithoutTable DEF DeleteUser, Known
  <2>. QED  BY <1>0, <1>6, <2>1 DEF DeleteUser
<1>7. CASE UNCHANGED <<devices, rows>>
  BY <1>0, <1>7 DEF Known
<1>. QED  BY <1>1, <1>2, <1>3, <1>4, <1>5, <1>6, <1>7
          DEF Next, Begin, Finish, ReadToEdit, FailEdit, ReadToRemove, FindOwner, FailAssign,
              AnswerAssign, FindDevice, tables, vars

(* A machine that was removed stays so and leaves no rows, whatever edit or*)
(* report has read it before (DevicesController.cs:119-126,                *)
(* DeviceDbProvider.cs:260-274).                                           *)
THEOREM RemovedCorrect == ASSUME Bounds PROVE Spec => RemovedStays
<1>1. Init => Shapes
  BY InitShapes
<1>2. Shapes /\ [Next]_vars => Shapes'
  BY NextShapes
<1>3. Shapes /\ [Next]_vars => [StaysRemoved]_vars
  BY RemovedStep
<1>. QED  BY <1>1, <1>2, <1>3, PTL DEF Spec, RemovedStays

(***************************************************************************)
(* Rows as given.  An edit under way bears the owner the machine has been  *)
(* given, unless another was given meanwhile.                              *)
(***************************************************************************)
EditAsGiven ==
    \A r \in Request : At(r, "edit") /\ req[r].id \in Known \ contested =>
        req[r].row.owner = assigned[req[r].id]

GivenInv == Shapes /\ RowAsGiven /\ EditAsGiven

LEMMA InitGiven == Bounds /\ Init => GivenInv
<1>. SUFFICES ASSUME Bounds, Init PROVE GivenInv
  OBVIOUS
<1>1. Known = {}
  BY DEF Init, Known
<1>. QED  BY <1>1, InitShapes DEF GivenInv, RowAsGiven, EditAsGiven

(* A step that changes no machine and begins no edit.                      *)
LEMMA GivenKept ==
  ASSUME GivenInv, Known' \subseteq Known, \A id \in Known' : devices'[id] = devices[id],
         history' = history,
         \A r \in Request : req'[r].pc = "edit" => req'[r] = req[r]
  PROVE  RowAsGiven' /\ EditAsGiven'
<1>1. assigned' = assigned /\ named' = named /\ contested' = contested
  BY DEF history
<1>2. RowAsGiven'
  BY <1>1 DEF GivenInv, RowAsGiven
<1>3. EditAsGiven'
  BY <1>1 DEF GivenInv, EditAsGiven, At
<1>. QED  BY <1>2, <1>3

(* A request that is moved to q.                                           *)
LEMMA MoveKept ==
  ASSUME GivenInv, NEW r \in Request, NEW q, q.pc # "edit", req' = [req EXCEPT ![r] = q],
         tables' = tables, history' = history
  PROVE  RowAsGiven' /\ EditAsGiven'
<1>1. \A s \in Request : req'[s].pc = "edit" => req'[s] = req[s]
  BY DEF GivenInv, Shapes
<1>. QED  BY <1>1, GivenKept DEF tables, Known

LEMMA NextGiven == Bounds /\ GivenInv /\ [Next]_vars => GivenInv'
<1>. SUFFICES ASSUME Bounds, GivenInv, [Next]_vars PROVE RowAsGiven' /\ EditAsGiven'
  BY NextShapes DEF GivenInv
<1>0. Shapes /\ Idle.pc # "edit"
  BY DEF GivenInv, Idle
<1>1. ASSUME NEW r \in Request, NEW owner \in Owner, NEW imei \in Imei, NEW address \in Address,
             Add(r, owner, imei, address)
      PROVE  RowAsGiven' /\ EditAsGiven'
  <2>. DEFINE row == [imei |-> imei, owner |-> owner, address |-> address]
  <2>1. added' \in Id /\ added' \notin 1 .. added
    BY <1>0, <1>1 DEF Add, Shapes, Bounds, Id
  <2>2. /\ DOMAIN devices' = Known \cup {added'} /\ devices'[added'] = row
        /\ \A id \in Known \ {added'} : devices'[id] = devices[id]
    <3>1. devices' = With(devices, added', row)
      BY <1>1 DEF Add
    <3>. HIDE DEF row
    <3>. QED  BY <3>1 DEF With, Known
  <2>3. /\ assigned'[added'] = owner /\ named'[added'] = address
        /\ \A id \in Id \ {added'} : assigned'[id] = assigned[id] /\ named'[id] = named[id]
        /\ contested' = contested /\ req' = req
    BY <1>0, <1>1, <2>1 DEF Add, Shapes
  <2>4. Known \subseteq Id /\ added' \notin Known
    BY <1>0, <2>1 DEF Shapes, Id, Bounds
  <2>5. RowAsGiven'
    BY <2>2, <2>3, <2>4 DEF GivenInv, RowAsGiven, Known
  <2>6. \A s \in Request : At(s, "edit") => req[s].id \in Id /\ req[s].id # added'
    BY <1>0, <2>1, RequestShapes DEF Shapes, At, Editing
  <2>7. EditAsGiven'
    <3>. SUFFICES ASSUME NEW s \in Request, At(s, "edit"), req[s].id \in Known' \ contested
                  PROVE  req[s].row.owner = assigned'[req[s].id]
      BY <2>3 DEF EditAsGiven, At
    <3>1. req[s].id \in Known \ contested
      BY <2>2, <2>6 DEF Known
    <3>. QED  BY <2>3, <2>6, <3>1 DEF GivenInv, EditAsGiven
  <2>. QED  BY <2>5, <2>7
<1>2. ASSUME NEW r \in Request, NEW id \in Id, NEW imei \in Imei, NEW address \in Address,
             ReadToEdit(r, id, imei, address)
      PROVE  RowAsGiven' /\ EditAsGiven'
  <2>1. /\ req'[r].id = id /\ req'[r].row.owner = devices[id].owner /\ id \in Known
        /\ \A s \in Request : s # r => req'[s] = req[s]
        /\ UNCHANGED <<devices, assigned, named, contested>>
    BY <1>0, <1>2 DEF ReadToEdit, Shapes, Row, tables, history
  <2>2. RowAsGiven'
    BY <2>1 DEF GivenInv, RowAsGiven, Known
  <2>3. EditAsGiven'
    BY <2>1 DEF GivenInv, RowAsGiven, EditAsGiven, Known, At
  <2>. QED  BY <2>2, <2>3
<1>3. ASSUME NEW r \in Request, Edit(r) PROVE RowAsGiven' /\ EditAsGiven'
  <2>1. \A s \in Request : req'[s].pc = "edit" => req'[s] = req[s]
    BY <1>0, <1>3 DEF Edit, End, Shapes
  <2>2. CASE req[r].id \in Known /\ Storable(req[r].id, req[r].row)
    <3>1. At(r, "edit") /\ req[r].id \in Id
      BY <1>0, <1>3, RequestShapes DEF Edit, Editing
    <3>2. devices' = With(devices, req[r].id, req[r].row)
      BY <1>3, <2>2 DEF Edit
    <3>3. /\ Known' = Known /\ devices'[req[r].id] = req[r].row
          /\ \A id \in Known \ {req[r].id} : devices'[id] = devices[id]
      BY <2>2, <3>2 DEF With, Known
    <3>4. /\ named'[req[r].id] = req[r].row.address /\ assigned' = assigned
          /\ \A id \in Id \ {req[r].id} : named'[id] = named[id]
          /\ contested' = contested
      BY <1>0, <1>3, <2>2, <3>1 DEF Edit, Shapes
    <3>5. Known \subseteq Id
      BY <1>0 DEF Shapes, Id, Bounds
    <3>6. RowAsGiven'
      <4>. SUFFICES ASSUME NEW id \in Known \ contested
                    PROVE  devices'[id].owner = assigned[id] /\ devices'[id].address = named'[id]
        BY <3>3, <3>4 DEF RowAsGiven
      <4>1. CASE id = req[r].id
        BY <3>1, <3>3, <3>4, <4>1 DEF GivenInv, EditAsGiven
      <4>2. CASE id # req[r].id
        BY <3>3, <3>4, <3>5, <4>2 DEF GivenInv, RowAsGiven
      <4>. QED  BY <4>1, <4>2
    <3>7. EditAsGiven'
      BY <2>1, <3>3, <3>4 DEF GivenInv, EditAsGiven, At
    <3>. QED  BY <3>6, <3>7
  <2>3. CASE ~(req[r].id \in Known /\ Storable(req[r].id, req[r].row))
    <3>1. devices' = devices /\ history' = history
      BY <1>3, <2>3 DEF Edit, history
    <3>. QED  BY <2>1, <3>1, GivenKept DEF Known
  <2>. QED  BY <2>2, <2>3
<1>4. ASSUME NEW r \in Request, FailEdit(r) \/ AnswerAssign(r) PROVE RowAsGiven' /\ EditAsGiven'
  BY <1>0, <1>4, MoveKept DEF FailEdit, AnswerAssign, End
<1>5. ASSUME NEW r \in Request, NEW id \in Id, ReadToRemove(r, id) PROVE RowAsGiven' /\ EditAsGiven'
  BY <1>5, MoveKept DEF ReadToRemove
<1>6. ASSUME NEW r \in Request, Remove(r) PROVE RowAsGiven' /\ EditAsGiven'
  <2>1. \A s \in Request : req'[s].pc = "edit" => req'[s] = req[s]
    BY <1>0, <1>6 DEF Remove, End, Shapes
  <2>2. Known' \subseteq Known /\ \A id \in Known' : devices'[id] = devices[id]
    BY <1>6, WithoutTable DEF Remove, Known
  <2>. QED  BY <1>6, <2>1, <2>2, GivenKept DEF Remove
<1>7. ASSUME NEW r \in Request, NEW id \in Id, NEW owner \in Owner, FindOwner(r, id, owner)
      PROVE  RowAsGiven' /\ EditAsGiven'
  BY <1>7, MoveKept DEF FindOwner
<1>8. ASSUME NEW r \in Request, Assign(r) PROVE RowAsGiven' /\ EditAsGiven'
  <2>. DEFINE at == req[r].id
  <2>1. at \in Id /\ at \in Known
    BY <1>0, <1>8, RequestShapes DEF Assign, Assigning
  <2>2. /\ Known' = Known /\ devices'[at].owner = req[r].owner
        /\ devices'[at].address = devices[at].address
        /\ \A id \in Known \ {at} : devices'[id] = devices[id]
    BY <1>0, <1>8, <2>1 DEF Assign, Known, Shapes, Row
  <2>3. /\ assigned'[at] = req[r].owner /\ \A id \in Id \ {at} : assigned'[id] = assigned[id]
        /\ named' = named /\ contested \subseteq contested' /\ (Meddled(at) => at \in contested')
    BY <1>0, <1>8, <2>1 DEF Assign, Shapes
  <2>4. Known \subseteq Id
    BY <1>0 DEF Shapes, Id, Bounds
  <2>5. RowAsGiven'
    <3>. HIDE DEF at
    <3>. QED  BY <2>1, <2>2, <2>3, <2>4 DEF GivenInv, RowAsGiven
  <2>6. \A s \in Request : req'[s].pc = "edit" => req'[s] = req[s]
    BY <1>0, <1>8 DEF Assign, Shapes
  <2>7. \A s \in Request : At(s, "edit") /\ req[s].id = at => Meddled(at)
    BY DEF Meddled, At
  <2>8. EditAsGiven'
    <3>. HIDE DEF at
    <3>. QED  BY <2>2, <2>3, <2>4, <2>6, <2>7 DEF GivenInv, EditAsGiven, At
  <2>. QED  BY <2>5, <2>8
<1>9. ASSUME NEW r \in Request, FailAssign(r) PROVE RowAsGiven' /\ EditAsGiven'
  <2>1. \A s \in Request : req'[s].pc = "edit" => req'[s] = req[s]
    BY <1>0, <1>9 DEF FailAssign, Shapes
  <2>. QED  BY <1>9, <2>1, GivenKept DEF FailAssign, tables, Known
<1>10. ASSUME NEW r \in Request, NEW imei \in Imei, FindDevice(r, imei)
       PROVE  RowAsGiven' /\ EditAsGiven'
  BY <1>10, MoveKept DEF FindDevice
<1>11. ASSUME NEW r \in Request, Report(r) PROVE RowAsGiven' /\ EditAsGiven'
  <2>1. \A s \in Request : req'[s].pc = "edit" => req'[s] = req[s]
    BY <1>0, <1>11 DEF Report, End, Shapes
  <2>. QED  BY <1>11, <2>1, GivenKept DEF Report, Known
<1>12. ASSUME NEW owner \in Owner, DeleteUser(owner) PROVE RowAsGiven' /\ EditAsGiven'
  <2>1. Known' \subseteq Known /\ \A id \in Known' : devices'[id] = devices[id]
    BY <1>12, WithoutTable DEF DeleteUser, Known
  <2>. QED  BY <1>12, <2>1, GivenKept DEF DeleteUser
<1>13. CASE UNCHANGED vars
  BY <1>13, GivenKept DEF vars, tables, Known
<1>. QED  BY <1>1, <1>2, <1>3, <1>4, <1>5, <1>6, <1>7, <1>8, <1>9, <1>10, <1>11, <1>12, <1>13
          DEF Next, Begin, Finish

(* A machine has the owner and the address it was last given, unless its   *)
(* owner was set while an edit or a removal of it was under way            *)
(* (DevicesController.cs:119-126, DeviceDbProvider.cs:235-258).            *)
THEOREM GivenCorrect == ASSUME Bounds PROVE Spec => []RowAsGiven
<1>1. Init => GivenInv
  BY InitGiven
<1>2. GivenInv /\ [Next]_vars => GivenInv'
  BY NextGiven
<1>3. GivenInv => RowAsGiven
  BY DEF GivenInv
<1>. QED  BY <1>1, <1>2, <1>3, PTL DEF Spec

(***************************************************************************)
(* Answers.  A change of owner that was not made is remembered as failed,  *)
(* or its machine is gone and stays so.                                    *)
(***************************************************************************)
AssignHolds ==
    \A r \in Request : At(r, "assigned") =>
        req[r].done \/ req[r].fails \/ req[r].id \notin Known

AnswerInv == Shapes /\ AssignHolds /\ AnswersHold

LEMMA InitAnswers == Bounds /\ Init => AnswerInv
<1>. SUFFICES ASSUME Bounds, Init PROVE AnswerInv
  OBVIOUS
<1>. QED  BY InitShapes DEF Init, AnswerInv, AssignHolds, AnswersHold, Idle, Nothing, At

(* A step that brings no machine back and moves no request to its answer.  *)
LEMMA AssignKept ==
  ASSUME AnswerInv, Known' \cap 1 .. added \subseteq Known,
         \A r \in Request : req'[r].pc = "assigned" => req'[r] = req[r]
  PROVE  AssignHolds'
  BY DEF AnswerInv, AssignHolds, Shapes, At

LEMMA NextAnswers == Bounds /\ AnswerInv /\ [Next]_vars => AnswerInv'
<1>. SUFFICES ASSUME Bounds, AnswerInv, [Next]_vars PROVE AssignHolds' /\ AnswersHold'
  BY NextShapes DEF AnswerInv
<1>0. Shapes /\ Idle.pc # "assigned" /\ ~Nothing.ok
  BY DEF AnswerInv, Idle, Nothing
<1>1. Known' \cap 1 .. added \subseteq Known
  <2>1. CASE UNCHANGED vars
    BY <2>1 DEF vars, tables, Known
  <2>2. CASE StaysRemoved
    BY <2>2 DEF StaysRemoved
  <2>. QED  BY <1>0, <2>1, <2>2, RemovedStep
<1>2. ASSUME NEW r \in Request, NEW owner \in Owner, NEW imei \in Imei, NEW address \in Address,
             Add(r, owner, imei, address)
      PROVE  AssignHolds' /\ AnswersHold'
  BY <1>1, <1>2, AssignKept DEF Add, AnswersHold, Ok
<1>3. ASSUME NEW r \in Request, NEW id \in Id, NEW imei \in Imei, NEW address \in Address,
             ReadToEdit(r, id, imei, address)
      PROVE  AssignHolds' /\ AnswersHold'
  <2>1. \A s \in Request : req'[s].pc = "assigned" => req'[s] = req[s]
    BY <1>0, <1>3 DEF ReadToEdit, Shapes
  <2>. QED  BY <1>0, <1>1, <1>3, <2>1, AssignKept DEF ReadToEdit, AnswersHold
<1>4. ASSUME NEW r \in Request, Edit(r) \/ FailEdit(r) \/ Report(r) \/ Remove(r) \/ AnswerAssign(r)
      PROVE  AssignHolds' /\ AnswersHold'
  <2>1. End(r)
    BY <1>4 DEF Edit, FailEdit, Report, Remove, AnswerAssign
  <2>2. AssignHolds'
    BY <1>0, <1>1, <2>1, AssignKept DEF End, Shapes
  <2>3. CASE Edit(r) \/ FailEdit(r) \/ Report(r)
    BY <1>0, <2>2, <2>3 DEF Edit, FailEdit, Report, AnswersHold, Ok
  <2>4. CASE Remove(r)
    BY <2>2, <2>4 DEF Remove, AnswersHold, Ok
  <2>5. CASE AnswerAssign(r)
    BY <1>0, <2>2, <2>5 DEF AnswerAssign, AnswerInv, AssignHolds, AnswersHold, Ok
  <2>. QED  BY <1>4, <2>2, <2>3, <2>4, <2>5
<1>5. ASSUME NEW r \in Request, NEW id \in Id, ReadToRemove(r, id) PROVE AssignHolds' /\ AnswersHold'
  <2>1. \A s \in Request : req'[s].pc = "assigned" => req'[s] = req[s]
    BY <1>0, <1>5 DEF ReadToRemove, Shapes
  <2>. QED  BY <1>0, <1>1, <1>5, <2>1, AssignKept DEF ReadToRemove, AnswersHold
<1>6. ASSUME NEW r \in Request, NEW id \in Id, NEW owner \in Owner, FindOwner(r, id, owner)
      PROVE  AssignHolds' /\ AnswersHold'
  <2>1. \A s \in Request : req'[s].pc = "assigned" => req'[s] = req[s]
    BY <1>0, <1>6 DEF FindOwner, Shapes
  <2>. QED  BY <1>0, <1>1, <1>6, <2>1, AssignKept DEF FindOwner, AnswersHold
<1>7. ASSUME NEW r \in Request, Assign(r) PROVE AssignHolds' /\ AnswersHold'
  <2>1. req'[r].done /\ \A s \in Request : s # r => req'[s] = req[s]
    BY <1>0, <1>7 DEF Assign, Shapes
  <2>2. Known' = Known
    BY <1>7 DEF Assign, Known
  <2>3. AssignHolds'
    BY <2>1, <2>2 DEF AnswerInv, AssignHolds, At
  <2>. QED  BY <1>0, <1>7, <2>3 DEF Assign, AnswersHold
<1>8. ASSUME NEW r \in Request, FailAssign(r) PROVE AssignHolds' /\ AnswersHold'
  <2>1. /\ req'[r].fails \/ req'[r].id \notin Known
        /\ \A s \in Request : s # r => req'[s] = req[s]
    <3>1. /\ req'[r].fails = (faults' # faults \/ req[r].owner \notin users)
          /\ req'[r].id = req[r].id
          /\ \A s \in Request : s # r => req'[s] = req[s]
      BY <1>0, <1>8 DEF FailAssign, Shapes
    <3>2. faults' # faults \/ req[r].owner \notin users \/ req[r].id \notin Known
      BY <1>0, <1>8 DEF FailAssign, Fails, Shapes, Bounds
    <3>. QED  BY <3>1, <3>2
  <2>2. Known' = Known
    BY <1>8 DEF FailAssign, tables, Known
  <2>3. AssignHolds'
    BY <2>1, <2>2 DEF AnswerInv, AssignHolds, At
  <2>. QED  BY <1>0, <1>8, <2>3 DEF FailAssign, AnswersHold
<1>9. ASSUME NEW r \in Request, NEW imei \in Imei, FindDevice(r, imei)
      PROVE  AssignHolds' /\ AnswersHold'
  <2>1. \A s \in Request : req'[s].pc = "assigned" => req'[s] = req[s]
    BY <1>0, <1>9 DEF FindDevice, Shapes
  <2>. QED  BY <1>0, <1>1, <1>9, <2>1, AssignKept DEF FindDevice, AnswersHold
<1>10. ASSUME NEW owner \in Owner, DeleteUser(owner) PROVE AssignHolds' /\ AnswersHold'
  BY <1>0, <1>1, <1>10, AssignKept DEF DeleteUser, AnswersHold
<1>11. CASE UNCHANGED vars
  BY <1>1, <1>11, AssignKept DEF vars, AnswerInv, AnswersHold
<1>. QED  BY <1>2, <1>3, <1>4, <1>5, <1>6, <1>7, <1>8, <1>9, <1>10, <1>11
          DEF Next, Begin, Finish

(* A request answered OK was done, unless the database failed or the owner *)
(* to be set went while it ran (DevicesController.cs:97-110, 128-141,      *)
(* 323-336).                                                               *)
THEOREM AnswersCorrect == ASSUME Bounds PROVE Spec => []AnswersHold
<1>1. Init => AnswerInv
  BY InitAnswers
<1>2. AnswerInv /\ [Next]_vars => AnswerInv'
  BY NextAnswers
<1>3. AnswerInv => AnswersHold
  BY DEF AnswerInv
<1>. QED  BY <1>1, <1>2, <1>3, PTL DEF Spec
=============================================================================
