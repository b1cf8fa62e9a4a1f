-------------------------------- MODULE Devices --------------------------------
(***************************************************************************)
(* The table of machines and the requests that change it                   *)
(* (DevicesController, DeviceDbProvider, DeviceDBContext), beside the      *)
(* reports that write the rows of a machine and the removal of owners.     *)
(* An action is one transaction.                                           *)
(***************************************************************************)
EXTENDS Requests

CONSTANTS
    Owner,
    Imei,
    MaxDevices      \* bound: machines ever added

Id == 1 .. MaxDevices
Address == {0, 1}

VARIABLES
    users,          \* the owners there are
    devices,        \* the table: id -> [imei, owner, address]
    rows,           \* the machines that have rows of reports
    added,          \* ids given
    answer,         \* the answer of this step
    assigned,       \* history: the owner a machine was last given
    named,          \* history: the address it was last given
    contested       \* history: machines given an owner while being edited or removed

tables == <<users, devices, rows>>
history == <<assigned, named, contested>>
vars == <<tables, req, added, faults, answer, history>>

Known == DOMAIN devices
Nothing == [ok |-> FALSE]

(* The answer OK, and whether what was asked for was done.                 *)
Ok(done, fails) == [ok |-> TRUE, done |-> done, fails |-> fails]

(* The unique index on the IMEI, and the key of the owner.                 *)
Storable(id, row) ==
    /\ \A other \in Known \ {id} : devices[other].imei # row.imei
    /\ row.owner \in users

-----------------------------------------------------------------------------
(* A new machine is its creator's, or the owner's of the technician.       *)
Add(r, owner, imei, address) ==
    LET row == [imei |-> imei, owner |-> owner, address |-> address] IN
    /\ At(r, "idle") /\ owner \in users /\ added < MaxDevices
    /\ Storable(added + 1, row)
    /\ added' = added + 1
    /\ devices' = With(devices, added', row)
    /\ assigned' = [assigned EXCEPT ![added'] = owner] /\ named' = [named EXCEPT ![added'] = address]
    /\ answer' = Ok(TRUE, FALSE)
    /\ UNCHANGED <<users, rows, req, faults, contested>>

(* Edit reads the whole row, and writes the whole row back.                *)
ReadToEdit(r, id, imei, address) ==
    /\ At(r, "idle") /\ id \in Known
    /\ req' = [req EXCEPT ![r] = [pc |-> "edit", id |-> id,
                 row |-> [devices[id] EXCEPT !.imei = imei, !.address = address]]]
    /\ answer' = Nothing
    /\ UNCHANGED <<tables, added, faults, history>>

(* Mutated: a row that is gone is inserted. *)
UpsertEdit(r) ==
    /\ At(r, "edit") /\ End(r)
    /\ LET id == req[r].id IN
       IF Storable(id, req[r].row)
       THEN /\ devices' = With(devices, id, req[r].row)
            /\ named' = [named EXCEPT ![id] = req[r].row.address] /\ answer' = Ok(TRUE, FALSE)
       ELSE UNCHANGED <<devices, named>> /\ answer' = Nothing
    /\ UNCHANGED <<users, rows, added, faults, assigned, contested>>

(* Mutated: what the provider returns is not looked at. *)
BlindEdit(r) ==
    /\ At(r, "edit") /\ End(r)
    /\ LET id == req[r].id  stores == id \in Known /\ Storable(id, req[r].row) IN
       /\ IF stores
          THEN /\ devices' = With(devices, id, req[r].row)
               /\ named' = [named EXCEPT ![id] = req[r].row.address]
          ELSE UNCHANGED <<devices, named>>
       /\ answer' = Ok(stores, FALSE)
    /\ UNCHANGED <<users, rows, added, faults, assigned, contested>>

Edit(r) ==
    /\ At(r, "edit") /\ End(r)
    /\ LET id == req[r].id IN
       IF id \in Known /\ Storable(id, req[r].row)
       THEN /\ devices' = With(devices, id, req[r].row)
            /\ named' = [named EXCEPT ![id] = req[r].row.address] /\ answer' = Ok(TRUE, FALSE)
       ELSE UNCHANGED <<devices, named>> /\ answer' = Nothing
    /\ UNCHANGED <<users, rows, added, faults, assigned, contested>>

(* AddOrEditDevice swallows a failure, and the request is refused.         *)
FailEdit(r) ==
    /\ At(r, "edit") /\ Fails /\ End(r) /\ answer' = Nothing
    /\ UNCHANGED <<tables, added, history>>

-----------------------------------------------------------------------------
(* Delete; whether the user may remove the machine is asked here.          *)
ReadToRemove(r, id) ==
    /\ At(r, "idle") /\ id \in Known
    /\ req' = [req EXCEPT ![r] = [pc |-> "remove", id |-> id]]
    /\ answer' = Nothing
    /\ UNCHANGED <<tables, added, faults, history>>

(* RemoveDevice swallows a failure, and cascades to the rows.              *)
Remove(r) ==
    /\ At(r, "remove") /\ End(r)
    /\ \/ /\ devices' = Without(devices, {req[r].id}) /\ rows' = rows \ {req[r].id}
          /\ answer' = Ok(TRUE, FALSE) /\ UNCHANGED faults
       \/ Fails /\ answer' = Ok(req[r].id \notin Known, TRUE) /\ UNCHANGED <<devices, rows>>
    /\ UNCHANGED <<users, added, history>>

-----------------------------------------------------------------------------
(* SetOwner: the owner is found, the one column written, the machine read. *)
(* The page may still show a machine that has gone.                        *)
FindOwner(r, id, owner) ==
    /\ At(r, "idle") /\ owner \in users /\ id \in 1 .. added
    /\ req' = [req EXCEPT ![r] = [pc |-> "assign", id |-> id, owner |-> owner]]
    /\ answer' = Nothing
    /\ UNCHANGED <<tables, added, faults, history>>

Meddled(id) == \E r \in Request : req[r].pc \in {"edit", "remove"} /\ req[r].id = id

(* Mutated: all columns are written. *)
AssignAll(r) ==
    /\ At(r, "assign") /\ req[r].id \in Known /\ req[r].owner \in users
    /\ LET id == req[r].id IN
       /\ devices' = [devices EXCEPT ![id].owner = req[r].owner, ![id].address = 0]
       /\ assigned' = [assigned EXCEPT ![id] = req[r].owner]
       /\ contested' = IF Meddled(id) THEN contested \cup {id} ELSE contested
    /\ req' = [req EXCEPT ![r] = [pc |-> "assigned", id |-> req[r].id, done |-> TRUE, fails |-> FALSE]]
    /\ answer' = Nothing
    /\ UNCHANGED <<users, rows, added, faults, named>>

Assign(r) ==
    /\ At(r, "assign") /\ req[r].id \in Known /\ req[r].owner \in users
    /\ LET id == req[r].id IN
       /\ devices' = [devices EXCEPT ![id].owner = req[r].owner]
       /\ assigned' = [assigned EXCEPT ![id] = req[r].owner]
       /\ contested' = IF Meddled(id) THEN contested \cup {id} ELSE contested
    /\ req' = [req EXCEPT ![r] = [pc |-> "assigned", id |-> req[r].id, done |-> TRUE, fails |-> FALSE]]
    /\ answer' = Nothing
    /\ UNCHANGED <<users, rows, added, faults, named>>

(* The machine or the owner has gone, or the database fails: SetDeviceOwner*)
(* swallows it.                                                            *)
FailAssign(r) ==
    /\ At(r, "assign")
    /\ \/ (req[r].id \notin Known \/ req[r].owner \notin users) /\ UNCHANGED faults
       \/ Fails
    /\ req' = [req EXCEPT ![r] = [pc |-> "assigned", id |-> req[r].id, done |-> FALSE,
                                  fails |-> faults' # faults \/ req[r].owner \notin users]]
    /\ answer' = Nothing
    /\ UNCHANGED <<tables, added, history>>

AnswerAssign(r) ==
    /\ At(r, "assigned") /\ End(r)
    /\ answer' = IF req[r].id \in Known THEN Ok(req[r].done, req[r].fails) ELSE Nothing
    /\ UNCHANGED <<tables, added, faults, history>>

-----------------------------------------------------------------------------
(* A report finds its machine by the IMEI, and writes rows of its id.      *)
FindDevice(r, imei) ==
    \E id \in Known :
        /\ At(r, "idle") /\ devices[id].imei = imei
        /\ req' = [req EXCEPT ![r] = [pc |-> "report", id |-> id]]
        /\ answer' = Nothing
        /\ UNCHANGED <<tables, added, faults, history>>

(* The key of the machine refuses rows of one that has gone.               *)
Report(r) ==
    /\ At(r, "report") /\ End(r)
    /\ rows' = IF req[r].id \in Known THEN rows \cup {req[r].id} ELSE rows
    /\ answer' = Nothing
    /\ UNCHANGED <<users, devices, added, faults, history>>

(* An owner goes, and with it the machines and their rows.                 *)
DeleteUser(owner) ==
    LET gone == {id \in Known : devices[id].owner = owner} IN
    /\ owner \in users
    /\ users' = users \ {owner}
    /\ devices' = Without(devices, gone) /\ rows' = rows \ gone
    /\ answer' = Nothing
    /\ UNCHANGED <<req, added, faults, history>>

-----------------------------------------------------------------------------
Init ==
    /\ users = Owner /\ devices = <<>> /\ rows = {}
    /\ req = [r \in Request |-> Idle] /\ added = 0 /\ faults = 0 /\ answer = Nothing
    /\ assigned = [id \in Id |-> "none"] /\ named = [id \in Id |-> 0] /\ contested = {}

Begin(r) ==
    \/ \E imei \in Imei, address \in Address :
          \/ \E owner \in Owner : Add(r, owner, imei, address)
          \/ \E id \in Id : ReadToEdit(r, id, imei, address)
    \/ \E id \in Id : ReadToRemove(r, id) \/ \E owner \in Owner : FindOwner(r, id, owner)
    \/ \E imei \in Imei : FindDevice(r, imei)

Finish(r) ==
    Edit(r) \/ FailEdit(r) \/ Remove(r) \/ Assign(r) \/ FailAssign(r) \/ AnswerAssign(r) \/ Report(r)

Next ==
    \/ \E r \in Request : Begin(r) \/ Finish(r)
    \/ \E owner \in Owner : DeleteUser(owner)

Spec == Init /\ [][Next]_vars

-----------------------------------------------------------------------------
(* The tables have their types, and the keys of the model hold.            *)
TypeOK ==
    /\ users \subseteq Owner /\ rows \subseteq Known /\ contested \subseteq Id
    /\ Known \subseteq 1 .. added
    /\ \A id \in Known : devices[id] \in [imei : Imei, owner : users, address : Address]
    /\ \A r \in Request : req[r].pc \in {"idle", "edit", "remove", "assign", "assigned", "report"}
    /\ added \in 0 .. MaxDevices /\ faults \in 0 .. MaxFaults
    /\ \A id \in Id : assigned[id] \in Owner \cup {"none"} /\ named[id] \in Address

(* A machine that was removed stays so, and leaves no rows: neither an edit*)
(* nor a report that has read it before brings it back (DevicesController. *)
(* cs:119-126, DeviceDbProvider.cs:260-274).                               *)
StaysRemoved == \A id \in 1 .. added : id \notin Known => id \notin Known' /\ id \notin rows'

RemovedStays == [][StaysRemoved]_vars

(* A machine has the owner it was last given and the address it was last   *)
(* given: whole rows and single columns overwrite each other only when an  *)
(* edit or a removal was under way while the owner was set                 *)
(* (DevicesController.cs:119-126, DeviceDbProvider.cs:235-258).            *)
RowAsGiven ==
    \A id \in Known \ contested :
        devices[id].owner = assigned[id] /\ devices[id].address = named[id]

(* A request answered OK was done, unless the database failed or the owner *)
(* to be set went while it ran: the provider swallows both                 *)
(* (DevicesController.cs:97-110, 128-141, 323-336).                        *)
AnswersHold == answer.ok => answer.done \/ answer.fails
=============================================================================
