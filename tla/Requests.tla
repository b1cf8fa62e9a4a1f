------------------------------ MODULE Requests ------------------------------
(***************************************************************************)
(* Requests in flight at the web server, each a chain of steps on the      *)
(* tables of the database, any of which may fail.                          *)
(***************************************************************************)
EXTENDS Naturals

CONSTANTS
    Request,        \* requests in flight at a time
    MaxFaults       \* bound: failures of a store, and crashes

VARIABLES
    req,            \* requests: where each is, and what it has read
    faults

Idle == [pc |-> "idle"]
At(r, pc) == req[r].pc = pc
End(r) == req' = [req EXCEPT ![r] = Idle]
Fails == faults < MaxFaults /\ faults' = faults + 1

(* A table with a row stored, and with rows removed.                       *)
With(f, id, row) == [i \in DOMAIN f \cup {id} |-> IF i = id THEN row ELSE f[i]]
Without(f, ids) == [i \in DOMAIN f \ ids |-> f[i]]
=============================================================================
