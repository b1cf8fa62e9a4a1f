------------------------------ MODULE MCOffice ------------------------------
(* The files for download and the table of machines, which share the       *)
(* requests and no table: each behaviour is one of one of them.            *)
EXTENDS Devices, DownloadFiles, TLC

VARIABLE part

filesOnly == <<stores, uploads, page, served, shared, broken>>
tableOnly == <<tables, added, answer, history>>
officeVars == <<part, req, faults, filesOnly, tableOnly>>

\* The tables that a behaviour does not use are empty, so that every property
\* can be asked of every behaviour.
NoFiles ==
    /\ files = <<>> /\ disk = [name \in Name |-> Null] /\ uploads = 0
    /\ lists = <<>> /\ grid = <<>> /\ unsure = FALSE
    /\ served = Null /\ shared = {} /\ broken = {}
NoTable ==
    /\ users = {} /\ devices = <<>> /\ rows = {} /\ added = 0
    /\ answer = Nothing /\ assigned = <<>> /\ named = <<>> /\ contested = {}

OfficeInit ==
    \/ part = "files" /\ FilesInit /\ NoTable
    \/ part = "machines" /\ Init /\ NoFiles

OfficeNext ==
    \/ part = "files" /\ FilesNext /\ UNCHANGED <<part, tableOnly>>
    \/ part = "machines" /\ Next /\ UNCHANGED <<part, filesOnly>>

OfficeSpec == OfficeInit /\ [][OfficeNext]_officeVars

\* The machines and the files, which do not meet, have the same names.
Symmetric == Permutations(Request) \cup Permutations(Imei) \cup Permutations(Owner)
=============================================================================
