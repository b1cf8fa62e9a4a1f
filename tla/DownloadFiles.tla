---------------------------- MODULE DownloadFiles ----------------------------
(***************************************************************************)
(* The files for download (FilesController, FilesDbProvider) and the page  *)
(* of the administrator who keeps them (fileLoad.js): a table of links, a  *)
(* directory of files under the names they were uploaded with, and the     *)
(* page's grid.  A request is a chain of steps on the two stores, and the  *)
(* page sends several at once.                                             *)
(***************************************************************************)
EXTENDS Requests, Sequences

CONSTANTS
    Name,           \* names of files
    Null,
    MaxUploads,     \* bound: uploads ever begun
    MaxLists        \* bound: lists on their way

Seqs == INSTANCE SequencesExt

FileId == 1 .. MaxUploads

VARIABLES
    files,          \* the table: id -> [path, visible]
    disk,           \* the directory: name -> the uploads that wrote into the file
    uploads,        \* uploads begun
    lists,          \* lists on their way: Null until they are read
    grid,           \* what the page shows
    served,         \* the download answered by this step
    shared,         \* history: uploads whose name was another's, too
    broken,         \* history: names whose upload or deletion a failure has cut off
    unsure          \* history: the page's last list overlapped another, or was lost

stores == <<files, disk>>
page == <<lists, grid, unsure>>
filesVars == <<stores, req, uploads, page, served, faults, shared, broken>>

Links == DOMAIN files
Goto(r, pc) == req' = [req EXCEPT ![r].pc = pc]
Done(r) == req' = [req EXCEPT ![r] = [pc |-> "answer"]]

Users(name) ==
    {id \in Links : files[id].path = name}
        \cup {req[r].id : r \in {s \in Request :
                req[s].pc \in {"copy", "link", "unlink", "remove", "send"} /\ req[s].path = name}}

-----------------------------------------------------------------------------
(* Post: the file is created or truncated under its own name, filled, and  *)
(* then linked.  Two uploads of a name write into one file, where the      *)
(* system lets them.                                                       *)
Open(r, name) ==
    /\ At(r, "idle") /\ uploads < MaxUploads
    /\ uploads' = uploads + 1
    /\ req' = [req EXCEPT ![r] = [pc |-> "copy", id |-> uploads', path |-> name, linked |-> TRUE]]
    /\ disk' = [disk EXCEPT ![name] = {}]
    /\ shared' = IF Users(name) = {} THEN shared ELSE shared \cup Users(name) \cup {uploads'}
    /\ served' = Null
    /\ UNCHANGED <<files, page, faults, broken>>

Copy(r) ==
    /\ At(r, "copy")
    /\ disk' = IF req[r].linked THEN [disk EXCEPT ![req[r].path] = @ \cup {req[r].id}] ELSE disk
    /\ Goto(r, "link")
    /\ served' = Null
    /\ UNCHANGED <<files, uploads, page, faults, shared, broken>>

(* Mutated: the link is made while the file is being filled. *)
LinkEarly(r) ==
    /\ req[r].pc \in {"copy", "link"}
    /\ files' = With(files, req[r].id, [path |-> req[r].path, visible |-> FALSE])
    /\ IF At(r, "copy") THEN UNCHANGED req ELSE Done(r)
    /\ served' = Null
    /\ UNCHANGED <<disk, uploads, page, faults, shared, broken>>

Link(r) ==
    /\ At(r, "link")
    /\ files' = With(files, req[r].id, [path |-> req[r].path, visible |-> FALSE])
    /\ Done(r)
    /\ served' = Null
    /\ UNCHANGED <<disk, uploads, page, faults, shared, broken>>

(* The copy breaks off, or the link is not stored: what is in the          *)
(* directory stays there.                                                  *)
FailUpload(r) ==
    /\ req[r].pc \in {"copy", "link"} /\ Fails
    /\ End(r) /\ served' = Null
    /\ broken' = broken \cup {req[r].path}
    /\ UNCHANGED <<stores, uploads, page, shared>>

-----------------------------------------------------------------------------
(* Delete: the link is read, the file removed, then the link.              *)
Find(r, id) ==
    /\ At(r, "idle") /\ id \in Links
    /\ req' = [req EXCEPT ![r] = [pc |-> "unlink", id |-> id, path |-> files[id].path]]
    /\ served' = Null
    /\ UNCHANGED <<stores, uploads, page, faults, shared, broken>>

(* Mutated: the file stays, for others may use its name. *)
UnlinkNever(r) ==
    /\ At(r, "unlink") /\ Goto(r, "remove") /\ served' = Null
    /\ UNCHANGED <<stores, uploads, page, faults, shared, broken>>

Unlink(r) ==
    /\ At(r, "unlink")
    /\ disk' = [disk EXCEPT ![req[r].path] = Null]
    /\ req' = [s \in Request |->
                  IF s = r THEN [req[r] EXCEPT !.pc = "remove"]
                  ELSE IF At(s, "copy") /\ req[s].path = req[r].path
                       THEN [req[s] EXCEPT !.linked = FALSE] ELSE req[s]]
    /\ served' = Null
    /\ UNCHANGED <<files, uploads, page, faults, shared, broken>>

(* A failure is swallowed.                                                 *)
RemoveFile(r) ==
    /\ At(r, "remove")
    /\ \/ files' = Without(files, {req[r].id}) /\ UNCHANGED <<faults, broken>>
       \/ Fails /\ broken' = broken \cup {req[r].path} /\ UNCHANGED files
    /\ Done(r) /\ served' = Null
    /\ UNCHANGED <<disk, uploads, page, shared>>

(* A provider call on one column of a link; a failure is swallowed.        *)
EditFile(r, id, row) ==
    /\ At(r, "idle") /\ id <= uploads
    /\ \/ id \in Links /\ files' = [files EXCEPT ![id] = row] /\ UNCHANGED faults
       \/ id \notin Links /\ UNCHANGED <<files, faults>>
       \/ Fails /\ UNCHANGED files
    /\ Done(r)
    /\ served' = Null
    /\ UNCHANGED <<disk, uploads, page, shared, broken>>

SetVisible(r, id, visible) == EditFile(r, id, [files[id] EXCEPT !.visible = visible])

(* The description is left out of the rows.                                *)
Describe(r, id) == EditFile(r, id, files[id])

(* GetFile: the link is read, the file sent.                               *)
Fetch(r, id) ==
    /\ At(r, "idle") /\ id \in Links
    /\ req' = [req EXCEPT ![r] = [pc |-> "send", id |-> id, path |-> files[id].path]]
    /\ served' = Null
    /\ UNCHANGED <<stores, uploads, page, faults, shared, broken>>

SendFile(r) ==
    /\ At(r, "send") /\ End(r)
    /\ served' = IF disk[req[r].path] = Null THEN Null
                 ELSE [id |-> req[r].id, written |-> disk[req[r].path]]
    /\ UNCHANGED <<stores, uploads, page, faults, shared, broken>>

-----------------------------------------------------------------------------
(* getFiles *)
AskList ==
    /\ Len(lists) < MaxLists
    /\ lists' = Append(lists, Null)
    /\ unsure' = (lists # <<>>)

(* Mutated: nothing follows a change. *)
AnswerOnly(r) ==
    /\ At(r, "answer") /\ End(r) /\ served' = Null
    /\ UNCHANGED <<stores, uploads, page, faults, shared, broken>>

(* A request that was done is followed by a list.                          *)
Answer(r) ==
    /\ At(r, "answer") /\ End(r)
    /\ AskList /\ served' = Null
    /\ UNCHANGED <<stores, uploads, grid, faults, shared, broken>>

initFilePanel ==
    /\ grid' = <<>> /\ AskList /\ served' = Null
    /\ UNCHANGED <<stores, req, uploads, faults, shared, broken>>

ReadList(i) ==
    /\ lists[i] = Null
    /\ lists' = [lists EXCEPT ![i] = files] /\ served' = Null
    /\ UNCHANGED <<stores, req, uploads, grid, unsure, faults, shared, broken>>

ShowList(i) ==
    /\ lists[i] # Null
    /\ grid' = lists[i] /\ lists' = Seqs!RemoveAt(lists, i) /\ served' = Null
    /\ UNCHANGED <<stores, req, uploads, unsure, faults, shared, broken>>

LoseList(i) ==
    /\ Fails
    /\ lists' = Seqs!RemoveAt(lists, i) /\ unsure' = TRUE /\ served' = Null
    /\ UNCHANGED <<stores, req, uploads, grid, shared, broken>>

(* The process dies, and the requests with it.                             *)
Crash ==
    /\ Fails
    /\ broken' = broken \cup {req[r].path :
                     r \in {q \in Request : req[q].pc \in {"copy", "link", "unlink", "remove"}}}
    /\ req' = [r \in Request |-> Idle]
    /\ lists' = <<>> /\ unsure' = TRUE /\ served' = Null
    /\ UNCHANGED <<stores, uploads, grid, shared>>

-----------------------------------------------------------------------------
FilesInit ==
    /\ files = <<>> /\ disk = [name \in Name |-> Null]
    /\ req = [r \in Request |-> Idle] /\ uploads = 0
    /\ lists = <<>> /\ grid = <<>> /\ served = Null
    /\ faults = 0 /\ shared = {} /\ broken = {} /\ unsure = FALSE

Upload(r) ==
    \/ \E name \in Name : Open(r, name)
    \/ Copy(r)
    \/ Link(r)
    \/ FailUpload(r)

Delete(r) ==
    \/ \E id \in FileId : Find(r, id)
    \/ Unlink(r)
    \/ RemoveFile(r)

Download(r) ==
    \/ \E id \in FileId : Fetch(r, id)
    \/ SendFile(r)

FilesNext ==
    \/ \E r \in Request : Upload(r) \/ Delete(r) \/ Download(r) \/ Answer(r)
    \/ \E r \in Request, id \in FileId :
          Describe(r, id) \/ \E visible \in BOOLEAN : SetVisible(r, id, visible)
    \/ initFilePanel
    \/ \E i \in DOMAIN lists : ReadList(i) \/ ShowList(i) \/ LoseList(i)
    \/ Crash

FilesSpec == FilesInit /\ [][FilesNext]_filesVars

-----------------------------------------------------------------------------
Row == [path : Name, visible : BOOLEAN]

(* The two stores and the page have their types.                           *)
FilesTypes ==
    /\ Links \subseteq FileId /\ \A id \in Links : files[id] \in Row
    /\ disk \in [Name -> {Null} \cup SUBSET FileId]
    /\ \A r \in Request :
          req[r].pc \in {"idle", "copy", "link", "unlink", "remove", "send", "answer"}
    /\ uploads \in 0 .. MaxUploads /\ faults \in 0 .. MaxFaults
    /\ shared \subseteq FileId /\ broken \subseteq Name
    /\ \A i \in DOMAIN lists : lists[i] = Null \/ DOMAIN lists[i] \subseteq FileId
    /\ DOMAIN grid \subseteq FileId /\ unsure \in BOOLEAN

(* A link that is not being deleted has its file, whole and its own, unless*)
(* its name was another's too or a failure has cut off what was being done *)
(* to that name; and a download is the file that was uploaded under its    *)
(* link, even if it is deleted meanwhile and whatever fails                *)
(* (FilesController.cs:51-52, 76-88, 167-173).                             *)
FilesAsUploaded ==
    /\ \A id \in Links \ shared :
          \/ disk[files[id].path] = {id} \/ files[id].path \in broken
          \/ \E r \in Request : At(r, "remove") /\ req[r].id = id
    /\ served # Null /\ served.id \notin shared => served.written = {served.id}

(* No file stays behind without a link: what is in the directory is linked *)
(* or in use, whoever shares its name, unless a failure has cut off what   *)
(* was being done to that name (FilesController.cs:76-88, 169-173).        *)
NoFileLeftBehind == \A name \in Name \ broken : disk[name] # Null => Users(name) # {}

(* When everything has been answered, the page shows the table, unless two *)
(* lists were on their way at a time or the last was lost (fileLoad.js:    *)
(* 248-307).                                                               *)
GridIsTable ==
    lists = <<>> /\ ~unsure /\ (\A r \in Request : At(r, "idle")) => grid = files
=============================================================================
