------------------------ MODULE DownloadFilesProofs ------------------------
(***************************************************************************)
(* Theorems about DownloadFiles, for any number of requests, names,        *)
(* uploads, lists on their way and failures.                               *)
(***************************************************************************)
EXTENDS DownloadFiles, TLAPS

(* The bounds are numbers.                                                 *)
Bounds == MaxUploads \in Nat /\ MaxFaults \in Nat

Resting == [pc : {"idle", "answer"}]
Uploading == [pc : {"copy", "link"}, id : FileId, path : Name, linked : BOOLEAN]
Holding == [pc : {"unlink", "remove", "send"}, id : FileId, path : Name]

RequestState == Resting \cup Uploading \cup Holding

(* The places where a request has an upload, or the link of one.           *)
Busy == {"copy", "link", "unlink", "remove", "send"}
Numbered(q, n) == q.pc \in Busy => q.id \in 1 .. n

Tables == UNION {[ids -> Row] : ids \in SUBSET FileId}

Shapes ==
    /\ files \in Tables /\ Links \subseteq 1 .. uploads
    /\ disk \in [Name -> {Null} \cup SUBSET FileId]
    /\ req \in [Request -> RequestState]
    /\ \A r \in Request : Numbered(req[r], uploads)
    /\ \A r \in Request : At(r, "copy") /\ req[r].linked => disk[req[r].path] \subseteq FileId
    /\ uploads \in 0 .. MaxUploads /\ faults \in 0 .. MaxFaults
    /\ shared \in SUBSET FileId /\ broken \in SUBSET Name
    /\ lists \in Seq({Null} \cup Tables) /\ grid \in Tables /\ unsure \in BOOLEAN

-----------------------------------------------------------------------------
(* Tables: no rows, a row added, rows removed, a row changed.              *)
LEMMA NoRows == <<>> \in Tables /\ DOMAIN <<>> = {}
<1>1. <<>> \in [{} -> Row] /\ {} \in SUBSET FileId
  OBVIOUS
<1>. QED  BY <1>1 DEF Tables

LEMMA TableRows ==
  ASSUME NEW f \in Tables
  PROVE  DOMAIN f \in SUBSET FileId /\ f \in [DOMAIN f -> Row]
  BY DEF Tables

LEMMA RowAdded ==
  ASSUME NEW f \in Tables, NEW id \in FileId, NEW row \in Row
  PROVE  /\ With(f, id, row) \in Tables /\ DOMAIN With(f, id, row) = DOMAIN f \cup {id}
         /\ With(f, id, row)[id] = row
         /\ \A i \in DOMAIN f \ {id} : With(f, id, row)[i] = f[i]
<1>1. DOMAIN f \in SUBSET FileId /\ f \in [DOMAIN f -> Row]
  BY TableRows
<1>2. With(f, id, row) \in [DOMAIN f \cup {id} -> Row]
  BY <1>1 DEF With
<1>. QED  BY <1>1, <1>2 DEF With, Tables

LEMMA RowsRemoved ==
  ASSUME NEW f \in Tables, NEW ids
  PROVE  /\ Without(f, ids) \in Tables /\ DOMAIN Without(f, ids) = DOMAIN f \ ids
         /\ \A i \in DOMAIN f \ ids : Without(f, ids)[i] = f[i]
<1>1. DOMAIN f \in SUBSET FileId /\ f \in [DOMAIN f -> Row]
  BY TableRows
<1>2. Without(f, ids) \in [DOMAIN f \ ids -> Row]
  BY <1>1 DEF Without
<1>. QED  BY <1>1, <1>2 DEF Without, Tables

LEMMA RowChanged ==
  ASSUME NEW f \in Tables, NEW id \in DOMAIN f, NEW row \in Row
  PROVE  /\ [f EXCEPT ![id] = row] \in Tables /\ DOMAIN [f EXCEPT ![id] = row] = DOMAIN f
         /\ [f EXCEPT ![id] = row][id] = row
         /\ \A i \in DOMAIN f \ {id} : [f EXCEPT ![id] = row][i] = f[i]
<1>1. DOMAIN f \in SUBSET FileId /\ f \in [DOMAIN f -> Row]
  BY TableRows
<1>2. [f EXCEPT ![id] = row] \in [DOMAIN f -> Row]
  BY <1>1
<1>. QED  BY <1>1, <1>2 DEF Tables

(* Lists on their way: one taken out.                                      *)
LEMMA ListTaken ==
  ASSUME NEW S, NEW s \in Seq(S), NEW i \in DOMAIN s
  PROVE  Seqs!RemoveAt(s, i) \in Seq(S) /\ (Len(s) = 1 => Seqs!RemoveAt(s, i) = <<>>)
<1>1. i \in 1 .. Len(s) /\ Len(s) \in Nat
  OBVIOUS
<1>2. SubSeq(s, 1, i - 1) \in Seq(S) /\ SubSeq(s, i + 1, Len(s)) \in Seq(S)
  BY <1>1
<1>3. SubSeq(s, 1, i - 1) \o SubSeq(s, i + 1, Len(s)) \in Seq(S)
  BY <1>2
<1>4. Seqs!RemoveAt(s, i) = SubSeq(s, 1, i - 1) \o SubSeq(s, i + 1, Len(s))
  BY DEF Seqs!RemoveAt
<1>5. ASSUME Len(s) = 1 PROVE Seqs!RemoveAt(s, i) = <<>>
  <2>1. i = 1 /\ SubSeq(s, 1, 0) = <<>> /\ SubSeq(s, 2, 1) = <<>>
    BY <1>1, <1>5, SMT
  <2>. QED  BY <1>4, <1>5, <2>1, SMT
<1>. QED  BY <1>3, <1>4, <1>5

LEMMA RequestShapes ==
  ASSUME Shapes, NEW r \in Request
  PROVE  /\ req[r].pc \in {"copy", "link"} => req[r] \in Uploading
         /\ req[r].pc \in {"unlink", "remove", "send"} => req[r] \in Holding
         /\ req[r].pc \in {"idle", "answer", "copy", "link", "unlink", "remove", "send"}
  BY DEF Shapes, RequestState, Resting, Uploading, Holding

LEMMA InitShapes == Bounds /\ FilesInit => Shapes
<1>. SUFFICES ASSUME Bounds, FilesInit PROVE Shapes
  OBVIOUS
<1>1. Idle \in RequestState /\ Idle.pc = "idle"
  BY DEF Idle, RequestState, Resting
<1>2. /\ req \in [Request -> RequestState]
      /\ \A r \in Request : ~At(r, "copy") /\ Numbered(req[r], uploads)
  BY <1>1 DEF FilesInit, At, Numbered, Busy
<1>3. disk \in [Name -> {Null} \cup SUBSET FileId]
  BY DEF FilesInit
<1>4. <<>> \in Seq({Null} \cup Tables)
  OBVIOUS
<1>5. uploads \in 0 .. MaxUploads /\ faults \in 0 .. MaxFaults
  BY DEF FilesInit, Bounds
<1>. QED  BY <1>2, <1>3, <1>4, <1>5, NoRows DEF FilesInit, Shapes, Links

(* A step that moves one request, and touches neither files nor disk.      *)
LEMMA MoveShapes ==
  ASSUME Shapes, NEW r \in Request, NEW q \in RequestState, q.pc # "copy",
         Numbered(q, uploads), req' = [req EXCEPT ![r] = q]
  PROVE  /\ req' \in [Request -> RequestState]
         /\ \A s \in Request : Numbered(req'[s], uploads)
         /\ \A s \in Request : req'[s].pc = "copy" => s # r /\ req'[s] = req[s]
  BY DEF Shapes

LEMMA EndShapes ==
  ASSUME Shapes, NEW r \in Request, End(r) \/ Done(r)
  PROVE  /\ req' \in [Request -> RequestState]
         /\ \A s \in Request : Numbered(req'[s], uploads)
         /\ \A s \in Request : req'[s].pc = "copy" => s # r /\ req'[s] = req[s]
<1>. DEFINE q == IF End(r) THEN Idle ELSE [pc |-> "answer"]
<1>1. /\ q \in RequestState /\ q.pc # "copy" /\ req' = [req EXCEPT ![r] = q]
      /\ Numbered(q, uploads)
  BY DEF End, Done, Idle, RequestState, Resting, Numbered, Busy
<1>. HIDE DEF q
<1>. QED  BY <1>1, MoveShapes

LEMMA FailsShapes == Bounds /\ Shapes /\ Fails => faults' \in 0 .. MaxFaults
  BY DEF Bounds, Shapes, Fails

LEMMA OpenShapes ==
  ASSUME Bounds, Shapes, NEW r \in Request, NEW name \in Name, Open(r, name) PROVE Shapes'
<1>. DEFINE q == [pc |-> "copy", id |-> uploads', path |-> name, linked |-> TRUE]
<1>1. uploads' \in 0 .. MaxUploads /\ uploads' = uploads + 1 /\ uploads' \in FileId
  BY DEF Open, Shapes, Bounds, FileId
<1>2. q \in RequestState /\ q.path = name
  BY <1>1 DEF RequestState, Uploading
<1>3. req' = [req EXCEPT ![r] = q] /\ disk' = [disk EXCEPT ![name] = {}] /\ files' = files
  BY DEF Open
<1>. HIDE DEF q
<1>4. req' \in [Request -> RequestState] /\ disk' \in [Name -> {Null} \cup SUBSET FileId]
  BY <1>2, <1>3 DEF Shapes
<1>5. ASSUME NEW s \in Request, At(s, "copy")', req'[s].linked
      PROVE  disk'[req'[s].path] \subseteq FileId
  <2>1. CASE s = r
    BY <1>2, <1>3, <2>1 DEF Shapes
  <2>2. CASE s # r
    <3>1. req'[s] = req[s] /\ req[s] \in Uploading
      BY <1>3, <1>5, <2>2, RequestShapes DEF At, Shapes
    <3>2. req[s].path \in Name /\ disk[req[s].path] \subseteq FileId
      BY <1>5, <3>1 DEF Shapes, At, Uploading
    <3>. QED  BY <1>3, <3>1, <3>2 DEF Shapes
  <2>. QED  BY <2>1, <2>2
<1>6. Users(name) \subseteq FileId
  <2>1. \A i \in Links : i \in FileId
    BY TableRows DEF Shapes, Links
  <2>2. \A s \in Request : req[s].pc \in {"copy", "link", "unlink", "remove", "send"} =>
                             req[s].id \in FileId
    BY RequestShapes DEF Uploading, Holding
  <2>. QED  BY <2>1, <2>2 DEF Users
<1>7. shared' \in SUBSET FileId
  BY <1>1, <1>6 DEF Open, Shapes
<1>8. Links' \subseteq 1 .. uploads'
  BY <1>1, <1>3 DEF Shapes, Links
<1>9. \A s \in Request : Numbered(req'[s], uploads')
  <2>1. q.id \in 1 .. uploads' /\ 1 .. uploads \subseteq 1 .. uploads'
    BY <1>1 DEF Shapes, q
  <2>. QED  BY <1>3, <2>1 DEF Shapes, Numbered
<1>. QED  BY <1>1, <1>3, <1>4, <1>5, <1>7, <1>8, <1>9 DEF Open, Shapes, page

LEMMA CopyShapes == ASSUME Shapes, NEW r \in Request, Copy(r) PROVE Shapes'
<1>. DEFINE q == [req[r] EXCEPT !.pc = "link"]
<1>1. req[r] \in Uploading /\ req[r].pc = "copy"
  BY RequestShapes DEF Copy, At
<1>2. /\ q \in RequestState /\ q.pc # "copy" /\ req' = [req EXCEPT ![r] = q]
      /\ Numbered(q, uploads)
  BY <1>1 DEF RequestState, Uploading, Copy, Goto, Shapes, Numbered, Busy
<1>. HIDE DEF q
<1>3. /\ req' \in [Request -> RequestState] /\ \A s \in Request : Numbered(req'[s], uploads)
      /\ \A s \in Request : req'[s].pc = "copy" => s # r /\ req'[s] = req[s]
  BY <1>2, MoveShapes
<1>4. /\ disk' \in [Name -> {Null} \cup SUBSET FileId]
      /\ \A name \in Name : disk[name] \subseteq FileId => disk'[name] \subseteq FileId
  <2>1. CASE req[r].linked
    <3>1. req[r].id \in FileId /\ req[r].path \in Name /\ disk[req[r].path] \subseteq FileId
      BY <1>1, <2>1 DEF Shapes, Uploading, At
    <3>. QED  BY <2>1, <3>1 DEF Copy, Shapes
  <2>2. CASE ~req[r].linked
    BY <2>2 DEF Copy, Shapes
  <2>. QED  BY <2>1, <2>2
<1>5. ASSUME NEW s \in Request, At(s, "copy")', req'[s].linked
      PROVE  disk'[req'[s].path] \subseteq FileId
  <2>1. req'[s] = req[s] /\ req[s] \in Uploading /\ disk[req[s].path] \subseteq FileId
    BY <1>3, <1>5, RequestShapes DEF At, Shapes
  <2>. QED  BY <1>4, <2>1 DEF Uploading
<1>. QED  BY <1>3, <1>4, <1>5 DEF Copy, Shapes, page, Links

LEMMA UnlinkShapes == ASSUME Shapes, NEW r \in Request, Unlink(r) PROVE Shapes'
<1>1. req[r] \in Holding /\ req[r].path \in Name
  BY RequestShapes DEF Unlink, At, Holding
<1>2. disk' \in [Name -> {Null} \cup SUBSET FileId]
  BY <1>1 DEF Unlink, Shapes
<1>3. ASSUME NEW s \in Request
      PROVE  /\ req'[s] \in RequestState /\ Numbered(req'[s], uploads)
             /\ req'[s].pc = "copy" /\ req'[s].linked =>
                  /\ req[s].pc = "copy" /\ req[s].linked /\ req'[s].path = req[s].path
                  /\ req[s].path # req[r].path
  <2>1. CASE s = r
    <3>1. req'[s] = [req[r] EXCEPT !.pc = "remove"]
      BY <2>1 DEF Unlink
    <3>. QED  BY <1>1, <3>1 DEF Holding, RequestState, Shapes, Numbered, Busy, Unlink, At
  <2>2. CASE s # r /\ At(s, "copy") /\ req[s].path = req[r].path
    <3>1. req'[s] = [req[s] EXCEPT !.linked = FALSE] /\ req[s] \in Uploading
      BY <2>2, RequestShapes DEF Unlink, At
    <3>. QED  BY <2>2, <3>1 DEF Uploading, RequestState, Shapes, Numbered, Busy, At
  <2>3. CASE s # r /\ ~(At(s, "copy") /\ req[s].path = req[r].path)
    BY <2>3 DEF Unlink, Shapes, At
  <2>. QED  BY <2>1, <2>2, <2>3
<1>4. req' \in [Request -> RequestState]
  <2>1. req' = [s \in Request |-> req'[s]]
    BY DEF Unlink
  <2>. QED  BY <1>3, <2>1
<1>5. ASSUME NEW s \in Request, At(s, "copy")', req'[s].linked
      PROVE  disk'[req'[s].path] \subseteq FileId
  <2>1. /\ req[s].pc = "copy" /\ req[s].linked /\ req'[s].path = req[s].path
        /\ req[s].path # req[r].path
    BY <1>3, <1>5 DEF At
  <2>2. disk'[req[s].path] = disk[req[s].path]
    BY <1>1, <2>1, RequestShapes DEF Unlink, Shapes, Uploading
  <2>. QED  BY <2>1, <2>2 DEF Shapes, At
<1>. QED  BY <1>2, <1>3, <1>4, <1>5 DEF Unlink, Shapes, page, Links

(* Every other step leaves the directory alone, and begins no copy.        *)
LEMMA StepShapes ==
  ASSUME Shapes, disk' = disk, uploads' = uploads, shared' = shared,
         req' \in [Request -> RequestState], \A s \in Request : Numbered(req'[s], uploads),
         \A s \in Request : req'[s].pc = "copy" => req'[s] = req[s],
         files' \in Tables, Links' \subseteq 1 .. uploads, faults' \in 0 .. MaxFaults,
         broken' \in SUBSET Name, lists' \in Seq({Null} \cup Tables), grid' \in Tables,
         unsure' \in BOOLEAN
  PROVE  Shapes'
  BY DEF Shapes, At

LEMMA LinkShapes == ASSUME Shapes, NEW r \in Request, Link(r) PROVE Shapes'
<1>. DEFINE row == [path |-> req[r].path, visible |-> FALSE]
<1>1. req[r].id \in FileId /\ req[r].id \in 1 .. uploads /\ row \in Row
  BY RequestShapes DEF Link, At, Uploading, Row, Shapes, Numbered, Busy
<1>. HIDE DEF row
<1>2. files' = With(files, req[r].id, row)
  BY DEF Link, row
<1>3. files' \in Tables /\ Links' = Links \cup {req[r].id}
  BY <1>1, <1>2, RowAdded DEF Shapes, Links
<1>4. Links' \subseteq 1 .. uploads
  BY <1>1, <1>3 DEF Shapes
<1>. QED  BY <1>3, <1>4, EndShapes, StepShapes DEF Link, Shapes, page

LEMMA FailUploadShapes ==
  ASSUME Bounds, Shapes, NEW r \in Request, FailUpload(r) PROVE Shapes'
<1>1. req[r].path \in Name
  BY RequestShapes DEF FailUpload, Uploading
<1>. QED  BY <1>1, EndShapes, FailsShapes, StepShapes DEF FailUpload, Shapes, page, stores, Links

(* A link is read for a request.                                           *)
LEMMA BeginShapes ==
  ASSUME Shapes, NEW r \in Request, NEW id \in FileId, Find(r, id) \/ Fetch(r, id) PROVE Shapes'
<1>1. PICK q : /\ q \in RequestState /\ q.pc # "copy" /\ Numbered(q, uploads)
               /\ req' = [req EXCEPT ![r] = q]
  <2>1. files[id].path \in Name /\ id \in 1 .. uploads
    BY TableRows DEF Find, Fetch, Shapes, Links, Row
  <2>2. \A pc \in {"unlink", "send"} :
          [pc |-> pc, id |-> id, path |-> files[id].path] \in Holding
    BY <2>1 DEF Holding
  <2>. QED  BY <2>1, <2>2 DEF Find, Fetch, RequestState, Numbered
<1>. QED  BY <1>1, MoveShapes, StepShapes DEF Find, Fetch, Shapes, page, stores, Links

LEMMA RemoveFileShapes ==
  ASSUME Bounds, Shapes, NEW r \in Request, RemoveFile(r) PROVE Shapes'
<1>1. req[r].path \in Name
  BY RequestShapes DEF RemoveFile, At, Holding
<1>2. files' \in Tables /\ Links' \subseteq Links
  <2>1. CASE files' = files
    BY <2>1 DEF Shapes, Links
  <2>2. CASE files' = Without(files, {req[r].id})
    <3>1. files \in Tables
      BY DEF Shapes
    <3>. QED  BY <2>2, <3>1, RowsRemoved DEF Links
  <2>. QED  BY <2>1, <2>2 DEF RemoveFile
<1>3. faults' \in 0 .. MaxFaults /\ broken' \in SUBSET Name
  BY <1>1, FailsShapes DEF RemoveFile, Shapes
<1>. QED  BY <1>2, <1>3, EndShapes, StepShapes DEF RemoveFile, Shapes, page

LEMMA EditFileShapes ==
  ASSUME Bounds, Shapes, NEW r \in Request, NEW id \in FileId, NEW row,
         id \in Links => row \in Row, EditFile(r, id, row)
  PROVE  Shapes'
<1>1. files' \in Tables /\ Links' = Links
  BY RowChanged DEF EditFile, Shapes, Links
<1>2. faults' \in 0 .. MaxFaults
  BY FailsShapes DEF EditFile, Shapes
<1>. QED  BY <1>1, <1>2, EndShapes, StepShapes DEF EditFile, Shapes, page

LEMMA AskShapes ==
  ASSUME NEW S, lists \in Seq({Null} \cup S), AskList
  PROVE  lists' \in Seq({Null} \cup S) /\ unsure' \in BOOLEAN
  BY DEF AskList

LEMMA EndOnlyShapes ==
  ASSUME Shapes, NEW r \in Request, SendFile(r) \/ Answer(r) PROVE Shapes'
<1>1. lists' \in Seq({Null} \cup Tables) /\ unsure' \in BOOLEAN
  <2>1. lists \in Seq({Null} \cup Tables) /\ unsure \in BOOLEAN
    BY DEF Shapes
  <2>. QED  BY <2>1, AskShapes DEF SendFile, Answer, page
<1>. QED  BY <1>1, EndShapes, StepShapes DEF SendFile, Answer, Shapes, page, stores, Links

LEMMA PageShapes ==
  ASSUME Bounds, Shapes,
         initFilePanel \/ \E i \in DOMAIN lists : ReadList(i) \/ ShowList(i) \/ LoseList(i)
  PROVE  Shapes'
<1>1. /\ lists' \in Seq({Null} \cup Tables) /\ grid' \in Tables /\ unsure' \in BOOLEAN
      /\ faults' \in 0 .. MaxFaults /\ UNCHANGED <<stores, req, uploads, shared, broken>>
  <2>1. CASE initFilePanel
    BY <2>1, NoRows DEF initFilePanel, AskList, Shapes
  <2>2. ASSUME NEW i \in DOMAIN lists, ReadList(i)
        PROVE  lists' \in Seq({Null} \cup Tables)
    BY <2>2 DEF ReadList, Shapes
  <2>3. ASSUME NEW i \in DOMAIN lists, ShowList(i)
        PROVE  lists' \in Seq({Null} \cup Tables) /\ grid' \in Tables
    <3>1. lists \in Seq({Null} \cup Tables) /\ lists[i] \in {Null} \cup Tables
      BY DEF Shapes
    <3>. QED  BY <2>3, <3>1, ListTaken DEF ShowList
  <2>4. ASSUME NEW i \in DOMAIN lists, LoseList(i)
        PROVE  lists' \in Seq({Null} \cup Tables) /\ faults' \in 0 .. MaxFaults
    <3>1. lists \in Seq({Null} \cup Tables)
      BY DEF Shapes
    <3>. QED  BY <2>4, <3>1, ListTaken, FailsShapes DEF LoseList
  <2>. QED  BY <2>1, <2>2, <2>3, <2>4 DEF ReadList, ShowList, LoseList, Shapes
<1>. QED  BY <1>1, StepShapes DEF Shapes, stores, Links

LEMMA CrashShapes == ASSUME Bounds, Shapes, Crash PROVE Shapes'
<1>1. \A r \in Request : req[r].pc \in {"copy", "link", "unlink", "remove"} => req[r].path \in Name
  BY RequestShapes DEF Uploading, Holding
<1>2. broken' \in SUBSET Name
  BY <1>1 DEF Crash, Shapes
<1>3. /\ req' \in [Request -> RequestState]
      /\ \A s \in Request : req'[s].pc # "copy" /\ Numbered(req'[s], uploads)
  <2>1. Idle \in RequestState /\ Idle.pc = "idle"
    BY DEF Idle, RequestState, Resting
  <2>. QED  BY <2>1 DEF Crash, Numbered, Busy
<1>4. <<>> \in Seq({Null} \cup Tables)
  OBVIOUS
<1>. QED  BY <1>2, <1>3, <1>4, FailsShapes, StepShapes DEF Crash, Shapes, stores, Links

(* The steps of a request, for the proofs by cases that follow.            *)
LEMMA FilesSteps ==
  ASSUME Shapes, FilesNext
  PROVE  \/ \E r \in Request :
              \/ \E name \in Name : Open(r, name)
              \/ Copy(r) \/ Link(r) \/ FailUpload(r) \/ Unlink(r) \/ RemoveFile(r)
              \/ \E id \in FileId : Find(r, id) \/ Fetch(r, id)
              \/ \E id \in FileId : \E row :
                   /\ EditFile(r, id, row)
                   /\ id \in Links => row \in Row /\ row.path = files[id].path
              \/ SendFile(r) \/ Answer(r)
         \/ initFilePanel \/ \E i \in DOMAIN lists : ReadList(i) \/ ShowList(i) \/ LoseList(i)
         \/ Crash
<1>. USE DEF FilesNext
<1>1. \A id \in Links : files[id] \in Row
  BY TableRows DEF Shapes, Links
<1>2. ASSUME NEW r \in Request, NEW id \in FileId,
             Describe(r, id) \/ \E visible \in BOOLEAN : SetVisible(r, id, visible)
      PROVE  \E row : /\ EditFile(r, id, row)
                      /\ id \in Links => row \in Row /\ row.path = files[id].path
  <2>1. \A visible \in BOOLEAN : id \in Links =>
          /\ [files[id] EXCEPT !.visible = visible] \in Row
          /\ [files[id] EXCEPT !.visible = visible].path = files[id].path
    BY <1>1 DEF Row
  <2>. QED  BY <1>1, <1>2, <2>1 DEF Describe, SetVisible
<1>3. CASE \E r \in Request, id \in FileId :
             Describe(r, id) \/ \E visible \in BOOLEAN : SetVisible(r, id, visible)
  BY <1>2, <1>3
<1>4. CASE \E r \in Request : Upload(r) \/ Delete(r) \/ Download(r) \/ Answer(r)
  BY <1>4 DEF Upload, Delete, Download
<1>. QED  BY <1>3, <1>4

LEMMA NextShapes == Bounds /\ Shapes /\ [FilesNext]_filesVars => Shapes'
<1>. SUFFICES ASSUME Bounds, Shapes, [FilesNext]_filesVars PROVE Shapes'
  OBVIOUS
<1>1. CASE UNCHANGED filesVars
  BY <1>1 DEF filesVars, stores, page, Shapes, Links, At, Numbered
<1>2. CASE FilesNext
  BY <1>2, FilesSteps, OpenShapes, CopyShapes, LinkShapes, FailUploadShapes, UnlinkShapes,
     RemoveFileShapes, BeginShapes, EditFileShapes, EndOnlyShapes, PageShapes, CrashShapes
<1>. QED  BY <1>1, <1>2

(* The two stores and the page keep their types, whatever overlaps and     *)
(* fails (FilesController.cs:44-173, fileLoad.js:192-307).                 *)
THEOREM TypeCorrect == ASSUME Bounds PROVE FilesSpec => []FilesTypes
<1>1. Shapes => FilesTypes
  <2>. SUFFICES ASSUME Shapes PROVE FilesTypes
    OBVIOUS
  <2>1. Links \subseteq FileId /\ \A id \in Links : files[id] \in Row
    BY TableRows DEF Shapes, Links
  <2>2. \A i \in DOMAIN lists : lists[i] \in {Null} \cup Tables
    BY DEF Shapes
  <2>. QED  BY <2>1, <2>2, TableRows, RequestShapes DEF Shapes, FilesTypes
<1>. QED  BY <1>1, InitShapes, NextShapes, PTL DEF FilesSpec

-----------------------------------------------------------------------------
(***************************************************************************)
(* What a step does to the requests and to the links, as far as the        *)
(* arguments below need it.                                                *)
(***************************************************************************)
Uploads(q) == q.pc \in {"copy", "link"}
Holds(q) == q.pc \in {"unlink", "remove", "send"}
SameAs(p, q) == p.pc = q.pc /\ (q.pc \in Busy => p.id = q.id /\ p.path = q.path)

OthersKeep(r) == \A s \in Request \ {r} : SameAs(req'[s], req[s])
LinksKeep == Links' \subseteq Links /\ \A i \in Links' : files'[i].path = files[i].path

LEMMA OpenStep ==
  ASSUME Shapes, NEW r \in Request, NEW name \in Name, Open(r, name)
  PROVE  /\ OthersKeep(r) /\ LinksKeep
         /\ req[r].pc = "idle" /\ req'[r].pc = "copy" /\ req'[r].linked
         /\ req'[r].id = uploads + 1 /\ req'[r].path = name
  BY DEF Open, Shapes, OthersKeep, SameAs, LinksKeep, Links, At

LEMMA CopyStep ==
  ASSUME Shapes, NEW r \in Request, Copy(r)
  PROVE  /\ OthersKeep(r) /\ LinksKeep
         /\ req[r].pc = "copy" /\ req'[r].pc = "link"
         /\ req'[r].id = req[r].id /\ req'[r].path = req[r].path
         /\ req[r].id \in FileId /\ req[r].path \in Name
<1>1. req[r] \in Uploading
  BY RequestShapes DEF Copy, At
<1>. QED  BY <1>1 DEF Copy, Goto, Shapes, OthersKeep, SameAs, LinksKeep, Links, At, Uploading

LEMMA UnlinkStep ==
  ASSUME Shapes, NEW r \in Request, Unlink(r)
  PROVE  /\ OthersKeep(r) /\ LinksKeep
         /\ req[r].pc = "unlink" /\ req'[r].pc = "remove"
         /\ req'[r].id = req[r].id /\ req'[r].path = req[r].path
         /\ \A s \in Request \ {r} : At(s, "copy") /\ req[s].path # req[r].path => req'[s] = req[s]
<1>1. req[r] \in Holding /\ req'[r] = [req[r] EXCEPT !.pc = "remove"]
  BY RequestShapes DEF Unlink, At
<1>2. ASSUME NEW s \in Request \ {r}
      PROVE  /\ SameAs(req'[s], req[s])
             /\ At(s, "copy") /\ req[s].path # req[r].path => req'[s] = req[s]
  <2>1. CASE At(s, "copy") /\ req[s].path = req[r].path
    <3>1. req'[s] = [req[s] EXCEPT !.linked = FALSE] /\ req[s] \in Uploading
      BY <2>1, RequestShapes DEF Unlink, At
    <3>. QED  BY <2>1, <3>1 DEF Uploading, SameAs
  <2>2. CASE ~(At(s, "copy") /\ req[s].path = req[r].path)
    BY <2>2 DEF Unlink, SameAs
  <2>. QED  BY <2>1, <2>2
<1>3. LinksKeep
  BY DEF Unlink, LinksKeep, Links
<1>. QED  BY <1>1, <1>2, <1>3 DEF Holding, OthersKeep, Unlink, At

LEMMA LinkStep ==
  ASSUME Shapes, NEW r \in Request, Link(r)
  PROVE  /\ OthersKeep(r) /\ req[r].pc = "link" /\ req'[r].pc = "answer"
         /\ Links' = Links \cup {req[r].id} /\ files'[req[r].id].path = req[r].path
         /\ \A i \in Links \ {req[r].id} : files'[i] = files[i]
<1>. DEFINE row == [path |-> req[r].path, visible |-> FALSE]
<1>1. req[r].id \in FileId /\ row \in Row /\ row.path = req[r].path
  BY RequestShapes DEF Link, At, Uploading, Row
<1>. HIDE DEF row
<1>2. files' = With(files, req[r].id, row) /\ files \in Tables
  BY DEF Link, row, Shapes
<1>3. OthersKeep(r) /\ req[r].pc = "link" /\ req'[r].pc = "answer"
  BY DEF Link, Done, At, OthersKeep, SameAs, Shapes
<1>. QED  BY <1>1, <1>2, <1>3, RowAdded DEF Links

LEMMA BeginStep ==
  ASSUME Shapes, NEW r \in Request, NEW id \in FileId, Find(r, id) \/ Fetch(r, id)
  PROVE  /\ OthersKeep(r) /\ LinksKeep
         /\ req[r].pc = "idle" /\ req'[r].pc \in {"unlink", "send"}
         /\ req'[r].id = id /\ id \in Links /\ req'[r].path = files[id].path
  BY DEF Find, Fetch, Shapes, OthersKeep, SameAs, LinksKeep, Links, At, stores

LEMMA RemoveFileStep ==
  ASSUME Shapes, NEW r \in Request, RemoveFile(r)
  PROVE  /\ OthersKeep(r) /\ LinksKeep /\ req[r].pc = "remove" /\ req'[r].pc = "answer"
         /\ \/ Links' = Links \ {req[r].id} /\ broken' = broken
            \/ Links' = Links /\ broken' = broken \cup {req[r].path}
<1>1. OthersKeep(r) /\ req[r].pc = "remove" /\ req'[r].pc = "answer"
  BY DEF RemoveFile, Done, At, OthersKeep, SameAs, Shapes
<1>2. CASE files' = Without(files, {req[r].id}) /\ broken' = broken
  <2>1. files \in Tables
    BY DEF Shapes
  <2>. DEFINE gone == {req[r].id}
  <2>2. /\ DOMAIN Without(files, gone) = DOMAIN files \ gone
        /\ \A i \in DOMAIN files \ gone : Without(files, gone)[i] = files[i]
    BY <2>1, RowsRemoved
  <2>3. Links' = Links \ gone /\ \A i \in Links \ gone : files'[i] = files[i]
    BY <1>2, <2>2 DEF Links
  <2>. QED  BY <1>1, <1>2, <2>3 DEF LinksKeep
<1>3. CASE files' = files /\ broken' = broken \cup {req[r].path}
  BY <1>1, <1>3 DEF LinksKeep, Links
<1>. QED  BY <1>2, <1>3 DEF RemoveFile

LEMMA EditFileStep ==
  ASSUME Shapes, NEW r \in Request, NEW id \in FileId, NEW row, EditFile(r, id, row),
         id \in Links => row \in Row /\ row.path = files[id].path
  PROVE  /\ OthersKeep(r) /\ LinksKeep /\ Links' = Links
         /\ req[r].pc = "idle" /\ req'[r].pc = "answer"
<1>1. OthersKeep(r) /\ req[r].pc = "idle" /\ req'[r].pc = "answer"
  BY DEF EditFile, Done, At, OthersKeep, SameAs, Shapes
<1>2. CASE files' = files
  BY <1>1, <1>2 DEF LinksKeep, Links
<1>3. CASE id \in Links /\ files' = [files EXCEPT ![id] = row]
  <2>1. files \in Tables
    BY DEF Shapes
  <2>. QED  BY <1>1, <1>3, <2>1, RowChanged DEF LinksKeep, Links
<1>. QED  BY <1>2, <1>3 DEF EditFile

LEMMA EndStep ==
  ASSUME Shapes, NEW r \in Request, FailUpload(r) \/ SendFile(r) \/ Answer(r)
  PROVE  /\ OthersKeep(r) /\ LinksKeep /\ Links' = Links /\ req'[r].pc = "idle"
         /\ req[r].pc \notin {"idle", "unlink", "remove"}
  BY DEF FailUpload, SendFile, Answer, End, Idle, OthersKeep, SameAs, LinksKeep, Links, Shapes,
         At, stores

LEMMA PageStep ==
  ASSUME initFilePanel \/ \E i \in DOMAIN lists : ReadList(i) \/ ShowList(i) \/ LoseList(i)
  PROVE  UNCHANGED <<stores, req, uploads, shared, broken>> /\ served' = Null
  BY DEF initFilePanel, ReadList, ShowList, LoseList

-----------------------------------------------------------------------------
(***************************************************************************)
(* An upload has its id to itself until it is linked, and who holds a link *)
(* has its path.                                                           *)
(***************************************************************************)
OwnIds ==
    \A r \in Request : Uploads(req[r]) =>
        /\ req[r].id \notin Links
        /\ \A s \in Request \ {r} : req[s].pc \in Busy => req[s].id # req[r].id

OwnPaths ==
    \A r \in Request : Holds(req[r]) /\ req[r].id \in Links => req[r].path = files[req[r].id].path

Ids == OwnIds /\ OwnPaths

LEMMA Numbers ==
  ASSUME Shapes
  PROVE  /\ \A i \in Links : i \in FileId /\ i \in Nat /\ i <= uploads /\ files[i].path \in Name
         /\ \A r \in Request : req[r].pc \in Busy =>
              /\ req[r].id \in FileId /\ req[r].id \in Nat /\ req[r].id <= uploads
              /\ req[r].path \in Name
         /\ uploads \in Nat
<1>1. uploads \in Nat
  BY DEF Shapes
<1>2. ASSUME NEW i \in Links PROVE i \in FileId /\ i \in 1 .. uploads /\ files[i].path \in Name
  BY TableRows DEF Shapes, Links, Row
<1>3. ASSUME NEW r \in Request, req[r].pc \in Busy
      PROVE  req[r].id \in FileId /\ req[r].path \in Name /\ req[r].id \in 1 .. uploads
  BY <1>3, RequestShapes DEF Shapes, Numbered, Busy, Uploading, Holding
<1>. QED  BY <1>1, <1>2, <1>3

(* A step of one request that keeps the links, and gives the request       *)
(* nothing that another has.                                               *)
LEMMA KeepIds ==
  ASSUME Ids, NEW r \in Request, OthersKeep(r), LinksKeep,
         Uploads(req'[r]) =>
            \/ Uploads(req[r]) /\ req'[r].id = req[r].id
            \/ /\ req'[r].id \notin Links
               /\ \A s \in Request \ {r} : req[s].pc \in Busy => req[s].id # req'[r].id,
         Holds(req'[r]) =>
            /\ req'[r].id \in Links => req'[r].path = files[req'[r].id].path
            /\ \A s \in Request \ {r} : Uploads(req[s]) => req[s].id # req'[r].id
  PROVE  Ids'
<1>1. OwnIds'
  BY DEF Ids, OwnIds, OthersKeep, SameAs, LinksKeep, Uploads, Holds, Busy
<1>2. OwnPaths'
  BY DEF Ids, OwnPaths, OthersKeep, SameAs, LinksKeep, Holds, Busy
<1>. QED  BY <1>1, <1>2 DEF Ids

LEMMA NextIds == Shapes /\ Ids /\ [FilesNext]_filesVars => Ids'
<1>. SUFFICES ASSUME Shapes, Ids, [FilesNext]_filesVars PROVE Ids'
  OBVIOUS
<1>1. ASSUME NEW r \in Request, NEW name \in Name, Open(r, name) PROVE Ids'
  BY <1>1, OpenStep, Numbers, KeepIds DEF Uploads, Holds
<1>2. ASSUME NEW r \in Request, Copy(r) PROVE Ids'
  BY <1>2, CopyStep, KeepIds DEF Uploads, Holds
<1>3. ASSUME NEW r \in Request, Unlink(r) PROVE Ids'
  BY <1>3, UnlinkStep, KeepIds DEF Uploads, Holds, Ids, OwnIds, OwnPaths, Busy
<1>4. ASSUME NEW r \in Request, Link(r) PROVE Ids'
  <2>1. /\ OthersKeep(r) /\ req[r].pc = "link" /\ req'[r].pc = "answer"
        /\ Links' = Links \cup {req[r].id} /\ files'[req[r].id].path = req[r].path
        /\ \A i \in Links \ {req[r].id} : files'[i] = files[i]
    BY <1>4, LinkStep
  <2>2. \A s \in Request \ {r} : req[s].pc \in Busy => req[s].id # req[r].id
    BY <2>1 DEF Ids, OwnIds, Uploads
  <2>3. OwnIds'
    BY <2>1, <2>2 DEF Ids, OwnIds, OthersKeep, SameAs, Uploads, Busy
  <2>4. OwnPaths'
    BY <2>1, <2>2 DEF Ids, OwnPaths, OthersKeep, SameAs, Holds, Busy
  <2>. QED  BY <2>3, <2>4 DEF Ids
<1>5. ASSUME NEW r \in Request, NEW id \in FileId, Find(r, id) \/ Fetch(r, id) PROVE Ids'
  BY <1>5, BeginStep, KeepIds DEF Uploads, Holds, Ids, OwnIds
<1>6. ASSUME NEW r \in Request, RemoveFile(r) PROVE Ids'
  BY <1>6, RemoveFileStep, KeepIds DEF Uploads, Holds
<1>7. ASSUME NEW r \in Request, NEW id \in FileId, NEW row, EditFile(r, id, row),
             id \in Links => row \in Row /\ row.path = files[id].path
      PROVE  Ids'
  BY <1>7, EditFileStep, KeepIds DEF Uploads, Holds
<1>8. ASSUME NEW r \in Request, FailUpload(r) \/ SendFile(r) \/ Answer(r) PROVE Ids'
  BY <1>8, EndStep, KeepIds DEF Uploads, Holds
<1>9. CASE initFilePanel \/ \E i \in DOMAIN lists : ReadList(i) \/ ShowList(i) \/ LoseList(i)
  BY <1>9, PageStep DEF Ids, OwnIds, OwnPaths, Links, stores
<1>10. CASE Crash
  BY <1>10 DEF Crash, Idle, Ids, OwnIds, OwnPaths, Uploads, Holds
<1>11. CASE UNCHANGED filesVars
  BY <1>11 DEF filesVars, stores, Ids, OwnIds, OwnPaths, Links
<1>. QED  BY <1>1, <1>2, <1>3, <1>4, <1>5, <1>6, <1>7, <1>8, <1>9, <1>10, <1>11, FilesSteps

LEMMA InitIds == FilesInit => Ids
  BY DEF FilesInit, Idle, Ids, OwnIds, OwnPaths, Uploads, Holds

-----------------------------------------------------------------------------
(***************************************************************************)
(* No file stays behind: what is in the directory is being uploaded, or is *)
(* linked and nobody is about to remove the link.                          *)
(***************************************************************************)
Held(name) ==
    \/ \E r \in Request : Uploads(req[r]) /\ req[r].path = name
    \/ \E i \in Links : /\ files[i].path = name
                        /\ \A r \in Request : At(r, "remove") => req[r].id # i

HeldInv == \A name \in Name \ broken : disk[name] # Null => Held(name)

(* Whoever uploads a file, or a link that nobody is about to remove, still *)
(* holds the file after another's step.                                    *)
LEMMA UploadHolds ==
  ASSUME NEW r \in Request, OthersKeep(r), NEW s \in Request \ {r}, NEW name,
         Uploads(req[s]), req[s].path = name
  PROVE  Held(name)'
<1>1. Uploads(req'[s]) /\ req'[s].path = name
  BY DEF OthersKeep, SameAs, Uploads, Busy
<1>. QED  BY <1>1 DEF Held

LEMMA LinkHolds ==
  ASSUME NEW r \in Request, OthersKeep(r), NEW name, NEW i \in Links', files'[i].path = name,
         \A s \in Request : At(s, "remove") => req[s].id # i,
         At(r, "remove")' => req'[r].id # i
  PROVE  Held(name)'
<1>1. \A s \in Request : At(s, "remove")' => req'[s].id # i
  BY DEF OthersKeep, SameAs, At, Busy
<1>. QED  BY <1>1 DEF Held

(* A holder remains one, but for one whose upload ends or whose link is    *)
(* about to go.                                                            *)
LEMMA KeepHeld ==
  ASSUME NEW r \in Request, OthersKeep(r), LinksKeep, NEW name \in Name, Held(name),
         Uploads(req[r]) => Uploads(req'[r]) /\ req'[r].path = req[r].path,
         At(r, "remove")' => At(r, "remove") /\ req'[r].id = req[r].id,
         Links' = Links
  PROVE  Held(name)'
<1>1. ASSUME NEW s \in Request, Uploads(req[s]), req[s].path = name PROVE Held(name)'
  BY <1>1, UploadHolds DEF Held
<1>2. ASSUME NEW i \in Links, files[i].path = name,
             \A s \in Request : At(s, "remove") => req[s].id # i
      PROVE  Held(name)'
  BY <1>2, LinkHolds DEF LinksKeep, At
<1>. QED  BY <1>1, <1>2 DEF Held

LEMMA NextHeld == Shapes /\ Ids /\ HeldInv /\ [FilesNext]_filesVars => HeldInv'
<1>. SUFFICES ASSUME Shapes, Ids, HeldInv, [FilesNext]_filesVars,
                     NEW name \in Name, name \notin broken', disk'[name] # Null
              PROVE  Held(name)'
  BY DEF HeldInv
<1>0. name \notin broken /\ disk[name] # Null => Held(name)
  BY DEF HeldInv
<1>1. ASSUME NEW r \in Request, NEW path \in Name, Open(r, path) PROVE Held(name)'
  <2>1. /\ OthersKeep(r) /\ LinksKeep /\ req[r].pc = "idle" /\ req'[r].pc = "copy"
        /\ req'[r].path = path
    BY <1>1, OpenStep
  <2>2. CASE path = name
    BY <2>1, <2>2 DEF Held, Uploads
  <2>3. CASE path # name
    <3>1. disk'[name] = disk[name] /\ broken' = broken /\ Links' = Links
      BY <1>1, <2>3 DEF Open, Shapes, Links
    <3>. QED  BY <1>0, <2>1, <3>1, KeepHeld DEF Uploads, At
  <2>. QED  BY <2>2, <2>3
<1>2. ASSUME NEW r \in Request, Copy(r) PROVE Held(name)'
  <2>1. /\ OthersKeep(r) /\ LinksKeep /\ req[r].pc = "copy" /\ req'[r].pc = "link"
        /\ req'[r].path = req[r].path
    BY <1>2, CopyStep
  <2>2. CASE req[r].path = name
    BY <2>1, <2>2 DEF Held, Uploads
  <2>3. CASE req[r].path # name
    <3>1. disk'[name] = disk[name] /\ broken' = broken /\ Links' = Links
      BY <1>2, <2>3 DEF Copy, Shapes, Links
    <3>. QED  BY <1>0, <2>1, <3>1, KeepHeld DEF Uploads, At
  <2>. QED  BY <2>2, <2>3
<1>3. ASSUME NEW r \in Request, Unlink(r) PROVE Held(name)'
  <2>1. /\ OthersKeep(r) /\ LinksKeep /\ req[r].pc = "unlink" /\ req'[r].pc = "remove"
        /\ req'[r].id = req[r].id
    BY <1>3, UnlinkStep
  <2>2. req[r].path # name /\ disk'[name] = disk[name] /\ broken' = broken /\ files' = files
    BY <1>3 DEF Unlink, Shapes
  <2>3. ASSUME NEW s \in Request, Uploads(req[s]), req[s].path = name PROVE Held(name)'
    BY <2>1, <2>3, UploadHolds DEF Uploads
  <2>4. ASSUME NEW i \in Links, files[i].path = name,
               \A s \in Request : At(s, "remove") => req[s].id # i
        PROVE  Held(name)'
    <3>1. req[r].id # i
      BY <2>1, <2>2, <2>4 DEF Ids, OwnPaths, Holds
    <3>. QED  BY <2>1, <2>2, <2>4, <3>1, LinkHolds DEF Links
  <2>. QED  BY <1>0, <2>2, <2>3, <2>4 DEF Held
<1>4. ASSUME NEW r \in Request, Link(r) PROVE Held(name)'
  <2>1. /\ OthersKeep(r) /\ req[r].pc = "link" /\ req'[r].pc = "answer"
        /\ Links' = Links \cup {req[r].id} /\ files'[req[r].id].path = req[r].path
        /\ \A i \in Links \ {req[r].id} : files'[i] = files[i]
    BY <1>4, LinkStep
  <2>2. /\ req[r].id \notin Links
        /\ \A s \in Request \ {r} : req[s].pc \in Busy => req[s].id # req[r].id
    BY <2>1 DEF Ids, OwnIds, Uploads
  <2>3. CASE req[r].path = name
    <3>1. \A s \in Request : At(s, "remove")' => req'[s].id # req[r].id
      BY <2>1, <2>2 DEF OthersKeep, SameAs, At, Busy
    <3>. QED  BY <2>1, <2>3, <3>1 DEF Held
  <2>4. CASE req[r].path # name
    <3>1. disk' = disk /\ broken' = broken
      BY <1>4 DEF Link
    <3>2. ASSUME NEW s \in Request, Uploads(req[s]), req[s].path = name PROVE Held(name)'
      BY <2>1, <2>4, <3>2, UploadHolds
    <3>3. ASSUME NEW i \in Links, files[i].path = name,
                 \A s \in Request : At(s, "remove") => req[s].id # i
          PROVE  Held(name)'
      <4>1. i \in Links' /\ files'[i].path = name
        BY <2>1, <2>2, <3>3
      <4>. QED  BY <2>1, <3>3, <4>1, LinkHolds DEF At
    <3>. QED  BY <1>0, <3>1, <3>2, <3>3 DEF Held
  <2>. QED  BY <2>3, <2>4
<1>5. ASSUME NEW r \in Request, NEW id \in FileId, Find(r, id) \/ Fetch(r, id) PROVE Held(name)'
  <2>1. OthersKeep(r) /\ LinksKeep /\ req[r].pc = "idle" /\ req'[r].pc \in {"unlink", "send"}
    BY <1>5, BeginStep
  <2>2. disk' = disk /\ broken' = broken /\ Links' = Links
    BY <1>5 DEF Find, Fetch, stores, Links
  <2>. QED  BY <1>0, <2>1, <2>2, KeepHeld DEF Uploads, At
<1>6. ASSUME NEW r \in Request, RemoveFile(r) PROVE Held(name)'
  <2>1. /\ OthersKeep(r) /\ LinksKeep /\ req[r].pc = "remove" /\ req'[r].pc = "answer"
        /\ \/ Links' = Links \ {req[r].id} /\ broken' = broken
           \/ Links' = Links /\ broken' = broken \cup {req[r].path}
    BY <1>6, RemoveFileStep
  <2>2. disk' = disk /\ name \notin broken
    BY <1>6, <2>1 DEF RemoveFile
  <2>3. ASSUME NEW s \in Request, Uploads(req[s]), req[s].path = name PROVE Held(name)'
    BY <2>1, <2>3, UploadHolds DEF Uploads
  <2>4. ASSUME NEW i \in Links, files[i].path = name,
               \A s \in Request : At(s, "remove") => req[s].id # i
        PROVE  Held(name)'
    <3>1. i \in Links' /\ files'[i].path = name
      BY <2>1, <2>4 DEF LinksKeep, At
    <3>. QED  BY <2>1, <2>4, <3>1, LinkHolds DEF At
  <2>. QED  BY <1>0, <2>2, <2>3, <2>4 DEF Held
<1>7. ASSUME NEW r \in Request, NEW id \in FileId, NEW row, EditFile(r, id, row),
             id \in Links => row \in Row /\ row.path = files[id].path
      PROVE  Held(name)'
  <2>1. /\ OthersKeep(r) /\ LinksKeep /\ Links' = Links
        /\ req[r].pc = "idle" /\ req'[r].pc = "answer"
    BY <1>7, EditFileStep
  <2>2. disk' = disk /\ broken' = broken
    BY <1>7 DEF EditFile
  <2>. QED  BY <1>0, <2>1, <2>2, KeepHeld DEF Uploads, At
<1>8. ASSUME NEW r \in Request, SendFile(r) \/ Answer(r) PROVE Held(name)'
  <2>1. OthersKeep(r) /\ LinksKeep /\ Links' = Links /\ req'[r].pc = "idle"
    BY <1>8, EndStep
  <2>2. disk' = disk /\ broken' = broken /\ req[r].pc \in {"send", "answer"}
    BY <1>8 DEF SendFile, Answer, stores, At
  <2>. QED  BY <1>0, <2>1, <2>2, KeepHeld DEF Uploads, At
<1>9. ASSUME NEW r \in Request, FailUpload(r) PROVE Held(name)'
  <2>1. OthersKeep(r) /\ LinksKeep /\ Links' = Links /\ req'[r].pc = "idle"
    BY <1>9, EndStep
  <2>2. disk' = disk /\ name \notin broken /\ req[r].path # name
    BY <1>9 DEF FailUpload, stores
  <2>3. ASSUME NEW s \in Request, Uploads(req[s]), req[s].path = name PROVE Held(name)'
    BY <2>1, <2>2, <2>3, UploadHolds
  <2>4. ASSUME NEW i \in Links, files[i].path = name,
               \A s \in Request : At(s, "remove") => req[s].id # i
        PROVE  Held(name)'
    <3>1. i \in Links' /\ files'[i].path = name
      BY <2>1, <2>4 DEF LinksKeep
    <3>. QED  BY <2>1, <2>4, <3>1, LinkHolds DEF At
  <2>. QED  BY <1>0, <2>2, <2>3, <2>4 DEF Held
<1>10. CASE initFilePanel \/ \E i \in DOMAIN lists : ReadList(i) \/ ShowList(i) \/ LoseList(i)
  BY <1>0, <1>10, PageStep DEF Held, Links, At, stores
<1>11. CASE Crash
  <2>1. /\ disk' = disk /\ files' = files /\ name \notin broken
        /\ \A s \in Request : ~At(s, "remove")'
        /\ \A s \in Request : Uploads(req[s]) => req[s].path # name
    BY <1>11 DEF Crash, stores, Idle, Uploads, At
  <2>. QED  BY <1>0, <2>1 DEF Held, Links
<1>12. CASE UNCHANGED filesVars
  BY <1>0, <1>12 DEF filesVars, stores, Held, Links, At
<1>. QED  BY <1>1, <1>2, <1>3, <1>4, <1>5, <1>6, <1>7, <1>8, <1>9, <1>10, <1>11, <1>12, FilesSteps

(* No file stays behind without a link, whoever shares its name, unless a  *)
(* failure has cut off what was being done to that name                    *)
(* (FilesController.cs:76-88, 169-173).                                    *)
THEOREM HeldCorrect == ASSUME Bounds PROVE FilesSpec => []NoFileLeftBehind
<1>1. FilesInit => HeldInv
  BY DEF FilesInit, HeldInv
<1>2. HeldInv => NoFileLeftBehind
  BY DEF HeldInv, Held, NoFileLeftBehind, Users, Uploads
<1>. QED
  BY <1>1, <1>2, InitShapes, NextShapes, InitIds, NextIds, NextHeld, PTL DEF FilesSpec

-----------------------------------------------------------------------------
(***************************************************************************)
(* Contents: an upload that has shared its name with none is the only one  *)
(* that its name belongs to, so that nobody else writes its file or        *)
(* removes it.                                                             *)
(***************************************************************************)
Alone == \A name \in Name : \A i \in Users(name) \ shared : Users(name) = {i}

(* What is in the file of a request's upload, and of a link's.             *)
FileAt(q) ==
    /\ q.pc = "copy" => q.linked /\ disk[q.path] = {}
    /\ q.pc = "link" => disk[q.path] = {q.id}
    /\ Holds(q) => disk[q.path] \in {Null, {q.id}}

FileOf(i) ==
    LET path == files[i].path IN
    /\ disk[path] \in {Null, {i}}
    /\ \/ disk[path] = {i} \/ path \in broken
       \/ \E r \in Request : At(r, "remove") /\ req[r].id = i

ContentInv ==
    /\ \A r \in Request : req[r].pc \in Busy /\ req[r].id \notin shared => FileAt(req[r])
    /\ \A i \in Links \ shared : FileOf(i)

ServedInv == served # Null => served.id \in shared \/ served.written = {served.id}

LEMMA UsersAre ==
  ASSUME NEW name, NEW i
  PROVE  /\ i \in Users(name) <=>
              \/ i \in Links /\ files[i].path = name
              \/ \E r \in Request : req[r].pc \in Busy /\ req[r].path = name /\ req[r].id = i
         /\ i \in Users(name)' <=>
              \/ i \in Links' /\ files'[i].path = name
              \/ \E r \in Request : req'[r].pc \in Busy /\ req'[r].path = name /\ req'[r].id = i
  BY DEF Users, Busy

(* Only an upload that begins is a new user of a name.                     *)
LEMMA KeepUsers ==
  ASSUME Shapes, Ids, NEW r \in Request, OthersKeep(r), LinksKeep, NEW name,
         req'[r].pc \in Busy =>
            \/ req[r].pc \in Busy /\ req'[r].id = req[r].id /\ req'[r].path = req[r].path
            \/ req'[r].id \in Links /\ req'[r].path = files[req'[r].id].path
  PROVE  Users(name)' \subseteq Users(name)
<1>1. ASSUME NEW i, i \in Links', files'[i].path = name PROVE i \in Users(name)
  BY <1>1, UsersAre DEF LinksKeep
<1>2. ASSUME NEW s \in Request, req'[s].pc \in Busy, req'[s].path = name
      PROVE  req'[s].id \in Users(name)
  <2>1. CASE s = r
    BY <1>2, <2>1, UsersAre
  <2>2. CASE s # r
    BY <1>2, <2>2, UsersAre DEF OthersKeep, SameAs
  <2>. QED  BY <2>1, <2>2
<1>. QED  BY <1>1, <1>2, UsersAre

LEMMA StepUsers ==
  ASSUME Shapes, Ids, [FilesNext]_filesVars, NEW name \in Name
  PROVE  \/ Users(name)' \subseteq Users(name) /\ shared \subseteq shared'
         \/ \E r \in Request :
              /\ Open(r, name) /\ Users(name)' \subseteq Users(name) \cup {uploads + 1}
<1>1. ASSUME NEW r \in Request, NEW path \in Name, Open(r, path)
      PROVE  /\ Users(name)' \subseteq Users(name) \cup {uploads + 1}
             /\ path # name => Users(name)' \subseteq Users(name)
             /\ shared \subseteq shared'
  <2>1. /\ OthersKeep(r) /\ LinksKeep /\ req'[r].id = uploads + 1 /\ req'[r].path = path
    BY <1>1, OpenStep
  <2>2. ASSUME NEW i, i \in Links', files'[i].path = name PROVE i \in Users(name)
    BY <2>1, <2>2, UsersAre DEF LinksKeep
  <2>3. ASSUME NEW s \in Request, req'[s].pc \in Busy, req'[s].path = name, s # r
        PROVE  req'[s].id \in Users(name)
    BY <2>1, <2>3, UsersAre DEF OthersKeep, SameAs
  <2>4. shared \subseteq shared'
    BY <1>1 DEF Open
  <2>. QED  BY <2>1, <2>2, <2>3, <2>4, UsersAre
<1>2. ASSUME NEW r \in Request, Copy(r) \/ Unlink(r)
      PROVE  Users(name)' \subseteq Users(name) /\ shared' = shared
  <2>1. shared' = shared
    BY <1>2 DEF Copy, Unlink
  <2>. QED  BY <1>2, <2>1, CopyStep, UnlinkStep, KeepUsers DEF Busy
<1>3. ASSUME NEW r \in Request, Link(r)
      PROVE  Users(name)' \subseteq Users(name) /\ shared' = shared
  <2>1. /\ OthersKeep(r) /\ req[r].pc = "link" /\ req'[r].pc = "answer"
        /\ Links' = Links \cup {req[r].id} /\ files'[req[r].id].path = req[r].path
        /\ \A i \in Links \ {req[r].id} : files'[i] = files[i]
    BY <1>3, LinkStep
  <2>2. ASSUME NEW i, i \in Links', files'[i].path = name PROVE i \in Users(name)
    BY <2>1, <2>2, UsersAre DEF Busy
  <2>3. ASSUME NEW s \in Request, req'[s].pc \in Busy, req'[s].path = name
        PROVE  req'[s].id \in Users(name)
    <3>1. s # r
      BY <2>1, <2>3 DEF Busy
    <3>. QED  BY <2>1, <2>3, <3>1, UsersAre DEF OthersKeep, SameAs
  <2>4. shared' = shared
    BY <1>3 DEF Link
  <2>. QED  BY <2>2, <2>3, <2>4, UsersAre
<1>4. ASSUME NEW r \in Request, NEW id \in FileId, Find(r, id) \/ Fetch(r, id)
      PROVE  Users(name)' \subseteq Users(name) /\ shared' = shared
  <2>1. shared' = shared
    BY <1>4 DEF Find, Fetch
  <2>. QED  BY <1>4, <2>1, BeginStep, KeepUsers
<1>5. ASSUME NEW r \in Request,
             \/ RemoveFile(r) \/ FailUpload(r) \/ SendFile(r) \/ Answer(r)
             \/ \E id \in FileId : \E row :
                  /\ EditFile(r, id, row)
                  /\ id \in Links => row \in Row /\ row.path = files[id].path
      PROVE  Users(name)' \subseteq Users(name) /\ shared' = shared
  <2>1. OthersKeep(r) /\ LinksKeep /\ req'[r].pc \in {"idle", "answer"}
    BY <1>5, RemoveFileStep, EndStep, EditFileStep
  <2>2. shared' = shared
    BY <1>5 DEF RemoveFile, FailUpload, SendFile, Answer, EditFile
  <2>. QED  BY <2>1, <2>2, KeepUsers DEF Busy
<1>6. CASE \/ initFilePanel \/ \E i \in DOMAIN lists : ReadList(i) \/ ShowList(i) \/ LoseList(i)
           \/ UNCHANGED filesVars
  <2>1. UNCHANGED <<files, req, shared>>
    BY <1>6, PageStep DEF filesVars, stores
  <2>. QED  BY <2>1 DEF Users, Links
<1>7. CASE Crash
  <2>1. /\ files' = files /\ shared' = shared /\ \A r \in Request : req'[r].pc = "idle"
    BY <1>7 DEF Crash, stores, Idle
  <2>. QED  BY <2>1, UsersAre DEF Busy, Links
<1>. QED  BY <1>1, <1>2, <1>3, <1>4, <1>5, <1>6, <1>7, FilesSteps

LEMMA NextAlone == Shapes /\ Ids /\ Alone /\ [FilesNext]_filesVars => Alone'
<1>. SUFFICES ASSUME Shapes, Ids, Alone, [FilesNext]_filesVars,
                     NEW name \in Name, NEW i \in Users(name)', i \notin shared'
              PROVE  Users(name)' = {i}
  BY DEF Alone
<1>1. CASE Users(name)' \subseteq Users(name) /\ shared \subseteq shared'
  <2>1. i \in Users(name) \ shared
    BY <1>1
  <2>2. Users(name) = {i}
    BY <2>1 DEF Alone
  <2>. QED  BY <1>1, <2>2
<1>2. ASSUME NEW r \in Request, Open(r, name), Users(name)' \subseteq Users(name) \cup {uploads + 1}
      PROVE  Users(name)' = {i}
  <2>1. shared' = IF Users(name) = {} THEN shared ELSE shared \cup Users(name) \cup {uploads + 1}
    BY <1>2 DEF Open
  <2>2. Users(name) = {}
    BY <1>2, <2>1
  <2>. QED  BY <1>2, <2>2
<1>. QED  BY <1>1, <1>2, StepUsers

LEMMA SoleUser ==
  ASSUME Alone, NEW name \in Name, NEW i \in Users(name) \ shared, NEW j \in Users(name)
  PROVE  i = j
  BY DEF Alone

(* A step that leaves the files of others alone.                           *)
LEMMA KeepContent ==
  ASSUME Shapes, Ids, ContentInv, NEW r \in Request, OthersKeep(r),
         \A s \in Request \ {r} : At(s, "copy") /\ req[s].id \notin shared => req'[s] = req[s],
         LinksKeep, shared \subseteq shared', broken \subseteq broken',
         \A s \in Request \ {r} :
            req[s].pc \in Busy /\ req[s].id \notin shared' => disk'[req[s].path] = disk[req[s].path],
         \A i \in Links' \ shared' : disk'[files[i].path] = disk[files[i].path],
         At(r, "remove") /\ req[r].id \in Links' => files[req[r].id].path \in broken',
         req'[r].pc \in Busy /\ req'[r].id \notin shared' => FileAt(req[r])'
  PROVE  ContentInv'
<1>1. ASSUME NEW s \in Request, req'[s].pc \in Busy, req'[s].id \notin shared', s # r
      PROVE  FileAt(req[s])'
  <2>1. /\ req[s].pc = req'[s].pc /\ req[s].id = req'[s].id /\ req[s].path = req'[s].path
        /\ FileAt(req[s]) /\ disk'[req[s].path] = disk[req[s].path]
    BY <1>1 DEF OthersKeep, SameAs, ContentInv
  <2>2. req[s].pc = "copy" => req'[s] = req[s]
    BY <1>1, <2>1 DEF At
  <2>. QED  BY <2>1, <2>2 DEF FileAt, Holds
<1>2. ASSUME NEW i \in Links', i \notin shared' PROVE FileOf(i)'
  <2>1. i \in Links /\ FileOf(i) /\ files'[i].path = files[i].path
    BY <1>2 DEF LinksKeep, ContentInv
  <2>2. disk'[files[i].path] = disk[files[i].path]
    BY <1>2
  <2>3. ASSUME NEW s \in Request, At(s, "remove"), req[s].id = i
        PROVE  files[i].path \in broken' \/ (At(s, "remove")' /\ req'[s].id = i)
    BY <1>2, <2>3 DEF OthersKeep, SameAs, At, Busy
  <2>. QED  BY <2>1, <2>2, <2>3 DEF FileOf
<1>. QED  BY <1>1, <1>2 DEF ContentInv

LEMMA OpenContent ==
  ASSUME Shapes, Ids, Alone, ContentInv, NEW r \in Request, NEW name \in Name, Open(r, name)
  PROVE  ContentInv'
<1>1. /\ OthersKeep(r) /\ LinksKeep /\ req[r].pc = "idle" /\ req'[r].pc = "copy" /\ req'[r].linked
      /\ req'[r].path = name
  BY OpenStep
<1>2. /\ shared' = IF Users(name) = {} THEN shared ELSE shared \cup Users(name) \cup {uploads + 1}
      /\ disk'[name] = {} /\ \A n \in Name \ {name} : disk'[n] = disk[n]
      /\ broken' = broken /\ Links' = Links
      /\ \A s \in Request \ {r} : req'[s] = req[s]
  BY DEF Open, Shapes, Links
<1>3. ASSUME NEW s \in Request, req[s].pc \in Busy, req[s].id \notin shared'
      PROVE  disk'[req[s].path] = disk[req[s].path]
  <2>1. req[s].path # name
    BY <1>2, <1>3, UsersAre
  <2>. QED  BY <1>2, <1>3, <2>1, Numbers
<1>4. ASSUME NEW i \in Links', i \notin shared' PROVE disk'[files[i].path] = disk[files[i].path]
  <2>1. i \in Links /\ files[i].path # name
    BY <1>2, <1>4, UsersAre
  <2>. QED  BY <1>2, <2>1, Numbers
<1>5. FileAt(req[r])'
  BY <1>1, <1>2 DEF FileAt, Holds
<1>6. shared \subseteq shared' /\ ~At(r, "remove")
  BY <1>1, <1>2 DEF At
<1>. QED  BY <1>1, <1>2, <1>3, <1>4, <1>5, <1>6, KeepContent

LEMMA CopyContent ==
  ASSUME Shapes, Ids, Alone, ContentInv, NEW r \in Request, Copy(r) PROVE ContentInv'
<1>1. /\ OthersKeep(r) /\ LinksKeep /\ req[r].pc = "copy" /\ req'[r].pc = "link"
      /\ req'[r].id = req[r].id /\ req'[r].path = req[r].path
      /\ req[r].id \in FileId /\ req[r].path \in Name
  BY CopyStep
<1>2. /\ shared' = shared /\ broken' = broken /\ Links' = Links
      /\ \A s \in Request \ {r} : req'[s] = req[s]
      /\ \A n \in Name \ {req[r].path} : disk'[n] = disk[n]
      /\ req[r].linked => disk'[req[r].path] = disk[req[r].path] \cup {req[r].id}
  BY <1>1 DEF Copy, Goto, Shapes, Links
<1>3. /\ req[r].id \notin Links
      /\ \A s \in Request \ {r} : req[s].pc \in Busy => req[s].id # req[r].id
  BY <1>1 DEF Ids, OwnIds, Uploads
<1>4. req[r].id \in Users(req[r].path)
  BY <1>1, UsersAre DEF Busy
<1>5. ASSUME NEW s \in Request \ {r}, req[s].pc \in Busy, req[s].id \notin shared
      PROVE  disk'[req[s].path] = disk[req[s].path]
  <2>1. req[s].path \in Name /\ req[s].id \in Users(req[s].path)
    BY <1>5, Numbers, UsersAre
  <2>2. req[s].path # req[r].path
    BY <1>3, <1>4, <1>5, <2>1, SoleUser
  <2>. QED  BY <1>2, <2>1, <2>2
<1>6. ASSUME NEW i \in Links \ shared PROVE disk'[files[i].path] = disk[files[i].path]
  <2>1. files[i].path \in Name /\ i \in Users(files[i].path)
    BY Numbers, UsersAre
  <2>2. files[i].path # req[r].path
    BY <1>3, <1>4, <2>1, SoleUser
  <2>. QED  BY <1>2, <2>1, <2>2
<1>7. ASSUME req[r].id \notin shared PROVE FileAt(req[r])'
  <2>1. req[r].linked /\ disk[req[r].path] = {}
    BY <1>1, <1>7 DEF ContentInv, FileAt, Busy
  <2>. QED  BY <1>1, <1>2, <2>1 DEF FileAt, Holds
<1>8. ~At(r, "remove")
  BY <1>1 DEF At
<1>. QED  BY <1>1, <1>2, <1>5, <1>6, <1>7, <1>8, KeepContent

LEMMA UnlinkContent ==
  ASSUME Shapes, Ids, Alone, ContentInv, NEW r \in Request, Unlink(r) PROVE ContentInv'
<1>1. /\ OthersKeep(r) /\ LinksKeep /\ req[r].pc = "unlink" /\ req'[r].pc = "remove"
      /\ req'[r].id = req[r].id /\ req'[r].path = req[r].path
      /\ \A s \in Request \ {r} : At(s, "copy") /\ req[s].path # req[r].path => req'[s] = req[s]
  BY UnlinkStep
<1>2. /\ shared' = shared /\ broken' = broken /\ Links' = Links /\ files' = files
      /\ \A n \in Name \ {req[r].path} : disk'[n] = disk[n]
      /\ req[r].path \in Name => disk'[req[r].path] = Null
  BY DEF Unlink, Shapes, Links
<1>3. req[r].path \in Name /\ req[r].id \in Users(req[r].path)
  BY <1>1, Numbers, UsersAre DEF Busy
<1>4. ASSUME NEW s \in Request, req'[s].pc \in Busy, req'[s].id \notin shared, s # r
      PROVE  FileAt(req[s])'
  <2>1. /\ req[s].pc = req'[s].pc /\ req[s].id = req'[s].id /\ req[s].path = req'[s].path
        /\ FileAt(req[s]) /\ req[s].path \in Name /\ req[s].id \in Users(req[s].path)
    BY <1>1, <1>4, Numbers, UsersAre DEF OthersKeep, SameAs, ContentInv
  <2>2. CASE req[s].path = req[r].path
    <3>1. req[s].id = req[r].id
      BY <1>3, <1>4, <2>1, <2>2, SoleUser
    <3>2. ~Uploads(req[s])
      BY <1>1, <1>4, <3>1 DEF Ids, OwnIds, Busy
    <3>3. disk'[req'[s].path] = Null
      BY <1>2, <1>3, <2>1, <2>2
    <3>. QED  BY <2>1, <3>2, <3>3 DEF FileAt, Holds, Uploads
  <2>3. CASE req[s].path # req[r].path
    <3>1. req[s].pc = "copy" => req'[s] = req[s]
      BY <1>1, <1>4, <2>3 DEF At
    <3>2. disk'[req'[s].path] = disk[req[s].path]
      BY <1>2, <2>1, <2>3
    <3>. QED  BY <2>1, <3>1, <3>2 DEF FileAt, Holds
  <2>. QED  BY <2>2, <2>3
<1>5. FileAt(req[r])'
  BY <1>1, <1>2, <1>3 DEF FileAt, Holds
<1>6. ASSUME NEW i \in Links \ shared PROVE FileOf(i)'
  <2>1. files[i].path \in Name /\ i \in Users(files[i].path) /\ FileOf(i)
    BY Numbers, UsersAre DEF ContentInv
  <2>2. CASE files[i].path = req[r].path
    <3>1. req[r].id = i
      BY <1>3, <2>1, <2>2, SoleUser
    <3>2. At(r, "remove")' /\ req'[r].id = i
      BY <1>1, <3>1 DEF At
    <3>. QED  BY <1>2, <1>3, <2>2, <3>2 DEF FileOf
  <2>3. CASE files[i].path # req[r].path
    <3>1. disk'[files[i].path] = disk[files[i].path]
      BY <1>2, <2>1, <2>3
    <3>2. \A s \in Request : At(s, "remove") => At(s, "remove")' /\ req'[s].id = req[s].id
      BY <1>1 DEF OthersKeep, SameAs, At, Busy
    <3>. QED  BY <1>2, <2>1, <3>1, <3>2 DEF FileOf
  <2>. QED  BY <2>2, <2>3
<1>. QED  BY <1>2, <1>4, <1>5, <1>6 DEF ContentInv

LEMMA LinkContent ==
  ASSUME Shapes, Ids, ContentInv, NEW r \in Request, Link(r) PROVE ContentInv'
<1>1. /\ OthersKeep(r) /\ req[r].pc = "link" /\ req'[r].pc = "answer"
      /\ Links' = Links \cup {req[r].id} /\ files'[req[r].id].path = req[r].path
      /\ \A i \in Links \ {req[r].id} : files'[i] = files[i]
  BY LinkStep
<1>2. /\ shared' = shared /\ broken' = broken /\ disk' = disk /\ req[r].id \notin Links
      /\ \A s \in Request \ {r} : req'[s] = req[s]
  BY <1>1 DEF Link, Done, Shapes, Ids, OwnIds, Uploads
<1>3. ASSUME NEW s \in Request, req'[s].pc \in Busy, req'[s].id \notin shared'
      PROVE  FileAt(req[s])'
  <2>1. s # r /\ req'[s] = req[s]
    BY <1>1, <1>2, <1>3 DEF Busy
  <2>. QED  BY <1>2, <1>3, <2>1 DEF ContentInv, FileAt, Holds
<1>4. ASSUME NEW i \in Links', i \notin shared PROVE FileOf(i)'
  <2>1. CASE i = req[r].id
    <3>1. disk[req[r].path] = {i}
      BY <1>1, <1>4, <2>1 DEF ContentInv, FileAt, Busy
    <3>. QED  BY <1>1, <1>2, <2>1, <3>1 DEF FileOf
  <2>2. CASE i # req[r].id
    <3>1. i \in Links /\ files'[i] = files[i] /\ FileOf(i)
      BY <1>1, <1>4, <2>2 DEF ContentInv
    <3>2. \A s \in Request : At(s, "remove") => At(s, "remove")' /\ req'[s].id = req[s].id
      BY <1>1, <1>2 DEF At
    <3>. QED  BY <1>2, <3>1, <3>2 DEF FileOf
  <2>. QED  BY <2>1, <2>2
<1>. QED  BY <1>2, <1>3, <1>4 DEF ContentInv

LEMMA NextContent == Shapes /\ Ids /\ Alone /\ ContentInv /\ [FilesNext]_filesVars => ContentInv'
<1>. SUFFICES ASSUME Shapes, Ids, Alone, ContentInv, [FilesNext]_filesVars PROVE ContentInv'
  OBVIOUS
<1>1. ASSUME NEW r \in Request, NEW id \in FileId, Find(r, id) \/ Fetch(r, id) PROVE ContentInv'
  <2>1. /\ OthersKeep(r) /\ LinksKeep /\ req[r].pc = "idle" /\ req'[r].pc \in {"unlink", "send"}
        /\ req'[r].id = id /\ id \in Links /\ req'[r].path = files[id].path
    BY <1>1, BeginStep
  <2>2. /\ shared' = shared /\ broken' = broken /\ disk' = disk
        /\ \A s \in Request \ {r} : req'[s] = req[s]
    BY <1>1 DEF Find, Fetch, Shapes, stores
  <2>3. req'[r].id \notin shared' => FileAt(req[r])'
    BY <2>1, <2>2 DEF ContentInv, FileOf, FileAt, Holds
  <2>4. ~At(r, "remove")
    BY <2>1 DEF At
  <2>. QED  BY <2>1, <2>2, <2>3, <2>4, KeepContent
<1>2. ASSUME NEW r \in Request, RemoveFile(r) PROVE ContentInv'
  <2>1. /\ OthersKeep(r) /\ LinksKeep /\ req[r].pc = "remove" /\ req'[r].pc = "answer"
        /\ \/ Links' = Links \ {req[r].id} /\ broken' = broken
           \/ Links' = Links /\ broken' = broken \cup {req[r].path}
    BY <1>2, RemoveFileStep
  <2>2. /\ shared' = shared /\ disk' = disk /\ broken \subseteq broken'
        /\ \A s \in Request \ {r} : req'[s] = req[s]
    BY <1>2, <2>1 DEF RemoveFile, Done, Shapes
  <2>3. req[r].id \in Links' => files[req[r].id].path \in broken'
    BY <2>1 DEF Ids, OwnPaths, Holds
  <2>4. req'[r].pc \notin Busy
    BY <2>1 DEF Busy
  <2>. QED  BY <2>1, <2>2, <2>3, <2>4, KeepContent
<1>3. ASSUME NEW r \in Request, NEW id \in FileId, NEW row, EditFile(r, id, row),
             id \in Links => row \in Row /\ row.path = files[id].path
      PROVE  ContentInv'
  <2>1. /\ OthersKeep(r) /\ LinksKeep /\ req[r].pc = "idle" /\ req'[r].pc = "answer"
    BY <1>3, EditFileStep
  <2>2. /\ shared' = shared /\ disk' = disk /\ broken' = broken
        /\ \A s \in Request \ {r} : req'[s] = req[s]
    BY <1>3 DEF EditFile, Done, Shapes
  <2>3. ~At(r, "remove") /\ req'[r].pc \notin Busy
    BY <2>1 DEF At, Busy
  <2>. QED  BY <2>1, <2>2, <2>3, KeepContent
<1>4. ASSUME NEW r \in Request, FailUpload(r) \/ SendFile(r) \/ Answer(r) PROVE ContentInv'
  <2>1. /\ OthersKeep(r) /\ LinksKeep /\ req'[r].pc = "idle"
        /\ req[r].pc \notin {"idle", "unlink", "remove"}
    BY <1>4, EndStep
  <2>2. /\ shared' = shared /\ disk' = disk /\ broken \subseteq broken'
        /\ \A s \in Request \ {r} : req'[s] = req[s]
    BY <1>4 DEF FailUpload, SendFile, Answer, End, Shapes, stores
  <2>3. ~At(r, "remove") /\ req'[r].pc \notin Busy
    BY <2>1 DEF At, Busy
  <2>. QED  BY <2>1, <2>2, <2>3, KeepContent
<1>5. CASE \/ initFilePanel \/ \E i \in DOMAIN lists : ReadList(i) \/ ShowList(i) \/ LoseList(i)
           \/ UNCHANGED filesVars
  <2>1. UNCHANGED <<files, disk, req, shared, broken>>
    BY <1>5, PageStep DEF filesVars, stores
  <2>. QED  BY <2>1 DEF ContentInv, FileAt, FileOf, Holds, Links, At
<1>6. CASE Crash
  <2>1. /\ UNCHANGED <<files, disk, shared>> /\ broken \subseteq broken'
        /\ \A r \in Request : req'[r].pc = "idle"
        /\ \A r \in Request : At(r, "remove") => req[r].path \in broken'
    BY <1>6 DEF Crash, stores, Idle, At
  <2>2. ASSUME NEW i \in Links \ shared PROVE FileOf(i)'
    <3>1. FileOf(i)
      BY DEF ContentInv
    <3>2. \A r \in Request : At(r, "remove") /\ req[r].id = i => files[i].path \in broken'
      BY <2>1 DEF Ids, OwnPaths, Holds, At
    <3>. QED  BY <2>1, <3>1, <3>2 DEF FileOf
  <2>. QED  BY <2>1, <2>2 DEF ContentInv, Busy, Links
<1>. QED
  BY <1>1, <1>2, <1>3, <1>4, <1>5, <1>6, OpenContent, CopyContent, UnlinkContent, LinkContent,
     FilesSteps

LEMMA NextServed == Shapes /\ ContentInv /\ ServedInv /\ [FilesNext]_filesVars => ServedInv'
<1>. SUFFICES ASSUME Shapes, ContentInv, ServedInv, [FilesNext]_filesVars PROVE ServedInv'
  OBVIOUS
<1>1. ASSUME NEW r \in Request, SendFile(r) PROVE ServedInv'
  <2>1. req[r].id \in shared \/ disk[req[r].path] \in {Null, {req[r].id}}
    BY <1>1 DEF SendFile, At, ContentInv, FileAt, Holds, Busy
  <2>. QED  BY <1>1, <2>1 DEF SendFile, ServedInv
<1>2. CASE FilesNext /\ ~\E r \in Request : SendFile(r)
  <2>1. served' = Null
    BY <1>2, FilesSteps, PageStep
       DEF Open, Copy, Link, FailUpload, Unlink, RemoveFile, Find, Fetch, EditFile, Answer, Crash
  <2>. QED  BY <2>1 DEF ServedInv
<1>3. CASE UNCHANGED filesVars
  BY <1>3 DEF filesVars, ServedInv
<1>. QED  BY <1>1, <1>2, <1>3

(* A link that nobody deletes has its file, whole and its own, unless its  *)
(* name was another's too or a failure has cut off what was being done to  *)
(* that name; and a download is the file that was uploaded under its link  *)
(* (FilesController.cs:51-52, 76-88, 167-173).                             *)
THEOREM UploadedCorrect == ASSUME Bounds PROVE FilesSpec => []FilesAsUploaded
<1>1. FilesInit => Alone /\ ContentInv /\ ServedInv
  <2>. SUFFICES ASSUME FilesInit PROVE Alone /\ ContentInv /\ ServedInv
    OBVIOUS
  <2>1. Links = {} /\ \A r \in Request : req[r].pc = "idle"
    BY DEF FilesInit, Idle, Links
  <2>2. \A name : Users(name) = {}
    BY <2>1, UsersAre DEF Busy
  <2>. QED  BY <2>1, <2>2 DEF FilesInit, Alone, ContentInv, ServedInv, Busy
<1>2. ContentInv /\ ServedInv => FilesAsUploaded
  BY DEF ContentInv, FileOf, ServedInv, FilesAsUploaded
<1>. QED
  BY <1>1, <1>2, InitShapes, NextShapes, InitIds, NextIds, NextAlone, NextContent, NextServed, PTL
     DEF FilesSpec

-----------------------------------------------------------------------------
(***************************************************************************)
(* The page: unless it is unsure there is one list on its way at most, and *)
(* what it shows, or is about to show, is the table, but for a change that *)
(* is still to be answered and so to be followed by another list.          *)
(***************************************************************************)
Settled == \A r \in Request : ~At(r, "answer")

GridInv ==
    ~unsure =>
        /\ Len(lists) <= 1
        /\ Settled /\ lists = <<>> => grid = files
        /\ Settled /\ lists # <<>> => lists[1] \in {Null, files}

LEMMA AskGrid ==
  ASSUME Shapes, AskList PROVE GridInv'
<1>1. lists \in Seq({Null} \cup Tables)
  BY DEF Shapes
<1>2. CASE lists = <<>>
  <2>1. lists' = <<Null>>
    BY <1>2 DEF AskList
  <2>2. Len(lists') = 1 /\ lists' # <<>> /\ lists'[1] = Null
    BY <2>1
  <2>. QED  BY <2>2 DEF GridInv
<1>3. CASE lists # <<>>
  BY <1>3 DEF AskList, GridInv
<1>. QED  BY <1>2, <1>3

LEMMA NextGrid == Shapes /\ GridInv /\ [FilesNext]_filesVars => GridInv'
<1>. SUFFICES ASSUME Shapes, GridInv, [FilesNext]_filesVars PROVE GridInv'
  OBVIOUS
<1>1. ASSUME NEW r \in Request, OthersKeep(r), req[r].pc # "answer", UNCHANGED <<files, page>>
      PROVE  GridInv'
  <2>1. Settled' => Settled
    BY <1>1 DEF OthersKeep, SameAs, Settled, At
  <2>. QED  BY <1>1, <2>1 DEF GridInv, page
<1>2. ASSUME NEW r \in Request, req'[r].pc = "answer", UNCHANGED page PROVE GridInv'
  <2>1. ~Settled'
    BY <1>2 DEF Settled, At
  <2>. QED  BY <1>2, <2>1 DEF GridInv, page
<1>3. ASSUME NEW r \in Request,
             \/ \E name \in Name : Open(r, name)
             \/ Copy(r) \/ FailUpload(r) \/ Unlink(r) \/ SendFile(r)
             \/ \E id \in FileId : Find(r, id) \/ Fetch(r, id)
      PROVE  GridInv'
  <2>1. OthersKeep(r)
    BY <1>3, OpenStep, CopyStep, UnlinkStep, BeginStep, EndStep
  <2>2. req[r].pc # "answer" /\ UNCHANGED <<files, page>>
    BY <1>3 DEF Open, Copy, FailUpload, Unlink, SendFile, Find, Fetch, At, stores
  <2>. QED  BY <1>1, <2>1, <2>2
<1>4. ASSUME NEW r \in Request,
             \/ Link(r) \/ RemoveFile(r)
             \/ \E id \in FileId : \E row :
                  /\ EditFile(r, id, row)
                  /\ id \in Links => row \in Row /\ row.path = files[id].path
      PROVE  GridInv'
  <2>1. req'[r].pc = "answer"
    BY <1>4, LinkStep, RemoveFileStep, EditFileStep
  <2>2. UNCHANGED page
    BY <1>4 DEF Link, RemoveFile, EditFile
  <2>. QED  BY <1>2, <2>1, <2>2
<1>5. ASSUME NEW r \in Request, Answer(r) PROVE GridInv'
  BY <1>5, AskGrid DEF Answer
<1>6. CASE initFilePanel
  BY <1>6, AskGrid DEF initFilePanel
<1>7. ASSUME NEW i \in DOMAIN lists, ReadList(i) PROVE GridInv'
  <2>1. /\ lists \in Seq({Null} \cup Tables) /\ lists' = [lists EXCEPT ![i] = files]
        /\ UNCHANGED <<files, req, unsure>>
    BY <1>7 DEF ReadList, Shapes, stores
  <2>2. Len(lists') = Len(lists) /\ lists # <<>>
    BY <2>1
  <2>3. CASE ~unsure
    <3>1. i = 1 /\ Len(lists) <= 1
      BY <2>1, <2>3 DEF GridInv
    <3>2. lists'[1] = files /\ lists' # <<>>
      BY <2>1, <3>1
    <3>. QED  BY <2>2, <3>1, <3>2, <2>1 DEF GridInv
  <2>. QED  BY <2>1, <2>3 DEF GridInv
<1>8. ASSUME NEW i \in DOMAIN lists, ShowList(i) PROVE GridInv'
  <2>1. /\ lists \in Seq({Null} \cup Tables) /\ lists' = Seqs!RemoveAt(lists, i)
        /\ grid' = lists[i] /\ lists[i] # Null /\ UNCHANGED <<files, req, unsure>>
    BY <1>8 DEF ShowList, Shapes, stores
  <2>2. CASE ~unsure
    <3>1. i = 1 /\ Len(lists) = 1 /\ lists # <<>>
      BY <2>1, <2>2 DEF GridInv
    <3>2. lists' = <<>>
      BY <2>1, <3>1, ListTaken
    <3>3. Settled' => grid' = files'
      BY <2>1, <2>2, <3>1 DEF GridInv, Settled, At
    <3>. QED  BY <3>2, <3>3 DEF GridInv
  <2>. QED  BY <2>1, <2>2 DEF GridInv
<1>9. CASE Crash \/ \E i \in DOMAIN lists : LoseList(i)
  BY <1>9 DEF Crash, LoseList, GridInv
<1>10. CASE UNCHANGED filesVars
  BY <1>10 DEF filesVars, stores, page, GridInv, Settled, At
<1>. QED  BY <1>3, <1>4, <1>5, <1>6, <1>7, <1>8, <1>9, <1>10, FilesSteps

(* When everything has been answered, the page shows the table, unless two *)
(* lists were on their way at a time or the last was lost (fileLoad.js:    *)
(* 248-307).                                                               *)
THEOREM GridCorrect == ASSUME Bounds PROVE FilesSpec => []GridIsTable
<1>1. FilesInit => GridInv
  BY DEF FilesInit, GridInv
<1>2. GridInv => GridIsTable
  BY DEF GridInv, GridIsTable, Settled, At
<1>. QED
  BY <1>1, <1>2, InitShapes, NextShapes, NextGrid, PTL DEF FilesSpec
=============================================================================
