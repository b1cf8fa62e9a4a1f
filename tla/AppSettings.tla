----------------------------- MODULE AppSettings -----------------------------
(***************************************************************************)
(* The application settings: a table of one row, its copy in the memory of *)
(* the process that the boards' reports are gated by                       *)
(* (AppSettingsController, AppSettingsDbProvider, ApplicationSettings), and*)
(* the form in which an administrator edits all of them at once            *)
(* (appSettings.js).                                                       *)
(***************************************************************************)
EXTENDS Naturals, Sequences

CONSTANTS
    Admin,
    Unfilled,
    MaxRequests,    \* bound: requests ever sent
    MaxFaults       \* bound: failures of the database, and restarts

(* Two of the settings stand for all.  The memory starts with every board  *)
(* supported.                                                              *)
Field == {"supportBoard1", "userLogDepth"}
Settings == [Field -> {0, 1}]
Defaults == [supportBoard1 |-> 1, userLogDepth |-> 0]
Blank == [f \in Field |-> 0]

VARIABLES
    rows,           \* the table, by id: the migrations insert the row 1
    memory,         \* ApplicationSettings
    form,           \* each administrator's form and the id of its row, 0 if it has none;
                    \* Unfilled before its first answer
    get,            \* each one's request to read
    post,           \* each one's request to store
    requests,       \* requests sent
    faults,
    edits,          \* history: fields an administrator changed since the form was filled
    contested,      \* history: administrators whose form is older than a stored change
    unsure          \* history: what was set last met another request, or a failure

appVars == <<rows, memory, form, get, post, requests, faults, edits, contested, unsure>>

(* A request: its place, the settings it carries and their row, the fields *)
(* that were edited in them, and as history whether it has met no other    *)
(* request and no failure (sure), whether a change of its row was stored   *)
(* since it was read or since the form it comes from was (old), and whether*)
(* that form was filled again since (refilled).                            *)
Idle == [pc |-> "idle"]
At(q, pc) == q.pc = pc
Setting(q) == q.pc \in {"set", "setAgain"}
Alone == \A a \in Admin : ~Setting(get[a]) /\ ~Setting(post[a])

(* Another request comes between.                                          *)
Met(q) == IF Setting(q) THEN [q EXCEPT !.sure = FALSE] ELSE q

(* A change of its row is stored; 0 is no row.                             *)
Overtaken(q, id) ==
    IF At(q, "idle") \/ id = 0 \/ q.id # id THEN q ELSE [q EXCEPT !.old = TRUE]
Holds(a, id) == id # 0 /\ form[a] # Unfilled /\ form[a].id = id

(* What a form with this id is built on.                                   *)
Row(id) == IF id = 0 THEN Blank ELSE rows[id]

Fails == faults < MaxFaults /\ faults' = faults + 1

-----------------------------------------------------------------------------
(* initAppSettings: GetAppSettings takes the first row of a list without an*)
(* order, and copies it into the memory before it is answered.             *)
initAppSettings(a) ==
    /\ At(get[a], "idle") /\ requests < MaxRequests
    /\ requests' = requests + 1
    /\ \E id \in DOMAIN rows :
         get' = [b \in Admin |->
                   IF b = a THEN [pc |-> "set", id |-> id, settings |-> rows[id],
                                  sure |-> Alone, old |-> FALSE]
                   ELSE Met(get[b])]
    /\ post' = [b \in Admin |-> Met(post[b])]
    /\ UNCHANGED <<rows, memory, form, faults, edits, contested, unsure>>

(* Mutated: the settings are read, and not copied. *)
ReadOnly(a) ==
    /\ At(get[a], "set")
    /\ unsure' = ~get[a].sure
    /\ get' = [get EXCEPT ![a].pc = "answer"]
    /\ UNCHANGED <<rows, memory, form, post, requests, faults, edits, contested>>

SetRead(a) ==
    /\ At(get[a], "set")
    /\ memory' = get[a].settings /\ unsure' = ~get[a].sure
    /\ get' = [get EXCEPT ![a].pc = "answer"]
    /\ UNCHANGED <<rows, form, post, requests, faults, edits, contested>>

Answered(a) == [id |-> get[a].id, settings |-> get[a].settings]

(* Mutated: a form that was filled once is not filled again. *)
FillAppFormOnce(a) ==
    /\ At(get[a], "answer")
    /\ form' = [form EXCEPT ![a] = IF @ = Unfilled THEN Answered(a) ELSE @]
    /\ edits' = [edits EXCEPT ![a] = {}]
    /\ contested' = IF get[a].old THEN contested \cup {a} ELSE contested \ {a}
    /\ get' = [get EXCEPT ![a] = Idle]
    /\ post' = IF At(post[a], "write") THEN [post EXCEPT ![a].refilled = TRUE] ELSE post
    /\ UNCHANGED <<rows, memory, requests, faults, unsure>>

FillAppForm(a) ==
    /\ At(get[a], "answer")
    /\ form' = [form EXCEPT ![a] = Answered(a)]
    /\ edits' = [edits EXCEPT ![a] = {}]
    /\ contested' = IF get[a].old THEN contested \cup {a} ELSE contested \ {a}
    /\ get' = [get EXCEPT ![a] = Idle]
    /\ post' = IF At(post[a], "write") THEN [post EXCEPT ![a].refilled = TRUE] ELSE post
    /\ UNCHANGED <<rows, memory, requests, faults, unsure>>

(* A read that fails is not answered, or answered with no content, of      *)
(* which the page builds a form without data and without an id.            *)
FailGet(a) ==
    /\ At(get[a], "set") /\ Fails
    /\ \/ get' = [get EXCEPT ![a] = Idle]
       \/ get' = [get EXCEPT ![a].pc = "answer", ![a].id = 0, ![a].settings = Blank,
                             ![a].old = FALSE]
    /\ UNCHANGED <<rows, memory, form, post, requests, edits, contested, unsure>>

EditField(a, f) ==
    /\ form[a] # Unfilled
    /\ form' = [form EXCEPT ![a].settings[f] = 1 - @]
    /\ edits' = [edits EXCEPT ![a] = @ \cup {f}]
    /\ UNCHANGED <<rows, memory, get, post, requests, faults, contested, unsure>>

-----------------------------------------------------------------------------
sendAppSettings(a) ==
    /\ form[a] # Unfilled /\ At(post[a], "idle") /\ requests < MaxRequests
    /\ post' = [post EXCEPT ![a] = [pc |-> "write", id |-> form[a].id,
                                    settings |-> form[a].settings, edits |-> edits[a],
                                    sure |-> FALSE, old |-> a \in contested, refilled |-> FALSE]]
    /\ requests' = requests + 1
    /\ UNCHANGED <<rows, memory, form, get, faults, edits, contested, unsure>>

(* SetAppSettings: Update writes all columns of the row, and inserts one   *)
(* that has no id.                                                         *)
Write(a) ==
    /\ At(post[a], "write")
    /\ rows' = IF post[a].id = 0 THEN Append(rows, post[a].settings)
               ELSE [rows EXCEPT ![post[a].id] = post[a].settings]
    /\ post' = [b \in Admin |->
                  IF b = a THEN [post[a] EXCEPT !.pc = "set", !.sure = Alone]
                  ELSE Met(Overtaken(post[b], post[a].id))]
    /\ get' = [b \in Admin |-> Met(Overtaken(get[b], post[a].id))]
    /\ contested' = contested \cup
         {b \in Admin : Holds(b, post[a].id) /\ (b # a \/ post[a].refilled)}
    /\ UNCHANGED <<memory, form, requests, faults, edits, unsure>>

(* A failure is swallowed, and the controller sets the memory all the same.*)
FailWrite(a) ==
    /\ At(post[a], "write") /\ Fails
    /\ post' = [b \in Admin |->
                  IF b = a THEN [post[a] EXCEPT !.pc = "setAgain", !.sure = FALSE] ELSE Met(post[b])]
    /\ get' = [b \in Admin |-> Met(get[b])]
    /\ UNCHANGED <<rows, memory, form, requests, edits, contested, unsure>>

(* The provider sets the memory, and then the controller.                  *)
Set(a) ==
    /\ At(post[a], "set")
    /\ memory' = post[a].settings
    /\ post' = [post EXCEPT ![a].pc = "setAgain"]
    /\ UNCHANGED <<rows, form, get, requests, faults, edits, contested, unsure>>

SetAgain(a) ==
    /\ At(post[a], "setAgain")
    /\ memory' = post[a].settings /\ unsure' = ~post[a].sure
    /\ post' = [post EXCEPT ![a] = Idle]
    /\ UNCHANGED <<rows, form, get, requests, faults, edits, contested>>

(* The process dies and starts: the settings are loaded, or stay at their  *)
(* defaults.                                                               *)
Restart ==
    /\ Fails
    /\ \/ \E id \in DOMAIN rows : memory' = rows[id] /\ unsure' = FALSE
       \/ memory' = Defaults /\ unsure' = TRUE
    /\ get' = [a \in Admin |-> Idle] /\ post' = [a \in Admin |-> Idle]
    /\ UNCHANGED <<rows, form, requests, edits, contested>>

-----------------------------------------------------------------------------
AppInit ==
    /\ \E row \in Settings : rows = <<row>> /\ memory = row
    /\ form = [a \in Admin |-> Unfilled]
    /\ get = [a \in Admin |-> Idle] /\ post = [a \in Admin |-> Idle]
    /\ requests = 0 /\ faults = 0
    /\ edits = [a \in Admin |-> {}] /\ contested = {} /\ unsure = FALSE

Page(a) == initAppSettings(a) \/ FillAppForm(a) \/ sendAppSettings(a) \/ \E f \in Field : EditField(a, f)

Serve(a) == SetRead(a) \/ FailGet(a) \/ Write(a) \/ FailWrite(a) \/ Set(a) \/ SetAgain(a)

AppNext == Restart \/ \E a \in Admin : Page(a) \/ Serve(a)

AppSpec == AppInit /\ [][AppNext]_appVars

-----------------------------------------------------------------------------
(* The copies, the forms and the requests have their types.                *)
AppTypes ==
    /\ rows \in Seq(Settings) /\ memory \in Settings
    /\ form \in [Admin -> [id : Nat, settings : Settings] \cup {Unfilled}]
    /\ \A a \in Admin : get[a].pc \in {"idle", "set", "answer"}
    /\ \A a \in Admin : post[a].pc \in {"idle", "write", "set", "setAgain"}
    /\ requests \in 0 .. MaxRequests /\ faults \in 0 .. MaxFaults
    /\ edits \in [Admin -> SUBSET Field] /\ contested \subseteq Admin /\ unsure \in BOOLEAN

IsRow(settings) == \E id \in DOMAIN rows : settings = rows[id]

(* The reports are gated by what is stored: when nobody is about to set    *)
(* the memory, it is a row of the table, unless what set it last met       *)
(* another request or a failure; one undisturbed request of either kind, or*)
(* a restart, mends it, though a form built on a failed read has added a   *)
(* row (AppSettingsController.cs:35-49, AppSettingsDbProvider.cs:17-46).   *)
MemoryIsRow == Alone /\ ~unsure => IsRow(memory)

(* A stored form changes, in the row it was filled with, what its          *)
(* administrator has edited in it, unless a change by another was stored   *)
(* since: the form sends every column.  One built on a failed read changes *)
(* no row: it adds one, which holds nothing but what was edited            *)
(* (appSettings.js:5-7, 75-83, AppSettingsDbProvider.cs:30-44).            *)
Edited(a) ==
    LET q == post[a]
        new == IF q.id = 0 THEN Len(rows) + 1 ELSE q.id
    IN  /\ DOMAIN rows' = DOMAIN rows \cup {new}
        /\ \A id \in DOMAIN rows \ {new} : rows'[id] = rows[id]
        /\ q.old \/ \A f \in Field : rows'[new][f] # Row(q.id)[f] => f \in q.edits

StoresEdited ==
    rows' # rows => \E a \in Admin : At(post[a], "write") /\ Setting(post'[a]) /\ Edited(a)

OnlyEditedStored == [][StoresEdited]_appVars
=============================================================================
