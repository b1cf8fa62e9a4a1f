---------------------------- MODULE SettingsForm ----------------------------
(***************************************************************************)
(* The form of a machine's technical settings on the dashboard (popups.js, *)
(* devSettings and postSettings; Dashboard/Index.cshtml): one form that is *)
(* built anew for each machine, the answers that fill it, and the commands *)
(* its editors send.  A handler of the page runs to its end: it is an      *)
(* action.                                                                 *)
(***************************************************************************)
EXTENDS DeviceList

CONSTANTS
    Stored,      \* the settings each machine has last reported, Null if none
    MaxOpens     \* bound: how often the form is opened

(* One editor of each kind: the six numbers, the two choices, the text and *)
(* the switch.  A phone of 0 stands for a text that is not a number.       *)
Param == {"price", "logo", "date", "phone", "maintain"}
Editable == [price |-> {Null, 0, 1}, logo |-> {0, 1}, date |-> {Null, 1},
             phone |-> {0, 1}, maintain |-> {0, 1}]

VARIABLES
    opens,       \* calls of devSettings; the editors' handlers are the last one's
    isInit,      \* the flag of each call
    visible,     \* the form's option
    editors,     \* the value of each editor
    loads,       \* requests for settings on their way: the call and the machine
    posts,       \* the commands sent by this step
    shown,       \* history: the machine whose settings were filled in last
    mixed,       \* history: an earlier call's answer was filled in since the last call
    known,       \* history: what that machine has reported or been told, by editor
    blanked      \* history: editors last changed from 0 or empty, or to empty or no number

formState == <<opens, isInit, visible, editors, loads, shown, mixed, known, blanked>>
vars == <<list, formState, posts>>

(* dxSwitch turns the null it is given into false.                         *)
Empty == [p \in Param |-> IF p = "maintain" THEN 0 ELSE Null]

(* The values an editor's handler takes for an editor not filled in yet,   *)
(* and those that are no setting.                                          *)
FromBlank == [price |-> {Null, 0}, logo |-> {Null}, date |-> {Null}, phone |-> {Null},
              maintain |-> {}]
ToBlank == [price |-> {Null}, logo |-> {}, date |-> {Null}, phone |-> {0}, maintain |-> {}]

(* Mutated: nothing tells the first filling-in from a change. *)
SendsAny(p, old, new, init) == new # old /\ (p = "phone" => new # 0)

(* Mutated: the choice of the greeting tests its old value as the numbers do. *)
SendsFalsy(p, old, new, init) ==
    /\ new # old
    /\ p \in {"price", "logo"} => old \notin {Null, 0}
    /\ p \in {"date", "phone"} => old # Null
    /\ p = "phone" => new # 0
    /\ p = "maintain" => ~init

(* onValueChanged: does the change of an editor send a command?  An old    *)
(* number of 0 passes for no number.                                       *)
Sends(p, old, new, init) ==
    /\ new # old
    /\ p = "price" => old \notin {Null, 0}
    /\ p \in {"logo", "date", "phone"} => old # Null
    /\ p = "phone" => new # 0
    /\ p = "maintain" => ~init

(* postSettings sends to the machine in focus.                             *)
Command(p, value, typed) == [to |-> device, param |-> p, value |-> value, typed |-> typed]

-----------------------------------------------------------------------------
ListMoves == ListStep /\ posts' = {} /\ UNCHANGED formState

Open ==
    /\ OpenDialogue /\ device # Null /\ opens < MaxOpens
    /\ opens' = opens + 1
    /\ isInit' = [isInit EXCEPT ![opens'] = TRUE]
    /\ visible' = FALSE /\ editors' = Empty
    /\ loads' = loads \cup {[call |-> opens', of |-> device]}
    /\ posts' = {}
    /\ mixed' = FALSE /\ blanked' = {}
    /\ UNCHANGED <<shown, known>>

Close == CloseDialogue /\ posts' = {} /\ UNCHANGED formState

(* The settings arrive and are put into the editors one by one, whoever    *)
(* has called for them; only the call's own flag is cleared by hand.       *)
Fill(load) ==
    /\ load \in loads /\ Stored[load.of] # Null
    /\ LET settings == Stored[load.of]
           cleared == IF settings.maintain = 0 THEN [isInit EXCEPT ![load.call] = FALSE] ELSE isInit
       IN  /\ posts' = {Command(p, settings[p], FALSE) :
                          p \in {q \in Param : Sends(q, editors[q], settings[q], cleared[opens])}}
           /\ isInit' = IF settings.maintain # editors.maintain
                        THEN [cleared EXCEPT ![opens] = FALSE] ELSE cleared
           /\ editors' = settings /\ known' = settings
    /\ blanked' = {}
    /\ visible' = TRUE
    /\ loads' = loads \ {load}
    /\ shown' = load.of
    /\ mixed' = (mixed \/ load.call # opens)
    /\ UNCHANGED <<list, opens>>

(* The machine has reported no settings.                                   *)
Hide(load) ==
    /\ load \in loads /\ Stored[load.of] = Null
    /\ visible' = FALSE
    /\ loads' = loads \ {load} /\ posts' = {}
    /\ UNCHANGED <<list, opens, isInit, editors, shown, mixed, known, blanked>>

FailLoad(load) ==
    /\ load \in loads
    /\ loads' = loads \ {load} /\ posts' = {}
    /\ UNCHANGED <<list, opens, isInit, visible, editors, shown, mixed, known, blanked>>

(* SetSettings fails on a value that is null, and the page does not look   *)
(* at its answer.                                                          *)
Type(p, value) ==
    /\ popup /\ visible
    /\ value \in Editable[p] \ {editors[p]}
    /\ LET sends == Sends(p, editors[p], value, isInit[opens]) IN
       /\ posts' = IF sends THEN {Command(p, value, TRUE)} ELSE {}
       /\ known' = IF sends /\ value # Null /\ device = shown
                   THEN [known EXCEPT ![p] = value] ELSE known
    /\ isInit' = IF p = "maintain" THEN [isInit EXCEPT ![opens] = FALSE] ELSE isInit
    /\ editors' = [editors EXCEPT ![p] = value]
    /\ blanked' = IF editors[p] \in FromBlank[p] \/ value \in ToBlank[p]
                  THEN blanked \cup {p} ELSE blanked \ {p}
    /\ UNCHANGED <<list, opens, visible, loads, shown, mixed>>

-----------------------------------------------------------------------------
Init ==
    /\ ListInit /\ opens = 0
    /\ isInit = [n \in 1 .. MaxOpens |-> TRUE]
    /\ visible = FALSE /\ editors = Empty
    /\ loads = {} /\ posts = {}
    /\ shown = Null /\ mixed = FALSE /\ known = Empty /\ blanked = {}

Next ==
    \/ ListMoves
    \/ Open
    \/ Close
    \/ \E load \in loads : Fill(load) \/ Hide(load) \/ FailLoad(load)
    \/ \E p \in Param : \E value \in Editable[p] : Type(p, value)

Spec == Init /\ [][Next]_vars

-----------------------------------------------------------------------------
(* The page's state has its types.                                         *)
TypeOK ==
    /\ ListTypes /\ shown \in Machine \cup {Null}
    /\ visible \in BOOLEAN /\ mixed \in BOOLEAN
    /\ opens \in 0 .. MaxOpens
    /\ isInit \in [1 .. MaxOpens -> BOOLEAN]
    /\ loads \subseteq [call : 1 .. MaxOpens, of : Machine]
    /\ \A f \in {editors, known} : \A p \in Param : f[p] \in Editable[p] \cup {Null}
    /\ blanked \subseteq Param

(* A command is one that was typed, and goes to the machine whose settings *)
(* the form shows: filling the form in commands nothing.  It takes the     *)
(* answers of two calls of devSettings in one form to send what nobody     *)
(* typed, and that, or a list asked for before the form was opened which   *)
(* moves the focus, to send it elsewhere (popups.js:1105-1319, 1328-1381,  *)
(* Dashboard/Index.cshtml:351-376).                                        *)
TypedForShown ==
    \A c \in posts : mixed \/ (c.typed /\ (c.to = shown \/ outdated))

(* The machine whose settings the form shows has reported or been told     *)
(* what it shows: every change of an editor is sent, and sent to it.  What *)
(* the handlers take for the first filling-in, a change from 0 or from an  *)
(* empty editor, is told to no machine until the next change, nor is an    *)
(* emptied editor or a text that is no number; a list that moves the focus *)
(* has changes told to another machine (popups.js:1104-1321, 1371-1381).   *)
ShownIsCommanded ==
    visible /\ ~mixed /\ ~outdated =>
        \A p \in Param \ blanked : editors[p] = known[p]
=============================================================================
