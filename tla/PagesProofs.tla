----------------------------- MODULE PagesProofs -----------------------------
(***************************************************************************)
(* Theorems about the pages: the form of a machine's settings and the      *)
(* dialogue of its reports (SettingsForm, ReportDialogue), for any number  *)
(* of machines, and the settings of the application (AppSettings), for any *)
(* number of administrators, of requests and of faults.                    *)
(***************************************************************************)
EXTENDS SettingsForm, ReportDialogue, AppSettings, SequenceTheorems, TLAPS

(***************************************************************************)
(* The list of machines.  Null is no machine and no list on its way.       *)
(***************************************************************************)
Lists == [key : Machine \cup {Null}, early : BOOLEAN]

NullApart == Null \notin Machine /\ Null \notin Lists

LEMMA ListShapes ==
  ASSUME ListTypes, ListStep \/ CloseDialogue \/ OpenDialogue PROVE ListTypes'
<1>1. ASSUME NEW m \in Machine, Focus(m) PROVE ListTypes'
  BY <1>1 DEF ListTypes, Focus
<1>2. CASE Refresh \/ RefreshLost
  <2>1. UNCHANGED <<device, popup, outdated>>
    BY <1>2 DEF Refresh, RefreshLost
  <2>2. refresh' = Null \/ refresh' = [key |-> device, early |-> FALSE]
    BY <1>2 DEF Refresh, RefreshLost
  <2>3. [key |-> device, early |-> FALSE] \in Lists
    BY DEF ListTypes, Lists
  <2>. QED  BY <2>1, <2>2, <2>3 DEF ListTypes, Lists
<1>3. CASE Refreshed
  <2>1. refresh.key \in Machine \cup {Null} /\ refresh.early \in BOOLEAN
    BY <1>3 DEF ListTypes, Refreshed
  <2>2. outdated' \in BOOLEAN
    BY <1>3 DEF Refreshed
  <2>. QED  BY <1>3, <2>1, <2>2 DEF ListTypes, Refreshed
<1>4. CASE CloseDialogue \/ OpenDialogue
  BY <1>4 DEF ListTypes, CloseDialogue, OpenDialogue
<1>. QED  BY <1>1, <1>2, <1>3, <1>4 DEF ListStep

(* The focus moves under an open dialogue only when a list comes that was  *)
(* asked for before.                                                       *)
FocusHolds ==
    /\ popup => device # Null
    /\ popup /\ refresh # Null /\ ~refresh.early => refresh.key = device

SameFocus ==
    /\ outdated => outdated'
    /\ popup' => popup /\ (device' = device \/ outdated')

LEMMA FocusStep ==
  ASSUME NullApart, ListTypes, FocusHolds, ListStep \/ CloseDialogue
  PROVE  FocusHolds' /\ SameFocus
<1>1. ASSUME NEW m \in Machine, Focus(m) PROVE FocusHolds' /\ SameFocus
  BY <1>1 DEF Focus, FocusHolds, SameFocus
<1>2. ASSUME Refresh PROVE FocusHolds' /\ SameFocus
  BY <1>2 DEF Refresh, FocusHolds, SameFocus
<1>3. ASSUME Refreshed PROVE FocusHolds' /\ SameFocus
  <2>1. refresh' = Null /\ popup' = popup /\ (outdated => outdated')
    BY <1>3 DEF Refreshed
  <2>2. ASSUME popup, ~outdated' PROVE device' = device /\ device # Null
    <3>1. ~refresh.early /\ refresh # Null
      BY <1>3, <2>2 DEF Refreshed
    <3>2. refresh.key = device /\ device # Null
      BY <2>2, <3>1 DEF FocusHolds
    <3>. QED  BY <1>3, <3>2 DEF Refreshed
  <2>3. popup => device' # Null
    <3>1. refresh.key # Null => device' # Null
      BY <1>3 DEF Refreshed
    <3>2. refresh.key = Null => device' # Null
      BY <1>3 DEF Refreshed, NullApart
    <3>. QED  BY <3>1, <3>2
  <2>. QED  BY <2>1, <2>2, <2>3 DEF FocusHolds, SameFocus
<1>4. ASSUME RefreshLost PROVE FocusHolds' /\ SameFocus
  BY <1>4 DEF RefreshLost, FocusHolds, SameFocus
<1>5. ASSUME CloseDialogue PROVE FocusHolds' /\ SameFocus
  BY <1>5 DEF CloseDialogue, FocusHolds, SameFocus
<1>. QED  BY <1>1, <1>2, <1>3, <1>4, <1>5 DEF ListStep

-----------------------------------------------------------------------------
(***************************************************************************)
(* The form of a machine's settings.  Null is no value either, and a       *)
(* machine has reported every setting, or none.                            *)
(***************************************************************************)
Given ==
    /\ MaxOpens \in Nat
    /\ NullApart /\ Null \notin {0, 1}
    /\ \A m \in Machine : Stored[m] # Null =>
         /\ Stored[m] \in [Param -> {Null, 0, 1}]
         /\ \A p \in Param : Stored[m][p] \in Editable[p]

(* The shapes of the state.                                                *)
Values(f) ==
    /\ f \in [Param -> {Null, 0, 1}]
    /\ \A p \in Param : f[p] \in Editable[p] \cup {Null}

Shapes ==
    /\ ListTypes /\ shown \in Machine \cup {Null}
    /\ visible \in BOOLEAN /\ mixed \in BOOLEAN
    /\ opens \in 0 .. MaxOpens
    /\ isInit \in [1 .. MaxOpens -> BOOLEAN]
    /\ loads \subseteq [call : 1 .. opens, of : Machine]
    /\ Values(editors) /\ Values(known)
    /\ blanked \subseteq Param

LEMMA EmptyShape == Values(Empty)
  BY DEF Values, Empty, Param, Editable

LEMMA InitShapes == Given /\ Init => Shapes
<1>. SUFFICES ASSUME Given, Init PROVE Shapes
  OBVIOUS
<1>1. ListTypes
  BY DEF Init, ListInit, ListTypes
<1>0. opens \in 0 .. MaxOpens
  BY DEF Given, Init
<1>2. Values(editors) /\ Values(known)
  BY EmptyShape DEF Init
<1>3. isInit \in [1 .. MaxOpens -> BOOLEAN]
  BY DEF Init
<1>. QED  BY <1>0, <1>1, <1>2, <1>3 DEF Init, ListInit, Shapes

LEMMA NextShapes == Given /\ Shapes /\ [Next]_vars => Shapes'
<1>. SUFFICES ASSUME Given, Shapes, [Next]_vars PROVE Shapes'
  OBVIOUS
<1>1. CASE ListMoves \/ Close
  <2>1. UNCHANGED formState /\ (ListStep \/ CloseDialogue)
    BY <1>1 DEF ListMoves, Close
  <2>. QED  BY <2>1, ListShapes DEF Shapes, formState, Values
<1>2. CASE Open
  <2>1. opens' \in 1 .. MaxOpens /\ opens' = opens + 1 /\ device \in Machine
    BY <1>2 DEF Open, Shapes, ListTypes, Given
  <2>2. loads' \subseteq [call : 1 .. opens', of : Machine]
    BY <1>2, <2>1 DEF Open, Shapes
  <2>3. isInit' \in [1 .. MaxOpens -> BOOLEAN] /\ Values(editors')
    BY <1>2, <2>1, EmptyShape DEF Open, Shapes
  <2>4. ListTypes'
    BY <1>2, ListShapes DEF Open, Shapes
  <2>5. known' = known /\ shown' = shown /\ blanked' = {} /\ ~visible' /\ ~mixed'
    BY <1>2 DEF Open
  <2>6. visible' \in BOOLEAN /\ mixed' \in BOOLEAN
    BY <1>2 DEF Open
  <2>. QED  BY <2>1, <2>2, <2>3, <2>4, <2>5, <2>6 DEF Shapes
<1>3. ASSUME NEW load \in loads, Fill(load) PROVE Shapes'
  <2>1. load.of \in Machine /\ Values(Stored[load.of])
    BY <1>3 DEF Fill, Shapes, Given, Values
  <2>2. isInit' \in [1 .. MaxOpens -> BOOLEAN]
    BY <1>3 DEF Fill, Shapes
  <2>3. editors' = Stored[load.of] /\ known' = Stored[load.of]
    BY <1>3 DEF Fill
  <2>4. blanked' \subseteq Param
    BY <1>3 DEF Fill
  <2>. QED  BY <1>3, <2>1, <2>2, <2>3, <2>4 DEF Fill, Shapes, ListTypes, list
<1>4. ASSUME NEW load \in loads, Hide(load) \/ FailLoad(load) PROVE Shapes'
  BY <1>4 DEF Hide, FailLoad, Shapes, ListTypes, list, Values
<1>5. ASSUME NEW p \in Param, NEW value \in Editable[p], Type(p, value) PROVE Shapes'
  <2>0. value \in {Null, 0, 1}
    BY <1>5 DEF Param, Editable
  <2>1. isInit' \in [1 .. MaxOpens -> BOOLEAN]
    BY <1>5 DEF Type, Shapes
  <2>2. Values(editors')
    BY <1>5, <2>0 DEF Type, Shapes, Values
  <2>3. Values(known')
    BY <1>5, <2>0 DEF Type, Shapes, Values
  <2>4. blanked' \subseteq Param
    BY <1>5 DEF Type, Shapes
  <2>. QED  BY <1>5, <2>1, <2>2, <2>3, <2>4 DEF Type, Shapes, ListTypes, list
<1>6. CASE UNCHANGED vars
  BY <1>6 DEF vars, list, formState, Shapes, ListTypes, Values
<1>. QED  BY <1>1, <1>2, <1>3, <1>4, <1>5, <1>6 DEF Next

LEMMA ShapesType == Given /\ Shapes => TypeOK
  BY DEF Given, Shapes, Values, Lists, TypeOK, ListTypes

(* The page's state has its types, whatever list and whatever settings     *)
(* arrive, in whatever order (popups.js:1104-1381, Dashboard/Index.cshtml: *)
(* 351-376).                                                               *)
THEOREM FormTypeCorrect == ASSUME Given PROVE Spec => []TypeOK
<1>1. Init => Shapes
  BY InitShapes
<1>2. Shapes /\ [Next]_vars => Shapes'
  BY NextShapes
<1>3. Shapes => TypeOK
  BY ShapesType
<1>. QED  BY <1>1, <1>2, <1>3, PTL DEF Spec

-----------------------------------------------------------------------------
(* What a command and what is shown rest on.                               *)
(* Each call of devSettings waits for one answer.                          *)
Calls == \A k, l \in loads : k.call = l.call => k = l

(* The form that waits for the answer to the last call, when no other has  *)
(* filled it: nothing is in its editors.                                   *)
Waiting ==
    \A l \in loads : l.call = opens /\ ~mixed =>
        /\ editors = Empty /\ visible = FALSE /\ isInit[opens] = TRUE
        /\ popup => l.of = device \/ outdated

(* The form that only the answer to the last call has filled.              *)
Filled ==
    visible /\ ~mixed =>
        /\ opens >= 1 /\ isInit[opens] = FALSE
        /\ popup => device = shown \/ outdated
        /\ \A p \in Param : editors[p] \in Editable[p]
        /\ ~outdated => \A p \in Param \ blanked : editors[p] = known[p]

FormInv == Shapes /\ FocusHolds /\ Calls /\ Waiting /\ Filled /\ TypedForShown

LEMMA InitForm == Given /\ Init => FormInv
<1>. SUFFICES ASSUME Given, Init PROVE FormInv
  OBVIOUS
<1>. QED  BY InitShapes DEF Init, ListInit, FormInv, FocusHolds, Calls, Waiting, Filled, TypedForShown

(* An editor that does not stand at 0 or empty sends every change to what  *)
(* is a setting, and the first filling-in of an empty one sends nothing.   *)
LEMMA SendsChange ==
  ASSUME Given, NEW p \in Param, NEW old \in Editable[p] \ FromBlank[p],
         NEW new \in Editable[p] \ ToBlank[p], new # old
  PROVE  Sends(p, old, new, FALSE) /\ new # Null
  BY DEF Given, Param, Editable, FromBlank, ToBlank, Sends

LEMMA SendsNoFirst ==
  ASSUME Given, NEW p \in Param, NEW new \in Editable[p], NEW init,
         p = "maintain" => new = 0 \/ init
  PROVE  ~Sends(p, Empty[p], new, init)
  BY DEF Given, Param, Editable, Empty, Sends

LEMMA NextForm == Given /\ FormInv /\ [Next]_vars => FormInv'
<1>. SUFFICES ASSUME Given, FormInv, [Next]_vars
              PROVE  FocusHolds' /\ Calls' /\ Waiting' /\ Filled' /\ TypedForShown'
  BY NextShapes DEF FormInv
<1>0. Shapes /\ FocusHolds /\ Calls /\ Waiting /\ Filled
  BY DEF FormInv
<1>1. CASE ListMoves \/ Close
  <2>1. UNCHANGED formState /\ posts' = {} /\ FocusHolds' /\ SameFocus
    BY <1>0, <1>1, FocusStep DEF ListMoves, Close, Given, Shapes
  <2>2. Calls' /\ TypedForShown'
    BY <1>0, <2>1 DEF formState, Calls, TypedForShown
  <2>3. Waiting'
    BY <1>0, <2>1 DEF formState, SameFocus, Waiting
  <2>4. Filled'
    BY <1>0, <2>1 DEF formState, SameFocus, Filled
  <2>. QED  BY <2>1, <2>2, <2>3, <2>4
<1>2. CASE Open
  <2>1. /\ opens \in Nat /\ opens' = opens + 1 /\ opens' \in 1 .. MaxOpens
        /\ isInit'[opens'] = TRUE
        /\ editors' = Empty /\ visible' = FALSE /\ posts' = {}
        /\ device' = device /\ device # Null
        /\ loads' = loads \cup {[call |-> opens', of |-> device]}
    BY <1>0, <1>2 DEF Open, OpenDialogue, Shapes, Given
  <2>2. FocusHolds'
    <3>1. refresh # Null => refresh'.early
      BY <1>0, <1>2 DEF Open, OpenDialogue, Shapes, Lists
    <3>2. refresh = Null => refresh' = Null
      BY <1>2 DEF Open, OpenDialogue
    <3>. QED  BY <2>1, <3>1, <3>2 DEF FocusHolds
  <2>3. \A l \in loads : l.call < opens'
    BY <1>0, <2>1 DEF Shapes
  <2>4. Calls'
    BY <1>0, <2>1, <2>3 DEF Calls, Shapes
  <2>5. Waiting'
    BY <2>1, <2>3, <1>0 DEF Waiting, Shapes
  <2>. QED  BY <2>1, <2>2, <2>4, <2>5 DEF Filled, TypedForShown
<1>3. ASSUME NEW load \in loads, Fill(load)
      PROVE  FocusHolds' /\ Calls' /\ Waiting' /\ Filled' /\ TypedForShown'
  <2>1. /\ FocusHolds' /\ loads' = loads \ {load} /\ opens' = opens
        /\ mixed' = (mixed \/ load.call # opens)
        /\ popup' = popup /\ device' = device /\ outdated' = outdated /\ shown' = load.of
    BY <1>0, <1>3 DEF Fill, list, FocusHolds
  <2>2. Calls'
    BY <1>0, <2>1 DEF Calls
  <2>3. CASE mixed'
    BY <2>1, <2>2, <2>3 DEF Waiting, Filled, TypedForShown
  <2>4. CASE ~mixed'
    <3>1. load.call = opens /\ ~mixed /\ opens \in 1 .. MaxOpens
      <4>1. ~(mixed \/ load.call # opens)
        BY <2>1, <2>4
      <4>2. load.call \in 1 .. opens /\ opens \in 0 .. MaxOpens
        BY <1>0 DEF Shapes
      <4>. QED  BY <4>1, <4>2 DEF Given
    <3>2. /\ editors = Empty /\ isInit[opens] = TRUE
          /\ popup => load.of = device \/ outdated
      BY <1>0, <3>1 DEF Waiting
    <3>3. Waiting'
      BY <1>0, <2>1, <3>1 DEF Waiting, Calls
    <3>. DEFINE settings == Stored[load.of]
                cleared == IF settings.maintain = 0 THEN [isInit EXCEPT ![load.call] = FALSE]
                           ELSE isInit
    <3>4. \A p \in Param : settings[p] \in Editable[p]
      BY <1>0, <1>3 DEF Fill, Shapes, Given
    <3>5. settings["maintain"] = 0 \/ cleared[opens] = TRUE
      BY <3>2
    <3>6. posts' = {}
      <4>1. \A p \in Param : ~Sends(p, editors[p], settings[p], cleared[opens])
        BY <3>2, <3>4, <3>5, SendsNoFirst
      <4>. QED  BY <1>3, <4>1 DEF Fill
    <3>7. isInit'[opens] = FALSE
      <4>1. cleared \in [1 .. MaxOpens -> BOOLEAN]
        BY <1>0, <3>1 DEF Shapes
      <4>2. CASE settings.maintain # editors.maintain
        <5>1. isInit' = [cleared EXCEPT ![opens] = FALSE]
          BY <1>3, <4>2 DEF Fill
        <5>. QED  BY <3>1, <4>1, <5>1
      <4>3. CASE settings.maintain = editors.maintain
        <5>1. isInit' = cleared
          BY <1>3, <4>3 DEF Fill
        <5>2. settings.maintain = 0
          BY <3>2, <4>3 DEF Empty, Param
        <5>. QED  BY <1>0, <3>1, <5>1, <5>2 DEF Shapes
      <4>. QED  BY <4>2, <4>3
    <3>8. editors' = settings /\ known' = settings
      BY <1>3 DEF Fill
    <3>9. Filled'
      BY <2>1, <3>1, <3>2, <3>4, <3>7, <3>8 DEF Filled
    <3>. QED  BY <2>1, <2>2, <3>3, <3>6, <3>9 DEF TypedForShown
  <2>. QED  BY <2>3, <2>4
<1>4. ASSUME NEW load \in loads, Hide(load) \/ FailLoad(load)
      PROVE  FocusHolds' /\ Calls' /\ Waiting' /\ Filled' /\ TypedForShown'
  <2>1. /\ UNCHANGED <<list, opens, isInit, editors, shown, mixed, known, blanked>>
        /\ loads' = loads \ {load} /\ posts' = {} /\ visible' \in {FALSE, visible}
    BY <1>4 DEF Hide, FailLoad
  <2>2. FocusHolds' /\ Calls' /\ TypedForShown'
    BY <1>0, <2>1 DEF list, FocusHolds, Calls, TypedForShown
  <2>3. Waiting'
    BY <1>0, <2>1 DEF list, Waiting
  <2>4. Filled'
    BY <1>0, <2>1 DEF list, Filled
  <2>. QED  BY <2>2, <2>3, <2>4
<1>5. ASSUME NEW p \in Param, NEW value \in Editable[p], Type(p, value)
      PROVE  FocusHolds' /\ Calls' /\ Waiting' /\ Filled' /\ TypedForShown'
  <2>1. /\ UNCHANGED <<list, opens, visible, loads, shown, mixed>>
        /\ visible /\ popup /\ value # editors[p]
    BY <1>5 DEF Type
  <2>2. FocusHolds' /\ Calls'
    BY <1>0, <2>1 DEF list, FocusHolds, Calls
  <2>3. Waiting'
    BY <1>0, <2>1 DEF Waiting
  <2>4. TypedForShown'
    <3>1. \A c \in posts' : c.typed /\ c.to = device
      BY <1>5 DEF Type, Command
    <3>. QED  BY <1>0, <2>1, <3>1 DEF list, Filled, TypedForShown
  <2>5. Filled'
    <3>. SUFFICES ASSUME ~mixed PROVE Filled'
      BY <2>1 DEF Filled
    <3>1. /\ opens >= 1 /\ isInit[opens] = FALSE /\ (device = shown \/ outdated)
          /\ \A q \in Param : editors[q] \in Editable[q]
          /\ ~outdated => \A q \in Param \ blanked : editors[q] = known[q]
      BY <1>0, <2>1 DEF Filled
    <3>2. isInit'[opens] = FALSE
      BY <1>0, <1>5, <3>1 DEF Type, Shapes
    <3>3. /\ editors' = [editors EXCEPT ![p] = value]
          /\ blanked' = IF editors[p] \in FromBlank[p] \/ value \in ToBlank[p]
                        THEN blanked \cup {p} ELSE blanked \ {p}
          /\ known' \in {known, [known EXCEPT ![p] = value]}
      BY <1>5 DEF Type
    <3>4. \A q \in Param \ {p} : editors'[q] = editors[q] /\ known'[q] = known[q]
      BY <1>0, <3>3 DEF Shapes, Values
    <3>5. editors'[p] = value
      BY <1>0, <3>3 DEF Shapes, Values
    <3>6. ASSUME p \notin blanked', ~outdated PROVE known'[p] = value
      <4>1. value \notin ToBlank[p] /\ editors[p] \notin FromBlank[p]
        BY <3>3, <3>6
      <4>2. Sends(p, editors[p], value, isInit[opens]) /\ value # Null
        BY <2>1, <3>1, <4>1, SendsChange
      <4>3. known' = [known EXCEPT ![p] = value]
        BY <1>5, <3>1, <3>6, <4>2 DEF Type
      <4>. QED  BY <1>0, <4>3 DEF Shapes, Values
    <3>7. \A q \in Param : editors'[q] \in Editable[q]
      BY <3>1, <3>4, <3>5
    <3>8. ~outdated => \A q \in Param \ blanked' : editors'[q] = known'[q]
      BY <3>1, <3>3, <3>4, <3>5, <3>6
    <3>. QED  BY <2>1, <3>1, <3>2, <3>7, <3>8 DEF list, Filled
  <2>. QED  BY <2>2, <2>3, <2>4, <2>5
<1>6. CASE UNCHANGED vars
  <2>1. UNCHANGED <<list, formState, posts>>
    BY <1>6 DEF vars
  <2>2. FocusHolds' /\ Calls' /\ Waiting' /\ Filled'
    BY <1>0, <2>1 DEF list, formState, FocusHolds, Calls, Waiting, Filled
  <2>3. TypedForShown'
    BY <2>1 DEF list, formState, FormInv, TypedForShown
  <2>. QED  BY <2>2, <2>3
<1>. QED  BY <1>1, <1>2, <1>3, <1>4, <1>5, <1>6 DEF Next

(* Every command is one that was typed, for the machine whose settings the *)
(* form shows, unless the form holds the answers of two calls or the list  *)
(* is older than it (popups.js:1105-1381, Dashboard/Index.cshtml:351-376). *)
THEOREM TypedCorrect == ASSUME Given PROVE Spec => []TypedForShown
<1>1. Init => FormInv
  BY InitForm
<1>2. FormInv /\ [Next]_vars => FormInv'
  BY NextForm
<1>3. FormInv => TypedForShown
  BY DEF FormInv
<1>. QED  BY <1>1, <1>2, <1>3, PTL DEF Spec

(* A form that only the last call's answer has filled, under a list that   *)
(* was not asked for before it was opened, shows what its machine has      *)
(* reported or been told, in every editor whose last change was from one   *)
(* setting to another and not from 0 (popups.js:1104-1321, 1371-1381).     *)
THEOREM ShownCorrect == ASSUME Given PROVE Spec => []ShownIsCommanded
<1>1. Init => FormInv
  BY InitForm
<1>2. FormInv /\ [Next]_vars => FormInv'
  BY NextForm
<1>3. FormInv => ShownIsCommanded
  BY DEF FormInv, Filled, ShownIsCommanded
<1>. QED  BY <1>1, <1>2, <1>3, PTL DEF Spec
-----------------------------------------------------------------------------
(***************************************************************************)
(* The dialogue of the reports.                                            *)
(***************************************************************************)
Current == Question(popupTitle, device, picker)

ReportShapes ==
    /\ ListTypes
    /\ popupTitle \in Kind \cup {Null} /\ picker \in Period
    /\ gridAlerts \in Questions \cup {Null} /\ asked \in Seq(Questions)
    /\ crossed \in BOOLEAN /\ failed \in BOOLEAN

(* A question that met no other is the only one, is the one the dialogue   *)
(* stands for now, and stays so until it is answered.                      *)
Pending ==
    ~crossed =>
        /\ Len(asked) <= 1
        /\ popup /\ ~outdated =>
             /\ asked # <<>> => asked[1] = Current
             /\ asked = <<>> => failed \/ gridAlerts = Current

(* An export beside which the dialogue has stood still has its title and   *)
(* its rows, and so has the file that was just saved.                      *)
ExportInv ==
    export # Null =>
        /\ export \in Exports
        /\ export.steady =>
             /\ Standing /\ ~crossed /\ ~failed /\ export.title = popupTitle
             /\ export.step = "file" => export.rows = gridAlerts

SavedNow ==
    saved # Null =>
        /\ DOMAIN saved = {"title", "imei", "rows", "steady"}
        /\ saved.steady =>
             /\ Standing /\ ~crossed /\ ~failed
             /\ saved.title = popupTitle /\ saved.imei = device /\ saved.rows = gridAlerts

ReportInv == ReportShapes /\ FocusHolds /\ Pending /\ ExportInv /\ SavedNow

(* A step beside an export: if the dialogue asks nothing before it and     *)
(* stands after it, it shows what it did.                                  *)
LEMMA BesideExport ==
  ASSUME ExportInv, Meanwhile, popup' \in BOOLEAN, outdated' \in BOOLEAN,
         asked = <<>> /\ Standing' => UNCHANGED <<popupTitle, gridAlerts, crossed, failed>>
  PROVE  ExportInv' /\ SavedNow'
<1>1. SavedNow'
  BY DEF Meanwhile, SavedNow
<1>2. CASE export = Null
  BY <1>1, <1>2 DEF Meanwhile, ExportInv
<1>3. CASE export # Null
  <2>. DEFINE still == export.steady /\ Standing'
  <2>1. /\ export \in [step : {"grid", "file"}, title : Kind, rows : Questions \cup {Null},
                       steady : BOOLEAN]
        /\ export' = [export EXCEPT !.steady = export.steady /\ Standing']
    BY <1>3 DEF ExportInv, Exports, Meanwhile
  <2>2. still \in BOOLEAN
    BY <2>1 DEF Standing
  <2>3. export' = [export EXCEPT !.steady = still]
    BY <2>1
  <2>. HIDE DEF still
  <2>4. /\ export' \in Exports /\ export'.steady = still
        /\ export'.step = export.step /\ export'.title = export.title
        /\ export'.rows = export.rows
    BY <2>1, <2>2, <2>3 DEF Exports
  <2>5. still => Standing' /\ UNCHANGED <<popupTitle, gridAlerts, crossed, failed>>
                 /\ ~crossed /\ ~failed /\ export.title = popupTitle
                 /\ (export.step = "file" => export.rows = gridAlerts)
    BY <1>3 DEF still, ExportInv, Standing
  <2>. QED  BY <1>1, <2>4, <2>5 DEF ExportInv
<1>. QED  BY <1>2, <1>3

LEMMA AnswersTaken ==
  ASSUME NEW i \in DOMAIN asked, asked \in Seq(Questions)
  PROVE  /\ Seqs!RemoveAt(asked, i) \in Seq(Questions)
         /\ Len(asked) <= 1 => i = 1 /\ Seqs!RemoveAt(asked, i) = <<>>
<1>1. i \in 1 .. Len(asked) /\ Len(asked) \in Nat
  OBVIOUS
<1>2. Seqs!RemoveAt(asked, i) = SubSeq(asked, 1, i - 1) \o SubSeq(asked, i + 1, Len(asked))
  BY DEF Seqs!RemoveAt
<1>3. /\ SubSeq(asked, 1, i - 1) \in Seq(Questions)
      /\ SubSeq(asked, i + 1, Len(asked)) \in Seq(Questions)
  BY <1>1
<1>4. ASSUME Len(asked) <= 1 PROVE i = 1 /\ Seqs!RemoveAt(asked, i) = <<>>
  <2>1. i = 1 /\ SubSeq(asked, 1, 0) = <<>> /\ SubSeq(asked, 2, Len(asked)) = <<>>
    BY <1>1, <1>4, SMT
  <2>. QED  BY <1>2, <2>1, SMT
<1>. QED  BY <1>2, <1>3, <1>4

LEMMA QuestionAsked ==
  ASSUME ReportShapes, NEW kind \in Kind, NEW period \in Period, device # Null,
         Ask(Question(kind, device, period))
  PROVE  /\ asked' \in Seq(Questions) /\ crossed' \in BOOLEAN /\ failed' = FALSE
         /\ ~crossed' => Len(asked') <= 1 /\ asked' # <<>> /\ asked'[1] = Question(kind, device, period)
<1>. DEFINE q == Question(kind, device, period)
<1>1. q \in Questions
  BY DEF ReportShapes, ListTypes, Question, Questions
<1>. HIDE DEF q
<1>2. asked' = Append(asked, q) /\ crossed' = (asked # <<>>) /\ failed' = FALSE
  BY DEF Ask, q
<1>3. asked' \in Seq(Questions)
  BY <1>1, <1>2 DEF ReportShapes
<1>4. asked = <<>> => Len(asked') <= 1 /\ asked' # <<>> /\ asked'[1] = q
  BY <1>1, <1>2
<1>. QED  BY <1>2, <1>3, <1>4 DEF q

LEMMA InitReport == ASSUME NullApart, ReportInit PROVE ReportInv
<1>1. ListTypes /\ popup = FALSE
  BY DEF ReportInit, ListInit, ListTypes
<1>2. asked = <<>> /\ asked \in Seq(Questions) /\ Len(asked) = 0
  BY DEF ReportInit
<1>3. ReportShapes
  BY <1>1, <1>2 DEF ReportInit, ReportShapes
<1>4. FocusHolds /\ Pending
  BY <1>1, <1>2 DEF FocusHolds, Pending
<1>. QED  BY <1>3, <1>4 DEF ReportInit, ReportInv, ExportInv, SavedNow

(* The list comes and goes under the dialogue.                             *)
LEMMA MovedReport ==
  ASSUME NullApart, ReportInv, ReportListMoves \/ CloseReport PROVE ReportInv'
<1>1. UNCHANGED dialogue /\ Meanwhile /\ (ListStep \/ CloseDialogue)
  BY DEF ReportListMoves, CloseReport
<1>2. ListTypes' /\ FocusHolds' /\ SameFocus
  BY <1>1, ListShapes, FocusStep DEF ReportInv, ReportShapes
<1>3. ReportShapes'
  BY <1>1, <1>2 DEF ReportInv, ReportShapes, dialogue
<1>4. Pending'
  <2>1. popup' /\ ~outdated' => popup /\ ~outdated /\ Current' = Current
    BY <1>1, <1>2 DEF SameFocus, Current, Question, dialogue
  <2>. QED  BY <1>1, <2>1 DEF ReportInv, Pending, dialogue
<1>5. ExportInv' /\ SavedNow'
  BY <1>1, <1>2, BesideExport DEF ReportInv, ListTypes, dialogue
<1>. QED  BY <1>2, <1>3, <1>4, <1>5 DEF ReportInv

LEMMA OpenedReport ==
  ASSUME NullApart, ReportInv, NEW kind \in Kind, OpenReport(kind) PROVE ReportInv'
<1>1. /\ popupTitle' = kind /\ Meanwhile /\ UNCHANGED <<device, picker, gridAlerts>>
      /\ device # Null /\ OpenDialogue /\ Ask(Question(kind, device, picker))
  BY DEF OpenReport, OpenDialogue
<1>2. ListTypes'
  BY <1>1, ListShapes DEF ReportInv, ReportShapes
<1>3. FocusHolds'
  BY <1>1 DEF OpenDialogue, FocusHolds, ReportInv, ReportShapes, ListTypes
<1>4. /\ asked' \in Seq(Questions) /\ crossed' \in BOOLEAN /\ failed' = FALSE
      /\ ~crossed' => Len(asked') <= 1 /\ asked' # <<>> /\ asked'[1] = Question(kind, device, picker)
  BY <1>1, QuestionAsked DEF ReportInv, ReportShapes
<1>5. Current' = Question(kind, device, picker)
  BY <1>1 DEF Current, Question
<1>6. Pending'
  <2>1. ~crossed' => Len(asked') <= 1 /\ asked' # <<>> /\ asked'[1] = Current'
    BY <1>4, <1>5
  <2>. QED  BY <2>1 DEF Pending
<1>7. ExportInv' /\ SavedNow'
  <2>1. asked' # <<>>
    BY <1>1 DEF Ask, ReportInv, ReportShapes
  <2>. QED  BY <1>1, <1>2, <2>1, BesideExport DEF ReportInv, ListTypes, Standing
<1>. QED  BY <1>1, <1>2, <1>3, <1>4, <1>6, <1>7 DEF ReportInv, ReportShapes

LEMMA AppliedReport ==
  ASSUME NullApart, ReportInv, NEW period \in Period, Apply(period) PROVE ReportInv'
<1>1. /\ picker' = period /\ Meanwhile /\ UNCHANGED <<list, popupTitle, gridAlerts>>
      /\ popup /\ popupTitle \in Kind /\ Ask(Question(popupTitle, device, period))
  BY DEF Apply, ReportInv, ReportShapes
<1>2. device # Null
  BY <1>1 DEF ReportInv, FocusHolds
<1>3. /\ asked' \in Seq(Questions) /\ crossed' \in BOOLEAN /\ failed' = FALSE
      /\ ~crossed' => Len(asked') <= 1 /\ asked' # <<>> /\ asked'[1] = Question(popupTitle, device, period)
  BY <1>1, <1>2, QuestionAsked DEF ReportInv
<1>4. Current' = Question(popupTitle, device, period)
  BY <1>1 DEF Current, Question, list
<1>5. Pending'
  <2>1. ~crossed' => Len(asked') <= 1 /\ asked' # <<>> /\ asked'[1] = Current'
    BY <1>3, <1>4
  <2>. QED  BY <2>1 DEF Pending
<1>6. ListTypes' /\ FocusHolds'
  BY <1>1 DEF list, ListTypes, FocusHolds, ReportInv, ReportShapes
<1>7. ExportInv' /\ SavedNow'
  <2>1. asked' # <<>>
    BY <1>1 DEF Ask, ReportInv, ReportShapes
  <2>. QED  BY <1>1, <1>6, <2>1, BesideExport DEF ReportInv, ListTypes, Standing
<1>. QED  BY <1>1, <1>3, <1>5, <1>6, <1>7 DEF ReportInv, ReportShapes

LEMMA AnsweredReport ==
  ASSUME NullApart, ReportInv, NEW i \in DOMAIN asked, Answer(i) \/ Fail(i) PROVE ReportInv'
<1>1. /\ asked' = Seqs!RemoveAt(asked, i) /\ Meanwhile
      /\ UNCHANGED <<list, popupTitle, picker, crossed>>
      /\ \/ gridAlerts' = asked[i] /\ failed' = failed
         \/ gridAlerts' = gridAlerts /\ failed' = TRUE
  BY DEF Answer, Fail
<1>2. asked \in Seq(Questions)
  BY DEF ReportInv, ReportShapes
<1>3. /\ asked' \in Seq(Questions)
      /\ Len(asked) <= 1 => i = 1 /\ asked' = <<>> /\ asked # <<>>
  BY <1>1, <1>2, AnswersTaken, EmptySeq
<1>4. asked[i] \in Questions
  BY <1>2, ElementOfSeq
<1>5. ListTypes' /\ FocusHolds' /\ Current' = Current
  BY <1>1 DEF list, ListTypes, FocusHolds, ReportInv, ReportShapes, Current, Question
<1>6. ReportShapes'
  BY <1>1, <1>3, <1>4, <1>5 DEF ReportInv, ReportShapes
<1>7. Pending'
  <2>1. ASSUME ~crossed'
        PROVE  /\ Len(asked') <= 1 /\ asked' = <<>>
               /\ popup' /\ ~outdated' => failed' \/ gridAlerts' = Current'
    <3>1. ~crossed /\ Len(asked) <= 1
      BY <1>1, <2>1 DEF ReportInv, Pending
    <3>2. i = 1 /\ asked' = <<>> /\ asked # <<>> /\ Len(asked') = 0
      BY <1>3, <3>1
    <3>3. popup' /\ ~outdated' => asked[1] = Current
      BY <1>1, <3>1, <3>2 DEF ReportInv, Pending, list
    <3>. QED  BY <1>1, <1>5, <3>2, <3>3
  <2>. QED  BY <2>1 DEF Pending
<1>8. ExportInv' /\ SavedNow'
  <2>1. asked # <<>>
    BY <1>2, EmptySeq
  <2>. QED  BY <1>1, <1>5, <2>1, BesideExport DEF ReportInv, ListTypes
<1>. QED  BY <1>5, <1>6, <1>7, <1>8 DEF ReportInv

LEMMA ExportedReport ==
  ASSUME ReportInv, openDownloadFileDialog \/ ExportGrid \/ SaveFile PROVE ReportInv'
<1>1. UNCHANGED <<list, dialogue>>
  BY DEF openDownloadFileDialog, ExportGrid, SaveFile
<1>2. ReportShapes' /\ FocusHolds' /\ Pending' /\ (Standing' <=> Standing)
  BY <1>1 DEF ReportInv, ReportShapes, ListTypes, FocusHolds, Pending, Current, Question,
              Standing, list, dialogue
<1>3. UNCHANGED <<popupTitle, device, gridAlerts, crossed, failed>>
  BY <1>1 DEF list, dialogue
<1>4. CASE openDownloadFileDialog
  <2>. DEFINE still == Standing /\ ~crossed /\ ~failed
  <2>1. still \in BOOLEAN
    OBVIOUS
  <2>2. export' = [step |-> "grid", title |-> popupTitle, rows |-> Null, steady |-> still]
        /\ saved' = Null /\ popupTitle \in Kind
    BY <1>4 DEF openDownloadFileDialog, ReportInv, ReportShapes
  <2>3. export' \in Exports
    BY <2>1, <2>2 DEF Exports
  <2>4. ExportInv'
    BY <1>2, <1>3, <2>2, <2>3 DEF ExportInv
  <2>. QED  BY <1>2, <2>2, <2>4 DEF ReportInv, SavedNow
<1>5. CASE ExportGrid
  <2>1. /\ export \in [step : {"grid", "file"}, title : Kind, rows : Questions \cup {Null},
                       steady : BOOLEAN]
        /\ export' = [export EXCEPT !.step = "file", !.rows = gridAlerts]
        /\ saved' = Null /\ gridAlerts \in Questions \cup {Null}
    BY <1>5 DEF ExportGrid, ReportInv, ReportShapes, ExportInv, Exports
  <2>2. /\ export' \in Exports /\ export'.steady = export.steady
        /\ export'.title = export.title /\ export'.rows = gridAlerts
    BY <2>1 DEF Exports
  <2>3. ExportInv'
    BY <1>2, <1>3, <1>5, <2>2 DEF ExportGrid, ReportInv, ExportInv
  <2>. QED  BY <1>2, <2>1, <2>3 DEF ReportInv, SavedNow
<1>6. CASE SaveFile
  <2>1. /\ export' = Null /\ export # Null /\ export.step = "file"
        /\ saved' = [title |-> export.title, imei |-> device, rows |-> export.rows,
                     steady |-> export.steady]
    BY <1>6 DEF SaveFile
  <2>2. SavedNow'
    BY <1>2, <1>3, <2>1 DEF ReportInv, ExportInv, SavedNow
  <2>. QED  BY <1>2, <2>1, <2>2 DEF ReportInv, ExportInv
<1>. QED  BY <1>4, <1>5, <1>6

LEMMA NextReport ==
  ASSUME NullApart, ReportInv, [ReportNext]_reportVars PROVE ReportInv'
<1>1. CASE ReportListMoves \/ CloseReport
  BY <1>1, MovedReport
<1>2. CASE popupSales \/ popupEncash \/ popupAlerts
  BY <1>2, OpenedReport DEF popupSales, popupEncash, popupAlerts, Kind
<1>3. ASSUME NEW period \in Period, Apply(period) PROVE ReportInv'
  BY <1>3, AppliedReport
<1>4. ASSUME NEW i \in DOMAIN asked, Answer(i) \/ Fail(i) PROVE ReportInv'
  BY <1>4, AnsweredReport
<1>5. ASSUME openDownloadFileDialog \/ ExportGrid \/ SaveFile PROVE ReportInv'
  BY <1>5, ExportedReport
<1>6. CASE UNCHANGED reportVars
  <2>1. UNCHANGED <<list, dialogue, export, saved>>
    BY <1>6 DEF reportVars
  <2>2. ReportShapes' /\ FocusHolds' /\ Pending'
    BY <2>1 DEF ReportInv, ReportShapes, ListTypes, FocusHolds, Pending, Current, Question,
                list, dialogue
  <2>3. ExportInv'
    <3>1. UNCHANGED <<export, popup, asked, outdated, crossed, failed, popupTitle, gridAlerts>>
      BY <2>1 DEF list, dialogue
    <3>2. ExportInv
      BY DEF ReportInv
    <3>. QED  BY <3>1, <3>2, Zenon DEF ExportInv, Standing
  <2>4. SavedNow'
    BY <2>1 DEF ReportInv, SavedNow, Standing, list, dialogue
  <2>. QED  BY <2>2, <2>3, <2>4 DEF ReportInv
<1>. QED  BY <1>1, <1>2, <1>3, <1>4, <1>5, <1>6 DEF ReportNext

(* The dialogue's state has its types, whatever answers come, in whatever  *)
(* order (popups.js:156-874).                                              *)
THEOREM ReportTypeCorrect == ASSUME NullApart PROVE ReportSpec => []ReportTypes
<1>1. ReportInv => ReportTypes
  BY DEF ReportInv, ReportShapes, ExportInv, SavedNow, ReportTypes
<1>. QED  BY <1>1, InitReport, NextReport, PTL DEF ReportSpec

(* The grid shows, and a file that is exported holds, the answer to the    *)
(* question its title, the machine in focus and the picker ask, unless two *)
(* questions crossed, one was not answered, the focus was moved under the  *)
(* dialogue, or it was closed or asked anew before the file was saved: for *)
(* any number of machines and periods, however often dialogues are opened  *)
(* and whatever comes between the three steps of an export                 *)
(* (popups.js:163-174, 505-510, 856-874).                                  *)
THEOREM AskedCorrect == ASSUME NullApart PROVE ReportSpec => []ShowsWhatIsAsked
<1>1. ReportInv => ShowsWhatIsAsked
  <2>1. ASSUME ReportInv, Standing, ~crossed, ~failed
        PROVE  gridAlerts = Question(popupTitle, device, picker)
    BY <2>1 DEF ReportInv, Pending, Standing, Current
  <2>. QED  BY <2>1 DEF ReportInv, SavedNow, ShowsWhatIsAsked
<1>. QED  BY <1>1, InitReport, NextReport, PTL DEF ReportSpec

-----------------------------------------------------------------------------
(* The settings of the application.                                        *)
(* The shapes of the requests in flight.                                   *)
Reading == [pc : {"set", "answer"}, id : Nat, settings : Settings, sure : BOOLEAN, old : BOOLEAN]
Storing == [pc : {"write", "set", "setAgain"}, id : Nat, settings : Settings,
            edits : SUBSET Field, sure : BOOLEAN, old : BOOLEAN, refilled : BOOLEAN]
Resting == [pc : {"idle"}]
Forms == [id : Nat, settings : Settings]

AppShapes ==
    /\ rows \in Seq(Settings) /\ memory \in Settings
    /\ form \in [Admin -> Forms \cup {Unfilled}]
    /\ get \in [Admin -> Resting \cup Reading]
    /\ post \in [Admin -> Resting \cup Storing]
    /\ edits \in [Admin -> SUBSET Field] /\ contested \in SUBSET Admin
    /\ unsure \in BOOLEAN

LEMMA MetShape ==
  /\ \A q \in Resting \cup Reading :
        /\ Met(q) \in Resting \cup Reading /\ Met(q).pc = q.pc
        /\ Setting(q) => ~Met(q).sure
        /\ ~At(q, "idle") => Met(q).settings = q.settings /\ Met(q).old = q.old /\ Met(q).id = q.id
  /\ \A q \in Resting \cup Storing :
        /\ Met(q) \in Resting \cup Storing /\ Met(q).pc = q.pc
        /\ Setting(q) => ~Met(q).sure
        /\ ~At(q, "idle") => /\ Met(q).settings = q.settings /\ Met(q).old = q.old /\ Met(q).id = q.id
                             /\ Met(q).edits = q.edits /\ Met(q).refilled = q.refilled
  BY DEF Met, Setting, At, Resting, Reading, Storing

LEMMA OvertakenShape ==
  ASSUME NEW id \in Nat
  PROVE  /\ \A q \in Resting \cup Reading :
               /\ Overtaken(q, id) \in Resting \cup Reading /\ Overtaken(q, id).pc = q.pc
               /\ ~At(q, "idle") =>
                     /\ Overtaken(q, id).id = q.id /\ Overtaken(q, id).settings = q.settings
                     /\ ~Overtaken(q, id).old => ~q.old /\ (q.id # id \/ id = 0)
         /\ \A q \in Resting \cup Storing :
               /\ Overtaken(q, id) \in Resting \cup Storing /\ Overtaken(q, id).pc = q.pc
               /\ ~At(q, "idle") =>
                     /\ Overtaken(q, id).id = q.id /\ Overtaken(q, id).settings = q.settings
                     /\ Overtaken(q, id).edits = q.edits /\ Overtaken(q, id).refilled = q.refilled
                     /\ ~Overtaken(q, id).old => ~q.old /\ (q.id # id \/ id = 0)
<1>1. ASSUME NEW q \in Resting \cup Reading, ~(At(q, "idle") \/ id = 0 \/ q.id # id)
      PROVE  q \in Reading /\ [q EXCEPT !.old = TRUE] \in Reading
  BY <1>1 DEF At, Resting, Reading
<1>2. ASSUME NEW q \in Resting \cup Storing, ~(At(q, "idle") \/ id = 0 \/ q.id # id)
      PROVE  q \in Storing /\ [q EXCEPT !.old = TRUE] \in Storing
  BY <1>2 DEF At, Resting, Storing
<1>. QED  BY <1>1, <1>2 DEF Overtaken, At, Resting, Reading, Storing

LEMMA InitAppShapes == AppInit => AppShapes
<1>. SUFFICES ASSUME AppInit PROVE AppShapes
  OBVIOUS
<1>1. Idle \in Resting
  BY DEF Idle, Resting
<1>2. \A settings \in Settings : <<settings>> \in Seq(Settings)
  OBVIOUS
<1>. QED  BY <1>1, <1>2 DEF AppInit, AppShapes

LEMMA NextAppShapes == AppShapes /\ [AppNext]_appVars => AppShapes'
<1>. SUFFICES ASSUME AppShapes, [AppNext]_appVars PROVE AppShapes'
  OBVIOUS
<1>0. Idle \in Resting
  BY DEF Idle, Resting
<1>1. ASSUME NEW a \in Admin, initAppSettings(a) PROVE AppShapes'
  <2>1. \A id \in DOMAIN rows :
           [pc |-> "set", id |-> id, settings |-> rows[id], sure |-> Alone, old |-> FALSE] \in Reading
    BY DEF AppShapes, Reading, Alone
  <2>. QED  BY <1>1, <2>1, MetShape DEF AppShapes, initAppSettings
<1>2. ASSUME NEW a \in Admin, SetRead(a) PROVE AppShapes'
  <2>1. get[a] \in Reading
    BY <1>2 DEF AppShapes, SetRead, At, Resting
  <2>2. [get[a] EXCEPT !.pc = "answer"] \in Reading
    BY <2>1 DEF Reading
  <2>. QED  BY <1>2, <2>1, <2>2 DEF AppShapes, SetRead, Reading
<1>3. ASSUME NEW a \in Admin, FillAppForm(a) PROVE AppShapes'
  <2>1. get[a] \in Reading
    BY <1>3 DEF AppShapes, FillAppForm, At, Resting
  <2>2. post' \in [Admin -> Resting \cup Storing]
    <3>1. CASE At(post[a], "write")
      <4>1. post[a] \in Storing
        BY <3>1 DEF AppShapes, At, Resting
      <4>2. [post[a] EXCEPT !.refilled = TRUE] \in Storing
        BY <4>1 DEF Storing
      <4>. QED  BY <1>3, <3>1, <4>2 DEF AppShapes, FillAppForm
    <3>2. CASE ~At(post[a], "write")
      BY <1>3, <3>2 DEF AppShapes, FillAppForm
    <3>. QED  BY <3>1, <3>2
  <2>3. Answered(a) \in Forms
    BY <2>1 DEF Answered, Forms, Reading
  <2>. QED  BY <1>0, <1>3, <2>2, <2>3 DEF AppShapes, FillAppForm
<1>4. ASSUME NEW a \in Admin, FailGet(a) PROVE AppShapes'
  <2>1. get[a] \in Reading
    BY <1>4 DEF AppShapes, FailGet, At, Resting
  <2>2. Blank \in Settings
    BY DEF Blank, Settings
  <2>3. [get[a] EXCEPT !.pc = "answer", !.id = 0, !.settings = Blank, !.old = FALSE] \in Reading
    BY <2>1, <2>2 DEF Reading
  <2>. QED  BY <1>0, <1>4, <2>3 DEF AppShapes, FailGet
<1>5. ASSUME NEW a \in Admin, NEW f \in Field, EditField(a, f) PROVE AppShapes'
  <2>1. form[a] \in Forms
    BY <1>5 DEF AppShapes, EditField
  <2>2. [form[a] EXCEPT !.settings[f] = 1 - @] \in Forms
    BY <2>1 DEF Forms, Settings
  <2>. QED  BY <1>5, <2>2 DEF AppShapes, EditField
<1>6. ASSUME NEW a \in Admin, sendAppSettings(a) PROVE AppShapes'
  <2>1. form[a] \in Forms
    BY <1>6 DEF AppShapes, sendAppSettings
  <2>2. [pc |-> "write", id |-> form[a].id, settings |-> form[a].settings, edits |-> edits[a], sure |-> FALSE,
         old |-> a \in contested, refilled |-> FALSE] \in Storing
    BY <2>1 DEF AppShapes, Storing, Forms
  <2>. QED  BY <1>6, <2>2 DEF AppShapes, sendAppSettings
<1>7. ASSUME NEW a \in Admin, Write(a) PROVE AppShapes'
  <2>1. post[a] \in Storing
    BY <1>7 DEF AppShapes, Write, At, Resting
  <2>2. [post[a] EXCEPT !.pc = "set", !.sure = Alone] \in Storing
    BY <2>1 DEF Storing, Alone
  <2>3. rows' \in Seq(Settings)
    <3>1. post[a].settings \in Settings /\ rows \in Seq(Settings)
      BY <2>1 DEF AppShapes, Storing
    <3>2. Append(rows, post[a].settings) \in Seq(Settings)
      BY <3>1
    <3>3. [rows EXCEPT ![post[a].id] = post[a].settings] \in Seq(Settings)
      <4>1. CASE post[a].id \in 1 .. Len(rows)
        BY <3>1, <4>1, ExceptSeq
      <4>2. CASE post[a].id \notin 1 .. Len(rows)
        <5>1. [rows EXCEPT ![post[a].id] = post[a].settings] = rows
          BY <3>1, <4>2
        <5>. QED  BY <3>1, <5>1
      <4>. QED  BY <4>1, <4>2
    <3>. QED  BY <1>7, <3>2, <3>3 DEF Write
  <2>6. post[a].id \in Nat
    BY <2>1 DEF Storing
  <2>4. get' \in [Admin -> Resting \cup Reading]
    BY <1>7, <2>6, MetShape, OvertakenShape DEF AppShapes, Write
  <2>5. post' \in [Admin -> Resting \cup Storing]
    BY <1>7, <2>2, <2>6, MetShape, OvertakenShape DEF AppShapes, Write
  <2>. QED  BY <1>7, <2>3, <2>4, <2>5 DEF AppShapes, Write
<1>8. ASSUME NEW a \in Admin, FailWrite(a) PROVE AppShapes'
  <2>1. post[a] \in Storing
    BY <1>8 DEF AppShapes, FailWrite, At, Resting
  <2>2. [post[a] EXCEPT !.pc = "setAgain", !.sure = FALSE] \in Storing
    BY <2>1 DEF Storing
  <2>. QED  BY <1>8, <2>2, MetShape DEF AppShapes, FailWrite
<1>9. ASSUME NEW a \in Admin, Set(a) PROVE AppShapes'
  <2>1. post[a] \in Storing
    BY <1>9 DEF AppShapes, Set, At, Resting
  <2>2. [post[a] EXCEPT !.pc = "setAgain"] \in Storing
    BY <2>1 DEF Storing
  <2>3. memory' \in Settings
    BY <1>9, <2>1 DEF Set, Storing
  <2>. QED  BY <1>9, <2>2, <2>3 DEF AppShapes, Set
<1>12. ASSUME NEW a \in Admin, SetAgain(a) PROVE AppShapes'
  <2>1. post[a] \in Storing
    BY <1>12 DEF AppShapes, SetAgain, At, Resting
  <2>2. memory' \in Settings
    BY <1>12, <2>1 DEF SetAgain, Storing
  <2>. QED  BY <1>0, <1>12, <2>2 DEF AppShapes, SetAgain
<1>10. CASE Restart
  <2>1. Defaults \in Settings
    BY DEF Defaults, Settings, Field
  <2>3. \A id \in DOMAIN rows : rows[id] \in Settings
    BY DEF AppShapes
  <2>2. memory' \in Settings /\ unsure' \in BOOLEAN
    BY <1>10, <2>1, <2>3 DEF AppShapes, Restart
  <2>. QED  BY <1>0, <1>10, <2>2 DEF AppShapes, Restart
<1>11. CASE UNCHANGED appVars
  BY <1>11 DEF AppShapes, appVars
<1>. QED  BY <1>1, <1>2, <1>3, <1>4, <1>5, <1>6, <1>7, <1>8, <1>9, <1>10, <1>11,
          <1>12 DEF AppNext, Page, Serve

(* The bounds are counted up to, and not past.                             *)
RequestBounds == MaxRequests \in Nat /\ MaxFaults \in Nat

Counts == requests \in 0 .. MaxRequests /\ faults \in 0 .. MaxFaults

LEMMA CountsKept == RequestBounds /\ Counts /\ [AppNext]_appVars => Counts'
<1>. SUFFICES ASSUME RequestBounds, Counts, [AppNext]_appVars PROVE Counts'
  OBVIOUS
<1>1. \/ UNCHANGED requests
      \/ requests < MaxRequests /\ requests' = requests + 1
  BY DEF AppNext, Page, Serve, appVars, initAppSettings, SetRead, FillAppForm, FailGet, EditField,
         sendAppSettings, Write, FailWrite, Set, SetAgain, Restart
<1>2. UNCHANGED faults \/ Fails
  BY DEF AppNext, Page, Serve, appVars, initAppSettings, SetRead, FillAppForm, FailGet, EditField,
         sendAppSettings, Write, FailWrite, Set, SetAgain, Restart
<1>. QED  BY <1>1, <1>2 DEF Counts, RequestBounds, Fails

(* The row, its copy, the forms and the requests keep their types, for any *)
(* number of administrators, requests and failures                         *)
(* (AppSettingsController.cs:24-52, ApplicationSettings.cs).               *)
THEOREM AppTypeCorrect == ASSUME RequestBounds PROVE AppSpec => []AppTypes
<1>1. AppInit => Counts
  BY DEF AppInit, Counts, RequestBounds
<1>2. AppShapes /\ Counts => AppTypes
  BY DEF AppShapes, Counts, AppTypes, Resting, Reading, Storing, Forms
<1>. QED  BY <1>1, <1>2, CountsKept, InitAppShapes, NextAppShapes, PTL DEF AppSpec

(***************************************************************************)
(* Ids are those of rows of the table: a request or a form takes its id    *)
(* from a row, a form or a request before it, or has none.                 *)
(***************************************************************************)
IdsStored ==
    /\ Len(rows) > 0
    /\ \A a \in Admin : ~At(get[a], "idle") => get[a].id <= Len(rows)
    /\ \A a \in Admin : ~At(post[a], "idle") => post[a].id <= Len(rows)
    /\ \A a \in Admin : form[a] # Unfilled => form[a].id <= Len(rows)

GetFrom(a) ==
    ~At(get'[a], "idle") =>
        \/ get'[a].id = 0 \/ get'[a].id \in DOMAIN rows
        \/ ~At(get[a], "idle") /\ get'[a].id = get[a].id
PostFrom(a) ==
    ~At(post'[a], "idle") =>
        \/ ~At(post[a], "idle") /\ post'[a].id = post[a].id
        \/ form[a] # Unfilled /\ post'[a].id = form[a].id
FormFrom(a) ==
    form'[a] # Unfilled =>
        \/ form[a] # Unfilled /\ form'[a].id = form[a].id
        \/ ~At(get[a], "idle") /\ form'[a].id = get[a].id
IdsFrom == \A a \in Admin : GetFrom(a) /\ PostFrom(a) /\ FormFrom(a)

LEMMA NextFrom == AppShapes /\ [AppNext]_appVars => IdsFrom
<1>. SUFFICES ASSUME AppShapes, [AppNext]_appVars PROVE IdsFrom
  OBVIOUS
<1>. USE DEF IdsFrom, GetFrom, PostFrom, FormFrom
<1>1. ASSUME NEW a \in Admin, initAppSettings(a) PROVE IdsFrom
  BY <1>1, MetShape DEF AppShapes, initAppSettings, At
<1>2. ASSUME NEW a \in Admin, SetRead(a) PROVE IdsFrom
  <2>1. get[a] \in Reading
    BY <1>2 DEF AppShapes, SetRead, At, Resting
  <2>. QED  BY <1>2, <2>1 DEF AppShapes, SetRead, At, Reading
<1>3. ASSUME NEW a \in Admin, FillAppForm(a) PROVE IdsFrom
  <2>1. /\ \A b \in Admin : ~At(get'[b], "idle") => get'[b] = get[b]
        /\ \A b \in Admin : b # a => form'[b] = form[b]
        /\ ~At(get[a], "idle") /\ form'[a].id = get[a].id
    BY <1>3 DEF AppShapes, FillAppForm, Answered, At, Idle
  <2>2. CASE At(post[a], "write")
    <3>1. post[a] \in Storing
      BY <2>2 DEF AppShapes, At, Resting
    <3>. QED  BY <1>3, <2>1, <2>2, <3>1 DEF AppShapes, FillAppForm, Storing, At
  <2>3. CASE ~At(post[a], "write")
    BY <1>3, <2>1, <2>3 DEF FillAppForm
  <2>. QED  BY <2>2, <2>3
<1>4. ASSUME NEW a \in Admin, FailGet(a) PROVE IdsFrom
  <2>1. get[a] \in Reading
    BY <1>4 DEF AppShapes, FailGet, At, Resting
  <2>. QED  BY <1>4, <2>1 DEF AppShapes, FailGet, Reading, At, Idle
<1>5. ASSUME NEW a \in Admin, NEW f \in Field, EditField(a, f) PROVE IdsFrom
  <2>1. form[a] \in Forms
    BY <1>5 DEF AppShapes, EditField
  <2>. QED  BY <1>5, <2>1 DEF AppShapes, EditField, Forms
<1>6. ASSUME NEW a \in Admin, sendAppSettings(a) PROVE IdsFrom
  BY <1>6 DEF AppShapes, sendAppSettings, At
<1>7. ASSUME NEW a \in Admin, Write(a) PROVE IdsFrom
  <2>1. post[a] \in Storing
    BY <1>7 DEF AppShapes, Write, At, Resting
  <2>2. /\ post[a].id \in Nat /\ form' = form
        /\ ~At(post[a], "idle") /\ post'[a].id = post[a].id
        /\ \A b \in Admin : b # a => post'[b] = Met(Overtaken(post[b], post[a].id))
        /\ \A b \in Admin : get'[b] = Met(Overtaken(get[b], post[a].id))
    BY <1>7, <2>1 DEF AppShapes, Write, Storing, At
  <2>. QED  BY <2>2, MetShape, OvertakenShape DEF AppShapes, At
<1>8. ASSUME NEW a \in Admin, FailWrite(a) PROVE IdsFrom
  <2>1. post[a] \in Storing
    BY <1>8 DEF AppShapes, FailWrite, At, Resting
  <2>2. /\ form' = form /\ ~At(post[a], "idle") /\ post'[a].id = post[a].id
        /\ \A b \in Admin : b # a => post'[b] = Met(post[b])
        /\ \A b \in Admin : get'[b] = Met(get[b])
    BY <1>8, <2>1 DEF AppShapes, FailWrite, Storing, At
  <2>. QED  BY <2>2, MetShape DEF AppShapes, At
<1>9. ASSUME NEW a \in Admin, Set(a) \/ SetAgain(a) PROVE IdsFrom
  <2>1. post[a] \in Storing
    BY <1>9 DEF AppShapes, Set, SetAgain, At, Resting
  <2>. QED  BY <1>9, <2>1 DEF AppShapes, Set, SetAgain, Storing, At, Idle
<1>10. CASE Restart
  BY <1>10 DEF Restart, At, Idle
<1>11. CASE UNCHANGED appVars
  BY <1>11 DEF appVars
<1>. QED  BY <1>1, <1>2, <1>3, <1>4, <1>5, <1>6, <1>7, <1>8, <1>9, <1>10, <1>11
          DEF AppNext, Page, Serve

LEMMA NextIds == AppShapes /\ IdsStored /\ [AppNext]_appVars => IdsStored'
<1>. SUFFICES ASSUME AppShapes, IdsStored, [AppNext]_appVars PROVE IdsStored'
  OBVIOUS
<1>1. AppShapes'
  BY NextAppShapes
<1>2. Len(rows') \in Nat /\ Len(rows) \in Nat /\ Len(rows') >= Len(rows)
  <2>1. CASE UNCHANGED rows
    BY <2>1 DEF AppShapes
  <2>2. ASSUME NEW a \in Admin, Write(a) PROVE Len(rows') >= Len(rows)
    <3>1. post[a] \in Storing
      BY <2>2 DEF AppShapes, Write, At, Resting
    <3>. QED  BY <2>2, <3>1 DEF AppShapes, Write, Storing
  <2>3. UNCHANGED rows \/ \E a \in Admin : Write(a)
    BY DEF AppNext, Page, Serve, appVars, initAppSettings, SetRead, FillAppForm, FailGet,
           EditField, sendAppSettings, FailWrite, Set, SetAgain, Restart
  <2>. QED  BY <1>1, <2>1, <2>2, <2>3 DEF AppShapes
<1>3. /\ \A a \in Admin : ~At(get'[a], "idle") => get'[a].id \in Nat /\ get'[a].id <= Len(rows)
      /\ \A a \in Admin : ~At(post'[a], "idle") => post'[a].id \in Nat /\ post'[a].id <= Len(rows)
      /\ \A a \in Admin : form'[a] # Unfilled => form'[a].id \in Nat /\ form'[a].id <= Len(rows)
  <2>1. /\ \A a \in Admin : ~At(get'[a], "idle") => get'[a].id \in Nat
        /\ \A a \in Admin : ~At(post'[a], "idle") => post'[a].id \in Nat
        /\ \A a \in Admin : form'[a] # Unfilled => form'[a].id \in Nat
    BY <1>1 DEF AppShapes, At, Resting, Reading, Storing, Forms
  <2>2. DOMAIN rows = 1 .. Len(rows)
    BY DEF AppShapes
  <2>. QED  BY <1>2, <2>1, <2>2, NextFrom DEF IdsStored, IdsFrom, GetFrom, PostFrom, FormFrom
<1>. QED  BY <1>2, <1>3 DEF IdsStored

(***************************************************************************)
(* The copy in memory.  A request that has met no other is the only one    *)
(* about to set the memory and carries a row; and while the memory is    *)
(* not a row, a stored form is on its way to it.                         *)
(***************************************************************************)
SureIsRow ==
    /\ \A a \in Admin : Setting(get[a]) /\ get[a].sure =>
          /\ IsRow(get[a].settings)
          /\ \A b \in Admin : ~Setting(post[b]) /\ (b # a => ~Setting(get[b]))
    /\ \A a \in Admin : Setting(post[a]) /\ post[a].sure =>
          /\ IsRow(post[a].settings)
          /\ \A b \in Admin : ~Setting(get[b]) /\ (b # a => ~Setting(post[b]))

OnItsWay ==
    ~unsure => IsRow(memory) \/ \E a \in Admin : Setting(post[a])

MemoryInv == AppShapes /\ IdsStored /\ SureIsRow /\ OnItsWay

LEMMA InitMemory == AppInit => MemoryInv
<1>. SUFFICES ASSUME AppInit PROVE MemoryInv
  OBVIOUS
<1>1. AppShapes
  BY InitAppShapes
<1>2. SureIsRow /\ OnItsWay /\ IdsStored
  BY DEF AppInit, SureIsRow, OnItsWay, IsRow, IdsStored, Setting, At, Idle
<1>. QED  BY <1>1, <1>2 DEF MemoryInv

LEMMA NextMemory == MemoryInv /\ [AppNext]_appVars => MemoryInv'
<1>. SUFFICES ASSUME MemoryInv, [AppNext]_appVars PROVE SureIsRow' /\ OnItsWay'
  BY NextAppShapes, NextIds DEF MemoryInv
<1>. USE DEF MemoryInv
<1>1. ASSUME NEW a \in Admin, initAppSettings(a) PROVE SureIsRow' /\ OnItsWay'
  <2>1. /\ get' \in [Admin -> Resting \cup Reading] /\ post' \in [Admin -> Resting \cup Storing]
        /\ rows' = rows /\ memory' = memory /\ unsure' = unsure
    BY <1>1, NextAppShapes DEF AppShapes, initAppSettings
  <2>2. /\ get'[a].pc = "set" /\ get'[a].sure = Alone /\ IsRow(get'[a].settings)
        /\ \A b \in Admin : b # a => get'[b] = Met(get[b])
        /\ \A b \in Admin : post'[b] = Met(post[b])
    BY <1>1 DEF AppShapes, initAppSettings, IsRow
  <2>3. /\ \A b \in Admin : Setting(post'[b]) <=> Setting(post[b])
        /\ \A b \in Admin : b # a => (Setting(get'[b]) <=> Setting(get[b]))
        /\ \A b \in Admin : Setting(post'[b]) => ~post'[b].sure
        /\ \A b \in Admin : b # a /\ Setting(get'[b]) => ~get'[b].sure
    BY <2>2, MetShape DEF AppShapes, Setting
  <2>4. SureIsRow'
    BY <2>1, <2>2, <2>3 DEF SureIsRow, IsRow, Alone
  <2>5. OnItsWay'
    BY <2>1, <2>3 DEF OnItsWay, IsRow
  <2>. QED  BY <2>4, <2>5
<1>2. ASSUME NEW a \in Admin, SetRead(a) PROVE SureIsRow' /\ OnItsWay'
  <2>1. /\ get'[a].pc = "answer" /\ \A b \in Admin : b # a => get'[b] = get[b]
        /\ post' = post /\ rows' = rows /\ Setting(get[a])
    <3>1. get[a] \in Reading
      BY <1>2 DEF AppShapes, SetRead, At, Resting
    <3>. QED  BY <1>2, <3>1 DEF AppShapes, SetRead, Reading, Setting, At
  <2>2. SureIsRow'
    BY <2>1 DEF SureIsRow, IsRow, Setting
  <2>3. OnItsWay'
    BY <1>2, <2>1 DEF OnItsWay, SureIsRow, IsRow, SetRead
  <2>. QED  BY <2>2, <2>3
<1>3. ASSUME NEW a \in Admin, FillAppForm(a) PROVE SureIsRow' /\ OnItsWay'
  <2>1. /\ \A b \in Admin : Setting(get'[b]) => get'[b] = get[b]
        /\ \A b \in Admin : Setting(post'[b]) <=> Setting(post[b])
        /\ \A b \in Admin : Setting(post'[b]) => post'[b] = post[b]
        /\ rows' = rows /\ memory' = memory /\ unsure' = unsure
    <3>1. \A b \in Admin : Setting(get'[b]) => get'[b] = get[b]
      BY <1>3 DEF AppShapes, FillAppForm, Setting, Idle
    <3>2. CASE At(post[a], "write")
      <4>1. post'[a].pc = "write" /\ post[a].pc = "write" /\ \A b \in Admin : b # a => post'[b] = post[b]
        BY <1>3, <3>2 DEF AppShapes, FillAppForm, At, Resting, Storing
      <4>. QED  BY <1>3, <3>1, <4>1 DEF FillAppForm, Setting
    <3>3. CASE ~At(post[a], "write")
      BY <1>3, <3>1, <3>3 DEF FillAppForm
    <3>. QED  BY <3>2, <3>3
  <2>2. SureIsRow'
    BY <2>1 DEF SureIsRow, IsRow
  <2>3. OnItsWay'
    BY <2>1 DEF OnItsWay, IsRow
  <2>. QED  BY <2>2, <2>3
<1>4. ASSUME NEW a \in Admin, FailGet(a) PROVE SureIsRow' /\ OnItsWay'
  <2>1. /\ \A b \in Admin : Setting(get'[b]) => get'[b] = get[b]
        /\ post' = post /\ rows' = rows /\ memory' = memory /\ unsure' = unsure
    <3>1. get[a] \in Reading
      BY <1>4 DEF AppShapes, FailGet, At, Resting
    <3>. QED  BY <1>4, <3>1 DEF AppShapes, FailGet, Reading, Setting, At, Idle
  <2>2. SureIsRow'
    BY <2>1 DEF SureIsRow, IsRow
  <2>3. OnItsWay'
    BY <2>1 DEF OnItsWay, IsRow
  <2>. QED  BY <2>2, <2>3
<1>5. ASSUME NEW a \in Admin, NEW f \in Field, EditField(a, f) PROVE SureIsRow' /\ OnItsWay'
  BY <1>5 DEF EditField, SureIsRow, OnItsWay, IsRow
<1>6. ASSUME NEW a \in Admin, sendAppSettings(a) PROVE SureIsRow' /\ OnItsWay'
  <2>1. /\ \A b \in Admin : Setting(post'[b]) <=> Setting(post[b])
        /\ \A b \in Admin : Setting(post'[b]) => post'[b] = post[b]
        /\ get' = get /\ rows' = rows /\ memory' = memory /\ unsure' = unsure
    BY <1>6 DEF AppShapes, sendAppSettings, Setting, At
  <2>2. SureIsRow'
    BY <2>1 DEF SureIsRow, IsRow
  <2>3. OnItsWay'
    BY <2>1 DEF OnItsWay, IsRow
  <2>. QED  BY <2>2, <2>3
<1>7. ASSUME NEW a \in Admin, Write(a) PROVE SureIsRow' /\ OnItsWay'
  <2>1. post[a] \in Storing /\ ~Setting(post[a])
    BY <1>7 DEF AppShapes, Write, At, Resting, Setting
  <2>6. /\ post[a].id \in Nat /\ post[a].settings \in Settings /\ post[a].id <= Len(rows)
        /\ At(post[a], "write")
    BY <1>7, <2>1 DEF IdsStored, Storing, Write, At
  <2>7. \E id \in DOMAIN rows' : rows'[id] = post[a].settings
    <3>1. CASE post[a].id = 0
      <4>1. /\ rows' = Append(rows, post[a].settings)
            /\ Len(rows') = Len(rows) + 1 /\ rows'[Len(rows) + 1] = post[a].settings
        BY <1>7, <2>6, <3>1 DEF Write, AppShapes
      <4>. QED  BY <4>1 DEF AppShapes
    <3>2. CASE post[a].id # 0
      BY <1>7, <2>6, <3>2 DEF Write, AppShapes
    <3>. QED  BY <3>1, <3>2
  <2>2. /\ post'[a].pc = "set" /\ post'[a].sure = Alone
        /\ post'[a].settings = post[a].settings
        /\ \A b \in Admin : b # a => post'[b] = Met(Overtaken(post[b], post[a].id))
        /\ \A b \in Admin : get'[b] = Met(Overtaken(get[b], post[a].id))
    BY <1>7, <2>1 DEF AppShapes, Write, Storing
  <2>3. /\ \A b \in Admin : Setting(get'[b]) <=> Setting(get[b])
        /\ \A b \in Admin : b # a => (Setting(post'[b]) <=> Setting(post[b]))
        /\ \A b \in Admin : Setting(get'[b]) => ~get'[b].sure
        /\ \A b \in Admin : b # a /\ Setting(post'[b]) => ~post'[b].sure
    BY <2>2, <2>6, MetShape, OvertakenShape DEF AppShapes, Setting
  <2>4. SureIsRow'
    BY <2>2, <2>3, <2>7 DEF SureIsRow, IsRow, Alone
  <2>5. OnItsWay'
    BY <2>2 DEF OnItsWay, Setting
  <2>. QED  BY <2>4, <2>5
<1>8. ASSUME NEW a \in Admin, FailWrite(a) PROVE SureIsRow' /\ OnItsWay'
  <2>1. post[a] \in Storing
    BY <1>8 DEF AppShapes, FailWrite, At, Resting
  <2>2. /\ post'[a].pc = "setAgain" /\ ~post'[a].sure
        /\ \A b \in Admin : b # a => post'[b] = Met(post[b])
        /\ \A b \in Admin : get'[b] = Met(get[b])
    BY <1>8, <2>1 DEF AppShapes, FailWrite, Storing
  <2>3. /\ \A b \in Admin : Setting(get'[b]) => ~get'[b].sure
        /\ \A b \in Admin : Setting(post'[b]) => ~post'[b].sure
    BY <2>2, MetShape DEF AppShapes, Setting
  <2>4. SureIsRow'
    BY <2>3 DEF SureIsRow, IsRow
  <2>5. OnItsWay'
    BY <2>2 DEF OnItsWay, Setting
  <2>. QED  BY <2>4, <2>5
<1>9. ASSUME NEW a \in Admin, Set(a) PROVE SureIsRow' /\ OnItsWay'
  <2>1. post[a] \in Storing
    BY <1>9 DEF AppShapes, Set, At, Resting
  <2>2. /\ post'[a].pc = "setAgain" /\ post'[a].sure = post[a].sure
        /\ post'[a].settings = post[a].settings /\ Setting(post[a]) /\ Setting(post'[a])
        /\ \A b \in Admin : b # a => post'[b] = post[b]
        /\ get' = get /\ rows' = rows
    BY <1>9, <2>1 DEF AppShapes, Set, Storing, Setting, At
  <2>3. SureIsRow'
    BY <2>2 DEF SureIsRow, IsRow
  <2>4. OnItsWay'
    BY <2>2 DEF OnItsWay, IsRow
  <2>. QED  BY <2>3, <2>4
<1>12. ASSUME NEW a \in Admin, SetAgain(a) PROVE SureIsRow' /\ OnItsWay'
  <2>1. /\ Setting(post[a]) /\ ~Setting(post'[a])
        /\ \A b \in Admin : b # a => post'[b] = post[b]
        /\ get' = get /\ rows' = rows
    BY <1>12 DEF AppShapes, SetAgain, Setting, At, Idle
  <2>2. SureIsRow'
    BY <2>1 DEF SureIsRow, IsRow
  <2>3. OnItsWay'
    BY <1>12, <2>1 DEF OnItsWay, SureIsRow, IsRow, SetAgain
  <2>. QED  BY <2>2, <2>3
<1>10. CASE Restart
  <2>1. /\ \A b \in Admin : ~Setting(get'[b]) /\ ~Setting(post'[b])
        /\ rows' = rows /\ (IsRow(memory') \/ unsure')
    BY <1>10 DEF Restart, IsRow, Setting, Idle
  <2>. QED  BY <2>1 DEF SureIsRow, OnItsWay, IsRow
<1>11. CASE UNCHANGED appVars
  BY <1>11 DEF appVars, SureIsRow, OnItsWay, IsRow
<1>. QED  BY <1>1, <1>2, <1>3, <1>4, <1>5, <1>6, <1>7, <1>8, <1>9, <1>10, <1>11, <1>12
          DEF AppNext, Page, Serve

(* When nobody is about to set the memory it is a row of the table, unless *)
(* what set it last met another request or a failure, however many         *)
(* administrators read and store and however many rows forms built on      *)
(* failed reads have added (AppSettingsController.cs:35-49,                *)
(* AppSettingsDbProvider.cs:17-46).                                        *)
THEOREM MemoryCorrect == AppSpec => []MemoryIsRow
<1>1. MemoryInv => MemoryIsRow
  BY DEF MemoryInv, OnItsWay, MemoryIsRow, Alone
<1>. QED  BY <1>1, InitMemory, NextMemory, PTL DEF AppSpec

(***************************************************************************)
(* What a form stores.  What was read, or filled in, before a change of    *)
(* its row was stored is that row, or blank if it has none, but for what   *)
(* was edited since; and a form that was sent and not filled again differs *)
(* from what it sent by later edits.                                       *)
(***************************************************************************)
ReadIsRow ==
    \A a \in Admin : ~At(get[a], "idle") /\ ~get[a].old => get[a].settings = Row(get[a].id)

FormIsRow ==
    \A a \in Admin \ contested : form[a] # Unfilled =>
        \A f \in Field \ edits[a] : form[a].settings[f] = Row(form[a].id)[f]

SentIsRow ==
    \A a \in Admin : At(post[a], "write") /\ ~post[a].old =>
        \A f \in Field \ post[a].edits : post[a].settings[f] = Row(post[a].id)[f]

SentIsForm ==
    \A a \in Admin : At(post[a], "write") /\ ~post[a].refilled =>
        /\ form[a].id = post[a].id
        /\ \A f \in Field \ edits[a] : form[a].settings[f] = post[a].settings[f]

StoreInv == AppShapes /\ IdsStored /\ ReadIsRow /\ FormIsRow /\ SentIsRow /\ SentIsForm

LEMMA InitStore == AppInit => StoreInv
<1>. SUFFICES ASSUME AppInit PROVE StoreInv
  OBVIOUS
<1>1. AppShapes
  BY InitAppShapes
<1>2. IdsStored /\ ReadIsRow /\ FormIsRow /\ SentIsRow /\ SentIsForm
  BY DEF AppInit, IdsStored, ReadIsRow, FormIsRow, SentIsRow, SentIsForm, At, Idle
<1>. QED  BY <1>1, <1>2 DEF StoreInv

(* A step that leaves the row, the forms and what was sent alone.          *)
LEMMA StoreKept ==
  ASSUME StoreInv, rows' = rows, form' = form, edits' = edits, contested' = contested,
         \A a \in Admin : ~At(get'[a], "idle") =>
            /\ ~At(get[a], "idle") /\ get'[a].old = get[a].old
               /\ get'[a].settings = get[a].settings /\ get'[a].id = get[a].id,
         \A a \in Admin : At(post'[a], "write") =>
            /\ At(post[a], "write") /\ post'[a].settings = post[a].settings
            /\ post'[a].id = post[a].id /\ post'[a].old = post[a].old /\ post'[a].edits = post[a].edits
            /\ post'[a].refilled = post[a].refilled
  PROVE  (ReadIsRow /\ FormIsRow /\ SentIsRow /\ SentIsForm)'
<1>1. ReadIsRow'
  BY DEF StoreInv, ReadIsRow, Row
<1>2. FormIsRow'
  BY DEF StoreInv, FormIsRow, Row
<1>3. SentIsRow'
  BY DEF StoreInv, SentIsRow, Row
<1>4. SentIsForm'
  BY DEF StoreInv, SentIsForm
<1>. QED  BY <1>1, <1>2, <1>3, <1>4

(* Storing changes the one row, or adds one.                               *)
RowAfter(id) == IF id = 0 THEN Blank ELSE rows'[id]

LEMMA StoredRow ==
  ASSUME NEW a \in Admin, rows \in Seq(Settings), Write(a), post[a].id \in Nat,
         post[a].id <= Len(rows), post[a].settings \in Settings
  PROVE  /\ \A k \in 0 .. Len(rows) : (k = 0 \/ k # post[a].id) => RowAfter(k) = Row(k)
         /\ post[a].id # 0 => RowAfter(post[a].id) = post[a].settings
         /\ post[a].id = 0 => /\ rows'[Len(rows) + 1] = post[a].settings
                              /\ DOMAIN rows' = DOMAIN rows \cup {Len(rows) + 1}
         /\ post[a].id # 0 => post[a].id \in DOMAIN rows /\ DOMAIN rows' = DOMAIN rows
<1>1. DOMAIN rows = 1 .. Len(rows) /\ Len(rows) \in Nat
  OBVIOUS
<1>2. CASE post[a].id = 0
  <2>1. rows' = Append(rows, post[a].settings)
    BY <1>2 DEF Write
  <2>2. /\ Len(rows') = Len(rows) + 1 /\ DOMAIN rows' = 1 .. Len(rows) + 1
        /\ rows'[Len(rows) + 1] = post[a].settings
        /\ \A k \in 1 .. Len(rows) : rows'[k] = rows[k]
    BY <2>1
  <2>. QED  BY <1>1, <1>2, <2>2 DEF Row, RowAfter
<1>3. CASE post[a].id # 0
  <2>1. rows' = [rows EXCEPT ![post[a].id] = post[a].settings] /\ post[a].id \in DOMAIN rows
    BY <1>1, <1>3 DEF Write
  <2>. QED  BY <1>1, <1>3, <2>1 DEF Row, RowAfter
<1>. QED  BY <1>2, <1>3

LEMMA NextStore == StoreInv /\ [AppNext]_appVars => StoreInv'
<1>. SUFFICES ASSUME StoreInv, [AppNext]_appVars
              PROVE  (ReadIsRow /\ FormIsRow /\ SentIsRow /\ SentIsForm)'
  BY NextAppShapes, NextIds DEF StoreInv
<1>. DEFINE Kept == (ReadIsRow /\ FormIsRow /\ SentIsRow /\ SentIsForm)'
<1>0. AppShapes
  BY DEF StoreInv
<1>1. ASSUME NEW a \in Admin, initAppSettings(a) PROVE Kept
  <2>1. /\ get'[a].pc = "set" /\ get'[a].settings = Row(get'[a].id)
        /\ \A b \in Admin : b # a => get'[b] = Met(get[b])
        /\ \A b \in Admin : post'[b] = Met(post[b])
        /\ rows' = rows /\ form' = form /\ edits' = edits /\ contested' = contested
    BY <1>0, <1>1 DEF AppShapes, initAppSettings, Row
  <2>2. ReadIsRow'
    BY <1>0, <2>1, MetShape DEF StoreInv, ReadIsRow, AppShapes, At, Row
  <2>3. FormIsRow'
    BY <2>1 DEF StoreInv, FormIsRow, Row
  <2>4. \A b \in Admin : At(post'[b], "write") =>
           /\ At(post[b], "write") /\ post'[b].settings = post[b].settings
           /\ post'[b].id = post[b].id /\ post'[b].old = post[b].old /\ post'[b].edits = post[b].edits
           /\ post'[b].refilled = post[b].refilled
    BY <1>0, <2>1, MetShape DEF AppShapes, At
  <2>5. SentIsRow'
    BY <2>1, <2>4 DEF StoreInv, SentIsRow, Row
  <2>6. SentIsForm'
    BY <2>1, <2>4 DEF StoreInv, SentIsForm
  <2>. QED  BY <2>2, <2>3, <2>5, <2>6
<1>2. ASSUME NEW a \in Admin, SetRead(a) PROVE Kept
  <2>1. get[a] \in Reading
    BY <1>0, <1>2 DEF AppShapes, SetRead, At, Resting
  <2>2. \A b \in Admin : ~At(get'[b], "idle") =>
           /\ ~At(get[b], "idle") /\ get'[b].old = get[b].old
           /\ get'[b].settings = get[b].settings /\ get'[b].id = get[b].id
    BY <1>0, <1>2, <2>1 DEF AppShapes, SetRead, At, Reading
  <2>. QED  BY <1>2, <2>2, StoreKept DEF SetRead
<1>3. ASSUME NEW a \in Admin, FillAppForm(a) PROVE Kept
  <2>1. /\ \A b \in Admin : ~At(get'[b], "idle") => b # a /\ get'[b] = get[b]
        /\ form'[a].id = get[a].id /\ form'[a].settings = get[a].settings
        /\ edits'[a] = {} /\ ~At(get[a], "idle")
        /\ \A b \in Admin : b # a => form'[b] = form[b] /\ edits'[b] = edits[b]
        /\ contested' = IF get[a].old THEN contested \cup {a} ELSE contested \ {a}
        /\ rows' = rows
    BY <1>0, <1>3 DEF AppShapes, FillAppForm, Answered, At, Idle
  <2>2. /\ \A b \in Admin : b # a => post'[b] = post[b]
        /\ At(post'[a], "write") =>
              /\ At(post[a], "write") /\ post'[a].settings = post[a].settings
              /\ post'[a].id = post[a].id /\ post'[a].old = post[a].old /\ post'[a].edits = post[a].edits
              /\ post'[a].refilled
    <3>1. CASE At(post[a], "write")
      <4>1. post[a] \in Storing
        BY <1>0, <3>1 DEF AppShapes, At, Resting
      <4>. QED  BY <1>0, <1>3, <3>1, <4>1 DEF AppShapes, FillAppForm, Storing
    <3>2. CASE ~At(post[a], "write")
      BY <1>3, <3>2 DEF FillAppForm
    <3>. QED  BY <3>1, <3>2
  <2>3. ReadIsRow'
    BY <2>1 DEF StoreInv, ReadIsRow, Row
  <2>4. FormIsRow'
    BY <2>1 DEF StoreInv, ReadIsRow, FormIsRow, Row
  <2>5. SentIsRow'
    BY <2>1, <2>2 DEF StoreInv, SentIsRow, Row
  <2>6. SentIsForm'
    BY <2>1, <2>2 DEF StoreInv, SentIsForm
  <2>. QED  BY <2>3, <2>4, <2>5, <2>6
<1>4. ASSUME NEW a \in Admin, FailGet(a) PROVE Kept
  <2>1. get[a] \in Reading
    BY <1>0, <1>4 DEF AppShapes, FailGet, At, Resting
  <2>2. /\ \A b \in Admin : b # a => get'[b] = get[b]
        /\ ~At(get'[a], "idle") => get'[a].id = 0 /\ get'[a].settings = Blank
        /\ post' = post /\ rows' = rows /\ form' = form /\ edits' = edits /\ contested' = contested
    BY <1>0, <1>4, <2>1 DEF AppShapes, FailGet, Reading, At, Idle
  <2>3. ReadIsRow'
    BY <2>2 DEF StoreInv, ReadIsRow, Row
  <2>4. FormIsRow' /\ SentIsRow' /\ SentIsForm'
    BY <2>2 DEF StoreInv, FormIsRow, SentIsRow, SentIsForm, Row
  <2>. QED  BY <2>3, <2>4
<1>5. ASSUME NEW a \in Admin, NEW f \in Field, EditField(a, f) PROVE Kept
  <2>1. form[a] \in Forms
    BY <1>0, <1>5 DEF AppShapes, EditField
  <2>2. /\ \A b \in Admin : edits[b] \subseteq edits'[b]
        /\ \A b \in Admin : b # a => form'[b] = form[b]
        /\ f \in edits'[a] /\ \A g \in Field : g # f => form'[a].settings[g] = form[a].settings[g]
        /\ form[a] # Unfilled /\ form'[a].id = form[a].id
        /\ get' = get /\ post' = post /\ rows' = rows /\ contested' = contested
    BY <1>0, <1>5, <2>1 DEF AppShapes, EditField, Forms, Settings
  <2>3. ReadIsRow' /\ SentIsRow'
    BY <2>2 DEF StoreInv, ReadIsRow, SentIsRow, Row
  <2>4. FormIsRow'
    BY <2>2 DEF StoreInv, FormIsRow, Row
  <2>5. SentIsForm'
    BY <2>2 DEF StoreInv, SentIsForm
  <2>. QED  BY <2>3, <2>4, <2>5
<1>6. ASSUME NEW a \in Admin, sendAppSettings(a) PROVE Kept
  <2>1. /\ \A b \in Admin : b # a => post'[b] = post[b]
        /\ post'[a].settings = form[a].settings
        /\ post'[a].id = form[a].id /\ post'[a].edits = edits[a]
        /\ post'[a].old = (a \in contested) /\ form[a] # Unfilled
        /\ get' = get /\ rows' = rows /\ form' = form /\ edits' = edits /\ contested' = contested
    BY <1>0, <1>6 DEF AppShapes, sendAppSettings
  <2>2. ReadIsRow' /\ FormIsRow'
    BY <2>1 DEF StoreInv, ReadIsRow, FormIsRow, Row
  <2>3. a \notin contested => \A f \in Field \ edits[a] : form[a].settings[f] = Row(form[a].id)[f]
    BY <2>1 DEF StoreInv, FormIsRow
  <2>4. \A b \in Admin \ {a} : At(post[b], "write") /\ ~post[b].old =>
           \A f \in Field \ post[b].edits : post[b].settings[f] = Row(post[b].id)[f]
    BY DEF StoreInv, SentIsRow
  <2>5. SentIsRow'
    <3>. SUFFICES ASSUME NEW b \in Admin, At(post'[b], "write"), ~post'[b].old,
                         NEW f \in Field \ post'[b].edits
                  PROVE  post'[b].settings[f] = Row(post'[b].id)[f]
      BY <2>1 DEF SentIsRow, Row
    <3>1. CASE b = a
      <4>1. a \notin contested
        BY <2>1, <3>1
      <4>2. f \in Field \ edits[a]
        BY <2>1, <3>1
      <4>3. post'[a].settings[f] = form[a].settings[f] /\ form[a].settings[f] = Row(form[a].id)[f]
        BY <2>1, <2>3, <4>1, <4>2
      <4>. QED  BY <2>1, <3>1, <4>3
    <3>2. CASE b # a
      BY <2>1, <2>4, <3>2
    <3>. QED  BY <3>1, <3>2
  <2>6. SentIsForm'
    BY <2>1 DEF StoreInv, SentIsForm
  <2>. QED  BY <2>2, <2>5, <2>6
<1>7. ASSUME NEW a \in Admin, Write(a) PROVE Kept
  <2>1. post[a] \in Storing /\ At(post[a], "write")
    BY <1>0, <1>7 DEF AppShapes, Write, At, Resting
  <2>. DEFINE id == post[a].id
  <2>2. id \in Nat /\ post[a].settings \in Settings /\ id <= Len(rows)
    BY <2>1 DEF StoreInv, IdsStored, Storing, At
  <2>3. /\ post'[a].pc = "set"
        /\ \A b \in Admin : b # a => post'[b] = Met(Overtaken(post[b], id))
        /\ \A b \in Admin : get'[b] = Met(Overtaken(get[b], id))
        /\ form' = form /\ edits' = edits
        /\ contested' = contested \cup {b \in Admin : Holds(b, id) /\ (b # a \/ post[a].refilled)}
    BY <1>0, <1>7, <2>1 DEF AppShapes, Write, Storing
  <2>4. /\ \A k \in 0 .. Len(rows) : (k = 0 \/ k # id) => RowAfter(k) = Row(k)
        /\ id # 0 => RowAfter(id) = post[a].settings
    BY <1>0, <1>7, <2>2, StoredRow DEF StoreInv, AppShapes
  <2>5. \A b \in Admin : ~At(get'[b], "idle") /\ ~get'[b].old =>
           /\ ~At(get[b], "idle") /\ ~get[b].old /\ (get[b].id # id \/ id = 0)
           /\ get'[b].id = get[b].id /\ get'[b].settings = get[b].settings
    BY <1>0, <2>2, <2>3, MetShape, OvertakenShape DEF AppShapes, At
  <2>6. \A b \in Admin : At(post'[b], "write") =>
           /\ b # a /\ At(post[b], "write") /\ post'[b].id = post[b].id
           /\ post'[b].settings = post[b].settings /\ post'[b].edits = post[b].edits
           /\ post'[b].refilled = post[b].refilled
           /\ ~post'[b].old => ~post[b].old /\ (post[b].id # id \/ id = 0)
    BY <1>0, <2>2, <2>3, MetShape, OvertakenShape DEF AppShapes, At
  <2>7. ReadIsRow'
    <3>. SUFFICES ASSUME NEW b \in Admin, ~At(get'[b], "idle"), ~get'[b].old
                  PROVE  get'[b].settings = RowAfter(get'[b].id)
      BY DEF ReadIsRow, Row, RowAfter
    <3>1. get[b].id \in 0 .. Len(rows) /\ get[b].settings = Row(get[b].id)
      BY <1>0, <2>5 DEF StoreInv, IdsStored, ReadIsRow, AppShapes, At, Resting, Reading
    <3>. QED  BY <2>4, <2>5, <3>1
  <2>8. SentIsRow'
    <3>. SUFFICES ASSUME NEW b \in Admin, At(post'[b], "write"), ~post'[b].old,
                         NEW f \in Field \ post'[b].edits
                  PROVE  post'[b].settings[f] = RowAfter(post'[b].id)[f]
      BY DEF SentIsRow, Row, RowAfter
    <3>1. post[b].id \in 0 .. Len(rows) /\ post[b].settings[f] = Row(post[b].id)[f]
      BY <1>0, <2>6 DEF StoreInv, IdsStored, SentIsRow, AppShapes, At, Resting, Storing
    <3>. QED  BY <2>4, <2>6, <3>1
  <2>9. FormIsRow'
    <3>. SUFFICES ASSUME NEW b \in Admin \ contested', form[b] # Unfilled,
                         NEW f \in Field \ edits[b]
                  PROVE  form[b].settings[f] = RowAfter(form[b].id)[f]
      BY <2>3 DEF FormIsRow, Row, RowAfter
    <3>1. form[b].id \in 0 .. Len(rows) /\ form[b].settings[f] = Row(form[b].id)[f]
      BY <1>0, <2>3 DEF StoreInv, IdsStored, FormIsRow, AppShapes, Forms
    <3>2. CASE form[b].id # id \/ id = 0
      BY <2>4, <3>1, <3>2
    <3>3. CASE form[b].id = id /\ id # 0
      <4>1. b = a /\ ~post[a].refilled
        BY <2>3, <3>3 DEF Holds
      <4>2. form[a].settings[f] = post[a].settings[f]
        BY <2>1, <4>1 DEF StoreInv, SentIsForm
      <4>. QED  BY <2>4, <3>3, <4>1, <4>2
    <3>. QED  BY <3>2, <3>3
  <2>10. SentIsForm'
    BY <2>3, <2>6 DEF StoreInv, SentIsForm
  <2>. QED  BY <2>7, <2>8, <2>9, <2>10
<1>8. ASSUME NEW a \in Admin, FailWrite(a) PROVE Kept
  <2>1. post[a] \in Storing
    BY <1>0, <1>8 DEF AppShapes, FailWrite, At, Resting
  <2>2. /\ post'[a].pc = "setAgain"
        /\ \A b \in Admin : b # a => post'[b] = Met(post[b])
        /\ \A b \in Admin : get'[b] = Met(get[b])
    BY <1>0, <1>8, <2>1 DEF AppShapes, FailWrite, Storing
  <2>3. \A b \in Admin : ~At(get'[b], "idle") =>
           /\ ~At(get[b], "idle") /\ get'[b].old = get[b].old
           /\ get'[b].settings = get[b].settings /\ get'[b].id = get[b].id
    BY <1>0, <2>2, MetShape DEF AppShapes, At
  <2>4. \A b \in Admin : At(post'[b], "write") =>
           /\ At(post[b], "write") /\ post'[b].settings = post[b].settings
           /\ post'[b].id = post[b].id /\ post'[b].old = post[b].old /\ post'[b].edits = post[b].edits
           /\ post'[b].refilled = post[b].refilled
    BY <1>0, <2>2, MetShape DEF AppShapes, At
  <2>. QED  BY <1>8, <2>3, <2>4, StoreKept DEF FailWrite
<1>9. ASSUME NEW a \in Admin, Set(a) PROVE Kept
  <2>1. post[a] \in Storing
    BY <1>0, <1>9 DEF AppShapes, Set, At, Resting
  <2>2. \A b \in Admin : At(post'[b], "write") => post'[b] = post[b]
    BY <1>0, <1>9, <2>1 DEF AppShapes, Set, Storing, At
  <2>. QED  BY <1>9, <2>2, StoreKept DEF Set
<1>10. ASSUME NEW a \in Admin, SetAgain(a) PROVE Kept
  <2>1. \A b \in Admin : At(post'[b], "write") => post'[b] = post[b]
    BY <1>0, <1>10 DEF AppShapes, SetAgain, Idle, At
  <2>. QED  BY <1>10, <2>1, StoreKept DEF SetAgain
<1>11. CASE Restart
  <2>1. \A b \in Admin : At(get'[b], "idle") /\ ~At(post'[b], "write")
    BY <1>11 DEF Restart, Idle, At
  <2>. QED  BY <1>11, <2>1, StoreKept DEF Restart
<1>12. CASE UNCHANGED appVars
  BY <1>12, StoreKept DEF appVars
<1>. QED  BY <1>1, <1>2, <1>3, <1>4, <1>5, <1>6, <1>7, <1>8, <1>9, <1>10, <1>11, <1>12
          DEF AppNext, Page, Serve

LEMMA StoreStep == StoreInv /\ [AppNext]_appVars => [StoresEdited]_appVars
<1>. SUFFICES ASSUME StoreInv, [AppNext]_appVars, rows' # rows PROVE StoresEdited
  BY DEF StoresEdited
<1>0. AppShapes
  BY DEF StoreInv
<1>1. PICK a \in Admin : Write(a)
  BY DEF AppNext, Page, Serve, appVars, initAppSettings, SetRead, FillAppForm, FailGet, EditField,
         sendAppSettings, FailWrite, Set, SetAgain, Restart
<1>2. post[a] \in Storing /\ At(post[a], "write")
  BY <1>0, <1>1 DEF AppShapes, Write, At, Resting
<1>3. /\ post'[a].pc = "set" /\ post[a].id \in Nat /\ post[a].id <= Len(rows)
      /\ post[a].settings \in Settings
  BY <1>0, <1>1, <1>2 DEF StoreInv, IdsStored, AppShapes, Write, Storing, At
<1>. DEFINE new == IF post[a].id = 0 THEN Len(rows) + 1 ELSE post[a].id
<1>4. /\ DOMAIN rows' = DOMAIN rows \cup {new}
      /\ rows'[new] = post[a].settings
      /\ \A k \in DOMAIN rows \ {new} : rows'[k] = rows[k]
  <2>1. rows \in Seq(Settings) /\ DOMAIN rows = 1 .. Len(rows) /\ Len(rows) \in Nat
    BY <1>0 DEF AppShapes
  <2>2. /\ \A k \in 0 .. Len(rows) : (k = 0 \/ k # post[a].id) => RowAfter(k) = Row(k)
        /\ post[a].id # 0 => RowAfter(post[a].id) = post[a].settings
        /\ post[a].id = 0 => /\ rows'[Len(rows) + 1] = post[a].settings
                             /\ DOMAIN rows' = DOMAIN rows \cup {Len(rows) + 1}
        /\ post[a].id # 0 => post[a].id \in DOMAIN rows /\ DOMAIN rows' = DOMAIN rows
    BY <1>1, <1>3, <2>1, StoredRow
  <2>3. \A k \in DOMAIN rows \ {new} : rows'[k] = rows[k]
    <3>. SUFFICES ASSUME NEW k \in DOMAIN rows, k # new PROVE rows'[k] = rows[k]
      OBVIOUS
    <3>1. k \in 0 .. Len(rows) /\ k # 0 /\ k # post[a].id
      BY <2>1
    <3>2. RowAfter(k) = Row(k)
      BY <2>2, <3>1
    <3>. QED  BY <3>1, <3>2 DEF Row, RowAfter
  <2>4. DOMAIN rows' = DOMAIN rows \cup {new} /\ rows'[new] = post[a].settings
    <3>1. CASE post[a].id = 0
      BY <2>2, <3>1
    <3>2. CASE post[a].id # 0
      BY <2>2, <3>2 DEF RowAfter
    <3>. QED  BY <3>1, <3>2
  <2>. QED  BY <2>3, <2>4
<1>5. post[a].old \/ \A f \in Field : rows'[new][f] # Row(post[a].id)[f] => f \in post[a].edits
  BY <1>2, <1>4 DEF StoreInv, SentIsRow
<1>6. Edited(a)
  BY <1>4, <1>5 DEF Edited
<1>. QED  BY <1>2, <1>3, <1>6 DEF StoresEdited, Setting

(* A stored form changes, in the row it was filled with, what its          *)
(* administrator has edited in it, unless a change by another was stored   *)
(* since; one built on a failed read changes no row and adds one           *)
(* (appSettings.js:5-7, 75-83, AppSettingsDbProvider.cs:30-44).            *)
THEOREM StoresCorrect == AppSpec => OnlyEditedStored
<1>. QED  BY InitStore, NextStore, StoreStep, PTL DEF AppSpec, OnlyEditedStored
=============================================================================
