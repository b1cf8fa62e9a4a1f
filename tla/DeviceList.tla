------------------------------ MODULE DeviceList ------------------------------
(***************************************************************************)
(* The list of machines on the dashboard (Dashboard/Index.cshtml): the     *)
(* machine in focus is a global of the page that every dialogue uses, and  *)
(* the list is fetched anew every ten seconds.  The modules of the         *)
(* dialogues extend this one.                                              *)
(***************************************************************************)
EXTENDS Naturals, Sequences

CONSTANTS
    Machine,
    Null

VARIABLES
    device,         \* the machine in focus
    popup,          \* a dialogue is open
    refresh,        \* the list on its way (bound: one at a time): the focus to
                    \* come back to, and whether a dialogue was opened since
    outdated        \* history: such a list came after the dialogue was opened

list == <<device, popup, refresh, outdated>>

ListInit ==
    /\ device = Null /\ popup = FALSE
    /\ refresh = [key |-> Null, early |-> FALSE] /\ outdated = FALSE

(* onFocusedRowChanged; a dialogue is modal.                               *)
Focus(m) ==
    /\ device # Null /\ ~popup
    /\ device' = m
    /\ UNCHANGED <<popup, refresh, outdated>>

(* updateDevicesList, called by the timer and after every change.          *)
Refresh ==
    /\ refresh = Null
    /\ refresh' = [key |-> device, early |-> FALSE]
    /\ UNCHANGED <<device, popup, outdated>>

(* setDevice: the focus goes back to where it was when the list was asked  *)
(* for, and to the first row when there was none.                          *)
Refreshed ==
    /\ refresh # Null /\ refresh' = Null
    /\ IF refresh.key = Null THEN device' \in Machine ELSE device' = refresh.key
    /\ outdated' = (outdated \/ refresh.early)
    /\ UNCHANGED popup

RefreshLost ==
    /\ refresh # Null /\ refresh' = Null
    /\ UNCHANGED <<device, popup, outdated>>

OpenDialogue ==
    /\ ~popup /\ popup' = TRUE
    /\ refresh' = IF refresh = Null THEN Null ELSE [refresh EXCEPT !.early = TRUE]
    /\ outdated' = FALSE
    /\ UNCHANGED device

CloseDialogue ==
    /\ popup /\ popup' = FALSE
    /\ UNCHANGED <<device, refresh, outdated>>

ListStep ==
    \/ \E m \in Machine : Focus(m)
    \/ Refresh
    \/ Refreshed
    \/ RefreshLost

ListTypes ==
    /\ device \in Machine \cup {Null}
    /\ popup \in BOOLEAN /\ outdated \in BOOLEAN
    /\ refresh \in [key : Machine \cup {Null}, early : BOOLEAN] \cup {Null}
=============================================================================
