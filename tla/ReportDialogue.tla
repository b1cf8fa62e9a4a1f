---------------------------- MODULE ReportDialogue ----------------------------
(***************************************************************************)
(* The dialogue of sales, encashments or alerts of a period (popups.js):   *)
(* one grid, one title and one range of dates for all three, filled by     *)
(* whichever answer comes last, and exported under the title and the       *)
(* machine in focus.                                                       *)
(***************************************************************************)
EXTENDS DeviceList

CONSTANTS
    Period,
    MaxAsked        \* bound: answers on their way

Seqs == INSTANCE SequencesExt

Kind == {"sales", "encash", "alerts"}

VARIABLES
    popupTitle,     \* the kind the title names
    picker,         \* the range of the date picker
    gridAlerts,     \* the question whose answer the grid shows
    asked,          \* questions whose answers are on their way, in order
    export,         \* the export under way (bound: one at a time): its title, the rows
                    \* read so far, and whether the dialogue has stood as it was since
    saved,          \* the file saved by this step: its name, and its rows
    crossed,        \* history: a question was asked while another was open
    failed          \* history: a question was not answered since

dialogue == <<popupTitle, picker, gridAlerts, asked, crossed, failed>>
reportVars == <<list, dialogue, export, saved>>

Question(kind, of, period) == [kind |-> kind, of |-> of, period |-> period]

(* getSalesByPeriod, getEncashByPeriod and getAlertsByPeriod.              *)
Ask(question) ==
    /\ Len(asked) < MaxAsked
    /\ asked' = Append(asked, question)
    /\ crossed' = (asked # <<>>) /\ failed' = FALSE

(* The dialogue stands still: it is open on a machine and asks nothing.    *)
Standing == popup /\ asked = <<>> /\ ~outdated

(* An export goes on beside every other step.                              *)
Meanwhile ==
    /\ saved' = Null
    /\ export' = IF export = Null THEN Null
                 ELSE [export EXCEPT !.steady = @ /\ Standing']

-----------------------------------------------------------------------------
ReportListMoves == ListStep /\ UNCHANGED dialogue /\ Meanwhile

(* Opening the dialogue sets the columns of the grid; its rows stay until  *)
(* the answer comes.                                                       *)
OpenReport(kind) ==
    /\ OpenDialogue /\ device # Null
    /\ popupTitle' = kind
    /\ Ask(Question(kind, device, picker))
    /\ UNCHANGED <<picker, gridAlerts>>
    /\ Meanwhile

popupSales == OpenReport("sales")
popupEncash == OpenReport("encash")
popupAlerts == OpenReport("alerts")

(* Mutated: the range is the one before. *)
ApplyBefore(period) ==
    /\ popup /\ popupTitle # Null
    /\ picker' = period
    /\ Ask(Question(popupTitle, device, picker))
    /\ UNCHANGED <<list, popupTitle, gridAlerts>>
    /\ Meanwhile

(* A new range is applied: the title tells what to ask for.                *)
Apply(period) ==
    /\ popup /\ popupTitle # Null
    /\ picker' = period
    /\ Ask(Question(popupTitle, device, period))
    /\ UNCHANGED <<list, popupTitle, gridAlerts>>
    /\ Meanwhile

Answer(i) ==
    /\ gridAlerts' = asked[i]
    /\ asked' = Seqs!RemoveAt(asked, i)
    /\ UNCHANGED <<list, popupTitle, picker, crossed, failed>>
    /\ Meanwhile

(* Nobody looks at a failure.                                              *)
Fail(i) ==
    /\ asked' = Seqs!RemoveAt(asked, i)
    /\ failed' = TRUE
    /\ UNCHANGED <<list, popupTitle, picker, gridAlerts, crossed>>
    /\ Meanwhile

(* The title is read at once; the rows are read by the exporter, and the   *)
(* machine in focus gives its name to the file when the workbook is        *)
(* written: two continuations, each a step of its own.                     *)
openDownloadFileDialog ==
    /\ popup /\ popupTitle # Null /\ export = Null
    /\ export' = [step |-> "grid", title |-> popupTitle, rows |-> Null,
                  steady |-> Standing /\ ~crossed /\ ~failed]
    /\ saved' = Null
    /\ UNCHANGED <<list, dialogue>>

ExportGrid ==
    /\ export # Null /\ export.step = "grid"
    /\ export' = [export EXCEPT !.step = "file", !.rows = gridAlerts]
    /\ saved' = Null
    /\ UNCHANGED <<list, dialogue>>

SaveFile ==
    /\ export # Null /\ export.step = "file"
    /\ saved' = [title |-> export.title, imei |-> device, rows |-> export.rows,
                 steady |-> export.steady]
    /\ export' = Null
    /\ UNCHANGED <<list, dialogue>>

CloseReport == CloseDialogue /\ UNCHANGED dialogue /\ Meanwhile

-----------------------------------------------------------------------------
ReportInit ==
    /\ ListInit
    /\ popupTitle = Null /\ picker \in Period /\ gridAlerts = Null
    /\ asked = <<>> /\ export = Null /\ saved = Null
    /\ crossed = FALSE /\ failed = FALSE

ReportNext ==
    \/ ReportListMoves
    \/ popupSales
    \/ popupEncash
    \/ popupAlerts
    \/ \E period \in Period : Apply(period)
    \/ \E i \in DOMAIN asked : Answer(i) \/ Fail(i)
    \/ openDownloadFileDialog
    \/ ExportGrid
    \/ SaveFile
    \/ CloseReport

ReportSpec == ReportInit /\ [][ReportNext]_reportVars

-----------------------------------------------------------------------------
Questions == [kind : Kind, of : Machine, period : Period]
Exports == [step : {"grid", "file"}, title : Kind, rows : Questions \cup {Null}, steady : BOOLEAN]

(* The page's state has its types.                                         *)
ReportTypes ==
    /\ ListTypes
    /\ popupTitle \in Kind \cup {Null} /\ picker \in Period
    /\ gridAlerts \in Questions \cup {Null} /\ asked \in Seq(Questions)
    /\ crossed \in BOOLEAN /\ failed \in BOOLEAN
    /\ export = Null \/ export \in Exports
    /\ saved = Null \/ DOMAIN saved = {"title", "imei", "rows", "steady"}

(* A dialogue that has asked one question at a time, has had its answer,   *)
(* and was not overtaken by a list, shows the rows of its title, of the    *)
(* machine in focus and of the range in the picker, however often dialogues*)
(* of other kinds and machines have used the grid; and so does the file    *)
(* that is exported from it under the title and the machine, if the        *)
(* dialogue stands as it is until the file is saved: one that is closed or *)
(* asks anew meanwhile gives the file another machine's name or other rows *)
(* (popups.js:163-174, 505-510, 856-874).                                  *)
ShowsWhatIsAsked ==
    /\ Standing /\ ~crossed /\ ~failed =>
         gridAlerts = Question(popupTitle, device, picker)
    /\ saved # Null /\ saved.steady =>
         saved.rows = Question(saved.title, saved.imei, picker)
=============================================================================
