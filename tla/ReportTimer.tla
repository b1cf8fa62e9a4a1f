------------------------------ MODULE ReportTimer ------------------------------
(***************************************************************************)
(* The timer of the daily report (DevScheduler): it fires once an hour, is *)
(* set anew before anything else is done, and the report is mailed when it *)
(* fires in the first hour of a day.  Time is in minutes.                  *)
(***************************************************************************)
EXTENDS Integers

CONSTANTS
    Lateness,       \* minutes by which the handler may run late
    Lifetimes,      \* minutes after which the process may go down while waiting
    MaxUpsets       \* bound: restarts, failures, handlers run in another hour

Hour == 60
Day == 24 * Hour
Noon == Day \div 2

VARIABLES
    now,            \* the minute of the day
    wait,           \* minutes to _nextIntervalTick, when the timer fires
    sending,        \* the handler is at the report
    sent,           \* history: reports since the last noon
    upset,          \* history: since the last noon a handler ran in an hour it was
                    \* not due in, a report failed, or the process was restarted
                    \* while one was due
    upsets

timerVars == <<now, wait, sending, sent, upset, upsets>>

HourOf(minute) == (minute % Day) \div Hour

(* GetInitialInterval: in minutes, 60 less the hour, where the minute was  *)
(* meant, less the seconds to the next minute, so that the second the timer*)
(* fires in is twice the one of the start, in that minute or the next.     *)
InitialIntervals(minute) == {Hour - HourOf(minute) - 1, Hour - HourOf(minute)}

(* Mutated: a day is added where an hour was meant. *)
Daily(minute, late) == {Day - late}

(* GetInterval: an hour after the time that was set, or starting over.     *)
Intervals(minute, late) == IF Hour > late THEN {Hour - late} ELSE InitialIntervals(minute)

(* Time passes; at noon the history of the last night is forgotten.        *)
Pass(minutes, wrong) ==
    LET forgets == now < Noon /\ now + minutes >= Noon IN
    /\ now' = (now + minutes) % Day
    /\ sent' = IF forgets THEN 0 ELSE sent
    /\ upset' = (wrong \/ (upset /\ ~forgets))

-----------------------------------------------------------------------------
(* TimerOnElapsed, late or not, until the report.                          *)
Fire(late) ==
    /\ ~sending
    /\ LET wrong == (now + wait + late) \div Hour # (now + wait) \div Hour IN
       /\ wrong => upsets < MaxUpsets
       /\ Pass(wait + late, wrong)
       /\ upsets' = IF wrong THEN upsets + 1 ELSE upsets
    /\ wait' \in Intervals(now', late)
    /\ sending' = (HourOf(now') = 0)

Report ==
    /\ sending /\ sending' = FALSE
    /\ sent' = sent + 1
    /\ UNCHANGED <<now, wait, upset, upsets>>

(* The list of machines is not read, and nothing is mailed.                *)
FailReport ==
    /\ sending /\ sending' = FALSE
    /\ upsets < MaxUpsets /\ upsets' = upsets + 1
    /\ Pass(0, TRUE)
    /\ UNCHANGED wait

(* Start, after the process has gone down while waiting or reporting.      *)
Restart(after) ==
    /\ after < wait /\ upsets < MaxUpsets /\ upsets' = upsets + 1
    /\ sending => after = 0
    /\ Pass(after, HourOf(now + after) = 0)
    /\ wait' \in InitialIntervals(now')
    /\ sending' = FALSE

-----------------------------------------------------------------------------
TimerInit ==
    /\ now \in 0 .. Day - 1
    /\ wait \in InitialIntervals(now)
    /\ sending = FALSE /\ sent = 0 /\ upset = (now < Noon) /\ upsets = 0

TimerNext ==
    \/ \E late \in Lateness : Fire(late)
    \/ Report
    \/ FailReport
    \/ \E after \in Lifetimes : Restart(after)

TimerSpec == TimerInit /\ [][TimerNext]_timerVars

(* The timer is served by the thread pool, and the mails are sent.         *)
TimerFairSpec ==
    /\ TimerSpec
    /\ WF_timerVars(Fire(0)) /\ WF_timerVars(Report)

-----------------------------------------------------------------------------
(* Times are in their ranges.                                              *)
TimerTypes ==
    /\ now \in 0 .. Day - 1 /\ wait \in 1 .. Hour
    /\ sending \in BOOLEAN /\ upset \in BOOLEAN
    /\ sent \in Nat /\ upsets \in 0 .. MaxUpsets

(* A night has one report at most and, once its first hour is over, one at *)
(* least, however late the handlers run and whenever the process was       *)
(* started, unless a handler ran in an hour it was not due in, a report    *)
(* failed, or the process was restarted in that hour (DevScheduler.cs:     *)
(* 41-78).                                                                 *)
OneReportANight ==
    ~upset => sent <= 1 /\ (now \in Hour .. Noon - 1 => sent = 1)

(* The timer, which does not repeat by itself, never stops: there is a     *)
(* report in some later night (DevScheduler.cs:24-28, 66-69).              *)
ReportsGoOn == []<>sending
=============================================================================
