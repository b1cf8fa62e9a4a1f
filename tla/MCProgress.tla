----------------------------- MODULE MCProgress -----------------------------
(* What must go on in the server: the timer of the report, the connections *)
(* of a broker (in "lock", a few and everything that may stop one; in      *)
(* "takeover", one more, which leaves when it is told to, and the          *)
(* dispatcher; the tasks are set at once), and the way of the settings     *)
(* commands.  They share no state: each behaviour is one of one of them.   *)
EXTENDS ReportTimer, BrokerSessions

CONSTANTS Few, Board, k1, m1

OneClient == [c \in Conn |-> k1]
BothStoppers == {"dispatcher", "monitor"}
OnAes == [m \in Board |-> "aes"]

VARIABLES
    part,
    target, stage, port, owner, refusing, queue, dispatching, retained, machine, snapshot,
    inbox, losses, overlapped, delivered, missed, received, last, raced

Takeover == INSTANCE BrokerSessions WITH Stopper <- {"dispatcher"}, Clean <- {TRUE}
Delivery == INSTANCE SettingsDelivery WITH
    session <- machine, BrokerOf <- OnAes, Refusals <- SUBSET {"tls", "aes"},
    MaxCommands <- 2, MaxLosses <- 1

deliveryVars ==
    <<target, stage, port, owner, refusing, queue, dispatching, retained, machine, snapshot,
      inbox, losses, overlapped, delivered, missed, received, last, raced>>
progressVars == <<part, vars, deliveryVars, timerVars>>

-----------------------------------------------------------------------------
\* Variables that a behaviour does not use; a broker without clients is idle.
NoDelivery ==
    /\ target = 0 /\ stage = 0 /\ port = 0 /\ owner = 0 /\ refusing = 0 /\ queue = 0
    /\ dispatching = 0 /\ retained = 0 /\ machine = 0 /\ snapshot = 0 /\ inbox = 0 /\ losses = 0
    /\ overlapped = 0 /\ delivered = 0 /\ missed = 0 /\ received = 0 /\ last = 0 /\ raced = 0
NoTimer == now = 0 /\ wait = 0 /\ sending = FALSE /\ sent = 0 /\ upset = FALSE /\ upsets = 0

ProgressInit ==
    /\ Init
    /\ \/ part \in {"lock", "takeover"} /\ NoDelivery /\ NoTimer
       \/ part = "settings" /\ Delivery!DeliveryInit /\ NoTimer
       \/ part = "report" /\ TimerInit /\ NoDelivery

FewNext == Next /\ \A c \in Conn \ Few : pc'[c] = "absent"

TakeoverNext ==
    /\ Takeover!Next
    /\ \A c \in Conn : pc[c] \in {"running", "ended"} /\ ~started[c] => started'[c]
    /\ \A c \in Conn \ Few : pc[c] = "running" /\ pc'[c] = "ended" => cancelled[c]

ProgressNext ==
    \/ part = "lock" /\ FewNext /\ UNCHANGED <<part, deliveryVars, timerVars>>
    \/ part = "takeover" /\ TakeoverNext /\ UNCHANGED <<part, deliveryVars, timerVars>>
    \/ part = "settings" /\ Delivery!DeliveryNext /\ UNCHANGED <<part, vars, timerVars>>
    \/ part = "report" /\ TimerNext /\ UNCHANGED <<part, vars, deliveryVars>>

\* The fairness of each module.
Fairness ==
    /\ \A c \in Conn :
         /\ WF_vars(part = "lock" /\ Serve(c)) /\ WF_vars(part = "lock" /\ SetTask(c))
         /\ WF_vars(part = "takeover" /\ Takeover!Serve(c))
         /\ WF_vars(part = "takeover" /\ SetTask(c))
    /\ WF_vars(part = "lock" /\ GoOn)
    /\ WF_vars(part = "lock" /\ CancelExpired)
    /\ \A c \in 1 .. 2 : WF_deliveryVars(part = "settings" /\ Delivery!ServeCommand(c))
    /\ \A b \in {"tls", "aes"} : WF_deliveryVars(part = "settings" /\ Delivery!Dispatch(b))
    /\ \A m \in Board : WF_deliveryVars(part = "settings" /\ Delivery!Send(m))
    /\ WF_timerVars(part = "report" /\ Fire(0))
    /\ WF_timerVars(part = "report" /\ Report)

ProgressSpec == ProgressInit /\ [][ProgressNext]_progressVars /\ Fairness

-----------------------------------------------------------------------------
\* A command that was given is answered, whoever takes its connections over
\* (DeviceMqtt.cs:67-72, 90-95).
RequestsAnswered ==
    \A c \in 1 .. 2 :
        part = "settings" /\ Delivery!AtStage(c, "connect")
            ~> part = "settings" /\ (Delivery!AtStage(c, "done") \/ Delivery!AtStage(c, "dead"))

\* There is a report in some later night (DevScheduler.cs:24-28, 66-69).
AReportComes == part = "report" => ReportsGoOn
=============================================================================
