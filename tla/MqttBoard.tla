------------------------------ MODULE MqttBoard ------------------------------
(***************************************************************************)
(* One vending machine with an MQTT board, the broker that receives its    *)
(* messages and the handler of each message, DeviceMqtt.MessageHandler.    *)
(* The broker acknowledges a message when it puts it in a queue in memory; *)
(* one dispatcher takes the messages off the queue and awaits the handler, *)
(* so a broker's messages are handled one at a time.  Every transaction of *)
(* the handler is an action; every query filters on the device.            *)
(***************************************************************************)
EXTENDS DeviceStore

CONSTANT
    Regimes      \* what may happen to the board's messages: one is chosen in Init

ConfigTheme == {"info", "settings", "cleaner"}
Theme == {"status", "sales", "encash"} \cup ConfigTheme

(* A payload that is not JSON is decrypted before the handler is called;   *)
(* one that is JSON, but not the expected one, fails inside the handler.   *)
Body == {"good", "misshapen", "unreadable"}

(* themes: the kinds of message the board sends; gaps: the time that may   *)
(* pass between two of them; bodies: what may become of a payload on its   *)
(* way; repeats: the board sends again what was not acknowledged (QoS 1,   *)
(* 2); crashes: the server process may be killed and restarted; fails: a   *)
(* provider call may throw, which it swallows.  Bounds: sends, the messages*)
(* the board ever sends, and cuts, the connections ever lost.              *)
Regime == [themes: SUBSET Theme, gaps: SUBSET Nat, bodies: SUBSET Body,
           repeats: BOOLEAN, crashes: BOOLEAN, fails: BOOLEAN, sends: Nat, cuts: Nat]

ASSUME MqttAssumption == Regimes \subseteq Regime

VARIABLES
    regime,
    board,       \* the machine: money since the last encashment, state of the tank
    sent,        \* the messages the board has sent, in order
    acked,       \* how many of them it knows to have arrived
    flight,      \* how many more have reached the broker on this connection
    cuts,        \* connections lost so far
    queue,       \* the dispatcher's queue: places in sent
    h,           \* the handler: where it is, its message and what it has read
    status,      \* DevStatus rows
    linkAlerts, tankAlerts, saleAlerts,   \* DevAlert rows, by family
    rows,        \* how many DevSale or DevEncash rows a message has made
    dead,        \* how many dead-letter DevSetting rows (TopicType -1)
    lastSale,    \* date of the newest DevSale row, 0 when there is none
    config,      \* DevInfo and DevSetting rows, by theme
    lost         \* history: sales and encashments that were acknowledged and died
                 \* with the process or the connection, or whose write failed

wire == <<board, sent, acked, flight, cuts>>
alerts == <<linkAlerts, tankAlerts, saleAlerts>>
ledger == <<rows, dead, lastSale>>
rest == <<config, lost, regime>>
vars == <<wire, queue, h, status, alerts, ledger, rest>>

Message == [theme: Theme, body: Body, date: Nat, money: Nat, tank: {0, 1}]

Step == {"idle", "read", "store", "readLink", "linkLost", "linkBack",
         "readLastSale", "checkAlert", "noSales", "mailSales", "tankEmpty",
         "mailTank", "tankFilling", "encash", "sale", "readSaleAlert",
         "salesBack", "readConfig", "writeConfig", "dead"}

Idle == [pc |-> "idle", n |-> 0, id |-> 0, last |-> NoRow]

Msg == sent[h.n]

-----------------------------------------------------------------------------
(* Where the handler of a status goes; it reads its message and last row.  *)
IsFirst == h.id = 0

AfterSales ==
    CASE Msg.tank = 1 /\ (IsFirst \/ h.last.status # 1) -> "tankEmpty"
      [] Msg.tank = 0 /\ ~IsFirst /\ h.last.status # 0 -> "tankFilling"
      [] OTHER -> "idle"

AfterLink == IF h.last.money = Msg.money THEN "readLastSale" ELSE AfterSales

IsLate == h.last.date + LinkGap < Msg.date

Goto(pc) == h' = IF pc = "idle" THEN Idle ELSE [h EXCEPT !.pc = pc]

(* A provider call that throws is swallowed: nothing is written, the       *)
(* handler goes on.                                                        *)
Outcome == IF regime.fails THEN BOOLEAN ELSE {TRUE}
QueryResult(found, null) == IF regime.fails THEN found \cup {null} ELSE found

-----------------------------------------------------------------------------
(* The board and its connection.                                           *)
Now == IF sent = <<>> THEN SaleGap ELSE sent[Len(sent)].date

Send(theme, money, tank) ==
    /\ theme \in regime.themes
    /\ Len(sent) < regime.sends
    /\ \E gap \in regime.gaps, body \in regime.bodies :
         sent' = Append(sent, [theme |-> theme, body |-> body, date |-> Now + gap,
                               money |-> money, tank |-> tank])
    /\ board' = [money |-> IF theme = "encash" THEN 0 ELSE money, tank |-> tank]
    /\ UNCHANGED <<acked, flight, cuts, queue, h, status, alerts, ledger, rest>>

Sell == Send("sales", board.money + 1, board.tank)
Collect == board.money > 0 /\ Send("encash", board.money, board.tank)
SendStatus == \E tank \in {0, 1} : Send("status", board.money, tank)
SendConfig == \E theme \in ConfigTheme : Send(theme, board.money, board.tank)

(* HandleIncomingPublishPacketAsync: queue first, acknowledge after.       *)
Receive ==
    /\ acked + flight < Len(sent)
    /\ queue' = Append(queue, acked + flight + 1)
    /\ IF regime.repeats THEN flight' = flight + 1 /\ acked' = acked
       ELSE flight' = flight /\ acked' = acked + 1
    /\ UNCHANGED <<board, sent, cuts, h, status, alerts, ledger, rest>>

(* Mutated: an acknowledgement is sent for a message that was not. *)
AcknowledgeAny ==
    /\ flight' = flight - 1 /\ acked' = acked + 1
    /\ UNCHANGED <<board, sent, cuts, queue, h, status, alerts, ledger, rest>>

Acknowledge ==
    /\ flight > 0
    /\ flight' = flight - 1 /\ acked' = acked + 1
    /\ UNCHANGED <<board, sent, cuts, queue, h, status, alerts, ledger, rest>>

(* The acknowledgements on their way are lost with the connection.         *)
Cut ==
    /\ flight > 0 /\ cuts < regime.cuts
    /\ flight' = 0 /\ cuts' = cuts + 1
    /\ UNCHANGED <<board, sent, acked, queue, h, status, alerts, ledger, rest>>

InMemory == {queue[i] : i \in DOMAIN queue} \cup {h.n}

Money == {n \in DOMAIN sent : sent[n].theme \in {"sales", "encash"}}

Lose(messages) == lost' = lost \cup (messages \cap Money \cap 1 .. acked)

(* The process dies: the queue and the running handler die with it.        *)
Crash ==
    /\ regime.crashes /\ cuts < regime.cuts
    /\ queue # <<>> \/ h.pc # "idle"
    /\ queue' = <<>> /\ h' = Idle
    /\ flight' = 0 /\ cuts' = cuts + 1
    /\ Lose(InMemory)
    /\ UNCHANGED <<board, sent, acked, status, alerts, ledger, config, regime>>

-----------------------------------------------------------------------------
(* The dispatcher and MessageHandler.                                      *)
Take ==
    /\ h.pc = "idle" /\ queue # <<>>
    /\ sent[Head(queue)].body # "unreadable"
    /\ h' = [Idle EXCEPT !.pc = "read", !.n = Head(queue)]
    /\ queue' = Tail(queue)
    /\ UNCHANGED <<wire, status, alerts, ledger, rest>>

(* Mutated: nothing catches what the handler throws, the dispatcher ends.  *)
DiscardNever == FALSE /\ UNCHANGED vars

(* LogMessage throws before the handler runs; the dispatcher logs that and *)
(* goes on with the next message.                                          *)
Discard ==
    /\ h.pc = "idle" /\ queue # <<>>
    /\ sent[Head(queue)].body = "unreadable"
    /\ queue' = Tail(queue)
    /\ UNCHANGED <<wire, h, status, alerts, ledger, rest>>

(* GetDeviceByImei finds no device, or throws: the connection is closed.   *)
Refuse ==
    /\ h.pc = "read" /\ regime.fails /\ cuts < regime.cuts
    /\ Goto("idle")
    /\ flight' = 0 /\ cuts' = cuts + 1
    /\ Lose({h.n})
    /\ UNCHANGED <<board, sent, acked, queue, status, alerts, ledger, config, regime>>

(* Mutated: what cannot be read is dropped, whatever it was.               *)
FirstStepDrops ==
    CASE Msg.body = "misshapen" -> "idle"
      [] Msg.body # "misshapen" /\ Msg.theme = "status" -> "store"
      [] Msg.body # "misshapen" /\ Msg.theme = "sales" -> "sale"
      [] Msg.body # "misshapen" /\ Msg.theme = "encash" -> "encash"
      [] OTHER -> "readConfig"

FirstStep ==
    CASE Msg.body = "misshapen" ->
           IF Msg.theme \in {"sales", "encash"} THEN "dead" ELSE "idle"
      [] Msg.body # "misshapen" /\ Msg.theme = "status" -> "store"
      [] Msg.body # "misshapen" /\ Msg.theme = "sales" -> "sale"
      [] Msg.body # "misshapen" /\ Msg.theme = "encash" -> "encash"
      [] OTHER -> "readConfig"

ReadDevice ==
    /\ h.pc = "read"
    /\ \E i \in QueryResult(NewestStatus(status), 0) :
         h' = IF FirstStep = "idle" THEN Idle
              ELSE [h EXCEPT !.pc = FirstStep, !.id = i,
                             !.last = IF i = 0 THEN NoRow ELSE status[i]]
    /\ UNCHANGED <<wire, queue, status, alerts, ledger, rest>>

NewRow == [money |-> Msg.money, liters |-> 0, status |-> Msg.tank, date |-> Msg.date]

WriteStatus ==
    /\ h.pc = "store"
    /\ \E ok \in Outcome :
         status' = IF ok THEN WriteStatusRow(status, h.id, NewRow) ELSE status
    /\ Goto(IF IsFirst THEN AfterSales ELSE "readLink")
    /\ UNCHANGED <<wire, queue, alerts, ledger, rest>>

(* Mutated: the last link alert is not consulted. *)
SkipLinkAlert ==
    /\ h.pc = "readLink"
    /\ Goto(IF IsLate THEN "linkLost" ELSE AfterLink)
    /\ UNCHANGED <<wire, queue, status, alerts, ledger, rest>>

ReadLinkAlert ==
    /\ h.pc = "readLink"
    /\ \E code \in QueryResult(NewestAlerts(linkAlerts), "none") :
         Goto(CASE ~IsLate -> AfterLink
                [] IsLate /\ code = "link_lost" -> "linkBack"
                [] OTHER -> "linkLost")
    /\ UNCHANGED <<wire, queue, status, alerts, ledger, rest>>

InsertLinkLost ==
    /\ h.pc = "linkLost"
    /\ \E ok \in Outcome :
         linkAlerts' = IF ok THEN InsertAlert(linkAlerts, "link_lost",
                                              h.last.date + LinkAlertDelay)
                       ELSE linkAlerts
    /\ Goto("linkBack")
    /\ UNCHANGED <<wire, queue, status, tankAlerts, saleAlerts, ledger, rest>>

InsertLinkBack ==
    /\ h.pc = "linkBack"
    /\ \E ok \in Outcome :
         linkAlerts' = IF ok THEN InsertAlert(linkAlerts, "link_back", Msg.date)
                       ELSE linkAlerts
    /\ Goto(AfterLink)
    /\ UNCHANGED <<wire, queue, status, tankAlerts, saleAlerts, ledger, rest>>

ReadLastSale ==
    /\ h.pc = "readLastSale"
    /\ \E date \in QueryResult({lastSale}, 0) :
         Goto(IF date # 0 /\ date + SaleGap < Msg.date THEN "checkAlert" ELSE AfterSales)
    /\ UNCHANGED <<wire, queue, status, alerts, ledger, rest>>

(* Mutated: the alert must follow an earlier one, as in DataController.    *)
CheckSaleAlertAfter ==
    /\ h.pc = "checkAlert"
    /\ \E code \in NewestAlerts(saleAlerts) :
         Goto(IF code = "sales_back" THEN "noSales" ELSE AfterSales)
    /\ UNCHANGED <<wire, queue, status, alerts, ledger, rest>>

CheckSaleAlert ==
    /\ h.pc = "checkAlert"
    /\ \E code \in QueryResult(NewestAlerts(saleAlerts), "none") :
         Goto(IF code # "no_sales" THEN "noSales" ELSE AfterSales)
    /\ UNCHANGED <<wire, queue, status, alerts, ledger, rest>>

InsertNoSales ==
    /\ h.pc = "noSales"
    /\ \E ok \in Outcome :
         saleAlerts' = IF ok THEN InsertAlert(saleAlerts, "no_sales", Msg.date)
                       ELSE saleAlerts
    /\ Goto("mailSales")
    /\ UNCHANGED <<wire, queue, status, linkAlerts, tankAlerts, ledger, rest>>

(* await SendNoSales and SendTankEmpty hold up every machine's messages.   *)
MailNoSales ==
    /\ h.pc = "mailSales"
    /\ Goto(AfterSales)
    /\ UNCHANGED <<wire, queue, status, alerts, ledger, rest>>

InsertTankEmpty ==
    /\ h.pc = "tankEmpty"
    /\ \E ok \in Outcome :
         tankAlerts' = IF ok THEN InsertAlert(tankAlerts, "tank_empty", Msg.date)
                       ELSE tankAlerts
    /\ Goto("mailTank")
    /\ UNCHANGED <<wire, queue, status, linkAlerts, saleAlerts, ledger, rest>>

MailTankEmpty ==
    /\ h.pc = "mailTank"
    /\ Goto("idle")
    /\ UNCHANGED <<wire, queue, status, alerts, ledger, rest>>

InsertTankFilling ==
    /\ h.pc = "tankFilling"
    /\ \E ok \in Outcome :
         tankAlerts' = IF ok THEN InsertAlert(tankAlerts, "tank_filling", Msg.date)
                       ELSE tankAlerts
    /\ Goto("idle")
    /\ UNCHANGED <<wire, queue, status, linkAlerts, saleAlerts, ledger, rest>>

InsertEncash ==
    /\ h.pc = "encash"
    /\ \E ok \in Outcome :
         /\ rows' = IF ok THEN [rows EXCEPT ![h.n] = @ + 1] ELSE rows
         /\ lost' = IF ok THEN lost ELSE lost \cup {h.n}
    /\ Goto("idle")
    /\ UNCHANGED <<wire, queue, status, alerts, dead, lastSale, config, regime>>

InsertSaleRow ==
    /\ h.pc = "sale"
    /\ \E ok \in Outcome :
         /\ rows' = IF ok THEN [rows EXCEPT ![h.n] = @ + 1] ELSE rows
         /\ lastSale' = IF ok /\ Msg.date > lastSale THEN Msg.date ELSE lastSale
         /\ lost' = IF ok THEN lost ELSE lost \cup {h.n}
    /\ Goto("readSaleAlert")
    /\ UNCHANGED <<wire, queue, status, alerts, dead, config, regime>>

ReadSaleAlert ==
    /\ h.pc = "readSaleAlert"
    /\ \E code \in QueryResult(NewestAlerts(saleAlerts), "none") :
         Goto(IF code = "no_sales" THEN "salesBack" ELSE "idle")
    /\ UNCHANGED <<wire, queue, status, alerts, ledger, rest>>

InsertSalesBack ==
    /\ h.pc = "salesBack"
    /\ \E ok \in Outcome :
         saleAlerts' = IF ok THEN InsertAlert(saleAlerts, "sales_back", Msg.date)
                       ELSE saleAlerts
    /\ Goto("idle")
    /\ UNCHANGED <<wire, queue, status, linkAlerts, tankAlerts, ledger, rest>>

(* GetDevInfo or GetLastSettings of the theme, then its upsert.            *)
ReadConfig ==
    /\ h.pc = "readConfig"
    /\ \E i \in QueryResult(NewestStatus(config[Msg.theme]), 0) :
         h' = [h EXCEPT !.pc = "writeConfig", !.id = i]
    /\ UNCHANGED <<wire, queue, status, alerts, ledger, rest>>

(* Mutated: the row that is there is kept. *)
WriteConfigOnce ==
    /\ h.pc = "writeConfig"
    /\ config' = [config EXCEPT ![Msg.theme] =
                    IF h.id = 0 THEN WriteStatusRow(@, 0, [n |-> h.n, date |-> Msg.date])
                    ELSE @]
    /\ Goto("idle")
    /\ UNCHANGED <<wire, queue, status, alerts, ledger, lost, regime>>

(* The unique indexes: one DevInfo row of a name, one DevSetting row of a  *)
(* payload and its date.  An insert that breaks one throws.                *)
Conflicts ==
    /\ h.id = 0
    /\ \E i \in DOMAIN config[Msg.theme] :
         Msg.theme = "info" \/ config[Msg.theme][i].n = h.n

WriteConfig ==
    /\ h.pc = "writeConfig"
    /\ \E ok \in Outcome :
         config' = IF ok /\ ~Conflicts
                   THEN [config EXCEPT ![Msg.theme] =
                           WriteStatusRow(@, h.id, [n |-> h.n, date |-> Msg.date])]
                   ELSE config
    /\ Goto("idle")
    /\ UNCHANGED <<wire, queue, status, alerts, ledger, lost, regime>>

(* The catch block: an encashment or a sale that cannot be read is kept.   *)
InsertDeadLetter ==
    /\ h.pc = "dead"
    /\ \E ok \in Outcome :
         /\ dead' = IF ok THEN [dead EXCEPT ![h.n] = @ + 1] ELSE dead
         /\ lost' = IF ok THEN lost ELSE lost \cup {h.n}
    /\ Goto("idle")
    /\ UNCHANGED <<wire, queue, status, alerts, rows, lastSale, config, regime>>

-----------------------------------------------------------------------------
Init ==
    /\ regime \in Regimes
    /\ board = [money |-> 0, tank |-> 0]
    /\ sent = <<>> /\ acked = 0 /\ flight = 0 /\ cuts = 0
    /\ queue = <<>> /\ h = Idle
    /\ status = <<>>
    /\ linkAlerts = <<>> /\ tankAlerts = <<>> /\ saleAlerts = <<>>
    /\ rows = [n \in 1 .. regime.sends |-> 0] /\ dead = [n \in 1 .. regime.sends |-> 0]
    /\ lastSale = 0
    /\ config = [t \in ConfigTheme |-> <<>>]
    /\ lost = {}

Board == Sell \/ Collect \/ SendStatus \/ SendConfig

Connection == Receive \/ Acknowledge \/ Cut \/ Crash

Dispatch ==
    \/ Take
    \/ Discard
    \/ Refuse
    \/ ReadDevice
    \/ WriteStatus
    \/ ReadLinkAlert
    \/ InsertLinkLost
    \/ InsertLinkBack
    \/ ReadLastSale
    \/ CheckSaleAlert
    \/ InsertNoSales
    \/ MailNoSales
    \/ InsertTankEmpty
    \/ MailTankEmpty
    \/ InsertTankFilling
    \/ InsertEncash
    \/ InsertSaleRow
    \/ ReadSaleAlert
    \/ InsertSalesBack
    \/ ReadConfig
    \/ WriteConfig
    \/ InsertDeadLetter

Next == Board \/ Connection \/ Dispatch

Spec == Init /\ [][Next]_vars

(* The dispatcher's loop ends only with the process.                       *)
FairSpec == Spec /\ WF_vars(Dispatch)

-----------------------------------------------------------------------------
(* The state has the types of the messages and of the tables.              *)
TypeOK ==
    /\ regime \in Regimes
    /\ board \in [money: Nat, tank: {0, 1}]
    /\ sent \in Seq(Message) /\ acked \in Nat /\ flight \in Nat /\ cuts \in Nat
    /\ queue \in Seq(DOMAIN sent)
    /\ h \in [pc: Step, n: Nat, id: Nat, last: StatusRow]
    /\ status \in Seq(StatusRow)
    /\ linkAlerts \in Seq(Alert) /\ tankAlerts \in Seq(Alert) /\ saleAlerts \in Seq(Alert)
    /\ rows \in [1 .. regime.sends -> Nat] /\ dead \in [1 .. regime.sends -> Nat]
    /\ lastSale \in Nat
    /\ config \in [ConfigTheme -> Seq([n: Nat, date: Nat])]
    /\ lost \subseteq Money

Quiet == acked = Len(sent) /\ queue = <<>> /\ h.pc = "idle"

(* A sale or an encashment whose payload can be decrypted is kept: once    *)
(* everything has arrived it is a row or a dead letter (DeviceMqtt.cs:229- *)
(* 261, 319-332), unless it had been acknowledged when the process died    *)
(* with it or its sender was refused, or its write failed; and it is kept  *)
(* again only when the connection was lost.                                *)
SalesKept ==
    \A n \in Money :
        sent[n].body # "unreadable" =>
            /\ rows[n] + dead[n] <= 1 + cuts
            /\ Quiet => rows[n] + dead[n] > 0 \/ n \in lost

LastGood(theme) ==
    {n \in DOMAIN sent :
        /\ sent[n].theme = theme /\ sent[n].body = "good"
        /\ \A k \in DOMAIN sent :
             sent[k].theme = theme /\ sent[k].body = "good" => k <= n}

(* Once everything has arrived, the status, the info and the settings kept *)
(* are the last ones the board sent, however often the connection was lost *)
(* and older ones were sent again (DeviceMqtt.cs:147-152, 262-315), if no  *)
(* message has died with the process and no write has failed.              *)
StoreFresh ==
    Quiet /\ ~regime.crashes /\ ~regime.fails =>
        /\ \A n \in LastGood("status") :
             /\ Len(status) = 1
             /\ status[1].money = sent[n].money /\ status[1].status = sent[n].tank
        /\ \A t \in ConfigTheme : \A n \in LastGood(t) :
             Len(config[t]) = 1 /\ config[t][1].n = n

Ordered == ~regime.repeats /\ ~regime.fails

(* Every lost link is closed, and every stop of the sales too: on a        *)
(* connection that keeps the order, the alerts of the link and those of    *)
(* the sales alternate by date (DeviceMqtt.cs:154-203, 253-259), although  *)
(* the process may die between two it inserts, if no write fails.          *)
AlertsAlternate == Ordered => Alternates(linkAlerts) /\ Alternates(saleAlerts)

(* A status with unchanged money, more than two hours after the last sale, *)
(* leaves the no-sales alert raised, also for a machine that never had one *)
(* (DeviceMqtt.cs:181-200; the HTTP handler differs).                      *)
IdleMachineAlerted ==
    [][/\ Ordered
       /\ h.pc # "idle" /\ h'.pc = "idle" /\ cuts' = cuts
       /\ Msg.theme = "status" /\ Msg.body = "good"
       /\ h.id # 0 /\ h.last.money = Msg.money
       /\ lastSale # 0 /\ lastSale + SaleGap < Msg.date
       => NewestAlerts(saleAlerts') = {"no_sales"}]_vars

(* Whatever a message holds and whatever the database answers, the         *)
(* dispatcher ends with it and takes the next one                          *)
(* (MqttClientSessionsManager.cs:254-361, DeviceMqtt.cs:319).              *)
QueueDrains ==
    /\ \A n \in UNION {1 .. r.sends : r \in Regimes} :
         (\E i \in DOMAIN queue : queue[i] = n) ~> ~(\E i \in DOMAIN queue : queue[i] = n)
    /\ h.pc # "idle" ~> h.pc = "idle"
=============================================================================
