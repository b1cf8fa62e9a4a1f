----------------------------- MODULE HttpBoard -----------------------------
(***************************************************************************)
(* One vending machine with an HTTP board and the handler of its reports,  *)
(* DataController.Send.  The handler is a chain of separate transactions,  *)
(* each an action here; a report that is sent occupies a request until it  *)
(* is answered, so several requests are reports that overlap, and one      *)
(* request is a board that waits for every answer.  Every query filters on *)
(* the device, so one machine stands for each of them.                     *)
(***************************************************************************)
EXTENDS DeviceStore

CONSTANTS
    Request,     \* reports that may be in flight at once
    MayCrash,    \* the server process may be killed and restarted
    DbMayFail,   \* a provider call may throw, which it swallows
    MaxPaid,     \* bound: money ever put into the machine
    MaxFlips,    \* bound: changes of the tank sensor
    MaxTime      \* bound: ticks of the clock

ASSUME HttpAssumption ==
    /\ Request # {} /\ MayCrash \in BOOLEAN /\ DbMayFail \in BOOLEAN
    /\ MaxPaid \in Nat /\ MaxFlips \in Nat /\ MaxTime \in Nat

VARIABLES
    board,       \* the machine: money and liters since the last encashment, tank
    lifetime,    \* money paid and water poured since the machine was installed
    flips,       \* changes of the tank sensor so far
    clock,       \* the server's time
    req,         \* the requests: where each handler is and what it has read
    status,      \* DevStatus rows
    linkAlerts,  \* DevAlert rows with code -1 or 1
    tankAlerts,  \* DevAlert rows with code -2 or 2
    saleAlerts,  \* DevAlert rows with code 0 or 3
    sales,       \* DevSale rows
    collected,   \* sum of the DevEncash rows
    errors,      \* the counters found in DevErrorStatus rows
    baseline     \* history: money on the counter at the first report stored

machine == <<board, lifetime, flips>>
alerts == <<linkAlerts, tankAlerts, saleAlerts>>
books == <<status, sales, collected, errors, baseline>>
vars == <<machine, clock, req, alerts, books>>

Step == {"idle", "sent", "store", "readLink", "linkLost", "linkBack",
         "tankEmpty", "mailTank", "tankFilling", "encash", "readSaleAlert",
         "sale", "salesBack", "error", "restore", "readLastSale",
         "checkAlert", "noSales", "mailSales"}

Idle == [pc |-> "idle", tm |-> 0, ts |-> 0, te |-> 0, date |-> 0,
         id |-> 0, last |-> NoRow, resumed |-> FALSE]

RequestState == [pc: Step, tm: Nat, ts: Nat, te: {0, 1}, date: Nat,
                 id: Nat, last: StatusRow, resumed: BOOLEAN]

-----------------------------------------------------------------------------
(* What the handler does next, once it is past the given stage; conditions *)
(* on the request only, so they cost no transaction of their own.          *)
IsFirst(q) == q.id = 0
IsZero(q)  == q.tm = 0 /\ q.ts = 0
(* Mutated: only the liters are compared. *)
IsPour(q)  == q.ts > q.last.liters
IsSale(q)  == q.tm > q.last.money /\ q.ts > q.last.liters
IsOther(q) == q.tm # q.last.money \/ q.ts # q.last.liters

(* Mutated: a refused report is restored without the row that keeps it. *)
AfterTankUnkept(q) ==
    CASE IsZero(q) /\ ~IsFirst(q) /\ q.last.money > 0 -> "encash"
      [] ~IsZero(q) /\ ~IsFirst(q) /\ IsSale(q) -> "readSaleAlert"
      [] ~IsZero(q) /\ ~IsFirst(q) /\ ~IsSale(q) /\ IsOther(q) -> "restore"
      [] OTHER -> "idle"

AfterTank(q) ==
    CASE IsZero(q) /\ ~IsFirst(q) /\ q.last.money > 0 -> "encash"
      [] IsZero(q) /\ ~(~IsFirst(q) /\ q.last.money > 0) -> "idle"
      [] ~IsZero(q) /\ IsFirst(q) -> "readLastSale"
      [] ~IsZero(q) /\ ~IsFirst(q) /\ IsSale(q) -> "readSaleAlert"
      [] ~IsZero(q) /\ ~IsFirst(q) /\ ~IsSale(q) /\ IsOther(q) -> "error"
      [] OTHER -> "readLastSale"

(* Mutated: an empty tank is an alert in every report. *)
AfterLinkRepeated(q) ==
    CASE q.te = 1 -> "tankEmpty"
      [] q.te = 0 /\ ~IsFirst(q) /\ q.last.status # 0 -> "tankFilling"
      [] OTHER -> AfterTank(q)

AfterLink(q) ==
    CASE q.te = 1 /\ (IsFirst(q) \/ q.last.status # 1) -> "tankEmpty"
      [] q.te = 0 /\ ~IsFirst(q) /\ q.last.status # 0 -> "tankFilling"
      [] OTHER -> AfterTank(q)

AfterStore(q) ==
    IF ~IsFirst(q) /\ q.last.date + LinkGap < q.date THEN "readLink"
    ELSE AfterLink(q)

(* The request goes on at pc; a handler that is done is idle again.        *)
Goto(q, pc) == IF pc = "idle" THEN Idle ELSE [q EXCEPT !.pc = pc]

At(r, pc) == req[r].pc = pc
Continue(r, pc) == req' = [req EXCEPT ![r] = Goto(req[r], pc)]

(* A provider call that throws is swallowed: nothing is written, the       *)
(* handler goes on.                                                        *)
Outcome == IF DbMayFail THEN BOOLEAN ELSE {TRUE}
QueryResult(found, null) == IF DbMayFail THEN found \cup {null} ELSE found

-----------------------------------------------------------------------------
(* The machine and its users.                                              *)
Start == SaleGap + 2  \* the clock when the machine is installed

Pay ==
    /\ lifetime.money < MaxPaid
    /\ board' = [board EXCEPT !.money = @ + 1]
    /\ lifetime' = [lifetime EXCEPT !.money = @ + 1]
    /\ UNCHANGED <<flips, clock, req, alerts, books>>

(* Water follows the payment, never the other way round.                   *)
Pour ==
    /\ board.liters < board.money
    /\ board' = [board EXCEPT !.liters = @ + 1]
    /\ lifetime' = [lifetime EXCEPT !.liters = @ + 1]
    /\ UNCHANGED <<flips, clock, req, alerts, books>>

(* The cash box is emptied: the board has no encashment event, it starts   *)
(* its counters again from zero.                                           *)
Collect ==
    /\ board.money > 0
    /\ board' = [board EXCEPT !.money = 0, !.liters = 0]
    /\ UNCHANGED <<lifetime, flips, clock, req, alerts, books>>

FlipTank ==
    /\ flips < MaxFlips
    /\ flips' = flips + 1
    /\ board' = [board EXCEPT !.tank = 1 - @]
    /\ UNCHANGED <<lifetime, clock, req, alerts, books>>

Tick ==
    /\ clock < Start + MaxTime
    /\ clock' = clock + 1
    /\ UNCHANGED <<machine, req, alerts, books>>

(* A report carries the counters of the moment, at power-up, on a change   *)
(* or as a repetition.                                                     *)
Report(r) ==
    /\ At(r, "idle")
    /\ req' = [req EXCEPT ![r] = [Idle EXCEPT !.pc = "sent", !.tm = board.money,
                                              !.ts = board.liters, !.te = board.tank]]
    /\ UNCHANGED <<machine, clock, alerts, books>>

(* A report that never has an effect: lost on its way, refused because     *)
(* SupportBoard1 is off, or answered NotFound.                             *)
Drop(r) ==
    /\ At(r, "sent")
    /\ Continue(r, "idle")
    /\ UNCHANGED <<machine, clock, alerts, books>>

-----------------------------------------------------------------------------
(* DataController.Send, one action per transaction.                        *)
ReadStatus(r) ==
    /\ At(r, "sent")
    /\ \E i \in QueryResult(NewestStatus(status), 0) :
         req' = [req EXCEPT ![r] = [@ EXCEPT !.pc = "store", !.date = clock, !.id = i,
                                             !.last = IF i = 0 THEN NoRow ELSE status[i]]]
    /\ UNCHANGED <<machine, clock, alerts, books>>

NewRow(q) == [money |-> q.tm, liters |-> q.ts, status |-> q.te, date |-> q.date]

WriteStatus(r) ==
    /\ At(r, "store")
    /\ \E ok \in Outcome :
         /\ status' = IF ok THEN WriteStatusRow(status, req[r].id, NewRow(req[r]))
                      ELSE status
         /\ baseline' = IF ok /\ status = <<>> THEN req[r].tm ELSE baseline
    /\ Continue(r, AfterStore(req[r]))
    /\ UNCHANGED <<machine, clock, alerts, sales, collected, errors>>

(* Mutated: the last link alert is not consulted. *)
SkipLinkAlert(r) ==
    /\ At(r, "readLink")
    /\ Continue(r, "linkLost")
    /\ UNCHANGED <<machine, clock, alerts, books>>

ReadLinkAlert(r) ==
    /\ At(r, "readLink")
    /\ \E code \in QueryResult({LastAlert(linkAlerts)}, "none") :
         Continue(r, IF code = "link_lost" THEN "linkBack" ELSE "linkLost")
    /\ UNCHANGED <<machine, clock, alerts, books>>

InsertLinkLost(r) ==
    /\ At(r, "linkLost")
    /\ \E ok \in Outcome :
         linkAlerts' = IF ok THEN InsertAlert(linkAlerts, "link_lost",
                                              req[r].last.date + LinkAlertDelay)
                       ELSE linkAlerts
    /\ Continue(r, "linkBack")
    /\ UNCHANGED <<machine, clock, tankAlerts, saleAlerts, books>>

InsertLinkBack(r) ==
    /\ At(r, "linkBack")
    /\ \E ok \in Outcome :
         linkAlerts' = IF ok THEN InsertAlert(linkAlerts, "link_back", req[r].date)
                       ELSE linkAlerts
    /\ Continue(r, AfterLink(req[r]))
    /\ UNCHANGED <<machine, clock, tankAlerts, saleAlerts, books>>

InsertTankEmpty(r) ==
    /\ At(r, "tankEmpty")
    /\ \E ok \in Outcome :
         tankAlerts' = IF ok THEN InsertAlert(tankAlerts, "tank_empty", req[r].date)
                       ELSE tankAlerts
    /\ Continue(r, "mailTank")
    /\ UNCHANGED <<machine, clock, linkAlerts, saleAlerts, books>>

(* await SendTankEmpty: the handler is suspended while the mails go out,   *)
(* with the status already written and the money not yet booked.           *)
MailTankEmpty(r) ==
    /\ At(r, "mailTank")
    /\ Continue(r, AfterTank(req[r]))
    /\ UNCHANGED <<machine, clock, alerts, books>>

InsertTankFilling(r) ==
    /\ At(r, "tankFilling")
    /\ \E ok \in Outcome :
         tankAlerts' = IF ok THEN InsertAlert(tankAlerts, "tank_filling", req[r].date)
                       ELSE tankAlerts
    /\ Continue(r, AfterTank(req[r]))
    /\ UNCHANGED <<machine, clock, linkAlerts, saleAlerts, books>>

InsertEncash(r) ==
    /\ At(r, "encash")
    /\ \E ok \in Outcome :
         collected' = IF ok THEN collected + req[r].last.money ELSE collected
    /\ Continue(r, "idle")
    /\ UNCHANGED <<machine, clock, alerts, status, sales, errors, baseline>>

ReadSaleAlert(r) ==
    /\ At(r, "readSaleAlert")
    /\ \E code \in QueryResult({LastAlert(saleAlerts)}, "none") :
         req' = [req EXCEPT ![r] = [@ EXCEPT !.pc = "sale", !.resumed = (code = "no_sales")]]
    /\ UNCHANGED <<machine, clock, alerts, books>>

(* Mutated: the counter is booked instead of its increase. *)
InsertWholeCounter(r) ==
    /\ At(r, "sale")
    /\ sales' = InsertSale(sales, req[r].tm, req[r].ts, req[r].date)
    /\ Continue(r, IF req[r].resumed THEN "salesBack" ELSE "idle")
    /\ UNCHANGED <<machine, clock, alerts, status, collected, errors, baseline>>

InsertSaleRow(r) ==
    /\ At(r, "sale")
    /\ LET q == req[r] IN
       /\ \E ok \in Outcome :
            sales' = IF ok THEN InsertSale(sales, q.tm - q.last.money,
                                           q.ts - q.last.liters, q.date)
                     ELSE sales
       /\ Continue(r, IF q.resumed THEN "salesBack" ELSE "idle")
    /\ UNCHANGED <<machine, clock, alerts, status, collected, errors, baseline>>

InsertSalesBack(r) ==
    /\ At(r, "salesBack")
    /\ \E ok \in Outcome :
         saleAlerts' = IF ok THEN InsertAlert(saleAlerts, "sales_back", req[r].date)
                       ELSE saleAlerts
    /\ Continue(r, "idle")
    /\ UNCHANGED <<machine, clock, linkAlerts, tankAlerts, books>>

InsertError(r) ==
    /\ At(r, "error")
    /\ \E ok \in Outcome :
         errors' = IF ok THEN errors \cup {[tm |-> req[r].tm, ts |-> req[r].ts]}
                   ELSE errors
    /\ Continue(r, "restore")
    /\ UNCHANGED <<machine, clock, alerts, status, sales, collected, baseline>>

(* Mutated: the refused counters stay in the row. *)
UnrestoredRow(q) == NewRow(q)

RestoredRow(q) == [q.last EXCEPT !.status = q.te, !.date = q.date]

RestoreStatus(r) ==
    /\ At(r, "restore")
    /\ \E ok \in Outcome :
         status' = IF ok THEN WriteStatusRow(status, req[r].id, RestoredRow(req[r]))
                   ELSE status
    /\ Continue(r, "idle")
    /\ UNCHANGED <<machine, clock, alerts, sales, collected, errors, baseline>>

ReadLastSale(r) ==
    /\ At(r, "readLastSale")
    /\ \E date \in QueryResult({sales.date}, 0) :
         Continue(r, IF date # 0 /\ date + SaleGap < req[r].date THEN "checkAlert"
                     ELSE "idle")
    /\ UNCHANGED <<machine, clock, alerts, books>>

CheckSaleAlert(r) ==
    /\ At(r, "checkAlert")
    /\ \E code \in QueryResult({LastAlert(saleAlerts)}, "none") :
         Continue(r, IF code \notin {"none", "no_sales"} THEN "noSales" ELSE "idle")
    /\ UNCHANGED <<machine, clock, alerts, books>>

InsertNoSales(r) ==
    /\ At(r, "noSales")
    /\ \E ok \in Outcome :
         saleAlerts' = IF ok THEN InsertAlert(saleAlerts, "no_sales", req[r].date)
                       ELSE saleAlerts
    /\ Continue(r, "mailSales")
    /\ UNCHANGED <<machine, clock, linkAlerts, tankAlerts, books>>

MailNoSales(r) ==
    /\ At(r, "mailSales")
    /\ Continue(r, "idle")
    /\ UNCHANGED <<machine, clock, alerts, books>>

(* The process dies between two transactions; the requests die with it.    *)
Crash ==
    /\ MayCrash
    /\ \E r \in Request : req[r].pc \notin {"idle", "sent"}
    /\ req' = [r \in Request |-> Idle]
    /\ UNCHANGED <<machine, clock, alerts, books>>

-----------------------------------------------------------------------------
(* A new machine, or one whose MQTT board was replaced by an HTTP board    *)
(* when its counters were zero: its status row, its last sale and its sale *)
(* alerts stay.                                                            *)
Fresh ==
    /\ status = <<>> /\ saleAlerts = <<>>
    /\ sales = [money |-> 0, liters |-> 0, date |-> 0]

Replaced ==
    /\ status = <<[money |-> 0, liters |-> 0, status |-> 0, date |-> Start]>>
    /\ saleAlerts \in {InsertAlert(<<>>, "no_sales", Start),
                       InsertAlert(<<>>, "sales_back", 1)}
    /\ sales = [money |-> 0, liters |-> 0, date |-> 1]

Init ==
    /\ board = [money |-> 0, liters |-> 0, tank |-> 0]
    /\ lifetime = [money |-> 0, liters |-> 0]
    /\ flips = 0
    /\ clock = Start
    /\ req = [r \in Request |-> Idle]
    /\ Fresh \/ Replaced
    /\ linkAlerts = <<>>
    /\ tankAlerts = <<>>
    /\ collected = 0
    /\ errors = {}
    /\ baseline = 0

Machine == Pay \/ Pour \/ Collect \/ FlipTank

Handle(r) ==
    \/ ReadStatus(r)
    \/ WriteStatus(r)
    \/ ReadLinkAlert(r)
    \/ InsertLinkLost(r)
    \/ InsertLinkBack(r)
    \/ InsertTankEmpty(r)
    \/ MailTankEmpty(r)
    \/ InsertTankFilling(r)
    \/ InsertEncash(r)
    \/ ReadSaleAlert(r)
    \/ InsertSaleRow(r)
    \/ InsertSalesBack(r)
    \/ InsertError(r)
    \/ RestoreStatus(r)
    \/ ReadLastSale(r)
    \/ CheckSaleAlert(r)
    \/ InsertNoSales(r)
    \/ MailNoSales(r)

Next ==
    \/ Machine
    \/ Tick
    \/ Crash
    \/ \E r \in Request : Report(r) \/ Drop(r) \/ Handle(r)

Spec == Init /\ [][Next]_vars

-----------------------------------------------------------------------------
(* The state has the types of the tables and of the handler's locals.      *)
TypeOK ==
    /\ board \in [money: Nat, liters: Nat, tank: {0, 1}]
    /\ lifetime \in [money: Nat, liters: Nat]
    /\ flips \in Nat /\ clock \in Nat
    /\ req \in [Request -> RequestState]
    /\ status \in Seq(StatusRow)
    /\ linkAlerts \in Seq(Alert) /\ tankAlerts \in Seq(Alert)
    /\ saleAlerts \in Seq(Alert)
    /\ sales \in SalesBook /\ collected \in Nat /\ baseline \in Nat
    /\ errors \subseteq [tm: Nat, ts: Nat]

(* The stages between the write of the new row and the booking.            *)
Booking == {"readLink", "linkLost", "linkBack", "tankEmpty", "mailTank",
            "tankFilling", "encash", "readSaleAlert", "sale", "error", "restore"}

Quiescent == \A r \in Request : req[r].pc \in {"idle", "sent"}

(* The books of Send (DataController.cs:128-226) balance between reports:  *)
(* what the sales add up to is what the counter has gained since the first *)
(* report plus what was encashed, whatever was lost, repeated or refused.  *)
LedgerBalanced ==
    Quiescent /\ status # <<>> =>
        sales.money + baseline = status[1].money + collected

(* The books never claim more than passed through the machine: no sale and *)
(* no encashment is booked twice or invented (DataController.cs:128-204).  *)
NeverOverstated ==
    /\ sales.money <= lifetime.money /\ sales.liters <= lifetime.liters
    /\ collected <= lifetime.money - board.money

(* Between reports the tank alerts tell what the status row tells: the     *)
(* last one says "empty" exactly when the machine reported an empty tank,  *)
(* and they alternate (DataController.cs:108-125).                         *)
TankAlertsTellStatus ==
    Quiescent /\ status # <<>> =>
        /\ Alternates(tankAlerts)
        /\ status[1].status = 1 <=>
              /\ tankAlerts # <<>>
              /\ tankAlerts[Len(tankAlerts)].code = "tank_empty"

(* Every lost link is closed, and every stop of the sales too: the alerts  *)
(* of the link and those of the sales alternate by date, so a reader sees  *)
(* disjoint outages (DataController.cs:82-106, 194-210, 269-290).          *)
AlertsAlternate == Alternates(linkAlerts) /\ Alternates(saleAlerts)

(* A handler that ends has put the report's counters in the status row or  *)
(* among the errors: none is dropped (DataController.cs:74-80, 212-226).   *)
CountersKept ==
    [][\A r \in Request :
         req[r].pc \notin {"idle", "sent"} /\ req'[r].pc = "idle" =>
             \/ status'[1].money = req[r].tm /\ status'[1].liters = req[r].ts
             \/ [tm |-> req[r].tm, ts |-> req[r].ts] \in errors']_vars

(* What the comments "not sales 2h" and "eror sales" of CheckSaleError     *)
(* (DataController.cs:274, 281) say: a report that changes nothing, more   *)
(* than two hours after the last sale, leaves the no-sales alert raised.   *)
IdleMachineAlerted ==
    [][\A r \in Request :
         /\ req[r].pc \in {"readLastSale", "checkAlert", "mailSales"}
         /\ req'[r].pc = "idle"
         /\ sales.date # 0 /\ sales.date + SaleGap < req[r].date
         => LastAlert(saleAlerts') = "no_sales"]_vars

(* The protocol (DataController.cs:39) makes the zeros of a board with a   *)
(* nonzero sum "an event of encashment": one collection is booked once, so *)
(* no more is ever encashed than was paid.                                 *)
EncashedOnce == collected <= lifetime.money
=============================================================================
