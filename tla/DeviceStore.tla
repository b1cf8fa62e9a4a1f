---------------------------- MODULE DeviceStore ----------------------------
(***************************************************************************)
(* The rows the back end keeps for one vending machine, as the static      *)
(* DbProvider classes read and write them.  Every provider call opens its  *)
(* own context, so one call is one database transaction and the operators  *)
(* below are the transactions' effects; no two calls form a transaction.   *)
(***************************************************************************)
EXTENDS Integers, Sequences

CONSTANTS
    LinkGap,        \* 32 minutes: a longer silence is a lost link
    LinkAlertDelay, \* 10 minutes: how far the loss is dated after the last report
    SaleGap         \* 2 hours: a longer time without a sale is an alert

ASSUME GapAssumption ==
    /\ LinkGap \in Nat /\ LinkAlertDelay \in Nat /\ SaleGap \in Nat
    /\ LinkAlertDelay <= LinkGap

(* Alerts.cs codes: -1, 1, -2, 2, 0, 3, and "none" for a null query result *)
AlertCode == {"link_lost", "link_back", "tank_empty", "tank_filling",
              "no_sales", "sales_back"}
Alert == [code: AlertCode, date: Nat]

StatusRow == [money: Nat, liters: Nat, status: {0, 1}, date: Nat]
NoRow == [money |-> 0, liters |-> 0, status |-> 0, date |-> 0]

(* DevSale rows, as far as anything reads them: their sums and the date of *)
(* the newest (0 when there is none).                                      *)
SalesBook == [money: Nat, liters: Nat, date: Nat]

-----------------------------------------------------------------------------
InsertAlert(log, code, date) == Append(log, [code |-> code, date |-> date])

(* OrderByDescending(MessageDate).Take(1): a row no other row is newer     *)
(* than.  Rows of one date tie, and PostgreSQL may return any of them.     *)
IsNewest(log, i) ==
    /\ i \in DOMAIN log
    /\ \A j \in DOMAIN log : log[j].date <= log[i].date

NewestAlerts(log) ==
    IF log = <<>> THEN {"none"}
    ELSE {log[i].code : i \in {k \in DOMAIN log : IsNewest(log, k)}}

(* The same query where dates are the server's own, to the microsecond:    *)
(* rows of one tick of a model's clock differ in their dates and follow    *)
(* the order of insertion.                                                 *)
LastAlert(log) ==
    IF log = <<>> THEN "none"
    ELSE log[CHOOSE i \in DOMAIN log :
               /\ IsNewest(log, i)
               /\ \A j \in DOMAIN log : IsNewest(log, j) => j <= i].code

(* GetDeviceLastStatus: the id of a newest row, 0 for null.                *)
NewestStatus(rows) ==
    IF rows = <<>> THEN {0} ELSE {i \in DOMAIN rows : IsNewest(rows, i)}

(* WriteDeviceLastStatus: an id of 0 is added, any other id is updated;    *)
(* updating a row that is gone throws, which is swallowed.                 *)
WriteStatusRow(rows, id, row) ==
    CASE id = 0 -> Append(rows, row)
      [] id \in DOMAIN rows -> [rows EXCEPT ![id] = row]
      [] OTHER -> rows

InsertSale(book, money, liters, date) ==
    [money  |-> book.money + money,
     liters |-> book.liters + liters,
     date   |-> IF date > book.date THEN date ELSE book.date]

-----------------------------------------------------------------------------
(* What a reader of the alert page relies on: within a family the rows     *)
(* alternate when listed by date.                                          *)
Alternates(log) ==
    \A i \in 1 .. Len(log) - 1 :
        /\ log[i].code # log[i + 1].code
        /\ log[i].date <= log[i + 1].date
=============================================================================
