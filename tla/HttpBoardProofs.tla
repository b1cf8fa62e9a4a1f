-------------------------- MODULE HttpBoardProofs --------------------------
(* Theorems about HttpBoard, for every number of requests and every bound. *)
EXTENDS HttpBoardLedger, SequenceTheorems, TLAPS

(***************************************************************************)
(* Type correctness.  The amounts booked are naturals because a request    *)
(* reaches the sale branch only with counters above the row it has read,   *)
(* and never changes either afterwards.                                    *)
(***************************************************************************)
SalePending ==
    \A r \in Request : req[r].pc \in {"readSaleAlert", "sale"} => IsSale(req[r])

TypeInv == TypeOK /\ SalePending

LEMMA IdleType == Idle \in RequestState
  BY DEF Idle, RequestState, Step, StatusRow, NoRow

LEMMA GotoType ==
  ASSUME NEW q \in RequestState, NEW pc \in Step
  PROVE  /\ Goto(q, pc) \in RequestState
         /\ pc \notin {"readSaleAlert", "sale"} \/ IsSale(q) =>
              (Goto(q, pc).pc \in {"readSaleAlert", "sale"} => IsSale(Goto(q, pc)))
  BY IdleType DEF Goto, RequestState, IsSale, Idle

LEMMA StageType ==
  ASSUME NEW q \in RequestState
  PROVE  /\ AfterTank(q) \in Step \ {"sale"} /\ AfterLink(q) \in Step \ {"sale"}
         /\ AfterStore(q) \in Step \ {"sale"}
         /\ AfterTank(q) = "readSaleAlert" => IsSale(q)
         /\ AfterLink(q) = "readSaleAlert" => IsSale(q)
         /\ AfterStore(q) = "readSaleAlert" => IsSale(q)
<1>1. AfterTank(q) \in Step \ {"sale"} /\ (AfterTank(q) = "readSaleAlert" => IsSale(q))
  BY DEF AfterTank, Step
<1>2. AfterLink(q) \in Step \ {"sale"} /\ (AfterLink(q) = "readSaleAlert" => IsSale(q))
  BY <1>1 DEF AfterLink, Step
<1>3. AfterStore(q) \in Step \ {"sale"} /\ (AfterStore(q) = "readSaleAlert" => IsSale(q))
  BY <1>2 DEF AfterStore, Step
<1>. QED  BY <1>1, <1>2, <1>3

(* A step that moves one request to a stage that keeps SalePending.        *)
LEMMA ContinueType ==
  ASSUME TypeInv, NEW r \in Request, NEW pc \in Step, Continue(r, pc),
         pc \notin {"readSaleAlert", "sale"} \/ IsSale(req[r])
  PROVE  req' \in [Request -> RequestState] /\ SalePending'
<1>1. req[r] \in RequestState
  BY DEF TypeInv, TypeOK
<1>2. Goto(req[r], pc) \in RequestState
  BY <1>1, GotoType
<1>3. req' \in [Request -> RequestState]
  BY <1>2 DEF TypeInv, TypeOK, Continue
<1>4. ASSUME NEW s \in Request, req'[s].pc \in {"readSaleAlert", "sale"}
      PROVE  IsSale(req'[s])
  <2>1. CASE s = r
    BY <2>1, <1>1, <1>4, GotoType DEF TypeInv, TypeOK, Continue
  <2>2. CASE s # r
    BY <2>2, <1>4 DEF TypeInv, TypeOK, Continue, SalePending
  <2>. QED  BY <2>1, <2>2
<1>5. SalePending'
  BY <1>4 DEF SalePending, IsSale
<1>. QED  BY <1>3, <1>5

LEMMA InsertAlertType ==
  ASSUME NEW log \in Seq(Alert), NEW code \in AlertCode, NEW date \in Nat
  PROVE  InsertAlert(log, code, date) \in Seq(Alert)
  BY DEF InsertAlert, Alert

LEMMA WriteStatusRowType ==
  ASSUME NEW rows \in Seq(StatusRow), NEW id \in Nat, NEW row \in StatusRow
  PROVE  WriteStatusRow(rows, id, row) \in Seq(StatusRow)
<1>1. CASE id = 0
  BY <1>1 DEF WriteStatusRow
<1>2. CASE id \in 1 .. Len(rows)
  BY <1>2, ExceptSeq DEF WriteStatusRow
<1>3. CASE id \notin 0 .. Len(rows)
  BY <1>3 DEF WriteStatusRow
<1>. QED  BY <1>1, <1>2, <1>3

LEMMA InitTypeInv == Init => TypeInv
<1>. SUFFICES ASSUME Init PROVE TypeInv
  OBVIOUS
<1>1. Start \in Nat
  BY GapAssumption DEF Start
<1>2. req \in [Request -> RequestState] /\ SalePending
  BY IdleType DEF Init, SalePending, Idle
<1>3. status \in Seq(StatusRow) /\ saleAlerts \in Seq(Alert) /\ sales \in SalesBook
  <2>1. CASE Fresh
    BY <2>1 DEF Fresh, SalesBook
  <2>2. CASE Replaced
    <3>1. status \in Seq(StatusRow)
      BY <2>2, <1>1 DEF Replaced, StatusRow
    <3>2. <<>> \in Seq(Alert) /\ "no_sales" \in AlertCode /\ "sales_back" \in AlertCode
      BY DEF AlertCode
    <3>3. /\ InsertAlert(<<>>, "no_sales", Start) \in Seq(Alert)
          /\ InsertAlert(<<>>, "sales_back", 1) \in Seq(Alert)
      BY <1>1, <3>2, InsertAlertType
    <3>4. saleAlerts \in Seq(Alert)
      BY <2>2, <3>3 DEF Replaced
    <3>. QED  BY <2>2, <3>1, <3>4 DEF Replaced, SalesBook
  <2>. QED  BY <2>1, <2>2 DEF Init
<1>. QED  BY <1>1, <1>2, <1>3 DEF Init, TypeInv, TypeOK

LEMMA MachineTypeInv == TypeInv /\ (Machine \/ Tick) => TypeInv'
<1>. SUFFICES ASSUME TypeInv, Machine \/ Tick PROVE TypeInv'
  OBVIOUS
<1>1. SUFFICES /\ board' \in [money: Nat, liters: Nat, tank: {0, 1}]
               /\ lifetime' \in [money: Nat, liters: Nat]
               /\ flips' \in Nat /\ clock' \in Nat
               /\ UNCHANGED <<req, alerts, books>>
  BY DEF TypeInv, TypeOK, SalePending, IsSale, alerts, books
<1>0. /\ board \in [money: Nat, liters: Nat, tank: {0, 1}]
      /\ lifetime \in [money: Nat, liters: Nat]
  BY DEF TypeInv, TypeOK
<1>2. CASE Pay
  <2>1. /\ [board EXCEPT !.money = @ + 1] \in [money: Nat, liters: Nat, tank: {0, 1}]
        /\ [lifetime EXCEPT !.money = @ + 1] \in [money: Nat, liters: Nat]
    BY <1>0
  <2>. QED  BY <1>2, <2>1 DEF TypeInv, TypeOK, Pay
<1>3. CASE Pour
  <2>1. /\ [board EXCEPT !.liters = @ + 1] \in [money: Nat, liters: Nat, tank: {0, 1}]
        /\ [lifetime EXCEPT !.liters = @ + 1] \in [money: Nat, liters: Nat]
    BY <1>0
  <2>. QED  BY <1>3, <2>1 DEF TypeInv, TypeOK, Pour
<1>4. CASE Collect
  BY <1>4 DEF TypeInv, TypeOK, Collect
<1>5. CASE FlipTank
  <2>1. [board EXCEPT !.tank = 1 - @] \in [money: Nat, liters: Nat, tank: {0, 1}]
    BY <1>0
  <2>. QED  BY <1>5, <2>1 DEF TypeInv, TypeOK, FlipTank
<1>6. CASE Tick
  BY <1>6 DEF TypeInv, TypeOK, Tick, machine
<1>. QED  BY <1>2, <1>3, <1>4, <1>5, <1>6 DEF Machine

(* What a step of a handler leaves alone keeps its type.                   *)
LEMMA BooksType ==
  ASSUME TypeInv, req' \in [Request -> RequestState], SalePending',
         UNCHANGED <<machine, clock>>,
         linkAlerts' \in Seq(Alert), tankAlerts' \in Seq(Alert),
         saleAlerts' \in Seq(Alert), status' \in Seq(StatusRow),
         sales' \in SalesBook, collected' \in Nat, baseline' \in Nat,
         errors' \subseteq [tm: Nat, ts: Nat]
  PROVE  TypeInv'
  BY DEF TypeInv, TypeOK, machine

LEMMA RequestTypeInv ==
  ASSUME TypeInv, NEW r \in Request, Report(r) \/ Drop(r) \/ Handle(r)
  PROVE  TypeInv'
<1>. DEFINE q == req[r]
<1>0. /\ q \in RequestState /\ q.pc \in Step /\ q.tm \in Nat /\ q.ts \in Nat
      /\ q.te \in {0, 1} /\ q.date \in Nat /\ q.id \in Nat /\ q.last \in StatusRow
      /\ q.last.money \in Nat /\ q.last.liters \in Nat /\ q.last.date \in Nat
  BY DEF TypeInv, TypeOK, RequestState, StatusRow
<1>. DEFINE Kept == UNCHANGED <<machine, clock, alerts, books>>
<1>1. /\ Kept => /\ UNCHANGED <<machine, clock>>
                 /\ linkAlerts' \in Seq(Alert) /\ tankAlerts' \in Seq(Alert)
                 /\ saleAlerts' \in Seq(Alert) /\ status' \in Seq(StatusRow)
                 /\ sales' \in SalesBook /\ collected' \in Nat /\ baseline' \in Nat
                 /\ errors' \subseteq [tm: Nat, ts: Nat]
  BY DEF TypeInv, TypeOK, alerts, books
<1>2. ASSUME NEW pc \in Step \ {"readSaleAlert", "sale"}, Continue(r, pc), Kept
      PROVE  TypeInv'
  BY <1>1, <1>2, ContinueType, BooksType
<1>3. CASE Report(r)
  <2>1. [Idle EXCEPT !.pc = "sent", !.tm = board.money,
                     !.ts = board.liters, !.te = board.tank] \in RequestState
    BY IdleType DEF TypeInv, TypeOK, RequestState, Step
  <2>2. req' \in [Request -> RequestState]
    BY <1>3, <2>1 DEF Report, TypeInv, TypeOK
  <2>3. SalePending'
    BY <1>3 DEF Report, TypeInv, TypeOK, SalePending, IsSale, Idle
  <2>. QED  BY <1>3, <1>1, <2>2, <2>3, BooksType DEF Report
<1>4. CASE Drop(r)
  BY <1>4, <1>2 DEF Drop, Step
<1>5. CASE ReadStatus(r)
  <2>1. PICK i \in QueryResult(NewestStatus(status), 0) :
          req' = [req EXCEPT ![r] = [@ EXCEPT !.pc = "store", !.date = clock, !.id = i,
                                     !.last = IF i = 0 THEN NoRow ELSE status[i]]]
    BY <1>5 DEF ReadStatus
  <2>2. i = 0 \/ i \in DOMAIN status
    BY DEF QueryResult, NewestStatus, IsNewest
  <2>3. i \in Nat /\ (i = 0 \/ status[i] \in StatusRow)
    BY <2>2 DEF TypeInv, TypeOK
  <2>4. (IF i = 0 THEN NoRow ELSE status[i]) \in StatusRow
    BY <2>3 DEF NoRow, StatusRow
  <2>. DEFINE new == [q EXCEPT !.pc = "store", !.date = clock, !.id = i,
                              !.last = IF i = 0 THEN NoRow ELSE status[i]]
  <2>7. new \in RequestState /\ new.pc = "store"
    BY <1>0, <2>3, <2>4 DEF TypeInv, TypeOK, RequestState, Step
  <2>8. req' = [req EXCEPT ![r] = new]
    BY <2>1
  <2>. HIDE DEF new
  <2>5. req' \in [Request -> RequestState]
    BY <2>7, <2>8 DEF TypeInv, TypeOK
  <2>6. SalePending'
    BY <2>7, <2>8 DEF TypeInv, TypeOK, SalePending, IsSale
  <2>. QED  BY <1>5, <1>1, <2>5, <2>6, BooksType DEF ReadStatus
<1>6. CASE WriteStatus(r)
  <2>1. NewRow(q) \in StatusRow
    BY <1>0 DEF NewRow, StatusRow
  <2>4. WriteStatusRow(status, q.id, NewRow(q)) \in Seq(StatusRow)
    BY <1>0, <2>1, WriteStatusRowType DEF TypeInv, TypeOK
  <2>2. status' \in Seq(StatusRow) /\ baseline' \in Nat
    BY <1>6, <1>0, <2>4 DEF WriteStatus, TypeInv, TypeOK
  <2>3. req' \in [Request -> RequestState] /\ SalePending'
    BY <1>6, <1>0, StageType, ContinueType DEF WriteStatus
  <2>. QED  BY <1>6, <2>2, <2>3, BooksType DEF WriteStatus, TypeInv, TypeOK, alerts
<1>7. CASE ReadLinkAlert(r)
  BY <1>7, <1>2 DEF ReadLinkAlert, Step
<1>8. CASE InsertLinkLost(r)
  <2>4. q.last.date + LinkAlertDelay \in Nat
    BY <1>0, GapAssumption
  <2>3. InsertAlert(linkAlerts, "link_lost", q.last.date + LinkAlertDelay) \in Seq(Alert)
    BY <2>4, InsertAlertType DEF TypeInv, TypeOK, AlertCode
  <2>1. linkAlerts' \in Seq(Alert)
    BY <1>8, <2>3 DEF InsertLinkLost, TypeInv, TypeOK
  <2>2. req' \in [Request -> RequestState] /\ SalePending'
    BY <1>8, ContinueType DEF InsertLinkLost, Step
  <2>. QED  BY <1>8, <2>1, <2>2, BooksType DEF InsertLinkLost, TypeInv, TypeOK, books
<1>9. CASE InsertLinkBack(r)
  <2>1. linkAlerts' \in Seq(Alert)
    BY <1>9, <1>0, InsertAlertType DEF InsertLinkBack, TypeInv, TypeOK, AlertCode
  <2>2. req' \in [Request -> RequestState] /\ SalePending'
    BY <1>9, <1>0, StageType, ContinueType DEF InsertLinkBack
  <2>. QED  BY <1>9, <2>1, <2>2, BooksType DEF InsertLinkBack, TypeInv, TypeOK, books
<1>10. CASE InsertTankEmpty(r)
  <2>1. tankAlerts' \in Seq(Alert)
    BY <1>10, <1>0, InsertAlertType DEF InsertTankEmpty, TypeInv, TypeOK, AlertCode
  <2>2. req' \in [Request -> RequestState] /\ SalePending'
    BY <1>10, ContinueType DEF InsertTankEmpty, Step
  <2>. QED  BY <1>10, <2>1, <2>2, BooksType DEF InsertTankEmpty, TypeInv, TypeOK, books
<1>11. CASE MailTankEmpty(r)
  <2>1. req' \in [Request -> RequestState] /\ SalePending'
    BY <1>11, <1>0, StageType, ContinueType DEF MailTankEmpty
  <2>. QED  BY <1>11, <1>1, <2>1, BooksType DEF MailTankEmpty
<1>12. CASE InsertTankFilling(r)
  <2>1. tankAlerts' \in Seq(Alert)
    BY <1>12, <1>0, InsertAlertType DEF InsertTankFilling, TypeInv, TypeOK, AlertCode
  <2>2. req' \in [Request -> RequestState] /\ SalePending'
    BY <1>12, <1>0, StageType, ContinueType DEF InsertTankFilling
  <2>. QED  BY <1>12, <2>1, <2>2, BooksType DEF InsertTankFilling, TypeInv, TypeOK, books
<1>13. CASE InsertEncash(r)
  <2>1. collected' \in Nat
    <3>2. collected \in Nat
      BY DEF TypeInv, TypeOK
    <3>1. collected + q.last.money \in Nat
      BY <1>0, <3>2
    <3>. QED  BY <1>13, <3>1 DEF InsertEncash, TypeInv, TypeOK
  <2>2. req' \in [Request -> RequestState] /\ SalePending'
    BY <1>13, ContinueType DEF InsertEncash, Step
  <2>. QED  BY <1>13, <2>1, <2>2, BooksType DEF InsertEncash, TypeInv, TypeOK, alerts
<1>14. CASE ReadSaleAlert(r)
  <2>1. IsSale(q)
    BY <1>14 DEF ReadSaleAlert, At, TypeInv, SalePending
  <2>2. PICK code : req' = [req EXCEPT ![r] = [@ EXCEPT !.pc = "sale",
                                                !.resumed = (code = "no_sales")]]
    BY <1>14 DEF ReadSaleAlert
  <2>. DEFINE new == [q EXCEPT !.pc = "sale", !.resumed = (code = "no_sales")]
  <2>5. new \in RequestState /\ IsSale(new)
    BY <1>0, <2>1 DEF RequestState, Step, IsSale
  <2>6. req' = [req EXCEPT ![r] = new]
    BY <2>2
  <2>. HIDE DEF new
  <2>3. req' \in [Request -> RequestState]
    BY <2>5, <2>6 DEF TypeInv, TypeOK
  <2>4. SalePending'
    BY <2>5, <2>6 DEF TypeInv, TypeOK, SalePending, IsSale
  <2>. QED  BY <1>14, <1>1, <2>3, <2>4, BooksType DEF ReadSaleAlert
<1>15. CASE InsertSaleRow(r)
  <2>1. IsSale(q)
    BY <1>15 DEF InsertSaleRow, At, TypeInv, SalePending
  <2>4. q.tm - q.last.money \in Nat /\ q.ts - q.last.liters \in Nat
    BY <2>1, <1>0 DEF IsSale
  <2>6. sales.money \in Nat /\ sales.liters \in Nat /\ sales.date \in Nat
    BY DEF TypeInv, TypeOK, SalesBook
  <2>5. InsertSale(sales, q.tm - q.last.money, q.ts - q.last.liters, q.date) \in SalesBook
    BY <2>4, <2>6, <1>0 DEF InsertSale, SalesBook
  <2>2. sales' \in SalesBook
    BY <1>15, <2>5 DEF InsertSaleRow, TypeInv, TypeOK
  <2>3. req' \in [Request -> RequestState] /\ SalePending'
    BY <1>15, ContinueType DEF InsertSaleRow, Step
  <2>. QED  BY <1>15, <2>2, <2>3, BooksType DEF InsertSaleRow, TypeInv, TypeOK, alerts
<1>16. CASE InsertSalesBack(r)
  <2>1. saleAlerts' \in Seq(Alert)
    BY <1>16, <1>0, InsertAlertType DEF InsertSalesBack, TypeInv, TypeOK, AlertCode
  <2>2. req' \in [Request -> RequestState] /\ SalePending'
    BY <1>16, ContinueType DEF InsertSalesBack, Step
  <2>. QED  BY <1>16, <2>1, <2>2, BooksType DEF InsertSalesBack, TypeInv, TypeOK, books
<1>17. CASE InsertError(r)
  <2>1. errors' \subseteq [tm: Nat, ts: Nat]
    BY <1>17, <1>0 DEF InsertError, TypeInv, TypeOK
  <2>2. req' \in [Request -> RequestState] /\ SalePending'
    BY <1>17, ContinueType DEF InsertError, Step
  <2>. QED  BY <1>17, <2>1, <2>2, BooksType DEF InsertError, TypeInv, TypeOK, alerts
<1>18. CASE RestoreStatus(r)
  <2>1. RestoredRow(q) \in StatusRow
    BY <1>0 DEF RestoredRow, StatusRow
  <2>4. WriteStatusRow(status, q.id, RestoredRow(q)) \in Seq(StatusRow)
    BY <1>0, <2>1, WriteStatusRowType DEF TypeInv, TypeOK
  <2>2. status' \in Seq(StatusRow)
    BY <1>18, <2>4 DEF RestoreStatus, TypeInv, TypeOK
  <2>3. req' \in [Request -> RequestState] /\ SalePending'
    BY <1>18, ContinueType DEF RestoreStatus, Step
  <2>. QED  BY <1>18, <2>2, <2>3, BooksType DEF RestoreStatus, TypeInv, TypeOK, alerts
<1>19. CASE ReadLastSale(r)
  BY <1>19, <1>2 DEF ReadLastSale, Step
<1>20. CASE CheckSaleAlert(r)
  BY <1>20, <1>2 DEF CheckSaleAlert, Step
<1>21. CASE InsertNoSales(r)
  <2>1. saleAlerts' \in Seq(Alert)
    BY <1>21, <1>0, InsertAlertType DEF InsertNoSales, TypeInv, TypeOK, AlertCode
  <2>2. req' \in [Request -> RequestState] /\ SalePending'
    BY <1>21, ContinueType DEF InsertNoSales, Step
  <2>. QED  BY <1>21, <2>1, <2>2, BooksType DEF InsertNoSales, TypeInv, TypeOK, books
<1>22. CASE MailNoSales(r)
  BY <1>22, <1>2 DEF MailNoSales, Step
<1>. QED
  BY <1>3, <1>4, <1>5, <1>6, <1>7, <1>8, <1>9, <1>10, <1>11, <1>12, <1>13, <1>14,
     <1>15, <1>16, <1>17, <1>18, <1>19, <1>20, <1>21, <1>22 DEF Handle

LEMMA CrashTypeInv == TypeInv /\ Crash => TypeInv'
  BY IdleType DEF TypeInv, TypeOK, SalePending, Crash, Idle, machine, alerts, books

LEMMA NextTypeInv == TypeInv /\ [Next]_vars => TypeInv'
<1>. SUFFICES ASSUME TypeInv, [Next]_vars PROVE TypeInv'
  OBVIOUS
<1>1. CASE UNCHANGED vars
  BY <1>1 DEF vars, machine, alerts, books, TypeInv, TypeOK, SalePending, IsSale
<1>2. CASE Next
  BY <1>2, MachineTypeInv, RequestTypeInv, CrashTypeInv DEF Next
<1>. QED  BY <1>1, <1>2

(* Every reachable state has the types of the tables, however many reports *)
(* overlap, whatever crashes and whatever the database refuses.            *)
THEOREM TypeCorrect == Spec => []TypeOK
  BY InitTypeInv, NextTypeInv, PTL DEF Spec, TypeInv

-----------------------------------------------------------------------------
(***************************************************************************)
(* What follows is about a board that waits for each answer before it      *)
(* sends again, and a database that does not refuse a call.                *)
(***************************************************************************)
Serial == \A r, s \in Request : r = s

(* What a handler knows of the row while it runs.                          *)
Knows(q) ==
    /\ q.pc = "store" => \/ q.id = 0 /\ status = <<>>
                         \/ q.id = 1 /\ status # <<>> /\ q.last = status[1]
    /\ q.pc \in Booking => /\ status # <<>> /\ q.id \in {0, 1}
                           /\ status[1].money = q.tm /\ status[1].liters = q.ts
    /\ q.pc = "encash" => q.id = 1 /\ IsZero(q)
    /\ q.pc \in {"readSaleAlert", "sale", "error", "restore"} => q.id = 1

RowInv ==
    /\ TypeInv
    /\ Len(status) <= 1
    /\ \A r \in Request : Knows(req[r])

(* The books, once the request is past booking, and while it is not.       *)
Balanced == status # <<>> => sales.money + baseline = status[1].money + collected

Owes(q) == q.id = 1 => sales.money + baseline = q.last.money + collected

LedgerInv ==
    /\ status = <<>> => sales.money = 0 /\ collected = 0
    /\ \A r \in Request :
         /\ req[r].pc \notin Booking => Balanced
         /\ req[r].pc \in Booking => Owes(req[r])
         /\ req[r].pc \in Booking /\ req[r].id = 0 => Balanced

(* Money and water that left the counters with a collection.               *)
TakenMoney == lifetime.money - board.money
TakenLiters == lifetime.liters - board.liters

(* A row, a report, and a report against the row it meets are sound when   *)
(* booking their difference cannot claim more than the machine took in.    *)
RowSound(row) ==
    /\ sales.money <= TakenMoney + row.money
    /\ sales.liters <= TakenLiters + row.liters
    /\ collected + row.money <= lifetime.money

ReportSound(q) ==
    /\ sales.money <= TakenMoney + q.tm
    /\ sales.liters <= TakenLiters + q.ts
    /\ collected + q.tm <= lifetime.money

PairSound(q, row) ==
    /\ RowSound(row)
    /\ sales.money + q.tm <= lifetime.money + row.money
    /\ sales.liters + q.ts <= lifetime.liters + row.liters
    /\ IsZero(q) => collected + row.money <= TakenMoney

SoundInv ==
    /\ board.money <= lifetime.money /\ board.liters <= lifetime.liters
    /\ NeverOverstated
    /\ status # <<>> => RowSound(status[1])
    /\ \A r \in Request :
         /\ req[r].pc \in {"sent", "store"} \cup Booking => ReportSound(req[r])
         /\ req[r].pc = "sent" /\ status # <<>> => PairSound(req[r], status[1])
         /\ req[r].pc \in {"store"} \cup Booking /\ req[r].id = 1 =>
              PairSound(req[r], req[r].last)

-----------------------------------------------------------------------------
(***************************************************************************)
(* A handler's step either is one of the five that touch the books, or it  *)
(* moves the request on and leaves the books as they are.                  *)
(***************************************************************************)
Moves(r, pc) ==
    /\ req'[r].pc = pc
    /\ pc # "idle" => /\ req'[r].tm = req[r].tm /\ req'[r].ts = req[r].ts
                      /\ req'[r].id = req[r].id /\ req'[r].last = req[r].last
    /\ UNCHANGED <<machine, status, sales, collected, baseline>>

(* From booking a request goes to a later stage of it, or leaves it when   *)
(* nothing is owed; past booking it never comes back.                      *)
MayGo(q, pc) ==
    /\ pc \in Step \ {"sent", "store"}
    /\ pc = "encash" => q.id # 0 /\ IsZero(q)
    /\ pc \in {"readSaleAlert", "sale", "error", "restore"} => q.id # 0
    /\ pc \notin Booking =>
         q.id = 0 \/ (q.tm = q.last.money /\ (IsZero(q) \/ q.ts = q.last.liters))

Allowed(q, pc) ==
    \/ q.pc \in Booking /\ MayGo(q, pc)
    \/ q.pc \notin Booking \cup {"store"} /\ pc \notin Booking \cup {"sent", "store"}

LEMMA StageAllowed ==
  ASSUME NEW q \in RequestState
  PROVE  MayGo(q, AfterTank(q)) /\ MayGo(q, AfterLink(q)) /\ MayGo(q, AfterStore(q))
<1>1. q.tm \in Nat /\ q.last.money \in Nat /\ q.ts \in Nat /\ q.last.liters \in Nat
  BY DEF RequestState, StatusRow
<1>2. MayGo(q, AfterTank(q))
  BY <1>1 DEF AfterTank, MayGo, Step, Booking, IsFirst, IsZero, IsOther
<1>3. MayGo(q, AfterLink(q))
  BY <1>2 DEF AfterLink, MayGo, Step, Booking
<1>4. MayGo(q, AfterStore(q))
  BY <1>3 DEF AfterStore, MayGo, Step, Booking
<1>. QED  BY <1>2, <1>3, <1>4

LEMMA ContinueMoves ==
  ASSUME TypeInv, NEW r \in Request, NEW pc \in Step, Continue(r, pc),
         UNCHANGED <<machine, status, sales, collected, baseline>>
  PROVE  Moves(r, pc)
<1>1. req[r] \in RequestState /\ req'[r] = Goto(req[r], pc)
  BY DEF TypeInv, TypeOK, Continue
<1>2. CASE pc = "idle"
  BY <1>1, <1>2 DEF Goto, Idle, Moves
<1>3. CASE pc # "idle"
  BY <1>1, <1>3 DEF Goto, RequestState, Moves
<1>. QED  BY <1>2, <1>3

LEMMA HandlerSteps ==
  ASSUME RowInv, NEW r \in Request, Drop(r) \/ Handle(r)
  PROVE  \/ ReadStatus(r) \/ WriteStatus(r) \/ InsertEncash(r)
         \/ InsertSaleRow(r) \/ RestoreStatus(r)
         \/ \E pc \in Step : Moves(r, pc) /\ Allowed(req[r], pc)
<1>. DEFINE Quiet == \E pc \in Step : Moves(r, pc) /\ Allowed(req[r], pc)
            Still == UNCHANGED <<machine, status, sales, collected, baseline>>
<1>0. TypeInv /\ req[r] \in RequestState /\ Knows(req[r])
  BY DEF RowInv, TypeInv, TypeOK
<1>1. ASSUME NEW pc \in Step, Continue(r, pc), Still, Allowed(req[r], pc)
      PROVE  Quiet
  BY <1>0, <1>1, ContinueMoves
<1>2. CASE Drop(r)
  BY <1>1, <1>2 DEF Drop, At, Allowed, Booking, Step, books
<1>3. CASE ReadLinkAlert(r)
  BY <1>1, <1>3 DEF ReadLinkAlert, At, Allowed, MayGo, Booking, Step, books
<1>4. CASE InsertLinkLost(r)
  BY <1>1, <1>4 DEF InsertLinkLost, At, Allowed, MayGo, Booking, Step, books
<1>5. CASE InsertLinkBack(r)
  <2>1. Continue(r, AfterLink(req[r])) /\ Still /\ req[r].pc \in Booking
    BY <1>5 DEF InsertLinkBack, At, Booking, books
  <2>2. AfterLink(req[r]) \in Step /\ Allowed(req[r], AfterLink(req[r]))
    BY <1>0, <2>1, StageAllowed DEF Allowed, MayGo
  <2>. QED  BY <2>1, <2>2, <1>1
<1>6. CASE InsertTankEmpty(r)
  BY <1>1, <1>6 DEF InsertTankEmpty, At, Allowed, MayGo, Booking, Step, books
<1>7. CASE MailTankEmpty(r) \/ InsertTankFilling(r)
  <2>1. Continue(r, AfterTank(req[r])) /\ Still /\ req[r].pc \in Booking
    BY <1>7 DEF MailTankEmpty, InsertTankFilling, At, Booking, books
  <2>2. AfterTank(req[r]) \in Step /\ Allowed(req[r], AfterTank(req[r]))
    BY <1>0, <2>1, StageAllowed DEF Allowed, MayGo
  <2>. QED  BY <2>1, <2>2, <1>1
<1>8. CASE ReadSaleAlert(r)
  <2>1. PICK code : req' = [req EXCEPT ![r] = [@ EXCEPT !.pc = "sale",
                                                !.resumed = (code = "no_sales")]]
    BY <1>8 DEF ReadSaleAlert
  <2>2. Moves(r, "sale")
    BY <1>0, <1>8, <2>1 DEF ReadSaleAlert, Moves, TypeInv, TypeOK, RequestState, books
  <2>3. Allowed(req[r], "sale") /\ "sale" \in Step
    BY <1>0, <1>8 DEF ReadSaleAlert, At, Knows, Allowed, MayGo, Booking, Step
  <2>. QED  BY <2>2, <2>3
<1>9. CASE InsertSalesBack(r)
  BY <1>1, <1>9 DEF InsertSalesBack, At, Allowed, Booking, Step, books
<1>10. CASE InsertError(r)
  BY <1>0, <1>1, <1>10 DEF InsertError, At, Knows, Allowed, MayGo, Booking, Step
<1>11. CASE ReadLastSale(r)
  BY <1>1, <1>11 DEF ReadLastSale, At, Allowed, Booking, Step, books
<1>12. CASE CheckSaleAlert(r)
  BY <1>1, <1>12 DEF CheckSaleAlert, At, Allowed, Booking, Step, books
<1>13. CASE InsertNoSales(r) \/ MailNoSales(r)
  BY <1>1, <1>13 DEF InsertNoSales, MailNoSales, At, Allowed, Booking, Step, books
<1>. QED
  BY <1>2, <1>3, <1>4, <1>5, <1>6, <1>7, <1>8, <1>9, <1>10, <1>11, <1>12, <1>13
     DEF Handle

(* At most one row is none or exactly the first.                           *)
LEMMA OneRow ==
  ASSUME NEW rows \in Seq(StatusRow), Len(rows) <= 1
  PROVE  /\ rows = <<>> => Len(rows) = 0
         /\ rows # <<>> => Len(rows) = 1 /\ DOMAIN rows = {1} /\ rows[1] \in StatusRow
<1>1. rows = <<>> => Len(rows) = 0
  BY EmptySeq
<1>2. ASSUME rows # <<>>
      PROVE  Len(rows) = 1 /\ DOMAIN rows = {1} /\ rows[1] \in StatusRow
  <2>1. Len(rows) \in Nat \ {0}
    BY <1>2, EmptySeq
  <2>2. Len(rows) = 1
    <3>1. \A n \in Nat \ {0} : n <= 1 => n = 1
      OBVIOUS
    <3>. QED  BY <2>1, <3>1, Zenon
  <2>3. DOMAIN rows = 1 .. 1 /\ rows \in [1 .. 1 -> StatusRow]
    BY <2>2, LenProperties
  <2>. QED  BY <2>2, <2>3
<1>. QED  BY <1>1, <1>2

(* Writing the row that was read leaves exactly that row.                  *)
LEMMA WriteOneRow ==
  ASSUME NEW rows \in Seq(StatusRow), Len(rows) <= 1, NEW row \in StatusRow, NEW id,
         (id = 0 /\ rows = <<>>) \/ (id = 1 /\ rows # <<>>)
  PROVE  /\ Len(WriteStatusRow(rows, id, row)) = 1
         /\ WriteStatusRow(rows, id, row) # <<>>
         /\ WriteStatusRow(rows, id, row)[1] = row
<1>1. CASE id = 0 /\ rows = <<>>
  <2>1. WriteStatusRow(rows, id, row) = Append(rows, row)
    BY <1>1 DEF WriteStatusRow
  <2>2. Len(rows) = 0
    BY <1>1, OneRow
  <2>. QED  BY <2>1, <2>2, AppendProperties
<1>2. CASE id = 1 /\ rows # <<>>
  <2>1. Len(rows) = 1 /\ DOMAIN rows = {1}
    BY <1>2, OneRow
  <2>2. WriteStatusRow(rows, id, row) = [rows EXCEPT ![1] = row]
    BY <1>2, <2>1 DEF WriteStatusRow
  <2>3. /\ [rows EXCEPT ![1] = row] \in Seq(StatusRow)
        /\ Len([rows EXCEPT ![1] = row]) = 1 /\ [rows EXCEPT ![1] = row][1] = row
    BY <2>1, ExceptSeq
  <2>4. [rows EXCEPT ![1] = row] # <<>>
    BY <2>3, EmptySeq
  <2>. QED  BY <2>2, <2>3, <2>4
<1>. QED  BY <1>1, <1>2

(* The five, with a database that does not refuse.                         *)
LEMMA BookingSteps ==
  ASSUME RowInv, ~DbMayFail, NEW r \in Request
  PROVE  /\ ReadStatus(r) =>
              \E i \in {0, 1} :
                /\ req[r].pc = "sent" /\ req'[r].pc = "store" /\ req'[r].id = i
                /\ req'[r].tm = req[r].tm /\ req'[r].ts = req[r].ts
                /\ \/ i = 0 /\ status = <<>>
                   \/ i = 1 /\ status # <<>> /\ req'[r].last = status[1]
                /\ UNCHANGED <<machine, status, sales, collected, baseline>>
         /\ WriteStatus(r) =>
              /\ req[r].pc = "store"
              /\ Len(status') = 1 /\ status' # <<>>
              /\ status'[1].money = req[r].tm /\ status'[1].liters = req[r].ts
              /\ baseline' = IF status = <<>> THEN req[r].tm ELSE baseline
              /\ \E pc \in Step :
                   /\ MayGo(req[r], pc) /\ req'[r].pc = pc
                   /\ pc # "idle" =>
                        /\ req'[r].tm = req[r].tm /\ req'[r].ts = req[r].ts
                        /\ req'[r].id = req[r].id /\ req'[r].last = req[r].last
              /\ UNCHANGED <<machine, sales, collected>>
         /\ InsertEncash(r) =>
              /\ req[r].pc = "encash" /\ req'[r].pc = "idle"
              /\ collected' = collected + req[r].last.money
              /\ UNCHANGED <<machine, status, sales, baseline>>
         /\ InsertSaleRow(r) =>
              /\ req[r].pc = "sale" /\ req'[r].pc \in {"idle", "salesBack"}
              /\ sales'.money = sales.money + (req[r].tm - req[r].last.money)
              /\ sales'.liters = sales.liters + (req[r].ts - req[r].last.liters)
              /\ UNCHANGED <<machine, status, collected, baseline>>
         /\ RestoreStatus(r) =>
              /\ req[r].pc = "restore" /\ req'[r].pc = "idle"
              /\ Len(status') = 1 /\ status' # <<>>
              /\ status'[1].money = req[r].last.money
              /\ status'[1].liters = req[r].last.liters
              /\ UNCHANGED <<machine, sales, collected, baseline>>
<1>. DEFINE q == req[r]
<1>0. /\ TypeInv /\ q \in RequestState /\ Knows(q) /\ Outcome = {TRUE}
      /\ status \in Seq(StatusRow) /\ Len(status) <= 1 /\ q.pc \in Step
      /\ req \in [Request -> RequestState]
  BY DEF RowInv, TypeInv, TypeOK, Outcome, RequestState
<1>1. ASSUME ReadStatus(r)
      PROVE  \E i \in {0, 1} :
                /\ q.pc = "sent" /\ req'[r].pc = "store" /\ req'[r].id = i
                /\ req'[r].tm = q.tm /\ req'[r].ts = q.ts
                /\ \/ i = 0 /\ status = <<>>
                   \/ i = 1 /\ status # <<>> /\ req'[r].last = status[1]
                /\ UNCHANGED <<machine, status, sales, collected, baseline>>
  <2>1. PICK i \in NewestStatus(status) :
          req' = [req EXCEPT ![r] = [@ EXCEPT !.pc = "store", !.date = clock, !.id = i,
                                     !.last = IF i = 0 THEN NoRow ELSE status[i]]]
    BY <1>1 DEF ReadStatus, QueryResult
  <2>2. (i = 0 /\ status = <<>>) \/ (i = 1 /\ status # <<>>)
    BY <1>0, OneRow DEF NewestStatus, IsNewest
  <2>3. /\ req'[r].pc = "store" /\ req'[r].id = i /\ req'[r].tm = q.tm
        /\ req'[r].ts = q.ts /\ req'[r].last = IF i = 0 THEN NoRow ELSE status[i]
    BY <1>0, <2>1 DEF RequestState
  <2>. QED  BY <1>1, <2>2, <2>3 DEF ReadStatus, At, books
<1>2. ASSUME WriteStatus(r)
      PROVE  /\ q.pc = "store"
             /\ Len(status') = 1 /\ status' # <<>>
             /\ status'[1].money = q.tm /\ status'[1].liters = q.ts
             /\ baseline' = IF status = <<>> THEN q.tm ELSE baseline
             /\ \E pc \in Step :
                   /\ MayGo(q, pc) /\ req'[r].pc = pc
                   /\ pc # "idle" => /\ req'[r].tm = q.tm /\ req'[r].ts = q.ts
                                     /\ req'[r].id = q.id /\ req'[r].last = q.last
             /\ UNCHANGED <<machine, sales, collected>>
  <2>1. /\ q.pc = "store" /\ Continue(r, AfterStore(q))
        /\ status' = WriteStatusRow(status, q.id, NewRow(q))
        /\ baseline' = IF status = <<>> THEN q.tm ELSE baseline
        /\ UNCHANGED <<machine, sales, collected>>
    BY <1>0, <1>2 DEF WriteStatus, At
  <2>2. NewRow(q).money = q.tm /\ NewRow(q).liters = q.ts
    BY DEF NewRow
  <2>3. Len(status') = 1 /\ status' # <<>> /\ status'[1] = NewRow(q)
    <3>1. (q.id = 0 /\ status = <<>>) \/ (q.id = 1 /\ status # <<>>)
      BY <1>0, <2>1 DEF Knows
    <3>2. NewRow(q) \in StatusRow
      BY <1>0 DEF NewRow, RequestState, StatusRow
    <3>. QED  BY <1>0, <2>1, <3>1, <3>2, WriteOneRow
  <2>4. MayGo(q, AfterStore(q)) /\ AfterStore(q) \in Step
    BY <1>0, StageAllowed DEF MayGo
  <2>5. req'[r] = Goto(q, AfterStore(q))
    BY <1>0, <2>1 DEF Continue
  <2>6. /\ req'[r].pc = AfterStore(q)
        /\ AfterStore(q) # "idle" => /\ req'[r].tm = q.tm /\ req'[r].ts = q.ts
                                     /\ req'[r].id = q.id /\ req'[r].last = q.last
    BY <1>0, <2>4, <2>5 DEF Goto, Idle, RequestState
  <2>. QED  BY <2>1, <2>2, <2>3, <2>4, <2>6
<1>3. ASSUME InsertEncash(r)
      PROVE  /\ q.pc = "encash" /\ req'[r].pc = "idle"
             /\ collected' = collected + q.last.money
             /\ UNCHANGED <<machine, status, sales, baseline>>
  BY <1>0, <1>3 DEF InsertEncash, At, Continue, Goto, Idle
<1>4. ASSUME InsertSaleRow(r)
      PROVE  /\ q.pc = "sale" /\ req'[r].pc \in {"idle", "salesBack"}
             /\ sales'.money = sales.money + (q.tm - q.last.money)
             /\ sales'.liters = sales.liters + (q.ts - q.last.liters)
             /\ UNCHANGED <<machine, status, collected, baseline>>
  <2>1. /\ q.pc = "sale"
        /\ sales' = InsertSale(sales, q.tm - q.last.money, q.ts - q.last.liters, q.date)
        /\ Continue(r, IF q.resumed THEN "salesBack" ELSE "idle")
        /\ UNCHANGED <<machine, status, collected, baseline>>
    BY <1>0, <1>4 DEF InsertSaleRow, At
  <2>2. req'[r].pc \in {"idle", "salesBack"}
    BY <1>0, <2>1 DEF Continue, Goto, Idle, RequestState
  <2>. QED  BY <2>1, <2>2 DEF InsertSale
<1>5. ASSUME RestoreStatus(r)
      PROVE  /\ q.pc = "restore" /\ req'[r].pc = "idle"
             /\ Len(status') = 1 /\ status' # <<>>
             /\ status'[1].money = q.last.money
             /\ status'[1].liters = q.last.liters
             /\ UNCHANGED <<machine, sales, collected, baseline>>
  <2>1. /\ q.pc = "restore" /\ Continue(r, "idle")
        /\ status' = WriteStatusRow(status, q.id, RestoredRow(q))
        /\ UNCHANGED <<machine, sales, collected, baseline>>
    BY <1>0, <1>5 DEF RestoreStatus, At
  <2>2. RestoredRow(q).money = q.last.money /\ RestoredRow(q).liters = q.last.liters
    BY <1>0 DEF RestoredRow, RequestState, StatusRow
  <2>3. q.id = 1 /\ status # <<>> /\ RestoredRow(q) \in StatusRow
    BY <1>0, <2>1 DEF Knows, Booking, RestoredRow, RequestState, StatusRow
  <2>4. Len(status') = 1 /\ status' # <<>> /\ status'[1] = RestoredRow(q)
    BY <1>0, <2>1, <2>3, WriteOneRow
  <2>5. req'[r].pc = "idle"
    BY <1>0, <2>1 DEF Continue, Goto, Idle
  <2>. QED  BY <2>1, <2>2, <2>4, <2>5
<1>. QED  BY <1>1, <1>2, <1>3, <1>4, <1>5

LEMMA RowStep ==
  ASSUME Serial, ~DbMayFail, RowInv, [Next]_vars
  PROVE  RowInv'
<1>1. TypeInv'
  BY NextTypeInv DEF RowInv
<1>2. ASSUME UNCHANGED <<req, status>> PROVE RowInv'
  BY <1>1, <1>2 DEF RowInv, Knows, IsZero
<1>3. ASSUME NEW r \in Request, Len(status') <= 1, Knows(req[r])' PROVE RowInv'
  <2>1. ASSUME NEW s \in Request PROVE Knows(req[s])'
    BY <1>3 DEF Serial
  <2>. QED  BY <1>1, <1>3, <2>1 DEF RowInv
<1>4. CASE UNCHANGED vars
  BY <1>2, <1>4 DEF vars, books
<1>5. CASE Machine \/ Tick
  BY <1>2, <1>5 DEF Machine, Pay, Pour, Collect, FlipTank, Tick, books
<1>6. CASE Crash
  <2>1. PICK r \in Request : TRUE
    BY HttpAssumption
  <2>2. req'[r] = Idle /\ status' = status
    BY <1>6 DEF Crash, books
  <2>3. Knows(req[r])'
    BY <2>2 DEF Knows, Idle, Booking
  <2>. QED  BY <1>3, <2>2, <2>3 DEF RowInv
<1>7. ASSUME NEW r \in Request, Report(r) PROVE RowInv'
  <2>1. req'[r].pc = "sent" /\ status' = status
    BY <1>7 DEF Report, RowInv, TypeInv, TypeOK, Idle, books
  <2>2. Knows(req[r])'
    BY <2>1 DEF Knows, Booking
  <2>. QED  BY <1>3, <2>1, <2>2 DEF RowInv
<1>8. ASSUME NEW r \in Request, Drop(r) \/ Handle(r) PROVE RowInv'
  <2>. DEFINE q == req[r]
  <2>0. Knows(q) /\ Len(status) <= 1 /\ status \in Seq(StatusRow)
    BY DEF RowInv, TypeInv, TypeOK
  <2>1. CASE ReadStatus(r)
    <3>1. PICK i \in {0, 1} :
                /\ req'[r].pc = "store" /\ req'[r].id = i
                /\ \/ i = 0 /\ status = <<>>
                   \/ i = 1 /\ status # <<>> /\ req'[r].last = status[1]
                /\ status' = status
      BY <2>1, BookingSteps
    <3>2. Knows(req[r])'
      BY <3>1 DEF Knows, Booking
    <3>. QED  BY <1>3, <2>0, <3>1, <3>2
  <2>2. CASE WriteStatus(r)
    <3>1. /\ q.pc = "store" /\ Len(status') = 1 /\ status' # <<>>
          /\ status'[1].money = q.tm /\ status'[1].liters = q.ts
      BY <2>2, BookingSteps
    <3>2. PICK pc \in Step :
            /\ MayGo(q, pc) /\ req'[r].pc = pc
            /\ pc # "idle" => /\ req'[r].tm = q.tm /\ req'[r].ts = q.ts
                              /\ req'[r].id = q.id /\ req'[r].last = q.last
      BY <2>2, BookingSteps
    <3>3. q.id \in {0, 1}
      BY <2>0, <3>1 DEF Knows
    <3>4. Knows(req[r])'
      BY <3>1, <3>2, <3>3 DEF Knows, MayGo, Booking, IsZero
    <3>. QED  BY <1>3, <3>1, <3>4
  <2>3. CASE InsertEncash(r) \/ InsertSaleRow(r)
    <3>1. req'[r].pc \in {"idle", "salesBack"} /\ status' = status
      BY <2>3, BookingSteps
    <3>2. Knows(req[r])'
      BY <3>1 DEF Knows, Booking
    <3>. QED  BY <1>3, <2>0, <3>1, <3>2
  <2>4. CASE RestoreStatus(r)
    <3>1. req'[r].pc = "idle" /\ Len(status') = 1
      BY <2>4, BookingSteps
    <3>2. Knows(req[r])'
      BY <3>1 DEF Knows, Booking
    <3>. QED  BY <1>3, <3>1, <3>2
  <2>5. ASSUME NEW pc \in Step, Moves(r, pc), Allowed(q, pc) PROVE RowInv'
    <3>1. Knows(req[r])'
      BY <2>0, <2>5 DEF Knows, Moves, Allowed, MayGo, Booking, IsZero
    <3>. QED  BY <1>3, <2>0, <2>5, <3>1 DEF Moves
  <2>. QED  BY <1>8, <2>1, <2>2, <2>3, <2>4, <2>5, HandlerSteps
<1>. QED  BY <1>4, <1>5, <1>6, <1>7, <1>8 DEF Next

LEMMA RowInit == Init => RowInv
<1>. SUFFICES ASSUME Init PROVE RowInv
  OBVIOUS
<1>1. Len(status) <= 1
  <2>1. CASE Fresh
    BY <2>1, EmptySeq DEF Fresh
  <2>2. CASE Replaced
    BY <2>2 DEF Replaced
  <2>. QED  BY <2>1, <2>2 DEF Init
<1>2. ASSUME NEW r \in Request PROVE Knows(req[r])
  BY DEF Init, Idle, Knows, Booking
<1>. QED  BY <1>1, <1>2, InitTypeInv DEF RowInv

-----------------------------------------------------------------------------
(***************************************************************************)
(* The ledger.                                                             *)
(***************************************************************************)
(* The amounts, free of the records they come from.                        *)
LEMMA Amounts ==
  ASSUME RowInv
  PROVE  /\ sales.money \in Nat /\ sales.liters \in Nat
         /\ collected \in Nat /\ baseline \in Nat
         /\ board.money \in Nat /\ board.liters \in Nat
         /\ lifetime.money \in Nat /\ lifetime.liters \in Nat
         /\ status # <<>> => status[1].money \in Nat /\ status[1].liters \in Nat
         /\ \A r \in Request :
              /\ req[r].tm \in Nat /\ req[r].ts \in Nat
              /\ req[r].last.money \in Nat /\ req[r].last.liters \in Nat
<1>1. TypeOK
  BY DEF RowInv, TypeInv
<1>2. ASSUME status # <<>> PROVE status[1].money \in Nat /\ status[1].liters \in Nat
  <2>1. status[1] \in StatusRow
    BY <1>1, <1>2, OneRow DEF RowInv, TypeOK
  <2>. QED  BY <2>1 DEF StatusRow
<1>3. ASSUME NEW r \in Request
      PROVE  /\ req[r].tm \in Nat /\ req[r].ts \in Nat
             /\ req[r].last.money \in Nat /\ req[r].last.liters \in Nat
  <2>1. req[r] \in RequestState
    BY <1>1 DEF TypeOK
  <2>. QED  BY <2>1 DEF RequestState, StatusRow
<1>. QED  BY <1>1, <1>2, <1>3 DEF TypeOK, SalesBook

LEMMA LedgerStep ==
  ASSUME Serial, ~DbMayFail, ~MayCrash, RowInv, RowInv', LedgerInv, [Next]_vars
  PROVE  LedgerInv'
<1>1. ASSUME UNCHANGED <<req, status, sales, collected, baseline>> PROVE LedgerInv'
  BY <1>1 DEF LedgerInv, Owes, Balanced
<1>2. ASSUME NEW r \in Request, 
             status' = <<>> => sales'.money = 0 /\ collected' = 0,
             req'[r].pc \notin Booking => Balanced',
             req'[r].pc \in Booking => Owes(req[r])',
             req'[r].pc \in Booking /\ req'[r].id = 0 => Balanced'
      PROVE  LedgerInv'
  <2>1. ASSUME NEW t \in Request
        PROVE  /\ (req[t].pc \notin Booking => Balanced)'
               /\ (req[t].pc \in Booking => Owes(req[t]))'
               /\ (req[t].pc \in Booking /\ req[t].id = 0 => Balanced)'
    <3>1. t = r
      BY DEF Serial
    <3>. QED  BY <1>2, <3>1
  <2>. QED  BY <1>2, <2>1 DEF LedgerInv
<1>3. CASE UNCHANGED vars
  BY <1>1, <1>3 DEF vars, books
<1>4. CASE Machine \/ Tick
  BY <1>1, <1>4 DEF Machine, Pay, Pour, Collect, FlipTank, Tick, books
<1>5. CASE Crash
  BY <1>5 DEF Crash
<1>6. ASSUME NEW r \in Request, Report(r) PROVE LedgerInv'
  <2>1. /\ req[r].pc = "idle" /\ req'[r].pc = "sent"
        /\ UNCHANGED <<status, sales, collected, baseline>>
    BY <1>6 DEF Report, At, RowInv, TypeInv, TypeOK, Idle, books
  <2>2. "idle" \notin Booking /\ "sent" \notin Booking
    BY DEF Booking
  <2>3. Balanced'
    BY <2>1, <2>2 DEF LedgerInv, Balanced
  <2>. QED  BY <1>2, <2>1, <2>2, <2>3 DEF LedgerInv
<1>7. ASSUME NEW r \in Request, Drop(r) \/ Handle(r) PROVE LedgerInv'
  <2>. DEFINE q == req[r]
  <2>0. /\ Knows(q) /\ q.tm \in Nat /\ q.last.money \in Nat
        /\ sales.money \in Nat /\ collected \in Nat /\ baseline \in Nat
        /\ status # <<>> => status[1].money \in Nat
        /\ status = <<>> => sales.money = 0 /\ collected = 0
        /\ q.pc \notin Booking => Balanced
        /\ q.pc \in Booking => Owes(q)
        /\ q.pc \in Booking /\ q.id = 0 => Balanced
    BY Amounts DEF RowInv, LedgerInv
  <2>1. CASE ReadStatus(r)
    <3>1. /\ q.pc = "sent" /\ req'[r].pc = "store"
          /\ UNCHANGED <<status, sales, collected, baseline>>
      BY <2>1, BookingSteps
    <3>2. "sent" \notin Booking /\ "store" \notin Booking
      BY DEF Booking
    <3>3. Balanced'
      BY <2>0, <3>1, <3>2 DEF Balanced
    <3>. QED  BY <1>2, <2>0, <3>1, <3>2, <3>3
  <2>2. CASE WriteStatus(r)
    <3>1. /\ q.pc = "store" /\ status' # <<>> /\ status'[1].money = q.tm
          /\ baseline' = IF status = <<>> THEN q.tm ELSE baseline
          /\ UNCHANGED <<sales, collected>>
      BY <2>2, BookingSteps
    <3>2. PICK pc \in Step :
            /\ MayGo(q, pc) /\ req'[r].pc = pc
            /\ pc # "idle" => req'[r].id = q.id /\ req'[r].last = q.last
      BY <2>2, BookingSteps
    <3>3. Balanced /\ (pc \in Booking => pc # "idle")
      BY <2>0, <3>1 DEF Booking
    <3>4. CASE q.id = 0 /\ status = <<>>
      <4>1. Balanced'
        BY <2>0, <3>1, <3>4 DEF Balanced
      <4>2. req'[r].pc \in Booking => Owes(req[r])'
        BY <3>2, <3>3, <3>4 DEF Owes
      <4>. QED  BY <1>2, <3>1, <4>1, <4>2
    <3>5. CASE q.id = 1 /\ status # <<>> /\ q.last = status[1]
      <4>1. sales.money + baseline = q.last.money + collected
        BY <3>3, <3>5 DEF Balanced
      <4>2. pc \in Booking => Owes(req[r])'
        BY <3>1, <3>2, <3>3, <3>5, <4>1 DEF Owes
      <4>3. pc \notin Booking => Balanced'
        BY <3>1, <3>2, <3>5, <4>1 DEF Balanced, MayGo
      <4>. QED  BY <1>2, <3>1, <3>2, <3>3, <3>5, <4>2, <4>3
    <3>. QED  BY <2>0, <3>1, <3>4, <3>5 DEF Knows
  <2>3. CASE InsertEncash(r)
    <3>1. /\ q.pc = "encash" /\ req'[r].pc = "idle"
          /\ collected' = collected + q.last.money
          /\ UNCHANGED <<status, sales, baseline>>
      BY <2>3, BookingSteps
    <3>2. /\ "encash" \in Booking /\ "idle" \notin Booking
          /\ status # <<>> /\ status[1].money = 0 /\ q.id = 1
      BY <2>0, <3>1 DEF Knows, IsZero, Booking
    <3>3. sales.money + baseline = q.last.money + collected
      BY <2>0, <3>1, <3>2 DEF Owes
    <3>4. Balanced'
      BY <2>0, <3>1, <3>2, <3>3 DEF Balanced
    <3>. QED  BY <1>2, <3>1, <3>2, <3>4
  <2>4. CASE InsertSaleRow(r)
    <3>1. /\ q.pc = "sale" /\ req'[r].pc \in {"idle", "salesBack"}
          /\ sales'.money = sales.money + (q.tm - q.last.money)
          /\ UNCHANGED <<status, collected, baseline>>
      BY <2>4, BookingSteps
    <3>2. /\ "sale" \in Booking /\ req'[r].pc \notin Booking
          /\ status # <<>> /\ status[1].money = q.tm /\ q.id = 1
      BY <2>0, <3>1 DEF Knows, Booking
    <3>3. sales.money + baseline = q.last.money + collected
      BY <2>0, <3>1, <3>2 DEF Owes
    <3>4. sales'.money + baseline = q.tm + collected
      <4>1. /\ sales.money \in Nat /\ baseline \in Nat /\ q.last.money \in Nat
            /\ collected \in Nat /\ q.tm \in Nat
        BY <2>0
      <4>2. (sales.money + (q.tm - q.last.money)) + baseline = q.tm + collected
        <5>1. q.tm - q.last.money \in Int
          BY <4>1
        <5>2. (sales.money + (q.tm - q.last.money)) + baseline
                = (sales.money + baseline) + (q.tm - q.last.money)
          BY <4>1, <5>1
        <5>3. (q.last.money + collected) + (q.tm - q.last.money) = q.tm + collected
          BY <4>1
        <5>. QED  BY <3>3, <5>2, <5>3
      <4>. QED  BY <3>1, <4>2
    <3>5. Balanced'
      BY <3>1, <3>2, <3>4 DEF Balanced
    <3>. QED  BY <1>2, <3>1, <3>2, <3>5
  <2>5. CASE RestoreStatus(r)
    <3>1. /\ q.pc = "restore" /\ req'[r].pc = "idle" /\ status' # <<>>
          /\ status'[1].money = q.last.money
          /\ UNCHANGED <<sales, collected, baseline>>
      BY <2>5, BookingSteps
    <3>2. "restore" \in Booking /\ "idle" \notin Booking /\ q.id = 1
      BY <2>0, <3>1 DEF Knows, Booking
    <3>3. Balanced'
      BY <2>0, <3>1, <3>2 DEF Balanced, Owes
    <3>. QED  BY <1>2, <3>1, <3>2, <3>3
  <2>6. ASSUME NEW pc \in Step, Moves(r, pc), Allowed(q, pc) PROVE LedgerInv'
    <3>1. /\ req'[r].pc = pc
          /\ pc # "idle" => req'[r].id = q.id /\ req'[r].last = q.last
          /\ UNCHANGED <<status, sales, collected, baseline>>
      BY <2>6 DEF Moves
    <3>2. Balanced' <=> Balanced
      BY <3>1 DEF Balanced
    <3>3. pc \in Booking => pc # "idle" /\ q.pc \in Booking
      BY <2>6 DEF Allowed, Booking
    <3>4. pc \in Booking => Owes(req[r])'
      BY <2>0, <3>1, <3>3 DEF Owes
    <3>5. pc \notin Booking => Balanced
      <4>1. CASE q.pc \in Booking /\ pc \notin Booking
        <5>1. status[1].money = q.tm /\ q.id \in {0, 1}
          BY <2>0, <4>1 DEF Knows
        <5>2. q.id = 0 \/ q.tm = q.last.money
          BY <2>6, <4>1 DEF Allowed, MayGo
        <5>. QED  BY <2>0, <4>1, <5>1, <5>2 DEF Balanced, Owes
      <4>. QED  BY <2>0, <4>1
    <3>. QED  BY <1>2, <2>0, <3>1, <3>2, <3>3, <3>4, <3>5
  <2>. QED  BY <1>7, <2>1, <2>2, <2>3, <2>4, <2>5, <2>6, HandlerSteps
<1>. QED  BY <1>3, <1>4, <1>5, <1>6, <1>7 DEF Next

LEMMA LedgerInit == Init => LedgerInv
<1>. SUFFICES ASSUME Init PROVE LedgerInv
  OBVIOUS
<1>1. /\ sales.money = 0 /\ collected = 0 /\ baseline = 0
      /\ status # <<>> => status[1].money = 0
  BY DEF Init, Fresh, Replaced
<1>2. Balanced
  BY <1>1 DEF Balanced
<1>3. \A r \in Request : req[r].pc \notin Booking
  BY DEF Init, Idle, Booking
<1>. QED  BY <1>1, <1>2, <1>3 DEF LedgerInv

(* The books of Send balance between reports, for a board that waits for   *)
(* its answers, a server that stays up and a database that answers.        *)
THEOREM LedgerCorrect ==
  ASSUME Serial, ~DbMayFail, ~MayCrash
  PROVE  Spec => []LedgerBalanced
<1>1. LedgerInv => LedgerBalanced
  <2>. SUFFICES ASSUME LedgerInv, Quiescent, status # <<>>
                PROVE  sales.money + baseline = status[1].money + collected
    BY DEF LedgerBalanced
  <2>1. PICK r \in Request : TRUE
    BY HttpAssumption
  <2>2. req[r].pc \notin Booking
    BY <2>1 DEF Quiescent, Booking
  <2>. QED  BY <2>1, <2>2 DEF LedgerInv, Balanced
<1>. QED  BY RowInit, RowStep, LedgerInit, LedgerStep, <1>1, PTL DEF Spec

-----------------------------------------------------------------------------
(***************************************************************************)
(* What is never booked, whatever is lost.                                 *)
(***************************************************************************)
LEMMA SoundFromOne ==
  ASSUME Serial, NEW r \in Request,
         (board.money <= lifetime.money /\ board.liters <= lifetime.liters)',
         NeverOverstated',
         status' # <<>> => RowSound(status[1])',
         req'[r].pc \in {"sent", "store"} \cup Booking => ReportSound(req[r])',
         req'[r].pc = "sent" /\ status' # <<>> => PairSound(req[r], status[1])',
         req'[r].pc \in {"store"} \cup Booking /\ req'[r].id = 1 =>
              PairSound(req[r], req[r].last)'
  PROVE  SoundInv'
<1>1. \A t \in Request : t = r
  BY DEF Serial
<1>. QED  BY <1>1 DEF SoundInv

(* The books do not move and the machine only takes in more.               *)
LEMMA SoundGrows ==
  ASSUME RowInv, RowInv', SoundInv, UNCHANGED <<req, status, sales, collected>>,
         lifetime.money <= lifetime'.money, lifetime.liters <= lifetime'.liters,
         TakenMoney <= TakenMoney', TakenLiters <= TakenLiters',
         board'.money <= lifetime'.money, board'.liters <= lifetime'.liters
  PROVE  SoundInv'
<1>1. /\ sales.money \in Nat /\ sales.liters \in Nat /\ collected \in Nat
      /\ lifetime.money \in Nat /\ lifetime.liters \in Nat
      /\ lifetime'.money \in Nat /\ lifetime'.liters \in Nat
      /\ TakenMoney \in Int /\ TakenLiters \in Int
      /\ TakenMoney' \in Int /\ TakenLiters' \in Int
  <2>1. /\ board.money \in Nat /\ board.liters \in Nat
        /\ lifetime.money \in Nat /\ lifetime.liters \in Nat
        /\ sales.money \in Nat /\ sales.liters \in Nat /\ collected \in Nat
    BY Amounts
  <2>2. /\ board'.money \in Nat /\ board'.liters \in Nat
        /\ lifetime'.money \in Nat /\ lifetime'.liters \in Nat
    BY DEF RowInv, TypeInv, TypeOK
  <2>. QED  BY <2>1, <2>2 DEF TakenMoney, TakenLiters
<1>2. NeverOverstated'
  BY <1>1 DEF SoundInv, NeverOverstated, TakenMoney
<1>3. ASSUME NEW row, row.money \in Nat, row.liters \in Nat,
             sales.money <= TakenMoney + row.money,
             sales.liters <= TakenLiters + row.liters,
             collected + row.money <= lifetime.money
      PROVE  /\ sales.money <= TakenMoney' + row.money
             /\ sales.liters <= TakenLiters' + row.liters
             /\ collected + row.money <= lifetime'.money
  BY <1>1, <1>3
<1>4. status # <<>> => RowSound(status[1])'
  BY <1>3, Amounts DEF SoundInv, RowSound
<1>5. ASSUME NEW q, q.tm \in Nat, q.ts \in Nat, ReportSound(q)
      PROVE  /\ sales.money <= TakenMoney' + q.tm
             /\ sales.liters <= TakenLiters' + q.ts
             /\ collected + q.tm <= lifetime'.money
  BY <1>1, <1>5 DEF ReportSound
<1>6. ASSUME NEW q, NEW row, q.tm \in Nat, q.ts \in Nat, row.money \in Nat,
             row.liters \in Nat, PairSound(q, row)
      PROVE  /\ sales.money <= TakenMoney' + row.money
             /\ sales.liters <= TakenLiters' + row.liters
             /\ collected + row.money <= lifetime'.money
             /\ sales.money + q.tm <= lifetime'.money + row.money
             /\ sales.liters + q.ts <= lifetime'.liters + row.liters
             /\ IsZero(q) => collected + row.money <= TakenMoney'
  <2>1. /\ sales.money <= TakenMoney + row.money
        /\ sales.liters <= TakenLiters + row.liters
        /\ collected + row.money <= lifetime.money
        /\ sales.money + q.tm <= lifetime.money + row.money
        /\ sales.liters + q.ts <= lifetime.liters + row.liters
        /\ IsZero(q) => collected + row.money <= TakenMoney
    BY <1>6 DEF PairSound, RowSound
  <2>2. sales.money + q.tm <= lifetime'.money + row.money
    BY <1>1, <1>6, <2>1
  <2>3. sales.liters + q.ts <= lifetime'.liters + row.liters
    BY <1>1, <1>6, <2>1
  <2>4. IsZero(q) => collected + row.money <= TakenMoney'
    BY <1>1, <1>6, <2>1
  <2>. QED  BY <1>3, <1>6, <2>1, <2>2, <2>3, <2>4
<1>7. ASSUME NEW r \in Request
      PROVE  /\ req[r].pc \in {"sent", "store"} \cup Booking => ReportSound(req[r])'
             /\ req[r].pc = "sent" /\ status # <<>> => PairSound(req[r], status[1])'
             /\ req[r].pc \in {"store"} \cup Booking /\ req[r].id = 1 =>
                   PairSound(req[r], req[r].last)'
  <2>1. /\ req[r].tm \in Nat /\ req[r].ts \in Nat
        /\ req[r].last.money \in Nat /\ req[r].last.liters \in Nat
        /\ status # <<>> => status[1].money \in Nat /\ status[1].liters \in Nat
    BY Amounts
  <2>2. req[r].pc \in {"sent", "store"} \cup Booking => ReportSound(req[r])'
    BY <1>5, <2>1 DEF SoundInv, ReportSound
  <2>3. req[r].pc = "sent" /\ status # <<>> => PairSound(req[r], status[1])'
    BY <1>6, <2>1 DEF SoundInv, PairSound, RowSound, IsZero
  <2>4. req[r].pc \in {"store"} \cup Booking /\ req[r].id = 1 =>
          PairSound(req[r], req[r].last)'
    BY <1>6, <2>1 DEF SoundInv, PairSound, RowSound, IsZero
  <2>. QED  BY <2>2, <2>3, <2>4
<1>. QED  BY <1>2, <1>4, <1>7 DEF SoundInv

LEMMA SoundMachine ==
  ASSUME RowInv, RowInv', SoundInv, Machine \/ Tick
  PROVE  SoundInv'
<1>0. /\ board.money \in Nat /\ board.liters \in Nat
      /\ lifetime.money \in Nat /\ lifetime.liters \in Nat
      /\ board.money <= lifetime.money /\ board.liters <= lifetime.liters
      /\ board \in [money: Nat, liters: Nat, tank: {0, 1}]
      /\ lifetime \in [money: Nat, liters: Nat]
  BY Amounts DEF SoundInv, RowInv, TypeInv, TypeOK
<1>1. UNCHANGED <<req, status, sales, collected>>
  BY DEF Machine, Pay, Pour, Collect, FlipTank, Tick, books
<1>2. CASE Pay
  BY <1>0, <1>1, <1>2, SoundGrows DEF Pay, TakenMoney, TakenLiters
<1>3. CASE Pour
  BY <1>0, <1>1, <1>3, SoundGrows DEF Pour, TakenMoney, TakenLiters
<1>4. CASE Collect
  BY <1>0, <1>1, <1>4, SoundGrows DEF Collect, TakenMoney, TakenLiters
<1>5. CASE FlipTank \/ Tick
  <2>1. /\ board'.money = board.money /\ board'.liters = board.liters
        /\ lifetime' = lifetime
    BY <1>0, <1>5 DEF FlipTank, Tick, machine
  <2>. QED  BY <1>0, <1>1, <2>1, SoundGrows DEF TakenMoney, TakenLiters
<1>. QED  BY <1>2, <1>3, <1>4, <1>5 DEF Machine

LEMMA SoundReport ==
  ASSUME Serial, RowInv, SoundInv, NEW r \in Request, Report(r)
  PROVE  SoundInv'
<1>0. /\ sales.money \in Nat /\ sales.liters \in Nat /\ collected \in Nat
      /\ board.money \in Nat /\ board.liters \in Nat
      /\ lifetime.money \in Nat /\ lifetime.liters \in Nat
      /\ status # <<>> => status[1].money \in Nat /\ status[1].liters \in Nat
  BY Amounts
<1>1. /\ req'[r].pc = "sent" /\ req'[r].tm = board.money /\ req'[r].ts = board.liters
      /\ UNCHANGED <<machine, status, sales, collected>>
  BY DEF Report, RowInv, TypeInv, TypeOK, Idle, books
<1>2. NeverOverstated /\ board.money <= lifetime.money /\ board.liters <= lifetime.liters
  BY DEF SoundInv
<1>3. ReportSound(req[r])'
  BY <1>0, <1>1, <1>2 DEF ReportSound, NeverOverstated, TakenMoney, TakenLiters, machine
<1>4. status # <<>> => PairSound(req[r], status[1])'
  <2>. SUFFICES ASSUME status # <<>> PROVE PairSound(req[r], status[1])'
    OBVIOUS
  <2>1. RowSound(status[1])
    BY DEF SoundInv
  <2>2. RowSound(status[1])'
    BY <1>1, <2>1 DEF RowSound, TakenMoney, TakenLiters, machine
  <2>3. sales.money + board.money <= lifetime.money + status[1].money
    BY <1>0, <2>1 DEF RowSound, TakenMoney
  <2>4. sales.liters + board.liters <= lifetime.liters + status[1].liters
    BY <1>0, <2>1 DEF RowSound, TakenLiters
  <2>5. board.money = 0 => collected + status[1].money <= TakenMoney
    BY <1>0, <2>1 DEF RowSound, TakenMoney
  <2>. QED  BY <1>1, <2>2, <2>3, <2>4, <2>5 DEF PairSound, IsZero, TakenMoney, machine
<1>5. status # <<>> => RowSound(status[1])'
  BY <1>4 DEF PairSound
<1>6. NeverOverstated'
  BY <1>1, <1>2 DEF NeverOverstated, machine
<1>7. req'[r].pc \notin {"store"} \cup Booking
  BY <1>1 DEF Booking
<1>. QED  BY <1>1, <1>2, <1>3, <1>4, <1>5, <1>6, <1>7, SoundFromOne DEF machine

LEMMA SoundHandler ==
  ASSUME Serial, ~DbMayFail, RowInv, SoundInv, NEW r \in Request, Drop(r) \/ Handle(r)
  PROVE  SoundInv'
<1>. DEFINE q == req[r]
<1>0. /\ Knows(q) /\ NeverOverstated
      /\ board.money <= lifetime.money /\ board.liters <= lifetime.liters
      /\ status # <<>> => RowSound(status[1])
      /\ q.pc \in {"sent", "store"} \cup Booking => ReportSound(q)
      /\ q.pc = "sent" /\ status # <<>> => PairSound(q, status[1])
      /\ q.pc \in {"store"} \cup Booking /\ q.id = 1 => PairSound(q, q.last)
  BY DEF RowInv, SoundInv
<1>1. /\ q.tm \in Nat /\ q.ts \in Nat /\ q.last.money \in Nat /\ q.last.liters \in Nat
      /\ sales.money \in Nat /\ sales.liters \in Nat /\ collected \in Nat
      /\ board.money \in Nat /\ board.liters \in Nat
      /\ lifetime.money \in Nat /\ lifetime.liters \in Nat
  BY Amounts
(* Where the books are left alone, what is sound stays so.                 *)
<1>2. ASSUME UNCHANGED <<machine, sales, collected>>
      PROVE  /\ (board.money <= lifetime.money /\ board.liters <= lifetime.liters)'
             /\ NeverOverstated'
             /\ TakenMoney' = TakenMoney /\ TakenLiters' = TakenLiters
             /\ lifetime' = lifetime
  BY <1>0, <1>2 DEF NeverOverstated, TakenMoney, TakenLiters, machine
<1>3. ASSUME UNCHANGED <<machine, sales, collected>>,
             req'[r].tm = q.tm, req'[r].ts = q.ts
      PROVE  ReportSound(q) => ReportSound(req[r])'
  BY <1>2, <1>3 DEF ReportSound
<1>4. ASSUME UNCHANGED <<machine, sales, collected>>, NEW row, req'[r].last = row,
             req'[r].tm = q.tm, req'[r].ts = q.ts
      PROVE  PairSound(q, row) => PairSound(req[r], req[r].last)'
  BY <1>2, <1>4 DEF PairSound, RowSound, IsZero
<1>5. ASSUME UNCHANGED <<machine, sales, collected, status>>
      PROVE  status' # <<>> => RowSound(status[1])'
  BY <1>0, <1>2, <1>5 DEF RowSound
<1>6. CASE ReadStatus(r)
  <2>1. PICK i \in {0, 1} :
          /\ q.pc = "sent" /\ req'[r].pc = "store" /\ req'[r].id = i
          /\ req'[r].tm = q.tm /\ req'[r].ts = q.ts
          /\ \/ i = 0 /\ status = <<>>
             \/ i = 1 /\ status # <<>> /\ req'[r].last = status[1]
          /\ UNCHANGED <<machine, status, sales, collected>>
    BY <1>6, BookingSteps
  <2>2. ReportSound(req[r])'
    BY <1>0, <1>3, <2>1
  <2>3. req'[r].id = 1 => PairSound(req[r], req[r].last)'
    BY <1>0, <1>4, <2>1
  <2>. QED  BY <1>2, <1>5, <2>1, <2>2, <2>3, SoundFromOne
<1>7. CASE WriteStatus(r)
  <2>1. /\ q.pc = "store" /\ status' # <<>>
        /\ status'[1].money = q.tm /\ status'[1].liters = q.ts
        /\ UNCHANGED <<machine, sales, collected>>
    BY <1>7, BookingSteps
  <2>2. PICK pc \in Step :
          /\ MayGo(q, pc) /\ req'[r].pc = pc
          /\ pc # "idle" => /\ req'[r].tm = q.tm /\ req'[r].ts = q.ts
                            /\ req'[r].id = q.id /\ req'[r].last = q.last
    BY <1>7, BookingSteps
  <2>3. pc \notin {"sent", "store"} /\ "idle" \notin Booking
    BY <2>2 DEF MayGo, Booking
  <2>4. RowSound(status[1])'
    BY <1>0, <1>2, <2>1 DEF RowSound, ReportSound
  <2>5. pc \in Booking => ReportSound(req[r])'
    BY <1>0, <1>3, <2>1, <2>2, <2>3
  <2>6. pc \in Booking /\ req'[r].id = 1 => PairSound(req[r], req[r].last)'
    BY <1>0, <1>4, <2>1, <2>2, <2>3
  <2>. QED  BY <1>2, <2>1, <2>2, <2>3, <2>4, <2>5, <2>6, SoundFromOne
<1>8. CASE InsertEncash(r)
  <2>1. /\ q.pc = "encash" /\ req'[r].pc = "idle"
        /\ collected' = collected + q.last.money
        /\ UNCHANGED <<machine, status, sales>>
    BY <1>8, BookingSteps
  <2>2. /\ q.pc \in Booking /\ q.id = 1 /\ IsZero(q) /\ status # <<>>
        /\ status[1].money = 0 /\ status[1].liters = 0
    BY <1>0, <2>1 DEF Knows, Booking, IsZero
  <2>3. RowSound(status[1]) /\ collected + q.last.money <= TakenMoney
    BY <1>0, <2>2 DEF PairSound
  <2>4. NeverOverstated'
    BY <1>0, <2>1, <2>3 DEF NeverOverstated, TakenMoney, machine
  <2>5. collected' + 0 <= lifetime.money
    BY <1>1, <2>1, <2>3 DEF TakenMoney
  <2>6. RowSound(status[1])'
    BY <2>1, <2>2, <2>3, <2>5 DEF RowSound, TakenMoney, TakenLiters, machine
  <2>7. "idle" \notin {"sent", "store"} \cup Booking
    BY DEF Booking
  <2>. QED  BY <1>0, <2>1, <2>4, <2>6, <2>7, SoundFromOne DEF machine
<1>9. CASE InsertSaleRow(r)
  <2>1. /\ q.pc = "sale" /\ req'[r].pc \in {"idle", "salesBack"}
        /\ sales'.money = sales.money + (q.tm - q.last.money)
        /\ sales'.liters = sales.liters + (q.ts - q.last.liters)
        /\ UNCHANGED <<machine, status, collected>>
    BY <1>9, BookingSteps
  <2>2. /\ q.pc \in Booking /\ q.id = 1 /\ status # <<>>
        /\ status[1].money = q.tm /\ status[1].liters = q.ts
    BY <1>0, <2>1 DEF Knows, Booking
  <2>3. /\ sales.money + q.tm <= lifetime.money + q.last.money
        /\ sales.liters + q.ts <= lifetime.liters + q.last.liters
        /\ sales.money <= TakenMoney + q.last.money
        /\ sales.liters <= TakenLiters + q.last.liters
    BY <1>0, <2>2 DEF PairSound, RowSound
  <2>4. /\ sales'.money <= lifetime.money /\ sales'.liters <= lifetime.liters
        /\ sales'.money <= TakenMoney + q.tm /\ sales'.liters <= TakenLiters + q.ts
    BY <1>1, <2>1, <2>3 DEF TakenMoney, TakenLiters
  <2>5. NeverOverstated'
    BY <1>0, <2>1, <2>4 DEF NeverOverstated, machine
  <2>6. collected + q.tm <= lifetime.money
    BY <1>0, <2>2 DEF ReportSound
  <2>7. RowSound(status[1])'
    BY <2>1, <2>2, <2>4, <2>6 DEF RowSound, TakenMoney, TakenLiters, machine
  <2>8. req'[r].pc \notin {"sent", "store"} \cup Booking
    BY <2>1 DEF Booking
  <2>. QED  BY <1>0, <2>1, <2>5, <2>7, <2>8, SoundFromOne DEF machine
<1>10. CASE RestoreStatus(r)
  <2>1. /\ q.pc = "restore" /\ req'[r].pc = "idle" /\ status' # <<>>
        /\ status'[1].money = q.last.money /\ status'[1].liters = q.last.liters
        /\ UNCHANGED <<machine, sales, collected>>
    BY <1>10, BookingSteps
  <2>2. q.pc \in Booking /\ q.id = 1
    BY <1>0, <2>1 DEF Knows, Booking
  <2>3. RowSound(status[1])'
    BY <1>0, <1>2, <2>1, <2>2 DEF RowSound, PairSound
  <2>4. "idle" \notin {"sent", "store"} \cup Booking
    BY DEF Booking
  <2>. QED  BY <1>2, <2>1, <2>3, <2>4, SoundFromOne
<1>11. ASSUME NEW pc \in Step, Moves(r, pc), Allowed(q, pc) PROVE SoundInv'
  <2>1. /\ req'[r].pc = pc
        /\ pc # "idle" => /\ req'[r].tm = q.tm /\ req'[r].ts = q.ts
                          /\ req'[r].id = q.id /\ req'[r].last = q.last
        /\ UNCHANGED <<machine, status, sales, collected>>
    BY <1>11 DEF Moves
  <2>2. pc \notin {"sent", "store"} /\ (pc \in Booking => q.pc \in Booking /\ pc # "idle")
    BY <1>11 DEF Allowed, MayGo, Booking
  <2>3. pc \in Booking => ReportSound(req[r])'
    BY <1>0, <1>3, <2>1, <2>2
  <2>4. pc \in Booking /\ req'[r].id = 1 => PairSound(req[r], req[r].last)'
    BY <1>0, <1>4, <2>1, <2>2
  <2>. QED  BY <1>2, <1>5, <2>1, <2>2, <2>3, <2>4, SoundFromOne
<1>. QED  BY <1>6, <1>7, <1>8, <1>9, <1>10, <1>11, HandlerSteps

LEMMA SoundStep ==
  ASSUME Serial, ~DbMayFail, RowInv, RowInv', SoundInv, [Next]_vars
  PROVE  SoundInv'
<1>1. CASE UNCHANGED vars
  <2>1. UNCHANGED <<machine, req, status, sales, collected>>
    BY <1>1 DEF vars, books
  <2>. QED  BY <2>1 DEF SoundInv, NeverOverstated, RowSound, ReportSound, PairSound,
                        TakenMoney, TakenLiters, IsZero, machine
<1>2. CASE Crash
  <2>1. PICK r \in Request : TRUE
    BY HttpAssumption
  <2>2. /\ req'[r].pc \notin {"sent", "store"} \cup Booking
        /\ UNCHANGED <<machine, status, sales, collected>>
    BY <1>2 DEF Crash, Idle, Booking, books
  <2>3. status' # <<>> => RowSound(status[1])'
    BY <2>2 DEF SoundInv, RowSound, TakenMoney, TakenLiters, machine
  <2>4. (board.money <= lifetime.money /\ board.liters <= lifetime.liters)'
    BY <2>2 DEF SoundInv, machine
  <2>5. NeverOverstated'
    BY <2>2 DEF SoundInv, NeverOverstated, machine
  <2>. QED  BY <2>2, <2>3, <2>4, <2>5, SoundFromOne
<1>. QED  BY <1>1, <1>2, SoundMachine, SoundReport, SoundHandler DEF Next

LEMMA SoundInit == Init => SoundInv
<1>. SUFFICES ASSUME Init PROVE SoundInv
  OBVIOUS
<1>1. /\ sales.money = 0 /\ sales.liters = 0 /\ collected = 0
      /\ board.money = 0 /\ board.liters = 0
      /\ lifetime.money = 0 /\ lifetime.liters = 0
      /\ status # <<>> => status[1].money = 0 /\ status[1].liters = 0
  BY DEF Init, Fresh, Replaced
<1>2. \A r \in Request : req[r].pc \notin {"sent", "store"} \cup Booking
  BY DEF Init, Idle, Booking
<1>. QED  BY <1>1, <1>2
          DEF SoundInv, NeverOverstated, RowSound, TakenMoney, TakenLiters

(* The books never claim more than passed through the machine, even when   *)
(* the server dies between two of Send's transactions, for a board that    *)
(* waits for its answers and a database that answers.                      *)
THEOREM NeverOverstatedCorrect ==
  ASSUME Serial, ~DbMayFail
  PROVE  Spec => []NeverOverstated
<1>1. SoundInv => NeverOverstated
  BY DEF SoundInv
<1>. QED  BY RowInit, RowStep, SoundInit, SoundStep, <1>1, PTL DEF Spec

(* One collection is booked once, as the protocol (DataController.cs:39)   *)
(* means it, for a board that waits for its answers and a database that    *)
(* answers; zeros that are repeated before the first are answered are      *)
(* booked as often as they come.                                           *)
THEOREM EncashedCorrect ==
  ASSUME Serial, ~DbMayFail
  PROVE  Spec => []EncashedOnce
<1>1. RowInv /\ SoundInv => EncashedOnce
  BY Amounts DEF SoundInv, NeverOverstated, EncashedOnce
<1>. QED  BY RowInit, RowStep, SoundInit, SoundStep, <1>1, PTL DEF Spec

-----------------------------------------------------------------------------
(***************************************************************************)
(* The alerts Send raises and the counters it keeps, for a board that      *)
(* waits for each answer and a database that answers.                      *)
(***************************************************************************)
(* The stages of a handler whose report is already in the row.             *)
Handling == Step \ {"idle", "sent", "store"}

Sorted(log) == \A i, j \in DOMAIN log : i <= j => log[i].date <= log[j].date
Upto(log, date) == \A i \in DOMAIN log : log[i].date <= date
LastIs(log, code) == log # <<>> /\ log[Len(log)].code = code

LogInv(log) == Alternates(log) /\ Sorted(log)

(* What a request and the row know of each other while its handler runs.   *)
RowTold(q) ==
    /\ q.pc = "store" => /\ q.date <= clock
                         /\ status # <<>> => status[1].date <= q.date
    /\ q.pc \in Handling => status # <<>> /\ status[1] = NewRow(q)
    /\ q.pc = "restore" => [tm |-> q.tm, ts |-> q.ts] \in errors

(* The row is the newest date of the machine: no alert is newer.           *)
RowNewest ==
    /\ status = <<>> => linkAlerts = <<>> /\ tankAlerts = <<>> /\ saleAlerts = <<>>
    /\ status # <<>> => /\ status[1].date <= clock
                        /\ Upto(linkAlerts, status[1].date)
                        /\ Upto(tankAlerts, status[1].date)
                        /\ Upto(saleAlerts, status[1].date)

DateInv == RowNewest /\ \A r \in Request : RowTold(req[r])

(* Whoever is about to insert a link alert still sees the other one last.  *)
LinkAwaits(q) ==
    /\ q.pc \in {"readLink", "linkLost"} =>
         q.last.date + LinkGap < q.date /\ Upto(linkAlerts, q.last.date)
    /\ q.pc = "linkLost" => ~LastIs(linkAlerts, "link_lost")
    /\ q.pc = "linkBack" => LastIs(linkAlerts, "link_lost")

LinkInv == LogInv(linkAlerts) /\ \A r \in Request : LinkAwaits(req[r])

SaleAwaits(q) ==
    /\ q.pc = "sale" /\ q.resumed => LastIs(saleAlerts, "no_sales")
    /\ q.pc = "salesBack" => LastIs(saleAlerts, "no_sales")
    /\ q.pc = "noSales" => ~LastIs(saleAlerts, "no_sales")

SaleInv == LogInv(saleAlerts) /\ \A r \in Request : SaleAwaits(req[r])

(* The tank alerts tell the row's state until a report is written, then    *)
(* the state of the row that was read, then the report's own.              *)
Told(state) == state = 1 <=> LastIs(tankAlerts, "tank_empty")

BeforeTank == {"readLink", "linkLost", "linkBack", "tankEmpty", "tankFilling"}

TankAwaits(q) ==
    /\ q.pc \in {"idle", "sent", "store"} /\ status # <<>> => Told(status[1].status)
    /\ q.pc \in BeforeTank /\ q.id = 0 => tankAlerts = <<>>
    /\ q.pc \in BeforeTank /\ q.id # 0 => Told(q.last.status)
    /\ q.pc = "tankEmpty" => q.te = 1 /\ (q.id = 0 \/ q.last.status # 1)
    /\ q.pc = "tankFilling" => q.te = 0 /\ q.id # 0 /\ q.last.status # 0
    /\ q.pc \in Handling \ BeforeTank => Told(q.te)

TankInv == LogInv(tankAlerts) /\ \A r \in Request : TankAwaits(req[r])

-----------------------------------------------------------------------------
(***************************************************************************)
(* Alert logs.                                                             *)
(***************************************************************************)
LEMMA AlertType ==
  ASSUME NEW log \in Seq(Alert), NEW i \in DOMAIN log
  PROVE  log[i].code \in AlertCode /\ log[i].date \in Nat
<1>1. log[i] \in Alert
  BY ElementOfSeq, LenProperties
<1>. QED  BY <1>1 DEF Alert

(* In a log sorted by date the newest alert is the last one inserted.      *)
LEMMA NewestIsLast ==
  ASSUME NEW log \in Seq(Alert), Sorted(log), log # <<>>
  PROVE  LastAlert(log) = log[Len(log)].code
<1>. DEFINE Latest(i) == /\ IsNewest(log, i)
                         /\ \A j \in DOMAIN log : IsNewest(log, j) => j <= i
<1>1. Len(log) \in Nat \ {0} /\ DOMAIN log = 1 .. Len(log)
  BY EmptySeq
<1>2. Len(log) \in DOMAIN log /\ \A j \in DOMAIN log : j <= Len(log)
  BY <1>1
<1>3. IsNewest(log, Len(log))
  BY <1>2 DEF IsNewest, Sorted
<1>4. Latest(Len(log))
  BY <1>2, <1>3
<1>5. ASSUME NEW i \in DOMAIN log, Latest(i) PROVE i = Len(log)
  BY <1>1, <1>2, <1>3, <1>5
<1>6. (CHOOSE i \in DOMAIN log : Latest(i)) = Len(log)
  <2>. HIDE DEF Latest
  <2>. QED  BY <1>2, <1>4, <1>5
<1>. QED  BY <1>6 DEF LastAlert

LEMMA LastAlertTells ==
  ASSUME NEW log \in Seq(Alert), Sorted(log), NEW code \in AlertCode
  PROVE  /\ LastAlert(log) = code <=> LastIs(log, code)
         /\ LastAlert(log) = "none" <=> log = <<>>
<1>1. "none" \notin AlertCode
  BY DEF AlertCode
<1>2. CASE log = <<>>
  BY <1>1, <1>2 DEF LastAlert, LastIs
<1>3. CASE log # <<>>
  <2>1. Len(log) \in DOMAIN log
    BY <1>3, EmptySeq
  <2>2. log[Len(log)].code \in AlertCode
    BY <2>1, AlertType
  <2>. QED  BY <1>1, <1>3, <2>2, NewestIsLast DEF LastIs
<1>. QED  BY <1>2, <1>3

(* An alert dated after all others, of the other kind than the last one,   *)
(* keeps the log sorted and alternating.                                   *)
LEMMA InsertedAlert ==
  ASSUME NEW log \in Seq(Alert), LogInv(log), NEW code \in AlertCode, NEW date \in Nat,
         Upto(log, date), ~LastIs(log, code)
  PROVE  LET new == InsertAlert(log, code, date) IN
         /\ LogInv(new) /\ Upto(new, date)
         /\ \A other : LastIs(new, other) <=> other = code
<1>. DEFINE e == [code |-> code, date |-> date]
            new == Append(log, e)
<1>0. e \in Alert /\ e.code = code /\ e.date = date
  BY DEF Alert
<1>. HIDE DEF e
<1>1. /\ new \in Seq(Alert) /\ Len(new) = Len(log) + 1 /\ Len(log) \in Nat
      /\ \A i \in 1 .. Len(log) : new[i] = log[i]
      /\ new[Len(log) + 1] = e /\ DOMAIN new = 1 .. Len(log) + 1
      /\ DOMAIN log = 1 .. Len(log)
  BY <1>0, AppendProperties
<1>2. new # <<>>
  BY <1>1, EmptySeq
<1>3. \A i \in 1 .. Len(log) : log[i].date \in Nat /\ log[i].date <= date
  BY <1>1, AlertType DEF Upto
<1>. HIDE DEF new
<1>4. Upto(new, date)
  <2>1. ASSUME NEW i \in DOMAIN new PROVE new[i].date <= date
    BY <1>0, <1>1, <1>3
  <2>. QED  BY <2>1 DEF Upto
<1>5. Sorted(new)
  <2>1. ASSUME NEW i \in DOMAIN new, NEW j \in DOMAIN new, i <= j
        PROVE  new[i].date <= new[j].date
    <3>1. CASE j = Len(log) + 1
      BY <1>0, <1>1, <1>4, <3>1 DEF Upto
    <3>2. CASE j # Len(log) + 1
      <4>1. i \in 1 .. Len(log) /\ j \in 1 .. Len(log)
        BY <1>1, <2>1, <3>2
      <4>2. log[i].date <= log[j].date
        BY <1>1, <2>1, <4>1 DEF LogInv, Sorted
      <4>. QED  BY <1>1, <4>1, <4>2
    <3>. QED  BY <3>1, <3>2
  <2>. QED  BY <2>1 DEF Sorted
<1>6. Alternates(new)
  <2>1. ASSUME NEW i \in 1 .. Len(new) - 1
        PROVE  new[i].code # new[i + 1].code /\ new[i].date <= new[i + 1].date
    <3>1. i \in DOMAIN new /\ i + 1 \in DOMAIN new /\ i <= i + 1
      BY <1>1
    <3>2. new[i].date <= new[i + 1].date
      BY <1>5, <3>1 DEF Sorted
    <3>3. CASE i = Len(log)
      <4>1. log # <<>>
        BY <1>1, <3>3, EmptySeq
      <4>2. log[i].code # code
        BY <3>3, <4>1 DEF LastIs
      <4>. QED  BY <1>0, <1>1, <3>2, <3>3, <4>2
    <3>4. CASE i # Len(log)
      <4>1. i \in 1 .. Len(log) - 1 /\ i \in 1 .. Len(log) /\ i + 1 \in 1 .. Len(log)
        BY <1>1, <3>4
      <4>2. log[i].code # log[i + 1].code
        BY <4>1 DEF LogInv, Alternates
      <4>. QED  BY <1>1, <3>2, <4>1, <4>2
    <3>. QED  BY <3>3, <3>4
  <2>. QED  BY <2>1 DEF Alternates
<1>7. \A other : LastIs(new, other) <=> other = code
  BY <1>0, <1>1, <1>2 DEF LastIs
<1>. QED  BY <1>4, <1>5, <1>6, <1>7 DEF LogInv, InsertAlert, new, e

LEMMA UptoLater ==
  ASSUME NEW log \in Seq(Alert), NEW date \in Nat, NEW later \in Nat,
         Upto(log, date), date <= later
  PROVE  Upto(log, later)
<1>1. ASSUME NEW i \in DOMAIN log PROVE log[i].date <= later
  <2>1. log[i].date \in Nat /\ log[i].date <= date
    BY AlertType DEF Upto
  <2>. QED  BY <2>1
<1>. QED  BY <1>1 DEF Upto

LEMMA UptoInserted ==
  ASSUME NEW log \in Seq(Alert), NEW last \in Nat, Upto(log, last),
         NEW code \in AlertCode, NEW date \in Nat, date <= last
  PROVE  Upto(InsertAlert(log, code, date), last)
<1>. DEFINE e == [code |-> code, date |-> date]
<1>1. e \in Alert /\ e.date <= last
  BY DEF Alert
<1>2. ASSUME NEW i \in DOMAIN Append(log, e) PROVE Append(log, e)[i].date <= last
  <2>. HIDE DEF e
  <2>1. i \in 1 .. Len(log) \/ i = Len(log) + 1
    BY <1>1, AppendProperties
  <2>2. i \in 1 .. Len(log) => i \in DOMAIN log /\ Append(log, e)[i] = log[i]
    BY <1>1, AppendProperties
  <2>3. i = Len(log) + 1 => Append(log, e)[i] = e
    BY <1>1, AppendProperties
  <2>. QED  BY <1>1, <2>1, <2>2, <2>3 DEF Upto
<1>. QED  BY <1>2 DEF Upto, InsertAlert

(* A log of at most one alert.                                             *)
LEMMA ShortLog ==
  ASSUME NEW code \in AlertCode, NEW date \in Nat, NEW later \in Nat, date <= later
  PROVE  /\ LogInv(<<>>) /\ Upto(<<>>, later)
         /\ LogInv(InsertAlert(<<>>, code, date)) /\ Upto(InsertAlert(<<>>, code, date), later)
<1>1. Len(<<>>) = 0 /\ DOMAIN <<>> = {} /\ <<>> \in Seq(Alert)
  BY EmptySeq
<1>2. LogInv(<<>>) /\ Upto(<<>>, later) /\ Upto(<<>>, date) /\ ~LastIs(<<>>, code)
  BY <1>1 DEF LogInv, Alternates, Sorted, Upto, LastIs
<1>3. LogInv(InsertAlert(<<>>, code, date)) /\ Upto(InsertAlert(<<>>, code, date), date)
  BY <1>1, <1>2, InsertedAlert
<1>4. InsertAlert(<<>>, code, date) \in Seq(Alert)
  BY <1>1, InsertAlertType
<1>. QED  BY <1>2, <1>3, <1>4, UptoLater

-----------------------------------------------------------------------------
(***************************************************************************)
(* The steps of a handler, as far as the alerts depend on them.            *)
(***************************************************************************)
(* A request goes on: it keeps what it knows until it is done.             *)
Goes(r, pc) ==
    /\ req'[r].pc = pc
    /\ pc # "idle" =>
         /\ req'[r].tm = req[r].tm /\ req'[r].ts = req[r].ts /\ req'[r].te = req[r].te
         /\ req'[r].date = req[r].date /\ req'[r].id = req[r].id
         /\ req'[r].last = req[r].last /\ req'[r].resumed = req[r].resumed

LEMMA ContinueGoes ==
  ASSUME TypeInv, NEW r \in Request, NEW pc \in Step, Continue(r, pc)
  PROVE  Goes(r, pc)
<1>1. req[r] \in RequestState /\ req'[r] = Goto(req[r], pc)
  BY DEF TypeInv, TypeOK, Continue
<1>2. CASE pc = "idle"
  BY <1>1, <1>2 DEF Goto, Idle, Goes
<1>3. CASE pc # "idle"
  BY <1>1, <1>3 DEF Goto, RequestState, Goes
<1>. QED  BY <1>2, <1>3

(* What the stages after the row is written say of the report.             *)
Final == {"encash", "idle", "readLastSale", "readSaleAlert", "error"}

LEMMA StageTells ==
  ASSUME NEW q \in RequestState
  PROVE  /\ AfterTank(q) \in Final
         /\ AfterLink(q) \in Final \cup {"tankEmpty", "tankFilling"}
         /\ AfterLink(q) = "tankEmpty" => q.te = 1 /\ (q.id = 0 \/ q.last.status # 1)
         /\ AfterLink(q) = "tankFilling" => q.te = 0 /\ q.id # 0 /\ q.last.status # 0
         /\ AfterLink(q) \in Final => \/ q.te = 1 /\ q.id # 0 /\ q.last.status = 1
                                      \/ q.te = 0 /\ (q.id = 0 \/ q.last.status = 0)
         /\ AfterStore(q) = "readLink" =>
              q.id # 0 /\ q.last.date + LinkGap < q.date
         /\ AfterStore(q) # "readLink" => AfterStore(q) = AfterLink(q)
         /\ Final \cup {"tankEmpty", "tankFilling", "readLink"} \subseteq Step
<1>1. q.te \in {0, 1}
  BY DEF RequestState
<1>2. AfterTank(q) \in Final
  BY DEF AfterTank, Final
<1>3. /\ AfterLink(q) \in Final \cup {"tankEmpty", "tankFilling"}
      /\ AfterLink(q) = "tankEmpty" => q.te = 1 /\ (q.id = 0 \/ q.last.status # 1)
      /\ AfterLink(q) = "tankFilling" => q.te = 0 /\ q.id # 0 /\ q.last.status # 0
      /\ AfterLink(q) \in Final => \/ q.te = 1 /\ q.id # 0 /\ q.last.status = 1
                                   \/ q.te = 0 /\ (q.id = 0 \/ q.last.status = 0)
  BY <1>1, <1>2 DEF AfterLink, Final, IsFirst
<1>4. /\ AfterStore(q) = "readLink" => q.id # 0 /\ q.last.date + LinkGap < q.date
      /\ AfterStore(q) # "readLink" => AfterStore(q) = AfterLink(q)
  BY <1>3 DEF AfterStore, Final, IsFirst
<1>5. Final \cup {"tankEmpty", "tankFilling", "readLink"} \subseteq Step
  BY DEF Final, Step
<1>. QED  BY <1>2, <1>3, <1>4, <1>5

(* Reading and writing the row.                                            *)
LEMMA RowSteps ==
  ASSUME RowInv, ~DbMayFail, NEW r \in Request
  PROVE  /\ ReadStatus(r) =>
              /\ req[r].pc = "sent" /\ req'[r].pc = "store"
              /\ req'[r].te = req[r].te /\ req'[r].date = clock
              /\ UNCHANGED <<clock, status, errors, linkAlerts, tankAlerts, saleAlerts>>
         /\ WriteStatus(r) =>
              /\ req[r].pc = "store" /\ Goes(r, AfterStore(req[r]))
              /\ status' # <<>> /\ status'[1] = NewRow(req[r])
              /\ UNCHANGED <<clock, errors, linkAlerts, tankAlerts, saleAlerts>>
         /\ RestoreStatus(r) =>
              /\ req[r].pc = "restore" /\ Goes(r, "idle")
              /\ status' # <<>> /\ status'[1] = RestoredRow(req[r])
              /\ UNCHANGED <<clock, errors, linkAlerts, tankAlerts, saleAlerts>>
<1>. DEFINE q == req[r]
<1>0. /\ TypeInv /\ q \in RequestState /\ Knows(q) /\ Outcome = {TRUE}
      /\ status \in Seq(StatusRow) /\ Len(status) <= 1
      /\ req \in [Request -> RequestState]
  BY DEF RowInv, TypeInv, TypeOK, Outcome
<1>1. ASSUME ReadStatus(r)
      PROVE  /\ q.pc = "sent" /\ req'[r].pc = "store"
             /\ req'[r].te = q.te /\ req'[r].date = clock
             /\ UNCHANGED <<clock, status, errors, linkAlerts, tankAlerts, saleAlerts>>
  <2>1. PICK i : req' = [req EXCEPT ![r] = [@ EXCEPT !.pc = "store", !.date = clock,
                           !.id = i, !.last = IF i = 0 THEN NoRow ELSE status[i]]]
    BY <1>1 DEF ReadStatus
  <2>2. req'[r].pc = "store" /\ req'[r].te = q.te /\ req'[r].date = clock
    BY <1>0, <2>1 DEF RequestState
  <2>. QED  BY <1>1, <2>2 DEF ReadStatus, At, books, alerts
<1>2. ASSUME WriteStatus(r)
      PROVE  /\ q.pc = "store" /\ Goes(r, AfterStore(q))
             /\ status' # <<>> /\ status'[1] = NewRow(q)
             /\ UNCHANGED <<clock, errors, linkAlerts, tankAlerts, saleAlerts>>
  <2>1. /\ q.pc = "store" /\ Continue(r, AfterStore(q))
        /\ status' = WriteStatusRow(status, q.id, NewRow(q))
        /\ UNCHANGED <<clock, errors, linkAlerts, tankAlerts, saleAlerts>>
    BY <1>0, <1>2 DEF WriteStatus, At, alerts
  <2>2. (q.id = 0 /\ status = <<>>) \/ (q.id = 1 /\ status # <<>>)
    BY <1>0, <2>1 DEF Knows
  <2>3. NewRow(q) \in StatusRow
    BY <1>0 DEF NewRow, RequestState, StatusRow
  <2>4. status' # <<>> /\ status'[1] = NewRow(q)
    BY <1>0, <2>1, <2>2, <2>3, WriteOneRow
  <2>5. Goes(r, AfterStore(q))
    BY <1>0, <2>1, StageType, ContinueGoes
  <2>. QED  BY <2>1, <2>4, <2>5
<1>3. ASSUME RestoreStatus(r)
      PROVE  /\ q.pc = "restore" /\ Goes(r, "idle")
             /\ status' # <<>> /\ status'[1] = RestoredRow(q)
             /\ UNCHANGED <<clock, errors, linkAlerts, tankAlerts, saleAlerts>>
  <2>1. /\ q.pc = "restore" /\ Continue(r, "idle")
        /\ status' = WriteStatusRow(status, q.id, RestoredRow(q))
        /\ UNCHANGED <<clock, errors, linkAlerts, tankAlerts, saleAlerts>>
    BY <1>0, <1>3 DEF RestoreStatus, At, alerts
  <2>2. q.id = 1 /\ status # <<>> /\ RestoredRow(q) \in StatusRow
    BY <1>0, <2>1 DEF Knows, Booking, RestoredRow, RequestState, StatusRow
  <2>3. status' # <<>> /\ status'[1] = RestoredRow(q)
    BY <1>0, <2>1, <2>2, WriteOneRow
  <2>4. Goes(r, "idle")
    BY <1>0, <2>1, ContinueGoes DEF Step
  <2>. QED  BY <2>1, <2>3, <2>4
<1>. QED  BY <1>1, <1>2, <1>3

(* The steps that insert an alert: each adds one to a log of its family.   *)
LEMMA InsertSteps ==
  ASSUME TypeInv, ~DbMayFail, NEW r \in Request
  PROVE  /\ InsertLinkLost(r) =>
              /\ req[r].pc = "linkLost" /\ Goes(r, "linkBack")
              /\ linkAlerts' = InsertAlert(linkAlerts, "link_lost",
                                           req[r].last.date + LinkAlertDelay)
              /\ UNCHANGED <<clock, status, errors, tankAlerts, saleAlerts>>
         /\ InsertLinkBack(r) =>
              /\ req[r].pc = "linkBack" /\ Goes(r, AfterLink(req[r]))
              /\ linkAlerts' = InsertAlert(linkAlerts, "link_back", req[r].date)
              /\ UNCHANGED <<clock, status, errors, tankAlerts, saleAlerts>>
         /\ InsertTankEmpty(r) =>
              /\ req[r].pc = "tankEmpty" /\ Goes(r, "mailTank")
              /\ tankAlerts' = InsertAlert(tankAlerts, "tank_empty", req[r].date)
              /\ UNCHANGED <<clock, status, errors, linkAlerts, saleAlerts>>
         /\ InsertTankFilling(r) =>
              /\ req[r].pc = "tankFilling" /\ Goes(r, AfterTank(req[r]))
              /\ tankAlerts' = InsertAlert(tankAlerts, "tank_filling", req[r].date)
              /\ UNCHANGED <<clock, status, errors, linkAlerts, saleAlerts>>
         /\ InsertSalesBack(r) =>
              /\ req[r].pc = "salesBack" /\ Goes(r, "idle")
              /\ saleAlerts' = InsertAlert(saleAlerts, "sales_back", req[r].date)
              /\ UNCHANGED <<clock, status, errors, linkAlerts, tankAlerts>>
         /\ InsertNoSales(r) =>
              /\ req[r].pc = "noSales" /\ Goes(r, "mailSales")
              /\ saleAlerts' = InsertAlert(saleAlerts, "no_sales", req[r].date)
              /\ UNCHANGED <<clock, status, errors, linkAlerts, tankAlerts>>
<1>1. req[r] \in RequestState /\ Outcome = {TRUE}
  BY DEF TypeInv, TypeOK, Outcome
<1>2. AfterLink(req[r]) \in Step /\ AfterTank(req[r]) \in Step
  BY <1>1, StageType
<1>3. {"linkBack", "mailTank", "idle", "mailSales"} \subseteq Step
  BY DEF Step
<1>4. ASSUME InsertLinkLost(r) \/ InsertLinkBack(r)
      PROVE  UNCHANGED <<clock, status, errors, tankAlerts, saleAlerts>>
  BY <1>4 DEF InsertLinkLost, InsertLinkBack, books
<1>5. ASSUME InsertTankEmpty(r) \/ InsertTankFilling(r)
      PROVE  UNCHANGED <<clock, status, errors, linkAlerts, saleAlerts>>
  BY <1>5 DEF InsertTankEmpty, InsertTankFilling, books
<1>6. ASSUME InsertSalesBack(r) \/ InsertNoSales(r)
      PROVE  UNCHANGED <<clock, status, errors, linkAlerts, tankAlerts>>
  BY <1>6 DEF InsertSalesBack, InsertNoSales, books
<1>. QED
  BY <1>1, <1>2, <1>3, <1>4, <1>5, <1>6, ContinueGoes
     DEF InsertLinkLost, InsertLinkBack, InsertTankEmpty, InsertTankFilling,
         InsertSalesBack, InsertNoSales, At

(* The steps that read an alert and decide by it.                          *)
LEMMA ReadSteps ==
  ASSUME TypeInv, ~DbMayFail, NEW r \in Request
  PROVE  /\ ReadLinkAlert(r) =>
              /\ req[r].pc = "readLink"
              /\ Goes(r, IF LastAlert(linkAlerts) = "link_lost" THEN "linkBack"
                         ELSE "linkLost")
         /\ ReadSaleAlert(r) =>
              /\ req[r].pc = "readSaleAlert" /\ req'[r].pc = "sale"
              /\ NewRow(req[r])' = NewRow(req[r]) /\ req'[r].te = req[r].te
              /\ req'[r].resumed = (LastAlert(saleAlerts) = "no_sales")
         /\ CheckSaleAlert(r) =>
              /\ req[r].pc = "checkAlert"
              /\ Goes(r, IF LastAlert(saleAlerts) \notin {"none", "no_sales"}
                         THEN "noSales" ELSE "idle")
         /\ ReadLinkAlert(r) \/ ReadSaleAlert(r) \/ CheckSaleAlert(r) =>
              UNCHANGED <<clock, status, errors, linkAlerts, tankAlerts, saleAlerts>>
<1>1. req[r] \in RequestState /\ req \in [Request -> RequestState]
  BY DEF TypeInv, TypeOK
<1>2. \A found, null : QueryResult(found, null) = found
  BY DEF QueryResult
<1>3. {"linkBack", "linkLost", "noSales", "idle"} \subseteq Step
  BY DEF Step
<1>4. ASSUME ReadLinkAlert(r)
      PROVE  /\ req[r].pc = "readLink"
             /\ Goes(r, IF LastAlert(linkAlerts) = "link_lost" THEN "linkBack"
                        ELSE "linkLost")
  BY <1>2, <1>3, <1>4, ContinueGoes DEF ReadLinkAlert, At
<1>5. ASSUME ReadSaleAlert(r)
      PROVE  /\ req[r].pc = "readSaleAlert" /\ req'[r].pc = "sale"
             /\ NewRow(req[r])' = NewRow(req[r]) /\ req'[r].te = req[r].te
             /\ req'[r].resumed = (LastAlert(saleAlerts) = "no_sales")
  <2>1. PICK code \in QueryResult({LastAlert(saleAlerts)}, "none") :
          req' = [req EXCEPT ![r] = [@ EXCEPT !.pc = "sale", !.resumed = (code = "no_sales")]]
    BY <1>5, Zenon DEF ReadSaleAlert
  <2>2. code = LastAlert(saleAlerts)
    BY <1>2
  <2>3. PICK resumed \in BOOLEAN : resumed = (code = "no_sales")
    OBVIOUS
  <2>4. req' = [req EXCEPT ![r] = [@ EXCEPT !.pc = "sale", !.resumed = resumed]]
    BY <2>1, <2>3, Zenon
  <2>5. /\ req'[r].pc = "sale" /\ req'[r].te = req[r].te
        /\ NewRow(req[r])' = NewRow(req[r]) /\ req'[r].resumed = resumed
    BY <1>1, <2>4 DEF RequestState, NewRow
  <2>6. req[r].pc = "readSaleAlert"
    BY <1>5 DEF ReadSaleAlert, At
  <2>. QED  BY <2>2, <2>3, <2>5, <2>6, Zenon
<1>6. ASSUME CheckSaleAlert(r)
      PROVE  /\ req[r].pc = "checkAlert"
             /\ Goes(r, IF LastAlert(saleAlerts) \notin {"none", "no_sales"}
                        THEN "noSales" ELSE "idle")
  BY <1>2, <1>3, <1>6, ContinueGoes DEF CheckSaleAlert, At
<1>7. ReadLinkAlert(r) \/ ReadSaleAlert(r) \/ CheckSaleAlert(r) =>
              UNCHANGED <<clock, status, errors, linkAlerts, tankAlerts, saleAlerts>>
  BY DEF ReadLinkAlert, ReadSaleAlert, CheckSaleAlert, alerts, books
<1>. QED  BY <1>4, <1>5, <1>6, <1>7

(* Every other step leaves the row and the alerts alone.                   *)
LEMMA OtherSteps ==
  ASSUME TypeInv, ~DbMayFail, NEW r \in Request
  PROVE  /\ Drop(r) => req[r].pc = "sent" /\ Goes(r, "idle") /\ UNCHANGED errors
         /\ MailTankEmpty(r) =>
              /\ req[r].pc = "mailTank" /\ Goes(r, AfterTank(req[r]))
              /\ UNCHANGED errors
         /\ InsertEncash(r) => req[r].pc = "encash" /\ Goes(r, "idle") /\ UNCHANGED errors
         /\ InsertSaleRow(r) =>
              /\ req[r].pc = "sale" /\ Goes(r, IF req[r].resumed THEN "salesBack" ELSE "idle")
              /\ UNCHANGED errors
         /\ InsertError(r) =>
              /\ req[r].pc = "error" /\ Goes(r, "restore")
              /\ errors' = errors \cup {[tm |-> req[r].tm, ts |-> req[r].ts]}
         /\ ReadLastSale(r) =>
              /\ req[r].pc = "readLastSale" /\ (Goes(r, "checkAlert") \/ Goes(r, "idle"))
              /\ UNCHANGED errors
         /\ MailNoSales(r) => req[r].pc = "mailSales" /\ Goes(r, "idle") /\ UNCHANGED errors
         /\ \/ Drop(r) \/ MailTankEmpty(r) \/ InsertEncash(r) \/ InsertSaleRow(r)
            \/ InsertError(r) \/ ReadLastSale(r) \/ MailNoSales(r)
            => UNCHANGED <<clock, status, linkAlerts, tankAlerts, saleAlerts>>
<1>1. req[r] \in RequestState /\ Outcome = {TRUE}
  BY DEF TypeInv, TypeOK, Outcome
<1>2. AfterTank(req[r]) \in Step /\ {"idle", "salesBack", "restore", "checkAlert"} \subseteq Step
  BY <1>1, StageType DEF Step
<1>3. Drop(r) \/ MailTankEmpty(r) \/ InsertEncash(r) \/ InsertSaleRow(r)
            \/ InsertError(r) \/ ReadLastSale(r) \/ MailNoSales(r)
            => UNCHANGED <<clock, status, linkAlerts, tankAlerts, saleAlerts>>
  BY DEF Drop, MailTankEmpty, InsertEncash, InsertSaleRow, InsertError, ReadLastSale,
         MailNoSales, alerts, books
<1>4. Drop(r) \/ MailTankEmpty(r) \/ InsertEncash(r) \/ InsertSaleRow(r)
            \/ ReadLastSale(r) \/ MailNoSales(r) => UNCHANGED errors
  BY DEF Drop, MailTankEmpty, InsertEncash, InsertSaleRow, ReadLastSale, MailNoSales, books
<1>5. ASSUME InsertSaleRow(r)
      PROVE  req[r].pc = "sale" /\ Goes(r, IF req[r].resumed THEN "salesBack" ELSE "idle")
  BY <1>2, <1>5, ContinueGoes DEF InsertSaleRow, At
<1>6. ASSUME ReadLastSale(r)
      PROVE  req[r].pc = "readLastSale" /\ (Goes(r, "checkAlert") \/ Goes(r, "idle"))
  BY <1>2, <1>6, ContinueGoes DEF ReadLastSale, At
<1>. QED
  BY <1>1, <1>2, <1>3, <1>4, <1>5, <1>6, ContinueGoes
     DEF Drop, MailTankEmpty, InsertEncash, InsertError, MailNoSales, At

-----------------------------------------------------------------------------
(***************************************************************************)
(* The dates.                                                              *)
(***************************************************************************)
(* The values the steps below compare, free of the records they come from. *)
LEMMA AlertTypes ==
  ASSUME RowInv
  PROVE  /\ linkAlerts \in Seq(Alert) /\ tankAlerts \in Seq(Alert)
         /\ saleAlerts \in Seq(Alert) /\ clock \in Nat
         /\ status # <<>> => status[1].date \in Nat /\ status[1].status \in {0, 1}
         /\ \A r \in Request :
              /\ req[r] \in RequestState
              /\ req[r].date \in Nat /\ req[r].te \in {0, 1} /\ req[r].id \in Nat
              /\ req[r].last.date \in Nat /\ req[r].last.status \in {0, 1}
<1>1. TypeOK
  BY DEF RowInv, TypeInv
<1>2. ASSUME status # <<>> PROVE status[1].date \in Nat /\ status[1].status \in {0, 1}
  <2>1. status[1] \in StatusRow
    BY <1>1, <1>2, OneRow DEF RowInv, TypeOK
  <2>. QED  BY <2>1 DEF StatusRow
<1>3. ASSUME NEW r \in Request
      PROVE  /\ req[r] \in RequestState
             /\ req[r].date \in Nat /\ req[r].te \in {0, 1} /\ req[r].id \in Nat
             /\ req[r].last.date \in Nat /\ req[r].last.status \in {0, 1}
  BY <1>1 DEF TypeOK, RequestState, StatusRow
<1>. QED  BY <1>1, <1>2, <1>3 DEF TypeOK

(* A handler that goes on with the row and the clock as they are.          *)
LEMMA DateGoes ==
  ASSUME NEW r \in Request, RowTold(req[r]), NEW pc \in Step \ {"store"}, Goes(r, pc),
         pc \in Handling => req[r].pc \in Handling,
         pc = "restore" => [tm |-> req[r].tm, ts |-> req[r].ts] \in errors',
         UNCHANGED <<clock, status>>
  PROVE  RowTold(req[r])'
  BY DEF RowTold, Goes, Handling, NewRow

(* A lost link is dated before the report that finds it.                   *)
LEMMA LossBefore ==
  ASSUME NEW last \in Nat, NEW date \in Nat, last + LinkGap < date
  PROVE  last + LinkAlertDelay \in Nat /\ last + LinkAlertDelay <= date
  BY GapAssumption

LEMMA DateHandler ==
  ASSUME Serial, ~DbMayFail, RowInv, RowInv', DateInv, LinkInv,
         NEW r \in Request, Drop(r) \/ Handle(r)
  PROVE  DateInv'
<1>. DEFINE q == req[r]
<1>0. /\ RowTold(q) /\ RowNewest /\ LinkAwaits(q) /\ TypeInv /\ q \in RequestState
      /\ clock \in Nat /\ q.date \in Nat /\ q.last.date \in Nat
      /\ linkAlerts \in Seq(Alert) /\ tankAlerts \in Seq(Alert)
      /\ saleAlerts \in Seq(Alert)
      /\ status # <<>> => status[1].date \in Nat
  BY AlertTypes DEF DateInv, LinkInv, RowInv
<1>1. ASSUME RowNewest', RowTold(req[r])' PROVE DateInv'
  BY <1>1 DEF DateInv, Serial
<1>2. ASSUME UNCHANGED <<clock, status, linkAlerts, tankAlerts, saleAlerts>> PROVE RowNewest'
  BY <1>0, <1>2 DEF RowNewest
<1>3. CASE ReadStatus(r)
  <2>1. /\ req'[r].pc = "store" /\ req'[r].date = clock
        /\ UNCHANGED <<clock, status, linkAlerts, tankAlerts, saleAlerts>>
    BY <1>3, RowSteps
  <2>2. RowTold(req[r])'
    BY <1>0, <2>1 DEF RowTold, RowNewest, Handling
  <2>. QED  BY <1>1, <1>2, <2>1, <2>2
<1>4. CASE WriteStatus(r)
  <2>1. /\ q.pc = "store" /\ Goes(r, AfterStore(q))
        /\ status' # <<>> /\ status'[1] = NewRow(q)
        /\ UNCHANGED <<clock, errors, linkAlerts, tankAlerts, saleAlerts>>
    BY <1>4, RowSteps
  <2>2. status'[1].date = q.date /\ q.date <= clock
    BY <1>0, <2>1 DEF NewRow, RowTold
  <2>3. ASSUME NEW log \in {linkAlerts, tankAlerts, saleAlerts} PROVE Upto(log, q.date)
    <3>1. CASE status = <<>>
      BY <1>0, <3>1, EmptySeq DEF RowNewest, Upto
    <3>2. CASE status # <<>>
      BY <1>0, <2>1, <3>2, UptoLater DEF RowNewest, RowTold
    <3>. QED  BY <3>1, <3>2
  <2>4. RowNewest'
    BY <2>1, <2>2, <2>3 DEF RowNewest
  <2>5. AfterStore(q) \notin {"store", "restore"}
    BY <1>0, StageTells DEF Final
  <2>6. RowTold(req[r])'
    BY <2>1, <2>5 DEF RowTold, Goes, Handling, NewRow
  <2>. QED  BY <1>1, <2>4, <2>6
<1>5. CASE RestoreStatus(r)
  <2>1. /\ q.pc = "restore" /\ Goes(r, "idle")
        /\ status' # <<>> /\ status'[1] = RestoredRow(q)
        /\ UNCHANGED <<clock, errors, linkAlerts, tankAlerts, saleAlerts>>
    BY <1>5, RowSteps
  <2>2. status'[1].date = q.date
    BY <1>0, <2>1 DEF RestoredRow, RequestState, StatusRow
  <2>3. status # <<>> /\ status[1].date = q.date
    BY <1>0, <2>1 DEF RowTold, Handling, Step, NewRow
  <2>4. RowNewest'
    BY <1>0, <2>1, <2>2, <2>3 DEF RowNewest
  <2>5. RowTold(req[r])'
    BY <2>1 DEF RowTold, Goes, Handling
  <2>. QED  BY <1>1, <2>4, <2>5
(* An alert is inserted with the date of the row, or an earlier one.       *)
<1>6. ASSUME NEW pc \in Step \ {"store", "restore"}, Goes(r, pc), q.pc \in Handling,
             NEW code \in AlertCode, NEW date \in Nat, date <= q.date,
             linkAlerts' \in {linkAlerts, InsertAlert(linkAlerts, code, date)},
             tankAlerts' \in {tankAlerts, InsertAlert(tankAlerts, code, date)},
             saleAlerts' \in {saleAlerts, InsertAlert(saleAlerts, code, date)},
             UNCHANGED <<clock, status, errors>>
      PROVE  DateInv'
  <2>1. status # <<>> /\ status[1].date = q.date
    BY <1>0, <1>6 DEF RowTold, NewRow
  <2>2. /\ Upto(linkAlerts, q.date) /\ Upto(tankAlerts, q.date) /\ Upto(saleAlerts, q.date)
        /\ q.date <= clock
    BY <1>0, <2>1 DEF RowNewest
  <2>3. /\ Upto(linkAlerts', q.date) /\ Upto(tankAlerts', q.date)
        /\ Upto(saleAlerts', q.date)
    BY <1>0, <1>6, <2>2, UptoInserted
  <2>4. RowNewest'
    BY <1>6, <2>1, <2>2, <2>3 DEF RowNewest
  <2>5. RowTold(req[r])'
    BY <1>0, <1>6, DateGoes
  <2>. QED  BY <1>1, <2>4, <2>5
<1>7. CASE InsertLinkLost(r)
  <2>1. q.pc = "linkLost" /\ q.last.date + LinkGap < q.date
    BY <1>0, <1>7 DEF InsertLinkLost, At, LinkAwaits
  <2>2. q.last.date + LinkAlertDelay \in Nat /\ q.last.date + LinkAlertDelay <= q.date
    <3>1. q.last.date \in Nat /\ q.date \in Nat
      BY <1>0
    <3>. QED  BY <2>1, <3>1, LossBefore
  <2>3. "linkBack" \in Step \ {"store", "restore"} /\ q.pc \in Handling
        /\ "link_lost" \in AlertCode
    BY <2>1 DEF Step, Handling, AlertCode
  <2>. QED  BY <1>0, <1>6, <1>7, <2>2, <2>3, InsertSteps
<1>8. CASE \/ InsertLinkBack(r) \/ InsertTankEmpty(r) \/ InsertTankFilling(r)
           \/ InsertSalesBack(r) \/ InsertNoSales(r)
  <2>1. /\ AfterLink(q) \in Step \ {"store", "restore"}
        /\ AfterTank(q) \in Step \ {"store", "restore"}
        /\ {"mailTank", "idle", "mailSales"} \subseteq Step \ {"store", "restore"}
    BY <1>0, StageTells DEF Final, Step
  <2>2. {"linkBack", "tankEmpty", "tankFilling", "salesBack", "noSales"} \subseteq Handling
        /\ AlertCode = {"link_lost", "link_back", "tank_empty", "tank_filling",
                        "no_sales", "sales_back"}
        /\ q.date <= q.date
    BY <1>0 DEF Step, Handling, AlertCode
  <2>. QED  BY <1>0, <1>6, <1>8, <2>1, <2>2, InsertSteps
<1>9. CASE \/ ReadLinkAlert(r) \/ CheckSaleAlert(r) \/ Drop(r) \/ MailTankEmpty(r)
           \/ InsertEncash(r) \/ InsertSaleRow(r) \/ ReadLastSale(r) \/ MailNoSales(r)
  <2>1. UNCHANGED <<clock, status, errors, linkAlerts, tankAlerts, saleAlerts>>
    BY <1>0, <1>9, ReadSteps, OtherSteps
  <2>2. \E pc \in Step \ {"store", "restore"} :
          Goes(r, pc) /\ (pc \in Handling => q.pc \in Handling)
    <3>1. /\ AfterTank(q) \in Step \ {"store", "restore"}
          /\ {"linkBack", "linkLost", "noSales", "idle", "salesBack", "checkAlert"}
               \subseteq Step \ {"store", "restore"}
          /\ {"readLink", "checkAlert", "mailTank", "encash", "sale", "readLastSale",
              "mailSales"} \subseteq Handling
          /\ "idle" \notin Handling
      BY <1>0, StageTells DEF Final, Step, Handling
    <3>. QED  BY <1>0, <1>9, <3>1, ReadSteps, OtherSteps
  <2>. QED  BY <1>0, <1>1, <1>2, <2>1, <2>2, DateGoes
<1>10. CASE ReadSaleAlert(r)
  <2>1. /\ q.pc = "readSaleAlert" /\ req'[r].pc = "sale"
        /\ NewRow(req[r])' = NewRow(q)
        /\ UNCHANGED <<clock, status, errors, linkAlerts, tankAlerts, saleAlerts>>
    BY <1>0, <1>10, ReadSteps
  <2>2. RowTold(req[r])'
    BY <1>0, <2>1 DEF RowTold, Handling, Step
  <2>. QED  BY <1>1, <1>2, <2>1, <2>2
<1>11. CASE InsertError(r)
  <2>1. /\ q.pc = "error" /\ Goes(r, "restore")
        /\ errors' = errors \cup {[tm |-> q.tm, ts |-> q.ts]}
        /\ UNCHANGED <<clock, status, linkAlerts, tankAlerts, saleAlerts>>
    BY <1>0, <1>11, OtherSteps
  <2>2. RowTold(req[r])'
    BY <1>0, <2>1, DateGoes DEF Handling, Step
  <2>. QED  BY <1>1, <1>2, <2>1, <2>2
<1>. QED
  BY <1>3, <1>4, <1>5, <1>7, <1>8, <1>9, <1>10, <1>11 DEF Handle
-----------------------------------------------------------------------------
(***************************************************************************)
(* The alerts of the link and of the sales.                                *)
(***************************************************************************)
LEMMA LinkHandler ==
  ASSUME Serial, ~DbMayFail, RowInv, DateInv, LinkInv,
         NEW r \in Request, Drop(r) \/ Handle(r)
  PROVE  LinkInv'
<1>. DEFINE q == req[r]
<1>0. /\ RowNewest /\ RowTold(q) /\ LinkAwaits(q) /\ LogInv(linkAlerts)
      /\ TypeInv /\ Knows(q) /\ q \in RequestState
      /\ q.date \in Nat /\ q.last.date \in Nat /\ linkAlerts \in Seq(Alert)
  BY AlertTypes DEF DateInv, LinkInv, RowInv
<1>1. ASSUME LogInv(linkAlerts)', LinkAwaits(req[r])' PROVE LinkInv'
  BY <1>1 DEF LinkInv, Serial
<1>2. ASSUME req'[r].pc \notin {"readLink", "linkLost", "linkBack"},
             LogInv(linkAlerts)'
      PROVE  LinkInv'
  BY <1>1, <1>2 DEF LinkAwaits
<1>3. CASE WriteStatus(r)
  <2>1. /\ q.pc = "store" /\ Goes(r, AfterStore(q)) /\ UNCHANGED linkAlerts
    BY <1>3, RowSteps
  <2>2. CASE AfterStore(q) = "readLink"
    <3>1. q.id # 0 /\ q.last.date + LinkGap < q.date
      BY <1>0, <2>2, StageTells
    <3>2. Upto(linkAlerts, q.last.date)
      BY <1>0, <2>1, <3>1 DEF Knows, RowNewest
    <3>3. LinkAwaits(req[r])'
      BY <2>1, <2>2, <3>1, <3>2 DEF LinkAwaits, Goes
    <3>4. LogInv(linkAlerts)'
      BY <1>0, <2>1
    <3>. QED  BY <1>1, <3>3, <3>4
  <2>3. CASE AfterStore(q) # "readLink"
    <3>1. AfterStore(q) \notin {"readLink", "linkLost", "linkBack"}
      BY <1>0, <2>3, StageTells DEF Final
    <3>. QED  BY <1>0, <1>2, <2>1, <3>1 DEF Goes
  <2>. QED  BY <2>2, <2>3
<1>4. CASE ReadLinkAlert(r)
  <2>1. /\ q.pc = "readLink" /\ UNCHANGED linkAlerts
        /\ Goes(r, IF LastAlert(linkAlerts) = "link_lost" THEN "linkBack" ELSE "linkLost")
    BY <1>0, <1>4, ReadSteps
  <2>2. LastAlert(linkAlerts) = "link_lost" <=> LastIs(linkAlerts, "link_lost")
    BY <1>0, LastAlertTells DEF LogInv, AlertCode
  <2>3. LinkAwaits(req[r])'
    BY <1>0, <2>1, <2>2 DEF LinkAwaits, Goes
  <2>. QED  BY <1>0, <1>1, <2>1, <2>3
<1>5. CASE InsertLinkLost(r)
  <2>1. /\ q.pc = "linkLost" /\ Goes(r, "linkBack")
        /\ linkAlerts' = InsertAlert(linkAlerts, "link_lost", q.last.date + LinkAlertDelay)
    BY <1>0, <1>5, InsertSteps
  <2>2. /\ Upto(linkAlerts, q.last.date) /\ ~LastIs(linkAlerts, "link_lost")
        /\ q.last.date + LinkAlertDelay \in Nat
        /\ q.last.date <= q.last.date + LinkAlertDelay
    BY <1>0, <2>1, GapAssumption DEF LinkAwaits
  <2>3. Upto(linkAlerts, q.last.date + LinkAlertDelay) /\ "link_lost" \in AlertCode
    BY <1>0, <2>2, UptoLater DEF AlertCode
  <2>4. LogInv(linkAlerts') /\ LastIs(linkAlerts', "link_lost")
    BY <1>0, <2>1, <2>2, <2>3, InsertedAlert
  <2>5. LinkAwaits(req[r])'
    BY <2>1, <2>4 DEF LinkAwaits, Goes
  <2>. QED  BY <1>1, <2>4, <2>5
<1>6. CASE InsertLinkBack(r)
  <2>1. /\ q.pc = "linkBack" /\ Goes(r, AfterLink(q))
        /\ linkAlerts' = InsertAlert(linkAlerts, "link_back", q.date)
    BY <1>0, <1>6, InsertSteps
  <2>2. Upto(linkAlerts, q.date)
    BY <1>0, <2>1 DEF RowTold, RowNewest, Handling, Step, NewRow
  <2>3. ~LastIs(linkAlerts, "link_back") /\ "link_back" \in AlertCode
    BY <1>0, <2>1 DEF LinkAwaits, LastIs, AlertCode
  <2>4. LogInv(linkAlerts')
    BY <1>0, <2>1, <2>2, <2>3, InsertedAlert
  <2>5. AfterLink(q) \notin {"readLink", "linkLost", "linkBack"}
    BY <1>0, StageTells DEF Final
  <2>. QED  BY <1>2, <2>1, <2>4, <2>5 DEF Goes
<1>7. CASE \/ ReadStatus(r) \/ RestoreStatus(r) \/ InsertTankEmpty(r)
           \/ InsertTankFilling(r) \/ InsertSalesBack(r) \/ InsertNoSales(r)
           \/ ReadSaleAlert(r) \/ CheckSaleAlert(r) \/ Drop(r) \/ MailTankEmpty(r)
           \/ InsertEncash(r) \/ InsertSaleRow(r) \/ InsertError(r) \/ ReadLastSale(r)
           \/ MailNoSales(r)
  <2>1. UNCHANGED linkAlerts
    BY <1>0, <1>7, RowSteps, InsertSteps, ReadSteps, OtherSteps
  <2>2. AfterTank(q) \notin {"readLink", "linkLost", "linkBack"}
    BY <1>0, StageTells DEF Final
  <2>3. req'[r].pc \notin {"readLink", "linkLost", "linkBack"}
    BY <1>0, <1>7, <2>2, RowSteps, InsertSteps, ReadSteps, OtherSteps DEF Goes
  <2>. QED  BY <1>0, <1>2, <2>1, <2>3
<1>. QED
  BY <1>3, <1>4, <1>5, <1>6, <1>7 DEF Handle

LEMMA SaleHandler ==
  ASSUME Serial, ~DbMayFail, RowInv, DateInv, SaleInv,
         NEW r \in Request, Drop(r) \/ Handle(r)
  PROVE  SaleInv'
<1>. DEFINE q == req[r]
<1>0. /\ RowNewest /\ RowTold(q) /\ SaleAwaits(q) /\ LogInv(saleAlerts)
      /\ TypeInv /\ q \in RequestState /\ q.date \in Nat /\ saleAlerts \in Seq(Alert)
  BY AlertTypes DEF DateInv, SaleInv, RowInv
<1>1. ASSUME LogInv(saleAlerts)', SaleAwaits(req[r])' PROVE SaleInv'
  BY <1>1 DEF SaleInv, Serial
<1>2. ASSUME req'[r].pc \notin {"sale", "salesBack", "noSales"}, LogInv(saleAlerts)'
      PROVE  SaleInv'
  BY <1>1, <1>2 DEF SaleAwaits
<1>3. {"no_sales", "sales_back"} \subseteq AlertCode
  BY DEF AlertCode
<1>4. LastAlert(saleAlerts) = "no_sales" <=> LastIs(saleAlerts, "no_sales")
  BY <1>0, <1>3, LastAlertTells DEF LogInv
<1>5. q.pc \in Handling => Upto(saleAlerts, q.date)
  BY <1>0 DEF RowTold, RowNewest, NewRow
<1>6. CASE ReadSaleAlert(r)
  <2>1. /\ req'[r].pc = "sale" /\ UNCHANGED saleAlerts
        /\ req'[r].resumed = (LastAlert(saleAlerts) = "no_sales")
    BY <1>0, <1>6, ReadSteps
  <2>2. req'[r].resumed => LastIs(saleAlerts', "no_sales")
    BY <1>4, <2>1
  <2>3. SaleAwaits(req[r])'
    BY <2>1, <2>2 DEF SaleAwaits
  <2>. QED  BY <1>0, <1>1, <2>1, <2>3
<1>7. CASE InsertSaleRow(r)
  <2>1. /\ q.pc = "sale" /\ Goes(r, IF q.resumed THEN "salesBack" ELSE "idle")
        /\ UNCHANGED saleAlerts
    BY <1>0, <1>7, OtherSteps
  <2>2. SaleAwaits(req[r])'
    BY <1>0, <2>1 DEF SaleAwaits, Goes
  <2>. QED  BY <1>0, <1>1, <2>1, <2>2
<1>8. CASE CheckSaleAlert(r)
  <2>1. /\ UNCHANGED saleAlerts
        /\ Goes(r, IF LastAlert(saleAlerts) \notin {"none", "no_sales"} THEN "noSales"
                   ELSE "idle")
    BY <1>0, <1>8, ReadSteps
  <2>2. SaleAwaits(req[r])'
    BY <1>4, <2>1 DEF SaleAwaits, Goes
  <2>. QED  BY <1>0, <1>1, <2>1, <2>2
<1>9. CASE InsertSalesBack(r) \/ InsertNoSales(r)
  <2>1. PICK code \in AlertCode :
          /\ q.pc \in Handling /\ ~LastIs(saleAlerts, code)
          /\ saleAlerts' = InsertAlert(saleAlerts, code, q.date)
    <3>1. CASE InsertSalesBack(r)
      <4>1. /\ q.pc = "salesBack"
            /\ saleAlerts' = InsertAlert(saleAlerts, "sales_back", q.date)
        BY <1>0, <3>1, InsertSteps
      <4>2. ~LastIs(saleAlerts, "sales_back") /\ q.pc \in Handling
        BY <1>0, <4>1 DEF SaleAwaits, LastIs, Handling, Step
      <4>. QED  BY <1>3, <4>1, <4>2
    <3>2. CASE InsertNoSales(r)
      <4>1. /\ q.pc = "noSales"
            /\ saleAlerts' = InsertAlert(saleAlerts, "no_sales", q.date)
        BY <1>0, <3>2, InsertSteps
      <4>2. ~LastIs(saleAlerts, "no_sales") /\ q.pc \in Handling
        BY <1>0, <4>1 DEF SaleAwaits, Handling, Step
      <4>. QED  BY <1>3, <4>1, <4>2
    <3>. QED  BY <1>9, <3>1, <3>2
  <2>2. LogInv(saleAlerts')
    BY <1>0, <1>5, <2>1, InsertedAlert
  <2>3. req'[r].pc \notin {"sale", "salesBack", "noSales"}
    BY <1>0, <1>9, InsertSteps DEF Goes
  <2>. QED  BY <1>2, <2>2, <2>3
<1>10. CASE \/ ReadStatus(r) \/ WriteStatus(r) \/ RestoreStatus(r) \/ ReadLinkAlert(r)
            \/ InsertLinkLost(r) \/ InsertLinkBack(r) \/ InsertTankEmpty(r)
            \/ InsertTankFilling(r) \/ Drop(r) \/ MailTankEmpty(r) \/ InsertEncash(r)
            \/ InsertError(r) \/ ReadLastSale(r) \/ MailNoSales(r)
  <2>1. UNCHANGED saleAlerts
    BY <1>0, <1>10, RowSteps, InsertSteps, ReadSteps, OtherSteps
  <2>2. {AfterTank(q), AfterLink(q), AfterStore(q)} \cap {"sale", "salesBack", "noSales"} = {}
    BY <1>0, StageTells DEF Final
  <2>3. req'[r].pc \notin {"sale", "salesBack", "noSales"}
    BY <1>0, <1>10, <2>2, RowSteps, InsertSteps, ReadSteps, OtherSteps DEF Goes
  <2>. QED  BY <1>0, <1>2, <2>1, <2>3
<1>. QED
  BY <1>6, <1>7, <1>8, <1>9, <1>10 DEF Handle

(* What happens beside the handlers: the machine, the clock, a new report  *)
(* and the death of the process leave the row and the alerts alone.        *)
LEMMA BesideHandlers ==
  ASSUME RowInv, NEW r \in Request,
         \/ Machine \/ Tick \/ Crash \/ UNCHANGED vars
         \/ \E s \in Request : s = r /\ Report(s)
  PROVE  /\ clock' \in Nat /\ clock <= clock'
         /\ UNCHANGED <<status, errors, linkAlerts, tankAlerts, saleAlerts>>
         /\ req'[r] = req[r] \/ req'[r].pc \in {"idle", "sent"}
<1>1. clock \in Nat /\ clock <= clock /\ clock <= clock + 1
  BY DEF RowInv, TypeInv, TypeOK
<1>2. CASE Machine \/ UNCHANGED vars
  BY <1>1, <1>2 DEF Machine, Pay, Pour, Collect, FlipTank, vars, alerts, books
<1>3. CASE Tick
  BY <1>1, <1>3 DEF Tick, alerts, books
<1>4. CASE Crash
  BY <1>1, <1>4 DEF Crash, Idle, alerts, books
<1>5. CASE Report(r)
  BY <1>1, <1>5 DEF Report, RowInv, TypeInv, TypeOK, Idle, alerts, books
<1>. QED  BY <1>2, <1>3, <1>4, <1>5

AlertInv == RowInv /\ DateInv /\ LinkInv /\ SaleInv

LEMMA AlertStep ==
  ASSUME Serial, ~DbMayFail, AlertInv, [Next]_vars
  PROVE  AlertInv'
<1>1. RowInv /\ RowInv' /\ DateInv /\ LinkInv /\ SaleInv
  BY RowStep DEF AlertInv
<1>2. PICK r \in Request : TRUE
  BY HttpAssumption
<1>3. CASE \E s \in Request : Drop(s) \/ Handle(s)
  BY <1>1, <1>3, DateHandler, LinkHandler, SaleHandler DEF AlertInv
<1>4. CASE \/ Machine \/ Tick \/ Crash \/ UNCHANGED vars
           \/ \E s \in Request : Report(s)
  <2>1. /\ clock' \in Nat /\ clock <= clock'
        /\ UNCHANGED <<status, errors, linkAlerts, tankAlerts, saleAlerts>>
        /\ req'[r] = req[r] \/ req'[r].pc \in {"idle", "sent"}
    BY <1>1, <1>4, BesideHandlers DEF Serial
  <2>2. /\ clock \in Nat /\ req[r].date \in Nat
        /\ status # <<>> => status[1].date \in Nat
    BY <1>1, AlertTypes
  <2>3. RowNewest'
    BY <1>1, <2>1, <2>2 DEF DateInv, RowNewest
  <2>4. RowTold(req[r])'
    BY <1>1, <2>1, <2>2 DEF DateInv, RowTold, Handling, NewRow
  <2>5. LinkAwaits(req[r])' /\ SaleAwaits(req[r])'
    BY <1>1, <2>1 DEF LinkInv, LinkAwaits, SaleInv, SaleAwaits
  <2>6. DateInv' /\ LinkInv' /\ SaleInv'
    BY <1>1, <2>1, <2>3, <2>4, <2>5 DEF DateInv, LinkInv, SaleInv, Serial
  <2>. QED  BY <1>1, <2>6 DEF AlertInv
<1>. QED  BY <1>3, <1>4 DEF Next

LEMMA AlertInit == Init => AlertInv
<1>. SUFFICES ASSUME Init PROVE AlertInv
  OBVIOUS
<1>1. /\ linkAlerts = <<>> /\ tankAlerts = <<>> /\ clock = Start
      /\ Start \in Nat /\ 1 <= Start /\ Start <= Start
  BY GapAssumption DEF Init, Start
<1>2. /\ saleAlerts = <<>> \/ \E code \in AlertCode, date \in {1, Start} :
                                 saleAlerts = InsertAlert(<<>>, code, date)
      /\ status = <<>> => saleAlerts = <<>>
      /\ status # <<>> => status[1].date = Start
  <2>1. CASE Fresh
    BY <2>1 DEF Fresh
  <2>2. CASE Replaced
    BY <2>2 DEF Replaced, AlertCode
  <2>. QED  BY <2>1, <2>2 DEF Init
<1>3. /\ LogInv(<<>>) /\ Upto(<<>>, Start)
      /\ \A code \in AlertCode, date \in {1, Start} :
           /\ LogInv(InsertAlert(<<>>, code, date))
           /\ Upto(InsertAlert(<<>>, code, date), Start)
  <2>1. "no_sales" \in AlertCode
    BY DEF AlertCode
  <2>. QED  BY <1>1, <2>1, ShortLog
<1>4. RowNewest
  BY <1>1, <1>2, <1>3 DEF RowNewest
<1>5. \A r \in Request : RowTold(req[r]) /\ LinkAwaits(req[r]) /\ SaleAwaits(req[r])
  BY DEF Init, Idle, RowTold, Handling, LinkAwaits, SaleAwaits
<1>6. LogInv(linkAlerts) /\ LogInv(saleAlerts)
  BY <1>1, <1>2, <1>3
<1>. QED  BY <1>4, <1>5, <1>6, RowInit DEF AlertInv, DateInv, LinkInv, SaleInv

(* The alerts of the link and those of the sales tell disjoint outages,    *)
(* although Send reads the last alert, and inserts the next, in separate   *)
(* transactions between which the server may die.                          *)
THEOREM AlertsAlternateCorrect ==
  ASSUME Serial, ~DbMayFail
  PROVE  Spec => []AlertsAlternate
<1>1. AlertInv => AlertsAlternate
  BY DEF AlertInv, LinkInv, SaleInv, LogInv, AlertsAlternate
<1>. QED  BY AlertInit, AlertStep, <1>1, PTL DEF Spec
-----------------------------------------------------------------------------
(***************************************************************************)
(* The alerts of the tank.  A server that dies between the row and the     *)
(* alert leaves them apart, so from here on it does not die.               *)
(***************************************************************************)
(* Past the link, where the report goes next says how the tank changed.    *)
LEMMA TankGoes ==
  ASSUME NEW r \in Request, req[r] \in RequestState, Goes(r, AfterLink(req[r])),
         req[r].id = 0 => tankAlerts = <<>>,
         req[r].id # 0 => Told(req[r].last.status),
         status' # <<>>, status'[1].status = req[r].te, UNCHANGED tankAlerts
  PROVE  TankAwaits(req[r])'
<1>. DEFINE q == req[r]
<1>1. q.te \in {0, 1} /\ q.last.status \in {0, 1}
  BY DEF RequestState, StatusRow
<1>2. CASE AfterLink(q) \in {"tankEmpty", "tankFilling"}
  <2>1. /\ AfterLink(q) = "tankEmpty" => q.te = 1 /\ (q.id = 0 \/ q.last.status # 1)
        /\ AfterLink(q) = "tankFilling" => q.te = 0 /\ q.id # 0 /\ q.last.status # 0
    BY StageTells
  <2>. QED  BY <1>2, <2>1 DEF TankAwaits, BeforeTank, Goes, Told
<1>3. CASE AfterLink(q) \in Final
  <2>1. \/ q.te = 1 /\ q.id # 0 /\ q.last.status = 1
        \/ q.te = 0 /\ (q.id = 0 \/ q.last.status = 0)
    BY <1>3, StageTells
  <2>2. Told(q.te)
    BY <2>1 DEF Told, LastIs
  <2>3. /\ req'[r].pc \in Final /\ Final \cap BeforeTank = {} /\ "idle" \notin Handling
        /\ req'[r].pc # "idle" => req'[r].te = q.te
    BY <1>3 DEF Goes, Final, BeforeTank, Handling
  <2>4. req'[r].pc \notin BeforeTank
    BY <2>3
  <2>. QED  BY <2>2, <2>3, <2>4 DEF TankAwaits, Told, BeforeTank
<1>. QED  BY <1>2, <1>3, StageTells

LEMMA TankHandler ==
  ASSUME Serial, ~DbMayFail, AlertInv, TankInv, NEW r \in Request, Drop(r) \/ Handle(r)
  PROVE  TankInv'
<1>. DEFINE q == req[r]
<1>0. /\ RowInv /\ RowNewest /\ RowTold(q) /\ TankAwaits(q) /\ LogInv(tankAlerts)
      /\ TypeInv /\ Knows(q) /\ q \in RequestState
      /\ q.date \in Nat /\ q.te \in {0, 1} /\ q.last.status \in {0, 1}
      /\ tankAlerts \in Seq(Alert)
  BY AlertTypes DEF AlertInv, DateInv, TankInv, RowInv
<1>1. ASSUME LogInv(tankAlerts)', TankAwaits(req[r])' PROVE TankInv'
  BY <1>1 DEF TankInv, Serial
<1>2. /\ q.pc \in Handling => /\ status # <<>> /\ status[1].status = q.te
                              /\ Upto(tankAlerts, q.date)
      /\ BeforeTank \subseteq Handling
  BY <1>0 DEF RowTold, RowNewest, NewRow, BeforeTank, Handling, Step
<1>3. CASE ReadStatus(r)
  <2>1. q.pc = "sent" /\ req'[r].pc = "store" /\ UNCHANGED <<status, tankAlerts>>
    BY <1>0, <1>3, RowSteps
  <2>2. TankAwaits(req[r])'
    BY <1>0, <2>1 DEF TankAwaits, BeforeTank, Handling, Told
  <2>. QED  BY <1>0, <1>1, <2>1, <2>2
<1>4. CASE WriteStatus(r)
  <2>0. NewRow(q).status = q.te
    BY DEF NewRow
  <2>1. /\ q.pc = "store" /\ Goes(r, AfterStore(q)) /\ UNCHANGED tankAlerts
        /\ status' # <<>> /\ status'[1].status = q.te
    BY <1>0, <1>4, <2>0, RowSteps
  <2>2. q.id = 0 => tankAlerts = <<>>
    BY <1>0, <2>1 DEF Knows, RowNewest
  <2>3. q.id # 0 => Told(q.last.status)
    BY <1>0, <2>1 DEF Knows, TankAwaits
  <2>4. TankAwaits(req[r])'
    <3>1. CASE AfterStore(q) = "readLink"
      BY <2>1, <2>2, <2>3, <3>1 DEF TankAwaits, BeforeTank, Goes, Told
    <3>2. CASE AfterStore(q) # "readLink"
      BY <1>0, <2>1, <2>2, <2>3, <3>2, StageTells, TankGoes
    <3>. QED  BY <3>1, <3>2
  <2>. QED  BY <1>0, <1>1, <2>1, <2>4
<1>5. CASE ReadLinkAlert(r) \/ InsertLinkLost(r)
  <2>1. /\ q.pc \in {"readLink", "linkLost"} /\ UNCHANGED <<status, tankAlerts>>
        /\ Goes(r, "linkLost") \/ Goes(r, "linkBack")
    BY <1>0, <1>5, ReadSteps, InsertSteps
  <2>2. TankAwaits(req[r])'
    BY <1>0, <2>1 DEF TankAwaits, BeforeTank, Goes, Told
  <2>. QED  BY <1>0, <1>1, <2>1, <2>2
<1>6. CASE InsertLinkBack(r)
  <2>1. /\ q.pc = "linkBack" /\ Goes(r, AfterLink(q)) /\ UNCHANGED <<status, tankAlerts>>
    BY <1>0, <1>6, InsertSteps
  <2>2. q.pc \in BeforeTank
    BY <2>1 DEF BeforeTank
  <2>3. /\ q.id = 0 => tankAlerts = <<>>
        /\ q.id # 0 => Told(q.last.status)
    BY <1>0, <2>2 DEF TankAwaits
  <2>4. status' # <<>> /\ status'[1].status = q.te
    BY <1>2, <2>1, <2>2
  <2>5. TankAwaits(req[r])'
    BY <1>0, <2>1, <2>3, <2>4, TankGoes
  <2>. QED  BY <1>0, <1>1, <2>1, <2>5
<1>7. CASE InsertTankEmpty(r)
  <2>1. /\ q.pc = "tankEmpty" /\ Goes(r, "mailTank")
        /\ tankAlerts' = InsertAlert(tankAlerts, "tank_empty", q.date)
    BY <1>0, <1>7, InsertSteps
  <2>2. q.te = 1 /\ ~LastIs(tankAlerts, "tank_empty") /\ q.pc \in BeforeTank
    BY <1>0, <2>1 DEF TankAwaits, BeforeTank, Told, LastIs
  <2>3. LogInv(tankAlerts') /\ LastIs(tankAlerts', "tank_empty")
    BY <1>0, <1>2, <2>1, <2>2, InsertedAlert DEF AlertCode
  <2>4. TankAwaits(req[r])'
    BY <2>1, <2>2, <2>3 DEF TankAwaits, BeforeTank, Goes, Told
  <2>. QED  BY <1>1, <2>3, <2>4
<1>8. CASE InsertTankFilling(r)
  <2>1. /\ q.pc = "tankFilling" /\ Goes(r, AfterTank(q)) /\ UNCHANGED status
        /\ tankAlerts' = InsertAlert(tankAlerts, "tank_filling", q.date)
    BY <1>0, <1>8, InsertSteps
  <2>2. q.te = 0 /\ LastIs(tankAlerts, "tank_empty") /\ q.pc \in BeforeTank
    BY <1>0, <2>1 DEF TankAwaits, BeforeTank, Told
  <2>3. ~LastIs(tankAlerts, "tank_filling") /\ "tank_filling" \in AlertCode
    BY <2>2 DEF LastIs, AlertCode
  <2>4. LogInv(tankAlerts') /\ ~LastIs(tankAlerts', "tank_empty")
    BY <1>0, <1>2, <2>1, <2>2, <2>3, InsertedAlert
  <2>5. AfterTank(q) \in Final /\ status' # <<>> /\ status'[1].status = q.te
    BY <1>0, <1>2, <2>1, <2>2, StageTells
  <2>6. /\ req'[r].pc \in Final /\ Final \cap BeforeTank = {} /\ "idle" \notin Handling
        /\ req'[r].pc # "idle" => req'[r].te = 0
    BY <2>1, <2>2, <2>5 DEF Goes, Final, BeforeTank, Handling
  <2>7. req'[r].pc \notin BeforeTank
    BY <2>6
  <2>8. TankAwaits(req[r])'
    BY <2>2, <2>4, <2>5, <2>6, <2>7 DEF TankAwaits, Told, BeforeTank
  <2>. QED  BY <1>1, <2>4, <2>8
(* Once the alerts tell the report's state, they do so to its end.         *)
<1>9. ASSUME q.pc \in Handling \ BeforeTank, req'[r].pc \in {"idle"} \cup (Handling \ BeforeTank),
             req'[r].pc # "idle" => req'[r].te = q.te, UNCHANGED tankAlerts,
             status' # <<>>, status'[1].status = q.te
      PROVE  TankInv'
  <2>1. Told(q.te)
    BY <1>0, <1>9 DEF TankAwaits
  <2>2. {"idle", "sent", "store"} \cap Handling = {}
    BY DEF Handling
  <2>3. TankAwaits(req[r])'
    BY <1>2, <1>9, <2>1, <2>2 DEF TankAwaits, Told, BeforeTank
  <2>. QED  BY <1>0, <1>1, <1>9, <2>3
<1>10. CASE RestoreStatus(r)
  <2>1. /\ q.pc = "restore" /\ Goes(r, "idle") /\ UNCHANGED tankAlerts
        /\ status' # <<>> /\ status'[1].status = q.te
    BY <1>0, <1>10, RowSteps DEF RestoredRow, RequestState, StatusRow
  <2>. QED  BY <1>9, <2>1 DEF Goes, Handling, Step, BeforeTank
<1>11. CASE Drop(r)
  <2>1. q.pc = "sent" /\ Goes(r, "idle") /\ UNCHANGED <<status, tankAlerts>>
    BY <1>0, <1>11, OtherSteps
  <2>2. TankAwaits(req[r])'
    BY <1>0, <2>1 DEF TankAwaits, BeforeTank, Handling, Goes, Told
  <2>. QED  BY <1>0, <1>1, <2>1, <2>2
<1>12. CASE \/ InsertSalesBack(r) \/ InsertNoSales(r) \/ ReadSaleAlert(r)
            \/ CheckSaleAlert(r) \/ MailTankEmpty(r) \/ InsertEncash(r)
            \/ InsertSaleRow(r) \/ InsertError(r) \/ ReadLastSale(r) \/ MailNoSales(r)
  <2>1. UNCHANGED <<status, tankAlerts>>
    BY <1>0, <1>12, InsertSteps, ReadSteps, OtherSteps
  <2>2. q.pc \in {"salesBack", "noSales", "readSaleAlert", "checkAlert", "mailTank",
                  "encash", "sale", "error", "readLastSale", "mailSales"}
    BY <1>0, <1>12, InsertSteps, ReadSteps, OtherSteps
  <2>3. q.pc \in Handling \ BeforeTank
    BY <2>2 DEF Handling, Step, BeforeTank
  <2>4. AfterTank(q) \in {"idle", "encash", "readLastSale", "readSaleAlert", "error"}
    BY <1>0, StageTells DEF Final
  <2>5. /\ req'[r].pc \in {"idle", "mailSales", "sale", "noSales", "encash", "readLastSale",
                           "readSaleAlert", "error", "salesBack", "restore", "checkAlert"}
        /\ req'[r].pc # "idle" => req'[r].te = q.te
    BY <1>0, <1>12, <2>4, InsertSteps, ReadSteps, OtherSteps DEF Goes
  <2>6. req'[r].pc \in {"idle"} \cup (Handling \ BeforeTank)
    BY <2>5 DEF Handling, Step, BeforeTank
  <2>. QED  BY <1>2, <1>9, <2>1, <2>3, <2>5, <2>6
<1>. QED
  BY <1>3, <1>4, <1>5, <1>6, <1>7, <1>8, <1>10, <1>11, <1>12 DEF Handle

LEMMA TankStep ==
  ASSUME Serial, ~DbMayFail, ~MayCrash, AlertInv, TankInv, [Next]_vars
  PROVE  TankInv'
<1>1. PICK r \in Request : TRUE
  BY HttpAssumption
<1>2. CASE \E s \in Request : Drop(s) \/ Handle(s)
  BY <1>2, TankHandler
<1>3. CASE Machine \/ Tick \/ UNCHANGED vars \/ \E s \in Request : Report(s)
  <2>1. UNCHANGED <<status, tankAlerts>>
    BY <1>1, <1>3, BesideHandlers DEF AlertInv
  <2>2. \/ UNCHANGED req
        \/ req[r].pc = "idle" /\ req'[r].pc = "sent"
    <3>1. CASE Machine \/ Tick \/ UNCHANGED vars
      BY <3>1 DEF Machine, Pay, Pour, Collect, FlipTank, Tick, vars
    <3>2. CASE Report(r)
      BY <3>2 DEF Report, At, AlertInv, RowInv, TypeInv, TypeOK, Idle
    <3>. QED  BY <1>3, <3>1, <3>2 DEF Serial
  <2>3. TankAwaits(req[r])'
    BY <2>1, <2>2 DEF TankInv, TankAwaits, BeforeTank, Handling, Told
  <2>. QED  BY <2>1, <2>3 DEF TankInv, Serial
<1>4. ~Crash
  BY DEF Crash
<1>. QED  BY <1>2, <1>3, <1>4 DEF Next

LEMMA TankInit == Init => TankInv
<1>. SUFFICES ASSUME Init PROVE TankInv
  OBVIOUS
<1>1. tankAlerts = <<>> /\ ~LastIs(<<>>, "tank_empty")
  BY DEF Init, LastIs
<1>2. status # <<>> => status[1].status = 0
  BY DEF Init, Fresh, Replaced
<1>3. \A r \in Request : TankAwaits(req[r])
  BY <1>1, <1>2 DEF Init, Idle, TankAwaits, BeforeTank, Handling, Told
<1>4. LogInv(<<>>)
  BY ShortLog, GapAssumption DEF AlertCode
<1>. QED  BY <1>1, <1>3, <1>4 DEF TankInv

(* Between reports the last tank alert says what the row says, although    *)
(* Send writes the row long before it inserts the alert, if the server     *)
(* does not die between the two.                                           *)
THEOREM TankAlertsCorrect ==
  ASSUME Serial, ~DbMayFail, ~MayCrash
  PROVE  Spec => []TankAlertsTellStatus
<1>1. AlertInv /\ TankInv => TankAlertsTellStatus
  <2>. SUFFICES ASSUME AlertInv, TankInv, Quiescent, status # <<>>
                PROVE  /\ Alternates(tankAlerts)
                       /\ status[1].status = 1 <=>
                            /\ tankAlerts # <<>>
                            /\ tankAlerts[Len(tankAlerts)].code = "tank_empty"
    BY DEF TankAlertsTellStatus
  <2>1. PICK r \in Request : TRUE
    BY HttpAssumption
  <2>2. Told(status[1].status)
    BY <2>1 DEF TankInv, TankAwaits, Quiescent
  <2>. QED  BY <2>2 DEF TankInv, LogInv, Told, LastIs
<1>2. AlertInv /\ TankInv /\ [Next]_vars => (AlertInv /\ TankInv)'
  BY AlertStep, TankStep
<1>. QED  BY AlertInit, TankInit, <1>1, <1>2, PTL DEF Spec

-----------------------------------------------------------------------------
(* Whatever way a handler ends, the report's counters are in the row, or   *)
(* they are among the errors; the invariant is that of the alerts.         *)
LEMMA EndKeepsCounters ==
  ASSUME Serial, ~DbMayFail, ~MayCrash, AlertInv, [Next]_vars,
         NEW r \in Request, req[r].pc \notin {"idle", "sent"}, req'[r].pc = "idle"
  PROVE  \/ status'[1].money = req[r].tm /\ status'[1].liters = req[r].ts
         \/ [tm |-> req[r].tm, ts |-> req[r].ts] \in errors'
<1>. DEFINE q == req[r]
<1>0. RowInv /\ TypeInv /\ RowTold(q) /\ q \in RequestState /\ q.pc \in Step
  BY AlertTypes DEF AlertInv, DateInv, RowInv, RequestState
<1>1. Drop(r) \/ Handle(r)
  <2>1. ~(Machine \/ Tick \/ UNCHANGED vars \/ Crash \/ Report(r))
    BY DEF Machine, Pay, Pour, Collect, FlipTank, Tick, vars, Crash, Report, At
  <2>. QED  BY <2>1 DEF Next, Serial
<1>2. NewRow(q).money = q.tm /\ NewRow(q).liters = q.ts
  BY DEF NewRow
<1>3. CASE WriteStatus(r)
  BY <1>0, <1>2, <1>3, RowSteps
<1>4. CASE RestoreStatus(r)
  <2>1. q.pc = "restore" /\ errors' = errors
    BY <1>0, <1>4, RowSteps
  <2>. QED  BY <1>0, <2>1 DEF RowTold
<1>5. CASE ~WriteStatus(r) /\ ~RestoreStatus(r)
  <2>1. status' = status /\ q.pc # "store"
    BY <1>0, <1>1, <1>5, RowSteps, InsertSteps, ReadSteps, OtherSteps DEF Handle
  <2>2. status[1] = NewRow(q)
    BY <1>0, <2>1 DEF RowTold, Handling
  <2>. QED  BY <1>2, <2>1, <2>2
<1>. QED  BY <1>3, <1>4, <1>5

(* A report that Send has taken ends in the row or among the errors, with  *)
(* one report at a time, a database that answers and no crash: its chain of*)
(* transactions drops none (DataController.cs:74-80, 212-226).             *)
THEOREM CountersCorrect ==
  ASSUME Serial, ~DbMayFail, ~MayCrash
  PROVE  Spec => CountersKept
<1>1. AlertInv /\ [Next]_vars =>
        [\A r \in Request :
           req[r].pc \notin {"idle", "sent"} /\ req'[r].pc = "idle" =>
             \/ status'[1].money = req[r].tm /\ status'[1].liters = req[r].ts
             \/ [tm |-> req[r].tm, ts |-> req[r].ts] \in errors']_vars
  BY EndKeepsCounters
<1>2. AlertInv /\ [Next]_vars => AlertInv'
  BY AlertStep
<1>. QED  BY AlertInit, <1>1, <1>2, PTL DEF Spec, CountersKept

-----------------------------------------------------------------------------
(***************************************************************************)
(* Send's chain of transactions implements the ledger, for a board that    *)
(* waits for its answers, a server that stays up and a database that       *)
(* answers.                                                                *)
(***************************************************************************)
(* The row the ledger shows, in terms of the one request.                  *)
IsOwing(r) == req[r].pc \in Booking /\ req[r].id # 0

LEMMA AcceptedOne ==
  ASSUME Serial, NEW r \in Request
  PROVE  /\ IsOwing(r) => Accepted = req[r].last
         /\ ~IsOwing(r) /\ status # <<>> => Accepted = status[1]
         /\ ~IsOwing(r) /\ status = <<>> => Accepted = NoRow
<1>1. IsOwing(r) => Owing = {r}
  BY DEF Serial, Owing, IsOwing
<1>2. ~IsOwing(r) => Owing = {}
  BY DEF Serial, Owing, IsOwing
<1>. QED  BY <1>1, <1>2 DEF Accepted

LEMMA AcceptedOnePrimed ==
  ASSUME Serial, NEW r \in Request
  PROVE  /\ IsOwing(r)' => Accepted' = req'[r].last
         /\ ~IsOwing(r)' /\ status' # <<>> => Accepted' = status'[1]
         /\ ~IsOwing(r)' /\ status' = <<>> => Accepted' = NoRow
<1>1. IsOwing(r)' => Owing' = {r}
  BY DEF Serial, Owing, IsOwing
<1>2. ~IsOwing(r)' => Owing' = {}
  BY DEF Serial, Owing, IsOwing
<1>. QED  BY <1>1, <1>2 DEF Accepted

(* A step that leaves the row, the sales and the encashments as they are   *)
(* and the one request on the same side of its booking.                    *)
LEMMA Stutters ==
  ASSUME status' # <<>> <=> status # <<>>,
         Accepted'.money = Accepted.money, Accepted'.liters = Accepted.liters,
         UNCHANGED <<sales, collected>>
  PROVE  UNCHANGED Books!vars
  BY DEF Books!vars

(* The counters move on without a booking: only zeros after zero money.    *)
LEMMA Resets ==
  ASSUME status # <<>>, status' # <<>>, UNCHANGED <<sales, collected>>,
         Accepted.money = 0, Accepted'.money = 0, Accepted'.liters = 0
  PROVE  Books!Reset
  BY DEF Books!Reset, Books!Zero

LEMMA Leaves ==
  ASSUME NEW q, NEW row, status # <<>>, status' # <<>>, UNCHANGED <<sales, collected>>,
         q.tm = q.last.money, IsZero(q) \/ q.ts = q.last.liters,
         Accepted.money = q.last.money, Accepted.liters = q.last.liters,
         Accepted' = row, row.money = q.tm, row.liters = q.ts
  PROVE  Books!Reset \/ UNCHANGED Books!vars
<1>1. CASE IsZero(q)
  BY <1>1, Resets DEF IsZero
<1>2. CASE q.ts = q.last.liters
  BY <1>2, Stutters
<1>. QED  BY <1>1, <1>2

LEMMA LedgerWrite ==
  ASSUME Serial, ~DbMayFail, RowInv, NEW r \in Request, WriteStatus(r)
  PROVE  [Books!Next]_Books!vars
<1>. DEFINE q == req[r]
<1>1. /\ q.pc = "store" /\ status' # <<>>
      /\ status'[1].money = q.tm /\ status'[1].liters = q.ts
      /\ UNCHANGED <<sales, collected>>
  BY BookingSteps
<1>2. PICK pc \in Step :
        /\ MayGo(q, pc) /\ req'[r].pc = pc
        /\ pc # "idle" => req'[r].id = q.id /\ req'[r].last = q.last
  BY BookingSteps
<1>3. /\ (q.id = 0 /\ status = <<>>) \/ q.id = 1
      /\ q.id = 1 => status # <<>> /\ q.last = status[1]
      /\ q.tm \in Nat /\ q.ts \in Nat
  BY <1>1, Amounts DEF RowInv, Knows
<1>4. ~IsOwing(r) /\ (pc \in Booking => pc # "idle")
  BY <1>1 DEF IsOwing, Booking
<1>5. CASE q.id = 0 /\ status = <<>>
  <2>1. ~IsOwing(r)'
    BY <1>2, <1>4, <1>5 DEF IsOwing
  <2>2. Accepted' = status'[1]
    BY <1>1, <2>1, AcceptedOnePrimed
  <2>3. Books!Meet
    BY <1>1, <1>3, <1>5, <2>2 DEF Books!Meet, Books!Amount
  <2>. QED  BY <2>3 DEF Books!Next
<1>6. CASE q.id = 1
  <2>1. status # <<>> /\ Accepted = q.last
    BY <1>3, <1>4, <1>6, AcceptedOne
  <2>2. CASE pc \in Booking
    <3>1. IsOwing(r)' /\ req'[r].last = q.last
      BY <1>2, <1>4, <1>6, <2>2 DEF IsOwing
    <3>2. Accepted' = q.last
      BY <3>1, AcceptedOnePrimed
    <3>. QED  BY <1>1, <2>1, <3>2, Stutters
  <2>3. CASE pc \notin Booking
    <3>1. ~IsOwing(r)'
      BY <1>2, <2>3 DEF IsOwing
    <3>2. Accepted' = status'[1]
      BY <1>1, <3>1, AcceptedOnePrimed
    <3>3. q.tm = q.last.money /\ (IsZero(q) \/ q.ts = q.last.liters)
      BY <1>2, <1>6, <2>3 DEF MayGo
    <3>. QED  BY <1>1, <2>1, <3>2, <3>3, Leaves DEF Books!Next
  <2>. QED  BY <2>2, <2>3
<1>. QED  BY <1>3, <1>5, <1>6

LEMMA LedgerBook ==
  ASSUME Serial, ~DbMayFail, RowInv, NEW r \in Request,
         InsertEncash(r) \/ InsertSaleRow(r) \/ RestoreStatus(r)
  PROVE  [Books!Next]_Books!vars
<1>. DEFINE q == req[r]
<1>1. /\ Knows(q) /\ q.tm \in Nat /\ q.ts \in Nat
      /\ q.last.money \in Nat /\ q.last.liters \in Nat /\ collected \in Nat
      /\ q.pc \in {"readSaleAlert", "sale"} => IsSale(q)
  BY Amounts DEF RowInv, TypeInv, SalePending
<1>2. q.pc \in {"encash", "sale", "restore"} /\ req'[r].pc \in {"idle", "salesBack"}
  BY BookingSteps
<1>3. /\ IsOwing(r) /\ ~IsOwing(r)' /\ status # <<>>
      /\ status[1].money = q.tm /\ status[1].liters = q.ts
  BY <1>1, <1>2 DEF Knows, IsOwing, Booking
<1>4. Accepted = q.last /\ (status' # <<>> => Accepted' = status'[1])
  BY <1>3, AcceptedOne, AcceptedOnePrimed
<1>5. CASE InsertEncash(r)
  <2>1. /\ q.pc = "encash" /\ collected' = collected + q.last.money
        /\ UNCHANGED <<status, sales>>
    BY <1>5, BookingSteps
  <2>2. q.tm = 0 /\ q.ts = 0
    BY <1>1, <2>1 DEF Knows, IsZero
  <2>3. Accepted'.money = 0 /\ Accepted'.liters = 0 /\ status' # <<>>
    BY <1>3, <1>4, <2>1, <2>2
  <2>4. CASE q.last.money > 0
    <3>1. Books!Encash
      BY <1>3, <1>4, <2>1, <2>3, <2>4 DEF Books!Encash, Books!Zero
    <3>. QED  BY <3>1 DEF Books!Next
  <2>5. CASE q.last.money = 0
    <3>1. collected' = collected
      BY <1>1, <2>1, <2>5
    <3>2. Books!Reset
      BY <1>3, <1>4, <2>1, <2>3, <2>5, <3>1, Resets
    <3>. QED  BY <3>2 DEF Books!Next
  <2>. QED  BY <1>1, <2>4, <2>5
<1>6. CASE InsertSaleRow(r)
  <2>1. /\ q.pc = "sale"
        /\ sales'.money = sales.money + (q.tm - q.last.money)
        /\ sales'.liters = sales.liters + (q.ts - q.last.liters)
        /\ UNCHANGED <<status, collected>>
    BY <1>6, BookingSteps
  <2>2. q.tm > q.last.money /\ q.ts > q.last.liters
    BY <1>1, <2>1 DEF IsSale
  <2>3. Accepted'.money = q.tm /\ Accepted'.liters = q.ts /\ status' # <<>>
    BY <1>3, <1>4, <2>1
  <2>4. Books!Sell
    BY <1>1, <1>3, <1>4, <2>1, <2>2, <2>3 DEF Books!Sell, Books!Amount
  <2>. QED  BY <2>4 DEF Books!Next
<1>7. CASE RestoreStatus(r)
  <2>1. /\ status' # <<>> /\ UNCHANGED <<sales, collected>>
        /\ status'[1].money = q.last.money /\ status'[1].liters = q.last.liters
    BY <1>7, BookingSteps
  <2>. QED  BY <1>3, <1>4, <2>1, Stutters
<1>. QED  BY <1>5, <1>6, <1>7

LEMMA LedgerMoves ==
  ASSUME Serial, RowInv, NEW r \in Request, NEW pc \in Step,
         Moves(r, pc), Allowed(req[r], pc)
  PROVE  [Books!Next]_Books!vars
<1>. DEFINE q == req[r]
<1>1. /\ req'[r].pc = pc
      /\ pc # "idle" => req'[r].id = q.id /\ req'[r].last = q.last
      /\ UNCHANGED <<status, sales, collected>>
  BY DEF Moves
<1>2. pc \in Booking => q.pc \in Booking /\ pc # "idle"
  BY DEF Allowed, Booking
<1>3. CASE IsOwing(r)' \/ ~IsOwing(r)
  <2>1. IsOwing(r)' => IsOwing(r) /\ req'[r].last = q.last
    BY <1>1, <1>2 DEF IsOwing
  <2>2. Accepted' = Accepted
    BY <1>1, <1>3, <2>1, AcceptedOne, AcceptedOnePrimed
  <2>. QED  BY <1>1, <2>2, Stutters
<1>4. CASE ~IsOwing(r)' /\ IsOwing(r)
  <2>1. pc \notin Booking /\ q.pc \in Booking /\ q.id # 0
    BY <1>1, <1>2, <1>4 DEF IsOwing
  <2>2. status # <<>> /\ status[1].money = q.tm /\ status[1].liters = q.ts
    BY <2>1 DEF RowInv, Knows
  <2>3. q.tm = q.last.money /\ (IsZero(q) \/ q.ts = q.last.liters)
    BY <2>1 DEF Allowed, MayGo
  <2>4. Accepted = q.last /\ Accepted' = status'[1]
    BY <1>1, <1>4, <2>2, AcceptedOne, AcceptedOnePrimed
  <2>. QED  BY <1>1, <2>2, <2>3, <2>4, Leaves DEF Books!Next
<1>. QED  BY <1>3, <1>4

LEMMA LedgerNext ==
  ASSUME Serial, ~DbMayFail, ~MayCrash, RowInv, [Next]_vars
  PROVE  [Books!Next]_Books!vars
<1>1. PICK r \in Request : TRUE
  BY HttpAssumption
<1>2. ASSUME req' = req, UNCHANGED <<status, sales, collected>>
      PROVE  UNCHANGED Books!vars
  <2>1. Accepted' = Accepted
    BY <1>1, <1>2, AcceptedOne, AcceptedOnePrimed DEF IsOwing
  <2>. QED  BY <1>2, <2>1, Stutters
<1>3. CASE UNCHANGED vars
  BY <1>2, <1>3 DEF vars, books
<1>4. CASE Machine \/ Tick
  BY <1>2, <1>4 DEF Machine, Pay, Pour, Collect, FlipTank, Tick, books
<1>5. CASE Crash
  BY <1>5 DEF Crash
<1>6. ASSUME NEW s \in Request, Report(s) \/ ReadStatus(s)
      PROVE  [Books!Next]_Books!vars
  <2>1. /\ req[s].pc \notin Booking /\ req'[s].pc \notin Booking
        /\ UNCHANGED <<status, sales, collected>>
    <3>1. CASE Report(s)
      BY <3>1 DEF Report, At, RowInv, TypeInv, TypeOK, Idle, books, Booking
    <3>2. CASE ReadStatus(s)
      <4>1. /\ req[s].pc = "sent" /\ req'[s].pc = "store"
            /\ UNCHANGED <<status, sales, collected>>
        BY <3>2, BookingSteps
      <4>. QED  BY <4>1 DEF Booking
    <3>. QED  BY <1>6, <3>1, <3>2
  <2>2. Accepted' = Accepted
    BY <2>1, AcceptedOne, AcceptedOnePrimed DEF IsOwing
  <2>. QED  BY <2>1, <2>2, Stutters
<1>7. ASSUME NEW s \in Request, Drop(s) \/ Handle(s)
      PROVE  [Books!Next]_Books!vars
  BY <1>6, <1>7, HandlerSteps, LedgerWrite, LedgerBook, LedgerMoves
<1>. QED  BY <1>3, <1>4, <1>5, <1>6, <1>7 DEF Next

(* Every behaviour of the chain of transactions is one of the ledger.      *)
THEOREM LedgerRefined ==
  ASSUME Serial, ~DbMayFail, ~MayCrash
  PROVE  Spec => ImplementsLedger
<1>1. Init => Books!Init
  <2>. SUFFICES ASSUME Init PROVE Books!Init
    OBVIOUS
  <2>1. PICK r \in Request : TRUE
    BY HttpAssumption
  <2>2. /\ ~IsOwing(r) /\ sales.money = 0 /\ sales.liters = 0 /\ collected = 0
        /\ status # <<>> => status[1].money = 0 /\ status[1].liters = 0
    BY <2>1 DEF Init, Fresh, Replaced, Idle, IsOwing, Booking
  <2>3. Accepted.money = 0 /\ Accepted.liters = 0
    BY <2>1, <2>2, AcceptedOne DEF NoRow
  <2>. QED  BY <2>2, <2>3 DEF Books!Init, Books!Zero
<1>. QED  BY <1>1, RowInit, RowStep, LedgerNext, PTL
          DEF Spec, ImplementsLedger, Books!Spec
=============================================================================
