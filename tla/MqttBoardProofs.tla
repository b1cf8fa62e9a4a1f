-------------------------- MODULE MqttBoardProofs --------------------------
(***************************************************************************)
(* Theorems about MqttBoard, for every set of regimes: whatever messages a *)
(* board sends, however often its connection is lost or the server dies.   *)
(***************************************************************************)
EXTENDS MqttBoard, FiniteSets, SequenceTheorems, FiniteSetTheorems, TLAPS

(***************************************************************************)
(* Type correctness.  What a stage of the handler may assume about its     *)
(* message comes from the guards before it: the message is one the board   *)
(* sent, it could be decrypted, and its theme and shape chose the stage.   *)
(***************************************************************************)
StatusStage == {"store", "readLink", "linkLost", "linkBack", "readLastSale", "checkAlert",
                "noSales", "mailSales", "tankEmpty", "mailTank", "tankFilling"}
SaleStage == {"sale", "readSaleAlert", "salesBack"}
ConfigStage == {"readConfig", "writeConfig"}

HandlerOK ==
    /\ h.pc # "idle" => h.n \in DOMAIN sent /\ Msg.body # "unreadable"
    /\ h.pc \in StatusStage => Msg.theme = "status" /\ Msg.body = "good"
    /\ h.pc \in SaleStage => Msg.theme = "sales" /\ Msg.body = "good"
    /\ h.pc = "encash" => Msg.theme = "encash" /\ Msg.body = "good"
    /\ h.pc = "dead" => Msg.theme \in {"sales", "encash"} /\ Msg.body = "misshapen"
    /\ h.pc \in ConfigStage => Msg.theme \in ConfigTheme /\ Msg.body = "good"

PlacesOK == acked + flight <= Len(sent) /\ Len(sent) <= regime.sends

TypeInv == TypeOK /\ PlacesOK /\ HandlerOK

HandlerState == [pc: Step, n: Nat, id: Nat, last: StatusRow]

LEMMA RegimeType ==
  ASSUME regime \in Regimes
  PROVE  /\ regime.themes \subseteq Theme /\ regime.gaps \subseteq Nat
         /\ regime.bodies \subseteq Body /\ regime.sends \in Nat /\ regime.cuts \in Nat
         /\ regime.repeats \in BOOLEAN /\ regime.crashes \in BOOLEAN
         /\ regime.fails \in BOOLEAN
  BY MqttAssumption DEF Regime

LEMMA IdleType == Idle \in HandlerState /\ Idle.pc = "idle"
  BY DEF Idle, HandlerState, Step, StatusRow, NoRow

(* A handler goes on: it keeps its message and what it has read.           *)
Goes(pc) ==
    /\ h'.pc = pc
    /\ pc # "idle" => h'.n = h.n /\ h'.id = h.id /\ h'.last = h.last

LEMMA GotoGoes ==
  ASSUME TypeInv, NEW pc \in Step, Goto(pc)
  PROVE  Goes(pc) /\ h' \in HandlerState
<1>1. h \in HandlerState
  BY DEF TypeInv, TypeOK, HandlerState
<1>2. CASE pc = "idle"
  BY <1>2, IdleType DEF Goto, Goes
<1>3. CASE pc # "idle"
  BY <1>1, <1>3 DEF Goto, Goes, HandlerState
<1>. QED  BY <1>2, <1>3

(* Where the branches of a status lead.                                    *)
LEMMA StageTells ==
  /\ AfterSales \in {"tankEmpty", "tankFilling", "idle"}
  /\ AfterLink \in {"readLastSale", "tankEmpty", "tankFilling", "idle"}
  /\ {AfterSales, AfterLink} \subseteq StatusStage \cup {"idle"}
  /\ StatusStage \cup {"idle"} \subseteq Step /\ SaleStage \cup {"idle"} \subseteq Step
  /\ ConfigStage \cup {"idle", "read", "encash", "dead"} \subseteq Step
<1>1. AfterSales \in {"tankEmpty", "tankFilling", "idle"}
  BY DEF AfterSales
<1>2. AfterLink \in {"readLastSale", "tankEmpty", "tankFilling", "idle"}
  BY <1>1 DEF AfterLink
<1>3. {AfterSales, AfterLink} \subseteq StatusStage \cup {"idle"}
  BY <1>1, <1>2 DEF StatusStage
<1>. QED  BY <1>1, <1>2, <1>3 DEF StatusStage, SaleStage, ConfigStage, Step

(* A handler that goes on within its branch, or ends.                      *)
LEMMA BranchType ==
  ASSUME TypeInv, UNCHANGED sent,
         NEW branch \in {StatusStage, SaleStage, ConfigStage}, h.pc \in branch,
         NEW pc \in branch \cup {"idle"}, Goto(pc)
  PROVE  h' \in HandlerState /\ HandlerOK' /\ Goes(pc)
<1>1. pc \in Step
  BY StageTells
<1>2. h' \in HandlerState /\ Goes(pc)
  BY <1>1, GotoGoes
<1>3. h.pc # "idle" /\ HandlerOK
  BY DEF TypeInv, StatusStage, SaleStage, ConfigStage
<1>4. CASE pc = "idle"
  BY <1>2, <1>4 DEF HandlerOK, Goes, StatusStage, SaleStage, ConfigStage
<1>5. CASE pc # "idle"
  <2>1. h'.pc = pc /\ h'.n = h.n /\ Msg' = Msg
    BY <1>2, <1>5 DEF Goes, Msg
  <2>5. /\ h.n \in DOMAIN sent /\ Msg.body # "unreadable"
        /\ branch = StatusStage => Msg.theme = "status" /\ Msg.body = "good"
        /\ branch = SaleStage => Msg.theme = "sales" /\ Msg.body = "good"
        /\ branch = ConfigStage => Msg.theme \in ConfigTheme /\ Msg.body = "good"
    BY <1>3 DEF HandlerOK
  <2>6. pc \notin {"encash", "dead"} /\ pc \in branch
    BY <1>5 DEF StatusStage, SaleStage, ConfigStage
  <2>7. \A other \in {StatusStage, SaleStage, ConfigStage} : pc \in other => other = branch
    BY <2>6 DEF StatusStage, SaleStage, ConfigStage
  <2>8. /\ pc \in StatusStage => Msg.theme = "status" /\ Msg.body = "good"
        /\ pc \in SaleStage => Msg.theme = "sales" /\ Msg.body = "good"
        /\ pc \in ConfigStage => Msg.theme \in ConfigTheme /\ Msg.body = "good"
    BY <2>5, <2>7
  <2>9. ConfigTheme' = ConfigTheme /\ DOMAIN sent' = DOMAIN sent
    BY DEF ConfigTheme
  <2>. QED  BY <1>2, <2>1, <2>5, <2>6, <2>8, <2>9 DEF HandlerOK
<1>. QED  BY <1>2, <1>4, <1>5

LEMMA EndType ==
  ASSUME TypeInv, Goto("idle")
  PROVE  h' \in HandlerState /\ HandlerOK' /\ Goes("idle")
  BY GotoGoes, StageTells DEF Goes, HandlerOK, StatusStage, SaleStage, ConfigStage

LEMMA InsertAlertType ==
  ASSUME NEW log \in Seq(Alert), NEW code \in AlertCode, NEW date \in Nat
  PROVE  InsertAlert(log, code, date) \in Seq(Alert)
  BY DEF InsertAlert, Alert

LEMMA WriteRowType ==
  ASSUME NEW R, NEW table \in Seq(R), NEW id \in Nat, NEW row \in R
  PROVE  WriteStatusRow(table, id, row) \in Seq(R)
<1>1. CASE id = 0
  BY <1>1 DEF WriteStatusRow
<1>2. CASE id \in 1 .. Len(table)
  BY <1>2, ExceptSeq DEF WriteStatusRow
<1>3. CASE id \notin 0 .. Len(table)
  BY <1>3 DEF WriteStatusRow
<1>. QED  BY <1>1, <1>2, <1>3

(* The values a handler works with, free of the records they come from.    *)
LEMMA HandlerTypes ==
  ASSUME TypeInv
  PROVE  /\ h \in HandlerState /\ h.pc \in Step /\ h.id \in Nat /\ h.last \in StatusRow
         /\ h.last.date \in Nat /\ h.last.money \in Nat /\ h.last.status \in {0, 1}
         /\ h.pc # "idle" => /\ h.n \in DOMAIN sent /\ h.n \in 1 .. regime.sends
                             /\ h.n \in Nat /\ Msg \in Message
                             /\ Msg.date \in Nat /\ Msg.money \in Nat /\ Msg.tank \in {0, 1}
                             /\ NewRow \in StatusRow
<1>1. /\ h \in HandlerState /\ h.pc \in Step /\ h.id \in Nat /\ h.last \in StatusRow
      /\ h.last.date \in Nat /\ h.last.money \in Nat /\ h.last.status \in {0, 1}
  BY DEF TypeInv, TypeOK, HandlerState, StatusRow
<1>2. ASSUME h.pc # "idle"
      PROVE  /\ h.n \in DOMAIN sent /\ h.n \in 1 .. regime.sends
             /\ h.n \in Nat /\ Msg \in Message
             /\ Msg.date \in Nat /\ Msg.money \in Nat /\ Msg.tank \in {0, 1}
             /\ NewRow \in StatusRow
  <2>1. h.n \in DOMAIN sent /\ sent \in Seq(Message) /\ regime.sends \in Nat
    BY <1>2, RegimeType DEF TypeInv, TypeOK, HandlerOK
  <2>2. h.n \in 1 .. Len(sent) /\ Len(sent) \in Nat /\ Len(sent) <= regime.sends
    BY <2>1, LenProperties DEF TypeInv, PlacesOK
  <2>3. h.n \in 1 .. regime.sends /\ h.n \in Nat
    BY <2>1, <2>2
  <2>4. Msg \in Message
    BY <2>1, <2>2, ElementOfSeq DEF Msg
  <2>5. Msg.date \in Nat /\ Msg.money \in Nat /\ Msg.tank \in {0, 1}
    BY <2>4 DEF Message
  <2>6. NewRow \in StatusRow
    BY <2>5 DEF NewRow, StatusRow
  <2>. QED  BY <2>1, <2>3, <2>4, <2>5, <2>6
<1>. QED  BY <1>1, <1>2

(* What a step of the handler may leave to its own lemma.                  *)
LEMMA StoreType ==
  ASSUME TypeInv, h' \in HandlerState, HandlerOK', UNCHANGED <<wire, queue, regime>>,
         status' \in Seq(StatusRow), linkAlerts' \in Seq(Alert),
         tankAlerts' \in Seq(Alert), saleAlerts' \in Seq(Alert),
         rows' \in [1 .. regime.sends -> Nat], dead' \in [1 .. regime.sends -> Nat],
         lastSale' \in Nat, config' \in [ConfigTheme -> Seq([n: Nat, date: Nat])],
         lost' \subseteq Money
  PROVE  TypeInv'
<1>1. /\ board' = board /\ sent' = sent /\ acked' = acked /\ flight' = flight
      /\ cuts' = cuts /\ queue' = queue /\ regime' = regime
  BY DEF wire
<1>2. Money' = Money
  BY <1>1 DEF Money
<1>3. TypeOK'
  BY <1>1, <1>2 DEF TypeInv, TypeOK, HandlerState
<1>. QED  BY <1>1, <1>3 DEF TypeInv, PlacesOK

LEMMA NowType ==
  ASSUME TypeInv
  PROVE  Now \in Nat
<1>1. sent \in Seq(Message)
  BY DEF TypeInv, TypeOK
<1>2. CASE sent = <<>>
  BY <1>2, GapAssumption DEF Now
<1>3. CASE sent # <<>>
  <2>1. Len(sent) \in 1 .. Len(sent)
    BY <1>1, <1>3, EmptySeq
  <2>2. sent[Len(sent)] \in Message
    BY <1>1, <2>1, ElementOfSeq
  <2>. QED  BY <1>3, <2>2 DEF Now, Message
<1>. QED  BY <1>2, <1>3

(* The board sends: one message more, and no other state than its own.     *)
LEMMA BoardSends ==
  ASSUME TypeInv, Board
  PROVE  /\ \E m \in Message, gap \in regime.gaps :
              sent' = Append(sent, m) /\ m.date = Now + gap
         /\ sent' \in Seq(Message) /\ Len(sent') = Len(sent) + 1
         /\ Len(sent) \in Nat /\ Len(sent') <= regime.sends
         /\ DOMAIN sent = 1 .. Len(sent) /\ DOMAIN sent' = 1 .. Len(sent')
         /\ DOMAIN sent \subseteq DOMAIN sent'
         /\ \A i \in DOMAIN sent : sent'[i] = sent[i]
         /\ board' \in [money: Nat, tank: {0, 1}]
         /\ UNCHANGED <<acked, flight, cuts, queue, h, status, alerts, ledger, rest>>
<1>1. /\ board.money \in Nat /\ board.tank \in {0, 1} /\ sent \in Seq(Message)
      /\ Now \in Nat
  BY NowType DEF TypeInv, TypeOK
<1>2. PICK theme \in Theme, money \in Nat, tank \in {0, 1} : Send(theme, money, tank)
  <2>1. CASE Sell
    <3>1. "sales" \in Theme /\ board.money + 1 \in Nat
      BY <1>1 DEF Theme
    <3>. QED  BY <2>1, <1>1, <3>1 DEF Sell
  <2>2. CASE Collect
    BY <2>2, <1>1 DEF Collect, Theme
  <2>3. CASE SendStatus
    BY <2>3, <1>1 DEF SendStatus, Theme
  <2>4. CASE SendConfig
    BY <2>4, <1>1 DEF SendConfig, Theme, ConfigTheme
  <2>. QED  BY <2>1, <2>2, <2>3, <2>4 DEF Board
<1>3. PICK gap \in regime.gaps, body \in regime.bodies :
        sent' = Append(sent, [theme |-> theme, body |-> body, date |-> Now + gap,
                              money |-> money, tank |-> tank])
  BY <1>2 DEF Send
<1>4. Now + gap \in Nat /\ body \in Body
  BY <1>1, RegimeType DEF TypeInv, TypeOK
<1>5. PICK m \in Message : m.date = Now + gap /\ sent' = Append(sent, m)
  <2>. DEFINE new == [theme |-> theme, body |-> body, date |-> Now + gap,
                      money |-> money, tank |-> tank]
  <2>1. new \in Message /\ new.date = Now + gap
    BY <1>4 DEF Message
  <2>. QED  BY <1>3, <2>1
<1>6. /\ sent' \in Seq(Message) /\ Len(sent') = Len(sent) + 1 /\ Len(sent) \in Nat
      /\ DOMAIN sent = 1 .. Len(sent) /\ DOMAIN sent' = 1 .. Len(sent')
      /\ \A i \in 1 .. Len(sent) : sent'[i] = sent[i]
  BY <1>1, <1>5, AppendProperties, LenProperties
<1>7. Len(sent) < regime.sends /\ regime.sends \in Nat
  BY <1>2, RegimeType DEF Send, TypeInv, TypeOK
<1>8. Len(sent') <= regime.sends /\ DOMAIN sent \subseteq DOMAIN sent'
  BY <1>6, <1>7
<1>9. board' \in [money: Nat, tank: {0, 1}]
  BY <1>2 DEF Send
<1>. QED  BY <1>2, <1>5, <1>6, <1>8, <1>9 DEF Send

LEMMA BoardType == TypeInv /\ Board => TypeInv'
<1>. SUFFICES ASSUME TypeInv, Board PROVE TypeInv'
  OBVIOUS
<1>1. /\ sent' \in Seq(Message) /\ Len(sent') = Len(sent) + 1 /\ Len(sent) \in Nat
      /\ Len(sent') <= regime.sends /\ DOMAIN sent \subseteq DOMAIN sent'
      /\ \A i \in DOMAIN sent : sent'[i] = sent[i]
      /\ board' \in [money: Nat, tank: {0, 1}]
      /\ UNCHANGED <<acked, flight, cuts, queue, h, status, alerts, ledger, rest>>
  BY BoardSends
<1>2. TypeOK /\ PlacesOK /\ HandlerOK
  BY DEF TypeInv
<1>3. queue' \in Seq(DOMAIN sent')
  BY <1>1, <1>2, SeqMonotonic DEF TypeOK
<1>4. Money \subseteq Money'
  BY <1>1 DEF Money
<1>5. PlacesOK'
  <2>1. acked \in Nat /\ flight \in Nat /\ acked + flight <= Len(sent)
    BY <1>2 DEF TypeOK, PlacesOK
  <2>. QED  BY <1>1, <2>1 DEF PlacesOK, rest
<1>6. HandlerOK'
  <2>1. CASE h.pc = "idle"
    BY <1>1, <2>1 DEF HandlerOK, StatusStage, SaleStage, ConfigStage
  <2>2. CASE h.pc # "idle"
    <3>1. h' = h /\ h.n \in DOMAIN sent /\ Msg' = Msg
      BY <1>1, <1>2, <2>2 DEF HandlerOK, Msg
    <3>. QED  BY <1>1, <1>2, <3>1 DEF HandlerOK
  <2>. QED  BY <2>1, <2>2
<1>7. TypeOK'
  BY <1>1, <1>2, <1>3, <1>4 DEF TypeOK, alerts, ledger, rest
<1>. QED  BY <1>5, <1>6, <1>7 DEF TypeInv

(* A connection's steps, and what the dispatcher takes off the queue.      *)
LEMMA QueueType ==
  ASSUME TypeInv, UNCHANGED <<board, sent, status, alerts, ledger, config, regime>>,
         acked' \in Nat, flight' \in Nat, cuts' \in Nat, acked' + flight' <= Len(sent),
         queue' \in Seq(DOMAIN sent), h' \in HandlerState, HandlerOK', lost' \subseteq Money
  PROVE  TypeInv'
<1>1. Money' = Money
  BY DEF Money
<1>2. TypeOK'
  BY <1>1 DEF TypeInv, TypeOK, HandlerState, alerts, ledger
<1>. QED  BY <1>2 DEF TypeInv, PlacesOK

LEMMA HandlerKept ==
  ASSUME TypeInv, UNCHANGED <<sent, h>>
  PROVE  h' \in HandlerState /\ HandlerOK'
<1>1. Msg' = Msg /\ ConfigTheme' = ConfigTheme
  BY DEF Msg, ConfigTheme
<1>. QED  BY <1>1 DEF TypeInv, TypeOK, HandlerState, HandlerOK

LEMMA HandlerIdle ==
  ASSUME h' = Idle
  PROVE  h' \in HandlerState /\ HandlerOK'
  BY IdleType DEF HandlerOK, StatusStage, SaleStage, ConfigStage

LEMMA LoseType ==
  ASSUME TypeInv, NEW messages, Lose(messages)
  PROVE  lost' \subseteq Money
  BY DEF TypeInv, TypeOK, Lose

LEMMA ConnectionType == TypeInv /\ Connection => TypeInv'
<1>. SUFFICES ASSUME TypeInv, Connection PROVE TypeInv'
  OBVIOUS
<1>1. /\ acked \in Nat /\ flight \in Nat /\ cuts \in Nat /\ acked + flight <= Len(sent)
      /\ Len(sent) \in Nat /\ DOMAIN sent = 1 .. Len(sent) /\ queue \in Seq(DOMAIN sent)
      /\ lost \subseteq Money
  BY LenProperties DEF TypeInv, TypeOK, PlacesOK
<1>2. CASE Receive
  <2>1. /\ acked + flight < Len(sent) /\ queue' = Append(queue, acked + flight + 1)
        /\ \/ flight' = flight + 1 /\ acked' = acked
           \/ flight' = flight /\ acked' = acked + 1
        /\ UNCHANGED <<board, sent, cuts, h, status, alerts, ledger, rest>>
    BY <1>2 DEF Receive
  <2>2. /\ acked' \in Nat /\ flight' \in Nat /\ acked' + flight' <= Len(sent)
        /\ acked + flight + 1 \in DOMAIN sent
    BY <1>1, <2>1
  <2>3. queue' \in Seq(DOMAIN sent)
    BY <1>1, <2>1, <2>2, AppendProperties
  <2>. QED  BY <1>1, <2>1, <2>2, <2>3, HandlerKept, QueueType DEF rest
<1>3. CASE Acknowledge
  BY <1>1, <1>3, HandlerKept, QueueType DEF Acknowledge, rest
<1>4. CASE Cut
  BY <1>1, <1>4, HandlerKept, QueueType DEF Cut, rest
<1>5. CASE Crash
  <2>1. <<>> \in Seq(DOMAIN sent) /\ cuts + 1 \in Nat /\ acked + 0 <= Len(sent)
    BY <1>1, EmptySeq
  <2>2. lost' \subseteq Money
    BY <1>5, LoseType DEF Crash
  <2>. QED  BY <1>1, <1>5, <2>1, <2>2, HandlerIdle, QueueType DEF Crash
<1>. QED  BY <1>2, <1>3, <1>4, <1>5 DEF Connection

(* The head of the queue and what is left of it.                           *)
LEMMA QueueHead ==
  ASSUME TypeInv, queue # <<>>
  PROVE  /\ Len(queue) \in Nat \ {0} /\ DOMAIN queue = 1 .. Len(queue)
         /\ Head(queue) = queue[1] /\ Head(queue) \in DOMAIN sent
         /\ Tail(queue) \in Seq(DOMAIN sent) /\ Len(Tail(queue)) = Len(queue) - 1
         /\ \A i \in 1 .. Len(queue) - 1 : Tail(queue)[i] = queue[i + 1]
<1>1. queue \in Seq(DOMAIN sent)
  BY DEF TypeInv, TypeOK
<1>. QED  BY <1>1, EmptySeq, LenProperties, HeadTailProperties

LEMMA DispatcherType ==
  ASSUME TypeInv, Take \/ Discard \/ Refuse \/ ReadDevice
  PROVE  TypeInv'
<1>1. /\ acked \in Nat /\ flight \in Nat /\ cuts \in Nat /\ acked + flight <= Len(sent)
      /\ acked + 0 <= Len(sent) /\ cuts + 1 \in Nat
      /\ sent \in Seq(Message) /\ queue \in Seq(DOMAIN sent) /\ lost \subseteq Money
      /\ status \in Seq(StatusRow)
  BY LenProperties DEF TypeInv, TypeOK, PlacesOK
<1>2. CASE Take
  <2>1. /\ h' = [Idle EXCEPT !.pc = "read", !.n = Head(queue)] /\ queue' = Tail(queue)
        /\ queue # <<>> /\ sent[Head(queue)].body # "unreadable"
        /\ UNCHANGED <<wire, status, alerts, ledger, rest>>
    BY <1>2 DEF Take
  <2>2. Head(queue) \in DOMAIN sent /\ Head(queue) \in Nat /\ Tail(queue) \in Seq(DOMAIN sent)
    BY <1>1, <2>1, QueueHead, LenProperties
  <2>3. h'.pc = "read" /\ h'.n = Head(queue)
    BY <2>1 DEF Idle
  <2>4. h' \in HandlerState
    BY <2>1, <2>2, IdleType DEF HandlerState, Step
  <2>5. Msg' = sent[Head(queue)] /\ sent' = sent
    BY <2>1, <2>3 DEF Msg, wire
  <2>6. HandlerOK'
    BY <2>1, <2>2, <2>3, <2>5 DEF HandlerOK, StatusStage, SaleStage, ConfigStage
  <2>. QED  BY <1>1, <2>1, <2>2, <2>4, <2>6, QueueType DEF wire, rest
<1>3. CASE Discard
  <2>1. /\ queue # <<>> /\ queue' = Tail(queue)
        /\ UNCHANGED <<wire, h, status, alerts, ledger, rest>>
    BY <1>3 DEF Discard
  <2>2. Tail(queue) \in Seq(DOMAIN sent)
    BY <2>1, QueueHead
  <2>. QED  BY <1>1, <2>1, <2>2, HandlerKept, QueueType DEF wire, rest
<1>4. CASE Refuse
  <2>1. h' \in HandlerState /\ HandlerOK'
    BY <1>4, EndType DEF Refuse
  <2>2. lost' \subseteq Money
    BY <1>4, LoseType DEF Refuse
  <2>. QED  BY <1>1, <1>4, <2>1, <2>2, QueueType DEF Refuse
<1>5. CASE ReadDevice
  <2>1. PICK i \in QueryResult(NewestStatus(status), 0) :
          h' = IF FirstStep = "idle" THEN Idle
               ELSE [h EXCEPT !.pc = FirstStep, !.id = i,
                              !.last = IF i = 0 THEN NoRow ELSE status[i]]
    BY <1>5 DEF ReadDevice
  <2>2. h.pc = "read" /\ UNCHANGED <<wire, queue, status, alerts, ledger, rest>>
    BY <1>5 DEF ReadDevice
  <2>3. h \in HandlerState /\ h.n \in DOMAIN sent /\ Msg \in Message
        /\ Msg.body # "unreadable"
    BY <2>2, HandlerTypes DEF TypeInv, HandlerOK
  <2>4. CASE FirstStep = "idle"
    BY <1>1, <2>1, <2>2, <2>4, HandlerIdle, QueueType DEF wire, rest
  <2>5. CASE FirstStep # "idle"
    <3>1. i = 0 \/ i \in 1 .. Len(status)
      BY <1>1, LenProperties DEF QueryResult, NewestStatus, IsNewest
    <3>2. i \in Nat /\ (i = 0 \/ status[i] \in StatusRow)
      BY <1>1, <3>1, ElementOfSeq, LenProperties
    <3>3. PICK row \in StatusRow : row = IF i = 0 THEN NoRow ELSE status[i]
      BY <3>2 DEF NoRow, StatusRow
    <3>4. h' = [h EXCEPT !.pc = FirstStep, !.id = i, !.last = row]
      BY <2>1, <2>5, <3>3
    <3>5. /\ FirstStep = "dead" => Msg.theme \in {"sales", "encash"} /\ Msg.body = "misshapen"
          /\ FirstStep = "store" => Msg.theme = "status" /\ Msg.body # "misshapen"
          /\ FirstStep = "sale" => Msg.theme = "sales" /\ Msg.body # "misshapen"
          /\ FirstStep = "encash" => Msg.theme = "encash" /\ Msg.body # "misshapen"
          /\ FirstStep = "readConfig" => Msg.theme \in ConfigTheme /\ Msg.body # "misshapen"
          /\ FirstStep \in {"dead", "store", "sale", "encash", "readConfig"}
      BY <2>3, <2>5 DEF FirstStep, Message, Theme
    <3>6. Msg.body \in {"good", "misshapen"}
      BY <2>3 DEF Message, Body
    <3>7. h' \in HandlerState /\ h'.pc = FirstStep /\ h'.n = h.n
      BY <2>3, <3>2, <3>4, <3>5 DEF HandlerState, Step
    <3>8. Msg' = Msg /\ sent' = sent
      BY <2>2, <3>7 DEF Msg, wire
    <3>9. HandlerOK'
      BY <2>3, <3>5, <3>6, <3>7, <3>8
         DEF HandlerOK, StatusStage, SaleStage, ConfigStage, ConfigTheme
    <3>. QED  BY <1>1, <2>2, <3>7, <3>9, QueueType DEF wire, rest
  <2>. QED  BY <2>4, <2>5
<1>. QED  BY <1>2, <1>3, <1>4, <1>5

(* The steps of a handler past the message's first step.                   *)
StatusStep ==
    \/ WriteStatus \/ ReadLinkAlert \/ InsertLinkLost \/ InsertLinkBack \/ ReadLastSale
    \/ CheckSaleAlert \/ InsertNoSales \/ MailNoSales
    \/ InsertTankEmpty \/ MailTankEmpty \/ InsertTankFilling
MoneyStep ==
    InsertEncash \/ InsertSaleRow \/ ReadSaleAlert \/ InsertSalesBack \/ InsertDeadLetter
ConfigStep == ReadConfig \/ WriteConfig

(* Where a status goes.                                                    *)
LEMMA StatusSteps ==
  ASSUME TypeInv, StatusStep
  PROVE  /\ h.pc \in StatusStage /\ h.pc # "idle"
         /\ h' \in HandlerState /\ HandlerOK'
         /\ UNCHANGED <<wire, queue, ledger, rest>>
         /\ WriteStatus => h.pc = "store" /\ Goes(IF IsFirst THEN AfterSales ELSE "readLink")
         /\ ReadLinkAlert => h.pc = "readLink"
         /\ InsertLinkLost => h.pc = "linkLost" /\ Goes("linkBack")
         /\ InsertLinkBack => h.pc = "linkBack" /\ Goes(AfterLink)
         /\ ReadLastSale => h.pc = "readLastSale" /\ (Goes("checkAlert") \/ Goes(AfterSales))
         /\ CheckSaleAlert => h.pc = "checkAlert" /\ (Goes("noSales") \/ Goes(AfterSales))
         /\ InsertNoSales => h.pc = "noSales" /\ Goes("mailSales")
         /\ MailNoSales => h.pc = "mailSales" /\ Goes(AfterSales)
         /\ InsertTankEmpty => h.pc = "tankEmpty" /\ Goes("mailTank")
         /\ MailTankEmpty => h.pc = "mailTank" /\ Goes("idle")
         /\ InsertTankFilling => h.pc = "tankFilling" /\ Goes("idle")
<1>1. /\ UNCHANGED <<wire, queue, ledger, rest>>
      /\ h.pc \in StatusStage /\ h.pc # "idle"
  BY DEF StatusStep, WriteStatus, ReadLinkAlert, InsertLinkLost, InsertLinkBack, ReadLastSale,
         CheckSaleAlert, InsertNoSales, MailNoSales, InsertTankEmpty, MailTankEmpty,
         InsertTankFilling, StatusStage
<1>2. {AfterSales, AfterLink, "readLink", "linkBack", "linkLost", "checkAlert", "noSales",
       "mailSales", "mailTank", "idle"} \subseteq StatusStage \cup {"idle"}
  BY StageTells DEF StatusStage
<1>3. PICK pc \in StatusStage \cup {"idle"} : Goto(pc)
  <2>1. CASE WriteStatus \/ InsertLinkLost \/ InsertLinkBack \/ InsertNoSales \/ MailNoSales
             \/ InsertTankEmpty \/ MailTankEmpty \/ InsertTankFilling
    BY <1>2, <2>1 DEF WriteStatus, InsertLinkLost, InsertLinkBack, InsertNoSales, MailNoSales,
                      InsertTankEmpty, MailTankEmpty, InsertTankFilling
  <2>2. CASE ReadLinkAlert
    <3>1. PICK code : Goto(CASE ~IsLate -> AfterLink
                             [] IsLate /\ code = "link_lost" -> "linkBack"
                             [] OTHER -> "linkLost")
      BY <2>2 DEF ReadLinkAlert
    <3>. QED  BY <1>2, <3>1
  <2>3. CASE ReadLastSale \/ CheckSaleAlert
    BY <1>2, <2>3 DEF ReadLastSale, CheckSaleAlert
  <2>. QED  BY <2>1, <2>2, <2>3 DEF StatusStep
<1>4. h' \in HandlerState /\ HandlerOK'
  BY <1>1, <1>3, BranchType DEF wire
<1>5. \A next \in StatusStage \cup {"idle"} : Goto(next) => Goes(next)
  BY GotoGoes, StageTells
<1>6. /\ WriteStatus => h.pc = "store" /\ Goes(IF IsFirst THEN AfterSales ELSE "readLink")
      /\ ReadLinkAlert => h.pc = "readLink"
      /\ InsertLinkLost => h.pc = "linkLost" /\ Goes("linkBack")
      /\ InsertLinkBack => h.pc = "linkBack" /\ Goes(AfterLink)
  BY <1>2, <1>5 DEF WriteStatus, ReadLinkAlert, InsertLinkLost, InsertLinkBack
<1>7. /\ ReadLastSale => h.pc = "readLastSale" /\ (Goes("checkAlert") \/ Goes(AfterSales))
      /\ CheckSaleAlert => h.pc = "checkAlert" /\ (Goes("noSales") \/ Goes(AfterSales))
  BY <1>2, <1>5 DEF ReadLastSale, CheckSaleAlert
<1>8. /\ InsertNoSales => h.pc = "noSales" /\ Goes("mailSales")
      /\ MailNoSales => h.pc = "mailSales" /\ Goes(AfterSales)
      /\ InsertTankEmpty => h.pc = "tankEmpty" /\ Goes("mailTank")
      /\ MailTankEmpty => h.pc = "mailTank" /\ Goes("idle")
      /\ InsertTankFilling => h.pc = "tankFilling" /\ Goes("idle")
  BY <1>2, <1>5 DEF InsertNoSales, MailNoSales, InsertTankEmpty, MailTankEmpty,
                    InsertTankFilling
<1>. QED  BY <1>1, <1>4, <1>6, <1>7, <1>8

(* Where a sale, an encashment or a message that cannot be read goes.      *)
LEMMA MoneySteps ==
  ASSUME TypeInv, MoneyStep
  PROVE  /\ h.pc \in SaleStage \cup {"encash", "dead"} /\ h.pc # "idle"
         /\ h' \in HandlerState /\ HandlerOK'
         /\ UNCHANGED <<wire, queue, status, linkAlerts, tankAlerts, config, regime>>
         /\ InsertEncash => h.pc = "encash" /\ Goes("idle")
         /\ InsertSaleRow => h.pc = "sale" /\ Goes("readSaleAlert")
         /\ ReadSaleAlert => h.pc = "readSaleAlert" /\ (Goes("salesBack") \/ Goes("idle"))
         /\ InsertSalesBack => h.pc = "salesBack" /\ Goes("idle")
         /\ InsertDeadLetter => h.pc = "dead" /\ Goes("idle")
<1>1. /\ UNCHANGED <<wire, queue, status, linkAlerts, tankAlerts, config, regime>>
      /\ h.pc \in SaleStage \cup {"encash", "dead"} /\ h.pc # "idle"
  BY DEF MoneyStep, InsertEncash, InsertSaleRow, ReadSaleAlert, InsertSalesBack,
         InsertDeadLetter, SaleStage, alerts, rest
<1>2. ASSUME InsertEncash \/ InsertDeadLetter \/ InsertSalesBack
      PROVE  h' \in HandlerState /\ HandlerOK' /\ Goes("idle")
  BY <1>2, EndType DEF InsertEncash, InsertDeadLetter, InsertSalesBack
<1>3. ASSUME InsertSaleRow PROVE h' \in HandlerState /\ HandlerOK' /\ Goes("readSaleAlert")
  <2>1. h.pc \in SaleStage /\ "readSaleAlert" \in SaleStage \cup {"idle"}
    BY <1>3 DEF InsertSaleRow, SaleStage
  <2>. QED  BY <1>1, <1>3, <2>1, BranchType DEF InsertSaleRow, wire
<1>4. ASSUME ReadSaleAlert
      PROVE  h' \in HandlerState /\ HandlerOK' /\ (Goes("salesBack") \/ Goes("idle"))
  <2>1. h.pc \in SaleStage /\ {"salesBack", "idle"} \subseteq SaleStage \cup {"idle"}
    BY <1>4 DEF ReadSaleAlert, SaleStage
  <2>2. Goto("salesBack") \/ Goto("idle")
    BY <1>4 DEF ReadSaleAlert
  <2>. QED  BY <1>1, <2>1, <2>2, BranchType DEF wire
<1>. QED
  BY <1>1, <1>2, <1>3, <1>4
     DEF MoneyStep, InsertEncash, InsertSaleRow, ReadSaleAlert, InsertSalesBack,
         InsertDeadLetter

(* Where a message about the machine itself goes.                          *)
LEMMA ConfigSteps ==
  ASSUME TypeInv, ConfigStep
  PROVE  /\ h.pc \in ConfigStage /\ h.pc # "idle" /\ Msg.theme \in ConfigTheme
         /\ h' \in HandlerState /\ HandlerOK'
         /\ UNCHANGED <<wire, queue, status, alerts, ledger, lost, regime>>
         /\ ReadConfig =>
              /\ h.pc = "readConfig" /\ UNCHANGED config
              /\ h'.pc = "writeConfig" /\ h'.n = h.n
              /\ h'.id \in QueryResult(NewestStatus(config[Msg.theme]), 0)
         /\ WriteConfig => h.pc = "writeConfig" /\ Goes("idle")
<1>1. /\ UNCHANGED <<wire, queue, status, alerts, ledger, lost, regime>>
      /\ h.pc \in ConfigStage /\ h.pc # "idle"
  BY DEF ConfigStep, ReadConfig, WriteConfig, ConfigStage, rest
<1>2. Msg.theme \in ConfigTheme /\ Msg.body = "good" /\ h.n \in DOMAIN sent
      /\ h \in HandlerState
  BY <1>1, HandlerTypes DEF TypeInv, HandlerOK
<1>3. ASSUME ReadConfig
      PROVE  /\ h' \in HandlerState /\ HandlerOK' /\ h'.pc = "writeConfig" /\ h'.n = h.n
             /\ h'.id \in QueryResult(NewestStatus(config[Msg.theme]), 0)
  <2>1. PICK i \in QueryResult(NewestStatus(config[Msg.theme]), 0) :
          h' = [h EXCEPT !.pc = "writeConfig", !.id = i]
    BY <1>3 DEF ReadConfig
  <2>2. config[Msg.theme] \in Seq([n: Nat, date: Nat])
    BY <1>2 DEF TypeInv, TypeOK
  <2>3. i \in Nat
    BY <2>2, LenProperties DEF QueryResult, NewestStatus, IsNewest
  <2>4. /\ h' \in HandlerState /\ h'.pc = "writeConfig" /\ h'.n = h.n /\ h'.id = i
    BY <1>2, <2>1, <2>3 DEF HandlerState, Step
  <2>5. Msg' = Msg /\ sent' = sent /\ ConfigTheme' = ConfigTheme
    BY <1>1, <2>4 DEF Msg, wire, ConfigTheme
  <2>6. HandlerOK'
    BY <1>2, <2>4, <2>5 DEF HandlerOK, StatusStage, SaleStage, ConfigStage
  <2>. QED  BY <2>1, <2>4, <2>6
<1>4. ASSUME WriteConfig PROVE h' \in HandlerState /\ HandlerOK' /\ Goes("idle")
  BY <1>4, EndType DEF WriteConfig
<1>. QED  BY <1>1, <1>2, <1>3, <1>4 DEF ConfigStep, ReadConfig, WriteConfig, rest

(* Adding one to a message's count.                                        *)
LEMMA CountedType ==
  ASSUME NEW S, NEW table \in [S -> Nat], NEW n \in S
  PROVE  [table EXCEPT ![n] = @ + 1] \in [S -> Nat]
  OBVIOUS

LEMMA StageTypeInv ==
  ASSUME TypeInv, StatusStep \/ MoneyStep \/ ConfigStep
  PROVE  TypeInv'
<1>1. /\ status \in Seq(StatusRow) /\ linkAlerts \in Seq(Alert)
      /\ tankAlerts \in Seq(Alert) /\ saleAlerts \in Seq(Alert)
      /\ rows \in [1 .. regime.sends -> Nat] /\ dead \in [1 .. regime.sends -> Nat]
      /\ lastSale \in Nat /\ config \in [ConfigTheme -> Seq([n: Nat, date: Nat])]
      /\ lost \subseteq Money
      /\ {"link_lost", "link_back", "tank_empty", "tank_filling", "no_sales",
          "sales_back"} \subseteq AlertCode
  BY DEF TypeInv, TypeOK, AlertCode
<1>2. /\ h.pc # "idle" => /\ h.n \in 1 .. regime.sends /\ h.n \in DOMAIN sent
                          /\ h.n \in Nat /\ Msg.date \in Nat /\ NewRow \in StatusRow
      /\ h.id \in Nat /\ h.last.date + LinkAlertDelay \in Nat
  BY HandlerTypes, GapAssumption
<1>3. CASE StatusStep
  <2>1. /\ h' \in HandlerState /\ HandlerOK' /\ UNCHANGED <<wire, queue, ledger, rest>>
        /\ h.pc # "idle"
    BY <1>3, StatusSteps
  <2>2. status' \in Seq(StatusRow)
    <3>1. WriteStatusRow(status, h.id, NewRow) \in Seq(StatusRow)
      BY <1>1, <1>2, <2>1, WriteRowType
    <3>. QED
      BY <1>1, <1>3, <3>1
         DEF StatusStep, WriteStatus, ReadLinkAlert, InsertLinkLost, InsertLinkBack,
             ReadLastSale, CheckSaleAlert, InsertNoSales, MailNoSales, InsertTankEmpty,
             MailTankEmpty, InsertTankFilling
  <2>3. /\ linkAlerts' \in Seq(Alert) /\ tankAlerts' \in Seq(Alert)
        /\ saleAlerts' \in Seq(Alert)
    <3>1. /\ InsertAlert(linkAlerts, "link_lost", h.last.date + LinkAlertDelay) \in Seq(Alert)
          /\ InsertAlert(linkAlerts, "link_back", Msg.date) \in Seq(Alert)
          /\ InsertAlert(tankAlerts, "tank_empty", Msg.date) \in Seq(Alert)
          /\ InsertAlert(tankAlerts, "tank_filling", Msg.date) \in Seq(Alert)
          /\ InsertAlert(saleAlerts, "no_sales", Msg.date) \in Seq(Alert)
      BY <1>1, <1>2, <2>1, InsertAlertType
    <3>. QED
      BY <1>1, <1>3, <3>1
         DEF StatusStep, WriteStatus, ReadLinkAlert, InsertLinkLost, InsertLinkBack,
             ReadLastSale, CheckSaleAlert, InsertNoSales, MailNoSales, InsertTankEmpty,
             MailTankEmpty, InsertTankFilling, alerts
  <2>. QED  BY <1>1, <2>1, <2>2, <2>3, StoreType DEF ledger, rest
<1>4. CASE MoneyStep
  <2>1. /\ h' \in HandlerState /\ HandlerOK' /\ h.pc # "idle"
        /\ h.pc \in SaleStage \cup {"encash", "dead"}
        /\ UNCHANGED <<wire, queue, status, linkAlerts, tankAlerts, config, regime>>
    BY <1>4, MoneySteps
  <2>2. h.n \in Money
    BY <1>2, <2>1 DEF TypeInv, HandlerOK, Msg, Money
  <2>3. /\ [rows EXCEPT ![h.n] = @ + 1] \in [1 .. regime.sends -> Nat]
        /\ [dead EXCEPT ![h.n] = @ + 1] \in [1 .. regime.sends -> Nat]
        /\ lost \cup {h.n} \subseteq Money
    BY <1>1, <1>2, <2>1, <2>2, CountedType
  <2>4. InsertAlert(saleAlerts, "sales_back", Msg.date) \in Seq(Alert)
    BY <1>1, <1>2, <2>1, InsertAlertType
  <2>5. /\ rows' \in [1 .. regime.sends -> Nat] /\ dead' \in [1 .. regime.sends -> Nat]
        /\ lost' \subseteq Money
    BY <1>1, <1>4, <2>3
       DEF MoneyStep, InsertEncash, InsertSaleRow, ReadSaleAlert, InsertSalesBack,
           InsertDeadLetter, ledger, rest
  <2>6. lastSale' \in Nat /\ saleAlerts' \in Seq(Alert)
    BY <1>1, <1>2, <1>4, <2>1, <2>4
       DEF MoneyStep, InsertEncash, InsertSaleRow, ReadSaleAlert, InsertSalesBack,
           InsertDeadLetter, ledger, alerts
  <2>. QED  BY <1>1, <2>1, <2>5, <2>6, StoreType
<1>5. CASE ConfigStep
  <2>1. /\ h' \in HandlerState /\ HandlerOK' /\ h.pc # "idle" /\ Msg.theme \in ConfigTheme
        /\ UNCHANGED <<wire, queue, status, alerts, ledger, lost, regime>>
    BY <1>5, ConfigSteps
  <2>2. PICK row \in [n: Nat, date: Nat] : row = [n |-> h.n, date |-> Msg.date]
    BY <1>2, <2>1
  <2>3. WriteStatusRow(config[Msg.theme], h.id, row) \in Seq([n: Nat, date: Nat])
    BY <1>1, <1>2, <2>1, <2>2, WriteRowType
  <2>4. config' \in [ConfigTheme -> Seq([n: Nat, date: Nat])]
    <3>1. CASE ReadConfig
      BY <1>1, <3>1 DEF ReadConfig, rest
    <3>2. CASE WriteConfig
      <4>. DEFINE table == WriteStatusRow(config[Msg.theme], h.id, row)
      <4>1. config' = [config EXCEPT ![Msg.theme] = table] \/ config' = config
        BY <3>2, <2>2 DEF WriteConfig
      <4>2. [config EXCEPT ![Msg.theme] = table] \in [ConfigTheme -> Seq([n: Nat, date: Nat])]
        <5>. HIDE DEF table
        <5>. QED  BY <1>1, <2>1, <2>3 DEF table
      <4>. QED  BY <1>1, <4>1, <4>2
    <3>. QED  BY <1>5, <3>1, <3>2 DEF ConfigStep
  <2>. QED  BY <1>1, <2>1, <2>4, StoreType DEF alerts, ledger
<1>. QED  BY <1>3, <1>4, <1>5

LEMMA NextSteps ==
  Next <=> \/ Board \/ Receive \/ Acknowledge \/ Cut \/ Crash
           \/ Take \/ Discard \/ Refuse \/ ReadDevice
           \/ StatusStep \/ MoneyStep \/ ConfigStep
  BY DEF Next, Connection, Dispatch, StatusStep, MoneyStep, ConfigStep

LEMMA NextTypeInv == TypeInv /\ [Next]_vars => TypeInv'
<1>. SUFFICES ASSUME TypeInv, [Next]_vars PROVE TypeInv'
  OBVIOUS
<1>1. CASE UNCHANGED vars
  <2>1. /\ UNCHANGED <<board, sent, acked, flight, cuts, queue, h, regime, status,
                       linkAlerts, tankAlerts, saleAlerts, rows, dead, lastSale, config, lost>>
        /\ Msg' = Msg /\ Money' = Money
    BY <1>1 DEF vars, wire, alerts, ledger, rest, Msg, Money
  <2>. QED  BY <2>1 DEF TypeInv, TypeOK, PlacesOK, HandlerOK, ConfigTheme
<1>2. CASE Next
  BY <1>2, BoardType, ConnectionType, DispatcherType, StageTypeInv, NextSteps DEF Connection
<1>. QED  BY <1>1, <1>2

LEMMA InitTypeInv == Init => TypeInv
<1>. SUFFICES ASSUME Init PROVE TypeInv
  OBVIOUS
<1>1. /\ regime \in Regimes /\ regime.sends \in Nat
  BY RegimeType DEF Init
<1>2. /\ \A S : <<>> \in Seq(S)
      /\ Len(<<>>) = 0
  BY EmptySeq
<1>3. h \in HandlerState /\ h.pc = "idle"
  BY IdleType DEF Init
<1>4. /\ rows \in [1 .. regime.sends -> Nat] /\ dead \in [1 .. regime.sends -> Nat]
      /\ config \in [ConfigTheme -> Seq([n: Nat, date: Nat])]
  BY <1>2 DEF Init
<1>5. TypeOK
  BY <1>1, <1>2, <1>3, <1>4 DEF Init, TypeOK, HandlerState
<1>6. PlacesOK /\ HandlerOK
  BY <1>1, <1>2, <1>3 DEF Init, PlacesOK, HandlerOK, StatusStage, SaleStage, ConfigStage
<1>. QED  BY <1>5, <1>6 DEF TypeInv

(* Every message in memory is one the board sent and every row has its     *)
(* type, whatever is lost, repeated, cannot be read or fails.              *)
THEOREM TypeCorrect == Spec => []TypeOK
  BY InitTypeInv, NextTypeInv, PTL DEF Spec, TypeInv

-----------------------------------------------------------------------------
(***************************************************************************)
(* Sales and encashments: how many copies of a message there are, counting *)
(* what has become of it, and that one is left of every message that has   *)
(* arrived.                                                                *)
(***************************************************************************)
(* The stages of a handler that has kept nothing of its message yet.       *)
Pending == {"read", "encash", "sale", "dead"}

Places(q, n) == {i \in DOMAIN q : q[i] = n}
Count(q, n) == Cardinality(Places(q, n))
Taken(n) == IF h.pc \in Pending /\ h.n = n THEN 1 ELSE 0
Arrived(n) == IF n <= acked + flight THEN 1 ELSE 0

(* A message arrives once, and once more for every connection lost.        *)
CopiesInv ==
    \A n \in 1 .. regime.sends :
        rows[n] + dead[n] + Count(queue, n) + Taken(n) <= cuts + Arrived(n)

Waiting(n) == Places(queue, n) # {} \/ Taken(n) = 1

KeptInv ==
    \A n \in Money :
        sent[n].body # "unreadable" /\ n <= acked + flight =>
            rows[n] + dead[n] > 0 \/ n \in lost \/ Waiting(n)

LEMMA CountType ==
  ASSUME NEW S, NEW q \in Seq(S), NEW n
  PROVE  /\ IsFiniteSet(Places(q, n)) /\ Count(q, n) \in Nat
         /\ Count(<<>>, n) = 0 /\ Places(<<>>, n) = {}
<1>1. DOMAIN q = 1 .. Len(q) /\ Len(q) \in Nat /\ DOMAIN <<>> = {}
  BY EmptySeq
<1>2. IsFiniteSet(1 .. Len(q))
  BY <1>1, FS_Interval
<1>3. Places(q, n) \subseteq 1 .. Len(q)
  BY <1>1 DEF Places
<1>4. IsFiniteSet(Places(q, n))
  BY <1>2, <1>3, FS_Subset
<1>5. Places(<<>>, n) = {}
  BY <1>1 DEF Places
<1>. QED  BY <1>4, <1>5, FS_CardinalityType, FS_EmptySet DEF Count

LEMMA CountAppend ==
  ASSUME NEW S, NEW q \in Seq(S), NEW m \in S, NEW n
  PROVE  /\ Count(Append(q, m), n) = IF m = n THEN Count(q, n) + 1 ELSE Count(q, n)
         /\ m = n => Places(Append(q, m), n) # {}
         /\ Places(q, n) \subseteq Places(Append(q, m), n)
<1>. DEFINE new == Append(q, m)
<1>1. /\ Len(q) \in Nat /\ DOMAIN q = 1 .. Len(q) /\ DOMAIN new = 1 .. Len(q) + 1
      /\ \A i \in 1 .. Len(q) : new[i] = q[i]
      /\ new[Len(q) + 1] = m
  BY AppendProperties, LenProperties
<1>. HIDE DEF new
<1>2. CASE m = n
  <2>1. Places(new, n) = Places(q, n) \cup {Len(q) + 1}
    <3>1. ASSUME NEW i PROVE i \in Places(new, n) <=> i \in Places(q, n) \cup {Len(q) + 1}
      BY <1>1, <1>2 DEF Places
    <3>. QED  BY <3>1
  <2>2. Len(q) + 1 \notin Places(q, n)
    BY <1>1 DEF Places
  <2>. QED  BY <1>2, <2>1, <2>2, CountType, FS_AddElement DEF Count, new
<1>3. CASE m # n
  <2>1. Places(new, n) = Places(q, n)
    <3>1. ASSUME NEW i PROVE i \in Places(new, n) <=> i \in Places(q, n)
      BY <1>1, <1>3 DEF Places
    <3>. QED  BY <3>1
  <2>. QED  BY <1>3, <2>1 DEF Count, new
<1>. QED  BY <1>2, <1>3

(* What the head of a queue was, its tail has one copy less of.            *)
LEMMA CountTail ==
  ASSUME NEW S, NEW q \in Seq(S), q # <<>>, NEW n
  PROVE  /\ Count(Tail(q), n) + (IF Head(q) = n THEN 1 ELSE 0) <= Count(q, n)
         /\ Head(q) # n /\ Places(q, n) # {} => Places(Tail(q), n) # {}
<1>1. /\ Len(q) \in Nat \ {0} /\ DOMAIN q = 1 .. Len(q) /\ Head(q) = q[1]
      /\ Tail(q) \in Seq(S) /\ DOMAIN Tail(q) = 1 .. Len(q) - 1
      /\ \A i \in 1 .. Len(q) - 1 : Tail(q)[i] = q[i + 1]
  BY EmptySeq, LenProperties, HeadTailProperties
<1>. DEFINE old == Places(q, n)
            new == Places(Tail(q), n)
            f == [i \in new |-> i + 1]
<1>2. new \subseteq 1 .. Len(q) - 1 /\ old \subseteq 1 .. Len(q)
  BY <1>1 DEF Places
<1>3. \A i \in 1 .. Len(q) - 1 : i \in new <=> i + 1 \in old
  BY <1>1 DEF Places
<1>4. IsFiniteSet(old) /\ IsFiniteSet(new) /\ Count(q, n) \in Nat
      /\ Count(Tail(q), n) \in Nat
  BY <1>1, CountType
<1>5. 1 \in old <=> Head(q) = n
  BY <1>1 DEF Places
<1>. HIDE DEF old, new
<1>6. f \in Injection(new, old \ {1})
  <2>1. \A i \in new : i + 1 \in old \ {1}
    BY <1>1, <1>2, <1>3
  <2>2. f \in [new -> old \ {1}]
    BY <2>1
  <2>3. \A i, j \in new : f[i] = f[j] => i = j
    BY <1>1, <1>2
  <2>. QED  BY <2>2, <2>3 DEF Injection, IsInjective
<1>7. IsFiniteSet(old \ {1})
      /\ Cardinality(old \ {1}) = IF Head(q) = n THEN Cardinality(old) - 1 ELSE Cardinality(old)
  BY <1>4, <1>5, FS_RemoveElement
<1>8. Cardinality(new) <= Cardinality(old \ {1})
  <2>. HIDE DEF f
  <2>. QED  BY <1>6, <1>7, FS_Injection
<1>9. ASSUME Head(q) # n, old # {} PROVE new # {}
  <2>1. PICK j : j \in old
    BY <1>9
  <2>2. j \in 1 .. Len(q) /\ j # 1
    BY <1>2, <1>5, <1>9, <2>1
  <2>3. j - 1 \in 1 .. Len(q) - 1 /\ (j - 1) + 1 = j
    BY <1>1, <2>2
  <2>. QED  BY <1>3, <2>1, <2>3
<1>10. Cardinality(new) + (IF Head(q) = n THEN 1 ELSE 0) <= Cardinality(old)
  BY <1>4, <1>7, <1>8 DEF Count, old, new
<1>. QED  BY <1>9, <1>10 DEF Count, old, new

LEMMA CopyTypes ==
  ASSUME TypeInv, NEW n \in 1 .. regime.sends
  PROVE  /\ n \in Nat /\ rows[n] \in Nat /\ dead[n] \in Nat /\ Count(queue, n) \in Nat
         /\ Taken(n) \in {0, 1} /\ Arrived(n) \in {0, 1}
         /\ cuts \in Nat /\ acked \in Nat /\ flight \in Nat
<1>1. /\ queue \in Seq(DOMAIN sent) /\ rows \in [1 .. regime.sends -> Nat]
      /\ dead \in [1 .. regime.sends -> Nat] /\ regime.sends \in Nat
      /\ cuts \in Nat /\ acked \in Nat /\ flight \in Nat
  BY RegimeType DEF TypeInv, TypeOK
<1>. QED  BY <1>1, CountType DEF Taken, Arrived

(* A handler that goes on keeps its message among those it has not kept    *)
(* yet, or the message was neither a sale nor an encashment.               *)
LEMMA HandlerPasses ==
  ASSUME TypeInv, CopiesInv, KeptInv,
         UNCHANGED <<sent, acked, flight, cuts, queue, regime, rows, dead, lost>>,
         \A n \in 1 .. regime.sends : Taken(n)' <= Taken(n),
         \A n \in Money : Taken(n) = 1 => Taken(n)' = 1
  PROVE  CopiesInv' /\ KeptInv'
<1>1. Money' = Money
  BY DEF Money
<1>2. ASSUME NEW n \in 1 .. regime.sends
      PROVE  rows'[n] + dead'[n] + Count(queue', n) + Taken(n)' <= cuts' + Arrived(n)'
  <2>1. Arrived(n)' = Arrived(n) /\ Taken(n)' \in {0, 1}
    BY DEF Arrived, Taken
  <2>2. rows[n] + dead[n] + Count(queue, n) + Taken(n) <= cuts + Arrived(n)
    BY DEF CopiesInv
  <2>. QED  BY <2>1, <2>2, CopyTypes
<1>3. KeptInv'
  BY <1>1 DEF KeptInv, Waiting
<1>. QED  BY <1>2, <1>3 DEF CopiesInv

(* A message is kept: it is a row or a dead letter more, or it is lost.    *)
LEMMA HandlerBooks ==
  ASSUME TypeInv, CopiesInv, KeptInv, UNCHANGED <<sent, acked, flight, cuts, queue, regime>>,
         h.pc \in Pending, h'.pc \notin Pending,
         \/ rows' = [rows EXCEPT ![h.n] = @ + 1] /\ UNCHANGED <<dead, lost>>
         \/ dead' = [dead EXCEPT ![h.n] = @ + 1] /\ UNCHANGED <<rows, lost>>
         \/ lost' = lost \cup {h.n} /\ UNCHANGED <<rows, dead>>
  PROVE  CopiesInv' /\ KeptInv'
<1>1. Money' = Money /\ h.pc # "idle" /\ h.n \in 1 .. regime.sends
  <2>1. Money' = Money /\ h.pc # "idle"
    BY DEF Money, Pending
  <2>. QED  BY <2>1, HandlerTypes
<1>2. /\ rows \in [1 .. regime.sends -> Nat] /\ dead \in [1 .. regime.sends -> Nat]
  BY DEF TypeInv, TypeOK
<1>3. ASSUME NEW n \in 1 .. regime.sends
      PROVE  /\ rows'[n] + dead'[n] \in Nat
             /\ rows'[n] + dead'[n] <= rows[n] + dead[n] + Taken(n)
             /\ rows'[n] + dead'[n] >= rows[n] + dead[n]
             /\ n = h.n => rows'[n] + dead'[n] > 0 \/ n \in lost'
             /\ Taken(n)' = 0 /\ Arrived(n)' = Arrived(n)
             /\ n # h.n => Taken(n) = 0
  <2>1. /\ Taken(n)' = 0 /\ Arrived(n)' = Arrived(n) /\ (n # h.n => Taken(n) = 0)
        /\ (n = h.n => Taken(n) = 1)
    BY DEF Taken, Arrived
  <2>2. /\ rows'[n] = rows[n] \/ (n = h.n /\ rows'[n] = rows[n] + 1)
        /\ dead'[n] = dead[n] \/ (n = h.n /\ dead'[n] = dead[n] + 1)
        /\ rows'[n] = rows[n] \/ dead'[n] = dead[n]
        /\ n = h.n => rows'[n] = rows[n] + 1 \/ dead'[n] = dead[n] + 1 \/ n \in lost'
    BY <1>2
  <2>3. rows[n] \in Nat /\ dead[n] \in Nat
    BY <1>2
  <2>. QED  BY <2>1, <2>2, <2>3
<1>4. ASSUME NEW n \in 1 .. regime.sends
      PROVE  rows'[n] + dead'[n] + Count(queue', n) + Taken(n)' <= cuts' + Arrived(n)'
  <2>1. rows[n] + dead[n] + Count(queue, n) + Taken(n) <= cuts + Arrived(n)
    BY DEF CopiesInv
  <2>. QED  BY <1>3, <2>1, CopyTypes
<1>5. ASSUME NEW n \in Money, sent[n].body # "unreadable", n <= acked + flight
      PROVE  rows'[n] + dead'[n] > 0 \/ n \in lost' \/ Waiting(n)'
  <2>1. n \in 1 .. regime.sends
    BY RegimeType, LenProperties DEF Money, TypeInv, TypeOK, PlacesOK
  <2>2. rows[n] + dead[n] > 0 \/ n \in lost \/ Waiting(n)
    BY <1>5 DEF KeptInv
  <2>3. rows[n] \in Nat /\ dead[n] \in Nat /\ lost \subseteq lost'
    BY <1>2, <2>1
  <2>4. n # h.n => (Waiting(n) => Waiting(n)')
    BY <1>3, <2>1 DEF Waiting
  <2>. QED  BY <1>3, <2>1, <2>2, <2>3, <2>4
<1>. QED  BY <1>1, <1>4, <1>5 DEF CopiesInv, KeptInv

(* The places of the sales and encashments among all messages.             *)
LEMMA MoneyType ==
  ASSUME TypeInv
  PROVE  Money \subseteq 1 .. regime.sends
  BY RegimeType, LenProperties DEF Money, TypeInv, TypeOK, PlacesOK

LEMMA BoardCopies ==
  ASSUME TypeInv, CopiesInv, KeptInv, Board
  PROVE  CopiesInv' /\ KeptInv'
<1>1. /\ sent' \in Seq(Message) /\ Len(sent') = Len(sent) + 1 /\ Len(sent) \in Nat
      /\ DOMAIN sent = 1 .. Len(sent) /\ DOMAIN sent' = 1 .. Len(sent')
      /\ \A i \in DOMAIN sent : sent'[i] = sent[i]
      /\ UNCHANGED <<acked, flight, cuts, queue, h, rows, dead, lost, regime>>
  BY BoardSends DEF ledger, rest
<1>2. \A n : Taken(n)' = Taken(n) /\ Arrived(n)' = Arrived(n) /\ Waiting(n)' = Waiting(n)
  BY <1>1 DEF Taken, Arrived, Waiting
<1>3. acked \in Nat /\ flight \in Nat /\ acked + flight <= Len(sent)
  BY DEF TypeInv, TypeOK, PlacesOK
<1>4. ASSUME NEW n \in Money', n <= acked + flight
      PROVE  n \in Money /\ sent'[n] = sent[n]
  <2>1. n \in 1 .. Len(sent)
    BY <1>1, <1>3, <1>4 DEF Money
  <2>. QED  BY <1>1, <2>1 DEF Money
<1>5. CopiesInv'
  BY <1>1, <1>2 DEF CopiesInv
<1>6. KeptInv'
  BY <1>1, <1>2, <1>4 DEF KeptInv
<1>. QED  BY <1>5, <1>6

(* What is lost with the process or a refused connection is in memory.     *)
LEMMA ConnectionCopies ==
  ASSUME TypeInv, CopiesInv, KeptInv, Connection
  PROVE  CopiesInv' /\ KeptInv'
<1>1. /\ queue \in Seq(DOMAIN sent) /\ Len(sent) \in Nat /\ DOMAIN sent = 1 .. Len(sent)
      /\ acked \in Nat /\ flight \in Nat /\ cuts \in Nat
  BY LenProperties DEF TypeInv, TypeOK
<1>2. UNCHANGED <<sent, rows, dead, regime>> /\ Money' = Money
  BY DEF Connection, Receive, Acknowledge, Cut, Crash, ledger, rest, Money
<1>3. \A n \in 1 .. regime.sends :
        rows[n] + dead[n] + Count(queue, n) + Taken(n) <= cuts + Arrived(n)
  BY DEF CopiesInv
<1>4. CASE Receive
  <2>0. PICK m \in Nat : m = acked + flight + 1
    BY <1>1
  <2>1. /\ acked + flight < Len(sent) /\ queue' = Append(queue, m)
        /\ acked' + flight' = m /\ acked' \in Nat /\ flight' \in Nat
        /\ UNCHANGED <<cuts, h, lost>>
    <3>1. /\ acked + flight < Len(sent) /\ queue' = Append(queue, acked + flight + 1)
          /\ \/ flight' = flight + 1 /\ acked' = acked
             \/ flight' = flight /\ acked' = acked + 1
          /\ UNCHANGED <<cuts, h, lost>>
      BY <1>4 DEF Receive, rest
    <3>2. acked' + flight' = acked + flight + 1 /\ acked' \in Nat /\ flight' \in Nat
      BY <1>1, <3>1
    <3>. QED  BY <2>0, <3>1, <3>2
  <2>2. m \in DOMAIN sent
    BY <1>1, <2>0, <2>1
  <2>3. ASSUME NEW n \in 1 .. regime.sends
        PROVE  rows'[n] + dead'[n] + Count(queue', n) + Taken(n)' <= cuts' + Arrived(n)'
    <3>1. Count(queue', n) = IF m = n THEN Count(queue, n) + 1 ELSE Count(queue, n)
      <4>1. queue' = Append(queue, m) /\ queue \in Seq(DOMAIN sent)
        BY <1>1, <2>1
      <4>2. Count(Append(queue, m), n) = IF m = n THEN Count(queue, n) + 1 ELSE Count(queue, n)
        BY <2>2, <4>1, CountAppend
      <4>. QED  BY <4>1, <4>2
    <3>2. Taken(n)' = Taken(n)
      BY <2>1 DEF Taken
    <3>3. n \in Nat /\ acked + flight \in Nat /\ acked' + flight' = acked + flight + 1
      <4>1. n \in Nat
        BY CopyTypes
      <4>2. acked + flight \in Nat
        BY <1>1
      <4>. QED  BY <2>0, <2>1, <4>1, <4>2
    <3>4. Arrived(n)' = IF m = n THEN Arrived(n) + 1 ELSE Arrived(n)
      BY <2>0, <3>3 DEF Arrived
    <3>5. /\ rows[n] \in Nat /\ dead[n] \in Nat /\ Count(queue, n) \in Nat
          /\ Taken(n) \in {0, 1} /\ Arrived(n) \in {0, 1} /\ cuts \in Nat
      BY CopyTypes
    <3>6. rows'[n] = rows[n] /\ dead'[n] = dead[n] /\ cuts' = cuts
      BY <1>2, <2>1
    <3>7. rows[n] + dead[n] + Count(queue, n) + Taken(n) <= cuts + Arrived(n)
      BY <1>3
    <3>. QED  BY <3>1, <3>2, <3>4, <3>5, <3>6, <3>7
  <2>4. ASSUME NEW n \in Money, sent[n].body # "unreadable", n <= m
        PROVE  rows[n] + dead[n] > 0 \/ n \in lost \/ Waiting(n)'
    <3>1. Places(queue, n) \subseteq Places(queue', n)
          /\ (m = n => Places(queue', n) # {})
      BY <1>1, <2>1, <2>2, CountAppend
    <3>2. Taken(n)' = Taken(n)
      BY <2>1 DEF Taken
    <3>3. m # n => n <= acked + flight
      BY <1>1, <2>0, <2>4, MoneyType, CopyTypes
    <3>. QED  BY <2>4, <3>1, <3>2, <3>3 DEF KeptInv, Waiting
  <2>. QED  BY <1>2, <2>1, <2>3, <2>4 DEF CopiesInv, KeptInv
<1>5. CASE Acknowledge
  <2>1. acked' + flight' = acked + flight /\ UNCHANGED <<cuts, queue, h, lost>>
    BY <1>1, <1>5 DEF Acknowledge, rest
  <2>2. \A n : Taken(n)' = Taken(n) /\ Arrived(n)' = Arrived(n) /\ Waiting(n)' = Waiting(n)
    BY <2>1 DEF Taken, Arrived, Waiting
  <2>. QED  BY <1>2, <2>1, <2>2 DEF CopiesInv, KeptInv
<1>6. CASE Cut
  <2>1. /\ flight' = 0 /\ cuts' = cuts + 1 /\ UNCHANGED <<acked, queue, h, lost>>
    BY <1>6 DEF Cut, rest
  <2>2. \A n : Taken(n)' = Taken(n) /\ Arrived(n)' >= 0 /\ Waiting(n)' = Waiting(n)
    BY <2>1 DEF Taken, Arrived, Waiting
  <2>3. ASSUME NEW n \in 1 .. regime.sends
        PROVE  rows'[n] + dead'[n] + Count(queue', n) + Taken(n)' <= cuts' + Arrived(n)'
    <3>1. Arrived(n)' \in {0, 1}
      BY DEF Arrived
    <3>. QED  BY <1>2, <1>3, <2>1, <2>2, <3>1, CopyTypes
  <2>4. \A n \in Money : n <= acked' + flight' => n <= acked + flight
    BY <1>1, <2>1, MoneyType, CopyTypes
  <2>. QED  BY <1>2, <2>1, <2>2, <2>3, <2>4 DEF CopiesInv, KeptInv
<1>7. CASE Crash
  <2>1. /\ flight' = 0 /\ cuts' = cuts + 1 /\ queue' = <<>> /\ h' = Idle
        /\ acked' = acked /\ lost' = lost \cup (InMemory \cap Money \cap 1 .. acked)
    BY <1>7 DEF Crash, Lose
  <2>2. \A n : Taken(n)' = 0 /\ Count(queue', n) = 0
    BY <1>1, <2>1, IdleType, CountType DEF Taken, Pending
  <2>3. ASSUME NEW n \in 1 .. regime.sends
        PROVE  rows'[n] + dead'[n] + Count(queue', n) + Taken(n)' <= cuts' + Arrived(n)'
    <3>1. Arrived(n)' \in {0, 1}
      BY DEF Arrived
    <3>. QED  BY <1>2, <1>3, <2>1, <2>2, <3>1, CopyTypes
  <2>4. ASSUME NEW n \in Money, sent[n].body # "unreadable", n <= acked' + flight'
        PROVE  rows[n] + dead[n] > 0 \/ n \in lost'
    <3>1. n \in 1 .. acked /\ n <= acked + flight
      BY <1>1, <2>1, <2>4, MoneyType, CopyTypes
    <3>2. Waiting(n) => n \in InMemory
      BY DEF Waiting, Places, Taken, InMemory
    <3>. QED  BY <2>1, <2>4, <3>1, <3>2 DEF KeptInv
  <2>. QED  BY <1>2, <2>3, <2>4 DEF CopiesInv, KeptInv
<1>. QED  BY <1>4, <1>5, <1>6, <1>7 DEF Connection

LEMMA DispatcherCopies ==
  ASSUME TypeInv, CopiesInv, KeptInv, Take \/ Discard \/ Refuse \/ ReadDevice
  PROVE  CopiesInv' /\ KeptInv'
<1>1. /\ queue \in Seq(DOMAIN sent) /\ Len(sent) \in Nat /\ DOMAIN sent = 1 .. Len(sent)
      /\ acked \in Nat /\ flight \in Nat /\ cuts \in Nat
  BY LenProperties DEF TypeInv, TypeOK
<1>2. UNCHANGED <<sent, acked, rows, dead, regime>> /\ Money' = Money
  BY DEF Take, Discard, Refuse, ReadDevice, wire, ledger, rest, Money
<1>3. \A n \in 1 .. regime.sends :
        rows[n] + dead[n] + Count(queue, n) + Taken(n) <= cuts + Arrived(n)
  BY DEF CopiesInv
<1>4. CASE Take \/ Discard
  <2>1. /\ queue # <<>> /\ queue' = Tail(queue) /\ h.pc = "idle"
        /\ UNCHANGED <<flight, cuts, lost>>
    BY <1>4 DEF Take, Discard, wire, rest
  <2>2. \A n : Taken(n) = 0 /\ Taken(n)' \in {0, 1} /\ Arrived(n)' = Arrived(n)
    BY <1>2, <2>1 DEF Taken, Arrived, Pending
  <2>3. /\ Take => \A n : Taken(n)' = IF Head(queue) = n THEN 1 ELSE 0
        /\ Discard => /\ sent[Head(queue)].body = "unreadable"
                      /\ \A n : Taken(n)' = 0
    <3>1. ASSUME Take PROVE \A n : Taken(n)' = IF Head(queue) = n THEN 1 ELSE 0
      <4>1. h'.pc = "read" /\ h'.n = Head(queue)
        BY <3>1 DEF Take, Idle
      <4>. QED  BY <4>1 DEF Taken, Pending
    <3>2. ASSUME Discard
          PROVE  sent[Head(queue)].body = "unreadable" /\ \A n : Taken(n)' = 0
      BY <2>1, <3>2 DEF Discard, Taken, Pending
    <3>. QED  BY <3>1, <3>2
  <2>4. ASSUME NEW n \in 1 .. regime.sends
        PROVE  rows'[n] + dead'[n] + Count(queue', n) + Taken(n)' <= cuts' + Arrived(n)'
    <3>1. Count(queue', n) + (IF Head(queue) = n THEN 1 ELSE 0) <= Count(queue, n)
          /\ Count(queue', n) \in Nat
      <4>1. queue' \in Seq(DOMAIN sent)
        BY <1>1, <2>1, QueueHead
      <4>. QED  BY <1>1, <2>1, <4>1, CountTail, CountType
    <3>2. Taken(n)' <= IF Head(queue) = n THEN 1 ELSE 0
      BY <1>4, <2>2, <2>3
    <3>3. /\ rows[n] \in Nat /\ dead[n] \in Nat /\ Count(queue, n) \in Nat
          /\ Taken(n) = 0 /\ Taken(n)' \in {0, 1} /\ Arrived(n) \in {0, 1} /\ cuts \in Nat
          /\ rows'[n] = rows[n] /\ dead'[n] = dead[n] /\ cuts' = cuts
          /\ Arrived(n)' = Arrived(n)
      BY <1>2, <2>1, <2>2, CopyTypes
    <3>4. rows[n] + dead[n] + Count(queue, n) + Taken(n) <= cuts + Arrived(n)
      BY <1>3
    <3>. QED  BY <3>1, <3>2, <3>3, <3>4
  <2>5. ASSUME NEW n \in Money, sent[n].body # "unreadable", Waiting(n)
        PROVE  Waiting(n)'
    <3>1. Places(queue, n) # {}
      BY <2>2, <2>5 DEF Waiting
    <3>2. CASE Head(queue) = n
      BY <1>4, <2>3, <2>5, <3>2 DEF Waiting
    <3>3. CASE Head(queue) # n
      BY <1>1, <2>1, <3>1, <3>3, CountTail DEF Waiting
    <3>. QED  BY <3>2, <3>3
  <2>. QED  BY <1>2, <2>1, <2>4, <2>5 DEF CopiesInv, KeptInv
<1>5. CASE Refuse
  <2>1. /\ flight' = 0 /\ cuts' = cuts + 1 /\ queue' = queue /\ h' = Idle
        /\ lost' = lost \cup ({h.n} \cap Money \cap 1 .. acked)
    BY <1>5 DEF Refuse, Lose, Goto
  <2>2. \A n : Taken(n)' = 0 /\ Taken(n) \in {0, 1}
    BY <2>1, IdleType DEF Taken, Pending
  <2>3. ASSUME NEW n \in 1 .. regime.sends
        PROVE  rows'[n] + dead'[n] + Count(queue', n) + Taken(n)' <= cuts' + Arrived(n)'
    <3>1. Arrived(n)' \in {0, 1}
      BY DEF Arrived
    <3>. QED  BY <1>2, <1>3, <2>1, <2>2, <3>1, CopyTypes
  <2>4. ASSUME NEW n \in Money, sent[n].body # "unreadable", n <= acked' + flight'
        PROVE  rows[n] + dead[n] > 0 \/ n \in lost' \/ Waiting(n)'
    <3>1. n \in 1 .. acked /\ n <= acked + flight
      BY <1>1, <1>2, <2>1, <2>4, MoneyType, CopyTypes
    <3>2. Waiting(n) => n = h.n \/ Waiting(n)'
      BY <2>1 DEF Waiting, Taken
    <3>. QED  BY <2>1, <2>4, <3>1, <3>2 DEF KeptInv
  <2>. QED  BY <1>2, <2>3, <2>4 DEF CopiesInv, KeptInv
<1>6. CASE ReadDevice
  <2>1. h.pc = "read" /\ UNCHANGED <<sent, acked, flight, cuts, queue, regime, rows, dead, lost>>
    BY <1>6 DEF ReadDevice, wire, ledger, rest
  <2>2. \A n : h.n = n => Taken(n) = 1
    BY <2>1 DEF Taken, Pending
  <2>3. \A n : h.n # n => Taken(n) = 0 /\ Taken(n)' = 0
    <3>1. h' = Idle \/ h'.n = h.n
      BY <1>6 DEF ReadDevice, TypeInv, TypeOK
    <3>. QED  BY <3>1, IdleType DEF Taken, Pending
  <2>4. h.n \in Money => Taken(h.n)' = 1
    <3>1. ASSUME h.n \in Money
          PROVE  FirstStep \in {"dead", "sale", "encash"}
      BY <3>1 DEF Money, FirstStep, Msg
    <3>2. ASSUME h.n \in Money
          PROVE  h'.pc \in {"dead", "sale", "encash"} /\ h'.n = h.n
      <4>1. PICK i \in QueryResult(NewestStatus(status), 0) :
              h' = [h EXCEPT !.pc = FirstStep, !.id = i,
                             !.last = IF i = 0 THEN NoRow ELSE status[i]]
        BY <1>6, <3>1, <3>2 DEF ReadDevice
      <4>. QED  BY <3>1, <3>2, <4>1 DEF TypeInv, TypeOK
    <3>. QED  BY <3>2 DEF Taken, Pending
  <2>5. \A n \in 1 .. regime.sends : Taken(n)' <= Taken(n)
    <3>1. \A n : Taken(n)' \in {0, 1} /\ Taken(n) \in {0, 1}
      BY DEF Taken
    <3>. QED  BY <2>2, <2>3, <3>1
  <2>. QED  BY <2>1, <2>3, <2>4, <2>5, HandlerPasses
<1>. QED  BY <1>4, <1>5, <1>6

(* The handler of a status stays with it, past the write of its row.       *)
LEMMA StatusGoes ==
  ASSUME TypeInv, StatusStep
  PROVE  \E pc \in (StatusStage \ {"store"}) \cup {"idle"} : Goes(pc)
<1>1. /\ AfterSales \in (StatusStage \ {"store"}) \cup {"idle"}
      /\ AfterLink \in (StatusStage \ {"store"}) \cup {"idle"}
      /\ {"readLink", "linkLost", "linkBack", "checkAlert", "noSales", "mailSales",
          "mailTank"} \subseteq StatusStage \ {"store"}
  BY StageTells DEF StatusStage
<1>2. CASE ReadLinkAlert
  <2>1. PICK code : Goto(CASE ~IsLate -> AfterLink
                           [] IsLate /\ code = "link_lost" -> "linkBack"
                           [] OTHER -> "linkLost")
    BY <1>2 DEF ReadLinkAlert
  <2>2. Goto(AfterLink) \/ Goto("linkBack") \/ Goto("linkLost")
    BY <2>1
  <2>3. {AfterLink, "linkBack", "linkLost"} \subseteq Step
    BY <1>1, StageTells
  <2>. QED  BY <1>1, <2>2, <2>3, GotoGoes
<1>3. CASE ~ReadLinkAlert
  BY <1>1, <1>3, StatusSteps DEF StatusStep
<1>. QED  BY <1>2, <1>3

LEMMA StageCopies ==
  ASSUME TypeInv, CopiesInv, KeptInv, StatusStep \/ MoneyStep \/ ConfigStep
  PROVE  CopiesInv' /\ KeptInv'
<1>0. {"idle", "readSaleAlert", "salesBack", "writeConfig", "readConfig"} \cap Pending = {}
      /\ StatusStage \cap Pending = {}
  BY DEF Pending, StatusStage
<1>1. h.n \in Money => h.n \in 1 .. regime.sends
  BY MoneyType
<1>2. ASSUME h.pc \notin Pending, h'.pc \notin Pending,
             UNCHANGED <<wire, queue, regime, rows, dead, lost>>
      PROVE  CopiesInv' /\ KeptInv'
  <2>1. \A n : Taken(n) = 0 /\ Taken(n)' = 0
    BY <1>2 DEF Taken
  <2>. QED  BY <1>2, <2>1, HandlerPasses DEF wire
<1>3. CASE StatusStep
  <2>1. h.pc \in StatusStage /\ UNCHANGED <<wire, queue, ledger, rest>>
    BY <1>3, StatusSteps
  <2>2. h'.pc \in StatusStage \cup {"idle"}
    BY <1>3, StatusGoes DEF Goes
  <2>. QED  BY <1>0, <1>2, <2>1, <2>2 DEF ledger, rest
<1>4. CASE InsertEncash \/ InsertSaleRow \/ InsertDeadLetter
  <2>1. /\ h.pc \in Pending /\ h'.pc \in {"idle", "readSaleAlert"}
        /\ UNCHANGED <<wire, queue, regime>>
    BY <1>4, MoneySteps DEF MoneyStep, Goes, Pending
  <2>2. \/ rows' = [rows EXCEPT ![h.n] = @ + 1] /\ UNCHANGED <<dead, lost>>
        \/ dead' = [dead EXCEPT ![h.n] = @ + 1] /\ UNCHANGED <<rows, lost>>
        \/ lost' = lost \cup {h.n} /\ UNCHANGED <<rows, dead>>
    <3>1. CASE InsertEncash
      BY <3>1 DEF InsertEncash
    <3>2. CASE InsertSaleRow
      BY <3>2 DEF InsertSaleRow
    <3>3. CASE InsertDeadLetter
      BY <3>3 DEF InsertDeadLetter
    <3>. QED  BY <1>4, <3>1, <3>2, <3>3
  <2>. QED  BY <1>0, <2>1, <2>2, HandlerBooks DEF wire
<1>5. CASE ReadSaleAlert \/ InsertSalesBack
  <2>1. h.pc \in {"readSaleAlert", "salesBack"} /\ h'.pc \in {"salesBack", "idle"}
        /\ UNCHANGED <<wire, queue, regime>>
    BY <1>5, MoneySteps DEF MoneyStep, Goes
  <2>2. UNCHANGED <<rows, dead, lost>>
    BY <1>5 DEF ReadSaleAlert, InsertSalesBack, ledger, rest
  <2>. QED  BY <1>0, <1>2, <2>1, <2>2
<1>6. CASE ConfigStep
  <2>1. h.pc \in ConfigStage /\ h'.pc \in {"writeConfig", "idle"}
        /\ UNCHANGED <<wire, queue, ledger, lost, regime>>
    BY <1>6, ConfigSteps DEF ConfigStep, Goes
  <2>. QED  BY <1>0, <1>2, <2>1 DEF ConfigStage, ledger
<1>. QED  BY <1>3, <1>4, <1>5, <1>6 DEF MoneyStep

LEMMA CopiesStep == TypeInv /\ CopiesInv /\ KeptInv /\ [Next]_vars => CopiesInv' /\ KeptInv'
<1>. SUFFICES ASSUME TypeInv, CopiesInv, KeptInv, [Next]_vars PROVE CopiesInv' /\ KeptInv'
  OBVIOUS
<1>1. CASE UNCHANGED vars
  <2>1. UNCHANGED <<sent, acked, flight, cuts, queue, h, regime, rows, dead, lost>>
    BY <1>1 DEF vars, wire, ledger, rest
  <2>2. \A n : Taken(n)' = Taken(n) /\ Taken(n) \in {0, 1}
    BY <2>1 DEF Taken
  <2>. QED  BY <2>1, <2>2, HandlerPasses
<1>2. CASE Next
  BY <1>2, NextSteps, BoardCopies, ConnectionCopies, DispatcherCopies, StageCopies
     DEF Connection
<1>. QED  BY <1>1, <1>2

LEMMA CopiesInit == Init => CopiesInv /\ KeptInv
<1>. SUFFICES ASSUME Init PROVE CopiesInv /\ KeptInv
  OBVIOUS
<1>1. Money = {} /\ <<>> \in Seq(DOMAIN sent)
  BY EmptySeq DEF Init, Money
<1>2. \A n : Count(queue, n) = 0 /\ Taken(n) = 0 /\ Arrived(n) \in {0, 1}
  BY <1>1, CountType, IdleType DEF Init, Taken, Arrived, Pending
<1>3. \A n \in 1 .. regime.sends : rows[n] = 0 /\ dead[n] = 0
  BY DEF Init
<1>4. cuts = 0
  BY DEF Init
<1>. QED  BY <1>1, <1>2, <1>3, <1>4 DEF CopiesInv, KeptInv

(* Every sale and encashment that can be decrypted is kept once for every  *)
(* connection it arrives on, as a row or as a dead letter, unless it died  *)
(* with the process or the connection or its write failed: for any number  *)
(* of messages, repeats, crashes and failures.                             *)
THEOREM SalesCorrect == Spec => []SalesKept
<1>1. TypeInv /\ CopiesInv /\ KeptInv => SalesKept
  <2>. SUFFICES ASSUME TypeInv, CopiesInv, KeptInv, NEW n \in Money,
                       sent[n].body # "unreadable"
                PROVE  /\ rows[n] + dead[n] <= 1 + cuts
                       /\ Quiet => rows[n] + dead[n] > 0 \/ n \in lost
    BY DEF SalesKept
  <2>1. n \in 1 .. regime.sends
    BY MoneyType
  <2>2. rows[n] + dead[n] + Count(queue, n) + Taken(n) <= cuts + Arrived(n)
    BY <2>1 DEF CopiesInv
  <2>3. rows[n] + dead[n] <= 1 + cuts
    BY <2>1, <2>2, CopyTypes
  <2>4. ASSUME Quiet PROVE rows[n] + dead[n] > 0 \/ n \in lost
    <3>1. n <= acked + flight
      <4>1. n \in 1 .. Len(sent) /\ acked = Len(sent)
        BY <2>4, LenProperties DEF Money, Quiet, TypeInv, TypeOK
      <4>. QED  BY <2>1, <4>1, CopyTypes
    <3>2. ~Waiting(n)
      BY <2>4, EmptySeq DEF Quiet, Waiting, Places, Taken, Pending
    <3>. QED  BY <3>1, <3>2 DEF KeptInv
  <2>. QED  BY <2>3, <2>4
<1>2. TypeInv /\ CopiesInv /\ KeptInv /\ [Next]_vars => (TypeInv /\ CopiesInv /\ KeptInv)'
  BY NextTypeInv, CopiesStep
<1>. QED  BY InitTypeInv, CopiesInit, <1>1, <1>2, PTL DEF Spec

-----------------------------------------------------------------------------
(***************************************************************************)
(* The rows kept of a machine: with writes that do not fail there is one   *)
(* row of its status and one of each theme, and a row is always that of    *)
(* the newest message handled, however often older ones come again.        *)
(***************************************************************************)
OneRowInv ==
    ~regime.fails =>
        /\ Len(status) <= 1 /\ \A t \in ConfigTheme : Len(config[t]) <= 1
        /\ h.pc = "store" => \/ h.id = 0 /\ status = <<>>
                             \/ h.id = 1 /\ status # <<>> /\ h.last = status[1]
        /\ h.pc = "writeConfig" => \/ h.id = 0 /\ config[Msg.theme] = <<>>
                                   \/ h.id = 1 /\ config[Msg.theme] # <<>>

Sure == ~regime.crashes /\ ~regime.fails

(* The queue has no gap: what it holds, what the handler has and what has  *)
(* arrived follow one another, or older messages come again.               *)
ChainInv ==
    Sure =>
        /\ \A i \in 1 .. Len(queue) - 1 : queue[i + 1] <= queue[i] + 1
        /\ queue # <<>> => acked + flight <= queue[Len(queue)]
        /\ queue # <<>> /\ h.pc # "idle" => queue[1] <= h.n + 1
        /\ queue = <<>> /\ h.pc # "idle" => acked + flight <= h.n

(* The messages whose content is in the store.                             *)
Unwritten == {"read", "store"} \cup ConfigStage

Handled ==
    IF h.pc = "idle" THEN IF queue = <<>> THEN acked + flight ELSE queue[1] - 1
    ELSE IF h.pc \in Unwritten THEN h.n - 1 ELSE h.n

Good(n, theme) == sent[n].theme = theme /\ sent[n].body = "good"

FreshUpTo(m) ==
    \A j \in DOMAIN sent : j <= m =>
        /\ Good(j, "status") =>
             /\ status # <<>>
             /\ \E k \in DOMAIN sent :
                  /\ j <= k /\ Good(k, "status")
                  /\ status[1].money = sent[k].money /\ status[1].status = sent[k].tank
        /\ \A t \in ConfigTheme : Good(j, t) =>
             /\ config[t] # <<>>
             /\ j <= config[t][1].n /\ config[t][1].n \in DOMAIN sent
             /\ Good(config[t][1].n, t)

FreshInv == Sure => FreshUpTo(Handled)

StoreInv == OneRowInv /\ ChainInv /\ FreshInv

ConfigRow == [n: Nat, date: Nat]

(* The newest row of a table of at most one.                               *)
LEMMA NewestOne ==
  ASSUME NEW R, NEW table \in Seq(R), Len(table) <= 1, \A row \in R : row.date \in Nat
  PROVE  /\ table = <<>> => NewestStatus(table) = {0}
         /\ table # <<>> => NewestStatus(table) = {1} /\ Len(table) = 1
<1>1. CASE table = <<>>
  BY <1>1 DEF NewestStatus
<1>2. CASE table # <<>>
  <2>0. Len(table) \in Nat \ {0} /\ DOMAIN table = 1 .. Len(table)
    BY <1>2, EmptySeq, LenProperties
  <2>1. Len(table) = 1 /\ DOMAIN table = {1}
    BY <2>0
  <2>2. table[1].date \in Nat
    <3>1. table[1] \in R
      BY <2>1, ElementOfSeq
    <3>. QED  BY <3>1
  <2>3. IsNewest(table, 1)
    BY <2>1, <2>2 DEF IsNewest
  <2>. QED  BY <1>2, <2>1, <2>3 DEF NewestStatus
<1>. QED  BY <1>1, <1>2

LEMMA WriteOne ==
  ASSUME NEW R, NEW table \in Seq(R), Len(table) <= 1, NEW row \in R, NEW id,
         (id = 0 /\ table = <<>>) \/ (id = 1 /\ table # <<>>)
  PROVE  /\ WriteStatusRow(table, id, row) # <<>>
         /\ Len(WriteStatusRow(table, id, row)) = 1
         /\ WriteStatusRow(table, id, row)[1] = row
<1>1. CASE id = 0
  <2>1. table = <<>> /\ Len(table) = 0
    BY <1>1, EmptySeq
  <2>2. Append(table, row) \in Seq(R) /\ Len(Append(table, row)) = 1
        /\ Append(table, row)[1] = row
    BY <2>1, AppendProperties
  <2>. QED  BY <1>1, <2>2, EmptySeq DEF WriteStatusRow
<1>2. CASE id = 1
  <2>1. table # <<>> /\ Len(table) = 1 /\ DOMAIN table = {1}
    BY <1>2, EmptySeq, LenProperties
  <2>2. [table EXCEPT ![1] = row] \in Seq(R) /\ Len([table EXCEPT ![1] = row]) = 1
        /\ [table EXCEPT ![1] = row][1] = row
    BY <2>1, ExceptSeq
  <2>. QED  BY <1>2, <2>1, <2>2, EmptySeq DEF WriteStatusRow
<1>. QED  BY <1>1, <1>2

LEMMA StoreTypes ==
  ASSUME TypeInv
  PROVE  /\ status \in Seq(StatusRow) /\ \A row \in StatusRow : row.date \in Nat
         /\ \A t \in ConfigTheme : config[t] \in Seq(ConfigRow)
         /\ \A row \in ConfigRow : row.date \in Nat
         /\ sent \in Seq(Message) /\ Len(sent) \in Nat /\ DOMAIN sent = 1 .. Len(sent)
         /\ queue \in Seq(DOMAIN sent) /\ Len(queue) \in Nat /\ DOMAIN queue = 1 .. Len(queue)
         /\ \A i \in 1 .. Len(queue) : queue[i] \in 1 .. Len(sent)
         /\ acked \in Nat /\ flight \in Nat /\ acked + flight <= Len(sent)
         /\ regime.fails \in BOOLEAN /\ regime.crashes \in BOOLEAN
         /\ regime.repeats \in BOOLEAN
<1>1. /\ status \in Seq(StatusRow) /\ sent \in Seq(Message) /\ queue \in Seq(DOMAIN sent)
      /\ \A t \in ConfigTheme : config[t] \in Seq(ConfigRow)
      /\ acked \in Nat /\ flight \in Nat /\ acked + flight <= Len(sent)
      /\ regime.fails \in BOOLEAN /\ regime.crashes \in BOOLEAN /\ regime.repeats \in BOOLEAN
  BY RegimeType DEF TypeInv, TypeOK, PlacesOK, ConfigRow
<1>2. /\ Len(sent) \in Nat /\ DOMAIN sent = 1 .. Len(sent)
      /\ Len(queue) \in Nat /\ DOMAIN queue = 1 .. Len(queue)
  BY <1>1, LenProperties
<1>3. \A i \in 1 .. Len(queue) : queue[i] \in 1 .. Len(sent)
  BY <1>1, <1>2, ElementOfSeq
<1>. QED  BY <1>1, <1>2, <1>3 DEF StatusRow, ConfigRow

(* With writes that do not fail, the steps that change a row.              *)
LEMMA RowWrites ==
  ASSUME TypeInv, OneRowInv, ~regime.fails, StatusStep \/ ConfigStep
  PROVE  /\ WriteStatus =>
              /\ h.pc = "store" /\ Len(status') = 1 /\ status' # <<>> /\ status'[1] = NewRow
         /\ WriteConfig =>
              /\ h.pc = "writeConfig"
              /\ Len(config'[Msg.theme]) = 1 /\ config'[Msg.theme] # <<>>
              /\ config'[Msg.theme][1] = [n |-> h.n, date |-> Msg.date]
              /\ \A t \in ConfigTheme \ {Msg.theme} : config'[t] = config[t]
         /\ ~WriteStatus => UNCHANGED status
         /\ ~WriteConfig => UNCHANGED config
<1>1. ASSUME WriteStatus
      PROVE  h.pc = "store" /\ Len(status') = 1 /\ status' # <<>> /\ status'[1] = NewRow
  <2>1. h.pc = "store" /\ status' = WriteStatusRow(status, h.id, NewRow)
    BY <1>1 DEF WriteStatus, Outcome
  <2>2. NewRow \in StatusRow
    BY <2>1, HandlerTypes
  <2>. QED  BY <2>1, <2>2, StoreTypes, WriteOne DEF OneRowInv
<1>2. ASSUME WriteConfig
      PROVE  /\ h.pc = "writeConfig"
             /\ Len(config'[Msg.theme]) = 1 /\ config'[Msg.theme] # <<>>
             /\ config'[Msg.theme][1] = [n |-> h.n, date |-> Msg.date]
             /\ \A t \in ConfigTheme \ {Msg.theme} : config'[t] = config[t]
  <2>1. h.pc = "writeConfig" /\ Msg.theme \in ConfigTheme
    BY <1>2, ConfigSteps DEF ConfigStep
  <2>2. /\ Len(config[Msg.theme]) <= 1
        /\ \/ h.id = 0 /\ config[Msg.theme] = <<>>
           \/ h.id = 1 /\ config[Msg.theme] # <<>>
    BY <2>1 DEF OneRowInv
  <2>3. ~Conflicts
    BY <2>2, EmptySeq DEF Conflicts
  <2>. DEFINE row == [n |-> h.n, date |-> Msg.date]
              new == WriteStatusRow(config[Msg.theme], h.id, row)
  <2>4. config' = [config EXCEPT ![Msg.theme] = new]
    BY <1>2, <2>3 DEF WriteConfig, Outcome
  <2>5. row \in ConfigRow
    BY <2>1, HandlerTypes DEF ConfigRow
  <2>6. new # <<>> /\ Len(new) = 1 /\ new[1] = row
    <3>1. config[Msg.theme] \in Seq(ConfigRow)
      BY <2>1, StoreTypes
    <3>. HIDE DEF row
    <3>. QED  BY <2>2, <2>5, <3>1, WriteOne
  <2>7. config \in [ConfigTheme -> Seq(ConfigRow)]
    BY DEF TypeInv, TypeOK, ConfigRow
  <2>8. config'[Msg.theme] = new /\ \A t \in ConfigTheme \ {Msg.theme} : config'[t] = config[t]
    <3>. HIDE DEF new
    <3>. QED  BY <2>1, <2>4, <2>7
  <2>. QED  BY <2>1, <2>6, <2>8
<1>3. ASSUME ~WriteStatus PROVE UNCHANGED status
  BY <1>3, ConfigSteps
     DEF StatusStep, ReadLinkAlert, InsertLinkLost, InsertLinkBack, ReadLastSale, CheckSaleAlert,
         InsertNoSales, MailNoSales, InsertTankEmpty, MailTankEmpty, InsertTankFilling
<1>4. ASSUME ~WriteConfig PROVE UNCHANGED config
  BY <1>4, StatusSteps, ConfigSteps DEF ConfigStep, rest
<1>. QED  BY <1>1, <1>2, <1>3, <1>4

(* What a handler reads of a table, with queries that do not fail.         *)
LEMMA RowReads ==
  ASSUME TypeInv, OneRowInv, ~regime.fails
  PROVE  /\ ReadDevice =>
              /\ h.pc = "read" /\ UNCHANGED <<wire, queue, status, alerts, ledger, rest>>
              /\ \/ FirstStep = "idle" /\ h' = Idle
                 \/ /\ FirstStep # "idle" /\ h'.pc = FirstStep /\ h'.n = h.n
                    /\ \/ h'.id = 0 /\ status = <<>> /\ h'.last = NoRow
                       \/ h'.id = 1 /\ status # <<>> /\ h'.last = status[1]
         /\ ReadConfig =>
              /\ h'.pc = "writeConfig" /\ h'.n = h.n
              /\ \/ h'.id = 0 /\ config[Msg.theme] = <<>>
                 \/ h'.id = 1 /\ config[Msg.theme] # <<>>
<1>1. /\ status = <<>> => NewestStatus(status) = {0}
      /\ status # <<>> => NewestStatus(status) = {1}
  BY StoreTypes, NewestOne DEF OneRowInv
<1>2. ASSUME ReadDevice
      PROVE  /\ h.pc = "read" /\ UNCHANGED <<wire, queue, status, alerts, ledger, rest>>
             /\ \/ FirstStep = "idle" /\ h' = Idle
                \/ /\ FirstStep # "idle" /\ h'.pc = FirstStep /\ h'.n = h.n
                   /\ \/ h'.id = 0 /\ status = <<>> /\ h'.last = NoRow
                      \/ h'.id = 1 /\ status # <<>> /\ h'.last = status[1]
  <2>1. PICK i \in NewestStatus(status) :
          h' = IF FirstStep = "idle" THEN Idle
               ELSE [h EXCEPT !.pc = FirstStep, !.id = i,
                              !.last = IF i = 0 THEN NoRow ELSE status[i]]
    BY <1>2 DEF ReadDevice, QueryResult
  <2>2. h \in HandlerState /\ h.pc = "read"
        /\ UNCHANGED <<wire, queue, status, alerts, ledger, rest>>
    BY <1>2, HandlerTypes DEF ReadDevice
  <2>3. (i = 0 /\ status = <<>>) \/ (i = 1 /\ status # <<>>)
    BY <1>1, <2>1
  <2>. QED  BY <2>1, <2>2, <2>3 DEF HandlerState
<1>3. ASSUME ReadConfig
      PROVE  /\ h'.pc = "writeConfig" /\ h'.n = h.n
             /\ \/ h'.id = 0 /\ config[Msg.theme] = <<>>
                \/ h'.id = 1 /\ config[Msg.theme] # <<>>
  <2>1. /\ h'.pc = "writeConfig" /\ h'.n = h.n /\ Msg.theme \in ConfigTheme
        /\ h'.id \in NewestStatus(config[Msg.theme])
    BY <1>3, ConfigSteps DEF ConfigStep, QueryResult
  <2>2. /\ config[Msg.theme] = <<>> => NewestStatus(config[Msg.theme]) = {0}
        /\ config[Msg.theme] # <<>> => NewestStatus(config[Msg.theme]) = {1}
    BY <2>1, StoreTypes, NewestOne DEF OneRowInv
  <2>. QED  BY <2>1, <2>2
<1>. QED  BY <1>2, <1>3

LEMMA OneRowStep == TypeInv /\ OneRowInv /\ [Next]_vars => OneRowInv'
<1>. SUFFICES ASSUME TypeInv, OneRowInv, [Next]_vars, ~regime'.fails PROVE OneRowInv'
  BY DEF OneRowInv
<1>1. regime' = regime /\ ~regime.fails
  BY DEF Next, Board, Sell, Collect, SendStatus, SendConfig, Send, Connection, Receive,
         Acknowledge, Cut, Crash, Dispatch, Take, Discard, Refuse, ReadDevice, WriteStatus,
         ReadLinkAlert, InsertLinkLost, InsertLinkBack, ReadLastSale, CheckSaleAlert,
         InsertNoSales, MailNoSales, InsertTankEmpty, MailTankEmpty, InsertTankFilling,
         InsertEncash, InsertSaleRow, ReadSaleAlert, InsertSalesBack, ReadConfig, WriteConfig,
         InsertDeadLetter, rest, vars
<1>0. ConfigTheme' = ConfigTheme
  BY DEF ConfigTheme
<1>2. ASSUME UNCHANGED <<status, config>>, h'.pc \notin {"store", "writeConfig"}
      PROVE  OneRowInv'
  BY <1>0, <1>1, <1>2 DEF OneRowInv
<1>3. ASSUME UNCHANGED <<status, config, h>>, h.pc # "idle" => Msg' = Msg
      PROVE  OneRowInv'
  BY <1>0, <1>1, <1>3 DEF OneRowInv
<1>4. CASE UNCHANGED vars \/ Receive \/ Acknowledge \/ Cut \/ Discard
  <2>1. UNCHANGED <<status, config, h, sent>>
    BY <1>4 DEF vars, wire, rest, Receive, Acknowledge, Cut, Discard
  <2>. QED  BY <1>3, <2>1 DEF Msg
<1>5. CASE Board
  <2>1. /\ UNCHANGED <<status, config, h>>
        /\ \A i \in DOMAIN sent : sent'[i] = sent[i]
    BY <1>5, BoardSends DEF rest
  <2>2. h.pc # "idle" => Msg' = Msg
    BY <2>1 DEF TypeInv, HandlerOK, Msg
  <2>. QED  BY <1>3, <2>1, <2>2
<1>6. CASE Crash \/ Take \/ Refuse
  <2>1. UNCHANGED <<status, config>> /\ h'.pc \in {"idle", "read"}
    BY <1>6, IdleType DEF Crash, Take, Refuse, rest, Goto, Idle
  <2>. QED  BY <1>2, <2>1
<1>7. CASE ReadDevice
  <2>1. UNCHANGED <<status, config>>
    BY <1>7 DEF ReadDevice, rest
  <2>2. FirstStep \in {"idle", "dead", "store", "sale", "encash", "readConfig"}
    BY DEF FirstStep
  <2>3. /\ h'.pc # "writeConfig"
        /\ h'.pc = "store" => \/ h'.id = 0 /\ status = <<>>
                              \/ h'.id = 1 /\ status # <<>> /\ h'.last = status[1]
    BY <1>1, <1>7, <2>2, RowReads, IdleType
  <2>. QED  BY <1>0, <1>1, <2>1, <2>3 DEF OneRowInv
<1>8. CASE StatusStep
  <2>1. h'.pc \notin {"store", "writeConfig"} /\ UNCHANGED config
    BY <1>8, StatusGoes, StatusSteps DEF Goes, StatusStage, rest
  <2>2. Len(status') <= 1
    <3>1. status' = status \/ Len(status') = 1
      BY <1>1, <1>8, RowWrites
    <3>2. Len(status) <= 1 /\ 1 <= 1
      BY <1>1 DEF OneRowInv
    <3>. QED  BY <3>1, <3>2
  <2>. QED  BY <1>0, <1>1, <2>1, <2>2 DEF OneRowInv
<1>9. CASE MoneyStep
  <2>1. h'.pc \in {"idle", "readSaleAlert", "salesBack"} /\ UNCHANGED <<status, config>>
    BY <1>9, MoneySteps DEF MoneyStep, Goes
  <2>. QED  BY <1>2, <2>1
<1>10. CASE ReadConfig
  <2>1. /\ UNCHANGED <<status, config, sent>> /\ h'.pc = "writeConfig" /\ h'.n = h.n
        /\ \/ h'.id = 0 /\ config[Msg.theme] = <<>>
           \/ h'.id = 1 /\ config[Msg.theme] # <<>>
    BY <1>1, <1>10, RowReads DEF ReadConfig, wire, rest
  <2>2. Msg' = Msg
    BY <2>1 DEF Msg
  <2>. QED  BY <1>0, <1>1, <2>1, <2>2 DEF OneRowInv
<1>11. CASE WriteConfig
  <2>1. h'.pc = "idle" /\ UNCHANGED status /\ Msg.theme \in ConfigTheme
    BY <1>11, ConfigSteps DEF ConfigStep, Goes
  <2>2. \A t \in ConfigTheme : Len(config'[t]) <= 1
    <3>1. /\ Len(config'[Msg.theme]) = 1
          /\ \A t \in ConfigTheme \ {Msg.theme} : config'[t] = config[t]
      BY <1>1, <1>11, RowWrites DEF ConfigStep
    <3>2. \A t \in ConfigTheme : Len(config[t]) <= 1
      BY <1>1 DEF OneRowInv
    <3>3. 1 <= 1
      OBVIOUS
    <3>. QED  BY <3>1, <3>2, <3>3
  <2>. QED  BY <1>0, <1>1, <2>1, <2>2 DEF OneRowInv
<1>. QED
  BY <1>4, <1>5, <1>6, <1>7, <1>8, <1>9, <1>10, <1>11, NextSteps DEF ConfigStep

(* A connection that is not cut by a crash or a refusal, and its queue.    *)
LEMMA ReceiveChain ==
  ASSUME TypeInv, Sure, ChainInv, Receive
  PROVE  /\ ChainInv' /\ UNCHANGED <<sent, h, status, config>>
         /\ Handled' = Handled
<1>. DEFINE m == acked + flight + 1
<1>1. /\ queue \in Seq(DOMAIN sent) /\ Len(queue) \in Nat /\ DOMAIN queue = 1 .. Len(queue)
      /\ \A i \in 1 .. Len(queue) : queue[i] \in 1 .. Len(sent)
      /\ Len(sent) \in Nat /\ DOMAIN sent = 1 .. Len(sent)
      /\ acked \in Nat /\ flight \in Nat
  BY StoreTypes
<1>2. /\ acked + flight < Len(sent) /\ queue' = Append(queue, m)
      /\ \/ flight' = flight + 1 /\ acked' = acked
         \/ flight' = flight /\ acked' = acked + 1
      /\ UNCHANGED <<sent, h, status, config, regime>>
  BY <1>1 DEF Receive, rest
<1>3. m \in DOMAIN sent /\ m \in Nat /\ acked' + flight' = m
  BY <1>1, <1>2
<1>4. /\ Len(queue') = Len(queue) + 1 /\ queue' # <<>>
      /\ \A i \in 1 .. Len(queue) : queue'[i] = queue[i]
      /\ queue'[Len(queue) + 1] = m
  BY <1>1, <1>2, <1>3, AppendProperties, EmptySeq
<1>5. /\ \A i \in 1 .. Len(queue) - 1 : queue[i + 1] <= queue[i] + 1
      /\ queue # <<>> => acked + flight <= queue[Len(queue)]
      /\ queue # <<>> /\ h.pc # "idle" => queue[1] <= h.n + 1
      /\ queue = <<>> /\ h.pc # "idle" => acked + flight <= h.n
      /\ queue = <<>> <=> Len(queue) = 0
      /\ h.n \in Nat
  BY <1>1, EmptySeq, HandlerTypes DEF ChainInv, HandlerState
<1>6. ASSUME NEW i \in 1 .. Len(queue') - 1
      PROVE  queue'[i + 1] <= queue'[i] + 1
  <2>1. i \in 1 .. Len(queue) /\ queue'[i] = queue[i] /\ queue[i] \in Nat
    BY <1>1, <1>4
  <2>2. CASE i = Len(queue)
    <3>1. acked + flight <= queue[i]
      BY <1>1, <1>5, <2>1, <2>2
    <3>. QED  BY <1>1, <1>4, <2>1, <2>2, <3>1
  <2>3. CASE i # Len(queue)
    <3>0. Len(queue) \in Nat
      BY <1>1
    <3>1. i \in 1 .. Len(queue) - 1 /\ i + 1 \in 1 .. Len(queue)
      BY <2>1, <2>3, <3>0
    <3>. QED  BY <1>4, <1>5, <2>1, <3>1
  <2>. QED  BY <2>2, <2>3
<1>7. h.pc # "idle" => queue'[1] <= h.n + 1
  <2>1. CASE queue = <<>>
    BY <1>1, <1>4, <1>5, <2>1
  <2>2. CASE queue # <<>>
    <3>1. 1 \in 1 .. Len(queue)
      BY <1>1, <1>5, <2>2
    <3>. QED  BY <1>4, <1>5, <2>2, <3>1
  <2>. QED  BY <2>1, <2>2
<1>8. ChainInv'
  BY <1>2, <1>3, <1>4, <1>6, <1>7 DEF ChainInv
<1>9. Handled' = Handled
  <2>1. h.pc = "idle" => queue'[1] - 1 = IF queue = <<>> THEN acked + flight ELSE queue[1] - 1
    <3>1. CASE queue = <<>>
      BY <1>1, <1>4, <1>5, <3>1
    <3>2. CASE queue # <<>>
      <4>1. 1 \in 1 .. Len(queue)
        BY <1>1, <1>5, <3>2
      <4>. QED  BY <1>4, <3>2, <4>1
    <3>. QED  BY <3>1, <3>2
  <2>. QED  BY <1>2, <1>4, <2>1 DEF Handled, Unwritten, ConfigStage
<1>. QED  BY <1>2, <1>8, <1>9

LEMMA TailChain ==
  ASSUME TypeInv, Sure, ChainInv, Take \/ Discard
  PROVE  /\ ChainInv' /\ UNCHANGED <<sent, status, config>>
         /\ queue # <<>> /\ queue[1] \in DOMAIN sent /\ Handled = queue[1] - 1
         /\ Take => Handled' = queue[1] - 1
         /\ Discard => Handled' \in Int /\ Handled' <= queue[1]
<1>1. /\ queue \in Seq(DOMAIN sent) /\ Len(queue) \in Nat /\ DOMAIN queue = 1 .. Len(queue)
      /\ \A i \in 1 .. Len(queue) : queue[i] \in 1 .. Len(sent)
      /\ Len(sent) \in Nat /\ DOMAIN sent = 1 .. Len(sent)
      /\ acked \in Nat /\ flight \in Nat
  BY StoreTypes
<1>2. /\ h.pc = "idle" /\ queue # <<>> /\ queue' = Tail(queue)
      /\ UNCHANGED <<sent, acked, flight, status, config, regime>>
  BY DEF Take, Discard, wire, rest
<1>3. /\ Len(queue) >= 1 /\ Head(queue) = queue[1] /\ Len(queue') = Len(queue) - 1
      /\ \A i \in 1 .. Len(queue) - 1 : queue'[i] = queue[i + 1]
      /\ queue' = <<>> <=> Len(queue') = 0
  <2>1. queue' \in Seq(DOMAIN sent) /\ Len(queue) \in Nat \ {0} /\ Head(queue) = queue[1]
        /\ Len(queue') = Len(queue) - 1
        /\ \A i \in 1 .. Len(queue) - 1 : queue'[i] = queue[i + 1]
    BY <1>2, QueueHead
  <2>2. queue' = <<>> <=> Len(queue') = 0
    BY <2>1, EmptySeq
  <2>3. Len(queue) >= 1
    BY <2>1
  <2>. QED  BY <2>1, <2>2, <2>3
<1>4. /\ \A i \in 1 .. Len(queue) - 1 : queue[i + 1] <= queue[i] + 1
      /\ acked + flight <= queue[Len(queue)]
  BY <1>2 DEF ChainInv
<1>5. 1 \in 1 .. Len(queue) /\ queue[1] \in 1 .. Len(sent) /\ queue[1] \in Nat
  BY <1>1, <1>3
<1>6. queue' # <<>> => queue'[1] <= queue[1] + 1 /\ queue'[1] \in Nat
  <2>. SUFFICES ASSUME queue' # <<>> PROVE queue'[1] <= queue[1] + 1 /\ queue'[1] \in Nat
    OBVIOUS
  <2>1. 1 \in 1 .. Len(queue) - 1 /\ 2 \in 1 .. Len(queue) /\ 1 + 1 = 2
    BY <1>1, <1>3
  <2>2. queue'[1] = queue[2] /\ queue[2] <= queue[1] + 1
    BY <1>3, <1>4, <2>1
  <2>. QED  BY <1>1, <2>1, <2>2
<1>7. queue' = <<>> => acked + flight <= queue[1]
  <2>0. Len(queue) \in Nat
    BY <1>1
  <2>1. queue' = <<>> => Len(queue) = 1
    BY <1>3, <2>0
  <2>. QED  BY <1>4, <2>1
<1>8. ASSUME NEW i \in 1 .. Len(queue') - 1
      PROVE  queue'[i + 1] <= queue'[i] + 1
  <2>1. /\ i \in 1 .. Len(queue) - 1 /\ i + 1 \in 1 .. Len(queue) - 1
    BY <1>1, <1>3
  <2>2. queue'[i] = queue[i + 1] /\ queue'[i + 1] = queue[(i + 1) + 1]
    BY <1>3, <2>1
  <2>. QED  BY <1>4, <2>1, <2>2
<1>9. queue' # <<>> => acked + flight <= queue'[Len(queue')]
  <2>. SUFFICES ASSUME queue' # <<>> PROVE acked + flight <= queue'[Len(queue')]
    OBVIOUS
  <2>1. Len(queue) - 1 \in 1 .. Len(queue) - 1 /\ (Len(queue) - 1) + 1 = Len(queue)
    BY <1>1, <1>3
  <2>2. queue'[Len(queue) - 1] = queue[Len(queue)]
    BY <1>3, <2>1
  <2>. QED  BY <1>3, <1>4, <2>2
<1>10. /\ Take => h'.pc = "read" /\ h'.n = queue[1]
       /\ Discard => h'.pc = "idle"
  BY <1>2, <1>3 DEF Take, Discard, Idle
<1>11. ChainInv'
  <2>1. h'.pc # "idle" => h'.n = queue[1]
    BY <1>10
  <2>. QED  BY <1>2, <1>6, <1>7, <1>8, <1>9, <2>1 DEF ChainInv
<1>12. /\ Handled = queue[1] - 1
       /\ Take => Handled' = queue[1] - 1
  BY <1>2, <1>10 DEF Handled, Unwritten
<1>13. Discard => Handled' \in Int /\ Handled' <= queue[1]
  <2>1. Discard => Handled' = IF queue' = <<>> THEN acked + flight ELSE queue'[1] - 1
    BY <1>2, <1>10 DEF Handled
  <2>2. acked + flight \in Int /\ queue[1] \in Int
    BY <1>1, <1>5
  <2>3. queue' # <<>> => queue'[1] - 1 \in Int /\ queue'[1] - 1 <= queue[1]
    BY <1>5, <1>6
  <2>. QED  BY <1>7, <2>1, <2>2, <2>3
<1>. QED  BY <1>1, <1>2, <1>5, <1>11, <1>12, <1>13

(* A handler goes on or ends: its message at most is handled.              *)
LEMMA EndChain ==
  ASSUME TypeInv, Sure, ChainInv, h.pc # "idle", UNCHANGED <<acked, flight, queue, regime>>,
         h'.pc = "idle" \/ h'.n = h.n
  PROVE  /\ ChainInv' /\ Handled' \in Int /\ Handled' <= h.n
         /\ h'.pc \in Unwritten => Handled' = h.n - 1
<1>1. /\ Len(queue) \in Nat /\ \A i \in 1 .. Len(queue) : queue[i] \in 1 .. Len(sent)
      /\ acked \in Nat /\ flight \in Nat /\ Len(sent) \in Nat /\ h.n \in Nat
      /\ queue = <<>> <=> Len(queue) = 0
  BY StoreTypes, EmptySeq, HandlerTypes
<1>2. /\ queue # <<>> => queue[1] <= h.n + 1 /\ queue[1] \in Nat
      /\ queue = <<>> => acked + flight <= h.n
  <2>1. queue # <<>> => 1 \in 1 .. Len(queue)
    BY <1>1
  <2>. QED  BY <1>1, <2>1 DEF ChainInv
<1>3. ChainInv'
  BY <1>2 DEF ChainInv, Sure
<1>4. CASE h'.pc = "idle"
  BY <1>1, <1>2, <1>3, <1>4 DEF Handled, Unwritten, ConfigStage
<1>5. CASE h'.pc # "idle"
  BY <1>1, <1>3, <1>5 DEF Handled, Unwritten, ConfigStage
<1>. QED  BY <1>4, <1>5

(* The rows say no less of fewer messages.                                 *)
LEMMA FreshKept ==
  ASSUME TypeInv, NEW m \in Int, FreshUpTo(m), Handled' \in Int, Handled' <= m,
         UNCHANGED <<sent, status, config>>
  PROVE  FreshInv'
<1>1. DOMAIN sent \subseteq Int /\ ConfigTheme' = ConfigTheme
  BY StoreTypes DEF ConfigTheme
<1>2. \A j \in DOMAIN sent : j <= Handled' => j <= m
  BY <1>1
<1>3. FreshUpTo(Handled)'
  BY <1>1, <1>2 DEF FreshUpTo, Good
<1>. QED  BY <1>3 DEF FreshInv

(* Nor more of a message that is neither a status nor a configuration.     *)
LEMMA FreshSkips ==
  ASSUME TypeInv, NEW n \in DOMAIN sent, FreshUpTo(n - 1),
         ~Good(n, "status"), \A t \in ConfigTheme : ~Good(n, t)
  PROVE  FreshUpTo(n)
<1>1. DOMAIN sent \subseteq Int
  BY StoreTypes
<1>2. \A j \in DOMAIN sent : j <= n => j <= n - 1 \/ j = n
  BY <1>1
<1>. QED  BY <1>2 DEF FreshUpTo

LEMMA HandledType ==
  ASSUME TypeInv
  PROVE  /\ Handled \in Int /\ Handled <= Len(sent)
         /\ h.pc # "idle" => h.n \in Int /\ Handled = IF h.pc \in Unwritten THEN h.n - 1 ELSE h.n
<1>1. /\ Len(queue) \in Nat /\ \A i \in 1 .. Len(queue) : queue[i] \in 1 .. Len(sent)
      /\ acked \in Nat /\ flight \in Nat /\ Len(sent) \in Nat /\ acked + flight <= Len(sent)
      /\ queue = <<>> <=> Len(queue) = 0 /\ DOMAIN sent = 1 .. Len(sent)
  BY StoreTypes, EmptySeq
<1>2. queue # <<>> => queue[1] \in 1 .. Len(sent)
  <2>1. queue # <<>> => 1 \in 1 .. Len(queue)
    BY <1>1
  <2>. QED  BY <1>1, <2>1
<1>3. h.pc # "idle" => h.n \in 1 .. Len(sent)
  BY <1>1, HandlerTypes
<1>4. h.pc = "idle" => Handled \in Int /\ Handled <= Len(sent)
  BY <1>1, <1>2 DEF Handled
<1>5. h.pc # "idle" => /\ h.n \in Int /\ Handled \in Int /\ Handled <= Len(sent)
                       /\ Handled = IF h.pc \in Unwritten THEN h.n - 1 ELSE h.n
  BY <1>1, <1>3 DEF Handled
<1>. QED  BY <1>4, <1>5

LEMMA BoardFresh ==
  ASSUME TypeInv, Sure, FreshInv, Board
  PROVE  FreshInv'
<1>1. /\ Len(sent) \in Nat /\ DOMAIN sent = 1 .. Len(sent) /\ DOMAIN sent' = 1 .. Len(sent')
      /\ Len(sent') = Len(sent) + 1 /\ DOMAIN sent \subseteq DOMAIN sent'
      /\ \A i \in DOMAIN sent : sent'[i] = sent[i]
      /\ UNCHANGED <<acked, flight, queue, h, status, config>>
  BY BoardSends DEF rest
<1>2. Handled' = Handled /\ Handled \in Int /\ Handled <= Len(sent)
  BY <1>1, HandledType DEF Handled, Unwritten, ConfigStage
<1>3. FreshUpTo(Handled) /\ ConfigTheme' = ConfigTheme
  BY DEF FreshInv, ConfigTheme
<1>4. ASSUME NEW j \in DOMAIN sent', j <= Handled
      PROVE  /\ Good(j, "status")' =>
                  /\ status # <<>>
                  /\ \E k \in DOMAIN sent' :
                       /\ j <= k /\ Good(k, "status")'
                       /\ status[1].money = sent'[k].money /\ status[1].status = sent'[k].tank
             /\ \A t \in ConfigTheme : Good(j, t)' =>
                  /\ config[t] # <<>>
                  /\ j <= config[t][1].n /\ config[t][1].n \in DOMAIN sent'
                  /\ Good(config[t][1].n, t)'
  <2>1. j \in DOMAIN sent
    BY <1>1, <1>2, <1>4
  <2>2. \A k \in DOMAIN sent : \A t : Good(k, t)' <=> Good(k, t)
    BY <1>1 DEF Good
  <2>. QED  BY <1>1, <1>3, <1>4, <2>1, <2>2 DEF FreshUpTo
<1>5. FreshUpTo(Handled)'
  BY <1>1, <1>2, <1>3, <1>4 DEF FreshUpTo
<1>. QED  BY <1>5 DEF FreshInv

LEMMA ReadFresh ==
  ASSUME TypeInv, Sure, StoreInv, ReadDevice
  PROVE  ChainInv' /\ FreshInv'
<1>1. /\ h.pc = "read" /\ UNCHANGED <<sent, acked, flight, queue, regime, status, config>>
      /\ \/ FirstStep = "idle" /\ h' = Idle
         \/ FirstStep # "idle" /\ h'.pc = FirstStep /\ h'.n = h.n
  BY RowReads DEF StoreInv, Sure, wire, rest
<1>2. h'.pc = "idle" \/ h'.n = h.n
  BY <1>1, IdleType
<1>3. /\ ChainInv' /\ Handled' \in Int /\ Handled' <= h.n
      /\ h'.pc \in Unwritten => Handled' = h.n - 1
  BY <1>1, <1>2, EndChain DEF StoreInv
<1>4. h.n \in DOMAIN sent /\ h.n \in Int /\ FreshUpTo(h.n - 1)
  BY <1>1, HandledType, HandlerTypes DEF StoreInv, FreshInv, Unwritten
<1>5. CASE h'.pc \in Unwritten
  BY <1>1, <1>3, <1>4, <1>5, FreshKept
<1>6. CASE h'.pc \notin Unwritten
  <2>1. FirstStep \notin {"store", "readConfig"}
    BY <1>1, <1>6 DEF Unwritten, ConfigStage
  <2>2. ~Good(h.n, "status") /\ \A t \in ConfigTheme : ~Good(h.n, t)
    BY <2>1 DEF FirstStep, Good, Msg, ConfigTheme
  <2>3. FreshUpTo(h.n)
    BY <1>4, <2>2, FreshSkips
  <2>. QED  BY <1>1, <1>3, <1>4, <2>3, FreshKept
<1>. QED  BY <1>3, <1>5, <1>6

LEMMA StageFresh ==
  ASSUME TypeInv, Sure, StoreInv, StatusStep \/ MoneyStep \/ ConfigStep
  PROVE  ChainInv' /\ FreshInv'
<1>1. /\ h.pc # "idle" /\ UNCHANGED <<sent, acked, flight, queue, regime>>
      /\ h'.pc = "idle" \/ h'.n = h.n
  <2>1. CASE StatusStep
    BY <2>1, StatusSteps, StatusGoes DEF Goes, wire, rest
  <2>2. CASE MoneyStep
    BY <2>2, MoneySteps DEF MoneyStep, Goes, wire
  <2>3. CASE ConfigStep
    BY <2>3, ConfigSteps DEF ConfigStep, Goes, wire
  <2>. QED  BY <2>1, <2>2, <2>3
<1>2. /\ ChainInv' /\ Handled' \in Int /\ Handled' <= h.n
      /\ h'.pc \in Unwritten => Handled' = h.n - 1
  BY <1>1, EndChain DEF StoreInv
<1>3. /\ h.n \in DOMAIN sent /\ h.n \in Int /\ DOMAIN sent \subseteq Int
      /\ Handled = (IF h.pc \in Unwritten THEN h.n - 1 ELSE h.n)
      /\ FreshUpTo(Handled) /\ Handled \in Int /\ ConfigTheme' = ConfigTheme
  BY <1>1, HandledType, HandlerTypes, StoreTypes DEF StoreInv, FreshInv, ConfigTheme
<1>4. \A j \in DOMAIN sent : j <= Handled' => j <= h.n /\ (j <= h.n - 1 \/ j = h.n)
  BY <1>2, <1>3
<1>5. CASE WriteStatus
  <2>1. /\ h.pc = "store" /\ status' # <<>> /\ status'[1] = NewRow /\ UNCHANGED config
    BY <1>5, RowWrites, StatusSteps DEF StatusStep, StoreInv, Sure, rest
  <2>2. /\ Good(h.n, "status")
        /\ status'[1].money = sent[h.n].money /\ status'[1].status = sent[h.n].tank
    BY <2>1 DEF TypeInv, HandlerOK, StatusStage, Good, Msg, NewRow
  <2>3. FreshUpTo(h.n - 1) /\ \A t \in ConfigTheme : ~Good(h.n, t)
    BY <1>3, <2>1, <2>2 DEF Unwritten, Good, ConfigTheme
  <2>4. ASSUME NEW j \in DOMAIN sent, j <= Handled'
        PROVE  /\ Good(j, "status") =>
                    /\ status' # <<>>
                    /\ \E k \in DOMAIN sent :
                         /\ j <= k /\ Good(k, "status")
                         /\ status'[1].money = sent[k].money /\ status'[1].status = sent[k].tank
               /\ \A t \in ConfigTheme : Good(j, t) =>
                    /\ config[t] # <<>>
                    /\ j <= config[t][1].n /\ config[t][1].n \in DOMAIN sent
                    /\ Good(config[t][1].n, t)
    <3>1. j <= h.n /\ (j <= h.n - 1 \/ j = h.n)
      BY <1>4, <2>4
    <3>2. \E k \in DOMAIN sent :
             /\ j <= k /\ Good(k, "status")
             /\ status'[1].money = sent[k].money /\ status'[1].status = sent[k].tank
      BY <1>3, <2>2, <3>1
    <3>3. \A t \in ConfigTheme : Good(j, t) =>
            /\ config[t] # <<>>
            /\ j <= config[t][1].n /\ config[t][1].n \in DOMAIN sent
            /\ Good(config[t][1].n, t)
      BY <2>3, <3>1 DEF FreshUpTo
    <3>. QED  BY <2>1, <3>2, <3>3
  <2>5. FreshUpTo(Handled)'
    BY <1>1, <1>3, <2>1, <2>4 DEF FreshUpTo, Good
  <2>. QED  BY <1>2, <2>5 DEF FreshInv
<1>6. CASE WriteConfig
  <2>1. /\ h.pc = "writeConfig" /\ Msg.theme \in ConfigTheme
        /\ config'[Msg.theme] # <<>> /\ config'[Msg.theme][1].n = h.n
        /\ \A t \in ConfigTheme \ {Msg.theme} : config'[t] = config[t]
        /\ UNCHANGED status
    BY <1>6, RowWrites, ConfigSteps DEF ConfigStep, StoreInv, Sure
  <2>2. Good(h.n, Msg.theme) /\ \A t : t # Msg.theme => ~Good(h.n, t)
    BY <2>1 DEF TypeInv, HandlerOK, ConfigStage, Good, Msg
  <2>3. FreshUpTo(h.n - 1) /\ ~Good(h.n, "status")
    BY <1>3, <2>1, <2>2 DEF Unwritten, ConfigStage, ConfigTheme
  <2>4. ASSUME NEW j \in DOMAIN sent, j <= Handled'
        PROVE  /\ Good(j, "status") =>
                    /\ status # <<>>
                    /\ \E k \in DOMAIN sent :
                         /\ j <= k /\ Good(k, "status")
                         /\ status[1].money = sent[k].money /\ status[1].status = sent[k].tank
               /\ \A t \in ConfigTheme : Good(j, t) =>
                    /\ config'[t] # <<>>
                    /\ j <= config'[t][1].n /\ config'[t][1].n \in DOMAIN sent
                    /\ Good(config'[t][1].n, t)
    <3>1. j <= h.n /\ (j <= h.n - 1 \/ j = h.n)
      BY <1>4, <2>4
    <3>2. Good(j, "status") =>
            /\ status # <<>>
            /\ \E k \in DOMAIN sent :
                 /\ j <= k /\ Good(k, "status")
                 /\ status[1].money = sent[k].money /\ status[1].status = sent[k].tank
      BY <2>3, <3>1 DEF FreshUpTo
    <3>3. ASSUME NEW t \in ConfigTheme, Good(j, t)
          PROVE  /\ config'[t] # <<>>
                 /\ j <= config'[t][1].n /\ config'[t][1].n \in DOMAIN sent
                 /\ Good(config'[t][1].n, t)
      <4>1. CASE t = Msg.theme
        BY <1>3, <2>1, <2>2, <3>1, <4>1
      <4>2. CASE t # Msg.theme
        BY <2>1, <2>2, <2>3, <3>1, <3>3, <4>2 DEF FreshUpTo
      <4>. QED  BY <4>1, <4>2
    <3>. QED  BY <3>2, <3>3
  <2>5. FreshUpTo(Handled)'
    BY <1>1, <1>3, <2>1, <2>4 DEF FreshUpTo, Good
  <2>. QED  BY <1>2, <2>5 DEF FreshInv
<1>7. CASE ReadConfig
  <2>1. /\ h.pc = "readConfig" /\ h'.pc = "writeConfig" /\ UNCHANGED <<status, config>>
    BY <1>7, ConfigSteps DEF ConfigStep
  <2>2. Handled' = h.n - 1 /\ Handled = h.n - 1
    BY <1>2, <1>3, <2>1 DEF Unwritten, ConfigStage
  <2>3. Handled' <= h.n - 1
    BY <1>3, <2>2
  <2>. QED  BY <1>1, <1>2, <1>3, <2>1, <2>2, <2>3, FreshKept
<1>8. CASE (StatusStep /\ ~WriteStatus) \/ MoneyStep
  <2>1. UNCHANGED <<status, config>>
    BY <1>8, RowWrites, StatusSteps, MoneySteps DEF StoreInv, Sure, rest
  <2>2. h.pc \notin Unwritten
    <3>1. ASSUME StatusStep, ~WriteStatus PROVE h.pc \in StatusStage \ {"store"}
      BY <3>1, StatusSteps DEF StatusStep, StatusStage
    <3>2. MoneyStep => h.pc \in SaleStage \cup {"encash", "dead"}
      BY MoneySteps
    <3>. QED  BY <1>8, <3>1, <3>2 DEF StatusStage, SaleStage, Unwritten, ConfigStage
  <2>3. Handled = h.n
    BY <1>3, <2>2
  <2>. QED  BY <1>1, <1>2, <1>3, <2>1, <2>3, FreshKept
<1>. QED  BY <1>2, <1>5, <1>6, <1>7, <1>8 DEF ConfigStep

LEMMA StoreStep == TypeInv /\ StoreInv /\ [Next]_vars => StoreInv'
<1>. SUFFICES ASSUME TypeInv, StoreInv, [Next]_vars PROVE ChainInv' /\ FreshInv'
  BY OneRowStep DEF StoreInv
<1>. SUFFICES ASSUME Sure' PROVE ChainInv' /\ FreshInv'
  BY DEF ChainInv, FreshInv
<1>1. regime' = regime /\ Sure
  BY DEF Next, Board, Sell, Collect, SendStatus, SendConfig, Send, Connection, Receive,
         Acknowledge, Cut, Crash, Dispatch, Take, Discard, Refuse, ReadDevice, WriteStatus,
         ReadLinkAlert, InsertLinkLost, InsertLinkBack, ReadLastSale, CheckSaleAlert,
         InsertNoSales, MailNoSales, InsertTankEmpty, MailTankEmpty, InsertTankFilling,
         InsertEncash, InsertSaleRow, ReadSaleAlert, InsertSalesBack, ReadConfig, WriteConfig,
         InsertDeadLetter, rest, vars, Sure
<1>2. ~Crash /\ ~Refuse
  BY <1>1 DEF Crash, Refuse, Sure
<1>3. /\ ChainInv /\ FreshUpTo(Handled) /\ Handled \in Int
      /\ acked \in Nat /\ flight \in Nat
      /\ \A i \in 1 .. Len(queue) : queue[i] \in 1 .. Len(sent)
      /\ Len(queue) \in Nat /\ (queue = <<>> <=> Len(queue) = 0)
  BY <1>1, HandledType, StoreTypes, EmptySeq DEF StoreInv, FreshInv
<1>4. CASE Acknowledge \/ Cut \/ UNCHANGED vars
  <2>1. /\ UNCHANGED <<sent, queue, h, status, config>>
        /\ acked' + flight' \in Int /\ acked' + flight' <= acked + flight
    BY <1>3, <1>4 DEF Acknowledge, Cut, vars, wire, rest
  <2>2. queue # <<>> => queue[Len(queue)] \in Nat
    <3>1. queue # <<>> => Len(queue) \in 1 .. Len(queue)
      BY <1>3
    <3>. QED  BY <1>3, <3>1
  <2>3. h.n \in Nat
    BY HandlerTypes DEF HandlerState
  <2>4. ChainInv'
    BY <1>1, <1>3, <2>1, <2>2, <2>3 DEF ChainInv
  <2>5. Handled' \in Int /\ Handled' <= Handled
    BY <1>3, <2>1 DEF Handled, Unwritten, ConfigStage
  <2>. QED  BY <1>3, <2>1, <2>4, <2>5, FreshKept
<1>5. CASE Board
  <2>1. UNCHANGED <<acked, flight, queue, h>>
    BY <1>5, BoardSends
  <2>2. ChainInv'
    BY <1>1, <1>3, <2>1 DEF ChainInv
  <2>. QED  BY <1>1, <1>5, <2>2, BoardFresh DEF StoreInv
<1>6. CASE Receive
  <2>1. Handled' <= Handled /\ Handled' \in Int
    BY <1>1, <1>3, <1>6, ReceiveChain
  <2>. QED  BY <1>1, <1>3, <1>6, <2>1, ReceiveChain, FreshKept
<1>7. CASE Take
  <2>1. Handled' <= Handled /\ Handled' \in Int
    BY <1>1, <1>3, <1>7, TailChain
  <2>. QED  BY <1>1, <1>3, <1>7, <2>1, TailChain, FreshKept
<1>8. CASE Discard
  <2>1. /\ ChainInv' /\ UNCHANGED <<sent, status, config>>
        /\ queue # <<>> /\ queue[1] \in DOMAIN sent /\ Handled = queue[1] - 1
        /\ Handled' \in Int /\ Handled' <= queue[1]
    BY <1>1, <1>3, <1>8, TailChain
  <2>2. sent[queue[1]].body # "good"
    BY <1>8, <2>1, QueueHead DEF Discard
  <2>3. PICK n \in DOMAIN sent : n = queue[1]
    BY <2>1
  <2>4. FreshUpTo(n)
    BY <1>3, <2>1, <2>2, <2>3, FreshSkips DEF Good
  <2>5. n \in Int
    BY StoreTypes
  <2>. QED  BY <2>1, <2>3, <2>4, <2>5, FreshKept
<1>9. CASE ReadDevice
  BY <1>1, <1>9, ReadFresh
<1>10. CASE StatusStep \/ MoneyStep \/ ConfigStep
  BY <1>1, <1>10, StageFresh
<1>. QED
  BY <1>2, <1>4, <1>5, <1>6, <1>7, <1>8, <1>9, <1>10, NextSteps

LEMMA StoreInit == Init => StoreInv
<1>. SUFFICES ASSUME Init PROVE StoreInv
  OBVIOUS
<1>1. /\ sent = <<>> /\ acked = 0 /\ flight = 0 /\ queue = <<>> /\ status = <<>>
      /\ h.pc = "idle" /\ \A t \in ConfigTheme : config[t] = <<>>
  BY IdleType DEF Init
<1>2. Len(<<>>) = 0 /\ DOMAIN <<>> = {}
  BY EmptySeq
<1>3. OneRowInv
  BY <1>1, <1>2 DEF OneRowInv
<1>4. ChainInv
  BY <1>1, <1>2 DEF ChainInv
<1>5. FreshInv
  BY <1>1, <1>2 DEF FreshInv, FreshUpTo
<1>. QED  BY <1>3, <1>4, <1>5 DEF StoreInv

(* Once everything has arrived the rows are those of the last status and   *)
(* the last configuration the board sent, for any number of messages,      *)
(* however often the connection was lost and older ones came again, if no  *)
(* message died with the process and no write failed.                      *)
THEOREM StoreCorrect == Spec => []StoreFresh
<1>1. TypeInv /\ StoreInv => StoreFresh
  <2>. SUFFICES ASSUME TypeInv, StoreInv, Quiet, Sure
                PROVE  /\ \A n \in LastGood("status") :
                            /\ Len(status) = 1
                            /\ status[1].money = sent[n].money
                            /\ status[1].status = sent[n].tank
                       /\ \A t \in ConfigTheme : \A n \in LastGood(t) :
                            Len(config[t]) = 1 /\ config[t][1].n = n
    BY DEF StoreFresh, Sure
  <2>1. /\ DOMAIN sent = 1 .. Len(sent) /\ Len(sent) \in Nat /\ flight \in Nat
        /\ status \in Seq(StatusRow) /\ \A t \in ConfigTheme : config[t] \in Seq(ConfigRow)
    BY StoreTypes
  <2>2. FreshUpTo(Len(sent) + flight) /\ OneRowInv
    BY <2>1 DEF StoreInv, FreshInv, Handled, Quiet
  <2>3. \A n \in DOMAIN sent : n <= Len(sent) + flight
    BY <2>1
  <2>4. ASSUME NEW n \in LastGood("status")
        PROVE  /\ Len(status) = 1
               /\ status[1].money = sent[n].money /\ status[1].status = sent[n].tank
    <3>1. n \in DOMAIN sent /\ Good(n, "status")
          /\ \A k \in DOMAIN sent : Good(k, "status") => k <= n
      BY <2>4 DEF LastGood, Good
    <3>2. PICK k \in DOMAIN sent :
            /\ n <= k /\ Good(k, "status")
            /\ status[1].money = sent[k].money /\ status[1].status = sent[k].tank
      BY <2>2, <2>3, <3>1 DEF FreshUpTo
    <3>3. k = n
      BY <2>1, <3>1, <3>2
    <3>4. status # <<>> /\ Len(status) <= 1
      BY <2>2, <2>3, <3>1 DEF FreshUpTo, OneRowInv, Sure
    <3>5. Len(status) \in Nat \ {0}
      BY <2>1, <3>4, EmptySeq, LenProperties
    <3>. QED  BY <3>2, <3>3, <3>4, <3>5
  <2>5. ASSUME NEW t \in ConfigTheme, NEW n \in LastGood(t)
        PROVE  Len(config[t]) = 1 /\ config[t][1].n = n
    <3>1. n \in DOMAIN sent /\ Good(n, t) /\ \A k \in DOMAIN sent : Good(k, t) => k <= n
      BY <2>5 DEF LastGood, Good
    <3>2. /\ config[t] # <<>> /\ n <= config[t][1].n /\ config[t][1].n \in DOMAIN sent
          /\ Good(config[t][1].n, t)
      BY <2>2, <2>3, <3>1 DEF FreshUpTo
    <3>3. config[t][1].n = n
      BY <2>1, <3>1, <3>2
    <3>4. Len(config[t]) <= 1
      BY <2>2 DEF OneRowInv, Sure
    <3>5. Len(config[t]) \in Nat \ {0}
      BY <2>1, <3>2, EmptySeq, LenProperties
    <3>6. PICK size \in Nat \ {0} : size = Len(config[t])
      BY <3>5
    <3>7. size <= 1
      BY <3>4, <3>6
    <3>8. size = 1
      BY <3>7
    <3>. QED  BY <3>3, <3>6, <3>8
  <2>. QED  BY <2>4, <2>5
<1>2. TypeInv /\ StoreInv /\ [Next]_vars => (TypeInv /\ StoreInv)'
  BY NextTypeInv, StoreStep
<1>. QED  BY InitTypeInv, StoreInit, <1>1, <1>2, PTL DEF Spec

-----------------------------------------------------------------------------
(***************************************************************************)
(* The alerts of the link and of the sales, on a connection that keeps the *)
(* order of the messages and with writes that do not fail.  The newest     *)
(* alert of a family is only well defined when no two have the same date:  *)
(* the messages of a board are spaced, and a lost link is dated some time  *)
(* after the last report.                                                  *)
(***************************************************************************)
Spaced == LinkAlertDelay > 0 /\ \A r \in Regimes : 0 \notin r.gaps

Rising(log) == \A i, j \in DOMAIN log : i < j => log[i].date < log[j].date
Upto(log, date) == \A i \in DOMAIN log : log[i].date <= date
Before(log, date) == \A i \in DOMAIN log : log[i].date < date
LastIs(log, code) == log # <<>> /\ log[Len(log)].code = code

LogInv(log) == Alternates(log) /\ Rising(log)

(* The messages come in the order of their dates.                          *)
OrderInv ==
    /\ flight = 0
    /\ Rising(sent)
    /\ \A i \in DOMAIN queue : queue[i] <= acked
    /\ \A i, j \in DOMAIN queue : i < j => queue[i] < queue[j]
    /\ h.pc # "idle" => h.n <= acked /\ \A i \in DOMAIN queue : h.n < queue[i]

Waits(n) == acked < n \/ \E i \in DOMAIN queue : queue[i] = n

(* The row is older than what is still to be handled, and the alerts of    *)
(* the link are not newer than the row.                                    *)
DateInv ==
    /\ status = <<>> => linkAlerts = <<>>
    /\ status # <<>> => /\ status[1].date <= Now /\ Upto(linkAlerts, status[1].date)
                        /\ \A n \in DOMAIN sent : Waits(n) => status[1].date < sent[n].date
    /\ h.pc \in {"read", "store"} /\ status # <<>> => status[1].date < Msg.date
    /\ h.pc \in StatusStage \ {"store"} => status # <<>> /\ status[1].date = Msg.date

LinkInv ==
    /\ LogInv(linkAlerts)
    /\ h.pc \in {"readLink", "linkLost"} => h.id # 0 /\ Upto(linkAlerts, h.last.date)
    /\ h.pc = "linkLost" => IsLate /\ ~LastIs(linkAlerts, "link_lost")
    /\ h.pc = "linkBack" => LastIs(linkAlerts, "link_lost") /\ Before(linkAlerts, Msg.date)

(* The stages before a message's own sale alert.                           *)
SaleUnseen == {"read", "store", "readLink", "linkLost", "linkBack", "readLastSale",
               "checkAlert", "noSales"} \cup SaleStage

SaleInv ==
    /\ LogInv(saleAlerts) /\ Upto(saleAlerts, Now)
    /\ \A n \in DOMAIN sent : Waits(n) => Before(saleAlerts, sent[n].date)
    /\ h.pc \in SaleUnseen => Before(saleAlerts, Msg.date)
    /\ h.pc = "noSales" => ~LastIs(saleAlerts, "no_sales")
    /\ h.pc = "salesBack" => LastIs(saleAlerts, "no_sales")

(* Past the sale alert of a status, an idle machine's alert is raised.     *)
IdleLong ==
    /\ h.id # 0 /\ h.last.money = Msg.money
    /\ lastSale # 0 /\ lastSale + SaleGap < Msg.date

RaisedInv ==
    h.pc \in {"mailSales", "tankEmpty", "tankFilling", "mailTank"} /\ IdleLong =>
        LastIs(saleAlerts, "no_sales")

AlertInv == Ordered => OrderInv /\ DateInv /\ LinkInv /\ SaleInv /\ RaisedInv

-----------------------------------------------------------------------------
LEMMA AlertType ==
  ASSUME NEW log \in Seq(Alert), NEW i \in DOMAIN log
  PROVE  log[i].code \in AlertCode /\ log[i].date \in Nat
<1>1. log[i] \in Alert
  BY ElementOfSeq, LenProperties
<1>. QED  BY <1>1 DEF Alert

(* In a log of rising dates the newest alert is the last one inserted.     *)
LEMMA NewestIsLast ==
  ASSUME NEW log \in Seq(Alert), Rising(log)
  PROVE  /\ log = <<>> => NewestAlerts(log) = {"none"}
         /\ log # <<>> => NewestAlerts(log) = {log[Len(log)].code}
         /\ \A code \in AlertCode : code \in NewestAlerts(log) <=> LastIs(log, code)
<1>1. CASE log = <<>>
  BY <1>1 DEF NewestAlerts, LastIs, AlertCode
<1>2. CASE log # <<>>
  <2>0. Len(log) \in Nat \ {0} /\ DOMAIN log = 1 .. Len(log)
    BY <1>2, EmptySeq, LenProperties
  <2>1. Len(log) \in DOMAIN log /\ \A i \in DOMAIN log : i < Len(log) \/ i = Len(log)
    BY <2>0
  <2>2. \A i \in DOMAIN log : log[i].date \in Nat
    BY AlertType
  <2>3. IsNewest(log, Len(log))
    <3>1. ASSUME NEW j \in DOMAIN log PROVE log[j].date <= log[Len(log)].date
      <4>1. CASE j = Len(log)
        BY <2>1, <2>2, <4>1
      <4>2. CASE j < Len(log)
        BY <2>1, <2>2, <4>2 DEF Rising
      <4>. QED  BY <2>1, <4>1, <4>2
    <3>. QED  BY <2>1, <3>1 DEF IsNewest
  <2>4. ASSUME NEW i \in DOMAIN log, IsNewest(log, i) PROVE i = Len(log)
    <3>1. log[Len(log)].date <= log[i].date
      BY <2>1, <2>4 DEF IsNewest
    <3>2. ~(i < Len(log))
      BY <2>1, <2>2, <3>1 DEF Rising
    <3>. QED  BY <2>1, <3>2
  <2>5. {k \in DOMAIN log : IsNewest(log, k)} = {Len(log)}
    BY <2>1, <2>3, <2>4
  <2>6. NewestAlerts(log) = {log[Len(log)].code}
    BY <1>2, <2>5 DEF NewestAlerts
  <2>. QED  BY <1>2, <2>6 DEF LastIs
<1>. QED  BY <1>1, <1>2

LEMMA Later ==
  ASSUME NEW log \in Seq(Alert), NEW date \in Nat, NEW later \in Nat
  PROVE  /\ Upto(log, date) /\ date < later => Before(log, later)
         /\ Upto(log, date) /\ date <= later => Upto(log, later)
         /\ Before(log, later) => Upto(log, later)
<1>1. \A i \in DOMAIN log : log[i].date \in Nat
  BY AlertType
<1>2. ASSUME Upto(log, date), date < later, NEW i \in DOMAIN log PROVE log[i].date < later
  <2>1. log[i].date <= date /\ log[i].date \in Nat
    BY <1>1, <1>2 DEF Upto
  <2>. QED  BY <1>2, <2>1
<1>3. ASSUME Upto(log, date), date <= later, NEW i \in DOMAIN log PROVE log[i].date <= later
  <2>1. log[i].date <= date /\ log[i].date \in Nat
    BY <1>1, <1>3 DEF Upto
  <2>. QED  BY <1>3, <2>1
<1>4. ASSUME Before(log, later), NEW i \in DOMAIN log PROVE log[i].date <= later
  <2>1. log[i].date < later /\ log[i].date \in Nat
    BY <1>1, <1>4 DEF Before
  <2>. QED  BY <2>1
<1>. QED  BY <1>2, <1>3, <1>4 DEF Upto, Before

(* An alert newer than all others, of the other kind than the last one,    *)
(* keeps the dates rising and the codes alternating.                       *)
LEMMA InsertedAlert ==
  ASSUME NEW log \in Seq(Alert), LogInv(log), NEW code \in AlertCode, NEW date \in Nat,
         Before(log, date), ~LastIs(log, code)
  PROVE  /\ LogInv(InsertAlert(log, code, date)) /\ Upto(InsertAlert(log, code, date), date)
         /\ \A other : LastIs(InsertAlert(log, code, date), other) <=> other = code
<1>. DEFINE e == [code |-> code, date |-> date]
            new == Append(log, e)
<1>0. e \in Alert /\ e.code = code /\ e.date = date
  BY DEF Alert
<1>. HIDE DEF e
<1>1. /\ new \in Seq(Alert) /\ Len(new) = Len(log) + 1 /\ Len(log) \in Nat
      /\ \A i \in 1 .. Len(log) : new[i] = log[i]
      /\ new[Len(log) + 1] = e /\ DOMAIN new = 1 .. Len(log) + 1
      /\ DOMAIN log = 1 .. Len(log)
  BY <1>0, AppendProperties, LenProperties
<1>2. new # <<>>
  BY <1>1, EmptySeq
<1>3. \A i \in 1 .. Len(log) : log[i].date \in Nat /\ log[i].date < date
  BY <1>1, AlertType DEF Before
<1>. HIDE DEF new
<1>4. Upto(new, date)
  <2>1. ASSUME NEW i \in DOMAIN new PROVE new[i].date <= date
    BY <1>0, <1>1, <1>3
  <2>. QED  BY <2>1 DEF Upto
<1>5. ASSUME NEW i \in DOMAIN new, NEW j \in DOMAIN new, i < j
      PROVE  new[i].date < new[j].date
  <2>0. Len(log) \in Nat /\ i \in 1 .. Len(log) + 1 /\ j \in 1 .. Len(log) + 1
    BY <1>1
  <2>1. CASE j = Len(log) + 1
    <3>1. i \in 1 .. Len(log)
      BY <1>5, <2>0, <2>1
    <3>. QED  BY <1>0, <1>1, <1>3, <2>1, <3>1
  <2>2. CASE j # Len(log) + 1
    <3>1. i \in 1 .. Len(log) /\ j \in 1 .. Len(log)
      BY <1>5, <2>0, <2>2
    <3>2. log[i].date < log[j].date
      BY <1>1, <1>5, <3>1 DEF LogInv, Rising
    <3>. QED  BY <1>1, <3>1, <3>2
  <2>. QED  BY <2>1, <2>2
<1>6. Alternates(new)
  <2>1. ASSUME NEW i \in 1 .. Len(new) - 1
        PROVE  new[i].code # new[i + 1].code /\ new[i].date <= new[i + 1].date
    <3>0. Len(log) \in Nat /\ i \in 1 .. Len(log)
      BY <1>1
    <3>1. i \in DOMAIN new /\ i + 1 \in DOMAIN new /\ i < i + 1
      BY <1>1, <3>0
    <3>2. new[i].date < new[i + 1].date
      BY <1>5, <3>1
    <3>3. new[i].date \in Nat /\ new[i + 1].date \in Nat
      BY <1>1, <3>1, AlertType
    <3>4. new[i].code # new[i + 1].code
      <4>1. CASE i = Len(log)
        <5>1. log # <<>>
          BY <1>1, <3>0, <4>1, EmptySeq
        <5>2. log[i].code # code
          BY <4>1, <5>1 DEF LastIs
        <5>. QED  BY <1>0, <1>1, <3>0, <4>1, <5>2
      <4>2. CASE i # Len(log)
        <5>1. i \in 1 .. Len(log) - 1 /\ i + 1 \in 1 .. Len(log)
          BY <3>0, <4>2
        <5>2. log[i].code # log[i + 1].code
          BY <5>1 DEF LogInv, Alternates
        <5>. QED  BY <1>1, <3>0, <5>1, <5>2
      <4>. QED  BY <4>1, <4>2
    <3>. QED  BY <3>2, <3>3, <3>4
  <2>. QED  BY <2>1 DEF Alternates
<1>7. \A other : LastIs(new, other) <=> other = code
  BY <1>0, <1>1, <1>2 DEF LastIs
<1>8. LogInv(new)
  BY <1>5, <1>6 DEF LogInv, Rising
<1>. QED  BY <1>4, <1>7, <1>8 DEF InsertAlert, new, e

(* The regime is chosen once.                                              *)
LEMMA RegimeStays == [Next]_vars => regime' = regime
  BY DEF Next, Board, Sell, Collect, SendStatus, SendConfig, Send, Connection, Receive,
         Acknowledge, Cut, Crash, Dispatch, Take, Discard, Refuse, ReadDevice, WriteStatus,
         ReadLinkAlert, InsertLinkLost, InsertLinkBack, ReadLastSale, CheckSaleAlert,
         InsertNoSales, MailNoSales, InsertTankEmpty, MailTankEmpty, InsertTankFilling,
         InsertEncash, InsertSaleRow, ReadSaleAlert, InsertSalesBack, ReadConfig, WriteConfig,
         InsertDeadLetter, rest, vars

LEMMA DateTypes ==
  ASSUME TypeInv
  PROVE  /\ \A n \in DOMAIN sent : n \in Nat /\ sent[n].date \in Nat
         /\ Now \in Nat /\ LinkGap \in Nat /\ LinkAlertDelay \in Nat /\ SaleGap \in Nat
         /\ LinkAlertDelay <= LinkGap /\ lastSale \in Nat
         /\ linkAlerts \in Seq(Alert) /\ saleAlerts \in Seq(Alert)
         /\ status # <<>> => status[1].date \in Nat
<1>1. \A n \in DOMAIN sent : n \in Nat /\ sent[n].date \in Nat
  <2>1. \A n \in 1 .. Len(sent) : sent[n] \in Message
    BY StoreTypes, ElementOfSeq
  <2>. QED  BY <2>1, StoreTypes DEF Message
<1>2. status # <<>> => status[1].date \in Nat
  <2>1. status \in Seq(StatusRow)
    BY StoreTypes
  <2>2. status # <<>> => 1 \in 1 .. Len(status)
    BY <2>1, EmptySeq, LenProperties
  <2>3. status # <<>> => status[1] \in StatusRow
    BY <2>1, <2>2, ElementOfSeq
  <2>. QED  BY <2>3 DEF StatusRow
<1>3. lastSale \in Nat /\ linkAlerts \in Seq(Alert) /\ saleAlerts \in Seq(Alert)
  BY DEF TypeInv, TypeOK
<1>. QED  BY <1>1, <1>2, <1>3, NowType, GapAssumption

(* The dates of the messages sent rise up to now.                          *)
LEMMA SentDates ==
  ASSUME TypeInv, OrderInv
  PROVE  /\ \A n \in DOMAIN sent : sent[n].date <= Now
         /\ h.pc # "idle" => /\ Msg.date <= Now
                             /\ \A n \in DOMAIN sent : Waits(n) => Msg.date < sent[n].date
<1>1. /\ Len(sent) \in Nat /\ DOMAIN sent = 1 .. Len(sent)
      /\ \A n \in DOMAIN sent : n \in Nat /\ sent[n].date \in Nat
      /\ acked \in Nat
  BY StoreTypes, DateTypes
<1>2. ASSUME NEW n \in DOMAIN sent PROVE sent[n].date <= Now
  <2>1. sent # <<>> /\ Len(sent) \in DOMAIN sent /\ n \in 1 .. Len(sent)
    BY <1>1, EmptySeq
  <2>2. Now = sent[Len(sent)].date
    BY <2>1 DEF Now
  <2>3. CASE n = Len(sent)
    BY <1>1, <2>1, <2>2, <2>3
  <2>4. CASE n < Len(sent)
    BY <1>1, <2>1, <2>2, <2>4 DEF OrderInv, Rising
  <2>. QED  BY <1>1, <2>1, <2>3, <2>4
<1>3. ASSUME h.pc # "idle", NEW n \in DOMAIN sent, Waits(n)
      PROVE  Msg.date < sent[n].date
  <2>1. h.n \in DOMAIN sent /\ h.n \in Nat /\ h.n <= acked
    BY <1>3, HandlerTypes DEF OrderInv
  <2>2. h.n < n
    <3>1. CASE acked < n
      BY <1>1, <2>1, <3>1
    <3>2. CASE \E i \in DOMAIN queue : queue[i] = n
      BY <1>3, <3>2 DEF OrderInv
    <3>. QED  BY <1>3, <3>1, <3>2 DEF Waits
  <2>. QED  BY <2>1, <2>2 DEF OrderInv, Rising, Msg
<1>4. h.pc # "idle" => Msg.date <= Now
  BY <1>2, HandlerTypes DEF Msg
<1>. QED  BY <1>2, <1>3, <1>4

LEMMA BoardOrder ==
  ASSUME TypeInv, Spaced, OrderInv, Board
  PROVE  /\ OrderInv' /\ Now' \in Nat /\ Now < Now'
         /\ \A i \in DOMAIN sent : sent'[i] = sent[i]
         /\ \A n \in DOMAIN sent : Waits(n)' => Waits(n)
         /\ \A n \in DOMAIN sent' : n \notin DOMAIN sent => sent'[n].date = Now'
         /\ UNCHANGED <<acked, flight, cuts, queue, h, status, alerts, ledger, rest>>
<1>1. PICK m \in Message, gap \in regime.gaps :
        sent' = Append(sent, m) /\ m.date = Now + gap
  BY BoardSends
<1>2. /\ sent' \in Seq(Message) /\ Len(sent') = Len(sent) + 1 /\ Len(sent) \in Nat
      /\ DOMAIN sent = 1 .. Len(sent) /\ DOMAIN sent' = 1 .. Len(sent')
      /\ \A i \in DOMAIN sent : sent'[i] = sent[i]
      /\ UNCHANGED <<acked, flight, cuts, queue, h, status, alerts, ledger, rest>>
  BY BoardSends
<1>3. sent'[Len(sent) + 1] = m
  BY <1>1, StoreTypes, AppendProperties
<1>4. gap \in Nat /\ gap # 0 /\ Now \in Nat
  BY DateTypes, RegimeType DEF Spaced, TypeInv, TypeOK
<1>5. Now' = m.date
  <2>1. sent' # <<>>
    BY <1>2, EmptySeq
  <2>. QED  BY <1>2, <1>3, <2>1 DEF Now
<1>6. Now' \in Nat /\ Now < Now'
  BY <1>1, <1>4, <1>5
<1>7. \A n \in DOMAIN sent' : n \notin DOMAIN sent => n = Len(sent) + 1
  BY <1>2
<1>8. ASSUME NEW i \in DOMAIN sent', NEW j \in DOMAIN sent', i < j
      PROVE  sent'[i].date < sent'[j].date
  <2>1. i \in DOMAIN sent /\ (j \in DOMAIN sent \/ j = Len(sent) + 1)
    <3>1. Len(sent) \in Nat /\ i \in 1 .. Len(sent) + 1 /\ j \in 1 .. Len(sent) + 1
      BY <1>2
    <3>. QED  BY <1>2, <1>8, <3>1
  <2>2. CASE j \in DOMAIN sent
    BY <1>2, <1>8, <2>1, <2>2 DEF OrderInv, Rising
  <2>3. CASE j = Len(sent) + 1
    <3>1. sent[i].date \in Nat /\ sent[i].date <= Now
      BY <2>1, SentDates, DateTypes
    <3>. QED  BY <1>2, <1>3, <1>4, <1>5, <1>6, <2>1, <2>3, <3>1
  <2>. QED  BY <2>1, <2>2, <2>3
<1>9. OrderInv'
  BY <1>2, <1>8 DEF OrderInv, Rising
<1>10. \A n \in DOMAIN sent : Waits(n)' => Waits(n)
  BY <1>2 DEF Waits
<1>. QED  BY <1>2, <1>3, <1>5, <1>6, <1>7, <1>9, <1>10

LEMMA WireOrder ==
  ASSUME TypeInv, Ordered, OrderInv, Connection \/ Take \/ Discard
  PROVE  /\ OrderInv' /\ Now' = Now
         /\ \A n \in DOMAIN sent : Waits(n)' => Waits(n)
         /\ UNCHANGED <<sent, status, alerts, ledger>>
         /\ \/ h'.pc = "idle"
            \/ UNCHANGED h
            \/ h'.pc = "read" /\ h'.n \in DOMAIN sent /\ Waits(h'.n)
<1>1. /\ queue \in Seq(DOMAIN sent) /\ Len(queue) \in Nat /\ DOMAIN queue = 1 .. Len(queue)
      /\ \A i \in 1 .. Len(queue) : queue[i] \in 1 .. Len(sent)
      /\ Len(sent) \in Nat /\ DOMAIN sent = 1 .. Len(sent)
      /\ acked \in Nat /\ flight \in Nat /\ acked + flight <= Len(sent)
  BY StoreTypes
<1>2. UNCHANGED <<sent, status, alerts, ledger>>
  BY DEF Connection, Receive, Acknowledge, Cut, Crash, Take, Discard, wire
<1>3. Now' = Now
  BY <1>2 DEF Now
<1>4. /\ flight = 0 /\ Rising(sent)
      /\ \A i \in DOMAIN queue : queue[i] <= acked
      /\ \A i, j \in DOMAIN queue : i < j => queue[i] < queue[j]
      /\ h.pc # "idle" => h.n <= acked /\ \A i \in DOMAIN queue : h.n < queue[i]
      /\ ~regime.repeats /\ h.n \in Nat
  BY HandlerTypes DEF OrderInv, Ordered, HandlerState
<1>5. CASE Receive
  <2>0. PICK m \in Nat : m = acked + 1
    BY <1>1
  <2>1. /\ queue' = Append(queue, m) /\ m \in DOMAIN sent
        /\ flight' = 0 /\ acked' = m /\ UNCHANGED h
    BY <1>1, <1>4, <1>5, <2>0 DEF Receive
  <2>2. /\ DOMAIN queue' = 1 .. Len(queue) + 1
        /\ \A i \in 1 .. Len(queue) : queue'[i] = queue[i]
        /\ queue'[Len(queue) + 1] = m
    BY <1>1, <2>1, AppendProperties
  <2>3. \A i \in DOMAIN queue' : i \in DOMAIN queue \/ i = Len(queue) + 1
    BY <1>1, <2>2
  <2>4. \A i \in DOMAIN queue : queue'[i] = queue[i] /\ queue[i] \in Nat /\ queue[i] <= acked
                                /\ queue[i] < m /\ i < Len(queue) + 1
    <3>1. ASSUME NEW i \in DOMAIN queue
          PROVE  queue'[i] = queue[i] /\ queue[i] \in Nat /\ queue[i] <= acked
                 /\ queue[i] < m /\ i < Len(queue) + 1
      <4>1. i \in 1 .. Len(queue) /\ Len(queue) \in Nat
        BY <1>1
      <4>2. queue'[i] = queue[i] /\ queue[i] \in Nat /\ queue[i] <= acked
        BY <1>1, <1>4, <2>2, <4>1
      <4>3. queue[i] < m
        BY <1>1, <2>0, <4>2
      <4>4. i < Len(queue) + 1
        BY <4>1
      <4>. QED  BY <4>2, <4>3, <4>4
    <3>. QED  BY <3>1
  <2>5. \A i \in DOMAIN queue' : queue'[i] <= m
    BY <2>2, <2>3, <2>4
  <2>6. ASSUME NEW i \in DOMAIN queue', NEW j \in DOMAIN queue', i < j
        PROVE  queue'[i] < queue'[j]
    <3>1. i \in DOMAIN queue
      <4>1. Len(queue) \in Nat /\ i \in 1 .. Len(queue) + 1 /\ j \in 1 .. Len(queue) + 1
        BY <1>1, <2>2
      <4>2. i \in 1 .. Len(queue)
        BY <2>6, <4>1
      <4>. QED  BY <1>1, <4>2
    <3>2. CASE j \in DOMAIN queue
      BY <1>4, <2>4, <2>6, <3>1, <3>2
    <3>3. CASE j = Len(queue) + 1
      BY <2>2, <2>4, <3>1, <3>3
    <3>. QED  BY <2>3, <3>2, <3>3
  <2>7. h.pc # "idle" => h.n <= m /\ \A i \in DOMAIN queue' : h.n < queue'[i]
    <3>1. h.pc # "idle" => h.n < m
      BY <1>1, <1>4, <2>0
    <3>. QED  BY <1>4, <2>0, <2>2, <2>3, <2>4, <3>1
  <2>8. OrderInv'
    BY <1>2, <1>4, <2>1, <2>5, <2>6, <2>7 DEF OrderInv
  <2>9. ASSUME NEW n \in DOMAIN sent, Waits(n)' PROVE Waits(n)
    <3>1. CASE \E i \in DOMAIN queue' : queue'[i] = n
      <4>1. CASE n = m
        <5>1. acked < m
          BY <1>1, <2>0
        <5>. QED  BY <4>1, <5>1 DEF Waits
      <4>2. CASE n # m
        BY <2>2, <2>3, <2>4, <3>1, <4>2 DEF Waits
      <4>. QED  BY <4>1, <4>2
    <3>2. CASE ~\E i \in DOMAIN queue' : queue'[i] = n
      <4>1. m < n
        BY <2>1, <2>9, <3>2 DEF Waits
      <4>2. n \in Nat /\ acked \in Nat
        BY <1>1
      <4>3. acked < n
        BY <2>0, <4>1, <4>2
      <4>. QED  BY <4>3 DEF Waits
    <3>. QED  BY <3>1, <3>2
  <2>. QED  BY <1>2, <1>3, <2>1, <2>8, <2>9
<1>6. CASE Crash
  <2>1. queue' = <<>> /\ h'.pc = "idle" /\ flight' = 0 /\ acked' = acked
    BY <1>6, IdleType DEF Crash
  <2>2. DOMAIN queue' = {}
    BY <2>1, EmptySeq
  <2>3. OrderInv'
    BY <1>2, <1>4, <2>1, <2>2 DEF OrderInv
  <2>4. \A n : Waits(n)' => Waits(n)
    BY <2>1, <2>2 DEF Waits
  <2>. QED  BY <1>2, <1>3, <2>1, <2>3, <2>4
<1>7. CASE Take \/ Discard
  <2>1. /\ h.pc = "idle" /\ queue # <<>> /\ queue' = Tail(queue)
        /\ flight' = flight /\ acked' = acked
    BY <1>7 DEF Take, Discard, wire
  <2>2. /\ Len(queue) \in Nat \ {0} /\ Len(queue') = Len(queue) - 1
        /\ queue' \in Seq(DOMAIN sent) /\ Head(queue) = queue[1]
        /\ \A i \in 1 .. Len(queue) - 1 : queue'[i] = queue[i + 1]
    BY <2>1, QueueHead
  <2>3. DOMAIN queue' = 1 .. Len(queue) - 1
    BY <2>2, LenProperties
  <2>4. \A i \in DOMAIN queue' : /\ i + 1 \in DOMAIN queue /\ queue'[i] = queue[i + 1]
                                 /\ 1 \in DOMAIN queue /\ 1 < i + 1 /\ i \in Nat
    <3>1. ASSUME NEW i \in 1 .. Len(queue) - 1
          PROVE  i + 1 \in 1 .. Len(queue) /\ 1 \in 1 .. Len(queue) /\ 1 < i + 1 /\ i \in Nat
      <4>1. Len(queue) \in Nat
        BY <1>1
      <4>. QED  BY <4>1
    <3>. QED  BY <1>1, <2>2, <2>3, <3>1
  <2>5. \A i, j \in DOMAIN queue' : i < j => i + 1 < j + 1
    BY <2>4
  <2>6. /\ \A i \in DOMAIN queue' : queue'[i] <= acked /\ queue[1] < queue'[i]
        /\ \A i, j \in DOMAIN queue' : i < j => queue'[i] < queue'[j]
    BY <1>4, <2>4, <2>5
  <2>7. \A n : Waits(n)' => Waits(n)
    BY <2>1, <2>4 DEF Waits
  <2>8. 1 \in DOMAIN queue /\ queue[1] \in DOMAIN sent /\ queue[1] <= acked /\ Waits(queue[1])
    <3>1. 1 \in DOMAIN queue
      BY <1>1, <2>2
    <3>. QED  BY <1>1, <1>4, <3>1 DEF Waits
  <2>9. CASE Take
    <3>1. h'.pc = "read" /\ h'.n = queue[1]
      BY <2>2, <2>9 DEF Take, Idle
    <3>2. OrderInv'
      BY <1>2, <1>4, <2>1, <2>6, <2>8, <3>1 DEF OrderInv
    <3>. QED  BY <1>2, <1>3, <2>7, <2>8, <3>1, <3>2
  <2>10. CASE Discard
    <3>1. h' = h
      BY <2>10 DEF Discard
    <3>2. OrderInv'
      BY <1>2, <1>4, <2>1, <2>6, <3>1 DEF OrderInv
    <3>. QED  BY <1>2, <1>3, <2>7, <3>1, <3>2
  <2>. QED  BY <1>7, <2>9, <2>10
<1>8. CASE Acknowledge \/ Cut
  BY <1>1, <1>4, <1>8 DEF Acknowledge, Cut
<1>. QED  BY <1>5, <1>6, <1>7, <1>8 DEF Connection

LEMMA HandlerOrder ==
  ASSUME TypeInv, OrderInv, UNCHANGED <<sent, acked, flight, queue>>,
         h'.pc # "idle" => h.pc # "idle" /\ h'.n = h.n
  PROVE  /\ OrderInv' /\ Now' = Now
         /\ \A n : Waits(n)' <=> Waits(n)
         /\ h'.pc # "idle" => Msg' = Msg
<1>1. OrderInv'
  BY DEF OrderInv
<1>. QED  BY <1>1 DEF Now, Waits, Msg

(* The steps that are not of the handler leave the alerts behind what is   *)
(* still to be handled.                                                    *)
LEMMA WireAlerts ==
  ASSUME TypeInv, Ordered, OrderInv, DateInv, LinkInv, SaleInv, RaisedInv,
         Connection \/ Take \/ Discard
  PROVE  OrderInv' /\ DateInv' /\ LinkInv' /\ SaleInv' /\ RaisedInv'
<1>1. /\ OrderInv' /\ Now' = Now
      /\ \A n \in DOMAIN sent : Waits(n)' => Waits(n)
      /\ UNCHANGED <<sent, status, linkAlerts, saleAlerts, lastSale>>
      /\ \/ h'.pc = "idle"
         \/ UNCHANGED h
         \/ h'.pc = "read" /\ h'.n \in DOMAIN sent /\ Waits(h'.n)
  BY WireOrder DEF alerts, ledger
<1>2. "idle" \notin StatusStage /\ "read" \notin StatusStage /\ "idle" \notin SaleUnseen
  BY DEF StatusStage, SaleUnseen, SaleStage
<1>3. UNCHANGED h => Msg' = Msg
  BY <1>1 DEF Msg
<1>4. h'.pc = "read" => UNCHANGED h \/ Msg' = sent[h'.n]
  BY <1>1 DEF Msg
<1>5. DateInv'
  <2>1. \A n \in DOMAIN sent : Waits(n)' /\ status # <<>> => status[1].date < sent[n].date
    BY <1>1 DEF DateInv
  <2>2. CASE h'.pc = "idle"
    BY <1>1, <1>2, <2>1, <2>2 DEF DateInv
  <2>3. CASE UNCHANGED h
    BY <1>1, <1>3, <2>1, <2>3 DEF DateInv
  <2>4. CASE h'.pc = "read" /\ h'.n \in DOMAIN sent /\ Waits(h'.n) /\ ~UNCHANGED h
    BY <1>1, <1>2, <1>4, <2>1, <2>4 DEF DateInv
  <2>. QED  BY <1>1, <2>2, <2>3, <2>4
<1>6. LinkInv'
  <2>1. CASE UNCHANGED h
    BY <1>1, <1>3, <2>1 DEF LinkInv, IsLate
  <2>2. CASE h'.pc \in {"idle", "read"}
    BY <1>1, <2>2 DEF LinkInv
  <2>. QED  BY <1>1, <2>1, <2>2
<1>7. SaleInv'
  <2>1. \A n \in DOMAIN sent : Waits(n)' => Before(saleAlerts, sent[n].date)
    BY <1>1 DEF SaleInv
  <2>2. CASE h'.pc = "idle"
    BY <1>1, <1>2, <2>1, <2>2 DEF SaleInv
  <2>3. CASE UNCHANGED h
    BY <1>1, <1>3, <2>1, <2>3 DEF SaleInv
  <2>4. CASE h'.pc = "read" /\ h'.n \in DOMAIN sent /\ Waits(h'.n) /\ ~UNCHANGED h
    <3>1. Before(saleAlerts, Msg'.date)
      BY <1>4, <2>4 DEF SaleInv
    <3>. QED  BY <1>1, <2>1, <2>4, <3>1 DEF SaleInv
  <2>. QED  BY <1>1, <2>2, <2>3, <2>4
<1>8. RaisedInv'
  <2>1. CASE UNCHANGED h
    BY <1>1, <1>3, <2>1 DEF RaisedInv, IdleLong
  <2>2. CASE h'.pc \in {"idle", "read"}
    BY <2>2 DEF RaisedInv
  <2>. QED  BY <1>1, <2>1, <2>2
<1>. QED  BY <1>1, <1>5, <1>6, <1>7, <1>8

LEMMA BoardAlerts ==
  ASSUME TypeInv, Spaced, OrderInv, DateInv, LinkInv, SaleInv, RaisedInv, Board
  PROVE  OrderInv' /\ DateInv' /\ LinkInv' /\ SaleInv' /\ RaisedInv'
<1>1. /\ OrderInv' /\ Now' \in Nat /\ Now < Now'
      /\ \A i \in DOMAIN sent : sent'[i] = sent[i]
      /\ \A n \in DOMAIN sent : Waits(n)' => Waits(n)
      /\ \A n \in DOMAIN sent' : n \notin DOMAIN sent => sent'[n].date = Now'
      /\ UNCHANGED <<h, status, linkAlerts, saleAlerts, lastSale>>
  BY BoardOrder DEF alerts, ledger
<1>2. h.pc # "idle" => Msg' = Msg
  BY <1>1, HandlerTypes DEF Msg
<1>3. /\ Now \in Nat /\ linkAlerts \in Seq(Alert) /\ saleAlerts \in Seq(Alert)
      /\ status # <<>> => status[1].date \in Nat
  BY DateTypes
<1>4. /\ status # <<>> => status[1].date < Now' /\ status[1].date <= Now'
      /\ Before(saleAlerts, Now') /\ Upto(saleAlerts, Now')
  <2>1. status # <<>> => status[1].date < Now' /\ status[1].date <= Now'
    BY <1>1, <1>3 DEF DateInv
  <2>2. Upto(saleAlerts, Now)
    BY DEF SaleInv
  <2>. QED  BY <1>1, <1>3, <2>1, <2>2, Later
<1>5. "idle" \notin StatusStage /\ "idle" \notin SaleUnseen
  BY DEF StatusStage, SaleUnseen, SaleStage
<1>6. ASSUME NEW n \in DOMAIN sent', Waits(n)'
      PROVE  /\ status # <<>> => status[1].date < sent'[n].date
             /\ Before(saleAlerts, sent'[n].date)
  <2>1. CASE n \in DOMAIN sent
    BY <1>1, <1>6, <2>1 DEF DateInv, SaleInv
  <2>2. CASE n \notin DOMAIN sent
    BY <1>1, <1>4, <2>2
  <2>. QED  BY <2>1, <2>2
<1>7. DateInv'
  BY <1>1, <1>2, <1>4, <1>5, <1>6 DEF DateInv
<1>8. LinkInv' /\ RaisedInv'
  BY <1>1, <1>2 DEF LinkInv, RaisedInv, IsLate, IdleLong
<1>9. SaleInv'
  BY <1>1, <1>2, <1>4, <1>5, <1>6 DEF SaleInv
<1>. QED  BY <1>1, <1>7, <1>8, <1>9

-----------------------------------------------------------------------------
(* A handler of one message, with writes that do not fail.                 *)
Handles ==
    /\ TypeInv /\ Ordered /\ OneRowInv
    /\ OrderInv /\ DateInv /\ LinkInv /\ SaleInv /\ RaisedInv
    /\ h.pc # "idle"
    /\ UNCHANGED <<sent, acked, flight, queue, regime>>
    /\ h'.pc # "idle" => h'.n = h.n

LEMMA HandlesOrder ==
  ASSUME Handles
  PROVE  /\ OrderInv' /\ Now' = Now
         /\ \A n \in DOMAIN sent : Waits(n)' <=> Waits(n)
         /\ DOMAIN sent' = DOMAIN sent /\ sent' = sent
         /\ h'.pc # "idle" => Msg' = Msg
         /\ Msg.date \in Nat /\ Msg.date <= Now /\ Now \in Nat
         /\ \A n \in DOMAIN sent : sent[n].date \in Nat /\ (Waits(n) => Msg.date < sent[n].date)
  BY HandlerOrder, SentDates, DateTypes, HandlerTypes DEF Handles

LEMMA DateStays ==
  ASSUME Handles, UNCHANGED <<status, linkAlerts>>,
         h'.pc \in {"read", "store"} => h.pc \in {"read", "store"},
         h'.pc \in StatusStage \ {"store"} => h.pc \in StatusStage \ {"store"}
  PROVE  DateInv'
<1>1. "idle" \notin StatusStage
  BY DEF StatusStage
<1>. QED  BY <1>1, HandlesOrder DEF Handles, DateInv

LEMMA LinkStays ==
  ASSUME Handles, UNCHANGED linkAlerts, h'.pc \notin {"readLink", "linkLost", "linkBack"}
  PROVE  LinkInv'
  BY DEF Handles, LinkInv

LEMMA SaleStays ==
  ASSUME Handles, UNCHANGED saleAlerts,
         h'.pc \in SaleUnseen => h.pc \in SaleUnseen,
         h'.pc = "noSales" => ~LastIs(saleAlerts, "no_sales"),
         h'.pc = "salesBack" => LastIs(saleAlerts, "no_sales")
  PROVE  SaleInv'
<1>1. "idle" \notin SaleUnseen
  BY DEF SaleUnseen, SaleStage
<1>. QED  BY <1>1, HandlesOrder DEF Handles, SaleInv

LEMMA RaisedStays ==
  ASSUME Handles,
         \/ h'.pc \notin {"mailSales", "tankEmpty", "tankFilling", "mailTank"}
         \/ LastIs(saleAlerts', "no_sales")
         \/ h'.id = h.id /\ h'.last = h.last /\ lastSale' = lastSale /\ ~IdleLong
  PROVE  RaisedInv'
  BY HandlesOrder DEF RaisedInv, IdleLong

-----------------------------------------------------------------------------

(* In a log of rising dates the query of the newest alert has one answer.  *)
LEMMA NewestTells ==
  ASSUME NEW log \in Seq(Alert), LogInv(log), NEW code \in NewestAlerts(log),
         NEW wanted \in AlertCode
  PROVE  code = wanted <=> LastIs(log, wanted)
<1>1. CASE log = <<>>
  BY <1>1, NewestIsLast DEF LastIs, LogInv, AlertCode
<1>2. CASE log # <<>>
  BY <1>2, NewestIsLast DEF LastIs, LogInv
<1>. QED  BY <1>1, <1>2

(* Where a status of an idle machine goes on after its sale alert, or ends,*)
(* the alert is raised.                                                    *)
Settled ==
    h'.pc \in {"mailSales", "tankEmpty", "tankFilling", "mailTank", "idle"} /\ IdleLong =>
        LastIs(saleAlerts', "no_sales")

LEMMA LinkLeft == AfterLink # "readLastSale" => ~IdleLong
  BY DEF AfterLink, IdleLong

LEMMA WriteStatusAlerts ==
  ASSUME Handles, StatusStep, WriteStatus
  PROVE  DateInv' /\ LinkInv' /\ SaleInv' /\ Settled
<1>1. /\ h.pc = "store" /\ Goes(IF IsFirst THEN AfterSales ELSE "readLink")
      /\ status' # <<>> /\ status'[1] = NewRow
      /\ UNCHANGED <<linkAlerts, saleAlerts>>
  BY StatusSteps, RowWrites DEF Handles, Ordered, WriteStatus, alerts
<1>2. status'[1].date = Msg.date
  BY <1>1 DEF NewRow
<1>3. /\ linkAlerts \in Seq(Alert)
      /\ status # <<>> => status[1].date \in Nat
  BY DateTypes DEF Handles
<1>4. \/ h.id = 0 /\ status = <<>>
      \/ h.id = 1 /\ status # <<>> /\ h.last = status[1]
  BY <1>1 DEF Handles, OneRowInv, Ordered
<1>5. Upto(linkAlerts, Msg.date)
  <2>1. CASE status = <<>>
    <3>1. linkAlerts = <<>>
      BY <2>1 DEF Handles, DateInv
    <3>. QED  BY <3>1, EmptySeq DEF Upto
  <2>2. CASE status # <<>>
    <3>1. Upto(linkAlerts, status[1].date) /\ status[1].date < Msg.date
      BY <1>1, <2>2 DEF Handles, DateInv
    <3>2. Msg.date \in Nat
      BY HandlesOrder
    <3>3. Before(linkAlerts, Msg.date)
      BY <1>3, <2>2, <3>1, <3>2, Later
    <3>. QED  BY <1>3, <3>2, <3>3, Later
  <2>. QED  BY <2>1, <2>2
<1>6. /\ h'.pc \in {"tankEmpty", "tankFilling", "idle", "readLink"}
      /\ h'.pc = "readLink" => ~IsFirst /\ h'.id = h.id /\ h'.last = h.last
      /\ h'.pc # "readLink" => IsFirst
  BY <1>1, StageTells DEF Goes
<1>7. DateInv'
  <2>1. h'.pc # "idle" => Msg' = Msg
    BY HandlesOrder
  <2>2. h'.pc \notin {"read", "store"} /\ "idle" \notin StatusStage
    BY <1>6 DEF StatusStage
  <2>3. /\ status'[1].date <= Now' /\ Upto(linkAlerts', status'[1].date)
        /\ \A n \in DOMAIN sent' : Waits(n)' => status'[1].date < sent'[n].date
    BY <1>1, <1>2, <1>5, HandlesOrder
  <2>. QED  BY <1>1, <1>2, <2>1, <2>2, <2>3 DEF DateInv
<1>8. LinkInv'
  <2>1. LogInv(linkAlerts)
    BY DEF Handles, LinkInv
  <2>2. h'.pc = "readLink" => h'.id # 0 /\ Upto(linkAlerts, h'.last.date)
    BY <1>4, <1>6 DEF Handles, DateInv, IsFirst
  <2>. QED  BY <1>1, <1>6, <2>1, <2>2 DEF LinkInv
<1>9. SaleInv'
  BY <1>1, <1>6, SaleStays DEF SaleUnseen
<1>10. Settled
  BY <1>6 DEF Settled, IdleLong, IsFirst
<1>. QED  BY <1>7, <1>8, <1>9, <1>10

LEMMA ReadLinkAlerts ==
  ASSUME Handles, StatusStep, ReadLinkAlert
  PROVE  DateInv' /\ LinkInv' /\ SaleInv' /\ Settled
<1>1. /\ h.pc = "readLink" /\ h.pc \in StatusStage
      /\ UNCHANGED <<status, linkAlerts, saleAlerts, lastSale>>
  BY StatusSteps DEF Handles, ReadLinkAlert, alerts, ledger
<1>2. /\ linkAlerts \in Seq(Alert) /\ h.last.date \in Nat /\ Msg.date \in Nat
      /\ LinkGap \in Nat /\ h.id # 0 /\ Upto(linkAlerts, h.last.date) /\ LogInv(linkAlerts)
  BY <1>1, DateTypes, HandlerTypes DEF Handles, LinkInv
<1>3. PICK code \in NewestAlerts(linkAlerts) :
        Goto(CASE ~IsLate -> AfterLink
               [] IsLate /\ code = "link_lost" -> "linkBack"
               [] OTHER -> "linkLost")
  BY DEF ReadLinkAlert, QueryResult, Handles, Ordered
<1>4. code = "link_lost" <=> LastIs(linkAlerts, "link_lost")
  BY <1>2, NewestTells DEF AlertCode
<1>5. \/ ~IsLate /\ Goto(AfterLink)
      \/ IsLate /\ LastIs(linkAlerts, "link_lost") /\ Goto("linkBack")
      \/ IsLate /\ ~LastIs(linkAlerts, "link_lost") /\ Goto("linkLost")
  <2>1. CASE ~IsLate
    BY <1>3, <2>1
  <2>2. CASE IsLate /\ code = "link_lost"
    BY <1>3, <1>4, <2>2
  <2>3. CASE IsLate /\ code # "link_lost"
    BY <1>3, <1>4, <2>3
  <2>. QED  BY <2>1, <2>2, <2>3
<1>6. {"linkBack", "linkLost", AfterLink} \subseteq Step /\ TypeInv
  BY StageTells DEF Step, Handles
<1>7. \/ ~IsLate /\ Goes(AfterLink)
      \/ IsLate /\ LastIs(linkAlerts, "link_lost") /\ Goes("linkBack")
      \/ IsLate /\ ~LastIs(linkAlerts, "link_lost") /\ Goes("linkLost")
  BY <1>5, <1>6, GotoGoes
<1>8. IsLate => Before(linkAlerts, Msg.date)
  <2>1. IsLate => h.last.date < Msg.date
    BY <1>2 DEF IsLate
  <2>. QED  BY <1>2, <2>1, Later
<1>9. h'.pc \in {"linkBack", "linkLost", "readLastSale", "tankEmpty", "tankFilling", "idle"}
  BY <1>7, StageTells DEF Goes
<1>10. DateInv'
  BY <1>1, <1>9, DateStays DEF StatusStage
<1>11. LinkInv'
  <2>1. CASE Goes(AfterLink)
    <3>1. h'.pc \in {"readLastSale", "tankEmpty", "tankFilling", "idle"}
      BY <2>1, StageTells DEF Goes
    <3>. QED  BY <1>1, <3>1, LinkStays
  <2>2. CASE IsLate /\ LastIs(linkAlerts, "link_lost") /\ Goes("linkBack")
    <3>1. h'.pc = "linkBack" /\ Msg' = Msg
      BY <2>2, HandlesOrder DEF Goes
    <3>. QED  BY <1>1, <1>2, <1>8, <2>2, <3>1 DEF LinkInv
  <2>3. CASE IsLate /\ ~LastIs(linkAlerts, "link_lost") /\ Goes("linkLost")
    <3>1. h'.pc = "linkLost" /\ h'.id = h.id /\ h'.last = h.last /\ Msg' = Msg
      BY <2>3, HandlesOrder DEF Goes
    <3>2. IsLate'
      BY <2>3, <3>1 DEF IsLate
    <3>. QED  BY <1>1, <1>2, <2>3, <3>1, <3>2 DEF LinkInv
  <2>. QED  BY <1>7, <2>1, <2>2, <2>3
<1>12. SaleInv'
  BY <1>1, <1>9, SaleStays DEF SaleUnseen
<1>13. Settled
  <2>1. h'.pc \in {"tankEmpty", "tankFilling", "idle"} => AfterLink # "readLastSale"
    BY <1>7 DEF Goes
  <2>. QED  BY <1>9, <2>1, LinkLeft DEF Settled
<1>. QED  BY <1>10, <1>11, <1>12, <1>13

(* An alert of the link inserted with a date not after the message's.      *)
LEMMA LinkInserted ==
  ASSUME Handles, h.pc \in StatusStage \ {"store"}, UNCHANGED status,
         NEW code \in AlertCode, NEW date \in Nat, date <= Msg.date,
         linkAlerts' = InsertAlert(linkAlerts, code, date),
         Before(linkAlerts, date), ~LastIs(linkAlerts, code),
         h'.pc \notin {"read", "store"}
  PROVE  /\ DateInv' /\ LogInv(linkAlerts') /\ Upto(linkAlerts', date)
         /\ LastIs(linkAlerts', code) /\ linkAlerts' \in Seq(Alert)
<1>1. linkAlerts \in Seq(Alert) /\ LogInv(linkAlerts) /\ linkAlerts' \in Seq(Alert)
  BY DateTypes, InsertAlertType DEF Handles, LinkInv
<1>2. /\ LogInv(linkAlerts') /\ Upto(linkAlerts', date) /\ LastIs(linkAlerts', code)
  BY <1>1, InsertedAlert
<1>3. Upto(linkAlerts', Msg.date)
  BY <1>1, <1>2, HandlesOrder, Later
<1>4. status # <<>> /\ status[1].date = Msg.date
  BY DEF Handles, DateInv
<1>5. h'.pc \in StatusStage => Msg' = Msg
  BY HandlesOrder DEF StatusStage
<1>6. DateInv'
  BY <1>3, <1>4, <1>5, HandlesOrder DEF DateInv
<1>. QED  BY <1>1, <1>2, <1>6

LEMMA LinkLostAlerts ==
  ASSUME Handles, Spaced, StatusStep, InsertLinkLost
  PROVE  DateInv' /\ LinkInv' /\ SaleInv' /\ Settled
<1>1. /\ h.pc = "linkLost" /\ h.pc \in StatusStage \ {"store"} /\ Goes("linkBack")
      /\ UNCHANGED <<status, saleAlerts>>
      /\ linkAlerts' = InsertAlert(linkAlerts, "link_lost", h.last.date + LinkAlertDelay)
  BY StatusSteps DEF Handles, InsertLinkLost, Outcome, Ordered
<1>2. PICK date \in Nat : date = h.last.date + LinkAlertDelay
  BY DateTypes, HandlerTypes DEF Handles
<1>3. /\ h.last.date \in Nat /\ LinkAlertDelay \in Nat /\ LinkGap \in Nat /\ Msg.date \in Nat
      /\ LinkAlertDelay <= LinkGap /\ LinkAlertDelay > 0 /\ h.last.date + LinkGap < Msg.date
      /\ Upto(linkAlerts, h.last.date) /\ ~LastIs(linkAlerts, "link_lost")
      /\ linkAlerts \in Seq(Alert)
  BY <1>1, DateTypes, HandlerTypes DEF Handles, LinkInv, IsLate, Spaced
<1>4. h.last.date < date /\ date < Msg.date /\ date <= Msg.date
  BY <1>2, <1>3
<1>5. Before(linkAlerts, date)
  BY <1>3, <1>4, Later
<1>6. h'.pc = "linkBack" /\ Msg' = Msg
  BY <1>1, HandlesOrder DEF Goes
<1>7. /\ DateInv' /\ LogInv(linkAlerts') /\ Upto(linkAlerts', date)
      /\ LastIs(linkAlerts', "link_lost") /\ linkAlerts' \in Seq(Alert)
  BY <1>1, <1>2, <1>3, <1>4, <1>5, <1>6, LinkInserted DEF AlertCode
<1>8. LinkInv'
  <2>1. Before(linkAlerts', Msg.date)
    BY <1>3, <1>4, <1>7, Later
  <2>. QED  BY <1>6, <1>7, <2>1 DEF LinkInv
<1>9. SaleInv'
  BY <1>1, <1>6, SaleStays DEF SaleUnseen
<1>. QED  BY <1>6, <1>7, <1>8, <1>9 DEF Settled

LEMMA LinkBackAlerts ==
  ASSUME Handles, StatusStep, InsertLinkBack
  PROVE  DateInv' /\ LinkInv' /\ SaleInv' /\ Settled
<1>1. /\ h.pc = "linkBack" /\ h.pc \in StatusStage \ {"store"} /\ Goes(AfterLink)
      /\ UNCHANGED <<status, saleAlerts>>
      /\ linkAlerts' = InsertAlert(linkAlerts, "link_back", Msg.date)
  BY StatusSteps DEF Handles, InsertLinkBack, Outcome, Ordered
<1>2. PICK date \in Nat : date = Msg.date
  BY HandlesOrder
<1>3. ~LastIs(linkAlerts, "link_back") /\ Before(linkAlerts, Msg.date)
  BY <1>1 DEF Handles, LinkInv, LastIs
<1>4. h'.pc \in {"readLastSale", "tankEmpty", "tankFilling", "idle"}
  BY <1>1, StageTells DEF Goes
<1>5. DateInv' /\ LogInv(linkAlerts')
  <2>1. date <= Msg.date
    BY <1>2
  <2>. QED  BY <1>1, <1>2, <1>3, <1>4, <2>1, LinkInserted DEF AlertCode
<1>6. LinkInv'
  BY <1>4, <1>5 DEF LinkInv
<1>7. SaleInv'
  BY <1>1, <1>4, SaleStays DEF SaleUnseen
<1>8. Settled
  <2>1. h'.pc \in {"tankEmpty", "tankFilling", "idle"} => AfterLink # "readLastSale"
    BY <1>1 DEF Goes
  <2>. QED  BY <1>4, <2>1, LinkLeft DEF Settled
<1>. QED  BY <1>5, <1>6, <1>7, <1>8

LEMMA ReadSaleAlerts ==
  ASSUME Handles, StatusStep, ReadLastSale \/ CheckSaleAlert
  PROVE  DateInv' /\ LinkInv' /\ SaleInv' /\ Settled
<1>1. UNCHANGED <<status, linkAlerts, saleAlerts, lastSale>> /\ TypeInv
  BY DEF ReadLastSale, CheckSaleAlert, alerts, ledger, Handles
<1>2. {"checkAlert", "noSales", AfterSales} \subseteq Step
  BY StageTells DEF Step
<1>3. CASE ReadLastSale
  <2>1. \/ Goto("checkAlert")
        \/ ~(lastSale # 0 /\ lastSale + SaleGap < Msg.date) /\ Goto(AfterSales)
    BY <1>3 DEF ReadLastSale, QueryResult, Handles, Ordered
  <2>2. Goes("checkAlert") \/ (~IdleLong /\ Goes(AfterSales))
    BY <1>1, <1>2, <2>1, GotoGoes DEF IdleLong
  <2>3. h.pc = "readLastSale" /\ h'.pc \in {"checkAlert", "tankEmpty", "tankFilling", "idle"}
    BY <1>3, <2>2, StageTells DEF ReadLastSale, Goes
  <2>4. DateInv' /\ LinkInv' /\ SaleInv'
    BY <1>1, <2>3, DateStays, LinkStays, SaleStays DEF StatusStage, SaleUnseen
  <2>5. Settled
    BY <2>2 DEF Settled, Goes
  <2>. QED  BY <2>4, <2>5
<1>4. CASE CheckSaleAlert
  <2>1. PICK code \in NewestAlerts(saleAlerts) :
          Goto(IF code # "no_sales" THEN "noSales" ELSE AfterSales)
    BY <1>4 DEF CheckSaleAlert, QueryResult, Handles, Ordered
  <2>2. code = "no_sales" <=> LastIs(saleAlerts, "no_sales")
    <3>1. saleAlerts \in Seq(Alert) /\ LogInv(saleAlerts)
      BY DateTypes DEF Handles, SaleInv
    <3>. QED  BY <3>1, NewestTells DEF AlertCode
  <2>3. \/ ~LastIs(saleAlerts, "no_sales") /\ Goes("noSales")
        \/ LastIs(saleAlerts, "no_sales") /\ Goes(AfterSales)
    BY <1>1, <1>2, <2>1, <2>2, GotoGoes
  <2>4. h.pc = "checkAlert" /\ h'.pc \in {"noSales", "tankEmpty", "tankFilling", "idle"}
    BY <1>4, <2>3, StageTells DEF CheckSaleAlert, Goes
  <2>5. h'.pc = "noSales" => ~LastIs(saleAlerts, "no_sales")
    BY <2>3, StageTells DEF Goes
  <2>6. DateInv' /\ LinkInv' /\ SaleInv'
    BY <1>1, <2>4, <2>5, DateStays, LinkStays, SaleStays DEF StatusStage, SaleUnseen
  <2>7. Settled
    BY <1>1, <2>3 DEF Settled, Goes
  <2>. QED  BY <2>6, <2>7
<1>. QED  BY <1>3, <1>4

(* An alert of the sales inserted with its message's date.                 *)
LEMMA SaleInserted ==
  ASSUME Handles, h.pc \in SaleUnseen, NEW code \in AlertCode,
         saleAlerts' = InsertAlert(saleAlerts, code, Msg.date),
         ~LastIs(saleAlerts, code), h'.pc \notin SaleUnseen
  PROVE  SaleInv' /\ LastIs(saleAlerts', code)
<1>1. /\ saleAlerts \in Seq(Alert) /\ LogInv(saleAlerts) /\ Before(saleAlerts, Msg.date)
      /\ Msg.date \in Nat
  BY DateTypes, HandlesOrder DEF Handles, SaleInv
<1>2. saleAlerts' \in Seq(Alert)
  BY <1>1, InsertAlertType
<1>3. LogInv(saleAlerts') /\ Upto(saleAlerts', Msg.date) /\ LastIs(saleAlerts', code)
  BY <1>1, InsertedAlert
<1>4. Upto(saleAlerts', Now)
  BY <1>1, <1>2, <1>3, HandlesOrder, Later
<1>5. ASSUME NEW n \in DOMAIN sent, Waits(n) PROVE Before(saleAlerts', sent[n].date)
  <2>1. sent[n].date \in Nat /\ Msg.date < sent[n].date
    BY <1>5, HandlesOrder
  <2>. QED  BY <1>1, <1>2, <1>3, <2>1, Later
<1>6. h'.pc \notin {"noSales", "salesBack"}
  BY DEF SaleUnseen, SaleStage
<1>7. SaleInv'
  BY <1>3, <1>4, <1>5, <1>6, HandlesOrder DEF SaleInv
<1>. QED  BY <1>3, <1>7

LEMMA NoSalesAlerts ==
  ASSUME Handles, StatusStep, InsertNoSales
  PROVE  DateInv' /\ LinkInv' /\ SaleInv' /\ Settled
<1>1. /\ h.pc = "noSales" /\ h'.pc = "mailSales" /\ UNCHANGED <<status, linkAlerts>>
      /\ saleAlerts' = InsertAlert(saleAlerts, "no_sales", Msg.date)
  BY StatusSteps DEF Handles, InsertNoSales, Outcome, Ordered, Goes
<1>2. ~LastIs(saleAlerts, "no_sales")
  BY <1>1 DEF Handles, SaleInv
<1>3. SaleInv' /\ LastIs(saleAlerts', "no_sales")
  BY <1>1, <1>2, SaleInserted DEF AlertCode, SaleUnseen, SaleStage
<1>4. DateInv' /\ LinkInv'
  BY <1>1, DateStays, LinkStays DEF StatusStage
<1>. QED  BY <1>3, <1>4 DEF Settled

LEMMA TailAlerts ==
  ASSUME Handles, StatusStep,
         MailNoSales \/ InsertTankEmpty \/ MailTankEmpty \/ InsertTankFilling
  PROVE  DateInv' /\ LinkInv' /\ SaleInv' /\ Settled
<1>1. /\ UNCHANGED <<status, linkAlerts, saleAlerts, lastSale>>
      /\ h.pc \in {"mailSales", "tankEmpty", "tankFilling", "mailTank"}
      /\ h'.pc \in {"tankEmpty", "tankFilling", "mailTank", "idle"}
  BY StatusSteps, StageTells
     DEF MailNoSales, InsertTankEmpty, MailTankEmpty, InsertTankFilling, alerts, ledger, Handles,
         Goes
<1>2. DateInv' /\ LinkInv' /\ SaleInv'
  BY <1>1, DateStays, LinkStays, SaleStays DEF StatusStage, SaleUnseen, SaleStage
<1>3. Settled
  BY <1>1 DEF Handles, RaisedInv, Settled
<1>. QED  BY <1>2, <1>3

LEMMA StatusAlerts ==
  ASSUME Handles, Spaced, StatusStep
  PROVE  DateInv' /\ LinkInv' /\ SaleInv' /\ RaisedInv' /\ Settled
<1>1. DateInv' /\ LinkInv' /\ SaleInv' /\ Settled
  BY WriteStatusAlerts, ReadLinkAlerts, LinkLostAlerts, LinkBackAlerts, ReadSaleAlerts,
     NoSalesAlerts, TailAlerts DEF StatusStep
<1>2. RaisedInv'
  <2>1. PICK pc \in (StatusStage \ {"store"}) \cup {"idle"} : Goes(pc)
    BY StatusGoes DEF Handles
  <2>2. UNCHANGED lastSale
    BY StatusSteps DEF Handles, ledger
  <2>3. h'.pc # "idle" => h'.id = h.id /\ h'.last = h.last /\ Msg' = Msg
    BY <2>1, HandlesOrder DEF Goes
  <2>4. h'.pc # "idle" => (IdleLong' <=> IdleLong)
    BY <2>2, <2>3 DEF IdleLong
  <2>. QED  BY <1>1, <2>4 DEF Settled, RaisedInv
<1>. QED  BY <1>1, <1>2

LEMMA MoneyAlerts ==
  ASSUME Handles, MoneyStep
  PROVE  DateInv' /\ LinkInv' /\ SaleInv' /\ RaisedInv'
<1>1. /\ UNCHANGED <<status, linkAlerts>>
      /\ h.pc \in SaleStage \cup {"encash", "dead"}
      /\ h'.pc \in {"readSaleAlert", "salesBack", "idle"}
      /\ h'.pc # "idle" => h.pc \in SaleStage
  BY MoneySteps DEF Handles, MoneyStep, Goes, SaleStage
<1>2. DateInv' /\ LinkInv' /\ RaisedInv'
  BY <1>1, DateStays, LinkStays, RaisedStays DEF StatusStage
<1>3. CASE ~InsertSalesBack
  <2>1. UNCHANGED saleAlerts
    BY <1>3 DEF MoneyStep, InsertEncash, InsertSaleRow, ReadSaleAlert, InsertDeadLetter, alerts
  <2>2. h'.pc = "salesBack" => LastIs(saleAlerts, "no_sales")
    <3>. SUFFICES ASSUME h'.pc = "salesBack" PROVE LastIs(saleAlerts, "no_sales")
      OBVIOUS
    <3>1. ReadSaleAlert
      BY <1>3, MoneySteps DEF Handles, MoneyStep, Goes
    <3>2. PICK code \in NewestAlerts(saleAlerts) :
            Goto(IF code = "no_sales" THEN "salesBack" ELSE "idle")
      BY <3>1 DEF ReadSaleAlert, QueryResult, Handles, Ordered
    <3>3. saleAlerts \in Seq(Alert) /\ LogInv(saleAlerts)
      BY DateTypes DEF Handles, SaleInv
    <3>4. code = "no_sales" <=> LastIs(saleAlerts, "no_sales")
      BY <3>3, NewestTells DEF AlertCode
    <3>5. code # "no_sales" => h'.pc = "idle"
      BY <3>2, IdleType DEF Goto
    <3>. QED  BY <3>4, <3>5
  <2>. QED  BY <1>1, <1>2, <2>1, <2>2, SaleStays DEF SaleUnseen, SaleStage
<1>4. CASE InsertSalesBack
  <2>1. /\ h.pc = "salesBack" /\ h'.pc = "idle"
        /\ saleAlerts' = InsertAlert(saleAlerts, "sales_back", Msg.date)
    BY <1>4, MoneySteps DEF Handles, InsertSalesBack, Outcome, Ordered, Goes
  <2>2. ~LastIs(saleAlerts, "sales_back")
    BY <2>1 DEF Handles, SaleInv, LastIs
  <2>. QED  BY <1>2, <2>1, <2>2, SaleInserted DEF AlertCode, SaleUnseen, SaleStage
<1>. QED  BY <1>2, <1>3, <1>4

LEMMA ConfigAlerts ==
  ASSUME Handles, ConfigStep
  PROVE  DateInv' /\ LinkInv' /\ SaleInv' /\ RaisedInv'
<1>1. UNCHANGED <<status, linkAlerts, saleAlerts>> /\ h'.pc \in {"writeConfig", "idle"}
  BY ConfigSteps DEF Handles, ConfigStep, Goes, alerts
<1>. QED
  BY <1>1, DateStays, LinkStays, SaleStays, RaisedStays DEF StatusStage, SaleUnseen, SaleStage

LEMMA DeviceAlerts ==
  ASSUME Handles, ReadDevice
  PROVE  DateInv' /\ LinkInv' /\ SaleInv' /\ RaisedInv'
<1>1. /\ h.pc = "read" /\ UNCHANGED <<status, linkAlerts, saleAlerts>>
      /\ h'.pc \in {"idle", "dead", "store", "sale", "encash", "readConfig"}
  <2>1. FirstStep \in {"idle", "dead", "store", "sale", "encash", "readConfig"}
    BY DEF FirstStep
  <2>. QED  BY <2>1, RowReads, IdleType DEF Handles, Ordered, alerts
<1>. QED
  BY <1>1, DateStays, LinkStays, SaleStays, RaisedStays DEF StatusStage, SaleUnseen, SaleStage

(* The stages of a handler are steps of one message.                       *)
LEMMA StageHandles ==
  ASSUME TypeInv, Ordered, OneRowInv, AlertInv, [Next]_vars,
         ReadDevice \/ StatusStep \/ MoneyStep \/ ConfigStep
  PROVE  Handles
<1>1. OrderInv /\ DateInv /\ LinkInv /\ SaleInv /\ RaisedInv /\ UNCHANGED regime
  BY RegimeStays DEF AlertInv
<1>2. CASE ReadDevice
  <2>1. /\ h.pc = "read" /\ UNCHANGED <<sent, acked, flight, queue>>
        /\ h'.pc # "idle" => h'.n = h.n
    BY <1>2, RowReads, IdleType DEF Ordered, wire
  <2>. QED  BY <1>1, <2>1 DEF Handles
<1>3. CASE StatusStep
  <2>1. h.pc # "idle" /\ UNCHANGED <<sent, acked, flight, queue>>
    BY <1>3, StatusSteps DEF wire
  <2>2. h'.pc # "idle" => h'.n = h.n
    BY <1>3, StatusGoes DEF Goes
  <2>. QED  BY <1>1, <2>1, <2>2 DEF Handles
<1>4. CASE MoneyStep
  <2>1. h.pc # "idle" /\ UNCHANGED <<sent, acked, flight, queue>>
    BY <1>4, MoneySteps DEF wire
  <2>2. h'.pc # "idle" => h'.n = h.n
    BY <1>4, MoneySteps DEF MoneyStep, Goes
  <2>. QED  BY <1>1, <2>1, <2>2 DEF Handles
<1>5. CASE ConfigStep
  <2>1. h.pc # "idle" /\ UNCHANGED <<sent, acked, flight, queue>>
    BY <1>5, ConfigSteps DEF wire
  <2>2. h'.pc # "idle" => h'.n = h.n
    BY <1>5, ConfigSteps DEF ConfigStep, Goes
  <2>. QED  BY <1>1, <2>1, <2>2 DEF Handles
<1>. QED  BY <1>2, <1>3, <1>4, <1>5

LEMMA AlertStep ==
  ASSUME Spaced, TypeInv, OneRowInv, AlertInv, [Next]_vars
  PROVE  AlertInv'
<1>. SUFFICES ASSUME Ordered'
              PROVE  OrderInv' /\ DateInv' /\ LinkInv' /\ SaleInv' /\ RaisedInv'
  BY DEF AlertInv
<1>1. Ordered
  BY RegimeStays DEF Ordered
<1>2. OrderInv /\ DateInv /\ LinkInv /\ SaleInv /\ RaisedInv
  BY <1>1 DEF AlertInv
<1>3. CASE UNCHANGED vars
  <2>1. UNCHANGED <<sent, acked, flight, queue, h, status, linkAlerts, saleAlerts, lastSale>>
    BY <1>3 DEF vars, wire, alerts, ledger
  <2>. QED
    BY <1>2, <2>1
       DEF OrderInv, DateInv, LinkInv, SaleInv, RaisedInv, Waits, Now, Msg, IsLate, IdleLong
<1>4. CASE Board
  BY <1>2, <1>4, BoardAlerts
<1>5. CASE Connection \/ Take \/ Discard
  BY <1>1, <1>2, <1>5, WireAlerts
<1>6. CASE Refuse
  BY <1>1, <1>6 DEF Refuse, Ordered
<1>7. CASE ReadDevice \/ StatusStep \/ MoneyStep \/ ConfigStep
  <2>1. Handles
    BY <1>1, <1>7, StageHandles
  <2>. QED
    BY <1>7, <2>1, HandlesOrder, DeviceAlerts, StatusAlerts, MoneyAlerts, ConfigAlerts
<1>. QED  BY <1>3, <1>4, <1>5, <1>6, <1>7, NextSteps DEF Connection

LEMMA AlertInit == Init => AlertInv
<1>. SUFFICES ASSUME Init PROVE OrderInv /\ DateInv /\ LinkInv /\ SaleInv /\ RaisedInv
  BY DEF AlertInv
<1>1. /\ flight = 0 /\ sent = <<>> /\ queue = <<>> /\ h.pc = "idle"
      /\ status = <<>> /\ linkAlerts = <<>> /\ saleAlerts = <<>>
  BY IdleType DEF Init
<1>2. DOMAIN <<>> = {} /\ Len(<<>>) = 0 /\ 1 .. (0 - 1) = {}
  BY EmptySeq
<1>3. LogInv(<<>>) /\ Upto(<<>>, Now)
  BY <1>2 DEF LogInv, Rising, Alternates, Upto
<1>4. OrderInv
  BY <1>1, <1>2 DEF OrderInv, Rising
<1>. QED
  BY <1>1, <1>2, <1>3, <1>4
     DEF DateInv, LinkInv, SaleInv, RaisedInv, StatusStage, SaleUnseen, SaleStage

(* Two alerts of the link, or two of the sales, are never of one kind when *)
(* they follow one another, on any connection that keeps the order and     *)
(* however often the process dies (DeviceMqtt.cs:154-203, 253-259).        *)
THEOREM AlertsCorrect ==
  ASSUME Spaced
  PROVE  Spec => []AlertsAlternate
<1>. DEFINE IInv == TypeInv /\ OneRowInv /\ AlertInv
<1>1. Init => IInv
  BY InitTypeInv, StoreInit, AlertInit DEF StoreInv
<1>2. IInv /\ [Next]_vars => IInv'
  BY NextTypeInv, OneRowStep, AlertStep
<1>3. IInv => AlertsAlternate
  BY DEF AlertsAlternate, AlertInv, LinkInv, SaleInv, LogInv
<1>. QED  BY <1>1, <1>2, <1>3, PTL DEF Spec

LEMMA IdleStep ==
  ASSUME Spaced, TypeInv, OneRowInv, AlertInv, AlertInv', TypeInv', [Next]_vars,
         Ordered, h.pc # "idle", h'.pc = "idle", cuts' = cuts,
         Msg.theme = "status", Msg.body = "good", IdleLong
  PROVE  NewestAlerts(saleAlerts') = {"no_sales"}
<1>1. CASE StatusStep
  <2>1. Settled
    BY <1>1, StageHandles, StatusAlerts
  <2>2. LastIs(saleAlerts', "no_sales")
    BY <2>1 DEF Settled
  <2>3. LogInv(saleAlerts') /\ saleAlerts' \in Seq(Alert)
    BY RegimeStays DEF AlertInv, SaleInv, Ordered, TypeInv, TypeOK
  <2>. QED  BY <2>2, <2>3, NewestIsLast DEF LastIs, LogInv
<1>2. CASE UNCHANGED vars \/ Board \/ Receive \/ Acknowledge \/ Cut
  <2>1. UNCHANGED h
    BY <1>2, BoardSends DEF vars, Receive, Acknowledge, Cut
  <2>. QED  BY <2>1
<1>3. CASE Take \/ Discard
  BY <1>3 DEF Take, Discard
<1>4. CASE Crash \/ Refuse
  <2>1. cuts' = cuts + 1 /\ cuts \in Nat
    BY <1>4 DEF Crash, Refuse, TypeInv, TypeOK
  <2>. QED  BY <2>1
<1>5. CASE ReadDevice
  <2>1. FirstStep = "store"
    BY DEF FirstStep
  <2>. QED  BY <1>5, <2>1, RowReads DEF Ordered
<1>6. CASE MoneyStep \/ ConfigStep
  <2>1. h.pc \in SaleStage \cup {"encash", "dead"} \cup ConfigStage
    BY <1>6, MoneySteps, ConfigSteps
  <2>2. Msg.theme \in {"sales", "encash"} \cup ConfigTheme
    BY <2>1 DEF TypeInv, HandlerOK
  <2>. QED  BY <2>2 DEF ConfigTheme
<1>. QED  BY <1>1, <1>2, <1>3, <1>4, <1>5, <1>6, NextSteps

(* A status that finds the machine idle for longer than SaleGap does not   *)
(* end without the alert raised, unless the process dies or the connection *)
(* is refused before (DeviceMqtt.cs:181-200).                              *)
THEOREM IdleMachineCorrect ==
  ASSUME Spaced
  PROVE  Spec => IdleMachineAlerted
<1>. DEFINE IInv == TypeInv /\ OneRowInv /\ AlertInv
<1>1. Init => IInv
  BY InitTypeInv, StoreInit, AlertInit DEF StoreInv
<1>2. IInv /\ [Next]_vars => IInv'
  BY NextTypeInv, OneRowStep, AlertStep
<1>. DEFINE Left == /\ Ordered
                    /\ h.pc # "idle" /\ h'.pc = "idle" /\ cuts' = cuts
                    /\ Msg.theme = "status" /\ Msg.body = "good"
                    /\ h.id # 0 /\ h.last.money = Msg.money
                    /\ lastSale # 0 /\ lastSale + SaleGap < Msg.date
<1>3. IInv /\ IInv' /\ [Next]_vars => [Left => NewestAlerts(saleAlerts') = {"no_sales"}]_vars
  BY IdleStep DEF IdleLong
<1>. QED  BY <1>1, <1>2, <1>3, PTL DEF Spec, IdleMachineAlerted
=============================================================================
