-------------------------- MODULE HttpBoardLedger --------------------------
(***************************************************************************)
(* HttpBoard implements Ledger when reports come one at a time: the chain  *)
(* of transactions of one Send is one step of the ledger, taken when its   *)
(* sale, its encashment or its refusal is stored.                          *)
(***************************************************************************)
EXTENDS HttpBoard

(* The handler that has overwritten the row and not yet booked what the    *)
(* row had gained; the ledger still shows the row it has read.             *)
Owing == {r \in Request : req[r].pc \in Booking /\ req[r].id # 0}

Accepted ==
    CASE Owing # {} -> req[CHOOSE r \in Owing : TRUE].last
      [] Owing = {} /\ status # <<>> -> status[1]
      [] OTHER -> NoRow

Books == INSTANCE Ledger WITH
    known   <- status # <<>>,
    counter <- [money |-> Accepted.money, liters |-> Accepted.liters],
    sold    <- [money |-> sales.money, liters |-> sales.liters],
    cashed  <- collected

(* Seen from the books, every Send happens at once: it accepts a first     *)
(* report, sells, encashes or changes nothing (DataController.cs:128-231). *)
ImplementsLedger == Books!Spec
=============================================================================
