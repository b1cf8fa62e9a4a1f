------------------------------- MODULE Ledger -------------------------------
(***************************************************************************)
(* What DataController.Send promises about one machine's money and water,  *)
(* with each report booked at once: the counters last accepted, the sales  *)
(* and the encashments.                                                    *)
(***************************************************************************)
EXTENDS Integers

VARIABLES
    known,     \* a first report has been accepted
    counter,   \* the counters last accepted
    sold,      \* what the sales add up to
    cashed     \* what the encashments add up to

vars == <<known, counter, sold, cashed>>

Amount == [money: Nat, liters: Nat]
Zero == [money |-> 0, liters |-> 0]

Init ==
    /\ known \in BOOLEAN
    /\ counter = Zero
    /\ sold = Zero
    /\ cashed = 0

(* The first report sets the counters; what the machine had sold before    *)
(* is nobody's sale.                                                       *)
Meet ==
    /\ ~known
    /\ known' = TRUE
    /\ counter' \in Amount
    /\ UNCHANGED <<sold, cashed>>

(* Both counters have grown: a sale of the difference.                     *)
Sell ==
    /\ known
    /\ counter' \in Amount
    /\ counter'.money > counter.money /\ counter'.liters > counter.liters
    /\ sold' = [money  |-> sold.money + (counter'.money - counter.money),
                liters |-> sold.liters + (counter'.liters - counter.liters)]
    /\ UNCHANGED <<known, cashed>>

(* Zeros after a nonzero sum: an encashment of that sum.                   *)
Encash ==
    /\ known /\ counter.money > 0
    /\ counter' = Zero
    /\ cashed' = cashed + counter.money
    /\ UNCHANGED <<known, sold>>

(* Zeros with nothing to encash.                                           *)
Reset ==
    /\ known /\ counter.money = 0
    /\ counter' = Zero
    /\ UNCHANGED <<known, sold, cashed>>

Next == Meet \/ Sell \/ Encash \/ Reset

Spec == Init /\ [][Next]_vars
=============================================================================
