----------------------------- MODULE MCAccounts -----------------------------
(* A few accounts around one administrator. *)
EXTENDS Accounts, TLC

CONSTANTS boss, u1, u2, i1, e1, e2, e3, n1, n2, n3, r1, r2

OnlyAdministrator ==
    boss :> [email |-> e1, name |-> n1, role |-> "super_admin", owner |-> None, active |-> TRUE]

\* One who comes alone, and one who names the first as dealer.
Network == {<<e2, n2, None>>, <<e3, n3, e2>>}
AnyForm == Email \X Name \X {None}

OwnerOrDealer == {<<e3, "owner", u1>>, <<e3, "dealer", boss>>}
NoOffer == {}

Symmetric == Permutations(Request)
=============================================================================
