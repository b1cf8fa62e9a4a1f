---------------------------- MODULE MCHttpBoard ----------------------------
(* The HTTP board and Send on small instances. *)
EXTENDS HttpBoardLedger, TLC
=============================================================================
