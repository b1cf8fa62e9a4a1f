---------------------------- MODULE MCMqttBoard ----------------------------
(* The MQTT board, the broker and the handler on small instances. *)
EXTENDS MqttBoard

\* Every kind of message, on connections that are lost; no gap is an outage.
Mixed ==
    [themes |-> Theme, gaps |-> {1}, bodies |-> Body, repeats |-> TRUE,
     crashes |-> FALSE, fails |-> FALSE, sends |-> 2, cuts |-> 1]

\* Longer, with one kind of configuration.
Repeating == [Mixed EXCEPT !.themes = {"status", "sales", "encash", "info"}, !.sends = 3]

\* The money alone and in order, beside a process that dies; a gap of 4 is
\* longer than LinkGap and SaleGap.  Four messages are an idle machine: a sale,
\* a first status, a late one that raises the alert, a sale that ends it.
Dying ==
    [themes |-> {"status", "sales"}, gaps |-> {1, 4}, bodies |-> {"good"}, repeats |-> FALSE,
     crashes |-> TRUE, fails |-> FALSE, sends |-> 4, cuts |-> 1]

\* Everything that may go wrong.
Failing ==
    [themes |-> Theme, gaps |-> {1, 4}, bodies |-> Body, repeats |-> TRUE,
     crashes |-> TRUE, fails |-> TRUE, sends |-> 2, cuts |-> 1]

RepeatingOrDying == {Mixed, Repeating, Dying}
AllFailing == {Failing}
=============================================================================
