------------------------------ MODULE MCPages ------------------------------
(* The dialogues of the pages and what their requests do: the form of a    *)
(* machine's settings, the dialogue of the reports, the way of the         *)
(* settings commands, and the form of the application's settings.  Each    *)
(* behaviour is one of one of them; the first two share the list of        *)
(* machines.                                                               *)
EXTENDS SettingsForm, ReportDialogue, AppSettings, SettingsDelivery, TLC

CONSTANTS m1, m2, m3

\* A machine with a price of 0 and without a choice of its greeting, one with
\* everything set, and one that has never reported its settings.
Reported ==
    [m \in Machine |->
        CASE m = m1 -> [price |-> 0, logo |-> 0, date |-> 1, phone |-> 1, maintain |-> 0]
          [] m = m2 -> [price |-> 1, logo |-> 1, date |-> 1, phone |-> 1, maintain |-> 1]
          [] m = m3 -> Null]

\* One machine speaks to each broker.
Speaking == [m \in Board |-> IF m = m1 THEN "tls" ELSE "aes"]

\* At most one broker refuses the service.
Refusing == {{}, {"tls"}, {"aes"}}

VARIABLE part

formOnly == <<formState, posts>>
reportOnly == <<dialogue, export, saved>>
pagesVars == <<part, list, formOnly, reportOnly, deliveryVars, appVars>>

-----------------------------------------------------------------------------
\* Variables that a behaviour does not use.
NoList == device = 0 /\ popup = FALSE /\ refresh = 0 /\ outdated = 0
NoForm ==
    /\ opens = 0 /\ isInit = 0 /\ visible = FALSE /\ editors = 0 /\ loads = 0
    /\ posts = {} /\ shown = 0 /\ mixed = FALSE /\ known = 0 /\ blanked = 0
NoReport ==
    /\ popupTitle = 0 /\ picker = 0 /\ gridAlerts = 0 /\ asked = <<>> /\ export = 0 /\ saved = Null
    /\ crossed = TRUE /\ failed = 0
NoDelivery ==
    /\ target = <<>> /\ stage = 0 /\ port = 0 /\ owner = 0 /\ refusing = 0 /\ queue = 0
    /\ dispatching = 0 /\ retained = 0 /\ session = [m \in Board |-> "none"] /\ snapshot = 0
    /\ inbox = 0 /\ losses = 0 /\ overlapped = 0 /\ delivered = {} /\ missed = 0
    /\ received = {} /\ last = 0 /\ raced = 0
NoApp ==
    /\ rows = <<0>> /\ memory = 0 /\ form = 0 /\ requests = 0 /\ faults = 0
    /\ get = [a \in Admin |-> Idle] /\ post = [a \in Admin |-> Idle]
    /\ edits = 0 /\ contested = 0 /\ unsure = FALSE

PagesInit ==
    \/ part = "form" /\ Init /\ NoReport /\ NoDelivery /\ NoApp
    \/ part = "report" /\ ReportInit /\ NoForm /\ NoDelivery /\ NoApp
    \/ part = "delivery" /\ DeliveryInit /\ NoList /\ NoForm /\ NoReport /\ NoApp
    \/ part = "settings" /\ AppInit /\ NoList /\ NoForm /\ NoReport /\ NoDelivery

\* The reports are of two machines, and at most one question is on its way
\* beside an export.  A behaviour of the application's settings that has a
\* fault has one request less.
PagesNext ==
    \/ /\ part = "form" /\ Next
       /\ UNCHANGED <<part, reportOnly, deliveryVars, appVars>>
    \/ /\ part = "report" /\ ReportNext
       /\ device' # m3 /\ (export' # Null => Len(asked') <= 1)
       /\ UNCHANGED <<part, formOnly, deliveryVars, appVars>>
    \/ /\ part = "delivery" /\ DeliveryNext
       /\ UNCHANGED <<part, list, formOnly, reportOnly, appVars>>
    \/ /\ part = "settings" /\ AppNext
       /\ requests' + faults' <= MaxRequests
       /\ UNCHANGED <<part, list, formOnly, reportOnly, deliveryVars>>

PagesSpec == PagesInit /\ [][PagesNext]_pagesVars

Symmetric == Permutations(Admin) \cup Permutations(Period)
=============================================================================
