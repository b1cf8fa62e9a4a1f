-------------------------- MODULE SettingsDelivery --------------------------
(***************************************************************************)
(* The way of a settings command from the request to the machine           *)
(* (DevicesController.SetSettings, DeviceMqtt.SubscriptionHandler,         *)
(* MqttRetainedMessagesManager, MqttClientConnection): every command       *)
(* connects to both brokers of the process under one client id and is      *)
(* published there with the retain flag, on a topic of its machine; a      *)
(* machine that subscribes is sent what is retained.                       *)
(***************************************************************************)
EXTENDS Naturals, Sequences

CONSTANTS
    Board,          \* the machines with an MQTT board
    BrokerOf,       \* the broker a board speaks to
    Refusals,       \* the sets of brokers that may refuse connections
    None,
    MaxCommands,    \* bound: commands ever given
    MaxLosses       \* bound: connections of machines cut, and crashes

Queues == INSTANCE SequencesExt

Broker == {"tls", "aes"}    \* ports 8883 and 1883

VARIABLES
    target,         \* the machine of each command, in the order of the requests
    stage,          \* where the request of a command is
    port,           \* the broker it is busy with
    owner,          \* the command whose connection a broker knows as device_settings
    refusing,       \* brokers whose board is not supported, or that did not start
    queue,          \* each broker's queue of publications
    dispatching,    \* the publication its dispatcher is at
    retained,       \* the retained message of each machine's topic, on its broker
    session,        \* how far the machine's connection is
    snapshot,       \* the retained message its subscription has found
    inbox,          \* the queue of its session
    losses,
    overlapped,     \* history: commands whose requests overlapped another's
    delivered,      \* history: commands the dispatcher has been through with
    missed,         \* history: commands delivered to no session, or lost with one
    received,       \* history: commands a machine has received
    last,           \* history: the last one it has received
    raced           \* history: its newest was delivered ahead of its snapshot

senders == <<target, stage, port, owner, refusing, overlapped>>
brokers == <<queue, dispatching, retained>>
machines == <<session, snapshot, inbox, missed, received, last, raced>>
deliveryVars == <<senders, brokers, machines, losses, delivered>>

CommandId == 1 .. MaxCommands
Active == {c \in DOMAIN target : stage[c] \in {"connect", "publish", "acknowledge", "finish"}}

AtStage(c, s) == c \in DOMAIN target /\ stage[c] = s
Goto(c, s) == stage' = [stage EXCEPT ![c] = s]

-----------------------------------------------------------------------------
(* SetSettings and SubscriptionHandler: first the broker with TLS, then,   *)
(* still connected there, the other.  Whatever is thrown is caught, and    *)
(* the request is answered as if all had been sent.                        *)
Arrive(m) ==
    /\ Len(target) < MaxCommands
    /\ target' = Append(target, m)
    /\ stage' = [stage EXCEPT ![Len(target')] = "connect"]
    /\ overlapped' = IF Active = {} THEN overlapped
                     ELSE overlapped \cup Active \cup {Len(target')}
    /\ UNCHANGED <<port, owner, refusing, brokers, machines, losses, delivered>>

(* A connection under the same client id is taken over.                    *)
Connect(c) ==
    /\ AtStage(c, "connect")
    /\ IF port[c] \in refusing
       THEN Goto(c, "finish") /\ UNCHANGED owner
       ELSE Goto(c, "publish") /\ owner' = [owner EXCEPT ![port[c]] = c]
    /\ UNCHANGED <<target, port, refusing, overlapped, brokers, machines, losses, delivered>>

(* Publications to machines of the other broker are read by nobody.        *)
Publish(c) ==
    /\ AtStage(c, "publish")
    /\ IF owner[port[c]] = c
       THEN /\ queue' = IF BrokerOf[target[c]] = port[c]
                        THEN [queue EXCEPT ![port[c]] = Append(@, c)] ELSE queue
            /\ Goto(c, "acknowledge")
       ELSE Goto(c, "finish") /\ UNCHANGED queue
    /\ UNCHANGED <<target, port, owner, refusing, overlapped, dispatching, retained,
                   machines, losses, delivered>>

(* Mutated: nothing is sent to the second broker. *)
AcknowledgeFirst(c) ==
    /\ AtStage(c, "acknowledge")
    /\ Goto(c, "finish")
    /\ UNCHANGED <<target, port, owner, refusing, overlapped, brokers, machines, losses, delivered>>

(* A connection taken over may end before its acknowledgement comes.       *)
Acknowledge(c) ==
    /\ AtStage(c, "acknowledge")
    /\ \/ port[c] = "tls" /\ port' = [port EXCEPT ![c] = "aes"] /\ Goto(c, "connect")
       \/ (port[c] = "aes" \/ owner[port[c]] # c) /\ Goto(c, "finish") /\ UNCHANGED port
    /\ UNCHANGED <<target, owner, refusing, overlapped, brokers, machines, losses, delivered>>

(* Mutated: the answer waits until nobody else is connected. *)
FinishLast(c) ==
    /\ AtStage(c, "finish")
    /\ \A b \in Broker : owner[b] \in {c, None}
    /\ owner' = [b \in Broker |-> IF owner[b] = c THEN None ELSE owner[b]]
    /\ Goto(c, "done")
    /\ UNCHANGED <<target, port, refusing, overlapped, brokers, machines, losses, delivered>>

(* The finally blocks; the user's log is written and the request answered. *)
Finish(c) ==
    /\ AtStage(c, "finish")
    /\ owner' = [b \in Broker |-> IF owner[b] = c THEN None ELSE owner[b]]
    /\ Goto(c, "done")
    /\ UNCHANGED <<target, port, refusing, overlapped, brokers, machines, losses, delivered>>

-----------------------------------------------------------------------------
(* The dispatcher: the message is retained, then queued for the sessions.  *)

(* Mutated: the oldest retained message is kept. *)
RetainOnce(b) ==
    /\ dispatching[b] = None /\ queue[b] # <<>>
    /\ dispatching' = [dispatching EXCEPT ![b] = Head(queue[b])]
    /\ queue' = [queue EXCEPT ![b] = Tail(@)]
    /\ retained' = [retained EXCEPT ![target[Head(queue[b])]] = IF @ = None THEN Head(queue[b]) ELSE @]
    /\ UNCHANGED <<senders, machines, losses, delivered>>

Retain(b) ==
    /\ dispatching[b] = None /\ queue[b] # <<>>
    /\ dispatching' = [dispatching EXCEPT ![b] = Head(queue[b])]
    /\ queue' = [queue EXCEPT ![b] = Tail(@)]
    /\ retained' = [retained EXCEPT ![target[Head(queue[b])]] = Head(queue[b])]
    /\ UNCHANGED <<senders, machines, losses, delivered>>

Deliver(b) ==
    /\ dispatching[b] # None
    /\ LET c == dispatching[b]  m == target[c] IN
       /\ inbox' = IF session[m] = "none" THEN inbox ELSE [inbox EXCEPT ![m] = Append(@, c)]
       /\ missed' = IF session[m] = "none" THEN missed \cup {c} ELSE missed
       /\ raced' = [raced EXCEPT ![m] = session[m] = "snapshot" /\ snapshot[m] \notin {c, None}]
       /\ delivered' = delivered \cup {c}
    /\ dispatching' = [dispatching EXCEPT ![b] = None]
    /\ UNCHANGED <<senders, queue, retained, session, snapshot, received, last, losses>>

-----------------------------------------------------------------------------
(* The machine connects with a clean session and subscribes to its topic:  *)
(* the subscription is added, the retained messages are read, then queued. *)
Subscribe(m) ==
    /\ session[m] = "none"
    /\ session' = [session EXCEPT ![m] = "subscribed"]
    /\ raced' = [raced EXCEPT ![m] = FALSE]
    /\ UNCHANGED <<senders, brokers, snapshot, inbox, missed, received, last, losses, delivered>>

ReadRetained(m) ==
    /\ session[m] = "subscribed"
    /\ session' = [session EXCEPT ![m] = "snapshot"]
    /\ snapshot' = [snapshot EXCEPT ![m] = retained[m]]
    /\ UNCHANGED <<senders, brokers, inbox, missed, received, last, raced, losses, delivered>>

(* Mutated: nothing is sent to a new subscriber. *)
EnqueueNothing(m) ==
    /\ session[m] = "snapshot"
    /\ session' = [session EXCEPT ![m] = "on"]
    /\ snapshot' = [snapshot EXCEPT ![m] = None]
    /\ UNCHANGED <<senders, brokers, inbox, missed, received, last, raced, losses, delivered>>

EnqueueRetained(m) ==
    /\ session[m] = "snapshot"
    /\ session' = [session EXCEPT ![m] = "on"]
    /\ inbox' = IF snapshot[m] = None THEN inbox
                ELSE [inbox EXCEPT ![m] = Append(@, snapshot[m])]
    /\ snapshot' = [snapshot EXCEPT ![m] = None]
    /\ UNCHANGED <<senders, brokers, missed, received, last, raced, losses, delivered>>

Receive(m) ==
    /\ inbox[m] # <<>>
    /\ last' = [last EXCEPT ![m] = Head(inbox[m])]
    /\ received' = received \cup {Head(inbox[m])}
    /\ inbox' = [inbox EXCEPT ![m] = Tail(@)]
    /\ UNCHANGED <<senders, brokers, session, snapshot, missed, raced, losses, delivered>>

Cut(m) ==
    /\ session[m] # "none" /\ losses < MaxLosses
    /\ session' = [session EXCEPT ![m] = "none"]
    /\ missed' = missed \cup Queues!ToSet(inbox[m])
    /\ snapshot' = [snapshot EXCEPT ![m] = None]
    /\ inbox' = [inbox EXCEPT ![m] = <<>>]
    /\ losses' = losses + 1
    /\ UNCHANGED <<senders, brokers, received, last, raced, delivered>>

(* The process dies.  The brokers have no storage: what they retain, queue *)
(* or hold for sessions dies with them, and so do the requests.            *)
Crash ==
    /\ losses < MaxLosses
    /\ stage' = [c \in CommandId |-> IF c \in Active THEN "dead" ELSE stage[c]]
    /\ owner' = [b \in Broker |-> None]
    /\ queue' = [b \in Broker |-> <<>>] /\ dispatching' = [b \in Broker |-> None]
    /\ retained' = [m \in Board |-> None]
    /\ session' = [m \in Board |-> "none"] /\ snapshot' = [m \in Board |-> None]
    /\ missed' = missed \cup UNION {Queues!ToSet(inbox[m]) : m \in Board}
    /\ inbox' = [m \in Board |-> <<>>]
    /\ losses' = losses + 1
    /\ UNCHANGED <<target, port, refusing, overlapped, received, last, raced, delivered>>

-----------------------------------------------------------------------------
DeliveryInit ==
    /\ target = <<>>
    /\ stage = [c \in CommandId |-> "absent"] /\ port = [c \in CommandId |-> "tls"]
    /\ owner = [b \in Broker |-> None]
    /\ refusing \in Refusals
    /\ queue = [b \in Broker |-> <<>>] /\ dispatching = [b \in Broker |-> None]
    /\ retained = [m \in Board |-> None]
    /\ session = [m \in Board |-> "none"] /\ snapshot = [m \in Board |-> None]
    /\ inbox = [m \in Board |-> <<>>]
    /\ losses = 0
    /\ overlapped = {} /\ delivered = {} /\ missed = {} /\ received = {}
    /\ last = [m \in Board |-> None] /\ raced = [m \in Board |-> FALSE]

ServeCommand(c) ==
    \/ Connect(c)
    \/ Publish(c)
    \/ Acknowledge(c)
    \/ Finish(c)

Dispatch(b) == Retain(b) \/ Deliver(b)

Send(m) == ReadRetained(m) \/ EnqueueRetained(m) \/ Receive(m)

DeliveryNext ==
    \/ \E m \in Board : Arrive(m) \/ Subscribe(m) \/ Send(m) \/ Cut(m)
    \/ \E c \in CommandId : ServeCommand(c)
    \/ \E b \in Broker : Dispatch(b)
    \/ Crash

(* Requests, dispatchers and the tasks of a connection go on; nobody has   *)
(* to give a command, and no machine has to come back.                     *)
Fairness ==
    /\ \A c \in CommandId : WF_deliveryVars(ServeCommand(c))
    /\ \A b \in Broker : WF_deliveryVars(Dispatch(b))
    /\ \A m \in Board : WF_deliveryVars(Send(m))

DeliverySpec == DeliveryInit /\ [][DeliveryNext]_deliveryVars

DeliveryFairSpec == DeliverySpec /\ Fairness

-----------------------------------------------------------------------------
(* The state has the types of the requests and of the broker's tables, and *)
(* a request that is over leaves no connection behind.                     *)
DeliveryTypes ==
    /\ target \in Seq(Board) /\ Len(target) <= MaxCommands
    /\ stage \in [CommandId -> {"absent", "connect", "publish", "acknowledge", "finish",
                              "done", "dead"}]
    /\ port \in [CommandId -> Broker] /\ owner \in [Broker -> Active \cup {None}]
    /\ refusing \subseteq Broker
    /\ queue \in [Broker -> Seq(CommandId)] /\ dispatching \in [Broker -> CommandId \cup {None}]
    /\ retained \in [Board -> CommandId \cup {None}]
    /\ session \in [Board -> {"none", "subscribed", "snapshot", "on"}]
    /\ snapshot \in [Board -> CommandId \cup {None}] /\ inbox \in [Board -> Seq(CommandId)]
    /\ losses \in 0 .. MaxLosses
    /\ overlapped \cup delivered \cup missed \cup received \subseteq CommandId
    /\ last \in [Board -> CommandId \cup {None}] /\ raced \in [Board -> BOOLEAN]

(* A command whose request overlapped no other's is published on its       *)
(* machine's broker before it is answered, if that broker and the one with *)
(* TLS accept connections: only a takeover of the common client id or a    *)
(* refusal loses one silently (DeviceMqtt.cs:43-73).                       *)
AloneIsSent ==
    \A c \in DOMAIN target :
        /\ stage[c] = "done" /\ c \notin overlapped
        /\ {"tls", BrokerOf[target[c]]} \cap refusing = {}
        /\ losses = 0
        => \/ c \in delivered
           \/ \E b \in Broker : c = dispatching[b] \/ c \in Queues!ToSet(queue[b])

(* A machine that is connected misses a command only if it was away when   *)
(* the command was delivered, and a later one, or the death of the         *)
(* process, had replaced it before it came back: what is retained arrives  *)
(* (MqttRetainedMessagesManager.cs:60-147, MqttClientConnection.cs:        *)
(* 300-314).                                                               *)
OnlyOvertakenMissed ==
    \A c \in delivered \ received :
        LET m == target[c] IN
        session[m] = "on" /\ inbox[m] = <<>> => c \in missed /\ c # retained[m]

(* The last command a connected machine has received is the last one       *)
(* retained for it, unless that was delivered between the reading of its   *)
(* snapshot and the queueing of it: then the old value comes last          *)
(* (MqttClientConnection.cs:285-292, MqttClientSessionsManager.cs:321-340).*)
LastWins ==
    \A m \in Board :
        /\ session[m] = "on" /\ inbox[m] = <<>>
        /\ retained[m] # None /\ \A b \in Broker : dispatching[b] # retained[m]
        => last[m] = retained[m] \/ raced[m]

(* Every request is answered, whoever takes its connections over           *)
(* (DeviceMqtt.cs:67-72, 90-95).                                           *)
RequestsAnswered == \A c \in CommandId : AtStage(c, "connect") ~> AtStage(c, "done") \/ AtStage(c, "dead")
=============================================================================
