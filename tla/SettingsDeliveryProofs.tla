----------------------- MODULE SettingsDeliveryProofs -----------------------
(***************************************************************************)
(* Theorems about SettingsDelivery, for any number of commands, machines,  *)
(* cut connections and crashes, and any brokers that refuse the service.   *)
(***************************************************************************)
EXTENDS SettingsDelivery, SequenceTheorems, TLAPS

(* The constants are as they are meant: a machine speaks to a broker, and  *)
(* None is no command.                                                     *)
Given ==
    /\ MaxCommands \in Nat /\ MaxLosses \in Nat /\ None \notin Nat
    /\ BrokerOf \in [Board -> Broker] /\ Refusals \subseteq SUBSET Broker

-----------------------------------------------------------------------------
(***************************************************************************)
(* What a queue holds.                                                     *)
(***************************************************************************)
In(q) == Queues!ToSet(q)

LEMMA InEmpty == In(<<>>) = {}
<1>1. DOMAIN <<>> = {}
  OBVIOUS
<1>. QED  BY <1>1 DEF In, Queues!ToSet

LEMMA InAppend ==
  ASSUME NEW S, NEW q \in Seq(S), NEW x \in S
  PROVE  Append(q, x) \in Seq(S) /\ In(Append(q, x)) = In(q) \cup {x} /\ In(q) \subseteq S
<1>1. /\ Len(q) \in Nat /\ DOMAIN q = 1 .. Len(q)
      /\ Append(q, x) \in Seq(S) /\ DOMAIN Append(q, x) = 1 .. Len(q) + 1
      /\ \A i \in 1 .. Len(q) : Append(q, x)[i] = q[i]
      /\ Append(q, x)[Len(q) + 1] = x
  BY AppendProperties, LenProperties
<1>2. 1 .. Len(q) + 1 = 1 .. Len(q) \cup {Len(q) + 1}
  BY <1>1
<1>3. \A i \in 1 .. Len(q) : q[i] \in S
  BY ElementOfSeq
<1>. QED  BY <1>1, <1>2, <1>3 DEF In, Queues!ToSet

LEMMA InTail ==
  ASSUME NEW S, NEW q \in Seq(S), q # <<>>
  PROVE  /\ Head(q) \in S /\ Tail(q) \in Seq(S)
         /\ In(q) = In(Tail(q)) \cup {Head(q)}
<1>1. /\ Len(q) \in Nat \ {0} /\ DOMAIN q = 1 .. Len(q) /\ Head(q) = q[1]
      /\ Tail(q) \in Seq(S) /\ DOMAIN Tail(q) = 1 .. Len(q) - 1
      /\ \A i \in 1 .. Len(q) - 1 : Tail(q)[i] = q[i + 1]
  BY EmptySeq, LenProperties, HeadTailProperties
<1>2. ASSUME NEW i \in 1 .. Len(q), i # 1 PROVE q[i] \in In(Tail(q))
  <2>1. i - 1 \in 1 .. Len(q) - 1 /\ (i - 1) + 1 = i
    BY <1>1, <1>2
  <2>2. Tail(q)[i - 1] = q[i]
    BY <1>1, <2>1
  <2>. QED  BY <1>1, <2>1, <2>2 DEF In, Queues!ToSet
<1>3. ASSUME NEW i \in 1 .. Len(q) - 1 PROVE Tail(q)[i] \in In(q)
  <2>1. i + 1 \in 1 .. Len(q)
    BY <1>1, <1>3
  <2>. QED  BY <1>1, <2>1 DEF In, Queues!ToSet
<1>4. Head(q) \in In(q) /\ Head(q) \in S
  BY <1>1, HeadTailProperties DEF In, Queues!ToSet
<1>. QED  BY <1>1, <1>2, <1>3, <1>4 DEF In, Queues!ToSet

-----------------------------------------------------------------------------
(***************************************************************************)
(* Type correctness.  A queue, a table or a session holds commands that    *)
(* were given, of its broker or its machine.                               *)
(***************************************************************************)
Busy == {"connect", "publish", "acknowledge", "finish"}
Stages == Busy \cup {"absent", "done", "dead"}
Queue == Seq(CommandId)

SenderShapes ==
    /\ target \in Seq(Board) /\ Len(target) <= MaxCommands
    /\ stage \in [CommandId -> Stages] /\ port \in [CommandId -> Broker]
    /\ owner \in [Broker -> CommandId \cup {None}]
    /\ refusing \subseteq Broker /\ overlapped \subseteq CommandId

BrokerShapes ==
    /\ queue \in [Broker -> Queue] /\ dispatching \in [Broker -> CommandId \cup {None}]
    /\ retained \in [Board -> CommandId \cup {None}]
    /\ delivered \subseteq DOMAIN target

MachineShapes ==
    /\ session \in [Board -> {"none", "subscribed", "snapshot", "on"}]
    /\ snapshot \in [Board -> CommandId \cup {None}] /\ inbox \in [Board -> Queue]
    /\ missed \cup received \subseteq CommandId
    /\ last \in [Board -> CommandId \cup {None}] /\ raced \in [Board -> BOOLEAN]
    /\ losses \in 0 .. MaxLosses

(* A command not yet given is absent; an owner is a request that goes on.  *)
Owners ==
    /\ \A c \in CommandId : stage[c] = "absent" <=> c \notin DOMAIN target
    /\ \A c \in CommandId : stage[c] = "absent" => port[c] = "tls"
    /\ \A b \in Broker : owner[b] # None => stage[owner[b]] \in Busy

Of(c, m) == c \in DOMAIN target /\ target[c] = m
Through(c, b) == c \in DOMAIN target /\ BrokerOf[target[c]] = b

Topics ==
    /\ \A b \in Broker : \A c \in In(queue[b]) : Through(c, b)
    /\ \A b \in Broker : dispatching[b] # None => Through(dispatching[b], b)
    /\ \A m \in Board : retained[m] # None => Of(retained[m], m)
    /\ \A m \in Board : snapshot[m] # None => Of(snapshot[m], m)
    /\ \A m \in Board : \A c \in In(inbox[m]) : Of(c, m)

TypeInv == SenderShapes /\ BrokerShapes /\ MachineShapes /\ Owners /\ Topics

LEMMA Targets ==
  ASSUME Given, SenderShapes
  PROVE  /\ Len(target) \in Nat /\ DOMAIN target = 1 .. Len(target)
         /\ DOMAIN target \subseteq CommandId /\ CommandId \subseteq Nat
         /\ \A c \in DOMAIN target : target[c] \in Board /\ BrokerOf[target[c]] \in Broker
<1>1. Len(target) \in Nat /\ DOMAIN target = 1 .. Len(target) /\ Len(target) <= MaxCommands
  BY LenProperties DEF SenderShapes
<1>2. DOMAIN target \subseteq CommandId /\ CommandId \subseteq Nat
  BY <1>1 DEF CommandId, Given
<1>3. \A c \in DOMAIN target : target[c] \in Board
  BY <1>1, ElementOfSeq DEF SenderShapes
<1>. QED  BY <1>1, <1>2, <1>3 DEF Given

LEMMA TypeInvTypes == Given /\ TypeInv => DeliveryTypes
<1>. SUFFICES ASSUME Given, TypeInv PROVE DeliveryTypes
  OBVIOUS
<1>1. DOMAIN target \subseteq CommandId
  BY Targets DEF TypeInv
<1>2. owner \in [Broker -> Active \cup {None}]
  <2>1. owner \in [Broker -> CommandId \cup {None}]
    BY DEF TypeInv, SenderShapes
  <2>2. ASSUME NEW b \in Broker, owner[b] # None PROVE owner[b] \in Active
    <3>1. owner[b] \in CommandId /\ stage[owner[b]] \in Busy
      BY <2>1, <2>2 DEF TypeInv, Owners
    <3>2. owner[b] \in DOMAIN target
      BY <3>1 DEF TypeInv, Owners, Busy
    <3>. QED  BY <3>1, <3>2 DEF Active, Busy
  <2>. QED  BY <2>1, <2>2
<1>3. delivered \subseteq CommandId
  BY <1>1 DEF TypeInv, BrokerShapes
<1>. QED  BY <1>2, <1>3 DEF TypeInv, SenderShapes, BrokerShapes, MachineShapes, DeliveryTypes,
                            Stages, Busy, Queue

LEMMA InitTypeInv == Given /\ DeliveryInit => TypeInv
<1>. SUFFICES ASSUME Given, DeliveryInit PROVE TypeInv
  OBVIOUS
<1>1. target \in Seq(Board) /\ Len(target) = 0 /\ DOMAIN target = {} /\ <<>> \in Queue
  BY DEF DeliveryInit, Queue
<1>2. 0 <= MaxCommands /\ 0 \in 0 .. MaxLosses /\ \A c \in CommandId : c \in Nat
  BY DEF Given, CommandId
<1>3. SenderShapes
  BY <1>1, <1>2 DEF SenderShapes, DeliveryInit, Given, Stages, Broker
<1>4. BrokerShapes
  BY <1>1 DEF BrokerShapes, DeliveryInit
<1>5. MachineShapes
  BY <1>1, <1>2 DEF MachineShapes, DeliveryInit
<1>6. Owners
  BY <1>1 DEF Owners, DeliveryInit
<1>7. Topics
  BY InEmpty DEF Topics, DeliveryInit
<1>. QED  BY <1>3, <1>4, <1>5, <1>6, <1>7 DEF TypeInv

(* A command more.                                                         *)
LEMMA ArriveStep ==
  ASSUME Given, SenderShapes, NEW m \in Board, Arrive(m)
  PROVE  \E n \in CommandId \ DOMAIN target :
           /\ target' \in Seq(Board) /\ Len(target') <= MaxCommands
           /\ DOMAIN target' = DOMAIN target \cup {n}
           /\ \A c \in DOMAIN target : target'[c] = target[c]
           /\ stage' = [stage EXCEPT ![n] = "connect"]
           /\ overlapped' = IF Active = {} THEN overlapped ELSE overlapped \cup Active \cup {n}
<1>. DEFINE n == Len(target) + 1
<1>1. /\ Len(target) \in Nat /\ DOMAIN target = 1 .. Len(target)
      /\ target \in Seq(Board) /\ Len(target) < MaxCommands
  BY Targets DEF SenderShapes, Arrive
<1>2. /\ target' \in Seq(Board) /\ Len(target') = n
      /\ \A c \in 1 .. Len(target) : target'[c] = target[c]
  BY <1>1, AppendProperties DEF Arrive
<1>3. DOMAIN target' = DOMAIN target \cup {n}
  <2>1. DOMAIN target' = 1 .. n
    BY <1>2, LenProperties
  <2>. QED  BY <1>1, <2>1
<1>4. n \in CommandId \ DOMAIN target /\ n <= MaxCommands
  BY <1>1 DEF Given, CommandId
<1>5. /\ stage' = [stage EXCEPT ![n] = "connect"]
      /\ overlapped' = IF Active = {} THEN overlapped ELSE overlapped \cup Active \cup {n}
  BY <1>2 DEF Arrive
<1>. QED  BY <1>1, <1>2, <1>3, <1>4, <1>5

(* Whatever is known of a command stays so when others come.               *)
LEMMA TopicsKept ==
  ASSUME Topics, UNCHANGED <<queue, dispatching, retained, snapshot, inbox>>,
         \A c \in DOMAIN target : c \in DOMAIN target' /\ target'[c] = target[c]
  PROVE  Topics'
<1>1. \A c, m : Of(c, m) => Of(c, m)'
  BY DEF Of
<1>2. \A c, b : Through(c, b) => Through(c, b)'
  BY DEF Through
<1>. QED  BY <1>1, <1>2 DEF Topics

LEMMA ArriveType == ASSUME Given, TypeInv, NEW m \in Board, Arrive(m) PROVE TypeInv'
<1>1. PICK n \in CommandId \ DOMAIN target :
           /\ target' \in Seq(Board) /\ Len(target') <= MaxCommands
           /\ DOMAIN target' = DOMAIN target \cup {n}
           /\ \A c \in DOMAIN target : target'[c] = target[c]
           /\ stage' = [stage EXCEPT ![n] = "connect"]
           /\ overlapped' = IF Active = {} THEN overlapped ELSE overlapped \cup Active \cup {n}
  BY ArriveStep DEF TypeInv
<1>2. UNCHANGED <<port, owner, refusing, brokers, machines, losses, delivered>>
  BY DEF Arrive
<1>3. Active \subseteq CommandId
  BY Targets DEF TypeInv, Active
<1>4. SenderShapes'
  BY <1>1, <1>2, <1>3 DEF TypeInv, SenderShapes, Stages, Busy
<1>5. BrokerShapes' /\ MachineShapes'
  BY <1>1, <1>2 DEF TypeInv, BrokerShapes, MachineShapes, brokers, machines
<1>6. Owners'
  <2>1. \A c \in CommandId : stage'[c] = IF c = n THEN "connect" ELSE stage[c]
    BY <1>1 DEF TypeInv, SenderShapes
  <2>. QED  BY <1>1, <1>2, <2>1 DEF TypeInv, Owners, SenderShapes, Busy
<1>7. Topics'
  BY <1>1, <1>2, TopicsKept DEF TypeInv, brokers, machines
<1>. QED  BY <1>4, <1>5, <1>6, <1>7 DEF TypeInv

(* A request at one of its places goes to another, or is done.             *)
LEMMA ServeType ==
  ASSUME Given, TypeInv, NEW c \in CommandId, ServeCommand(c)
  PROVE  /\ TypeInv' /\ c \in DOMAIN target /\ stage[c] \in Busy
         /\ \A d \in CommandId \ {c} : stage'[d] = stage[d] /\ port'[d] = port[d]
<1>1. /\ UNCHANGED <<target, refusing, overlapped, dispatching, retained, machines, losses, delivered>>
      /\ c \in DOMAIN target /\ stage[c] \in Busy
  BY DEF ServeCommand, Connect, Publish, Acknowledge, Finish, AtStage, Busy, brokers
<1>2. PICK s \in Busy \cup {"done"} : stage' = [stage EXCEPT ![c] = s]
  BY DEF ServeCommand, Connect, Publish, Acknowledge, Finish, Goto, Busy
<1>3. PICK b \in Broker : port' = [port EXCEPT ![c] = b]
  <2>1. port' = port \/ port' = [port EXCEPT ![c] = "aes"]
    BY DEF ServeCommand, Connect, Publish, Acknowledge, Finish
  <2>2. port = [port EXCEPT ![c] = port[c]] /\ port[c] \in Broker
    BY DEF TypeInv, SenderShapes
  <2>. QED  BY <2>1, <2>2 DEF Broker
<1>4. /\ owner' \in [Broker -> CommandId \cup {None}]
      /\ \A d \in Broker : owner'[d] # None =>
           \/ owner'[d] = owner[d] /\ (s = "done" => owner'[d] # c)
           \/ owner'[d] = c /\ s # "done"
  <2>0. owner \in [Broker -> CommandId \cup {None}] /\ stage \in [CommandId -> Stages]
    BY DEF TypeInv, SenderShapes
  <2>1. stage'[c] = s
    BY <1>2, <2>0
  <2>2. CASE Connect(c)
    <3>1. owner' = owner \/ owner' = [owner EXCEPT ![port[c]] = c]
      BY <2>2 DEF Connect
    <3>2. s # "done"
      BY <2>0, <2>1, <2>2 DEF Connect, Goto
    <3>. QED  BY <2>0, <3>1, <3>2
  <2>3. CASE Publish(c) \/ Acknowledge(c)
    <3>1. owner' = owner
      BY <2>3 DEF Publish, Acknowledge
    <3>2. s # "done"
      BY <2>0, <2>1, <2>3 DEF Publish, Acknowledge, Goto
    <3>. QED  BY <2>0, <3>1, <3>2
  <2>4. CASE Finish(c)
    BY <2>0, <2>4 DEF Finish
  <2>. QED  BY <2>2, <2>3, <2>4 DEF ServeCommand
<1>5. queue' \in [Broker -> Queue] /\ \A d \in Broker : \A x \in In(queue'[d]) :
        x \in In(queue[d]) \/ (x = c /\ BrokerOf[target[c]] = d)
  <2>0. queue \in [Broker -> Queue] /\ port[c] \in Broker
    BY DEF TypeInv, BrokerShapes, SenderShapes
  <2>1. \/ queue' = queue
        \/ /\ queue' = [queue EXCEPT ![port[c]] = Append(@, c)]
           /\ BrokerOf[target[c]] = port[c]
    BY DEF ServeCommand, Connect, Publish, Acknowledge, Finish, brokers
  <2>2. /\ Append(queue[port[c]], c) \in Queue
        /\ In(Append(queue[port[c]], c)) = In(queue[port[c]]) \cup {c}
    BY <2>0, InAppend DEF Queue
  <2>. QED  BY <2>0, <2>1, <2>2
<1>6. /\ stage' \in [CommandId -> Stages] /\ port' \in [CommandId -> Broker]
      /\ stage'[c] = s
      /\ \A d \in CommandId \ {c} : stage'[d] = stage[d] /\ port'[d] = port[d]
  BY <1>2, <1>3 DEF TypeInv, SenderShapes, Stages
<1>7. SenderShapes'
  BY <1>1, <1>4, <1>6 DEF TypeInv, SenderShapes
<1>8. BrokerShapes' /\ MachineShapes'
  BY <1>1, <1>5 DEF TypeInv, BrokerShapes, MachineShapes, machines
<1>9. Owners'
  <2>1. s # "absent" /\ stage[c] # "absent"
    BY <1>1 DEF Busy
  <2>2. ASSUME NEW d \in Broker, owner'[d] # None PROVE stage'[owner'[d]] \in Busy
    <3>1. CASE owner'[d] = c
      BY <1>2, <1>4, <1>6, <2>2, <3>1
    <3>2. CASE owner'[d] = owner[d] /\ owner[d] # c
      BY <1>4, <1>6, <2>2, <3>2 DEF TypeInv, Owners
    <3>. QED  BY <1>4, <2>2, <3>1, <3>2
  <2>3. \A d \in CommandId : stage'[d] = "absent" <=> stage[d] = "absent"
    BY <1>6, <2>1
  <2>4. \A d \in CommandId : stage'[d] = "absent" => port'[d] = port[d]
    BY <1>6, <2>1
  <2>. QED  BY <1>1, <2>2, <2>3, <2>4 DEF TypeInv, Owners
<1>10. Topics'
  <2>1. ASSUME NEW d \in Broker, NEW x \in In(queue'[d]) PROVE Through(x, d)'
    <3>1. Through(x, d)
      BY <1>1, <1>5, <2>1 DEF TypeInv, Topics, Through
    <3>. QED  BY <1>1, <3>1 DEF Through
  <2>2. \A x, m : Of(x, m)' <=> Of(x, m)
    BY <1>1 DEF Of
  <2>3. \A x, d : Through(x, d)' <=> Through(x, d)
    BY <1>1 DEF Through
  <2>. QED  BY <1>1, <2>1, <2>2, <2>3 DEF TypeInv, Topics, machines
<1>. QED  BY <1>1, <1>6, <1>7, <1>8, <1>9, <1>10 DEF TypeInv

(* The dispatchers, the machines and the losses keep the requests.         *)
LEMMA OwnersKept ==
  ASSUME SenderShapes, Owners, UNCHANGED senders
  PROVE  SenderShapes' /\ Owners'
BY DEF SenderShapes, Owners, senders

LEMMA DispatchType ==
  ASSUME Given, TypeInv, NEW b \in Broker, Dispatch(b) PROVE TypeInv'
<1>0. UNCHANGED senders /\ queue \in [Broker -> Queue] /\ target' = target
      /\ \A x, y : (Of(x, y)' <=> Of(x, y)) /\ (Through(x, y)' <=> Through(x, y))
  BY DEF Dispatch, Retain, Deliver, senders, TypeInv, BrokerShapes, Of, Through
<1>1. CASE Retain(b)
  <2>1. /\ dispatching' = [dispatching EXCEPT ![b] = Head(queue[b])]
        /\ queue' = [queue EXCEPT ![b] = Tail(@)]
        /\ retained' = [retained EXCEPT ![target[Head(queue[b])]] = Head(queue[b])]
        /\ UNCHANGED <<machines, losses, delivered>>
    BY <1>1 DEF Retain
  <2>2. /\ Head(queue[b]) \in CommandId /\ Tail(queue[b]) \in Queue
        /\ In(queue[b]) = In(Tail(queue[b])) \cup {Head(queue[b])}
    <3>1. queue[b] \in Seq(CommandId) /\ queue[b] # <<>>
      BY <1>0, <1>1 DEF Retain, Queue
    <3>. QED  BY <3>1, InTail DEF Queue
  <2>3. Through(Head(queue[b]), b)
    BY <2>2 DEF TypeInv, Topics
  <2>4. target[Head(queue[b])] \in Board /\ Of(Head(queue[b]), target[Head(queue[b])])
    BY <2>3, Targets DEF TypeInv, Through, Of
  <2>5. BrokerShapes'
    BY <1>0, <2>1, <2>2 DEF TypeInv, BrokerShapes
  <2>6. MachineShapes'
    BY <2>1 DEF TypeInv, MachineShapes, machines
  <2>7. \A d \in Broker : \A c \in In(queue'[d]) : c \in In(queue[d])
    BY <1>0, <2>1, <2>2
  <2>8. \A d \in Broker : dispatching'[d] # None => Through(dispatching'[d], d)
    BY <2>1, <2>3 DEF TypeInv, BrokerShapes, Topics
  <2>9. \A m \in Board : retained'[m] # None => Of(retained'[m], m)
    BY <2>1, <2>4 DEF TypeInv, BrokerShapes, Topics
  <2>10. Topics'
    BY <1>0, <2>1, <2>7, <2>8, <2>9 DEF TypeInv, Topics, machines
  <2>. QED  BY <1>0, <2>5, <2>6, <2>10, OwnersKept DEF TypeInv
<1>2. CASE Deliver(b)
  <2>. DEFINE c == dispatching[b]
              m == target[c]
  <2>1. /\ c # None
        /\ inbox' = IF session[m] = "none" THEN inbox ELSE [inbox EXCEPT ![m] = Append(@, c)]
        /\ missed' = IF session[m] = "none" THEN missed \cup {c} ELSE missed
        /\ raced' = [raced EXCEPT ![m] = session[m] = "snapshot" /\ snapshot[m] \notin {c, None}]
        /\ delivered' = delivered \cup {c}
        /\ dispatching' = [dispatching EXCEPT ![b] = None]
        /\ UNCHANGED <<queue, retained, session, snapshot, received, last, losses>>
    BY <1>2 DEF Deliver
  <2>2. c \in CommandId /\ c \in DOMAIN target /\ m \in Board /\ Of(c, m)
    BY <2>1, Targets DEF TypeInv, BrokerShapes, Topics, Through, Of
  <2>3. inbox \in [Board -> Queue] /\ Append(inbox[m], c) \in Queue
        /\ In(Append(inbox[m], c)) = In(inbox[m]) \cup {c}
    BY <2>2, InAppend DEF TypeInv, MachineShapes, Queue
  <2>. HIDE DEF c, m
  <2>4. BrokerShapes'
    BY <1>0, <2>1, <2>2 DEF TypeInv, BrokerShapes
  <2>5. MachineShapes'
    <3>1. inbox' \in [Board -> Queue]
      BY <2>1, <2>3
    <3>2. missed' \subseteq CommandId
      BY <2>1, <2>2 DEF TypeInv, MachineShapes
    <3>3. raced' \in [Board -> BOOLEAN]
      BY <2>1 DEF TypeInv, MachineShapes
    <3>. QED  BY <2>1, <3>1, <3>2, <3>3 DEF TypeInv, MachineShapes
  <2>6. \A n \in Board : \A x \in In(inbox'[n]) : Of(x, n)
    BY <2>1, <2>2, <2>3 DEF TypeInv, Topics
  <2>7. \A d \in Broker : dispatching'[d] # None => Through(dispatching'[d], d)
    BY <2>1 DEF TypeInv, BrokerShapes, Topics
  <2>8. Topics'
    BY <1>0, <2>1, <2>6, <2>7 DEF TypeInv, Topics
  <2>. QED  BY <1>0, <2>4, <2>5, <2>8, OwnersKept DEF TypeInv
<1>. QED  BY <1>1, <1>2 DEF Dispatch

LEMMA MachineType ==
  ASSUME Given, TypeInv, NEW m \in Board, Subscribe(m) \/ Send(m) \/ Cut(m)
  PROVE  TypeInv'
<1>0. /\ UNCHANGED <<senders, brokers, delivered>> /\ inbox \in [Board -> Queue] /\ target' = target
      /\ \A x, y : (Of(x, y)' <=> Of(x, y)) /\ (Through(x, y)' <=> Through(x, y))
  BY DEF Subscribe, Send, ReadRetained, EnqueueRetained, Receive, Cut, senders, TypeInv,
         MachineShapes, Of, Through
<1>1. BrokerShapes'
  BY <1>0 DEF TypeInv, BrokerShapes, brokers
<1>2. ASSUME MachineShapes',
             \A n \in Board : snapshot'[n] # None => Of(snapshot'[n], n),
             \A n \in Board : \A x \in In(inbox'[n]) : Of(x, n)
      PROVE  TypeInv'
  <2>1. Topics'
    BY <1>0, <1>2 DEF TypeInv, Topics, brokers
  <2>. QED  BY <1>0, <1>1, <1>2, <2>1, OwnersKept DEF TypeInv
<1>3. CASE Subscribe(m)
  <2>1. MachineShapes'
    BY <1>3 DEF Subscribe, TypeInv, MachineShapes
  <2>. QED  BY <1>2, <1>3, <2>1 DEF Subscribe, TypeInv, Topics
<1>4. CASE ReadRetained(m)
  <2>1. MachineShapes'
    BY <1>4 DEF ReadRetained, TypeInv, MachineShapes, BrokerShapes
  <2>2. \A n \in Board : snapshot'[n] # None => Of(snapshot'[n], n)
    BY <1>4 DEF ReadRetained, TypeInv, MachineShapes, Topics
  <2>. QED  BY <1>2, <1>4, <2>1, <2>2 DEF ReadRetained, TypeInv, Topics
<1>5. CASE EnqueueRetained(m)
  <2>1. ASSUME snapshot[m] # None
        PROVE  /\ snapshot[m] \in CommandId /\ Of(snapshot[m], m)
               /\ Append(inbox[m], snapshot[m]) \in Queue
               /\ In(Append(inbox[m], snapshot[m])) = In(inbox[m]) \cup {snapshot[m]}
    <3>1. snapshot[m] \in CommandId /\ Of(snapshot[m], m)
      BY <2>1 DEF TypeInv, MachineShapes, Topics
    <3>. QED  BY <1>0, <3>1, InAppend DEF Queue
  <2>2. inbox' \in [Board -> Queue] /\ \A n \in Board : \A x \in In(inbox'[n]) : Of(x, n)
    BY <1>0, <1>5, <2>1 DEF EnqueueRetained, TypeInv, Topics
  <2>3. MachineShapes'
    BY <1>5, <2>2 DEF EnqueueRetained, TypeInv, MachineShapes
  <2>4. \A n \in Board : snapshot'[n] # None => Of(snapshot'[n], n)
    BY <1>5 DEF EnqueueRetained, TypeInv, MachineShapes, Topics
  <2>. QED  BY <1>2, <2>2, <2>3, <2>4
<1>6. CASE Receive(m)
  <2>1. /\ Head(inbox[m]) \in CommandId /\ Tail(inbox[m]) \in Queue
        /\ In(inbox[m]) = In(Tail(inbox[m])) \cup {Head(inbox[m])}
    BY <1>0, <1>6, InTail DEF Receive, Queue
  <2>2. inbox' \in [Board -> Queue] /\ \A n \in Board : \A x \in In(inbox'[n]) : Of(x, n)
    BY <1>0, <1>6, <2>1 DEF Receive, TypeInv, Topics
  <2>3. MachineShapes'
    BY <1>6, <2>1, <2>2 DEF Receive, TypeInv, MachineShapes
  <2>. QED  BY <1>2, <1>6, <2>2, <2>3 DEF Receive, TypeInv, Topics
<1>7. CASE Cut(m)
  <2>1. /\ <<>> \in Queue /\ In(<<>>) = {} /\ In(inbox[m]) \subseteq CommandId
        /\ losses' \in 0 .. MaxLosses
    <3>1. In(inbox[m]) \subseteq CommandId
      BY Targets DEF TypeInv, Topics, Of
    <3>2. losses' \in 0 .. MaxLosses
      BY <1>7 DEF Cut, Given, TypeInv, MachineShapes
    <3>. QED  BY <3>1, <3>2, InEmpty DEF Queue
  <2>2. inbox' \in [Board -> Queue] /\ \A n \in Board : \A x \in In(inbox'[n]) : Of(x, n)
    BY <1>0, <1>7, <2>1 DEF Cut, TypeInv, Topics
  <2>3. MachineShapes'
    BY <1>7, <2>1, <2>2 DEF Cut, In, TypeInv, MachineShapes
  <2>4. \A n \in Board : snapshot'[n] # None => Of(snapshot'[n], n)
    BY <1>7 DEF Cut, TypeInv, MachineShapes, Topics
  <2>. QED  BY <1>2, <2>2, <2>3, <2>4
<1>. QED  BY <1>3, <1>4, <1>5, <1>6, <1>7 DEF Send

LEMMA CrashType == ASSUME Given, TypeInv, Crash PROVE TypeInv'
<1>1. /\ target' = target /\ port' = port /\ refusing' = refusing /\ overlapped' = overlapped
      /\ stage' = [c \in CommandId |-> IF c \in Active THEN "dead" ELSE stage[c]]
      /\ owner' = [b \in Broker |-> None]
      /\ queue' = [b \in Broker |-> <<>>] /\ dispatching' = [b \in Broker |-> None]
      /\ retained' = [m \in Board |-> None] /\ snapshot' = [m \in Board |-> None]
      /\ inbox' = [m \in Board |-> <<>>]
  BY DEF Crash
<1>2. <<>> \in Queue /\ In(<<>>) = {}
  BY InEmpty DEF Queue
<1>3. \A c \in Active : c \in DOMAIN target
  BY DEF Active
<1>4. SenderShapes' /\ BrokerShapes'
  <2>1. stage' \in [CommandId -> Stages]
    BY <1>1 DEF TypeInv, SenderShapes, Stages
  <2>. QED  BY <1>1, <1>2, <2>1 DEF Crash, TypeInv, SenderShapes, BrokerShapes
<1>5. missed' \subseteq CommandId /\ losses' \in 0 .. MaxLosses
  <2>1. \A m \in Board : In(inbox[m]) \subseteq CommandId
    BY Targets DEF TypeInv, Topics, Of
  <2>2. UNION {In(inbox[m]) : m \in Board} \subseteq CommandId
    BY <2>1
  <2>3. losses' \in 0 .. MaxLosses
    BY DEF Crash, Given, TypeInv, MachineShapes
  <2>. QED  BY <2>2, <2>3 DEF Crash, In, TypeInv, MachineShapes
<1>6. MachineShapes'
  BY <1>1, <1>2, <1>5 DEF Crash, TypeInv, MachineShapes
<1>7. Owners'
  BY <1>1, <1>3 DEF TypeInv, Owners, SenderShapes, Stages, Busy
<1>8. Topics'
  BY <1>1, <1>2 DEF Topics
<1>. QED  BY <1>4, <1>6, <1>7, <1>8 DEF TypeInv

LEMMA StutterType == ASSUME TypeInv, UNCHANGED deliveryVars PROVE TypeInv'
<1>1. SenderShapes' /\ Owners'
  BY OwnersKept DEF TypeInv, deliveryVars
<1>2. BrokerShapes' /\ MachineShapes'
  BY DEF deliveryVars, TypeInv, senders, BrokerShapes, MachineShapes, brokers, machines
<1>3. \A x, y : (Of(x, y)' <=> Of(x, y)) /\ (Through(x, y)' <=> Through(x, y))
  BY DEF deliveryVars, senders, Of, Through
<1>4. Topics'
  BY <1>3 DEF deliveryVars, TypeInv, Topics, brokers, machines
<1>. QED  BY <1>1, <1>2, <1>4 DEF TypeInv

LEMMA NextTypeInv == Given /\ TypeInv /\ [DeliveryNext]_deliveryVars => TypeInv'
BY ArriveType, ServeType, DispatchType, MachineType, CrashType, StutterType DEF DeliveryNext

(* The requests, the brokers' tables and the machines' sessions have their *)
(* types, and a broker's owner is a request that goes on: no request that  *)
(* is over leaves its connection behind, whoever has taken over from whom. *)
THEOREM DeliveryTypeCorrect == ASSUME Given PROVE DeliverySpec => []DeliveryTypes
<1>1. DeliverySpec => []TypeInv
  BY InitTypeInv, NextTypeInv, PTL DEF DeliverySpec
<1>. QED  BY <1>1, TypeInvTypes, PTL

-----------------------------------------------------------------------------
(***************************************************************************)
(* A request alone.  While it is alone nobody takes its connections over:  *)
(* it owns the broker it publishes on, and has sent the command where the  *)
(* machine is once it has left that broker.                                *)
(***************************************************************************)
Sent(c) == c \in delivered \/ \E b \in Broker : c = dispatching[b] \/ c \in In(queue[b])

OneActive == \A c \in Active \ overlapped : Active = {c}

Clear(c) ==
    /\ losses = 0 /\ c \notin overlapped
    /\ {"tls", BrokerOf[target[c]]} \cap refusing = {}

Alone(c) ==
    LET b == BrokerOf[target[c]] IN
    /\ stage[c] \in {"publish", "acknowledge"} => owner[port[c]] = c
    /\ \/ stage[c] \in {"finish", "done"}
       \/ stage[c] = "acknowledge" /\ port[c] = b
       \/ port[c] = "aes" /\ b = "tls"
       => Sent(c)

AloneInv == OneActive /\ \A c \in DOMAIN target : Clear(c) => Alone(c)

(* Steps that are no request's.                                            *)
MachineStep == \E m \in Board : Subscribe(m) \/ Send(m) \/ Cut(m)
DispatchStep == \E b \in Broker : Dispatch(b)

(* Only a crash takes a command off its way.                               *)
LEMMA SentStays ==
  ASSUME Given, TypeInv, NEW c \in CommandId, Sent(c),
         \/ \E m \in Board : Arrive(m)
         \/ \E d \in CommandId : ServeCommand(d)
         \/ DispatchStep \/ MachineStep \/ UNCHANGED deliveryVars
  PROVE  Sent(c)'
<1>0. queue \in [Broker -> Queue] /\ dispatching \in [Broker -> CommandId \cup {None}]
  BY DEF TypeInv, BrokerShapes
<1>1. CASE (\E m \in Board : Arrive(m)) \/ MachineStep \/ UNCHANGED deliveryVars
  <2>1. UNCHANGED <<brokers, delivered>>
    BY <1>1 DEF Arrive, MachineStep, Subscribe, Send, ReadRetained, EnqueueRetained, Receive, Cut,
                deliveryVars
  <2>. QED  BY <2>1 DEF Sent, brokers
<1>2. ASSUME NEW d \in CommandId, ServeCommand(d) PROVE Sent(c)'
  <2>1. UNCHANGED <<dispatching, delivered>>
    BY <1>2 DEF ServeCommand, Connect, Publish, Acknowledge, Finish, brokers
  <2>2. queue' = queue \/ queue' = [queue EXCEPT ![port[d]] = Append(@, d)]
    BY <1>2 DEF ServeCommand, Connect, Publish, Acknowledge, Finish, brokers
  <2>3. \A b \in Broker : In(Append(queue[b], d)) = In(queue[b]) \cup {d}
    BY <1>0, InAppend DEF Queue
  <2>4. \A b \in Broker : In(queue[b]) \subseteq In(queue'[b])
    BY <1>0, <2>2, <2>3
  <2>. QED  BY <2>1, <2>4 DEF Sent
<1>3. ASSUME NEW b \in Broker, Retain(b) PROVE Sent(c)'
  <2>1. /\ dispatching' = [dispatching EXCEPT ![b] = Head(queue[b])]
        /\ queue' = [queue EXCEPT ![b] = Tail(@)]
        /\ delivered' = delivered /\ dispatching[b] = None
    BY <1>3 DEF Retain
  <2>2. In(queue[b]) = In(Tail(queue[b])) \cup {Head(queue[b])}
    BY <1>0, <1>3, InTail DEF Retain, Queue
  <2>3. c # None
    BY DEF Given, CommandId
  <2>. QED  BY <1>0, <2>1, <2>2, <2>3 DEF Sent
<1>4. ASSUME NEW b \in Broker, Deliver(b) PROVE Sent(c)'
  <2>1. /\ dispatching' = [dispatching EXCEPT ![b] = None]
        /\ queue' = queue /\ delivered' = delivered \cup {dispatching[b]}
    BY <1>4 DEF Deliver
  <2>. QED  BY <1>0, <2>1 DEF Sent
<1>. QED  BY <1>1, <1>2, <1>3, <1>4 DEF DispatchStep, Dispatch

LEMMA ServeAlone ==
  ASSUME Given, TypeInv, AloneInv, NEW d \in CommandId, ServeCommand(d)
  PROVE  AloneInv'
<1>1. /\ UNCHANGED <<target, refusing, overlapped, losses>>
      /\ d \in DOMAIN target /\ stage[d] \in Busy /\ d \in Active
      /\ \A c \in CommandId \ {d} : stage'[c] = stage[c] /\ port'[c] = port[c]
      /\ DOMAIN target \subseteq CommandId
  BY ServeType, Targets DEF TypeInv, ServeCommand, Connect, Publish, Acknowledge, Finish, Active, Busy
<1>2. Active' \subseteq Active
  BY <1>1 DEF Active
<1>3. OneActive'
  BY <1>1, <1>2 DEF AloneInv, OneActive
<1>4. ASSUME NEW c \in DOMAIN target, c # d, Clear(c)' PROVE Alone(c)'
  <2>1. Clear(c) /\ Alone(c)
    BY <1>1, <1>4 DEF Clear, AloneInv
  <2>2. stage[c] \notin Busy
    BY <1>1, <1>4, <2>1 DEF AloneInv, OneActive, Active, Busy, Clear
  <2>3. Sent(c) => Sent(c)'
    BY <1>1, <1>4, SentStays
  <2>. QED  BY <1>1, <1>4, <2>1, <2>2, <2>3 DEF Alone, Busy
<1>5. ASSUME Clear(d)' PROVE Alone(d)'
  <2>. DEFINE b == BrokerOf[target[d]]
  <2>1. Clear(d) /\ Alone(d) /\ b \in Broker
    BY <1>1, <1>5, Targets DEF Clear, AloneInv, TypeInv
  <2>2. Sent(d) => Sent(d)'
    BY SentStays
  <2>3. /\ stage \in [CommandId -> Stages] /\ port \in [CommandId -> Broker] /\ port'[d] \in Broker
        /\ owner \in [Broker -> CommandId \cup {None}] /\ queue \in [Broker -> Queue]
    BY ServeType DEF TypeInv, SenderShapes, BrokerShapes
  <2>4. CASE Connect(d)
    <3>1. stage[d] = "connect" /\ UNCHANGED <<target, port>>
      BY <2>4 DEF Connect, AtStage
    <3>2. CASE port[d] \in refusing
      <4>1. port[d] = "aes" /\ b = "tls"
        BY <2>1, <2>3, <3>2 DEF Clear, Broker
      <4>2. stage'[d] = "finish"
        BY <2>3, <2>4, <3>2 DEF Connect, Goto
      <4>. QED  BY <2>1, <2>2, <3>1, <4>1, <4>2 DEF Alone
    <3>3. CASE port[d] \notin refusing
      <4>1. stage'[d] = "publish" /\ owner'[port[d]] = d
        BY <2>3, <2>4, <3>3 DEF Connect, Goto
      <4>. QED  BY <2>1, <2>2, <3>1, <4>1 DEF Alone
    <3>. QED  BY <3>2, <3>3
  <2>5. CASE Publish(d)
    <3>1. stage[d] = "publish" /\ UNCHANGED <<target, port, owner, dispatching, delivered>>
      BY <2>5 DEF Publish, AtStage
    <3>2. owner[port[d]] = d
      BY <2>1, <3>1 DEF Alone
    <3>3. stage'[d] = "acknowledge"
      BY <2>3, <2>5, <3>2 DEF Publish, Goto
    <3>4. ASSUME port[d] = b PROVE Sent(d)'
      <4>1. queue' = [queue EXCEPT ![b] = Append(@, d)]
        BY <2>5, <3>2, <3>4 DEF Publish
      <4>2. d \in In(Append(queue[b], d))
        BY <2>1, <2>3, InAppend DEF Queue
      <4>. QED  BY <2>1, <2>3, <4>1, <4>2 DEF Sent
    <3>. QED  BY <2>1, <2>2, <3>1, <3>2, <3>3, <3>4 DEF Alone
  <2>6. CASE Acknowledge(d)
    <3>1. /\ stage[d] = "acknowledge" /\ UNCHANGED <<target, owner>>
          /\ owner[port[d]] = d
      BY <2>1, <2>6 DEF Acknowledge, AtStage, Alone
    <3>2. CASE port[d] = "tls" /\ port' = [port EXCEPT ![d] = "aes"] /\ Goto(d, "connect")
      <4>1. stage'[d] = "connect" /\ port'[d] = "aes"
        BY <2>3, <3>2 DEF Goto
      <4>. QED  BY <2>1, <2>2, <3>1, <3>2, <4>1 DEF Alone
    <3>3. CASE port[d] = "aes" /\ Goto(d, "finish") /\ UNCHANGED port
      <4>1. stage'[d] = "finish"
        BY <2>3, <3>3 DEF Goto
      <4>2. Sent(d)
        BY <2>1, <3>1, <3>3 DEF Alone, Broker
      <4>. QED  BY <2>2, <4>1, <4>2 DEF Alone
    <3>. QED  BY <2>6, <3>1, <3>2, <3>3 DEF Acknowledge
  <2>7. CASE Finish(d)
    <3>1. stage[d] = "finish" /\ stage'[d] = "done"
      BY <2>3, <2>7 DEF Finish, AtStage, Goto
    <3>. QED  BY <2>1, <2>2, <3>1 DEF Alone
  <2>. QED  BY <2>4, <2>5, <2>6, <2>7 DEF ServeCommand
<1>. QED  BY <1>1, <1>3, <1>4, <1>5 DEF AloneInv

LEMMA ArriveAlone ==
  ASSUME Given, TypeInv, AloneInv, NEW m \in Board, Arrive(m) PROVE AloneInv'
<1>1. PICK n \in CommandId \ DOMAIN target :
           /\ DOMAIN target' = DOMAIN target \cup {n}
           /\ \A c \in DOMAIN target : target'[c] = target[c]
           /\ stage' = [stage EXCEPT ![n] = "connect"]
           /\ overlapped' = IF Active = {} THEN overlapped ELSE overlapped \cup Active \cup {n}
  BY ArriveStep DEF TypeInv
<1>2. UNCHANGED <<port, owner, refusing, losses>> /\ stage \in [CommandId -> Stages]
  BY DEF Arrive, TypeInv, SenderShapes
<1>3. Active' = Active \cup {n} /\ DOMAIN target \subseteq CommandId
  BY <1>1, <1>2, Targets DEF Active, TypeInv
<1>4. OneActive'
  BY <1>1, <1>3 DEF AloneInv, OneActive
<1>5. ASSUME NEW c \in DOMAIN target, Clear(c)' PROVE Alone(c)'
  <2>1. Clear(c) /\ Alone(c)
    BY <1>1, <1>2, <1>5 DEF Clear, AloneInv
  <2>2. Sent(c) => Sent(c)'
    BY <1>3, SentStays
  <2>. QED  BY <1>1, <1>2, <1>3, <2>1, <2>2 DEF Alone
<1>6. Alone(n)'
  <2>1. stage'[n] = "connect" /\ port'[n] = "tls"
    BY <1>1, <1>2 DEF TypeInv, Owners
  <2>. QED  BY <2>1 DEF Alone
<1>. QED  BY <1>1, <1>4, <1>5, <1>6 DEF AloneInv

LEMMA NextAlone == Given /\ TypeInv /\ AloneInv /\ [DeliveryNext]_deliveryVars => AloneInv'
<1>. SUFFICES ASSUME Given, TypeInv, AloneInv, [DeliveryNext]_deliveryVars PROVE AloneInv'
  OBVIOUS
<1>1. CASE DispatchStep \/ MachineStep \/ UNCHANGED deliveryVars
  <2>1. UNCHANGED senders /\ (losses' = losses \/ losses' = losses + 1)
    BY <1>1 DEF DispatchStep, Dispatch, Retain, Deliver, MachineStep, Subscribe, Send,
                ReadRetained, EnqueueRetained, Receive, Cut, deliveryVars
  <2>2. losses' = 0 => losses = 0
    BY <2>1 DEF TypeInv, MachineShapes, Given
  <2>3. Active' = Active
    BY <2>1 DEF Active, senders
  <2>4. ASSUME NEW c \in DOMAIN target, Clear(c)' PROVE Alone(c)'
    <3>1. Clear(c) /\ Alone(c)
      BY <2>1, <2>2, <2>4 DEF Clear, AloneInv, senders
    <3>2. Sent(c) => Sent(c)'
      BY <1>1, Targets, SentStays DEF TypeInv
    <3>. QED  BY <2>1, <3>1, <3>2 DEF Alone, senders
  <2>. QED  BY <2>1, <2>3, <2>4 DEF AloneInv, OneActive, senders
<1>2. CASE Crash
  <2>1. losses' # 0 /\ UNCHANGED target
    BY <1>2 DEF Crash, TypeInv, MachineShapes, Given
  <2>2. Active' = {}
    BY <1>2, Targets DEF Crash, Active, TypeInv
  <2>. QED  BY <2>1, <2>2 DEF AloneInv, OneActive, Clear
<1>. QED  BY <1>1, <1>2, ServeAlone, ArriveAlone DEF DeliveryNext, DispatchStep, MachineStep

LEMMA InitAlone == DeliveryInit => AloneInv
BY DEF DeliveryInit, AloneInv, OneActive, Active

(* A command whose request overlapped no other's is on its way to its      *)
(* machine when it is answered, if neither broker it needs refuses the     *)
(* service and nothing was lost: DeviceMqtt leaves a broker only after the *)
(* publication there, and only a takeover or a refusal makes it skip one.  *)
THEOREM AloneCorrect == ASSUME Given PROVE DeliverySpec => []AloneIsSent
<1>1. TypeInv /\ AloneInv => AloneIsSent
  BY DEF AloneInv, Clear, Alone, Sent, In, AloneIsSent
<1>2. DeliverySpec => [](TypeInv /\ AloneInv)
  BY InitTypeInv, InitAlone, NextTypeInv, NextAlone, PTL DEF DeliverySpec
<1>. QED  BY <1>1, <1>2, PTL

-----------------------------------------------------------------------------
(***************************************************************************)
(* A command is sent once: it is never queued beside itself, nor after it  *)
(* was delivered.                                                          *)
(***************************************************************************)
Distinct(q) == Queues!IsInjective(q)

LEMMA DistinctAppend ==
  ASSUME NEW S, NEW q \in Seq(S), NEW x \in S, x \notin In(q), Distinct(q)
  PROVE  Distinct(Append(q, x))
<1>1. /\ Len(q) \in Nat /\ DOMAIN q = 1 .. Len(q) /\ DOMAIN Append(q, x) = 1 .. Len(q) + 1
      /\ \A i \in 1 .. Len(q) : Append(q, x)[i] = q[i]
      /\ Append(q, x)[Len(q) + 1] = x
  BY AppendProperties, LenProperties
<1>2. 1 .. Len(q) + 1 = 1 .. Len(q) \cup {Len(q) + 1}
  BY <1>1
<1>3. \A i \in 1 .. Len(q) : q[i] # x
  BY <1>1 DEF In, Queues!ToSet
<1>. QED  BY <1>1, <1>2, <1>3 DEF Distinct, Queues!IsInjective

LEMMA DistinctTail ==
  ASSUME NEW S, NEW q \in Seq(S), q # <<>>, Distinct(q)
  PROVE  Distinct(Tail(q)) /\ Head(q) \notin In(Tail(q))
<1>1. /\ Len(q) \in Nat \ {0} /\ DOMAIN q = 1 .. Len(q) /\ Head(q) = q[1]
      /\ Tail(q) \in Seq(S) /\ DOMAIN Tail(q) = 1 .. Len(q) - 1
      /\ \A i \in 1 .. Len(q) - 1 : Tail(q)[i] = q[i + 1]
  BY EmptySeq, LenProperties, HeadTailProperties
<1>2. \A i, j \in 1 .. Len(q) : q[i] = q[j] => i = j
  BY <1>1 DEF Distinct, Queues!IsInjective
<1>3. \A i \in 1 .. Len(q) - 1 : i \in Nat /\ i + 1 \in 1 .. Len(q) /\ i + 1 # 1
  BY <1>1
<1>4. \A i, j \in 1 .. Len(q) - 1 : i + 1 = j + 1 => i = j
  BY <1>1
<1>5. \A i, j \in 1 .. Len(q) - 1 : Tail(q)[i] = Tail(q)[j] => i = j
  BY <1>1, <1>2, <1>3, <1>4
<1>6. \A i \in 1 .. Len(q) - 1 : Tail(q)[i] # Head(q)
  <2>1. 1 \in 1 .. Len(q)
    BY <1>1
  <2>. QED  BY <1>1, <1>2, <1>3, <2>1
<1>. QED  BY <1>1, <1>5, <1>6 DEF In, Queues!ToSet, Distinct, Queues!IsInjective

Unsent(c) ==
    LET b == BrokerOf[target[c]] IN
    \/ stage[c] \in {"connect", "publish"} /\ port[c] = b
    \/ port[c] = "tls" /\ b = "aes"

OnceAt(b) ==
    /\ Distinct(queue[b]) /\ In(queue[b]) \cap delivered = {}
    /\ dispatching[b] # None => dispatching[b] \notin In(queue[b]) \cup delivered

OnceInv ==
    /\ \A b \in Broker : OnceAt(b)
    /\ \A c \in DOMAIN target : Unsent(c) => ~Sent(c)

LEMMA InitOnce == DeliveryInit => OnceInv
<1>. SUFFICES ASSUME DeliveryInit PROVE OnceInv
  OBVIOUS
<1>1. Distinct(<<>>)
  BY DEF Distinct, Queues!IsInjective
<1>. QED  BY <1>1, InEmpty DEF DeliveryInit, OnceInv, OnceAt

LEMMA ArriveOnce ==
  ASSUME Given, TypeInv, OnceInv, NEW m \in Board, Arrive(m) PROVE OnceInv'
<1>1. PICK n \in CommandId \ DOMAIN target :
           /\ DOMAIN target' = DOMAIN target \cup {n}
           /\ \A c \in DOMAIN target : target'[c] = target[c]
           /\ stage' = [stage EXCEPT ![n] = "connect"]
  BY ArriveStep DEF TypeInv
<1>2. UNCHANGED <<port, brokers, delivered>> /\ \A c : Sent(c)' <=> Sent(c)
  BY DEF Arrive, Sent, brokers
<1>3. ~Sent(n)
  <2>1. n # None
    BY DEF Given, CommandId
  <2>. QED  BY <1>1, <2>1 DEF TypeInv, Topics, Through, BrokerShapes, Sent
<1>4. ASSUME NEW c \in DOMAIN target, Unsent(c)' PROVE ~Sent(c)
  <2>1. stage'[c] = stage[c] /\ target'[c] = target[c]
    BY <1>1, Targets DEF TypeInv, SenderShapes
  <2>. QED  BY <1>2, <1>4, <2>1 DEF Unsent, OnceInv
<1>. QED  BY <1>1, <1>2, <1>3, <1>4 DEF OnceInv, OnceAt, brokers

LEMMA ServeOnce ==
  ASSUME Given, TypeInv, OnceInv, NEW d \in CommandId, ServeCommand(d) PROVE OnceInv'
<1>1. /\ UNCHANGED <<target, dispatching, delivered>>
      /\ d \in DOMAIN target /\ DOMAIN target \subseteq CommandId
      /\ \A c \in CommandId \ {d} : stage'[c] = stage[c] /\ port'[c] = port[c]
  BY ServeType, Targets DEF TypeInv, ServeCommand, Connect, Publish, Acknowledge, Finish, brokers
<1>2. /\ queue \in [Broker -> Queue] /\ stage \in [CommandId -> Stages]
      /\ port \in [CommandId -> Broker] /\ BrokerOf[target[d]] \in Broker
  BY <1>1, Targets DEF TypeInv, SenderShapes, BrokerShapes
<1>3. Unsent(d)' => Unsent(d)
  <2>1. CASE Connect(d)
    BY <1>1, <1>2, <2>1 DEF Connect, AtStage, Unsent
  <2>2. CASE Publish(d)
    BY <1>1, <1>2, <2>2 DEF Publish, AtStage, Unsent
  <2>3. CASE Acknowledge(d)
    <3>1. CASE port[d] = "tls" /\ port' = [port EXCEPT ![d] = "aes"]
      BY <1>1, <1>2, <3>1 DEF Unsent, Broker
    <3>2. CASE Goto(d, "finish") /\ UNCHANGED port
      BY <1>1, <1>2, <3>2 DEF Goto, Unsent
    <3>. QED  BY <2>3, <3>1, <3>2 DEF Acknowledge
  <2>4. CASE Finish(d)
    BY <1>1, <1>2, <2>4 DEF Finish, Goto, Unsent
  <2>. QED  BY <2>1, <2>2, <2>3, <2>4 DEF ServeCommand
<1>4. CASE queue' = queue
  <2>1. \A c : Sent(c)' <=> Sent(c)
    BY <1>1, <1>4 DEF Sent
  <2>2. \A c \in DOMAIN target : Unsent(c)' => Unsent(c)
    BY <1>1, <1>3 DEF Unsent
  <2>. QED  BY <1>1, <1>4, <2>1, <2>2 DEF OnceInv, OnceAt
<1>5. CASE queue' # queue
  <2>. DEFINE b == port[d]
  <2>1. /\ stage[d] = "publish" /\ stage'[d] = "acknowledge" /\ port' = port
        /\ b = BrokerOf[target[d]] /\ queue' = [queue EXCEPT ![b] = Append(@, d)]
    <3>1. Publish(d) /\ owner[port[d]] = d
      BY <1>5 DEF ServeCommand, Connect, Publish, Acknowledge, Finish, brokers
    <3>. QED  BY <1>2, <1>5, <3>1 DEF Publish, AtStage, Goto
  <2>2. ~Sent(d) /\ ~Unsent(d)'
    <3>1. Unsent(d)
      BY <2>1 DEF Unsent
    <3>2. ~Unsent(d)'
      BY <1>1, <2>1 DEF Unsent
    <3>. QED  BY <1>1, <3>1, <3>2 DEF OnceInv
  <2>3. /\ In(queue'[b]) = In(queue[b]) \cup {d} /\ Distinct(queue'[b])
        /\ \A e \in Broker \ {b} : queue'[e] = queue[e]
    <3>1. In(Append(queue[b], d)) = In(queue[b]) \cup {d}
      BY <1>2, InAppend DEF Queue
    <3>2. Distinct(Append(queue[b], d))
      BY <1>2, <2>2, DistinctAppend DEF Queue, OnceInv, OnceAt, Sent
    <3>. QED  BY <1>2, <2>1, <3>1, <3>2
  <2>4. ASSUME NEW e \in Broker PROVE OnceAt(e)'
    <3>1. d \notin delivered /\ d # dispatching[e] /\ OnceAt(e)
      BY <2>2 DEF Sent, OnceInv
    <3>. QED  BY <1>1, <2>3, <3>1 DEF OnceAt
  <2>5. ASSUME NEW c \in DOMAIN target, Unsent(c)' PROVE ~Sent(c)'
    <3>1. c # d /\ Unsent(c)
      BY <1>1, <2>2, <2>5 DEF Unsent
    <3>. QED  BY <1>1, <2>3, <3>1 DEF OnceInv, Sent
  <2>. QED  BY <1>1, <2>4, <2>5 DEF OnceInv
<1>. QED  BY <1>4, <1>5

LEMMA DispatchOnce ==
  ASSUME Given, TypeInv, OnceInv, NEW b \in Broker, Dispatch(b) PROVE OnceInv'
<1>0. /\ UNCHANGED senders /\ target' = target /\ DOMAIN target \subseteq CommandId
      /\ queue \in [Broker -> Queue] /\ dispatching \in [Broker -> CommandId \cup {None}]
      /\ None \notin CommandId
  BY Targets DEF TypeInv, BrokerShapes, Dispatch, Retain, Deliver, senders, Given, CommandId
<1>1. /\ \A e \in Broker : OnceAt(e)' 
      /\ \A c \in CommandId : Sent(c)' => Sent(c)
  <2>1. CASE Retain(b)
    <3>1. /\ dispatching' = [dispatching EXCEPT ![b] = Head(queue[b])]
          /\ queue' = [queue EXCEPT ![b] = Tail(@)] /\ delivered' = delivered
      BY <2>1 DEF Retain
    <3>2. /\ In(queue[b]) = In(Tail(queue[b])) \cup {Head(queue[b])}
          /\ Distinct(Tail(queue[b])) /\ Head(queue[b]) \notin In(Tail(queue[b]))
      BY <1>0, <2>1, InTail, DistinctTail DEF Retain, Queue, OnceInv, OnceAt
    <3>3. \A e \in Broker : OnceAt(e)'
      BY <1>0, <3>1, <3>2 DEF OnceInv, OnceAt
    <3>. QED  BY <1>0, <3>1, <3>2, <3>3 DEF Sent
  <2>2. CASE Deliver(b)
    <3>1. /\ dispatching[b] # None /\ dispatching' = [dispatching EXCEPT ![b] = None]
          /\ queue' = queue /\ delivered' = delivered \cup {dispatching[b]}
      BY <2>2 DEF Deliver
    <3>2. \A e \in Broker \ {b} : dispatching[b] \notin In(queue[e]) /\ dispatching[e] # dispatching[b]
      BY <3>1 DEF TypeInv, Topics, Through
    <3>3. dispatching[b] \notin In(queue[b])
      BY <3>1 DEF OnceInv, OnceAt
    <3>4. \A e \in Broker : OnceAt(e)'
      BY <1>0, <3>1, <3>2, <3>3 DEF OnceInv, OnceAt
    <3>. QED  BY <1>0, <3>1, <3>4 DEF Sent
  <2>. QED  BY <2>1, <2>2 DEF Dispatch
<1>2. \A c : Unsent(c)' <=> Unsent(c)
  BY <1>0 DEF Unsent, senders
<1>. QED  BY <1>0, <1>1, <1>2 DEF OnceInv

LEMMA NextOnce == Given /\ TypeInv /\ OnceInv /\ [DeliveryNext]_deliveryVars => OnceInv'
<1>. SUFFICES ASSUME Given, TypeInv, OnceInv, [DeliveryNext]_deliveryVars PROVE OnceInv'
  OBVIOUS
<1>1. CASE MachineStep \/ UNCHANGED deliveryVars
  <2>1. UNCHANGED <<senders, brokers, delivered>>
    BY <1>1 DEF MachineStep, Subscribe, Send, ReadRetained, EnqueueRetained, Receive, Cut, deliveryVars
  <2>2. \A c : (Unsent(c)' <=> Unsent(c)) /\ (Sent(c)' <=> Sent(c))
    BY <2>1 DEF Unsent, Sent, senders, brokers
  <2>. QED  BY <2>1, <2>2 DEF OnceInv, OnceAt, senders, brokers
<1>2. CASE Crash
  <2>1. /\ UNCHANGED <<target, port, delivered>>
        /\ queue' = [b \in Broker |-> <<>>] /\ dispatching' = [b \in Broker |-> None]
        /\ stage' = [c \in CommandId |-> IF c \in Active THEN "dead" ELSE stage[c]]
        /\ DOMAIN target \subseteq CommandId /\ None \notin CommandId
    BY <1>2, Targets DEF Crash, TypeInv, Given, CommandId
  <2>2. Distinct(<<>>)
    BY DEF Distinct, Queues!IsInjective
  <2>3. \A b \in Broker : OnceAt(b)'
    BY <2>1, <2>2, InEmpty DEF OnceAt
  <2>4. ASSUME NEW c \in DOMAIN target, Unsent(c)' PROVE ~Sent(c)'
    <3>1. ~Sent(c)
      BY <2>1, <2>4 DEF Unsent, OnceInv
    <3>. QED  BY <2>1, <3>1, InEmpty DEF Sent
  <2>. QED  BY <2>1, <2>3, <2>4 DEF OnceInv
<1>. QED  BY <1>1, <1>2, ServeOnce, ArriveOnce, DispatchOnce DEF DeliveryNext, MachineStep

-----------------------------------------------------------------------------
(***************************************************************************)
(* What a machine misses, and what comes last.  A command being dispatched *)
(* is retained already; one that was delivered and not received is in the  *)
(* queue of its machine, or was missed, and if it is still retained, the   *)
(* machine's next subscription finds it.                                   *)
(***************************************************************************)
DispatchedRetained ==
    \A b \in Broker : dispatching[b] # None => retained[target[dispatching[b]]] = dispatching[b]

NotLost(c) ==
    LET m == target[c] IN
    /\ c \in In(inbox[m]) \cup missed
    /\ retained[m] = c => /\ session[m] = "snapshot" => snapshot[m] = c \/ c \in In(inbox[m])
                          /\ session[m] = "on" => c \in In(inbox[m])

MissInv == \A c \in delivered \ received : NotLost(c)

(* What the machine will have received last when its queue is empty.       *)
Newest(m) == IF inbox[m] = <<>> THEN last[m] ELSE inbox[m][Len(inbox[m])]

Settled(m) == retained[m] # None /\ \A b \in Broker : dispatching[b] # retained[m]

NewestRetained(m) ==
    /\ session[m] = "on" => Newest(m) = retained[m] \/ raced[m]
    /\ session[m] = "snapshot" =>
         \/ snapshot[m] = retained[m] \/ raced[m]
         \/ snapshot[m] = None /\ Newest(m) = retained[m]

LastInv == \A m \in Board : Settled(m) => NewestRetained(m)

WayInv == DispatchedRetained /\ MissInv /\ LastInv

LEMMA NewestAppend ==
  ASSUME NEW S, NEW q \in Seq(S), NEW x \in S
  PROVE  Append(q, x) # <<>> /\ Append(q, x)[Len(Append(q, x))] = x
<1>1. /\ Append(q, x) \in Seq(S) /\ Len(Append(q, x)) = Len(q) + 1 /\ Len(q) \in Nat
      /\ Append(q, x)[Len(q) + 1] = x
  BY AppendProperties, LenProperties
<1>. QED  BY <1>1, EmptySeq

LEMMA NewestTail ==
  ASSUME NEW S, NEW q \in Seq(S), q # <<>>
  PROVE  IF Tail(q) = <<>> THEN Head(q) = q[Len(q)] ELSE Tail(q)[Len(Tail(q))] = q[Len(q)]
<1>1. /\ Len(q) \in Nat \ {0} /\ Head(q) = q[1]
      /\ Tail(q) \in Seq(S) /\ Len(Tail(q)) = Len(q) - 1
      /\ \A i \in 1 .. Len(q) - 1 : Tail(q)[i] = q[i + 1]
  BY EmptySeq, LenProperties, HeadTailProperties
<1>2. Tail(q) = <<>> <=> Len(q) - 1 = 0
  BY <1>1, EmptySeq
<1>3. Len(q) - 1 # 0 => Len(q) - 1 \in 1 .. Len(q) - 1 /\ (Len(q) - 1) + 1 = Len(q)
  BY <1>1
<1>4. \A n \in Nat : n - 1 = 0 => n = 1
  OBVIOUS
<1>. QED  BY <1>1, <1>2, <1>3, <1>4

LEMMA InitWay == DeliveryInit => WayInv
BY DEF DeliveryInit, WayInv, DispatchedRetained, MissInv, LastInv, Settled

LEMMA RetainWay ==
  ASSUME Given, TypeInv, OnceInv, WayInv, NEW b \in Broker, Retain(b) PROVE WayInv'
<1>. DEFINE c == Head(queue[b])
<1>1. /\ dispatching[b] = None /\ dispatching' = [dispatching EXCEPT ![b] = c]
      /\ retained' = [retained EXCEPT ![target[c]] = c]
      /\ UNCHANGED <<target, machines, delivered>>
      /\ dispatching \in [Broker -> CommandId \cup {None}]
      /\ retained \in [Board -> CommandId \cup {None}] /\ None \notin CommandId
  BY DEF Retain, senders, TypeInv, BrokerShapes, Given, CommandId
<1>2. c \in CommandId /\ c \in In(queue[b])
  BY InTail DEF Retain, TypeInv, BrokerShapes, Queue
<1>3. Through(c, b) /\ c \notin delivered /\ target[c] \in Board
  BY <1>2, Targets DEF TypeInv, Topics, OnceInv, OnceAt, Through
<1>4. UNCHANGED <<session, snapshot, inbox, missed, received, last, raced>>
      /\ \A m : Newest(m)' = Newest(m)
  BY <1>1 DEF machines, Newest
<1>. HIDE DEF c
<1>5. DispatchedRetained'
  <2>1. ASSUME NEW d \in Broker, d # b, dispatching'[d] # None
        PROVE  retained'[target'[dispatching'[d]]] = dispatching'[d]
    <3>1. Through(dispatching[d], d) /\ retained[target[dispatching[d]]] = dispatching[d]
      BY <1>1, <2>1 DEF TypeInv, Topics, WayInv, DispatchedRetained
    <3>2. target[dispatching[d]] # target[c]
      BY <1>3, <2>1, <3>1 DEF Through
    <3>. QED  BY <1>1, <2>1, <3>1, <3>2
  <2>. QED  BY <1>1, <1>3, <2>1 DEF DispatchedRetained
<1>6. MissInv'
  <2>1. ASSUME NEW x \in delivered \ received PROVE NotLost(x)'
    <3>1. x # c /\ NotLost(x) /\ target[x] \in Board
      BY <1>3, Targets DEF WayInv, MissInv, TypeInv, BrokerShapes
    <3>2. retained'[target[x]] = x => retained[target[x]] = x
      BY <1>1, <1>3, <3>1
    <3>. QED  BY <1>1, <1>4, <3>1, <3>2 DEF NotLost
  <2>. QED  BY <1>1, <1>4, <2>1 DEF MissInv
<1>7. LastInv'
  <2>1. ASSUME NEW m \in Board, Settled(m)' PROVE NewestRetained(m)'
    <3>1. m # target[c]
      BY <1>1, <1>3, <2>1 DEF Settled
    <3>2. retained'[m] = retained[m] /\ Settled(m)
      BY <1>1, <2>1, <3>1 DEF Settled
    <3>3. NewestRetained(m)
      BY <3>2 DEF WayInv, LastInv
    <3>. QED  BY <1>4, <3>2, <3>3 DEF NewestRetained
  <2>. QED  BY <2>1 DEF LastInv
<1>. QED  BY <1>5, <1>6, <1>7 DEF WayInv

LEMMA DeliverWay ==
  ASSUME Given, TypeInv, WayInv, NEW b \in Broker, Deliver(b) PROVE WayInv'
<1>1. PICK c, m :
      /\ c = dispatching[b] /\ m = target[c] /\ c # None
      /\ inbox' = IF session[m] = "none" THEN inbox ELSE [inbox EXCEPT ![m] = Append(@, c)]
      /\ missed' = IF session[m] = "none" THEN missed \cup {c} ELSE missed
      /\ raced' = [raced EXCEPT ![m] = session[m] = "snapshot" /\ snapshot[m] \notin {c, None}]
      /\ delivered' = delivered \cup {c}
      /\ dispatching' = [dispatching EXCEPT ![b] = None]
      /\ UNCHANGED <<target, retained, session, snapshot, received, last>>
  BY DEF Deliver, senders
<1>2. /\ c \in CommandId /\ Through(c, b) /\ m \in Board /\ retained[m] = c
      /\ dispatching \in [Broker -> CommandId \cup {None}]
      /\ inbox \in [Board -> Queue] /\ raced \in [Board -> BOOLEAN]
      /\ session \in [Board -> {"none", "subscribed", "snapshot", "on"}]
  BY <1>1, Targets DEF TypeInv, BrokerShapes, MachineShapes, Topics, Through, WayInv, DispatchedRetained
<1>3. /\ In(Append(inbox[m], c)) = In(inbox[m]) \cup {c}
      /\ Append(inbox[m], c) # <<>> /\ Append(inbox[m], c)[Len(Append(inbox[m], c))] = c
  BY <1>2, InAppend, NewestAppend DEF Queue
<1>5. DispatchedRetained'
  BY <1>1, <1>2 DEF WayInv, DispatchedRetained
<1>6. \A n \in Board : In(inbox[n]) \subseteq In(inbox'[n])
  BY <1>1, <1>2, <1>3
<1>7. session[m] # "none" => c \in In(inbox'[m])
  BY <1>1, <1>2, <1>3
<1>8. MissInv'
  <2>1. ASSUME NEW x \in delivered \ received PROVE NotLost(x)'
    <3>1. NotLost(x) /\ target[x] \in Board
      BY Targets DEF WayInv, MissInv, TypeInv, BrokerShapes
    <3>. QED  BY <1>1, <1>6, <3>1 DEF NotLost
  <2>2. NotLost(c)'
    <3>1. c \in In(inbox'[m]) \cup missed'
      BY <1>1, <1>7
    <3>2. session[m] = "snapshot" \/ session[m] = "on" => c \in In(inbox'[m])
      BY <1>7
    <3>. QED  BY <1>1, <3>1, <3>2 DEF NotLost
  <2>. QED  BY <1>1, <2>1, <2>2 DEF MissInv
<1>9. LastInv'
  <2>1. ASSUME NEW n \in Board, n # m, Settled(n)' PROVE NewestRetained(n)'
    <3>1. retained[n] # None /\ target[retained[n]] = n
      BY <1>1, <2>1 DEF Settled, TypeInv, Topics, Of
    <3>2. retained[n] # dispatching[b]
      BY <1>1, <2>1, <3>1
    <3>3. Settled(n)
      BY <1>1, <1>2, <2>1, <3>2 DEF Settled
    <3>4. NewestRetained(n)
      BY <3>3 DEF WayInv, LastInv
    <3>5. inbox'[n] = inbox[n] /\ raced'[n] = raced[n] /\ last'[n] = last[n]
      BY <1>1, <1>2, <2>1
    <3>6. Newest(n)' = Newest(n)
      BY <3>5 DEF Newest
    <3>. QED  BY <1>1, <3>4, <3>5, <3>6 DEF NewestRetained
  <2>2. NewestRetained(m)'
    <3>1. session[m] # "none" => Newest(m)' = c
      <4>1. session[m] # "none" => inbox'[m] = Append(inbox[m], c)
        BY <1>1, <1>2
      <4>. QED  BY <1>3, <4>1 DEF Newest
    <3>2. raced'[m] = (session[m] = "snapshot" /\ snapshot[m] \notin {c, None})
      BY <1>1, <1>2
    <3>. QED  BY <1>1, <1>2, <3>1, <3>2 DEF NewestRetained
  <2>. QED  BY <2>1, <2>2 DEF LastInv
<1>. QED  BY <1>5, <1>8, <1>9 DEF WayInv

LEMMA MachineWay ==
  ASSUME Given, TypeInv, WayInv, NEW m \in Board, Subscribe(m) \/ Send(m) \/ Cut(m)
  PROVE  WayInv'
<1>1. /\ UNCHANGED <<target, dispatching, retained, delivered>>
      /\ inbox \in [Board -> Queue] /\ last \in [Board -> CommandId \cup {None}]
      /\ session \in [Board -> {"none", "subscribed", "snapshot", "on"}]
      /\ snapshot \in [Board -> CommandId \cup {None}] /\ raced \in [Board -> BOOLEAN]
      /\ \A c \in delivered : target[c] \in Board /\ c # None
  BY Targets DEF Subscribe, Send, ReadRetained, EnqueueRetained, Receive, Cut, senders, brokers,
         TypeInv, MachineShapes, BrokerShapes, Given
<1>2. DispatchedRetained'
  BY <1>1 DEF WayInv, DispatchedRetained
<1>3. \A n \in Board : Settled(n)' <=> Settled(n)
  BY <1>1 DEF Settled
<1>4. ASSUME received \subseteq received', missed \subseteq missed',
             \A c \in delivered \ received' : target[c] = m => NotLost(c)',
             Settled(m) => NewestRetained(m)',
             \A n \in Board \ {m} : /\ session'[n] = session[n] /\ snapshot'[n] = snapshot[n]
                                    /\ inbox'[n] = inbox[n] /\ last'[n] = last[n]
                                    /\ raced'[n] = raced[n]
      PROVE  WayInv'
  <2>1. ASSUME NEW c \in delivered \ received' PROVE NotLost(c)'
    <3>1. NotLost(c)
      BY <1>4 DEF WayInv, MissInv
    <3>2. CASE target[c] # m
      BY <1>1, <1>4, <3>1, <3>2 DEF NotLost
    <3>. QED  BY <1>4, <3>2
  <2>2. ASSUME NEW n \in Board, Settled(n) PROVE NewestRetained(n)'
    <3>1. CASE n # m
      <4>1. NewestRetained(n)
        BY <2>2 DEF WayInv, LastInv
      <4>2. Newest(n)' = Newest(n)
        BY <1>4, <3>1 DEF Newest
      <4>. QED  BY <1>1, <1>4, <3>1, <4>1, <4>2 DEF NewestRetained
    <3>. QED  BY <1>4, <2>2, <3>1
  <2>. QED  BY <1>1, <1>2, <1>3, <2>1, <2>2 DEF WayInv, MissInv, LastInv
<1>5. ASSUME UNCHANGED <<received, missed>>, In(inbox[m]) \subseteq In(inbox'[m]),
             session'[m] \notin {"snapshot", "on"}
      PROVE  \A c \in delivered \ received' : target[c] = m => NotLost(c)'
  BY <1>1, <1>5 DEF WayInv, MissInv, NotLost
<1>6. CASE Subscribe(m)
  <2>1. session'[m] = "subscribed" /\ UNCHANGED <<snapshot, inbox, missed, received, last>>
    BY <1>1, <1>6 DEF Subscribe
  <2>2. NewestRetained(m)'
    BY <2>1 DEF NewestRetained
  <2>3. \A n \in Board \ {m} : session'[n] = session[n] /\ raced'[n] = raced[n]
    BY <1>1, <1>6 DEF Subscribe
  <2>. QED  BY <1>4, <1>5, <2>1, <2>2, <2>3
<1>7. CASE ReadRetained(m)
  <2>1. /\ session'[m] = "snapshot" /\ snapshot'[m] = retained[m]
        /\ UNCHANGED <<inbox, missed, received, last, raced>>
    BY <1>1, <1>7 DEF ReadRetained
  <2>2. \A n \in Board \ {m} : session'[n] = session[n] /\ snapshot'[n] = snapshot[n]
    BY <1>1, <1>7 DEF ReadRetained
  <2>3. NewestRetained(m)'
    BY <1>1, <2>1 DEF NewestRetained
  <2>4. \A c \in delivered \ received' : target[c] = m => NotLost(c)'
    BY <1>1, <2>1 DEF WayInv, MissInv, NotLost
  <2>. QED  BY <1>4, <2>1, <2>2, <2>3, <2>4
<1>8. CASE EnqueueRetained(m)
  <2>1. /\ session[m] = "snapshot" /\ session'[m] = "on"
        /\ inbox'[m] = IF snapshot[m] = None THEN inbox[m] ELSE Append(inbox[m], snapshot[m])
        /\ UNCHANGED <<missed, received, last, raced>>
    BY <1>1, <1>8 DEF EnqueueRetained
  <2>2. \A n \in Board \ {m} : /\ session'[n] = session[n] /\ snapshot'[n] = snapshot[n]
                               /\ inbox'[n] = inbox[n]
    BY <1>1, <1>8 DEF EnqueueRetained
  <2>3. ASSUME snapshot[m] # None
        PROVE  /\ In(Append(inbox[m], snapshot[m])) = In(inbox[m]) \cup {snapshot[m]}
               /\ Append(inbox[m], snapshot[m]) # <<>>
               /\ Append(inbox[m], snapshot[m])[Len(Append(inbox[m], snapshot[m]))] = snapshot[m]
    <3>1. inbox[m] \in Seq(CommandId) /\ snapshot[m] \in CommandId
      BY <1>1, <2>3 DEF Queue
    <3>. QED  BY <3>1, InAppend, NewestAppend
  <2>4. \A c \in delivered \ received' : target[c] = m => NotLost(c)'
    <3>1. ASSUME NEW c \in delivered \ received, target[c] = m PROVE NotLost(c)'
      <4>1. NotLost(c) /\ c # None
        BY <1>1, <3>1 DEF WayInv, MissInv
      <4>2. In(inbox[m]) \subseteq In(inbox'[m])
        BY <2>1, <2>3
      <4>3. snapshot[m] # None => snapshot[m] \in In(inbox'[m])
        BY <2>1, <2>3
      <4>. QED  BY <1>1, <2>1, <3>1, <4>1, <4>2, <4>3 DEF NotLost
    <3>. QED  BY <2>1, <3>1
  <2>5. ASSUME Settled(m) PROVE NewestRetained(m)'
    <3>1. NewestRetained(m) /\ retained[m] # None
      BY <2>5 DEF WayInv, LastInv, Settled
    <3>2. snapshot[m] # None => Newest(m)' = snapshot[m]
      BY <2>1, <2>3 DEF Newest
    <3>3. snapshot[m] = None => Newest(m)' = Newest(m)
      BY <2>1 DEF Newest
    <3>. QED  BY <1>1, <2>1, <3>1, <3>2, <3>3 DEF NewestRetained
  <2>. QED  BY <1>4, <2>1, <2>2, <2>4, <2>5
<1>9. CASE Receive(m)
  <2>1. /\ inbox[m] # <<>> /\ inbox'[m] = Tail(inbox[m]) /\ last'[m] = Head(inbox[m])
        /\ received' = received \cup {Head(inbox[m])}
        /\ UNCHANGED <<session, snapshot, missed, raced>>
    BY <1>1, <1>9 DEF Receive
  <2>2. \A n \in Board \ {m} : inbox'[n] = inbox[n] /\ last'[n] = last[n]
    BY <1>1, <1>9 DEF Receive
  <2>3. /\ In(inbox[m]) = In(Tail(inbox[m])) \cup {Head(inbox[m])}
        /\ IF Tail(inbox[m]) = <<>> THEN Head(inbox[m]) = inbox[m][Len(inbox[m])]
           ELSE Tail(inbox[m])[Len(Tail(inbox[m]))] = inbox[m][Len(inbox[m])]
    BY <1>1, <2>1, InTail, NewestTail DEF Queue
  <2>4. Newest(m)' = Newest(m)
    BY <2>1, <2>3 DEF Newest
  <2>5. Settled(m) => NewestRetained(m)'
    BY <1>1, <2>1, <2>4 DEF WayInv, LastInv, NewestRetained
  <2>6. \A c \in delivered \ received' : target[c] = m => NotLost(c)'
    BY <1>1, <2>1, <2>3 DEF WayInv, MissInv, NotLost
  <2>. QED  BY <1>4, <2>1, <2>2, <2>5, <2>6
<1>10. CASE Cut(m)
  <2>1. /\ session'[m] = "none" /\ inbox'[m] = <<>> /\ missed' = missed \cup In(inbox[m])
        /\ UNCHANGED <<received, last, raced>>
    BY <1>1, <1>10 DEF Cut, In
  <2>2. \A n \in Board \ {m} : /\ session'[n] = session[n] /\ snapshot'[n] = snapshot[n]
                               /\ inbox'[n] = inbox[n]
    BY <1>1, <1>10 DEF Cut
  <2>3. NewestRetained(m)'
    BY <2>1 DEF NewestRetained
  <2>4. \A c \in delivered \ received' : target[c] = m => NotLost(c)'
    BY <1>1, <2>1 DEF WayInv, MissInv, NotLost
  <2>. QED  BY <1>4, <2>1, <2>2, <2>3, <2>4
<1>. QED  BY <1>6, <1>7, <1>8, <1>9, <1>10 DEF Send

LEMMA CrashWay == ASSUME Given, TypeInv, WayInv, Crash PROVE WayInv'
<1>1. /\ UNCHANGED <<target, delivered, received>>
      /\ dispatching' = [b \in Broker |-> None] /\ retained' = [m \in Board |-> None]
      /\ session' = [m \in Board |-> "none"]
      /\ missed' = missed \cup UNION {In(inbox[m]) : m \in Board}
  BY DEF Crash, In
<1>2. ASSUME NEW c \in delivered \ received PROVE NotLost(c)'
  <2>1. NotLost(c) /\ target[c] \in Board
    BY Targets DEF WayInv, MissInv, TypeInv, BrokerShapes
  <2>2. c \in missed'
    BY <1>1, <2>1 DEF NotLost
  <2>. QED  BY <1>1, <2>1, <2>2 DEF NotLost
<1>. QED  BY <1>1, <1>2 DEF WayInv, DispatchedRetained, MissInv, LastInv, Settled

LEMMA RequestWay ==
  ASSUME Given, TypeInv, WayInv,
         \/ \E m \in Board : Arrive(m)
         \/ \E d \in CommandId : ServeCommand(d)
         \/ UNCHANGED deliveryVars
  PROVE  WayInv'
<1>1. UNCHANGED <<dispatching, retained, machines, delivered>>
  BY DEF Arrive, ServeCommand, Connect, Publish, Acknowledge, Finish, deliveryVars, brokers
<1>2. \A c \in DOMAIN target : target'[c] = target[c]
  <2>1. CASE \E m \in Board : Arrive(m)
    BY <2>1, ArriveStep DEF TypeInv
  <2>2. CASE (\E d \in CommandId : ServeCommand(d)) \/ UNCHANGED deliveryVars
    BY <2>2, ServeType DEF ServeCommand, Connect, Publish, Acknowledge, Finish, deliveryVars, senders
  <2>. QED  BY <2>1, <2>2
<1>3. DispatchedRetained'
  <2>1. \A b \in Broker : dispatching[b] # None => dispatching[b] \in DOMAIN target
    BY DEF TypeInv, Topics, Through
  <2>. QED  BY <1>1, <1>2, <2>1 DEF WayInv, DispatchedRetained
<1>4. MissInv'
  <2>1. \A c \in delivered : target'[c] = target[c]
    BY <1>2 DEF TypeInv, BrokerShapes
  <2>. QED  BY <1>1, <2>1 DEF WayInv, MissInv, NotLost, machines
<1>5. LastInv'
  BY <1>1 DEF WayInv, LastInv, Settled, NewestRetained, Newest, machines
<1>. QED  BY <1>3, <1>4, <1>5 DEF WayInv

LEMMA NextWay ==
  Given /\ TypeInv /\ OnceInv /\ WayInv /\ [DeliveryNext]_deliveryVars => WayInv'
BY RetainWay, DeliverWay, MachineWay, CrashWay, RequestWay DEF DeliveryNext, Dispatch

LEMMA WayCorrect == ASSUME Given PROVE DeliverySpec => [](TypeInv /\ WayInv)
BY InitTypeInv, InitOnce, InitWay, NextTypeInv, NextOnce, NextWay, PTL DEF DeliverySpec

(* A machine that is connected and has an empty queue has received every   *)
(* command delivered for it, except one it missed, by being away or by     *)
(* losing its connection, that is no longer the one retained.              *)
THEOREM MissedCorrect == ASSUME Given PROVE DeliverySpec => []OnlyOvertakenMissed
<1>1. TypeInv /\ WayInv => OnlyOvertakenMissed
  BY InEmpty DEF WayInv, MissInv, NotLost, OnlyOvertakenMissed
<1>. QED  BY <1>1, WayCorrect, PTL

(* The last command a connected machine with an empty queue has received   *)
(* is the one retained for it, unless that one was delivered between the   *)
(* reading and the queueing of an older snapshot.                          *)
THEOREM LastCorrect == ASSUME Given PROVE DeliverySpec => []LastWins
<1>1. TypeInv /\ WayInv => LastWins
  BY DEF WayInv, LastInv, Settled, NewestRetained, Newest, LastWins
<1>. QED  BY <1>1, WayCorrect, PTL

=============================================================================
