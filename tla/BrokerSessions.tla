--------------------------- MODULE BrokerSessions ---------------------------
(***************************************************************************)
(* The connections and sessions of an MQTT broker of the process: a client *)
(* connects, takes its own older connection over, is served, and is        *)
(* cleaned up (MqttClientSessionsManager, MqttClientConnection).  A        *)
(* connection is the task of HandleClientConnectionAsync; the two tables   *)
(* have a lock each, held for one action; the lock of creation is held     *)
(* across awaits.                                                          *)
(***************************************************************************)
EXTENDS Naturals

CONSTANTS
    Conn,        \* connections ever opened, numbered as they come: a bound of the model
    Client,      \* client ids
    ClientOf,    \* the client id of a connection
    Stopper,     \* who in the broker may end a connection of its own accord
    Clean,       \* the values of CleanSession clients connect with
    None

VARIABLES
    connections, \* _connections: the connection of a client id
    sessions,    \* _sessions: a session is named after the connection it was made for
    creation,    \* _createConnectionSyncRoot: the connection that holds it
    pc,          \* where the task of a connection is
    session,     \* the session of a connection
    other,       \* the connection its task has found and is stopping
    reason,      \* _disconnectReason
    cancelled,   \* its token
    started,     \* _packageReceiverTask is set
    stop,        \* the connection a stopper is stopping, and its step
    order,       \* history: the how-manieth connection one was
    created,     \* history: how many were created
    orphaned     \* history: connections whose entry or session was removed by the
                 \* clean-up of another

tables == <<connections, sessions, creation>>
locals == <<session, other, started>>
history == <<order, created, orphaned>>
vars == <<tables, pc, locals, reason, cancelled, stop, history>>

Stage == {"absent", "waiting", "insert", "takeOver", "disconnect", "awaitOld",
          "created", "running", "ended", "remove", "find", "forget",
          "stopOther", "awaitOther", "close", "done"}

At(c, stage) == pc[c] = stage
Goto(c, stage) == pc' = [pc EXCEPT ![c] = stage]

Ended(c) == At(c, "done")

(* Awaiting (_packageReceiverTask ?? CompletedTask) at once.               *)
NothingToAwait(c) == ~started[c] \/ Ended(c)

-----------------------------------------------------------------------------
(* The clients.  One comes whenever it likes, its last connection being    *)
(* cleaned up, still served, or on a dead link nobody has noticed yet.     *)
Connect(c) ==
    /\ At(c, "absent") /\ \A d \in Conn : d < c => ~At(d, "absent")
    /\ Goto(c, "waiting")
    /\ UNCHANGED <<tables, locals, reason, cancelled, stop, history>>

(* The loop ends by itself: the client leaves, the link is found dead by a *)
(* receive or by a send that times out, or a packet is none of the         *)
(* protocol's.                                                             *)
Leave(c) ==
    /\ At(c, "running")
    /\ Goto(c, "ended")
    /\ UNCHANGED <<tables, locals, reason, cancelled, stop, history>>

-----------------------------------------------------------------------------
(* CreateClientConnectionAsync, under the lock of creation.                *)

Counted(c) ==
    /\ created' = created + 1
    /\ order' = [order EXCEPT ![c] = created']
    /\ UNCHANGED orphaned

(* Mutated: a session that is missing is not created. *)
FindSession(c) ==
    /\ At(c, "waiting") /\ creation = None
    /\ creation' = c
    /\ session' = [session EXCEPT ![c] = sessions[ClientOf[c]]]
    /\ Counted(c)
    /\ Goto(c, "insert")
    /\ UNCHANGED <<connections, sessions, other, started, reason, cancelled, stop>>

(* Mutated: a session made anew is not put in the place of an old one. *)
KeepSession(c) ==
    /\ At(c, "waiting") /\ creation = None
    /\ creation' = c
    /\ \E clean \in Clean :
         session' = [session EXCEPT ![c] =
                       IF sessions[ClientOf[c]] = None \/ clean THEN c
                       ELSE sessions[ClientOf[c]]]
    /\ sessions' = [sessions EXCEPT ![ClientOf[c]] = IF @ = None THEN session'[c] ELSE @]
    /\ Counted(c)
    /\ Goto(c, "insert")
    /\ UNCHANGED <<connections, other, started, reason, cancelled, stop>>

InsertSession(c) ==
    /\ At(c, "waiting") /\ creation = None
    /\ creation' = c
    /\ \E clean \in Clean :
         session' = [session EXCEPT ![c] =
                       IF sessions[ClientOf[c]] = None \/ clean THEN c
                       ELSE sessions[ClientOf[c]]]
    /\ sessions' = [sessions EXCEPT ![ClientOf[c]] = session'[c]]
    /\ Counted(c)
    /\ Goto(c, "insert")
    /\ UNCHANGED <<connections, other, started, reason, cancelled, stop>>

(* Mutated: the existing connection is overwritten and forgotten. *)
InsertConnectionBlindly(c) ==
    /\ At(c, "insert")
    /\ connections' = [connections EXCEPT ![ClientOf[c]] = c]
    /\ creation' = None /\ Goto(c, "created")
    /\ UNCHANGED <<sessions, locals, reason, cancelled, stop, history>>

InsertConnection(c) ==
    /\ At(c, "insert")
    /\ LET existing == connections[ClientOf[c]] IN
       /\ other' = [other EXCEPT ![c] = existing]
       /\ IF existing = None
          THEN creation' = None /\ Goto(c, "created")
          ELSE creation' = creation /\ Goto(c, "takeOver")
    /\ connections' = [connections EXCEPT ![ClientOf[c]] = c]
    /\ UNCHANGED <<sessions, session, started, reason, cancelled, stop, history>>

(* StopAsync(SessionTakenOver): the reason is set, the DISCONNECT sent,    *)
(* the token cancelled, the receiver awaited.                              *)
MarkTakenOver(c) ==
    /\ At(c, "takeOver")
    /\ reason' = [reason EXCEPT ![other[c]] = "takenOver"]
    /\ Goto(c, "disconnect")
    /\ UNCHANGED <<tables, locals, cancelled, stop, history>>

CancelTakenOver(c) ==
    /\ At(c, "disconnect")
    /\ cancelled' = [cancelled EXCEPT ![other[c]] = TRUE]
    /\ IF NothingToAwait(other[c])
       THEN creation' = None /\ Goto(c, "created")
       ELSE creation' = creation /\ Goto(c, "awaitOld")
    /\ UNCHANGED <<connections, sessions, locals, reason, stop, history>>

AwaitTakenOver(c) ==
    /\ At(c, "awaitOld") /\ Ended(other[c])
    /\ creation' = None /\ Goto(c, "created")
    /\ UNCHANGED <<connections, sessions, locals, reason, cancelled, stop, history>>

-----------------------------------------------------------------------------
(* RunInternalAsync: CONNACK is sent with the token; a client that has     *)
(* gone is noticed in the loop.                                            *)
Run(c) ==
    /\ At(c, "created")
    /\ other' = [other EXCEPT ![c] = None]
    /\ Goto(c, IF cancelled[c] THEN "ended" ELSE "running")
    /\ UNCHANGED <<tables, session, started, reason, cancelled, stop, history>>

(* RunAsync sets the task when RunInternalAsync first awaits.              *)
SetTask(c) ==
    /\ pc[c] \in {"running", "ended", "remove", "find", "forget", "stopOther",
                  "awaitOther", "close", "done"}
    /\ ~started[c]
    /\ started' = [started EXCEPT ![c] = TRUE]
    /\ UNCHANGED <<tables, pc, session, other, reason, cancelled, stop, history>>

(* Mutated: only a takeover ends the loop. *)
EndTakenOver(c) ==
    /\ At(c, "running") /\ cancelled[c] /\ reason[c] = "takenOver"
    /\ Goto(c, "ended")
    /\ UNCHANGED <<tables, locals, reason, cancelled, stop, history>>

EndLoop(c) ==
    /\ At(c, "running") /\ cancelled[c]
    /\ Goto(c, "ended")
    /\ UNCHANGED <<tables, locals, reason, cancelled, stop, history>>

(* The finally block, and CleanUpClient's condition.                       *)
ReadReason(c) ==
    /\ At(c, "ended")
    /\ Goto(c, IF reason[c] = "takenOver" THEN "close" ELSE "remove")
    /\ UNCHANGED <<tables, locals, reason, cancelled, stop, history>>

(* Mutated: the entry is left for the deletion of the session to find. *)
KeepConnection(c) ==
    /\ At(c, "remove")
    /\ Goto(c, "find")
    /\ UNCHANGED <<tables, locals, reason, cancelled, stop, history>>

RemoveConnection(c) ==
    /\ At(c, "remove")
    /\ connections' = [connections EXCEPT ![ClientOf[c]] = None]
    /\ orphaned' = orphaned \cup ({connections[ClientOf[c]]} \ {c, None})
    /\ Goto(c, "find")
    /\ UNCHANGED <<sessions, creation, locals, reason, cancelled, stop, order, created>>

(* DeleteSessionAsync.                                                     *)
FindConnection(c) ==
    /\ At(c, "find")
    /\ other' = [other EXCEPT ![c] = connections[ClientOf[c]]]
    /\ Goto(c, "forget")
    /\ UNCHANGED <<tables, session, started, reason, cancelled, stop, history>>

RemoveSession(c) ==
    /\ At(c, "forget")
    /\ sessions' = [sessions EXCEPT ![ClientOf[c]] = None]
    /\ orphaned' = orphaned \cup
         {d \in Conn \ {c} : ClientOf[d] = ClientOf[c] /\ session[d] = sessions[ClientOf[c]]}
    /\ Goto(c, IF other[c] = None THEN "close" ELSE "stopOther")
    /\ UNCHANGED <<connections, creation, locals, reason, cancelled, stop, order, created>>

StopOther(c) ==
    /\ At(c, "stopOther")
    /\ reason' = [reason EXCEPT ![other[c]] = "other"]
    /\ cancelled' = [cancelled EXCEPT ![other[c]] = TRUE]
    /\ Goto(c, IF NothingToAwait(other[c]) THEN "close" ELSE "awaitOther")
    /\ UNCHANGED <<tables, locals, stop, history>>

AwaitOther(c) ==
    /\ At(c, "awaitOther") /\ Ended(other[c])
    /\ Goto(c, "close")
    /\ UNCHANGED <<tables, locals, reason, cancelled, stop, history>>

(* The channel is disconnected, with a timeout; the task ends, its locals  *)
(* are gone.                                                               *)
Close(c) ==
    /\ At(c, "close")
    /\ session' = [session EXCEPT ![c] = None]
    /\ other' = [other EXCEPT ![c] = None]
    /\ Goto(c, "done")
    /\ UNCHANGED <<tables, started, reason, cancelled, stop, history>>

-----------------------------------------------------------------------------
(* The dispatcher ends the connection whose message a handler refused, and *)
(* awaits its end.                                                         *)
Refuse(c) ==
    /\ "dispatcher" \in Stopper /\ stop["dispatcher"] = None
    /\ pc[c] \notin {"absent", "waiting", "insert", "takeOver", "disconnect",
                     "awaitOld", "created"}
    /\ reason' = [reason EXCEPT ![c] = "other"]
    /\ cancelled' = [cancelled EXCEPT ![c] = TRUE]
    /\ stop' = [stop EXCEPT !["dispatcher"] = IF NothingToAwait(c) THEN None ELSE c]
    /\ UNCHANGED <<tables, pc, locals, history>>

GoOn ==
    /\ stop["dispatcher"] # None /\ Ended(stop["dispatcher"])
    /\ stop' = [stop EXCEPT !["dispatcher"] = None]
    /\ UNCHANGED <<tables, pc, locals, reason, cancelled, history>>

(* The monitor finds a silent connection in its copy of the table and      *)
(* stops it in the background, the DISCONNECT first; another may have begun*)
(* to stop it since its status was read. A bound: one such stop at a time. *)
Expire(c) ==
    /\ "monitor" \in Stopper /\ stop["monitor"] = None
    /\ pc[c] \in {"running", "ended"}
    /\ reason' = [reason EXCEPT ![c] = "other"]
    /\ stop' = [stop EXCEPT !["monitor"] = c]
    /\ UNCHANGED <<tables, pc, locals, cancelled, history>>

CancelExpired ==
    /\ stop["monitor"] # None
    /\ cancelled' = [cancelled EXCEPT ![stop["monitor"]] = TRUE]
    /\ stop' = [stop EXCEPT !["monitor"] = None]
    /\ UNCHANGED <<tables, pc, locals, reason, history>>

-----------------------------------------------------------------------------
Init ==
    /\ connections = [k \in Client |-> None]
    /\ sessions = [k \in Client |-> None]
    /\ creation = None
    /\ pc = [c \in Conn |-> "absent"]
    /\ session = [c \in Conn |-> None]
    /\ other = [c \in Conn |-> None]
    /\ reason = [c \in Conn |-> "none"]
    /\ cancelled = [c \in Conn |-> FALSE]
    /\ started = [c \in Conn |-> FALSE]
    /\ stop = [s \in {"dispatcher", "monitor"} |-> None]
    /\ order = [c \in Conn |-> 0]
    /\ created = 0 /\ orphaned = {}

Environment(c) == Connect(c) \/ Leave(c) \/ Refuse(c) \/ Expire(c)

Serve(c) ==
    \/ InsertSession(c)
    \/ InsertConnection(c)
    \/ MarkTakenOver(c)
    \/ CancelTakenOver(c)
    \/ AwaitTakenOver(c)
    \/ Run(c)
    \/ EndLoop(c)
    \/ ReadReason(c)
    \/ RemoveConnection(c)
    \/ FindConnection(c)
    \/ RemoveSession(c)
    \/ StopOther(c)
    \/ AwaitOther(c)
    \/ Close(c)

Next ==
    \/ \E c \in Conn : Environment(c) \/ Serve(c) \/ SetTask(c)
    \/ GoOn
    \/ CancelExpired

Spec == Init /\ [][Next]_vars

(* The tasks are scheduled and every send has a timeout; clients need not  *)
(* do anything.                                                            *)
FairSpec ==
    /\ Spec
    /\ \A c \in Conn : WF_vars(Serve(c)) /\ WF_vars(SetTask(c))
    /\ WF_vars(GoOn) /\ WF_vars(CancelExpired)

-----------------------------------------------------------------------------
(* The state has the types of the tables and of the tasks' locals, and a   *)
(* task has a session from creation to end.                                *)
TypeOK ==
    /\ connections \in [Client -> Conn \cup {None}]
    /\ sessions \in [Client -> Conn \cup {None}]
    /\ creation \in Conn \cup {None}
    /\ pc \in [Conn -> Stage]
    /\ session \in [Conn -> Conn \cup {None}]
    /\ \A c \in Conn : session[c] = None <=> pc[c] \in {"absent", "waiting", "done"}
    /\ other \in [Conn -> Conn \cup {None}]
    /\ reason \in [Conn -> {"none", "takenOver", "other"}]
    /\ cancelled \in [Conn -> BOOLEAN] /\ started \in [Conn -> BOOLEAN]
    /\ stop \in [{"dispatcher", "monitor"} -> Conn \cup {None}]
    /\ order \in [Conn -> Nat] /\ created \in Nat
    /\ orphaned \subseteq Conn

(* A client id is served on one connection at a time: the newer starts     *)
(* when the older has been told to end, whatever the dispatcher and the    *)
(* monitor stop meanwhile.  It takes a clean-up that removes the entry of  *)
(* another connection to have a second one served (lines 396-434, 219-229).*)
OneServed ==
    \A c, d \in Conn \ orphaned :
        /\ At(c, "running") /\ At(d, "running")
        /\ ~cancelled[c] /\ ~cancelled[d]
        /\ ClientOf[c] = ClientOf[d]
        => c = d

(* The connection c is about to be taken over by a newer one.              *)
Challenged(c) ==
    \E d \in Conn \ {c} : /\ ClientOf[d] = ClientOf[c]
                          /\ pc[d] \in {"insert", "takeOver", "disconnect"}

(* What is served is in both tables, so that it gets its client's messages *)
(* and the monitor sees it, until a newer connection takes its place; again*)
(* only the clean-up of another can make it otherwise (lines 323-331,      *)
(* 396-434, 199-229).                                                      *)
ServedListed ==
    \A c \in Conn \ orphaned :
        At(c, "running") /\ ~cancelled[c] =>
            \/ connections[ClientOf[c]] = c /\ sessions[ClientOf[c]] = session[c]
            \/ Challenged(c)

(* Whom a task waits for: the one that holds the lock of creation, or the  *)
(* one whose end it awaits.                                                *)
WaitsFor(c) ==
    {d \in Conn : \/ At(c, "waiting") /\ creation = d
                  \/ pc[c] \in {"awaitOld", "awaitOther"} /\ other[c] = d}

(* Takeovers hold the lock while they await the end of the older           *)
(* connection, and clean-ups await the end of newer ones: who is awaited   *)
(* has been told to end, and no tasks wait for each other in a circle, not *)
(* even through the lock (lines 396-434, 199-237,                          *)
(* MqttClientConnection.cs:77-96).                                         *)
NobodyStuck ==
    /\ \A c \in Conn : pc[c] \in {"awaitOld", "awaitOther"} => cancelled[other[c]]
    /\ \A S \in (SUBSET Conn) \ {{}} : \E c \in S : WaitsFor(c) \cap S = {}

(* "In case it is a takeover _connections already contains the new         *)
(* connection" (line 224), which the end of the old one leaves alone: an   *)
(* entry is removed by the clean-up of its own connection only.            *)
RemovesOwnEntry ==
    \A k \in Client :
        connections[k] # None /\ connections'[k] = None => At(connections[k], "remove")

OnlyOwnEntryRemoved == [][RemovesOwnEntry]_vars

(* Whoever has come is served or done in the end, however the takeovers,   *)
(* the clean-ups and the broker's own stops wait for each other and for    *)
(* the lock of creation (lines 396-434, 199-237).                          *)
EveryoneGetsOn ==
    \A c \in Conn :
        ~At(c, "absent") ~> At(c, "done") \/ (At(c, "running") /\ ~cancelled[c])
=============================================================================
