# 3kran: TLA+ models, checks and proofs

The repository is the back end of a network of water vending machines: an
ASP.NET Core service (`src/src/ThirdVendingBackEnd`) with a PostgreSQL database,
two MQTT brokers in the process (a compiled-in, slightly patched MQTTnet) and a web
UI. The machines report what they sell; the back end keeps the sales, the
encashments, the last status and the alerts of each machine, sends mails, and
passes settings back. There are no automated tests; the documentation is the
comments of the code. This directory models the parts with state and
interleavings, checks them with TLC and proves the main results with TLAPS.

## 1. The system

| Component | State | Operations | What is hard about it |
|---|---|---|---|
| HTTP board reports (`DataController.Send`) | DevStatus, DevSale, DevEncash, DevErrorStatus and DevAlert rows of a device | one GET `/send` with cumulative counters | up to nine transactions in a row with no enclosing one; awaits of mails in the middle; reports overlap, repeat, are lost; encashment is only inferred from zeros |
| MQTT messages (`DeviceMqtt.MessageHandler`, `MqttBroker.LogMessage`) | the same rows, DevInfo, DevSetting (dead letters among them) | one handler per message, by theme | acknowledged before it is handled; redelivered; encrypted or malformed payloads; swallowed database failures |
| MQTT broker (`MQTTnet/Server`) | connections, sessions, queue, retained messages | connect, take over, publish, subscribe, dispatch, stop | one dispatch loop for all; locks held over awaits; takeover of a client id |
| Settings commands (`DevicesController.SetSettings`, `DeviceMqtt.SubscriptionHandler`) | retained messages on both brokers | connect as `device_settings`, publish twice | one client id for all commands; one retained topic for all values |
| Devices (`DevicesController`, `DeviceDbProvider`) | Device rows, cascades to all their rows | add, edit, remove, set owner | full-row updates of stale rows; removal under running handlers |
| Users and invitations (`AccountController`, `UsersController`) | users, their owners, invitations | invite, register, activate, edit, delete | check-then-act over several transactions; recursive owner query |
| Application settings | a table meant to have one row, and a static copy | read, set, edit all in one form (`appSettings.js`) | two copies, swallowed failures, several administrators, a form built on a failed read |
| Files for download | a table and a directory | upload, describe, publish, delete, list (`fileLoad.js`) | two stores, crash between them; uploads of one name; a grid that older lists may overwrite |
| Report timer (`DevScheduler`) | a timer and its next tick | start, elapsed | hour arithmetic, late timers, restarts |
| Dashboard pages (`Dashboard/Index.cshtml`, `popups.js`) | the machine in focus, the list, one settings form, one report grid | refresh every ten seconds, open a dialogue, type, apply, export | the answers of earlier requests fill the dialogue of a later one; globals shared by all dialogues |
| Database maintenance | everything | backup, restore, delete old rows | three deletes with no transaction |

How they interact: both kinds of board write the rows of their device through
the same static provider classes (`CommonVending/DbProvider`). A provider call
opens its own context, commits, and swallows what it throws (`null`, `false` or
nothing is returned), so a handler is a sequence of independent transactions
that goes on after a failure. A broker's messages are handled one at a time
(the dispatch loop awaits the interceptor, which awaits the handler, which awaits
the mails); HTTP requests run concurrently with each other and with the brokers.
Nothing locks a device.

What makes the modelled components correct:

* the money: the sales are the growth of the counter, each collection is one
  encashment of what was counted, a refused report changes nothing, and nothing is
  invented whatever is lost, repeated or killed half-way;
* the alerts: each family (link, tank, sales) alternates in time, so that no loss is recorded over an open one,
  and agrees with the status;
* the queue: every readable sale or encashment a machine has had acknowledged
  becomes a row or a dead letter, newest values win, and no payload stops the loop;
* the sessions: a client id is served on one connection, which both tables have, and whoever waits for
  another's end gets on;
* the accounts: whatever overlaps, an owner exists, a deactivation is not
  undone by a stale edit, and an invitation that could not be mailed does not block the next;
* the machines: a row is what was last done to it, an answer is what happened, and what is removed stays removed,
  also under a running edit or a late report;
* the commands: what an administrator types goes to the machine whose settings are shown, is what the form shows
  afterwards, is sent when nothing else is going on, and the machine ends with the last one;
* the files: a link leads to the file that was uploaded under it, no file stays without its link, the page shows the table;
* the settings of the application: the copy that gates the boards is what is stored, and a form changes what was edited in it;
* the report: one a night, in every night.

## 2. Modules

| Module | Models | Source |
|---|---|---|
| `DeviceStore` | the rows of one device and the provider calls on them, as operators | `CommonVending/DbProvider/*`, `DeviceDbModel` |
| `HttpBoard` | one machine with an HTTP board and the handlers of its reports | `DataController.cs` 43-290 |
| `Ledger` | the abstract promise of `Send`: each report is booked at once | `DataController.cs` 127-234 |
| `HttpBoardLedger` | the refinement mapping from `HttpBoard` to `Ledger` | |
| `HttpBoardProofs` | theorems about `HttpBoard` and about the refinement of `HttpBoardLedger` | |
| `MqttBoard` | one machine with an MQTT board, its connection, the broker's queue and the handler | `DeviceMqtt.cs` 98-333, `MqttBroker.cs` 137-166, `MqttClientConnection.cs` 324-354, `MqttClientSessionsManager.cs` 176-361 |
| `BrokerSessions` | the connections and sessions of one broker: takeover, clean-up, the broker's own stops | `MqttClientSessionsManager.cs` 56-103, 199-247, 299-308, 391-437, `MqttClientConnection.cs` 88-278, `MqttServerKeepAliveMonitor.cs` 60-112 |
| `Accounts` | the tables of users and invitations, and the requests that change them | `AccountController.cs`, `UsersController.cs`, `InviteDbProvider.cs`, `UserDbProvider.cs` 34-133, `DeviceDBContext.cs` 86-99 |
| `Devices` | the table of machines, the requests that change it, their reports | `DevicesController.cs` 81-161, 306-341, `DeviceDbProvider.cs` 177-274, `DeviceDBContext.cs` 72-155 |
| `SettingsDelivery` | a settings command from its request to the machine: two brokers, retained messages, sessions | `DevicesController.cs` 190-241, `DeviceMqtt.cs` 24-96, `MqttRetainedMessagesManager.cs` 60-147, `MqttClientConnection.cs` 285-314 |
| `DeviceList` | the list of machines and the machine in focus | `Dashboard/Index.cshtml` 338-439 |
| `SettingsForm` | the form of a machine's settings (extends `DeviceList`) | `popups.js` 1084-1381 |
| `ReportDialogue` | the dialogue of sales, encashments and alerts (extends `DeviceList`) | `popups.js` 156-874 |
| `AppSettings` | the table of application settings, its copy in memory, the administrators' forms | `AppSettingsController.cs`, `AppSettingsDbProvider.cs`, `ApplicationSettings.cs`, `appSettings.js` |
| `DownloadFiles` | the table of links, the directory, the requests on both and the page | `FilesController.cs`, `FilesDbProvider.cs`, `fileLoad.js` |
| `ReportTimer` | the timer of the daily report, in minutes | `DevScheduler.cs` |
| `Requests` | requests in flight and their failures, and tables that are functions (extended by `Devices` and `DownloadFiles`) | |
| `MqttBoardProofs`, `AccountsProofs`, `DevicesProofs`, `DownloadFilesProofs`, `SettingsDeliveryProofs` | theorems about the module of that name | |
| `PagesProofs` | theorems about `SettingsForm`, `ReportDialogue` and `AppSettings` | |
| `ProgressProofs` | theorems about `ReportTimer` and `BrokerSessions` | |
| `MCHttpBoard`, `MCMqttBoard`, `MCBrokerSessions`, `MCAccounts` | instances for TLC | |
| `MCProgress`, `MCOffice`, `MCPages` | several modules each, beside each other for TLC | |

Every query of the handlers filters on the device and no row of one device
refers to another, so one machine stands for each of them.

### HttpBoard

`board` and `lifetime` are the machine (money and water since the last
collection, and ever); `req` holds, for each request in flight, the place of its handler
(`pc`), its parameters (`tm`, `ts`, `te`), its `date` and what it has read (`id`
and `last` for `lastState`, `resumed` for `lastSaleAlert`); the other variables
are tables. Each action is one transaction or one awaited mail, in the order of
the code; the conditions between two transactions are the operators `AfterStore`,
`AfterLink`, `AfterTank`, which name the next `pc`. `Drop` is a report that has no
effect (lost, refused at line 47, unknown IMEI). A board repeats reports as it
likes, since `Report` is always enabled for an idle request. `Collect` resets the counters
without telling anyone, as the comment at line 38-39 says.

A tick of `clock` is an abstract unit; `LinkGap`, `LinkAlertDelay` and `SaleGap` are
the code's 32 minutes, 10 minutes and 2 hours. Dates are the server's, to the
microsecond, so rows written within one tick are still ordered (`LastAlert`).

### Ledger and the mapping

`Ledger` has four variables: whether a first report is known, the counters last
accepted, the sum of sales, the sum of encashments. `HttpBoardLedger` maps
the chain of transactions to one step of it: while a handler has overwritten
the status row and not yet booked (`Owing`), the ledger still shows the row that
handler has read; when the sale, the encashment or the restored row is stored, the
ledger steps.

### MqttBoard

`sent` is everything the board has published, in order, each with theme,
date, money, tank and a `body` (readable; well-formed but not what the theme needs;
not even decryptable). `acked` and `flight` are what the board knows to have arrived
and what has arrived on this connection beyond that; `Cut` loses the
acknowledgements, and `Receive` then queues the same messages again (QoS 1; QoS 2
is answered the same way by the server, which keeps no packet identifiers). With
`repeats` off the board uses QoS 0. `queue` is
the `BlockingCollection` of `MqttClientSessionsManager`, `h` the one running handler.
The handler's actions follow `MessageHandler`; the `catch` block is
`InsertDeadLetter`, reached only by sales and encashments. Dates are the board's
and have whole seconds, so rows of one date tie and a query may return any
of them (`NewestAlerts`, `NewestStatus`). `rows[n]` counts the DevSale or DevEncash
rows message `n` has made. What may happen (themes, bodies, gaps in time, repetitions, crashes, failures, how much of each) is one
of the `Regimes`, chosen in the initial state and kept: a run has a short instance with everything and longer
ones with less.

### BrokerSessions

A connection is the task of `HandleClientConnectionAsync`, numbered in the order
in which the clients connect; `pc` says where it is. `connections` and `sessions`
are the two dictionaries, each changed under its own lock and so in one action
each; `creation` is the lock that `CreateClientConnectionAsync` holds while it awaits the
end of the connection it has replaced. `other` is the connection a task has found and
is stopping: the one taken over, or the one that `DeleteSessionAsync` finds. `reason`, `cancelled` and
`started` are `_disconnectReason`, the token and `_packageReceiverTask`, each written where
the code writes it. The dispatcher and the keep-alive monitor are the `Stopper`s. `WaitsFor` is whom a task waits for, be it for the lock or for an end.
Clients come whenever they like (`Connect`), also beside a connection of theirs that is still served; `Leave` is every end of a loop that nobody in the broker has asked for: the client goes, a receive or a send finds the link dead, a packet is malformed.
`order`, `created` and `orphaned` are history and guard nothing: the how-manieth each connection was that went through the lock, and the connections whose entry or session was removed by the clean-up of another. What
travels over the connections is in `MqttBoard`.

### Accounts

`users` and `invites` are the two tables, functions from ids to rows with the columns that the
requests ask about; `req[r]` is a request in flight: its place `pc`, the row it is about to write
(`row`) and the account it has read (`target`). An action is one transaction; the
arrival of a request is merged with its first one, and a request that is refused there
leaves no trace. What is outside the repository is UserManager of ASP.NET Identity: it validates login and
address before it writes (`Validate`), the table has a unique index on the login only
(`IndexAllows`), and an update or a deletion of a row that has changed since it was read is refused by the concurrency
stamp (`stale`). `Stored` is the foreign key of the owners, `DeleteUser` has its other side: it restricts for
accounts and cascades to invitations. `Put` copies the owner into accounts with the role `owner` only; `PutProfile` stands for the
four requests that touch other columns only. `mailed` in an invitation
is history. Ids are new Guids: `NewUser` and `NewInvite` give one again only when nothing refers to it, so
that `User` bounds the accounts there are at a time and not the registrations ever made. `Kinds`, `Forms`, `Offers`, `Owners` and `Renaming` say which requests an
instance has; a request's kind is what it does to its row, so that edits of one's own account and of another's are both an `edit`. A query is taken to be answered: a failure of UserManager's ends the request as a refusal does, while a failure that
`InviteDbProvider` swallows is left out.

### The pages: DeviceList, SettingsForm, ReportDialogue

A handler of a page runs to its end, so it is an action; answers come in any order and may be failures. `device` is the
global that every dialogue reads when it sends; `refresh` is a list on its way with the key it will put back. `SettingsForm`
has five editors, one of each kind the code has (numbers, choices, a text, a switch): `Sends` is their rule for telling a
change from the first filling-in, by the previous value (`popups.js` 1107-1319). `isInit` belongs to a call of `devSettings`
while the form and its handlers are the last call's; `Fill` is the answer, whoever called for it, and sends what the handlers take for changes.
`ReportDialogue` has one grid, title and range for three kinds of reports; `gridAlerts` is the question whose answer the grid shows,
`export` is the export under way: its title is read at once (`openDownloadFileDialog`), its rows by the exporter (`ExportGrid`), and the machine in focus names the file when the workbook is written (`SaveFile`),
with anything in between; `saved` is the file saved in the step. `known` is what the machine the form shows has reported or been told: a command counts only when it goes to that machine.
`shown`, `mixed`, `known`, `blanked`, `crossed`, `failed`, `outdated` and the field `steady` are history and guard nothing.

### SettingsDelivery

A command is numbered in the order of the requests; `stage` and `port` say where its request is, first with the broker with TLS,
then with the other. `owner` is what `BrokerSessions` shows in detail: the command whose connection a broker knows as `device_settings`; a
connection taken over can no longer publish. `Retain` and `Deliver` are the two halves of the dispatcher's work on a message,
`ReadRetained` and `EnqueueRetained` those of a subscription. The brokers have no storage, so a `Crash` empties them.
`losses` counts the connections of machines that are cut, and the crashes; `overlapped`, `delivered`, `missed`, `received`, `last` and `raced` are history and guard nothing.

### Devices

`devices` maps an id to its row, `rows` is the machines for which reports have stored rows, `req` is a request in flight with
what it has read; an id is given once. `Edit` and `Remove` each work on the row they have read: EF Core's update or delete of a row that
is gone throws, which is swallowed and answered. `DeleteUser` is the foreign key of the owner (`DeviceDBContext.cs` 72-77).

### DownloadFiles

`files` is the table, `disk` the directory: a name leads to the uploads that have written into its file, since two
uploads of one name share it and an unlinked file is still written to by whoever has it open (`linked`). `lists` are the page's requests for the
list, in order, each read at some time and shown at some other.

### AppSettings

`rows` is the table by id and `memory` the copy, `form[a]` what an administrator's page shows with the id of its row, `get[a]` and `post[a]` the requests. The provider sets the
memory after it has written the row, the controller sets it again, and a read sets it too. A read that fails is answered without content: the page then builds a form without data and without an id (`FailGet`, `Blank`),
and storing that one adds a row (`Write`). A read takes any row, as the query has no order. `sure`, `old`, `refilled`, `edits`,
`contested`, `unsure` are history. Its definitions are named apart (`AppInit`, `AppNext`, `FillAppForm`), as are those of
`ReportDialogue`, `SettingsDelivery` and `ReportTimer` (`ReportNext`, `DeliveryNext`, `TimerNext`), since one module extends several of them.

### ReportTimer

`now` is the minute of the day, `wait` the minutes to the next tick. `InitialIntervals` is the code's arithmetic: 60 less the *hour*, in minutes, where
the minute was meant. So the first interval is as long as the hour allows, and the timer settles at some minute of the hour, not at its
start; what matters is that it fires once in every hour. A handler that runs in another hour than it was due in, be it that hour of the next day, is an upset. An hour is cut at midnight and noon starts a new night in the history.

### The composites

`MCProgress`, `MCOffice` and `MCPages` each put several modules beside each other that share no state. `part` names the one a behaviour is of; the
variables of the others are constant in it. `MCOffice` extends `Devices` and `DownloadFiles`, which both extend `Requests`; `MCPages` extends `SettingsForm`,
`ReportDialogue`, `AppSettings` and `SettingsDelivery`; `MCProgress` extends `ReportTimer` and `BrokerSessions`, and takes `SettingsDelivery` as an instance. The properties of those runs are the very definitions that the theorems are about, and hold of
the values that unused variables have. `MCProgress` has the broker in two parts, with one set of variables: "lock" is the module it extends, with both stoppers, sessions kept or made anew, and the connections in `Few`; "takeover" is an instance with one
connection more, which leaves only when it is told to, the dispatcher, and sessions made anew. They are one run each because they ask one question of the system each: what must go on, what
the office's tables hold, what the pages show and send. Each action is its module's own, restricted to its part.

## 3. Runs

| Run | Question | Bounds |
|---|---|---|
| `HttpLedger` | Do the books balance, is every counter kept, do the tank alerts tell what the status tells, and does `Send` implement `Ledger`, when a board waits for its answers? | 3 payments, 2 flips of the tank sensor, one tick |
| `HttpCrash` | What survives a process that dies between any two transactions: is nothing invented, do link and sales alerts alternate over time? | 2 payments, 5 dates, outages of 2, idle times of 3, any number of crashes |
| `HttpOverlapEncash` | Is a collection booked once when reports overlap? **No.** | two requests, 1 payment |
| `HttpIdleSilent` | Is a machine that stops selling alerted? **No.** | one request, 6 dates |
| `MqttSafety` | Is every readable sale and encashment kept, does the newest value win, do alerts alternate over time and crashes, and is an idle machine alerted? | three regimes: 2 messages of any theme and body, 3 of four themes, each with 1 lost connection; 4 sales and statuses with gaps of 1 and 4 and 1 crash |
| `MqttQueue` | Does the queue drain whatever the payloads and the database do? | 2 messages, failures, one crash or lost connection |
| `Progress` | Is each client id served on one connection, which both tables have, do no takeovers and clean-ups wait for each other, does everyone who waits get on, is every settings command answered, and is there one report a night, for ever? | 2 connections of one client id with both stoppers, or 3 with the dispatcher, of which the third leaves when it is told to; 2 commands and 1 loss; every minute of a day, 1 upset |
| `Office` | Are files what was uploaded, does none stay without a link, does the page show the table; is a machine's row what was last done to it, do answers hold, does what is removed stay removed? | 2 requests at a time, 2 names, 2 uploads, 2 lists, 1 fault; 2 machines, 2 owners, 1 fault |
| `Pages` | Does what is typed go where it is shown, does the form show what was sent, do reports show what was asked; do commands arrive and the last one win; is the memory a row, and does a form change what was edited? | 3 machines, 2 openings; 2 machines, 2 periods, 2 answers on their way, or 1 beside an export; 2 machines, 2 commands, 1 loss; 2 administrators, 4 requests or 3 and a fault |
| `BrokerRace` | Does a clean-up leave a newer connection alone? **No.** | 3 connections of one client id |
| `AccountsRaces` | When requests of every kind overlap: is every owner there, was every invitation mailed, does no edit undo an activation? | 2 requests, 3 accounts and 1 invitation at a time, any number of requests |
| `AccountsEmail` | Are addresses unique when registrations overlap? **No.** | 2 registrations |

Why the bounds are enough. A ledger error needs one accepted report, one that
differs from it and one after it; three payments give a first report, a sale, a
refused report and a sale after that, with collections anywhere between. An outage
is opened, closed and opened again within five dates, and an idle machine is alerted and sells again. The MQTT alerts need four messages: a sale, a first status, a late status
that raises, a sale that closes. The queue needs a bad message in
front of a good one. A takeover involves the old connection and the new one; the third
of `Progress` comes while the second is being set up or cleaned up, after the dispatcher has stopped the first or the second: that is what it takes to serve two. Every race of `Accounts` is between two requests about at most
two accounts besides the administrator who asks; two people come again and again, the second under the first as dealer,
invitations and edits name the account `u1`, and nothing in the module is counted, so the runs have no bound on their length.
A stale form needs two openings, and a stale list one that was asked for before; three machines are one with a price of 0, one with
everything set and one that has reported nothing. A command is overtaken by one other, on one broker or the other, and a machine that was
away comes back. Two uploads are two of one name, or one that fails beside one that does not. Overwriting an
administrator's change takes two reads and two writes: four requests. The timer is checked from every minute of the day; handlers
run on time, 7 minutes late (into the next hour or not) and 70 minutes late (the interval starts over), the process lives 0, 13, 35 or 58 minutes more,
and one upset shows that the next night is in order again.
The symmetry of requests, names, owners, periods and administrators is sound because no property of those runs (`AccountsRaces`, `AccountsEmail`, `Office`, `Pages`) is about liveness. `CHECK_DEADLOCK FALSE` stands in every configuration because a
machine at its bounds may really stop: the bounds (`MaxPaid`, `MaxFlips`, `MaxTime`, `sends`,
`cuts`, `MaxFaults`, `MaxUploads` and so on) are only in guards, and the tables are bounded by them. `EveryoneGetsOn` is asked in both parts of the broker.

Fairness. `MqttQueue`
assumes weak fairness of the dispatcher as a whole: its loop catches everything
(`MqttClientSessionsManager.cs` 254-268, 355-360) and only the end of the process
ends it. `Progress` assumes, of a broker with or without stoppers, that each task goes on (every send has a timeout,
`DefaultCommunicationTimeout`; every other wait is for another task), of the settings commands that requests, the dispatchers and the tasks of a machine's
connection go on, and of the report that the timer's handler runs and its mails end. Nothing assumes that a board sends, that a machine
comes back, that a command is given, or that the process stays up (`MqttQueue` and the commands of `Progress` crash).

What the four violations show.

* `HttpOverlapEncash` (line 39 of `DataController.cs`: zeros after a nonzero sum are *an event*
  of encashment). Two reports of zeros in flight, the second a repetition, both
  read the old sum before either writes; both insert an encashment of it.
* `HttpIdleSilent` (the comments `//not sales 2h` and `//eror sales`, lines 274 and 281).
  `CheckSaleError` wants an earlier sales alert that is not code 0; only code 0 is ever first,
  so a machine that has always had an HTTP board is never alerted. The MQTT handler of
  the same rule accepts "no alert yet" (`DeviceMqtt.cs` 190), and `MqttSafety` checks that it works.
* `BrokerRace` (the comment in `MqttClientSessionsManager.cs` 224: *in case it is a takeover
  `_connections` already contains the new connection*). An old connection that ends by itself
  reads its reason, then removes the entry of its client id. A new connection inserted between
  the two loses its entry, and its session with it: it is read from, but gets
  no messages and is not watched by the monitor.
* `AccountsEmail` (`options.User.RequireUniqueEmail = true`, `Startup.cs` 85, and the refusal in `AccountController.cs` 291). The
  address is checked, twice, before the row is inserted, and no index backs it: two registrations with one address and
  different logins are both accepted, and then neither can log in, since `Authenticate` (line 63) expects at most one.

## 4. Proofs

All theorems are about every value of the constants that satisfies the named
`ASSUME`s of the modules, and the hypotheses below: any set of requests, any amount of money, time and flips, any number of machines, administrators and failures.

| Theorem | Statement | Under |
|---|---|---|
| `HttpBoardProofs!TypeCorrect` | `Spec => []TypeOK` | nothing more |
| `HttpBoardProofs!NeverOverstatedCorrect` | `Spec => []NeverOverstated` | `Serial`, `~DbMayFail` |
| `HttpBoardProofs!EncashedCorrect` | `Spec => []EncashedOnce` | `Serial`, `~DbMayFail` |
| `HttpBoardProofs!LedgerCorrect` | `Spec => []LedgerBalanced` | `Serial`, `~DbMayFail`, `~MayCrash` |
| `HttpBoardProofs!CountersCorrect` | `Spec => CountersKept` | `Serial`, `~DbMayFail`, `~MayCrash` |
| `HttpBoardProofs!AlertsAlternateCorrect` | `Spec => []AlertsAlternate` | `Serial`, `~DbMayFail` |
| `HttpBoardProofs!TankAlertsCorrect` | `Spec => []TankAlertsTellStatus` | `Serial`, `~DbMayFail`, `~MayCrash` |
| `HttpBoardProofs!LedgerRefined` | `Spec => ImplementsLedger` | `Serial`, `~DbMayFail`, `~MayCrash` |
| `MqttBoardProofs!TypeCorrect` | `Spec => []TypeOK` | nothing more |
| `MqttBoardProofs!SalesCorrect` | `Spec => []SalesKept` | nothing more |
| `MqttBoardProofs!StoreCorrect` | `Spec => []StoreFresh` | nothing more |
| `MqttBoardProofs!AlertsCorrect` | `Spec => []AlertsAlternate` | `Spaced` |
| `MqttBoardProofs!IdleMachineCorrect` | `Spec => IdleMachineAlerted` | `Spaced` |
| `AccountsProofs!TypeCorrect` | `Spec => []TypeOK` | nothing more |
| `AccountsProofs!OwnersCorrect` | `Spec => []OwnersExist` | nothing more |
| `AccountsProofs!MailedCorrect` | `Spec => []InvitesMailed` | nothing more |
| `AccountsProofs!ActivationCorrect` | `Spec => ActivationKept` | nothing more |
| `AccountsProofs!IdentityCorrect` | `Spec => IdentityKept`: an account keeps its login and role | nothing more |
| `AccountsProofs!AdministratorsCorrect` | `Spec => AdministratorsStay`: administrators are neither removed nor switched off | nothing more |
| `AccountsProofs!LoginsCorrect` | `Spec => []LoginsUnique` | nothing more |
| `DevicesProofs!TypeCorrect` | `Spec => []TypeOK` | `Bounds` |
| `DevicesProofs!RemovedCorrect` | `Spec => RemovedStays` | `Bounds` |
| `DevicesProofs!GivenCorrect` | `Spec => []RowAsGiven` | `Bounds` |
| `DevicesProofs!AnswersCorrect` | `Spec => []AnswersHold` | `Bounds` |
| `DownloadFilesProofs!TypeCorrect` | `FilesSpec => []FilesTypes` | `Bounds` |
| `DownloadFilesProofs!HeldCorrect` | `FilesSpec => []NoFileLeftBehind` | `Bounds` |
| `DownloadFilesProofs!UploadedCorrect` | `FilesSpec => []FilesAsUploaded` | `Bounds` |
| `DownloadFilesProofs!GridCorrect` | `FilesSpec => []GridIsTable` | `Bounds` |
| `PagesProofs!FormTypeCorrect` | `Spec => []TypeOK` | `PagesProofs!Given` |
| `PagesProofs!TypedCorrect` | `Spec => []TypedForShown` | `PagesProofs!Given` |
| `PagesProofs!ShownCorrect` | `Spec => []ShownIsCommanded` | `PagesProofs!Given` |
| `PagesProofs!ReportTypeCorrect` | `ReportSpec => []ReportTypes` | `NullApart` |
| `PagesProofs!AskedCorrect` | `ReportSpec => []ShowsWhatIsAsked` | `NullApart` |
| `PagesProofs!AppTypeCorrect` | `AppSpec => []AppTypes` | `RequestBounds` |
| `PagesProofs!MemoryCorrect` | `AppSpec => []MemoryIsRow` | nothing more |
| `PagesProofs!StoresCorrect` | `AppSpec => OnlyEditedStored` | nothing more |
| `SettingsDeliveryProofs!DeliveryTypeCorrect` | `DeliverySpec => []DeliveryTypes` | `SettingsDeliveryProofs!Given` |
| `SettingsDeliveryProofs!AloneCorrect` | `DeliverySpec => []AloneIsSent` | `SettingsDeliveryProofs!Given` |
| `SettingsDeliveryProofs!MissedCorrect` | `DeliverySpec => []OnlyOvertakenMissed` | `SettingsDeliveryProofs!Given` |
| `SettingsDeliveryProofs!LastCorrect` | `DeliverySpec => []LastWins` | `SettingsDeliveryProofs!Given` |
| `ProgressProofs!TimerTypeCorrect` | `TimerSpec => []TimerTypes` | `TimesGiven` |
| `ProgressProofs!ReportCorrect` | `TimerSpec => []OneReportANight` | `TimesGiven` |
| `ProgressProofs!BrokerTypeCorrect` | `Spec => []TypeOK` | `ServersGiven` |
| `ProgressProofs!NobodyStuckCorrect` | `Spec => []NobodyStuck` | `ServersGiven` |
| `ProgressProofs!ServedCorrect` | `Spec => []OneServed` | `ServersGiven` |
| `ProgressProofs!ListedCorrect` | `Spec => []ServedListed` | `ServersGiven` |

These hypotheses of the theorems are not assumptions of the modules. `Bounds` and `RequestBounds` say that the bounds of uploads, edits, requests or failures are natural numbers. `NullApart` says that `Null` is no
machine and no list on its way, and the `Given` of `PagesProofs` adds that it is no value, that the bound is a natural number, and that a machine has reported a value for each
editor or nothing at all. The `Given` of `SettingsDeliveryProofs` says that the bounds are natural numbers, that `None` is no command, that each board speaks to a broker and that what refuses is a set of
brokers. `TimesGiven` says that lateness and lifetimes are natural numbers, `ServersGiven` that `None` is no connection, that each connection has a client id and that `Clean` has Booleans.
Nothing is assumed of the clients, the links or the stoppers: what `BrokerRace` refutes is instead named in `OneServed` and `ServedListed` themselves, which leave out the connections whose entry or session the clean-up of another has removed.

`Serial` says that a board waits for its answer: at most one report is in flight. `HttpOverlapEncash` shows
that an encashment is booked twice without it, and `EncashedCorrect` that it is not with it. `DbMayFail` lets a provider swallow a failure, `MayCrash` lets the
process die between transactions; a sale is then lost after the new counters are
kept, so the balance needs both to be off, and `NeverOverstated` (nothing is invented) is what survives a crash.

The argument. `TypeOK` is not inductive alone, since the sale that is inserted is a difference of two
counters: `SalePending` says that a handler on its way to that insertion has
read a smaller sum. `RowInv` adds that the table has at most the row the handler has
read or written (`Knows`), which is what makes the status query deterministic. `LedgerInv` adds `Balanced`: what is booked, plus what the one handler in
flight still owes according to its place, is what the row shows; between reports
nothing is owed and `LedgerBalanced` follows. `SoundInv` is the same with an inequality,
which a crash, dropping the debt, preserves. The refinement maps each step by the same debts:
`IsOwing` names the handler whose read row the ledger still shows, and `AcceptedOne` says that there is at most one,
so each step of the code is a step of `Ledger` at the booking transaction and a stutter elsewhere.
Each proof has one step per action.

The alerts of `HttpBoard`. The dates of a table of alerts never fall, so its newest row is the last one inserted; `DateInv` says that no alert of the link
is newer than the status row, which is what makes the next one newer still. Whether two alerts of a family can follow one another is decided
transactions earlier, when the row is overwritten or the last alert read: `LinkInv`, `SaleInv` and `TankInv` say that a handler on its way
to an insertion still sees the other kind as the last one, and that between reports the last alert of a family is what the row says.
This survives a crash for the link and the sales, whose decisions are read again, and not for the tank (`TankAlertsCorrect` has `~MayCrash`): the flag of the tank is in the
row that is stored first.

`MqttBoard`. `CopiesInv` counts the copies of a message: those in the queue, in the handler, in the rows and among the dead letters are at most one for each
time it may have arrived. `KeptInv` says that one of them is left of every sale and encashment that has arrived, unless it is among those that died with the process. For `StoreFresh`,
`OneRowInv` (writes that do not fail leave one row of each table), `ChainInv` (the queue, the handler and what has arrived follow one another without a gap, or older messages
come again) and `FreshInv` (the rows are those of the newest messages handled). For the alerts, `OrderInv`, `DateInv`, `LinkInv`, `SaleInv` are as for `HttpBoard`, over a queue of messages
instead of one request, and `RaisedInv` says that a status past its sale alert has raised it. `Spaced` says that two messages have different dates and that a lost
link is dated after the last report (`LinkAlertDelay` > 0): boards date in whole seconds, and which of two alerts of one date is the newest is up to the database.

`Accounts`. `RequestInv` says what a request is at each of its places: the row it carries has the type of a row at that place (`RowAt`), and as long as nobody has written its
target it still knows it (`KnowsTarget`): the login, the role and the activation it will write are those that are there. A step is then one of three changes of the accounts (`Inserts`, `Updates`,
`Deletes`), and each property follows from what those do. `MailInv` follows an invitation from its insertion to its mail or to its removal.

`Devices`. `Shapes` types the tables and says that an id that was given is at most `added`, so that it is never given again:
with the updates that need their row, that is why what is removed stays removed. `EditAsGiven` adds that an edit in flight
has read the owner its machine was last given, unless the machine is contested. `AnswerInv` adds `AssignHolds`: a request
that has set an owner has done so, has met a failure, or its machine is gone.

`DownloadFiles`. `Shapes` types the tables. `OwnIds` and `OwnPaths` say that an upload has its id to itself until it is linked, and that whoever holds a link in its hands
has its path. `HeldInv`: a file is being uploaded, or is linked and nobody is about to remove the link. An upload that no other has overlapped under its name is the only
user of it (`Alone`), so that `ContentInv` can follow its content through copy, link, unlink and removal, and `ServedInv` to whoever is sent it.
`GridInv` says that, as long as no list was asked for while another was on its way, once every change is answered the list on its way will be the table or, if there is none, the grid is.

`AppSettings`. `SureIsRow` says that a request about to set the memory that has met no other carries a row, and that no other is about to;
`OnItsWay`, that the memory is a row, or somebody is about to set it, when the last setting was sure. `IdsStored` says that a request or a form has the id of a row, or none. For the form,
`ReadIsRow`, `FormIsRow` and `SentIsRow` follow the settings from the row to the page and back: what was read, the form but for its edits, and the
request but for the edits it was sent with agree with the row of that id, or with `Blank` if there is none, as long as no other has stored in that row; `SentIsForm` ties a request to the form it came from, and
`StoredRow` says that storing changes one row or adds one.

`SettingsForm`. `FocusHolds` says that a list that was asked for under an open dialogue puts the focus back where it is. `Calls`
and `Waiting` say that each call of `devSettings` waits for one answer, and that a form nobody has filled yet is empty, hidden and has its flag set:
so its filling-in sends nothing (`SendsNoFirst`). `Filled` says that afterwards the flag is cleared, the focus is the machine shown, and an editor that is not
blank shows what that machine knows; from there every change is sent (`SendsChange`). Without `Waiting`, what is sent when the answer comes would be anything.

`ReportDialogue`. `Pending` says what is on its way: as long as no two questions have crossed there is at most one, it is the one that title, focus and picker ask, and once it
is answered the grid shows its answer. The answer is found again although other dialogues have used the same grid, since whatever opens one asks anew. `ExportInv` says that an export beside which the dialogue has stood still has the title on the screen and, once its rows are read, the rows of the grid; `SavedNow` says the same of the file it has just saved and of the machine in its name.

`SettingsDelivery`. `Owners` and `Topics` are the strengthening of the types: a broker's owner is a request that goes on, a command not yet given is absent, and what is queued, retained or found in a machine's queue is a command for that broker or machine.
`AloneInv` says that a command that overlapped no other is the only active one (`OneActive`), and that it has, place by place, what an untroubled request has: the connection to the brokers it has been to and, past its publication, a place on
its way (`Sent`), which only a crash takes from it. `OnceInv` says that a command goes the way once: queues repeat nothing, what waits in them or is dispatched was not delivered yet, and what is not published yet is nowhere. On this rest
`MissInv` and `LastInv`. The first says of every command delivered and not received that it is in its machine's queue or was missed, and that what is retained is in the queue, or in the snapshot about to be queued, of a
machine that has subscribed. The second says that what such a machine will have received last (`Newest`) is what is retained, unless that was delivered ahead of an older snapshot.

`ReportTimer`. `NightInv` says that in the first hour of an untroubled day the timer is set beyond that hour and the one report is sent or being sent, and that there has been one from then until noon. It holds after a handler that is in time because the interval is then one hour
less the lateness (`InTime`), whatever the minute; after one that is not, the night is upset, and from noon on nothing has been sent.

`BrokerSessions`. `WaitInv` says of each task by its place what it holds and waits for: `Tasks`, that whoever is awaited has begun to serve, so that it never waits for the lock of creation again,
and has been told to end; `Newest`, that the holder of the lock is the newest connection of all; `FindsNewer`, that what a clean-up finds once its own entry is gone, and then awaits, is therefore newer than its own connection.
So in any set of tasks: one that is not behind the lock's door and waits for nobody in the set goes on; the holder of the lock awaits one that is past it; and among those that clean up, the newest of the set (`order`) awaits
none of it. `SomeoneGoesOn` is this argument; the newest of a set exists because a bounded set of naturals has a greatest element (`Greatest`, from the library's theorem on the well-foundedness of the naturals).
`EveryoneGetsOn` is then a matter of fairness alone, and stays with TLC.

`ServedInv` follows a connection that no other's clean-up has robbed: once its entry is in the table it stays there until a newer one finds it and is about to take it over (`EntryInv`), and so does its session, from the moment it is made (`SessionInv`).
`HolderInv` says that while a connection takes over, its entry or none is in the place. Two connections that are served and not told to end would both have the one entry, or one would be `Replaced` by a third that still holds the lock, and then the other is not served yet.

## 5. Only model-checked

* Liveness (`QueueDrains`, `EveryoneGetsOn`, `RequestsAnswered`, `AReportComes`): the prover has
  no rules for fairness and ENABLED.
* Induction over data. Nothing recursive is declared; the sums of `NeverOverstated` and `LedgerBalanced`
  are kept as totals in the tables (`SalesBook`), so that no proof has to fold over rows.

The other way round, the types of `Devices`, `DownloadFiles`, `SettingsForm`, `ReportDialogue`, `AppSettings`, `SettingsDelivery` and `ReportTimer`, the unique logins, `IdentityKept` and `AdministratorsStay` are stated by theorems only and no run checks them; each is a part or a consequence of the inductive invariant named in section 4.

## 6. Not modelled, and why

* The text of mails and logs, the listings of the pages, and GET requests: no state.
* `float` rounding of `tm` and `ts`: the counters are integers.
* AES and JSON: a payload is readable, well-formed but wrong, or unreadable, which is all the handler tells apart.
* The rows of the users' log (`AddLog`), phone numbers, which are checked like addresses, and the links of users with devices: written or checked beside what `Accounts` has, and read by listings only.
* Unique logins and IMEIs: the indexes are given (`IndexAllows`, `Add`), and a property would restate them. An invitation used by two
  registrations that overlap (`AccountController.cs` 309) and owners that own each other (`UsersController.cs` 177, on which the
  query of `UserDbProvider.cs` 52 would not end) are reached by `Accounts`, but no text says that they are not.
* The form of a new machine, the size limit of an upload, which only the page checks, and the charts and totals of the dashboard, which
  whichever answer comes last writes. A technician's right to remove a machine, checked once when the request comes.
* An empty table of application settings: the migrations insert its row, and nothing deletes one.
* Persistent sessions, topic filters, packet identifiers and wills of the broker, which neither the boards nor the service use.
* More than one machine in `HttpBoard` and `MqttBoard`: no query and no row of a report spans two of them.
* `pg_dump` and `pg_restore`, the web server, migrations, the MQTT wire format, MQTT clients of other programs: external or generated.
* What is planned below.

## 7. What would come next

1. `Accounts`: an abstract specification in which a registration is one step, refined when requests do not overlap; the recursive
   query of descendants over owner graphs with cycles.
2. `SettingsDelivery` with `owner` refined by `BrokerSessions`' tables, so that a command's connection is cleaned up as the broker does it.
3. Proofs: the refinement of 1.
