--------------------------- MODULE ProgressProofs ---------------------------
(***************************************************************************)
(* Theorems about ReportTimer, for handlers however late and processes     *)
(* that go down after any time, and about BrokerSessions, for any number   *)
(* of connections and client ids.                                          *)
(***************************************************************************)
EXTENDS ReportTimer, BrokerSessions, WellFoundedInduction, TLAPS

-----------------------------------------------------------------------------
(***************************************************************************)
(* The timer of the report.                                                *)
(***************************************************************************)
TimesGiven == Lateness \subseteq Nat /\ Lifetimes \subseteq Nat /\ MaxUpsets \in Nat

(* The day of an hour, and the hour of a time that is less than a day off. *)
LEMMA Hours ==
  ASSUME NEW n \in Nat
  PROVE  /\ n % Day \in 0 .. Day - 1 /\ HourOf(n) \in 0 .. 23
         /\ n < Day => n % Day = n
         /\ Day <= n /\ n < 2 * Day => n % Day = n - Day
         /\ HourOf(n) = 0 <=> n % Day < Hour
<1>1. n % Day \in 0 .. Day - 1
  BY DEF Day, Hour
<1>2. n < Day => n % Day = n
  BY DEF Day, Hour
<1>3. Day <= n /\ n < 2 * Day => n % Day = n - Day
  BY DEF Day, Hour
<1>4. \A d \in 0 .. Day - 1 : d \div Hour \in 0 .. 23 /\ (d \div Hour = 0 <=> d < Hour)
  BY DEF Day, Hour
<1>. QED  BY <1>1, <1>2, <1>3, <1>4 DEF HourOf

LEMMA InitialShort ==
  ASSUME NEW n \in Nat, NEW w \in InitialIntervals(n) PROVE w \in 1 .. Hour
<1>1. HourOf(n) \in 0 .. 23
  BY Hours
<1>. QED  BY <1>1 DEF InitialIntervals, Hour

(* A handler that runs in the hour it was set for is less than an hour     *)
(* late, and the next is due an hour after this one was.                   *)
LEMMA InTime ==
  ASSUME NEW n \in Nat, NEW late \in Nat, (n + late) \div Hour = n \div Hour
  PROVE  /\ late < Hour /\ \A m : Intervals(m, late) = {Hour - late}
         /\ n + late >= Day /\ n < Day + Hour => n >= Day /\ n + late < Day + Hour
<1>1. late < Hour
  BY DEF Hour
<1>2. n + late >= Day /\ n < Day + Hour => n >= Day /\ n + late < Day + Hour
  BY DEF Day, Hour
<1>. QED  BY <1>1, <1>2 DEF Intervals

(* Unless something was amiss in it, a night has its report exactly when   *)
(* the handler that runs in its first hour is through with it, and that    *)
(* one has set the timer beyond the hour.                                  *)
NightInv ==
    /\ TimerTypes
    /\ sending => now < Hour
    /\ now >= Noon => sent = 0
    /\ ~upset /\ now < Hour => now + wait >= Hour /\ sent = IF sending THEN 0 ELSE 1
    /\ ~upset /\ Hour <= now /\ now < Noon => sent = 1

LEMMA InitNight == TimesGiven /\ TimerInit => NightInv
<1>. SUFFICES ASSUME TimesGiven, TimerInit PROVE NightInv
  OBVIOUS
<1>1. now \in 0 .. Day - 1 /\ now \in Nat
  BY DEF TimerInit, Day, Hour
<1>2. wait \in 1 .. Hour
  BY <1>1, InitialShort DEF TimerInit
<1>3. upset \in BOOLEAN /\ (upset <=> now < Noon)
  <2>1. upset = (now < Noon)
    BY DEF TimerInit
  <2>2. upset \in BOOLEAN
    BY <2>1
  <2>3. upset <=> now < Noon
    BY <2>1, Zenon
  <2>. QED  BY <2>2, <2>3
<1>4. sending = FALSE /\ sent = 0 /\ upsets \in 0 .. MaxUpsets
  BY DEF TimerInit, TimesGiven
<1>5. TimerTypes
  BY <1>1, <1>2, <1>3, <1>4 DEF TimerTypes
<1>6. now < Hour => now < Noon
  BY <1>1 DEF Noon, Day, Hour
<1>. QED  BY <1>3, <1>4, <1>5, <1>6 DEF NightInv

LEMMA FireNight ==
  ASSUME TimesGiven, NightInv, NEW late \in Lateness, Fire(late) PROVE NightInv'
<1>. DEFINE due == now + wait
            n == due + late
            wrong == n \div Hour # due \div Hour
            forgets == now < Noon /\ n >= Noon
<1>1. /\ late \in Nat /\ now \in Nat /\ now < Day /\ wait \in 1 .. Hour /\ due \in Nat /\ n \in Nat
      /\ due < Day + Hour /\ now < due /\ due <= n /\ upsets \in 0 .. MaxUpsets /\ MaxUpsets \in Nat
  BY DEF TimesGiven, NightInv, TimerTypes, Day, Hour
<1>2. /\ ~sending /\ now' = n % Day /\ sent' = (IF forgets THEN 0 ELSE sent)
      /\ upset' = (wrong \/ (upset /\ ~forgets))
      /\ sending' = (HourOf(now') = 0) /\ wait' \in Intervals(now', late)
      /\ (wrong => upsets < MaxUpsets) /\ upsets' = (IF wrong THEN upsets + 1 ELSE upsets)
  <2>1. now + (wait + late) = n
    BY <1>1
  <2>. QED  BY <2>1 DEF Fire, Pass
<1>3. /\ now' \in 0 .. Day - 1 /\ now' \in Nat /\ sending' = (now' < Hour)
      /\ n < Day => now' = n
      /\ Day <= n /\ n < 2 * Day => now' = n - Day
  <2>1. now' \in 0 .. Day - 1 /\ now' \in Nat
    BY <1>1, <1>2, Hours DEF Day, Hour
  <2>2. now' % Day = now'
    <3>1. now' < Day
      BY <2>1 DEF Day, Hour
    <3>. QED  BY <2>1, <3>1, Hours
  <2>3. HourOf(now') = 0 <=> now' < Hour
    BY <2>1, <2>2, Hours
  <2>4. (n < Day => now' = n) /\ (Day <= n /\ n < 2 * Day => now' = n - Day)
    BY <1>1, <1>2, Hours
  <2>. QED  BY <1>2, <2>1, <2>3, <2>4
<1>4. wait' \in 1 .. Hour
  <2>1. CASE Hour > late
    BY <1>1, <1>2, <2>1 DEF Intervals, Hour
  <2>2. CASE ~(Hour > late)
    BY <1>2, <1>3, <2>2, InitialShort DEF Intervals
  <2>. QED  BY <2>1, <2>2
<1>5. upsets' \in 0 .. MaxUpsets
  BY <1>1, <1>2
<1>6. sent \in Nat /\ upset \in BOOLEAN
  BY DEF NightInv, TimerTypes
<1>7. TimerTypes'
  BY <1>2, <1>3, <1>4, <1>5, <1>6 DEF TimerTypes
<1>8. now' >= Noon => sent' = 0
  <2>1. CASE now >= Noon
    BY <1>2, <2>1 DEF NightInv
  <2>2. CASE now < Noon /\ now' >= Noon
    <3>1. n < Noon => now' = n
      BY <1>1, <1>3 DEF Noon, Day, Hour
    <3>2. ~(n < Noon)
      BY <1>1, <1>3, <2>2, <3>1 DEF Noon, Day, Hour
    <3>3. n >= Noon
      BY <1>1, <3>2 DEF Noon, Day, Hour
    <3>. QED  BY <1>2, <2>2, <3>3
  <2>3. now >= Noon \/ now < Noon
    BY <1>1 DEF Noon, Day, Hour
  <2>. QED  BY <2>1, <2>2, <2>3
<1>9. ASSUME ~upset'
      PROVE  /\ now' < Hour => now' + wait' >= Hour /\ sent' = IF sending' THEN 0 ELSE 1
             /\ Hour <= now' /\ now' < Noon => sent' = 1
  <2>1. ~wrong /\ (~upset \/ forgets)
    BY <1>2, <1>6, <1>9
  <2>2. late < Hour /\ wait' = Hour - late /\ (n >= Day => due >= Day /\ n < Day + Hour)
    BY <1>1, <1>2, <2>1, InTime
  <2>3. CASE n < Noon
    <3>1. now' = n /\ ~forgets /\ now < Noon
      BY <1>1, <1>3, <2>3 DEF Noon, Day, Hour
    <3>2. ~upset /\ sent' = sent
      BY <1>2, <2>1, <3>1
    <3>3. now < Hour => due >= Hour /\ sent = 1
      BY <1>2, <3>2 DEF NightInv
    <3>4. ~(now < Hour) => sent = 1
      BY <1>1, <3>1, <3>2 DEF NightInv, Noon, Day, Hour
    <3>5. n >= Hour
      BY <1>1, <3>3 DEF Hour
    <3>6. ~(now' < Hour)
      BY <1>1, <3>1, <3>5 DEF Hour
    <3>. QED  BY <3>2, <3>3, <3>4, <3>6
  <2>4. CASE n >= Noon /\ n < Day
    <3>1. now' = n /\ ~(now' < Hour) /\ ~(now' < Noon)
      BY <1>1, <1>3, <2>4 DEF Noon, Day, Hour
    <3>. QED  BY <3>1
  <2>5. CASE n >= Day
    <3>1. due >= Day /\ n < Day + Hour
      BY <2>2, <2>5
    <3>2. now' = n - Day /\ now' < Hour
      BY <1>1, <1>3, <2>5, <3>1 DEF Day, Hour
    <3>3. now' + wait' >= Hour
      BY <1>1, <2>2, <3>1, <3>2 DEF Day, Hour
    <3>4. now >= Noon
      BY <1>1, <3>1 DEF Noon, Day, Hour
    <3>5. sent' = 0
      BY <1>2, <3>4 DEF NightInv
    <3>6. ~(Hour <= now')
      BY <1>3, <3>2 DEF Hour
    <3>. QED  BY <1>3, <3>2, <3>3, <3>5, <3>6
  <2>6. n < Noon \/ (n >= Noon /\ n < Day) \/ n >= Day
    BY <1>1 DEF Noon, Day, Hour
  <2>. QED  BY <2>3, <2>4, <2>5, <2>6
<1>10. sending' => now' < Hour
  BY <1>3
<1>. QED  BY <1>7, <1>8, <1>9, <1>10 DEF NightInv

LEMMA RestartNight ==
  ASSUME TimesGiven, NightInv, NEW after \in Lifetimes, Restart(after) PROVE NightInv'
<1>. DEFINE n == now + after
            wrong == HourOf(n) = 0
            forgets == now < Noon /\ n >= Noon
<1>1. /\ after \in Nat /\ now \in Nat /\ now < Day /\ wait \in 1 .. Hour /\ n \in Nat
      /\ after < wait /\ now <= n /\ n < Day + Hour /\ after < Hour /\ sent \in Nat
      /\ upsets \in 0 .. MaxUpsets /\ MaxUpsets \in Nat /\ upsets < MaxUpsets
  BY DEF TimesGiven, NightInv, TimerTypes, Restart, Day, Hour
<1>2. /\ now' = n % Day /\ sent' = (IF forgets THEN 0 ELSE sent)
      /\ upset' = (wrong \/ (upset /\ ~forgets))
      /\ sending' = FALSE /\ wait' \in InitialIntervals(now')
      /\ (sending => after = 0) /\ upsets' = upsets + 1
  BY DEF Restart, Pass
<1>3. /\ now' \in 0 .. Day - 1 /\ now' \in Nat
      /\ n < Day => now' = n
      /\ Day <= n /\ n < 2 * Day => now' = n - Day
      /\ wrong <=> now' < Hour
  BY <1>1, <1>2, Hours DEF Day, Hour
<1>4. wait' \in 1 .. Hour /\ upsets' \in 0 .. MaxUpsets
  BY <1>1, <1>2, <1>3, InitialShort
<1>5. upset \in BOOLEAN /\ upset' \in BOOLEAN /\ sent' \in Nat
  BY <1>1, <1>2 DEF NightInv, TimerTypes
<1>6. TimerTypes'
  BY <1>2, <1>3, <1>4, <1>5 DEF TimerTypes
<1>7. now' >= Noon => sent' = 0
  <2>1. CASE now >= Noon
    BY <1>2, <2>1 DEF NightInv
  <2>2. CASE now < Noon /\ now' >= Noon
    <3>1. n >= Noon
      BY <1>1, <1>3, <2>2 DEF Noon, Day, Hour
    <3>. QED  BY <1>2, <2>2, <3>1
  <2>. QED  BY <1>1, <2>1, <2>2 DEF Noon, Day, Hour
<1>8. ASSUME ~upset' PROVE ~(now' < Hour) /\ (Hour <= now' /\ now' < Noon => sent' = 1)
  <2>1. ~wrong /\ (~upset \/ forgets) /\ ~(now' < Hour)
    BY <1>2, <1>3, <1>5, <1>8
  <2>2. ASSUME now' < Noon PROVE sent' = 1
    <3>1. n < Day
      BY <1>1, <1>3, <2>1 DEF Day, Hour
    <3>2. now' = n /\ ~forgets /\ now < Noon
      BY <1>1, <1>3, <2>2, <3>1 DEF Noon, Day, Hour
    <3>3. ~upset /\ sent' = sent
      BY <1>2, <2>1, <3>2
    <3>4. CASE now < Hour
      <4>1. ~sending
        <5>1. ASSUME sending PROVE FALSE
          <6>1. after = 0
            BY <1>2, <5>1
          <6>2. now' = now
            BY <1>1, <3>2, <6>1
          <6>. QED  BY <2>1, <3>4, <6>2
        <5>. QED  BY <5>1
      <4>. QED  BY <3>3, <3>4, <4>1 DEF NightInv
    <3>5. CASE Hour <= now
      BY <3>2, <3>3, <3>5 DEF NightInv
    <3>. QED  BY <1>1, <3>4, <3>5 DEF Hour
  <2>. QED  BY <2>1, <2>2
<1>. QED  BY <1>2, <1>6, <1>7, <1>8 DEF NightInv

LEMMA NextNight == TimesGiven /\ NightInv /\ [TimerNext]_timerVars => NightInv'
<1>. SUFFICES ASSUME TimesGiven, NightInv, [TimerNext]_timerVars PROVE NightInv'
  OBVIOUS
<1>1. /\ now \in 0 .. Day - 1 /\ now \in Nat /\ now < Day /\ sent \in Nat
      /\ upsets \in 0 .. MaxUpsets /\ MaxUpsets \in Nat
  BY DEF TimesGiven, NightInv, TimerTypes, Day, Hour
<1>2. CASE Report
  <2>1. now < Hour /\ ~(now >= Noon) /\ ~(Hour <= now)
    BY <1>1, <1>2 DEF Report, NightInv, Noon, Day, Hour
  <2>2. sent' = sent + 1 /\ sending' = FALSE /\ UNCHANGED <<now, wait, upset, upsets>> /\ sending
    BY <1>2 DEF Report
  <2>3. TimerTypes'
    <3>1. sent' \in Nat
      BY <1>1, <2>2
    <3>2. sending' \in BOOLEAN
      BY <2>2
    <3>. QED  BY <2>2, <3>1, <3>2 DEF NightInv, TimerTypes
  <2>4. ~upset => now + wait >= Hour /\ sent' = 1
    <3>1. ~upset => now + wait >= Hour /\ sent = 0
      BY <2>1, <2>2 DEF NightInv
    <3>. QED  BY <2>2, <3>1
  <2>. QED  BY <2>1, <2>2, <2>3, <2>4 DEF NightInv
<1>3. CASE FailReport
  <2>1. /\ now' = (now + 0) % Day /\ upset' = TRUE /\ sending' = FALSE /\ wait' = wait
        /\ upsets < MaxUpsets /\ upsets' = upsets + 1 /\ sending
        /\ sent' = (IF now < Noon /\ now + 0 >= Noon THEN 0 ELSE sent)
    BY <1>3 DEF FailReport, Pass
  <2>2. now' = now
    <3>1. now + 0 = now
      BY <1>1
    <3>. QED  BY <1>1, <2>1, <3>1, Hours
  <2>3. sent' \in Nat /\ upsets' \in 0 .. MaxUpsets /\ ~(now >= Noon)
    BY <1>1, <2>1 DEF NightInv, Noon, Day, Hour
  <2>4. TimerTypes'
    BY <1>1, <2>1, <2>2, <2>3 DEF NightInv, TimerTypes
  <2>. QED  BY <2>1, <2>2, <2>3, <2>4 DEF NightInv
<1>4. CASE UNCHANGED timerVars
  BY <1>4 DEF timerVars, NightInv, TimerTypes
<1>. QED  BY <1>2, <1>3, <1>4, FireNight, RestartNight DEF TimerNext

LEMMA NightCorrect == ASSUME TimesGiven PROVE TimerSpec => []NightInv
BY InitNight, NextNight, PTL DEF TimerSpec

(* The timer is always set to fire, within the hour, however late its      *)
(* handlers run and whenever the process was started.                      *)
THEOREM TimerTypeCorrect == ASSUME TimesGiven PROVE TimerSpec => []TimerTypes
BY NightCorrect, PTL DEF NightInv

(* A night in which every handler ran in the hour it was due in, no report *)
(* failed and the process was not restarted while it was due has one       *)
(* report when its first hour is over, and never two.                      *)
THEOREM ReportCorrect == ASSUME TimesGiven PROVE TimerSpec => []OneReportANight
<1>1. ASSUME NightInv PROVE OneReportANight
  <2>1. now \in Nat /\ now < Day
    BY <1>1 DEF NightInv, TimerTypes, Day, Hour
  <2>2. now < Hour \/ (Hour <= now /\ now < Noon) \/ now >= Noon
    BY <2>1 DEF Noon, Day, Hour
  <2>3. now \in Hour .. Noon - 1 => Hour <= now /\ now < Noon
    BY <2>1 DEF Noon, Day, Hour
  <2>4. ~upset => sent \in {0, 1}
    BY <1>1, <2>2 DEF NightInv
  <2>5. ~upset /\ now \in Hour .. Noon - 1 => sent = 1
    BY <1>1, <2>3 DEF NightInv
  <2>. QED  BY <2>4, <2>5 DEF OneReportANight
<1>. QED  BY <1>1, NightCorrect, PTL

-----------------------------------------------------------------------------
(***************************************************************************)
(* The connections of a broker.                                            *)
(***************************************************************************)
ServersGiven == None \notin Conn /\ ClientOf \in [Conn -> Client] /\ Clean \subseteq BOOLEAN

LEMMA InitServers == ServersGiven /\ Init => TypeOK
BY DEF ServersGiven, Init, TypeOK, Stage

(* The session of a new connection is a new one, or the one there is.      *)
LEMMA InsertedSession ==
  ASSUME ServersGiven, TypeOK, NEW c \in Conn, InsertSession(c)
  PROVE  \E s \in Conn : /\ session' = [session EXCEPT ![c] = s]
                         /\ sessions' = [sessions EXCEPT ![ClientOf[c]] = s]
<1>1. PICK clean \in Clean :
        session' = [session EXCEPT ![c] = IF sessions[ClientOf[c]] = None \/ clean THEN c
                                          ELSE sessions[ClientOf[c]]]
  BY DEF InsertSession
<1>. DEFINE s == IF sessions[ClientOf[c]] = None \/ clean THEN c ELSE sessions[ClientOf[c]]
<1>2. s \in Conn
  <2>1. sessions[ClientOf[c]] \in Conn \cup {None} /\ clean \in BOOLEAN
    BY DEF TypeOK, ServersGiven
  <2>. QED  BY <2>1
<1>3. session' = [session EXCEPT ![c] = s] /\ session'[c] = s
  BY <1>1 DEF TypeOK
<1>4. sessions' = [sessions EXCEPT ![ClientOf[c]] = s]
  BY <1>3 DEF InsertSession
<1>. QED  BY <1>2, <1>3, <1>4

LEMMA CreateType ==
  ASSUME ServersGiven, TypeOK, NEW c \in Conn,
         InsertSession(c) \/ InsertConnection(c) \/ MarkTakenOver(c) \/ CancelTakenOver(c)
           \/ AwaitTakenOver(c)
  PROVE  TypeOK'
<1>0. None \notin Conn /\ ClientOf[c] \in Client
  BY DEF ServersGiven
<1>1. CASE InsertSession(c)
  <2>1. PICK s \in Conn : /\ session' = [session EXCEPT ![c] = s]
                         /\ sessions' = [sessions EXCEPT ![ClientOf[c]] = s]
    BY <1>1, InsertedSession
  <2>. QED  BY <1>0, <1>1, <2>1 DEF InsertSession, TypeOK, At, Goto, Counted, Stage
<1>2. CASE InsertConnection(c)
  <2>1. \E s \in {"created", "takeOver"} :
          pc' = [pc EXCEPT ![c] = s] /\ creation' \in {creation, None}
    BY <1>2 DEF InsertConnection, Goto
  <2>. QED  BY <1>0, <1>2, <2>1 DEF InsertConnection, TypeOK, At, Stage, history
<1>3. CASE MarkTakenOver(c)
  BY <1>0, <1>3 DEF MarkTakenOver, TypeOK, At, Goto, Stage, tables, locals, history
<1>4. CASE CancelTakenOver(c)
  <2>1. PICK s \in {"created", "awaitOld"} : pc' = [pc EXCEPT ![c] = s]
    BY <1>4 DEF CancelTakenOver, Goto
  <2>2. creation' \in Conn \cup {None}
    BY <1>4 DEF CancelTakenOver, TypeOK
  <2>3. cancelled' \in [Conn -> BOOLEAN] /\ pc[c] = "disconnect"
        /\ UNCHANGED <<connections, sessions, locals, reason, stop, history>>
    BY <1>4 DEF CancelTakenOver, TypeOK, At
  <2>4. pc' \in [Conn -> Stage]
    BY <2>1 DEF TypeOK, Stage
  <2>5. \A d \in Conn : session[d] = None <=> pc'[d] \in {"absent", "waiting", "done"}
    BY <2>1, <2>3 DEF TypeOK
  <2>. QED  BY <2>2, <2>3, <2>4, <2>5 DEF TypeOK, locals, history
<1>5. CASE AwaitTakenOver(c)
  BY <1>0, <1>5 DEF AwaitTakenOver, TypeOK, At, Goto, Stage, locals, history
<1>. QED  BY <1>1, <1>2, <1>3, <1>4, <1>5

LEMMA RunType ==
  ASSUME ServersGiven, TypeOK, NEW c \in Conn,
         \/ Run(c) \/ Leave(c) \/ EndLoop(c) \/ ReadReason(c) \/ RemoveConnection(c)
         \/ FindConnection(c) \/ RemoveSession(c) \/ StopOther(c) \/ AwaitOther(c) \/ Close(c)
         \/ SetTask(c)
  PROVE  TypeOK'
<1>0. None \notin Conn /\ ClientOf[c] \in Client
  BY DEF ServersGiven
<1>1. CASE Run(c)
  BY <1>0, <1>1 DEF Run, TypeOK, At, Goto, Stage, tables, history
<1>2. CASE Leave(c) \/ EndLoop(c) \/ ReadReason(c) \/ AwaitOther(c)
  <2>1. \E s \in {"ended", "close", "remove"} : pc' = [pc EXCEPT ![c] = s]
    BY <1>2 DEF Leave, EndLoop, ReadReason, AwaitOther, Goto
  <2>2. pc[c] \in {"running", "ended", "awaitOther"} /\ UNCHANGED <<tables, locals, reason,
                                                                    cancelled, stop, history>>
    BY <1>2 DEF Leave, EndLoop, ReadReason, AwaitOther, At
  <2>. QED  BY <1>0, <2>1, <2>2 DEF TypeOK, Stage, tables, locals, history
<1>3. CASE RemoveConnection(c)
  BY <1>0, <1>3 DEF RemoveConnection, TypeOK, At, Goto, Stage, locals, history
<1>4. CASE FindConnection(c)
  BY <1>0, <1>4 DEF FindConnection, TypeOK, At, Goto, Stage, tables, history
<1>5. CASE RemoveSession(c)
  BY <1>0, <1>5 DEF RemoveSession, TypeOK, At, Goto, Stage, locals, history
<1>6. CASE StopOther(c)
  BY <1>0, <1>6 DEF StopOther, TypeOK, At, Goto, Stage, tables, locals, history
<1>7. CASE Close(c)
  BY <1>0, <1>7 DEF Close, TypeOK, At, Goto, Stage, tables, history
<1>8. CASE SetTask(c)
  BY <1>0, <1>8 DEF SetTask, TypeOK, tables, history
<1>. QED  BY <1>1, <1>2, <1>3, <1>4, <1>5, <1>6, <1>7, <1>8

LEMMA EnvironmentType ==
  ASSUME ServersGiven, TypeOK,
         (\E c \in Conn : Environment(c)) \/ GoOn \/ CancelExpired \/ UNCHANGED vars
  PROVE  TypeOK'
<1>1. ASSUME NEW c \in Conn, Connect(c) PROVE TypeOK'
  BY <1>1 DEF Connect, TypeOK, At, Goto, Stage, tables, locals, history
<1>2. ASSUME NEW c \in Conn, Leave(c) PROVE TypeOK'
  BY <1>2, RunType
<1>3. ASSUME NEW c \in Conn, Refuse(c) PROVE TypeOK'
  BY <1>3 DEF Refuse, TypeOK, tables, locals, history
<1>4. ASSUME NEW c \in Conn, Expire(c) PROVE TypeOK'
  BY <1>4 DEF Expire, TypeOK, tables, locals, history
<1>5. CASE GoOn
  BY <1>5 DEF GoOn, TypeOK, tables, locals, history
<1>6. CASE CancelExpired
  BY <1>6 DEF CancelExpired, TypeOK, tables, locals, history
<1>7. CASE UNCHANGED vars
  BY <1>7 DEF vars, TypeOK, tables, locals, history
<1>. QED  BY <1>1, <1>2, <1>3, <1>4, <1>5, <1>6, <1>7 DEF Environment

LEMMA NextServers == ServersGiven /\ TypeOK /\ [Next]_vars => TypeOK'
BY CreateType, RunType, EnvironmentType DEF Next, Serve

(* The tables, the lock of creation and the tasks' locals keep their types,*)
(* and a task has a session exactly from its creation to its end, whatever *)
(* the clients and the broker's own stops do.                              *)
THEOREM BrokerTypeCorrect == ASSUME ServersGiven PROVE Spec => []TypeOK
BY InitServers, NextServers, PTL DEF Spec

-----------------------------------------------------------------------------
(***************************************************************************)
(* Who waits for whom in the broker.                                       *)
(***************************************************************************)
(* A task that can be awaited is one that serves or is on its way out.     *)
Serving == {"running", "ended", "remove", "find", "forget", "stopOther", "awaitOther", "close",
            "done"}
Creating == {"insert", "takeOver", "disconnect", "awaitOld"}

(* Who is awaited began to serve, so that it is not one that needs the     *)
(* lock, and has been told to end.                                         *)
Tasks ==
    \A c \in Conn :
        /\ started[c] => pc[c] \in Serving
        /\ pc[c] \in Creating <=> creation = c
        /\ pc[c] \in {"takeOver", "disconnect", "awaitOld", "stopOther", "awaitOther"} =>
             other[c] \in Conn
        /\ pc[c] \in {"awaitOld", "awaitOther"} => started[other[c]] /\ cancelled[other[c]]

(* The one that holds the lock is the newest, so that whatever a clean-up  *)
(* finds in the table, once its own entry is gone, was created after it.   *)
Newest == creation # None => \A d \in Conn \ {creation} : order[d] < order[creation]

FindsNewer ==
    \A c \in Conn :
        LET entry == connections[ClientOf[c]] IN
        /\ pc[c] = "find" /\ entry # None => order[c] < order[entry]
        /\ pc[c] \in {"forget", "stopOther", "awaitOther"} /\ other[c] # None =>
             order[c] < order[other[c]]

WaitInv == TypeOK /\ Tasks /\ Newest /\ FindsNewer /\ \A c \in Conn : order[c] <= created

LEMMA InitWaits == ServersGiven /\ Init => WaitInv
BY InitServers DEF ServersGiven, Init, WaitInv, Tasks, Creating, Serving, Newest, FindsNewer

LEMMA WaitShapes ==
  ASSUME ServersGiven, TypeOK
  PROVE  /\ pc \in [Conn -> Stage] /\ other \in [Conn -> Conn \cup {None}]
         /\ connections \in [Client -> Conn \cup {None}] /\ creation \in Conn \cup {None}
         /\ cancelled \in [Conn -> BOOLEAN] /\ started \in [Conn -> BOOLEAN]
         /\ order \in [Conn -> Nat] /\ created \in Nat
         /\ None \notin Conn /\ ClientOf \in [Conn -> Client]
BY DEF TypeOK, ServersGiven

LEMMA InsertSessionWaits ==
  ASSUME ServersGiven, WaitInv, NEW c \in Conn, InsertSession(c) PROVE WaitInv'
<1>1. /\ UNCHANGED <<connections, other, started, cancelled>>
      /\ pc[c] = "waiting" /\ pc' = [pc EXCEPT ![c] = "insert"]
      /\ creation = None /\ creation' = c
      /\ created' = created + 1 /\ order' = [order EXCEPT ![c] = created + 1]
  BY DEF InsertSession, Counted, At, Goto
<1>2. TypeOK /\ TypeOK'
  BY NextServers DEF WaitInv, Next, Serve, Environment
<1>3. Tasks'
  BY <1>1, <1>2, WaitShapes DEF WaitInv, Tasks, Creating, Serving
<1>4. \A d \in Conn : /\ order'[d] <= created'
                      /\ d # c => order'[d] = order[d] /\ order[d] < created'
  BY <1>1, <1>2, WaitShapes DEF WaitInv
<1>5. order'[c] = created'
  BY <1>1, <1>2, WaitShapes
<1>6. Newest'
  BY <1>1, <1>4, <1>5 DEF Newest
<1>7. FindsNewer'
  <2>. SUFFICES ASSUME NEW d \in Conn, NEW x \in Conn,
                       \/ pc'[d] = "find" /\ connections[ClientOf[d]] = x
                       \/ pc'[d] \in {"forget", "stopOther", "awaitOther"} /\ other[d] = x
                PROVE  order'[d] < order'[x]
    BY <1>1, <1>2, WaitShapes DEF FindsNewer
  <2>1. d # c /\ pc'[d] = pc[d]
    BY <1>1, <1>2, WaitShapes
  <2>2. order[d] < order[x]
    BY <2>1, <1>2, WaitShapes DEF WaitInv, FindsNewer
  <2>. QED  BY <1>4, <1>5, <2>1, <2>2
<1>. QED  BY <1>2, <1>3, <1>4, <1>6, <1>7 DEF WaitInv

LEMMA InsertConnectionWaits ==
  ASSUME ServersGiven, WaitInv, NEW c \in Conn, InsertConnection(c) PROVE WaitInv'
<1>1. PICK n :
      /\ n = connections[ClientOf[c]]
      /\ UNCHANGED <<started, cancelled, order, created>>
      /\ pc[c] = "insert" /\ connections' = [connections EXCEPT ![ClientOf[c]] = c]
      /\ pc' = [pc EXCEPT ![c] = IF n = None THEN "created" ELSE "takeOver"]
      /\ creation' = (IF n = None THEN None ELSE creation)
      /\ other' = [other EXCEPT ![c] = n]
  BY DEF InsertConnection, At, Goto, history
<1>2. TypeOK /\ TypeOK'
  BY NextServers DEF WaitInv, Next, Serve, Environment
<1>3. creation = c /\ n \in Conn \cup {None}
  BY <1>1, <1>2, WaitShapes DEF WaitInv, Tasks, Creating
<1>4. Tasks'
  BY <1>1, <1>2, <1>3, WaitShapes DEF WaitInv, Tasks, Creating, Serving
<1>5. Newest'
  BY <1>1, <1>3 DEF WaitInv, Newest
<1>6. FindsNewer'
  BY <1>1, <1>2, <1>3, WaitShapes DEF WaitInv, FindsNewer, Newest
<1>. QED  BY <1>1, <1>2, <1>4, <1>5, <1>6 DEF WaitInv

LEMMA TakeOverWaits ==
  ASSUME ServersGiven, WaitInv, NEW c \in Conn,
         MarkTakenOver(c) \/ CancelTakenOver(c) \/ AwaitTakenOver(c)
  PROVE  WaitInv'
<1>1. /\ UNCHANGED <<connections, other, started, order, created>>
      /\ \A d \in Conn : cancelled[d] => cancelled'[d]
      /\ \/ /\ pc[c] = "takeOver" /\ pc' = [pc EXCEPT ![c] = "disconnect"]
            /\ UNCHANGED creation
         \/ /\ pc[c] = "disconnect" /\ pc' = [pc EXCEPT ![c] = "awaitOld"]
            /\ UNCHANGED creation /\ started[other[c]] /\ cancelled'[other[c]]
         \/ /\ pc[c] \in {"disconnect", "awaitOld"} /\ pc' = [pc EXCEPT ![c] = "created"]
            /\ creation' = None
  <2>1. CASE MarkTakenOver(c)
    BY <2>1 DEF MarkTakenOver, At, Goto, tables, locals, history
  <2>2. CASE CancelTakenOver(c)
    <3>1. /\ UNCHANGED <<connections, other, started, order, created>>
          /\ pc[c] = "disconnect" /\ cancelled' = [cancelled EXCEPT ![other[c]] = TRUE]
          /\ \/ started[other[c]] /\ creation' = creation /\ pc' = [pc EXCEPT ![c] = "awaitOld"]
             \/ creation' = None /\ pc' = [pc EXCEPT ![c] = "created"]
      BY <2>2 DEF CancelTakenOver, At, Goto, NothingToAwait, locals, history
    <3>2. other[c] \in Conn
      BY <3>1 DEF WaitInv, Tasks
    <3>. QED  BY <3>1, <3>2, WaitShapes DEF WaitInv
  <2>3. CASE AwaitTakenOver(c)
    BY <2>3 DEF AwaitTakenOver, At, Goto, locals, history
  <2>. QED  BY <2>1, <2>2, <2>3
<1>2. TypeOK /\ TypeOK'
  BY NextServers DEF WaitInv, Next, Serve, Environment
<1>3. creation = c
  BY <1>1 DEF WaitInv, Tasks, Creating
<1>4. Tasks'
  BY <1>1, <1>2, <1>3, WaitShapes DEF WaitInv, Tasks, Creating, Serving
<1>5. Newest'
  BY <1>1, <1>3 DEF WaitInv, Newest
<1>6. FindsNewer'
  BY <1>1, <1>2, WaitShapes DEF WaitInv, FindsNewer
<1>. QED  BY <1>1, <1>2, <1>4, <1>5, <1>6 DEF WaitInv

LEMMA ServingWaits ==
  ASSUME ServersGiven, WaitInv, NEW c \in Conn,
         \/ Run(c) \/ Leave(c) \/ EndLoop(c) \/ ReadReason(c) \/ RemoveConnection(c)
         \/ FindConnection(c) \/ Close(c)
  PROVE  WaitInv'
<1>1. /\ UNCHANGED <<creation, started, cancelled, order, created>>
      /\ \/ /\ pc[c] \in {"created", "running", "ended", "close"}
            /\ \E s \in {"running", "ended", "close", "remove", "done"} :
                 pc' = [pc EXCEPT ![c] = s]
            /\ \E o \in {other[c], None} : other' = [other EXCEPT ![c] = o]
            /\ UNCHANGED connections
         \/ /\ pc[c] = "remove" /\ pc' = [pc EXCEPT ![c] = "find"]
            /\ connections' = [connections EXCEPT ![ClientOf[c]] = None] /\ UNCHANGED other
         \/ /\ pc[c] = "find" /\ pc' = [pc EXCEPT ![c] = "forget"]
            /\ other' = [other EXCEPT ![c] = connections[ClientOf[c]]] /\ UNCHANGED connections
  <2>0. other = [other EXCEPT ![c] = other[c]]
    BY DEF WaitInv, TypeOK
  <2>1. CASE Run(c) \/ Close(c)
    BY <2>1 DEF Run, Close, At, Goto, tables, history
  <2>2. CASE Leave(c) \/ EndLoop(c) \/ ReadReason(c)
    <3>1. UNCHANGED <<creation, started, cancelled, order, created, other, connections>>
      BY <2>2 DEF Leave, EndLoop, ReadReason, tables, locals, history
    <3>2. pc[c] \in {"running", "ended"}
      BY <2>2 DEF Leave, EndLoop, ReadReason, At
    <3>3. \E s \in {"ended", "close", "remove"} : pc' = [pc EXCEPT ![c] = s]
      BY <2>2 DEF Leave, EndLoop, ReadReason, Goto
    <3>. QED  BY <2>0, <3>1, <3>2, <3>3
  <2>3. CASE RemoveConnection(c)
    BY <2>3 DEF RemoveConnection, At, Goto, locals, history
  <2>4. CASE FindConnection(c)
    BY <2>4 DEF FindConnection, At, Goto, tables, history
  <2>. QED  BY <2>1, <2>2, <2>3, <2>4
<1>2. TypeOK /\ TypeOK'
  BY NextServers DEF WaitInv, Next, Serve, Environment
<1>3. Tasks'
  BY <1>1, <1>2, WaitShapes DEF WaitInv, Tasks, Creating, Serving
<1>4. Newest'
  BY <1>1 DEF WaitInv, Newest
<1>5. FindsNewer'
  BY <1>1, <1>2, WaitShapes DEF WaitInv, FindsNewer
<1>. QED  BY <1>1, <1>2, <1>3, <1>4, <1>5 DEF WaitInv

LEMMA CleanUpWaits ==
  ASSUME ServersGiven, WaitInv, NEW c \in Conn,
         RemoveSession(c) \/ StopOther(c) \/ AwaitOther(c)
  PROVE  WaitInv'
<1>1. /\ UNCHANGED <<connections, creation, other, started, order, created>>
      /\ \A d \in Conn : cancelled[d] => cancelled'[d]
      /\ \/ pc[c] \in {"forget", "stopOther", "awaitOther"} /\ pc' = [pc EXCEPT ![c] = "close"]
         \/ pc[c] = "forget" /\ other[c] # None /\ pc' = [pc EXCEPT ![c] = "stopOther"]
         \/ /\ pc[c] = "stopOther" /\ pc' = [pc EXCEPT ![c] = "awaitOther"]
            /\ started[other[c]] /\ cancelled'[other[c]]
  <2>1. CASE RemoveSession(c)
    BY <2>1 DEF RemoveSession, At, Goto, locals, history
  <2>2. CASE StopOther(c)
    <3>1. /\ UNCHANGED <<connections, creation, other, started, order, created>>
          /\ pc[c] = "stopOther" /\ cancelled' = [cancelled EXCEPT ![other[c]] = TRUE]
          /\ \/ pc' = [pc EXCEPT ![c] = "close"]
             \/ started[other[c]] /\ pc' = [pc EXCEPT ![c] = "awaitOther"]
      BY <2>2 DEF StopOther, At, Goto, NothingToAwait, tables, locals, history
    <3>2. other[c] \in Conn
      BY <3>1 DEF WaitInv, Tasks
    <3>. QED  BY <3>1, <3>2, WaitShapes DEF WaitInv
  <2>3. CASE AwaitOther(c)
    BY <2>3 DEF AwaitOther, At, Goto, tables, locals, history
  <2>. QED  BY <2>1, <2>2, <2>3
<1>2. TypeOK /\ TypeOK'
  BY NextServers DEF WaitInv, Next, Serve, Environment
<1>3. Tasks'
  BY <1>1, <1>2, WaitShapes DEF WaitInv, Tasks, Creating, Serving
<1>4. Newest'
  BY <1>1 DEF WaitInv, Newest
<1>5. FindsNewer'
  BY <1>1, <1>2, WaitShapes DEF WaitInv, FindsNewer
<1>. QED  BY <1>1, <1>2, <1>3, <1>4, <1>5 DEF WaitInv

LEMMA RestWaits ==
  ASSUME ServersGiven, WaitInv,
         \/ \E c \in Conn : Connect(c) \/ Refuse(c) \/ Expire(c) \/ SetTask(c)
         \/ GoOn \/ CancelExpired \/ UNCHANGED vars
  PROVE  WaitInv'
<1>1. /\ UNCHANGED <<connections, creation, other, order, created>>
      /\ \A d \in Conn : /\ cancelled[d] => cancelled'[d]
                         /\ pc'[d] = pc[d] \/ (pc[d] = "absent" /\ pc'[d] = "waiting")
                         /\ started'[d] = started[d] \/ pc[d] \in Serving
                         /\ started[d] => started'[d]
  <2>1. ASSUME NEW c \in Conn, Connect(c)
        PROVE  /\ UNCHANGED <<connections, creation, other, order, created, cancelled, started>>
               /\ pc[c] = "absent" /\ pc' = [pc EXCEPT ![c] = "waiting"]
    BY <2>1 DEF Connect, At, Goto, tables, locals, history
  <2>2. ASSUME NEW c \in Conn, SetTask(c)
        PROVE  /\ UNCHANGED <<connections, creation, other, order, created, cancelled, pc>>
               /\ pc[c] \in Serving /\ started' = [started EXCEPT ![c] = TRUE]
    BY <2>2 DEF SetTask, Serving, tables, history
  <2>3. ASSUME NEW c \in Conn, Refuse(c) \/ Expire(c)
        PROVE  /\ UNCHANGED <<connections, creation, other, order, created, pc, started>>
               /\ \A d \in Conn : cancelled[d] => cancelled'[d]
    BY <2>3 DEF Refuse, Expire, tables, locals, history, WaitInv, TypeOK
  <2>4. CASE GoOn \/ CancelExpired \/ UNCHANGED vars
    BY <2>4 DEF GoOn, CancelExpired, vars, tables, locals, history, WaitInv, TypeOK
  <2>. QED  BY <2>1, <2>2, <2>3, <2>4, WaitShapes DEF WaitInv
<1>2. TypeOK /\ TypeOK'
  <2>1. [Next]_vars
    BY DEF Next, Environment
  <2>. QED  BY <2>1, NextServers DEF WaitInv
<1>3. Tasks'
  BY <1>1, <1>2, WaitShapes DEF WaitInv, Tasks, Creating, Serving
<1>4. Newest'
  BY <1>1 DEF WaitInv, Newest
<1>5. FindsNewer'
  BY <1>1, <1>2, WaitShapes DEF WaitInv, FindsNewer
<1>. QED  BY <1>1, <1>2, <1>3, <1>4, <1>5 DEF WaitInv

LEMMA NextWaits == ServersGiven /\ WaitInv /\ [Next]_vars => WaitInv'
BY InsertSessionWaits, InsertConnectionWaits, TakeOverWaits, ServingWaits, CleanUpWaits, RestWaits
   DEF Next, Serve, Environment

(* A set of natural numbers that has a bound has a greatest element.       *)
LEMMA Greatest ==
  ASSUME NEW n \in Nat, NEW T, T \subseteq 0 .. n, T # {}
  PROVE  \E m \in T : \A k \in T : k <= m
<1>. DEFINE U == {i \in Nat : i <= n /\ n - i \in T}
            R == OpToRel(<, Nat)
<1>1. IsWellFoundedOn(R, Nat)
  BY NatLessThanWellFounded
<1>2. U \subseteq Nat /\ U # {}
  <2>1. PICK k \in T : TRUE
    OBVIOUS
  <2>2. k \in 0 .. n /\ n - (n - k) = k /\ n - k \in Nat /\ n - k <= n
    OBVIOUS
  <2>. QED  BY <2>2
<1>3. PICK x \in U : \A y \in U : ~(<<y, x>> \in R)
  BY <1>1, <1>2, WFMin
<1>4. \A y \in U : ~(y < x)
  BY <1>2, <1>3 DEF OpToRel
<1>5. ASSUME NEW k \in T PROVE k <= n - x
  <2>1. k \in 0 .. n /\ n - (n - k) = k /\ n - k \in Nat /\ n - k <= n
    OBVIOUS
  <2>2. n - k \in U
    BY <2>1
  <2>. QED  BY <1>4, <2>1, <2>2
<1>. QED  BY <1>5

(* Of the tasks of a set, the newest that awaits another's clean-up waits  *)
(* for none of the set.                                                    *)
LEMMA SomeoneGoesOn ==
  ASSUME ServersGiven, WaitInv, NEW S \in (SUBSET Conn) \ {{}}
  PROVE  \E c \in S : WaitsFor(c) \cap S = {}
<1>. SUFFICES ASSUME \A c \in S : WaitsFor(c) \cap S # {} PROVE FALSE
  OBVIOUS
<1>. DEFINE A == {c \in S : pc[c] = "awaitOther"}
            T == {i \in 0 .. created : \E c \in A : order[c] = i}
<1>1. ASSUME NEW c \in S, NEW d \in WaitsFor(c) PROVE pc[d] \in Serving \cup Creating
  BY <1>1, WaitShapes DEF WaitsFor, At, WaitInv, Tasks
<1>2. ASSUME NEW c \in S, pc[c] \in {"awaitOld", "awaitOther"}
      PROVE  \E d \in A : d = other[c]
  <2>1. PICK d \in S : d \in WaitsFor(c)
    BY <1>2
  <2>2. d = other[c] /\ d \in Conn
    BY <1>2, <2>1 DEF WaitsFor, At
  <2>3. pc[d] \in Serving
    BY <1>2, <2>2 DEF WaitInv, Tasks
  <2>4. PICK e : e \in WaitsFor(d)
    BY <2>1
  <2>5. pc[d] \in {"waiting", "awaitOld", "awaitOther"}
    BY <2>4 DEF WaitsFor, At
  <2>. QED  BY <2>1, <2>2, <2>3, <2>5 DEF Serving
<1>3. ASSUME NEW c \in S PROVE \E d \in S : pc[d] \in {"awaitOld", "awaitOther"}
  <2>1. PICK d \in S : d \in WaitsFor(c)
    BY <1>3
  <2>2. pc[d] \in Serving \cup Creating
    BY <1>1, <2>1
  <2>3. PICK e : e \in WaitsFor(d)
    BY <2>1
  <2>4. pc[d] \in {"waiting", "awaitOld", "awaitOther"}
    BY <2>3 DEF WaitsFor, At
  <2>. QED  BY <2>1, <2>2, <2>4 DEF Serving, Creating
<1>4. A # {}
  <2>1. PICK c \in S : TRUE
    OBVIOUS
  <2>. QED  BY <1>2, <1>3, <2>1
<1>5. \A c \in A : order[c] \in 0 .. created
  BY WaitShapes DEF WaitInv
<1>6. T # {} /\ T \subseteq 0 .. created /\ created \in Nat
  <2>1. PICK c \in A : order[c] \in 0 .. created
    BY <1>4, <1>5
  <2>. QED  BY <2>1, WaitShapes DEF WaitInv
<1>7. PICK m \in T : \A k \in T : k <= m
  BY <1>6, Greatest
<1>8. PICK c \in A : order[c] = m
  OBVIOUS
<1>9. PICK d \in A : d = other[c]
  BY <1>2
<1>10. order[c] < order[d]
  BY <1>9, WaitShapes DEF WaitInv, FindsNewer
<1>11. order[d] \in T /\ order[d] <= order[c]
  BY <1>5, <1>7, <1>8
<1>. QED  BY <1>5, <1>10, <1>11

(* However many connections of however many client ids come, whoever their *)
(* clients are and whatever the dispatcher and the monitor stop, whoever a *)
(* takeover or a clean-up awaits has been told to end, and no tasks wait   *)
(* for each other in a circle, not through the lock of creation either     *)
(* (MqttClientSessionsManager.cs:199-237, 396-434).                        *)
THEOREM NobodyStuckCorrect == ASSUME ServersGiven PROVE Spec => []NobodyStuck
<1>1. ServersGiven /\ WaitInv => NobodyStuck
  BY SomeoneGoesOn DEF NobodyStuck, WaitInv, Tasks
<1>. QED  BY <1>1, InitWaits, NextWaits, PTL DEF Spec

-----------------------------------------------------------------------------
(***************************************************************************)
(* What is served and what the tables hold.  A connection that no other's  *)
(* clean-up has robbed of its entry is in the table until a newer one has  *)
(* found it there, and that one tells it to end before it is served.       *)
(***************************************************************************)
Present == {"takeOver", "disconnect", "awaitOld", "created", "running"}

(* An entry is of a connection of its client id that was put there.        *)
EntriesInv ==
    \A k \in Client :
        connections[k] # None =>
            /\ ClientOf[connections[k]] = k
            /\ pc[connections[k]] \notin {"absent", "waiting", "insert"}

(* While one takes over, no other's entry is in its place.                 *)
HolderInv ==
    \A d \in Conn :
        /\ pc[d] \in {"takeOver", "disconnect", "awaitOld"} =>
             connections[ClientOf[d]] \in {d, None}
        /\ pc[d] \in {"takeOver", "disconnect"} =>
             other[d] # d /\ ClientOf[other[d]] = ClientOf[d]

Replaced(c) == \E d \in Conn : pc[d] \in {"takeOver", "disconnect"} /\ other[d] = c

EntryInv ==
    \A c \in Conn \ orphaned :
        pc[c] \in Present /\ ~cancelled[c] => connections[ClientOf[c]] = c \/ Replaced(c)

SessionInv ==
    \A c \in Conn \ orphaned :
        pc[c] \in Present \cup {"insert"} /\ ~cancelled[c] =>
            sessions[ClientOf[c]] = session[c] \/ Challenged(c)

ServedInv == WaitInv /\ EntriesInv /\ HolderInv /\ EntryInv /\ SessionInv

LEMMA InitServed == ServersGiven /\ Init => ServedInv
BY InitWaits DEF ServersGiven, Init, ServedInv, EntriesInv, HolderInv, EntryInv, SessionInv, Present

LEMMA ServedShapes ==
  ASSUME ServersGiven, ServedInv
  PROVE  /\ pc \in [Conn -> Stage] /\ other \in [Conn -> Conn \cup {None}]
         /\ connections \in [Client -> Conn \cup {None}] /\ creation \in Conn \cup {None}
         /\ sessions \in [Client -> Conn \cup {None}] /\ session \in [Conn -> Conn \cup {None}]
         /\ cancelled \in [Conn -> BOOLEAN] /\ orphaned \subseteq Conn
         /\ None \notin Conn /\ ClientOf \in [Conn -> Client]
         /\ \A c \in Conn : pc[c] \in {"insert", "takeOver", "disconnect", "awaitOld"} <=> creation = c
BY DEF TypeOK, ServersGiven, ServedInv, WaitInv, Tasks, Creating

(* The steps that leave the tables alone and let nobody past a lock.       *)
QuietStep ==
    /\ UNCHANGED <<connections, sessions, orphaned>>
    /\ \A d \in Conn :
         /\ cancelled[d] => cancelled'[d]
         /\ \/ pc'[d] = pc[d] /\ session'[d] = session[d] /\ other'[d] = other[d]
            \/ pc[d] = "absent" /\ pc'[d] = "waiting"
            \/ pc[d] = "created" /\ pc'[d] = "running" /\ session'[d] = session[d]
            \/ /\ pc[d] \notin {"absent", "waiting", "insert", "takeOver", "disconnect",
                                "awaitOld"}
               /\ pc'[d] \notin {"absent", "waiting", "insert", "takeOver", "disconnect",
                                 "awaitOld", "created", "running"}

LEMMA QuietServed ==
  ASSUME ServersGiven, ServedInv, [Next]_vars, QuietStep
  PROVE  ServedInv'
<1>. USE DEF QuietStep
<1>1. WaitInv'
  BY NextWaits DEF ServedInv
<1>2. EntriesInv'
  <2>. SUFFICES ASSUME NEW k \in Client, connections[k] # None
                PROVE  /\ ClientOf[connections[k]] = k
                       /\ pc'[connections[k]] \notin {"absent", "waiting", "insert"}
    BY DEF EntriesInv
  <2>1. connections[k] \in Conn /\ pc[connections[k]] \notin {"absent", "waiting", "insert"}
        /\ ClientOf[connections[k]] = k
    BY ServedShapes DEF ServedInv, EntriesInv
  <2>. QED  BY <2>1
<1>3. \A d \in Conn : pc'[d] \in {"insert", "takeOver", "disconnect", "awaitOld"} =>
                        pc[d] = pc'[d] /\ other'[d] = other[d]
  OBVIOUS
<1>4. \A d \in Conn : pc[d] \in {"insert", "takeOver", "disconnect", "awaitOld"} =>
                        pc'[d] = pc[d] /\ other'[d] = other[d]
  OBVIOUS
<1>5. \A d \in Conn : pc'[d] \in Present \cup {"insert"} =>
                        pc[d] \in Present \cup {"insert"} /\ session'[d] = session[d]
                        /\ (pc'[d] \in Present => pc[d] \in Present)
  BY DEF Present
<1>6. HolderInv'
  BY <1>3 DEF ServedInv, HolderInv
<1>7. \A c \in Conn : Replaced(c) => Replaced(c)'
  BY <1>4 DEF Replaced
<1>8. \A c \in Conn : Challenged(c) => Challenged(c)'
  BY <1>4 DEF Challenged
<1>9. EntryInv'
  BY <1>5, <1>7 DEF ServedInv, EntryInv
<1>10. SessionInv'
  BY <1>5, <1>8 DEF ServedInv, SessionInv
<1>. QED  BY <1>1, <1>2, <1>6, <1>9, <1>10 DEF ServedInv

(* The lock of creation has one holder.                                    *)
LEMMA OneHolder ==
  ASSUME ServersGiven, ServedInv, NEW c \in Conn,
         creation = c \/ (creation = None /\ pc[c] = "waiting")
  PROVE  /\ \A d \in Conn \ {c} : pc[d] \notin {"insert", "takeOver", "disconnect", "awaitOld"}
         /\ pc[c] \notin {"takeOver", "disconnect"} => \A d \in Conn : ~Replaced(d)
         /\ pc[c] \in {"takeOver", "disconnect"} => \A d \in Conn : Replaced(d) => other[c] = d
         /\ \A d \in Conn : d = c \/ ClientOf[d] # ClientOf[c] => ~Challenged(d)
         /\ pc[c] \in {"waiting", "awaitOld"} => \A d \in Conn : ~Challenged(d)
<1>1. \A d \in Conn \ {c} : pc[d] \notin {"insert", "takeOver", "disconnect", "awaitOld"}
  BY ServedShapes
<1>2. pc[c] \notin {"takeOver", "disconnect"} => \A d \in Conn : ~Replaced(d)
  BY <1>1 DEF Replaced
<1>3. pc[c] \in {"takeOver", "disconnect"} => \A d \in Conn : Replaced(d) => other[c] = d
  BY <1>1 DEF Replaced
<1>4. \A d \in Conn : d = c \/ ClientOf[d] # ClientOf[c] => ~Challenged(d)
  BY <1>1 DEF Challenged
<1>5. pc[c] \in {"waiting", "awaitOld"} => \A d \in Conn : ~Challenged(d)
  BY <1>1 DEF Challenged
<1>. QED  BY <1>1, <1>2, <1>3, <1>4, <1>5

LEMMA InsertSessionServed ==
  ASSUME ServersGiven, ServedInv, NEW c \in Conn, InsertSession(c) PROVE ServedInv'
<1>1. /\ WaitInv' /\ pc[c] = "waiting" /\ creation = None
      /\ UNCHANGED <<connections, other, cancelled, orphaned>>
      /\ pc' = [pc EXCEPT ![c] = "insert"] /\ ClientOf[c] \in Client
      /\ sessions' = [sessions EXCEPT ![ClientOf[c]] = session'[c]]
      /\ \A d \in Conn \ {c} : session'[d] = session[d]
  BY NextWaits, ServedShapes DEF ServedInv, InsertSession, Counted, Goto, At, Next, Serve
<1>2. \A d \in Conn \ {c} : pc'[d] = pc[d] /\ ~Replaced(d) /\ ~Challenged(d)
  BY <1>1, OneHolder, ServedShapes
<1>3. pc'[c] = "insert"
  BY <1>1, ServedShapes
<1>4. EntriesInv'
  <2>. SUFFICES ASSUME NEW k \in Client, connections[k] # None
                PROVE  /\ ClientOf[connections[k]] = k
                       /\ pc'[connections[k]] \notin {"absent", "waiting", "insert"}
    BY <1>1 DEF EntriesInv
  <2>1. connections[k] \in Conn /\ pc[connections[k]] \notin {"absent", "waiting", "insert"}
        /\ ClientOf[connections[k]] = k
    BY ServedShapes DEF ServedInv, EntriesInv
  <2>. QED  BY <1>1, <1>2, <2>1
<1>5. HolderInv'
  BY <1>1, <1>2, <1>3, OneHolder DEF HolderInv
<1>6. EntryInv'
  BY <1>1, <1>2, <1>3 DEF ServedInv, EntryInv, Present
<1>7. SessionInv'
  <2>1. sessions'[ClientOf[c]] = session'[c]
    BY <1>1, ServedShapes
  <2>. SUFFICES ASSUME NEW d \in Conn \ orphaned, d # c,
                       pc'[d] \in Present \cup {"insert"}, ~cancelled'[d]
                PROVE  sessions'[ClientOf[d]] = session'[d] \/ Challenged(d)'
    BY <1>1, <2>1 DEF SessionInv
  <2>2. CASE ClientOf[d] = ClientOf[c]
    BY <1>3, <2>2 DEF Challenged
  <2>3. CASE ClientOf[d] # ClientOf[c]
    BY <1>1, <1>2, <2>3, ServedShapes DEF ServedInv, SessionInv
  <2>. QED  BY <2>2, <2>3
<1>. QED  BY <1>1, <1>4, <1>5, <1>6, <1>7 DEF ServedInv

LEMMA InsertConnectionServed ==
  ASSUME ServersGiven, ServedInv, NEW c \in Conn, InsertConnection(c) PROVE ServedInv'
<1>. DEFINE k == ClientOf[c]  existing == connections[k]
<1>1. /\ WaitInv' /\ pc[c] = "insert" /\ creation = c
      /\ UNCHANGED <<sessions, session, cancelled, orphaned>>
      /\ pc' = [pc EXCEPT ![c] = IF existing = None THEN "created" ELSE "takeOver"]
      /\ connections' = [connections EXCEPT ![k] = c]
      /\ other' = [other EXCEPT ![c] = existing]
      /\ k \in Client
  <2>1. /\ pc[c] = "insert" /\ UNCHANGED <<sessions, session, cancelled, orphaned>>
        /\ pc' = [pc EXCEPT ![c] = IF existing = None THEN "created" ELSE "takeOver"]
        /\ connections' = [connections EXCEPT ![k] = c]
        /\ other' = [other EXCEPT ![c] = existing]
    BY DEF InsertConnection, Goto, At, history
  <2>2. WaitInv'
    BY NextWaits DEF ServedInv, Next, Serve
  <2>. QED  BY <2>1, <2>2, ServedShapes
<1>0. creation = c /\ pc[c] = "insert"
  BY <1>1
<1>2. \A d \in Conn \ {c} : /\ pc'[d] = pc[d]
                            /\ pc[d] \notin {"insert", "takeOver", "disconnect", "awaitOld"}
  BY <1>1, OneHolder, ServedShapes
<1>3. \A d \in Conn : ~Replaced(d)
  BY <1>0, OneHolder
<1>4. /\ pc'[c] = IF existing = None THEN "created" ELSE "takeOver"
      /\ connections'[k] = c /\ other'[c] = existing
      /\ \A l \in Client \ {k} : connections'[l] = connections[l]
  BY <1>1, ServedShapes
<1>5. existing # None =>
        /\ existing \in Conn /\ ClientOf[existing] = k /\ existing # c
  BY <1>1, ServedShapes DEF ServedInv, EntriesInv
<1>6. EntriesInv'
  <2>. SUFFICES ASSUME NEW l \in Client, connections'[l] # None
                PROVE  /\ ClientOf[connections'[l]] = l
                       /\ pc'[connections'[l]] \notin {"absent", "waiting", "insert"}
    BY DEF EntriesInv
  <2>1. CASE l = k
    BY <1>4, <2>1
  <2>2. CASE l # k
    <3>1. connections'[l] = connections[l] /\ connections[l] \in Conn
          /\ pc[connections[l]] \notin {"absent", "waiting", "insert"}
          /\ ClientOf[connections[l]] = l
      BY <1>4, <2>2, ServedShapes DEF ServedInv, EntriesInv
    <3>2. connections[l] # c
      BY <2>2, <3>1
    <3>. QED  BY <1>2, <3>1, <3>2
  <2>. QED  BY <2>1, <2>2
<1>7. HolderInv'
  BY <1>2, <1>4, <1>5 DEF HolderInv
<1>8. ASSUME NEW d \in Conn \ orphaned, d # c, pc'[d] \in Present, ~cancelled'[d]
      PROVE  connections[ClientOf[d]] = d
  BY <1>1, <1>2, <1>3, <1>8 DEF ServedInv, EntryInv
<1>9. EntryInv'
  <2>. SUFFICES ASSUME NEW d \in Conn \ orphaned, d # c, pc'[d] \in Present, ~cancelled'[d]
                PROVE  connections'[ClientOf[d]] = d \/ Replaced(d)'
    BY <1>1, <1>4 DEF EntryInv
  <2>1. connections[ClientOf[d]] = d /\ d # None
    BY <1>8, ServedShapes
  <2>2. CASE ClientOf[d] = k
    <3>1. existing = d /\ pc'[c] = "takeOver" /\ other'[c] = d
      BY <1>4, <2>1, <2>2
    <3>. QED  BY <3>1 DEF Replaced
  <2>3. CASE ClientOf[d] # k
    BY <1>4, <2>1, <2>3, ServedShapes
  <2>. QED  BY <2>2, <2>3
<1>10. SessionInv'
  <2>. SUFFICES ASSUME NEW d \in Conn \ orphaned,
                       pc'[d] \in Present \cup {"insert"}, ~cancelled'[d]
                PROVE  sessions[ClientOf[d]] = session[d] \/ Challenged(d)'
    BY <1>1 DEF SessionInv
  <2>1. CASE d = c
    <3>1. sessions[k] = session[c] \/ Challenged(c)
      BY <1>1, <2>1 DEF ServedInv, SessionInv
    <3>. QED  BY <1>0, <2>1, <3>1, OneHolder
  <2>2. CASE d # c /\ ClientOf[d] # k
    <3>1. sessions[ClientOf[d]] = session[d] \/ Challenged(d)
      BY <1>1, <1>2, <2>2 DEF ServedInv, SessionInv
    <3>. QED  BY <1>0, <2>2, <3>1, OneHolder
  <2>3. CASE d # c /\ ClientOf[d] = k
    <3>1. connections[k] = d /\ d # None
      BY <1>2, <1>8, <2>3, ServedShapes
    <3>2. pc'[c] = "takeOver"
      BY <1>4, <3>1
    <3>. QED  BY <2>3, <3>2 DEF Challenged
  <2>. QED  BY <2>1, <2>2, <2>3
<1>. QED  BY <1>1, <1>6, <1>7, <1>9, <1>10 DEF ServedInv

LEMMA MarkTakenOverServed ==
  ASSUME ServersGiven, ServedInv, NEW c \in Conn, MarkTakenOver(c) PROVE ServedInv'
<1>1. /\ WaitInv' /\ pc[c] = "takeOver"
      /\ UNCHANGED <<connections, sessions, session, other, cancelled, orphaned>>
      /\ pc' = [pc EXCEPT ![c] = "disconnect"]
  BY NextWaits DEF ServedInv, MarkTakenOver, Goto, At, Next, Serve, tables, locals, history
<1>2. /\ \A d \in Conn \ {c} : pc'[d] = pc[d]
      /\ pc'[c] = "disconnect"
  BY <1>1, ServedShapes
<1>3. EntriesInv'
  <2>. SUFFICES ASSUME NEW k \in Client, connections[k] # None
                PROVE  /\ ClientOf[connections[k]] = k
                       /\ pc'[connections[k]] \notin {"absent", "waiting", "insert"}
    BY <1>1 DEF EntriesInv
  <2>1. connections[k] \in Conn /\ pc[connections[k]] \notin {"absent", "waiting", "insert"}
        /\ ClientOf[connections[k]] = k
    BY ServedShapes DEF ServedInv, EntriesInv
  <2>. QED  BY <1>2, <2>1
<1>4. HolderInv'
  BY <1>1, <1>2 DEF ServedInv, HolderInv
<1>5. \A d \in Conn : Replaced(d) => Replaced(d)'
  BY <1>1, <1>2 DEF Replaced
<1>6. \A d \in Conn : Challenged(d) => Challenged(d)'
  BY <1>1, <1>2 DEF Challenged
<1>7. EntryInv'
  BY <1>1, <1>2, <1>5 DEF ServedInv, EntryInv, Present
<1>8. SessionInv'
  BY <1>1, <1>2, <1>6 DEF ServedInv, SessionInv, Present
<1>. QED  BY <1>1, <1>3, <1>4, <1>7, <1>8 DEF ServedInv

(* The one told to end was the only other one that could be served.        *)
LEMMA CancelTakenOverServed ==
  ASSUME ServersGiven, ServedInv, NEW c \in Conn, CancelTakenOver(c) PROVE ServedInv'
<1>. DEFINE k == ClientOf[c]  victim == other[c]
<1>1. /\ WaitInv' /\ pc[c] = "disconnect" /\ creation = c
      /\ UNCHANGED <<connections, sessions, session, other, orphaned>>
      /\ pc' = [pc EXCEPT ![c] = IF NothingToAwait(victim) THEN "created" ELSE "awaitOld"]
      /\ cancelled' = [cancelled EXCEPT ![victim] = TRUE]
      /\ k \in Client /\ connections[k] \in {c, None} /\ victim # c /\ None \notin Conn
  BY NextWaits, ServedShapes
  DEF ServedInv, HolderInv, CancelTakenOver, Goto, At, Next, Serve, locals, history
<1>2. /\ \A d \in Conn \ {c} : /\ pc'[d] = pc[d]
                               /\ pc[d] \notin {"insert", "takeOver", "disconnect", "awaitOld"}
      /\ pc'[c] \in {"created", "awaitOld"}
  BY <1>1, OneHolder, ServedShapes
<1>0. creation = c /\ pc[c] = "disconnect"
  BY <1>1
<1>3. \A d \in Conn : Replaced(d) => d = victim
  BY <1>0, OneHolder
<1>4. \A d \in Conn : ~cancelled'[d] => ~cancelled[d] /\ ~Replaced(d)
  BY <1>1, <1>3, ServedShapes
<1>5. EntriesInv'
  <2>. SUFFICES ASSUME NEW l \in Client, connections[l] # None
                PROVE  /\ ClientOf[connections[l]] = l
                       /\ pc'[connections[l]] \notin {"absent", "waiting", "insert"}
    BY <1>1 DEF EntriesInv
  <2>1. connections[l] \in Conn /\ pc[connections[l]] \notin {"absent", "waiting", "insert"}
        /\ ClientOf[connections[l]] = l
    BY ServedShapes DEF ServedInv, EntriesInv
  <2>. QED  BY <1>2, <2>1
<1>6. HolderInv'
  BY <1>1, <1>2 DEF HolderInv
<1>7. ASSUME NEW d \in Conn \ orphaned, pc'[d] \in Present, ~cancelled'[d]
      PROVE  connections[ClientOf[d]] = d
  <2>1. pc[d] \in Present /\ ~cancelled[d] /\ ~Replaced(d)
    BY <1>1, <1>2, <1>4, <1>7 DEF Present
  <2>. QED  BY <2>1 DEF ServedInv, EntryInv
<1>8. EntryInv'
  BY <1>1, <1>7 DEF EntryInv
<1>9. SessionInv'
  <2>. SUFFICES ASSUME NEW d \in Conn \ orphaned,
                       pc'[d] \in Present \cup {"insert"}, ~cancelled'[d]
                PROVE  sessions[ClientOf[d]] = session[d]
    BY <1>1 DEF SessionInv
  <2>1. pc'[d] \in Present /\ pc[d] \in Present
    BY <1>1, <1>2 DEF Present
  <2>2. connections[ClientOf[d]] = d
    BY <1>7, <2>1
  <2>3. d = c \/ ClientOf[d] # k
    BY <1>1, <2>2
  <2>4. sessions[ClientOf[d]] = session[d] \/ Challenged(d)
    BY <1>4, <2>1 DEF ServedInv, SessionInv
  <2>. QED  BY <1>0, <2>3, <2>4, OneHolder
<1>. QED  BY <1>1, <1>5, <1>6, <1>8, <1>9 DEF ServedInv

LEMMA AwaitTakenOverServed ==
  ASSUME ServersGiven, ServedInv, NEW c \in Conn, AwaitTakenOver(c) PROVE ServedInv'
<1>1. /\ WaitInv' /\ pc[c] = "awaitOld" /\ creation = c
      /\ UNCHANGED <<connections, sessions, session, other, cancelled, orphaned>>
      /\ pc' = [pc EXCEPT ![c] = "created"]
  <2>1. /\ pc[c] = "awaitOld" /\ pc' = [pc EXCEPT ![c] = "created"]
        /\ UNCHANGED <<connections, sessions, session, other, cancelled, orphaned>>
    BY DEF AwaitTakenOver, Goto, At, locals, history
  <2>2. WaitInv'
    BY NextWaits DEF ServedInv, Next, Serve
  <2>. QED  BY <2>1, <2>2, ServedShapes
<1>2. /\ \A d \in Conn \ {c} : /\ pc'[d] = pc[d]
                               /\ pc[d] \notin {"insert", "takeOver", "disconnect", "awaitOld"}
      /\ pc'[c] = "created"
  BY <1>1, OneHolder, ServedShapes
<1>3. \A d \in Conn : ~Replaced(d) /\ ~Challenged(d)
  BY <1>1, OneHolder
<1>4. EntriesInv'
  <2>. SUFFICES ASSUME NEW l \in Client, connections[l] # None
                PROVE  /\ ClientOf[connections[l]] = l
                       /\ pc'[connections[l]] \notin {"absent", "waiting", "insert"}
    BY <1>1 DEF EntriesInv
  <2>1. connections[l] \in Conn /\ pc[connections[l]] \notin {"absent", "waiting", "insert"}
        /\ ClientOf[connections[l]] = l
    BY ServedShapes DEF ServedInv, EntriesInv
  <2>. QED  BY <1>2, <2>1
<1>5. HolderInv'
  BY <1>2 DEF HolderInv
<1>6. EntryInv'
  BY <1>1, <1>2, <1>3 DEF ServedInv, EntryInv, Present
<1>7. SessionInv'
  BY <1>1, <1>2, <1>3 DEF ServedInv, SessionInv, Present
<1>. QED  BY <1>1, <1>4, <1>5, <1>6, <1>7 DEF ServedInv

(* The clean-up of one that was not taken over: what it removes it removes *)
(* from its own connection or leaves an orphan.                            *)
LEMMA RemovalServed ==
  ASSUME ServersGiven, ServedInv, NEW c \in Conn, RemoveConnection(c) \/ RemoveSession(c)
  PROVE  ServedInv'
<1>. DEFINE k == ClientOf[c]
<1>1. /\ WaitInv' /\ pc[c] \in {"remove", "forget"} /\ k \in Client
      /\ UNCHANGED <<session, other, cancelled>> /\ orphaned \subseteq orphaned'
      /\ \A d \in Conn \ {c} : pc'[d] = pc[d]
      /\ pc'[c] \in {"find", "stopOther", "close"}
  <2>1. WaitInv' /\ k \in Client
    BY NextWaits, ServedShapes DEF ServedInv, Next, Serve
  <2>2. /\ pc[c] \in {"remove", "forget"} /\ UNCHANGED <<session, other, cancelled>>
        /\ orphaned \subseteq orphaned'
    BY DEF RemoveConnection, RemoveSession, At, locals
  <2>3. \E p \in {"find", "stopOther", "close"} : pc' = [pc EXCEPT ![c] = p]
    BY DEF RemoveConnection, RemoveSession, Goto
  <2>. QED  BY <2>1, <2>2, <2>3, ServedShapes
<1>2. \A l \in Client :
        /\ connections'[l] = connections[l] \/ connections'[l] = None
        /\ connections'[l] # connections[l] => connections[l] \in orphaned' \cup {c, None}
  BY <1>1, ServedShapes DEF RemoveConnection, RemoveSession
<1>3. \A d \in Conn : d # c /\ sessions'[ClientOf[d]] # sessions[ClientOf[d]] =>
                        d \in orphaned' \/ sessions[ClientOf[d]] # session[d]
  BY <1>1, ServedShapes DEF RemoveConnection, RemoveSession
<1>4. /\ \A d \in Conn : Replaced(d) => Replaced(d)'
      /\ \A d \in Conn : Challenged(d) => Challenged(d)'
  BY <1>1 DEF Replaced, Challenged
<1>5. EntriesInv'
  <2>. SUFFICES ASSUME NEW l \in Client, connections'[l] # None
                PROVE  /\ ClientOf[connections'[l]] = l
                       /\ pc'[connections'[l]] \notin {"absent", "waiting", "insert"}
    BY DEF EntriesInv
  <2>1. connections'[l] = connections[l] /\ connections[l] \in Conn
        /\ pc[connections[l]] \notin {"absent", "waiting", "insert"}
        /\ ClientOf[connections[l]] = l
    BY <1>2, ServedShapes DEF ServedInv, EntriesInv
  <2>. QED  BY <1>1, <2>1
<1>6. HolderInv'
  BY <1>1, <1>2, ServedShapes DEF ServedInv, HolderInv
<1>7. EntryInv'
  <2>. SUFFICES ASSUME NEW d \in Conn \ orphaned', pc'[d] \in Present, ~cancelled'[d]
                PROVE  connections'[ClientOf[d]] = d \/ Replaced(d)'
    BY DEF EntryInv
  <2>1. d # c /\ pc[d] \in Present /\ ~cancelled[d] /\ d # None
    BY <1>1, ServedShapes DEF Present
  <2>2. connections[ClientOf[d]] = d \/ Replaced(d)
    BY <1>1, <2>1 DEF ServedInv, EntryInv
  <2>. QED  BY <1>2, <1>4, <2>1, <2>2, ServedShapes
<1>8. SessionInv'
  <2>. SUFFICES ASSUME NEW d \in Conn \ orphaned',
                       pc'[d] \in Present \cup {"insert"}, ~cancelled'[d]
                PROVE  sessions'[ClientOf[d]] = session'[d] \/ Challenged(d)'
    BY DEF SessionInv
  <2>1. d # c /\ pc[d] \in Present \cup {"insert"} /\ ~cancelled[d]
    BY <1>1 DEF Present
  <2>2. sessions[ClientOf[d]] = session[d] \/ Challenged(d)
    BY <1>1, <2>1 DEF ServedInv, SessionInv
  <2>. QED  BY <1>1, <1>3, <1>4, <2>1, <2>2
<1>. QED  BY <1>1, <1>5, <1>6, <1>7, <1>8 DEF ServedInv

LEMMA RestServed ==
  ASSUME ServersGiven, ServedInv, NEW c \in Conn,
         \/ Environment(c) \/ SetTask(c) \/ GoOn \/ CancelExpired
         \/ Run(c) \/ EndLoop(c) \/ ReadReason(c) \/ FindConnection(c)
         \/ StopOther(c) \/ AwaitOther(c) \/ Close(c)
  PROVE  ServedInv'
<1>. SUFFICES QuietStep
  BY QuietServed DEF Next, Environment, Serve
<1>. USE ServedShapes DEF QuietStep, At, Goto, tables, locals, history
<1>1. CASE Connect(c)
  BY <1>1 DEF Connect
<1>2. CASE Leave(c)
  BY <1>2 DEF Leave
<1>3. CASE Refuse(c)
  BY <1>3 DEF Refuse
<1>4. CASE Expire(c)
  BY <1>4 DEF Expire
<1>5. CASE SetTask(c)
  BY <1>5 DEF SetTask
<1>6. CASE GoOn
  BY <1>6 DEF GoOn
<1>7. CASE CancelExpired
  BY <1>7 DEF CancelExpired
<1>8. CASE Run(c)
  BY <1>8 DEF Run
<1>9. CASE EndLoop(c)
  BY <1>9 DEF EndLoop
<1>10. CASE ReadReason(c)
  BY <1>10 DEF ReadReason
<1>11. CASE FindConnection(c)
  BY <1>11 DEF FindConnection
<1>12. CASE StopOther(c)
  BY <1>12 DEF StopOther
<1>13. CASE AwaitOther(c)
  BY <1>13 DEF AwaitOther
<1>14. CASE Close(c)
  BY <1>14 DEF Close
<1>. QED
  BY <1>1, <1>2, <1>3, <1>4, <1>5, <1>6, <1>7, <1>8, <1>9, <1>10, <1>11, <1>12, <1>13, <1>14
  DEF Environment

LEMMA NextServed == ServersGiven /\ ServedInv /\ [Next]_vars => ServedInv'
<1>. SUFFICES ASSUME ServersGiven, ServedInv, [Next]_vars PROVE ServedInv'
  OBVIOUS
<1>1. CASE UNCHANGED vars
  <2>1. QuietStep
    BY <1>1 DEF QuietStep, vars, tables, locals, history
  <2>. QED  BY <2>1, QuietServed
<1>2. CASE Next
  <2>1. ASSUME NEW c \in Conn, Serve(c) PROVE ServedInv'
    BY <2>1, InsertSessionServed, InsertConnectionServed, MarkTakenOverServed,
       CancelTakenOverServed, AwaitTakenOverServed, RemovalServed, RestServed DEF Serve
  <2>2. ASSUME NEW c \in Conn, Environment(c) \/ SetTask(c) PROVE ServedInv'
    BY <2>2, RestServed
  <2>3. ASSUME GoOn \/ CancelExpired PROVE ServedInv'
    <3>1. PICK c \in Conn : TRUE
      BY <2>3, ServedShapes DEF GoOn, CancelExpired, ServedInv, WaitInv, TypeOK
    <3>. QED  BY <2>3, <3>1, RestServed
  <2>. QED  BY <1>2, <2>1, <2>2, <2>3 DEF Next
<1>. QED  BY <1>1, <1>2

LEMMA Served ==
  ASSUME ServersGiven, ServedInv PROVE OneServed /\ ServedListed
<1>1. ASSUME NEW c \in Conn \ orphaned, At(c, "running"), ~cancelled[c]
      PROVE  connections[ClientOf[c]] = c \/ Replaced(c)
  BY <1>1 DEF ServedInv, EntryInv, Present, At
<1>2. ASSUME NEW c \in Conn, NEW e \in Conn,
             pc[e] \in {"takeOver", "disconnect"}, other[e] = c
      PROVE  /\ e # c /\ ClientOf[e] = ClientOf[c] /\ connections[ClientOf[c]] \in {e, None}
             /\ creation = e
  BY <1>2, ServedShapes DEF ServedInv, HolderInv
<1>3. OneServed
  <2>. SUFFICES ASSUME NEW c \in Conn \ orphaned, NEW d \in Conn \ orphaned,
                       At(c, "running"), At(d, "running"), ~cancelled[c], ~cancelled[d],
                       ClientOf[c] = ClientOf[d]
                PROVE  c = d
    BY DEF OneServed
  <2>1. ASSUME NEW x \in Conn, NEW y \in Conn, Replaced(x), ClientOf[y] = ClientOf[x],
               At(y, "running")
        PROVE  connections[ClientOf[y]] # y
    <3>1. PICK e \in Conn : pc[e] \in {"takeOver", "disconnect"} /\ other[e] = x
      BY <2>1 DEF Replaced
    <3>2. connections[ClientOf[x]] \in {e, None} /\ e # y
      BY <1>2, <2>1, <3>1 DEF At
    <3>. QED  BY <2>1, <3>2, ServedShapes
  <2>2. CASE Replaced(c) /\ Replaced(d)
    <3>1. PICK e \in Conn : pc[e] \in {"takeOver", "disconnect"} /\ other[e] = c
      BY <2>2 DEF Replaced
    <3>2. PICK f \in Conn : pc[f] \in {"takeOver", "disconnect"} /\ other[f] = d
      BY <2>2 DEF Replaced
    <3>. QED  BY <1>2, <3>1, <3>2
  <2>3. CASE ~Replaced(c) /\ ~Replaced(d)
    BY <1>1, <2>3
  <2>4. CASE Replaced(c) /\ ~Replaced(d)
    BY <1>1, <2>1, <2>4
  <2>5. CASE ~Replaced(c) /\ Replaced(d)
    BY <1>1, <2>1, <2>5
  <2>. QED  BY <2>2, <2>3, <2>4, <2>5
<1>4. ServedListed
  <2>. SUFFICES ASSUME NEW c \in Conn \ orphaned, At(c, "running"), ~cancelled[c]
                PROVE  \/ connections[ClientOf[c]] = c /\ sessions[ClientOf[c]] = session[c]
                       \/ Challenged(c)
    BY DEF ServedListed
  <2>1. sessions[ClientOf[c]] = session[c] \/ Challenged(c)
    BY DEF ServedInv, SessionInv, Present, At
  <2>2. Replaced(c) => Challenged(c)
    BY <1>2 DEF Replaced, Challenged
  <2>. QED  BY <1>1, <2>1, <2>2
<1>. QED  BY <1>3, <1>4

(* A client id is served on one connection at a time, whatever the broker  *)
(* stops by itself and whatever links end by themselves, unless another's  *)
(* clean-up has removed its entry.                                         *)
THEOREM ServedCorrect == ASSUME ServersGiven PROVE Spec => []OneServed
<1>1. ServedInv => OneServed
  BY Served
<1>. QED  BY <1>1, InitServed, NextServed, PTL DEF Spec

(* What is served is in both tables until a newer one takes its place, with*)
(* the same exception.                                                     *)
THEOREM ListedCorrect == ASSUME ServersGiven PROVE Spec => []ServedListed
<1>1. ServedInv => ServedListed
  BY Served
<1>. QED  BY <1>1, InitServed, NextServed, PTL DEF Spec
=============================================================================
