------------------------------ MODULE KeepLive ------------------------------
(***************************************************************************)
(* The guardian: the KeepLive object of livetoolservice.  One action per   *)
(* timer callback and per kind of datagram read; the constructor and the   *)
(* destructor are operators that MyService's actions use.                  *)
(***************************************************************************)
EXTENDS Host

CONSTANTS
  TimeoutCount,     \* App::TimeoutCount
  DestoryApp,       \* App::DestoryApp: kill the application when it is silent
  ExitDestoryApp,   \* App::ExitDestoryApp: kill it when the guardian is deleted
  MaxReStartCount   \* bound: the restart counter stops counting here

ASSUME TimeoutAssumption == TimeoutCount \in Nat
ASSUME DestroyAssumption == DestoryApp \in BOOLEAN /\ ExitDestoryApp \in BOOLEAN
ASSUME ReStartAssumption == MaxReStartCount \in Nat

VARIABLES
  service,       \* "down": no process; "stopped": process, no KeepLive; "guarding"
  count,         \* heartbeats without an answer; it stops at TimeoutCount
  ok,            \* the last heartbeat was answered
  packetID,      \* the identifier of the heartbeat that waits for an answer
  keeplive,      \* _keeplive: FALSE while the guard is paused
  heart,         \* _timerHeart is active
  shots,         \* the single-shot timers that have not fired
  reStartCount,  \* App::ReStartCount
  ini            \* ReStartCount in the configuration file

guardVars == <<service, count, ok, packetID, keeplive, heart, shots>>
configVars == <<reStartCount, ini>>

Shots == {"killOther", "startApp", "beginTimeOut"}

Guarding == service = "guarding"

-----------------------------------------------------------------------------
(* Operators shared by the handlers.                                       *)

\* killApp with the application's buffer as the caller leaves it.
killProcess(inbox) ==
  IF Platform = "windows" THEN runTaskkill(inbox) ELSE killAll(inbox)

\* Mutant of killApp: the process list is read the wrong way.
killAppIfAbsent(inbox) ==
  \/ DestoryApp /\ FALSE \in IsExistProcess /\ killProcess(inbox)
  \/ /\ ~DestoryApp \/ TRUE \in IsExistProcess
     /\ toApp' = inbox
     /\ UNCHANGED <<proc, bound, taskkill>>

killApp(inbox) ==
  \/ /\ DestoryApp /\ TRUE \in IsExistProcess
     /\ killProcess(inbox)
  \/ /\ ~DestoryApp \/ FALSE \in IsExistProcess
     /\ toApp' = inbox
     /\ UNCHANGED <<proc, bound, taskkill>>

\* One more launch, counted and written to the configuration file.
CountLaunch(launches) ==
  /\ reStartCount' = IF launches < MaxReStartCount THEN launches + 1 ELSE launches
  /\ ini' = reStartCount'

\* Mutant of launchUnlessExists: the process list is not looked at.
launchAlways(launches) ==
  IF AppInstalled THEN startDetached /\ CountLaunch(launches)
  ELSE reStartCount' = launches /\ UNCHANGED <<proc, ini>>

(* The body of startApp, "launches" being the counter it starts from: the  *)
(* launch is skipped when the process list shows the application or its    *)
(* file is missing, and counted whether it succeeds or not; the counters   *)
(* are reset and the heartbeat rearmed on every path.                      *)
launchUnlessExists(launches) ==
  \/ /\ TRUE \in IsExistProcess \/ ~AppInstalled
     /\ reStartCount' = launches
     /\ UNCHANGED <<proc, ini>>
  \/ /\ FALSE \in IsExistProcess /\ AppInstalled
     /\ startDetached
     /\ CountLaunch(launches)

\* Mutant of beginTimeOutTimer: nothing is scheduled.
neverRearm(pending) == shots' = pending

beginTimeOutTimer(pending) == shots' = pending \cup {"beginTimeOut"}

startAppBody(launches, pending) ==
  /\ launchUnlessExists(launches)
  /\ count' = 0
  /\ ok' = TRUE
  /\ beginTimeOutTimer(pending)

\* Mutant of Construct: initVar's ReStartCount = 0 comes after readConfig.
ConstructFromZero ==
  /\ service' = "guarding"
  /\ packetID' = NoPacket
  /\ keeplive' = TRUE
  /\ heart' = FALSE
  /\ startAppBody(0, {})

\* KeepLive::KeepLive: initVar reads the file, initService, startApp.
Construct ==
  /\ service' = "guarding"
  /\ packetID' = NoPacket
  /\ keeplive' = TRUE
  /\ heart' = FALSE
  /\ startAppBody(ini, {})

\* The fields of an object that no longer exists, in one fixed state.
Forget ==
  /\ count' = 0
  /\ ok' = FALSE
  /\ packetID' = NoPacket
  /\ keeplive' = TRUE
  /\ heart' = FALSE
  /\ shots' = {}
  /\ reStartCount' = 0
  /\ sock' = NoPort
  /\ toSvc' = <<>>
  /\ UNCHANGED ini

\* KeepLive::~KeepLive: the timers and the socket end with the object.
Destroy ==
  /\ \/ ExitDestoryApp /\ killApp(toApp)
     \/ ~ExitDestoryApp /\ UNCHANGED <<proc, bound, taskkill, toApp>>
  /\ Forget

-----------------------------------------------------------------------------
(* The heartbeat timer.                                                    *)

\* Identifiers on their way in some datagram.
InFlight ==
  {toApp[i].packetID : i \in {j \in DOMAIN toApp : toApp[j].type = "heart"}}
    \cup {toSvc[i].of : i \in {j \in DOMAIN toSvc : toSvc[j].type = "reply"}}

(* send_heart repeats the identifier that waits for an answer, or takes    *)
(* the clock's: later than any sent before, so of those unused any stands  *)
(* for it, and the least is taken.                                         *)
Unused == PacketID \ InFlight
HeartID ==
  IF packetID # NoPacket THEN {packetID}
  ELSE {id \in Unused : \A other \in Unused : id <= other}

\* Mutant of LocalPort: the port is taken before the socket is bound.
UnboundPort == {sock}

\* The first datagram sent gives the socket its local port.
LocalPort == IF sock # NoPort THEN {sock} ELSE Port

\* Mutants of Misses: a silent beat is not counted; an answered one is.
MissesUncounted == IF ok THEN 0 ELSE count
MissesIgnoreOk == IF count < TimeoutCount THEN count + 1 ELSE count

\* The counter after this beat.
Misses ==
  IF ok THEN 0 ELSE IF count < TimeoutCount THEN count + 1 ELSE count

Silent == keeplive /\ Misses >= TimeoutCount

\* Mutants of Recover: the timer runs on; the identifier stays; no launch follows.
RecoverUnstopped(inbox) ==
  /\ heart' = TRUE
  /\ packetID' = NoPacket
  /\ killApp(inbox)
  /\ shots' = shots \cup {"killOther", "startApp"}

RecoverKeepsID(inbox) ==
  /\ heart' = FALSE
  /\ packetID' = packetID
  /\ killApp(inbox)
  /\ shots' = shots \cup {"killOther", "startApp"}

RecoverNoLaunch(inbox) ==
  /\ heart' = FALSE
  /\ packetID' = NoPacket
  /\ killApp(inbox)
  /\ shots' = shots \cup {"killOther"}

\* The application is taken for hung: kill it, then start it again.
Recover(inbox) ==
  /\ heart' = FALSE
  /\ packetID' = NoPacket
  /\ killApp(inbox)
  /\ shots' = shots \cup {"killOther", "startApp"}

HeartTimeout ==
  /\ Guarding /\ heart
  /\ \E id \in HeartID, port \in LocalPort :
       LET inbox == Inbox(Heart(id, port)) IN
         /\ sock' = port
         /\ \/ Silent /\ Recover(inbox)
            \/ /\ ~Silent
               /\ packetID' = id
               /\ toApp' = inbox
               /\ UNCHANGED <<heart, shots, proc, bound, taskkill>>
  /\ count' = Misses
  /\ ok' = FALSE
  /\ UNCHANGED <<service, keeplive, reStartCount, ini, toSvc>>

-----------------------------------------------------------------------------
(* The single-shot timers, at 1000 ms, 3000 ms and TimeoutCount ms.        *)

\* killOther ends crash dialogs and the desktop shell, never the application.
killOther ==
  /\ "killOther" \in shots
  /\ shots' = shots \ {"killOther"}
  /\ UNCHANGED <<service, count, ok, packetID, keeplive, heart>>
  /\ UNCHANGED <<configVars, hostVars>>

startApp ==
  /\ "startApp" \in shots /\ "killOther" \notin shots
  /\ startAppBody(reStartCount, shots \ {"startApp"})
  /\ UNCHANGED <<service, packetID, keeplive, heart>>
  /\ UNCHANGED <<bound, taskkill, toApp, toSvc, sock>>

beginTimeOut ==
  /\ "beginTimeOut" \in shots
  /\ shots' = shots \ {"beginTimeOut"}
  /\ heart' = TRUE
  /\ UNCHANGED <<service, count, ok, packetID, keeplive>>
  /\ UNCHANGED <<configVars, hostVars>>

-----------------------------------------------------------------------------
\* Mutant of Answers: the identifier is not compared.
AnyAnswers(m) == TRUE

\* readyRead takes an answer: only the one that is waited for counts.
Answers(m) == m.packetID = packetID

\* Mutant of ReadReply: the answer does not reset the counter.
ReadReplyKeepsCount ==
  /\ Guarding
  /\ toSvc # <<>> /\ Head(toSvc).type = "reply"
  /\ packetID' = IF Answers(Head(toSvc)) THEN NoPacket ELSE packetID
  /\ toSvc' = Tail(toSvc)
  /\ UNCHANGED <<service, count, ok, keeplive, heart, shots, configVars>>
  /\ UNCHANGED <<proc, bound, taskkill, toApp, sock>>

ReadReply ==
  /\ Guarding
  /\ toSvc # <<>> /\ Head(toSvc).type = "reply"
  /\ IF Answers(Head(toSvc))
       THEN packetID' = NoPacket /\ count' = 0 /\ ok' = TRUE
       ELSE UNCHANGED <<packetID, count, ok>>
  /\ toSvc' = Tail(toSvc)
  /\ UNCHANGED <<service, keeplive, heart, shots, configVars>>
  /\ UNCHANGED <<proc, bound, taskkill, toApp, sock>>

GuardInit ==
  /\ service = "down"
  /\ count = 0
  /\ ok = FALSE
  /\ packetID = NoPacket
  /\ keeplive = TRUE
  /\ heart = FALSE
  /\ shots = {}
  /\ reStartCount = 0
  /\ ini = 0

GuardTypeOK ==
  /\ service \in {"down", "stopped", "guarding"}
  /\ count \in 0..TimeoutCount
  /\ ok \in BOOLEAN
  /\ packetID \in PacketID \cup {NoPacket}
  /\ keeplive \in BOOLEAN
  /\ heart \in BOOLEAN
  /\ shots \subseteq Shots
  /\ reStartCount \in 0..MaxReStartCount
  /\ ini \in 0..MaxReStartCount
=============================================================================
