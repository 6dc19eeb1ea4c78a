--------------------------- MODULE HistoryProofs ----------------------------
(***************************************************************************)
(* The theorems about LiveHistory: when the guardian gives the application *)
(* up, and which answers it believes.                                      *)
(***************************************************************************)
EXTENDS LiveHistory, LiveProofs

\* The history variables restrict no step of the system.
LEMMA HistoryStep == [HistoryNext]_allVars => [Next]_vars
  <1> SUFFICES ASSUME HistoryNext PROVE Next
    BY DEF allVars
  <1> QED
    BY DEF HistoryNext, RecordOthers, Next, GuardStep, ServiceStep

LEMMA HistoryLiveInv == HistorySpec => []LiveInv
  <1>1. HistoryInit => LiveInv
    BY LiveInvInit DEF HistoryInit
  <1>2. LiveInv /\ [HistoryNext]_allVars => LiveInv'
    BY LiveInvStep, HistoryStep
  <1> QED
    BY <1>1, <1>2, PTL DEF HistorySpec

(* What is recorded influences nothing: the theorems of LiveSystem hold of *)
(* LiveHistory.                                                            *)
THEOREM HistoryIsLive == HistorySpec => Spec
  <1>1. HistoryInit => Init
    BY DEF HistoryInit
  <1> QED
    BY <1>1, HistoryStep, PTL DEF HistorySpec, Spec

-----------------------------------------------------------------------------
(* The counter never runs ahead of the silence: a beat that finds no answer*)
(* counted one that was really sent, since the last launch, and to which no*)
(* answer came back whole.                                                 *)
Unheard ==
  /\ unheard \in 0..TimeoutCount
  /\ Guarding => ok \/ count < unheard \/ unheard = TimeoutCount

LEMMA UnheardInit == HistoryInit => Unheard
  BY TimeoutAssumption DEF HistoryInit, Init, GuardInit, Unheard, Guarding

LEMMA UnheardBeat ==
  ASSUME LiveInv, Unheard, HeartTimeout, RecordBeat
  PROVE  Unheard'
  <1>1. unheard \in 0..TimeoutCount /\ count \in 0..TimeoutCount
    BY DEF LiveInv, TypeOK, GuardTypeOK, Unheard
  <1>2. unheard' = IF unheard < TimeoutCount THEN unheard + 1 ELSE unheard
    BY DEF RecordBeat, Counted
  <1>3. count' = Misses
    BY DEF HeartTimeout
  <1>4. unheard' \in 0..TimeoutCount
    BY <1>1, <1>2, TimeoutAssumption
  <1>5. Guarding
    BY DEF HeartTimeout
  <1>6. CASE ok
    BY <1>1, <1>2, <1>3, <1>4, <1>6, TimeoutAssumption DEF Misses, Unheard
  <1>7. CASE ~ok
    BY <1>1, <1>2, <1>3, <1>4, <1>5, <1>7, TimeoutAssumption DEF Misses, Unheard
  <1> QED
    BY <1>6, <1>7

\* Every answer that is read answers some heartbeat.
LEMMA ReadsReply ==
  ASSUME LiveInv, ReadReply
  PROVE  \E id \in PacketID : Head(toSvc) = Reply(id)
  <1>1. Head(toSvc) \in ToSvc
    BY TakeType DEF LiveInv, TypeOK, HostTypeOK, ReadReply
  <1> QED
    BY <1>1 DEF ToSvc, CmdMsg, ReplyMsg, ReadReply

\* What the application answers and comes back whole is taken.
LEMMA WholeAnswers ==
  ASSUME LiveInv, ReadReply, Genuine(Head(toSvc)), Whole(Head(toSvc))
  PROVE  Answers(Head(toSvc))
  <1>1. PICK id \in PacketID : Head(toSvc) = Reply(id)
    BY ReadsReply
  <1>2. Head(toSvc).packetID = Echo(id) /\ Head(toSvc).of = id
    BY <1>1 DEF Reply
  <1> QED
    BY <1>2 DEF Genuine, Whole, Answers

LEMMA UnheardReply ==
  ASSUME LiveInv, Unheard, ReadReply, RecordReply
  PROVE  Unheard'
  <1>1. unheard' \in 0..TimeoutCount
    BY TimeoutAssumption DEF RecordReply, Unheard
  <1>2. CASE Answers(Head(toSvc))
    <2>1. ok'
      BY <1>2 DEF ReadReply
    <2> QED
      BY <1>1, <2>1 DEF Unheard
  <1>3. CASE ~Answers(Head(toSvc))
    <2>1. UNCHANGED <<service, count, ok, unheard>>
      BY <1>3, WholeAnswers DEF ReadReply, RecordReply
    <2> QED
      BY <1>1, <2>1 DEF Unheard, Guarding
  <1> QED
    BY <1>2, <1>3

LEMMA UnheardStep ==
  ASSUME LiveInv, Unheard, [HistoryNext]_allVars
  PROVE  Unheard'
  <1>1. CASE UNCHANGED <<service, count, ok, unheard>>
    BY <1>1 DEF Unheard, Guarding
  <1>2. CASE (startApp \/ ServiceStart) /\ RecordLaunch
    <2>1. ok'
      BY <1>2 DEF startApp, ServiceStart, Construct, startAppBody
    <2> QED
      BY <1>2, <2>1, TimeoutAssumption DEF RecordLaunch, Unheard
  <1>3. CASE (ServiceStop \/ ServiceCrash \/ ServiceCrashInLaunch \/ ReadRemoteStop)
               /\ UNCHANGED historyVars
    <2>1. ~Guarding'
      BY <1>3 DEF ServiceStop, ServiceCrash, ServiceCrashInLaunch, ReadRemoteStop, Guarding
    <2> QED
      BY <1>3, <2>1 DEF Unheard, historyVars
  <1>4. CASE ReadCommand /\ RecordCommand
    BY <1>1, <1>4 DEF ReadCommand, RecordCommand
  <1>5. CASE (killOther \/ beginTimeOut \/ ServicePause \/ ServiceResume)
               /\ UNCHANGED historyVars
    BY <1>1, <1>5
    DEF killOther, beginTimeOut, ServicePause, ServiceResume, SetKeepLive, historyVars
  <1>6. CASE UNCHANGED <<guardVars, historyVars>>
    BY <1>1, <1>6 DEF guardVars, historyVars
  <1> QED
    BY <1>2, <1>3, <1>4, <1>5, <1>6, UnheardBeat, UnheardReply
    DEF HistoryNext, RecordOthers, allVars, vars

\* The step that gives the application up comes after TimeoutCount such beats.
LEMMA RecoveryUnheard ==
  ASSUME LiveInv, Unheard, HistoryNext, Recovers
  PROVE  unheard >= TimeoutCount
  <1>1. HeartTimeout
    BY DEF Recovers, Guarding, HistoryNext, RecordOthers, ReadReply, ReadCommand,
           startApp, ServiceStart, killOther, beginTimeOut, ServiceStop, ServiceCrash,
           ServiceCrashInLaunch, ServicePause, ServiceResume, SetKeepLive, ReadRemoteStop,
           guardVars
  <1>2. Misses >= TimeoutCount
    BY <1>1 DEF HeartTimeout, Recovers, Silent
  <1>3. unheard \in 0..TimeoutCount /\ count \in 0..TimeoutCount
    BY DEF LiveInv, TypeOK, GuardTypeOK, Unheard
  <1>4. ok \/ count < unheard \/ unheard = TimeoutCount
    BY DEF Unheard, Recovers
  <1>5. CASE ok
    BY <1>2, <1>3, <1>5, TimeoutAssumption DEF Misses
  <1>6. CASE ~ok
    BY <1>2, <1>3, <1>4, <1>6, TimeoutAssumption DEF Misses
  <1> QED
    BY <1>5, <1>6

(* The guardian gives the application up only after TimeoutCount heartbeats*)
(* in a row since the last launch without an answer that came back whole:  *)
(* neither a late answer, nor a pause, a resumption, a crash of the service*)
(* or of the application ever shortens its patience.  Identifiers are as   *)
(* wide as they are; of an application that answers in time this says      *)
(* something only where they fit what the client keeps (initService, on the*)
(* timeout; TimeOut, readyRead).                                           *)
THEOREM PatienceNeverShortened == HistorySpec => GivenUpUnheard
  <1>1. HistoryInit => Unheard
    BY UnheardInit
  <1>2. LiveInv /\ Unheard /\ [HistoryNext]_allVars => Unheard'
    BY UnheardStep
  <1>3. LiveInv /\ Unheard /\ [HistoryNext]_allVars
          => [Recovers => unheard >= TimeoutCount]_allVars
    BY RecoveryUnheard
  <1> QED
    BY <1>1, <1>2, <1>3, HistoryLiveInv, PTL DEF HistorySpec, GivenUpUnheard

-----------------------------------------------------------------------------
\* The identifier that waits for an answer was sent after the last recovery.
WaitsForNew == packetID # NoPacket => packetID \notin old

LEMMA WaitsForNewStep ==
  ASSUME LiveInv, WaitsForNew, [HistoryNext]_allVars
  PROVE  WaitsForNew'
  <1>1. CASE UNCHANGED <<packetID, old>> \/ (packetID' = NoPacket /\ UNCHANGED old)
    BY <1>1 DEF WaitsForNew
  <1>2. CASE HeartTimeout /\ RecordBeat
    <2>1. CASE Recovers
      BY <1>2, <2>1 DEF Recovers, HeartTimeout, Recover, WaitsForNew
    <2>2. CASE ~Recovers /\ packetID = NoPacket
      BY <1>2, <2>2 DEF RecordBeat, WaitsForNew
    <2>3. CASE ~Recovers /\ packetID # NoPacket
      <3>1. packetID' = packetID \/ packetID' = NoPacket
        BY <1>2, <2>3 DEF HeartTimeout, HeartID, Recover
      <3> QED
        BY <1>2, <2>3, <3>1 DEF RecordBeat, WaitsForNew
    <2> QED
      BY <2>1, <2>2, <2>3
  <1>3. CASE ReadReply /\ RecordReply
    BY <1>1, <1>3 DEF ReadReply, RecordReply
  <1>4. CASE (startApp \/ ServiceStart) /\ RecordLaunch
    BY <1>1, <1>4 DEF startApp, ServiceStart, Construct, RecordLaunch
  <1>5. CASE RecordOthers /\ UNCHANGED historyVars
    BY <1>1, <1>5
    DEF RecordOthers, killOther, beginTimeOut, ServiceStop, ServiceCrash,
        ServiceCrashInLaunch, ServicePause, ServiceResume, SetKeepLive, ReadRemoteStop, Destroy, Forget,
        historyVars
  <1>6. CASE ReadCommand /\ RecordCommand
    BY <1>1, <1>6 DEF ReadCommand, RecordCommand
  <1>7. CASE UNCHANGED <<guardVars, historyVars>>
    BY <1>1, <1>7 DEF guardVars, historyVars
  <1> QED
    BY <1>2, <1>3, <1>4, <1>5, <1>6, <1>7 DEF HistoryNext, allVars, vars

(* No answer to a heartbeat sent before a recovery is believed after it:   *)
(* the answer that is believed is one to the heartbeat that waits, however *)
(* little of its identifier came back, since the clock that hands the      *)
(* identifiers out only goes forward (EchoAssumption); and the heartbeat   *)
(* that waits was sent after the recovery.                                 *)
THEOREM StaleRepliesIgnored == HistorySpec => StaleReplyNeverCounts
  <1>1. HistoryInit => WaitsForNew
    BY DEF HistoryInit, Init, GuardInit, WaitsForNew
  <1>2. LiveInv /\ WaitsForNew /\ [HistoryNext]_allVars => WaitsForNew'
    BY WaitsForNewStep
  <1>3. ASSUME LiveInv, ReadReply, Answers(Head(toSvc))
        PROVE  packetID # NoPacket /\ Head(toSvc).of = packetID
    <2>1. PICK id \in PacketID : Head(toSvc) = Reply(id)
      BY <1>3, ReadsReply
    <2>2. Head(toSvc).packetID = Echo(id) /\ Head(toSvc).of = id
      BY <2>1 DEF Reply
    <2>3. Echo(id) \in Nat
      BY PacketAssumption, ModulusAssumption DEF Echo
    <2>4. packetID # NoPacket /\ packetID \in PacketID
      BY <1>3, <2>2, <2>3, PacketAssumption DEF Answers, LiveInv, TypeOK, GuardTypeOK
    <2> QED
      BY <1>3, <2>2, <2>4, EchoAssumption DEF Answers
  <1>4. LiveInv /\ WaitsForNew /\ [HistoryNext]_allVars
          => [ReadReply /\ Answers(Head(toSvc)) => Head(toSvc).of \notin old]_allVars
    BY <1>3 DEF WaitsForNew
  <1> QED
    BY <1>1, <1>2, <1>4, HistoryLiveInv, PTL DEF HistorySpec, StaleReplyNeverCounts
-----------------------------------------------------------------------------
\* What the history variables hold.
HistoryKinds ==
  /\ silent \in 0..TimeoutCount /\ unheard \in 0..TimeoutCount
  /\ old \subseteq PacketID /\ lost \in BOOLEAN

\* Identifiers on their way are identifiers.
LEMMA InFlightType ==
  ASSUME LiveInv
  PROVE  InFlight \subseteq PacketID
  <1>1. ASSUME NEW i \in DOMAIN toApp, toApp[i].type = "heart"
        PROVE  toApp[i].packetID \in PacketID
    <2>1. toApp[i] \in ToApp
      BY DEF LiveInv, TypeOK, HostTypeOK
    <2> QED
      BY <1>1, <2>1 DEF ToApp, HeartMsg, AckMsg
  <1>2. ASSUME NEW i \in DOMAIN toSvc, toSvc[i].type = "reply"
        PROVE  toSvc[i].of \in PacketID
    <2>1. toSvc[i] \in ToSvc
      BY DEF LiveInv, TypeOK, HostTypeOK
    <2>2. PICK id \in PacketID : toSvc[i] = Reply(id)
      BY <1>2, <2>1 DEF ToSvc, CmdMsg, ReplyMsg
    <2> QED
      BY <2>2 DEF Reply
  <1> QED
    BY <1>1, <1>2 DEF InFlight

LEMMA HistoryKindsStep ==
  ASSUME LiveInv, HistoryKinds, [HistoryNext]_allVars
  PROVE  HistoryKinds'
  <1> USE DEF HistoryKinds
  <1>1. CASE RecordBeat
    <2>1. Outstanding \subseteq PacketID
      BY DEF Outstanding, LiveInv, TypeOK, GuardTypeOK
    <2>2. old' \subseteq PacketID
      BY <1>1, <2>1, InFlightType DEF RecordBeat
    <2>3. silent' \in 0..TimeoutCount /\ unheard' \in 0..TimeoutCount
      BY <1>1, TimeoutAssumption DEF RecordBeat, Counted
    <2> QED
      BY <1>1, <2>2, <2>3 DEF RecordBeat
  <1>2. CASE RecordReply \/ RecordLaunch
    BY <1>2, TimeoutAssumption DEF RecordReply, RecordLaunch
  <1>3. CASE RecordCommand
    <2>1. lost' \in BOOLEAN
      BY <1>3, Zenon DEF RecordCommand
    <2> QED
      BY <1>3, <2>1 DEF RecordCommand
  <1>4. CASE UNCHANGED historyVars
    BY <1>4 DEF historyVars
  <1> QED
    BY <1>1, <1>2, <1>3, <1>4 DEF HistoryNext, allVars

(* The types of the system and of its history.                             *)
THEOREM HistoryTypeCorrect == HistorySpec => []HistoryTypeOK
  <1>1. HistoryInit => HistoryKinds
    <2> SUFFICES ASSUME HistoryInit PROVE HistoryKinds
      OBVIOUS
    <2>1. silent \in 0..TimeoutCount /\ unheard \in 0..TimeoutCount
      BY TimeoutAssumption DEF HistoryInit
    <2>2. old \subseteq PacketID /\ lost \in BOOLEAN
      BY DEF HistoryInit
    <2> QED
      BY <2>1, <2>2 DEF HistoryKinds
  <1>2. LiveInv /\ HistoryKinds /\ [HistoryNext]_allVars => HistoryKinds'
    BY HistoryKindsStep
  <1>3. LiveInv /\ HistoryKinds => HistoryTypeOK
    BY DEF LiveInv, HistoryKinds, HistoryTypeOK
  <1> QED
    BY <1>1, <1>2, <1>3, HistoryLiveInv, PTL DEF HistorySpec
-----------------------------------------------------------------------------
(* What the application is going to believe: an acknowledgement on its way *)
(* overrides RemotePause, the last one all the others.  Nothing is said of *)
(* commands on their way, which have changed neither side.                 *)
PauseAcks == {i \in DOMAIN toApp : toApp[i].type = "ack" /\ toApp[i].object = "pause"}

WillBelieve(value) ==
  /\ PauseAcks = {} => remotePause = value
  /\ \A i \in PauseAcks : (\A j \in PauseAcks : j <= i) => toApp[i].value = value

\* An application that is not there yet starts with RemotePause FALSE.
Mirror ==
  ~lost => IF bound = NoProc THEN keeplive = TRUE ELSE WillBelieve(~keeplive)

(* What the mirror needs: the owner of the port ends by the guardian's     *)
(* kills only, and the service never lets go of its guardian.              *)
MirrorConditions ==
  /\ Faults \cap {"crash", "controller", "serviceCrash"} = {}
  /\ "start" \notin RemoteObject

\* Off Windows nothing is under way in the background.
NoBackgroundKill == taskkill = 0

LEMMA NoBackgroundKillStep ==
  ASSUME Platform # "windows", NoBackgroundKill, [Next]_vars
  PROVE  NoBackgroundKill'
  <1>1. CASE UNCHANGED taskkill
    BY <1>1 DEF NoBackgroundKill
  <1>2. CASE HeartTimeout \/ Destroy
    BY <1>2 DEF NoBackgroundKill, HeartTimeout, Recover, Destroy, killApp,
                killProcess, killAll
  <1>3. CASE KillEnds
    <2>1. TaskkillEnds \/ UNCHANGED taskkill
      BY <1>3 DEF KillEnds, Terminates
    <2>2. TaskkillEnds => taskkill # 0
      BY DEF TaskkillEnds
    <2> QED
      BY <2>1, <2>2 DEF NoBackgroundKill
  <1> QED
    BY <1>1, <1>2, <1>3
    DEF Next, GuardStep, ServiceStep, ClientStep, vars, hostVars, killOther, startApp,
        beginTimeOut, ReadReply, ServiceStart, ServiceStop, ServiceCrash, ServiceCrashInLaunch,
        ServicePause, ServiceResume, SetKeepLive, ReadCommand, ReadRemoteStop, ReadHeart, ReadAck,
        sendRemoteCMD, AppStart, DuplicateExit, AppExit, AppHang, AppRecover, UserOpens

(* A command read while a taskkill is under way is answered to an          *)
(* application that is about to end, and its successor never hears of it.  *)
CommandsWaitForKills == [ReadCommand => taskkill = 0]_allVars

\* The kill that is under way was meant: the guard was not paused since.
KillsAreMeant == taskkill > 0 => keeplive = TRUE

LEMMA KillsAreMeantStep ==
  ASSUME LiveInv, KillsAreMeant, MirrorConditions, CommandsWaitForKills, [HistoryNext]_allVars
  PROVE  KillsAreMeant'
  <1>1. CASE UNCHANGED <<taskkill, keeplive>>
    BY <1>1 DEF KillsAreMeant
  <1>2. CASE HeartTimeout
    <2>1. keeplive' = keeplive /\ (taskkill' = taskkill \/ Silent)
      BY <1>2 DEF HeartTimeout
    <2> QED
      BY <2>1 DEF KillsAreMeant, Silent, LiveInv, TypeOK, GuardTypeOK
  <1>3. CASE ServiceStart
    BY <1>3 DEF KillsAreMeant, ServiceStart, Construct
  <1>4. CASE KillEnds /\ UNCHANGED guardVars
    <2>1. CASE TaskkillEnds
      BY <1>4, <2>1 DEF KillsAreMeant, TaskkillEnds, guardVars
    <2>2. CASE ~TaskkillEnds
      BY <1>1, <1>4, <2>2 DEF KillEnds, Terminates, guardVars
    <2> QED
      BY <2>1, <2>2
  <1>5. CASE ReadCommand /\ RecordCommand /\ UNCHANGED clientVars
    <2>1. taskkill = 0 \/ UNCHANGED allVars
      BY <1>5 DEF CommandsWaitForKills
    <2>2. UNCHANGED taskkill
      BY <1>5 DEF ReadCommand
    <2>3. CASE taskkill = 0
      BY <2>2, <2>3 DEF KillsAreMeant
    <2>4. CASE UNCHANGED allVars
      BY <1>1, <2>4 DEF allVars, vars, guardVars, hostVars
    <2> QED
      BY <2>1, <2>3, <2>4
  <1>6. /\ ~ServiceStop /\ ~ServiceCrash /\ ~ServiceCrashInLaunch
        /\ ~ServicePause /\ ~ServiceResume
    BY DEF MirrorConditions, ServiceStop, ServiceCrash, ServiceCrashInLaunch, ServicePause,
           ServiceResume, SetKeepLive
  <1>7. ~ReadRemoteStop
    BY NoRemoteStop DEF MirrorConditions, LiveInv
  <1>8. CASE ClientStep /\ UNCHANGED guardVars
    BY <1>1, <1>8
    DEF guardVars, ClientStep, ReadHeart, ReadAck, sendRemoteCMD, AppStart, DuplicateExit,
        AppExit, AppHang, AppRecover, UserOpens
  <1>9. CASE killOther \/ beginTimeOut \/ ReadReply \/ startApp
    BY <1>1, <1>9
    DEF killOther, beginTimeOut, ReadReply, startApp, startAppBody, hostVars
  <1> QED
    BY <1>1, <1>2, <1>3, <1>4, <1>5, <1>6, <1>7, <1>8, <1>9
    DEF HistoryNext, RecordOthers, allVars, vars, guardVars, hostVars

\* A datagram that is no pause acknowledgement changes no belief, dropped or not.
LEMMA HeartBelieved ==
  ASSUME LiveInv, NEW id \in PacketID, NEW port \in Port, NEW value,
         WillBelieve(value), toApp' = Inbox(Heart(id, port)), UNCHANGED remotePause
  PROVE  WillBelieve(value)'
  <1>1. toApp \in Seq(ToApp)
    BY DEF LiveInv, TypeOK, HostTypeOK
  <1>2. CASE toApp' = toApp
    BY <1>2 DEF WillBelieve, PauseAcks
  <1>3. CASE toApp' = Append(toApp, Heart(id, port))
    <2>1. PauseAcks' = PauseAcks
      BY <1>1, <1>3 DEF PauseAcks, Heart
    <2>2. \A i \in PauseAcks : toApp'[i] = toApp[i]
      BY <1>1, <1>3 DEF PauseAcks
    <2> QED
      BY <2>1, <2>2 DEF WillBelieve
  <1> QED
    BY <1>2, <1>3 DEF Inbox, Deliver

\* An acknowledgement that arrives is believed in the end.
LEMMA AckBelieved ==
  ASSUME LiveInv, NEW object, NEW value, NEW port, NEW believed,
         toApp' = Append(toApp, Ack(object, value, port)), UNCHANGED remotePause,
         IF object = "pause" THEN believed = value ELSE WillBelieve(believed)
  PROVE  WillBelieve(believed)'
  <1>1. toApp \in Seq(ToApp) /\ Len(toApp) \in Nat
    BY DEF LiveInv, TypeOK, HostTypeOK
  <1>2. \A i \in DOMAIN toApp : toApp'[i] = toApp[i]
    BY <1>1
  <1>3. DOMAIN toApp' = 1..Len(toApp) + 1 /\ DOMAIN toApp = 1..Len(toApp)
    BY <1>1
  <1>4. toApp'[Len(toApp) + 1] = Ack(object, value, port)
    BY <1>1
  <1>5. CASE object = "pause"
    <2>1. Len(toApp) + 1 \in PauseAcks'
      BY <1>1, <1>3, <1>4, <1>5 DEF PauseAcks, Ack
    <2>2. ASSUME NEW i \in PauseAcks', \A j \in PauseAcks' : j <= i
          PROVE  i = Len(toApp) + 1
      BY <1>1, <1>3, <2>1, <2>2 DEF PauseAcks
    <2> QED
      BY <1>4, <1>5, <2>1, <2>2 DEF WillBelieve, Ack
  <1>6. CASE object # "pause"
    <2>1. PauseAcks' = PauseAcks
      BY <1>1, <1>2, <1>3, <1>4, <1>6 DEF PauseAcks, Ack
    <2>2. \A i \in PauseAcks : toApp'[i] = toApp[i]
      BY <1>2 DEF PauseAcks
    <2> QED
      BY <1>6, <2>1, <2>2 DEF WillBelieve
  <1> QED
    BY <1>5, <1>6

\* Reading the first datagram leaves what will be believed as it is.
LEMMA ReadBelieved ==
  ASSUME LiveInv, NEW value, WillBelieve(value), toApp # <<>>, toApp' = Tail(toApp),
         remotePause' = IF Head(toApp).type = "ack" /\ Head(toApp).object = "pause"
                        THEN Head(toApp).value ELSE remotePause
  PROVE  WillBelieve(value)'
  <1>1. toApp \in Seq(ToApp) /\ Len(toApp) \in Nat \ {0}
    BY DEF LiveInv, TypeOK, HostTypeOK
  <1>2. DOMAIN toApp' = 1..Len(toApp) - 1 /\ DOMAIN toApp = 1..Len(toApp)
    BY <1>1
  <1>3. \A i \in DOMAIN toApp' : toApp'[i] = toApp[i + 1]
    BY <1>1
  <1>4. Head(toApp) = toApp[1]
    BY <1>1
  <1>5. \A i \in Nat : i \in PauseAcks' <=> i # 0 /\ i + 1 \in PauseAcks
    BY <1>1, <1>2, <1>3 DEF PauseAcks
  <1>6. PauseAcks \subseteq Nat \ {0} /\ PauseAcks' \subseteq Nat \ {0}
    BY <1>1, <1>2 DEF PauseAcks
  <1>7. ASSUME PauseAcks' = {} PROVE remotePause' = value
    <2>1. PauseAcks \subseteq {1}
      <3> SUFFICES ASSUME NEW j \in PauseAcks, j # 1 PROVE FALSE
        OBVIOUS
      <3>1. j - 1 \in Nat /\ j - 1 # 0 /\ (j - 1) + 1 = j
        BY <1>6
      <3> QED
        BY <1>5, <1>7, <3>1
    <2>2. CASE 1 \in PauseAcks
      <3>1. toApp[1].value = value
        BY <2>1, <2>2 DEF WillBelieve
      <3> QED
        BY <1>4, <2>2, <3>1 DEF PauseAcks
    <2>3. CASE 1 \notin PauseAcks
      <3>1. remotePause = value
        BY <2>1, <2>3 DEF WillBelieve
      <3> QED
        BY <1>1, <1>2, <1>4, <2>3, <3>1 DEF PauseAcks
    <2> QED
      BY <2>2, <2>3
  <1>8. ASSUME NEW i \in PauseAcks', \A j \in PauseAcks' : j <= i
        PROVE  toApp'[i].value = value
    <2>1. i \in Nat \ {0} /\ i + 1 \in PauseAcks
      BY <1>5, <1>6, <1>8
    <2>2. ASSUME NEW j \in PauseAcks PROVE j <= i + 1
      <3>1. CASE j = 1
        BY <2>1, <3>1
      <3>2. CASE j # 1
        <4>1. j - 1 \in Nat /\ j - 1 # 0 /\ (j - 1) + 1 = j
          BY <1>6, <3>2
        <4>2. j - 1 \in PauseAcks'
          BY <1>5, <4>1
        <4> QED
          BY <1>6, <1>8, <2>1, <4>2
      <3> QED
        BY <3>1, <3>2
    <2>3. toApp[i + 1].value = value
      BY <2>1, <2>2 DEF WillBelieve
    <2> QED
      BY <1>3, <1>8, <2>3 DEF PauseAcks
  <1> QED
    BY <1>7, <1>8 DEF WillBelieve
(* Mirror, action by action.                                               *)
LEMMA MirrorBeat ==
  ASSUME LiveInv, Mirror, MirrorConditions, HeartTimeout, UNCHANGED <<clientVars, lost>>
  PROVE  Mirror'
  <1>1. PICK id \in HeartID, port \in LocalPort :
          Recover(Inbox(Heart(id, port))) \/ (toApp' = Inbox(Heart(id, port)) /\ UNCHANGED bound)
    BY DEF HeartTimeout
  <1>2. id \in PacketID /\ port \in Port
    BY DEF HeartID, LocalPort, Unused, LiveInv, TypeOK, GuardTypeOK, HostTypeOK
  <1>3. keeplive' = keeplive
    BY DEF HeartTimeout
  <1>4. toApp' = Inbox(Heart(id, port)) /\ UNCHANGED bound
    BY <1>1 DEF Recover, killApp, killProcess, runTaskkill, killAll
  <1> QED
    BY <1>2, <1>3, <1>4, HeartBelieved DEF Mirror, clientVars

LEMMA MirrorCommand ==
  ASSUME LiveInv, Mirror, ReadCommand, RecordCommand, UNCHANGED clientVars
  PROVE  Mirror'
  <1> DEFINE m == Head(toSvc)
  <1>1. m \in ToSvc /\ m.type = "cmd"
    BY TakeType DEF ReadCommand, NextIsCommand, LiveInv, TypeOK, HostTypeOK
  <1>2. m.value \in BOOLEAN
    BY <1>1 DEF ToSvc, ReplyMsg, Reply, CmdMsg
  <1>3. UNCHANGED bound /\ toApp' = Inbox(Ack(m.object, m.value, sock)) /\ Obey(m)
    BY DEF ReadCommand
  <1> HIDE DEF m
  <1>4. CASE AckDropped
    BY <1>4 DEF RecordCommand, Mirror
  <1>5. CASE ~AckDropped
    <2>1. bound # NoProc /\ toApp' = Append(toApp, Ack(m.object, m.value, sock))
      <3>1. Len(toApp) \in Nat
        BY DEF LiveInv, TypeOK, HostTypeOK
      <3>2. bound # NoProc /\ Len(toApp) < BufferSize
        BY <1>5, <3>1, BufferAssumption DEF AckDropped
      <3> QED
        BY <1>3, <3>2 DEF Inbox, Deliver
    <2>2. ASSUME ~lost PROVE WillBelieve(~keeplive)'
      <3>1. WillBelieve(~keeplive)
        BY <2>1, <2>2 DEF Mirror
      <3>2. IF m.object = "pause" THEN (~keeplive') = m.value ELSE keeplive' = keeplive
        BY <1>2, <1>3 DEF Obey
      <3> QED
        BY <2>1, <3>1, <3>2, AckBelieved DEF clientVars
    <2>3. lost => lost'
      BY DEF RecordCommand
    <2> QED
      BY <1>3, <2>1, <2>2, <2>3 DEF Mirror
  <1> QED
    BY <1>4, <1>5

LEMMA MirrorClient ==
  ASSUME LiveInv, Mirror, MirrorConditions, ClientStep, UNCHANGED <<keeplive, lost>>
  PROVE  Mirror'
  <1>1. CASE UNCHANGED <<bound, toApp, remotePause>>
    BY <1>1 DEF Mirror, WillBelieve, PauseAcks
  <1>2. CASE ReadHeart \/ ReadAck
    <2>1. bound # NoProc /\ UNCHANGED bound /\ toApp # <<>> /\ toApp' = Tail(toApp)
      BY <1>2 DEF ReadHeart, ReadAck, Serving
    <2>2. remotePause' = IF Head(toApp).type = "ack" /\ Head(toApp).object = "pause"
                         THEN Head(toApp).value ELSE remotePause
      BY <1>2 DEF ReadHeart, ReadAck
    <2> QED
      BY <2>1, <2>2, ReadBelieved DEF Mirror
  <1>3. ASSUME NEW p \in Proc, AppStart(p), bound = NoProc
        PROVE  Mirror'
    <2>1. bound' # NoProc /\ remotePause' = FALSE /\ toApp' = <<>>
      BY <1>3, ProcAssumption DEF AppStart, LiveInv, BuffersOwned
    <2>2. PauseAcks' = {}
      BY <2>1 DEF PauseAcks
    <2>3. ASSUME ~lost PROVE WillBelieve(~keeplive)'
      <3>1. keeplive' = TRUE
        BY <1>3, <2>3 DEF Mirror
      <3>2. remotePause' = ~keeplive'
        BY <2>1, <3>1
      <3> QED
        BY <2>2, <3>2 DEF WillBelieve
    <2> QED
      BY <2>1, <2>3 DEF Mirror
  <1>4. ASSUME NEW p \in Proc, DuplicateExit(p)
        PROVE  Mirror'
    <2>1. UNCHANGED <<bound, toApp, remotePause>>
      BY <1>4 DEF DuplicateExit, Die, clientVars
    <2> QED
      BY <1>1, <2>1
  <1> QED
    BY <1>1, <1>2, <1>3, <1>4
    DEF ClientStep, clientVars, sendRemoteCMD, AppStart, AppExit, AppHang, AppRecover,
        UserOpens, MirrorConditions

(* The owner of the port that was signalled was meant too, as far as the   *)
(* answers to the commands that came since were not lost with it.          *)
DyingIsMeant ==
  ~lost /\ bound # NoProc /\ proc[bound] = "dying" => keeplive = TRUE

LEMMA DyingIsMeantStep ==
  ASSUME LiveInv, DyingIsMeant, MirrorConditions, [HistoryNext]_allVars
  PROVE  DyingIsMeant'
  <1>0. HostTypeOK /\ keeplive \in BOOLEAN
    BY DEF LiveInv, TypeOK, GuardTypeOK
  <1>1. CASE UNCHANGED <<proc, bound, keeplive, lost>>
    BY <1>1 DEF DyingIsMeant
  <1>2. CASE HeartTimeout /\ RecordBeat
    <2>1. keeplive' = keeplive /\ lost' = lost
      BY <1>2 DEF HeartTimeout, RecordBeat
    <2>2. Silent \/ UNCHANGED <<proc, bound>>
      BY <1>2 DEF HeartTimeout
    <2>3. Silent => keeplive = TRUE
      BY <1>0 DEF Silent
    <2> QED
      BY <1>1, <2>1, <2>2, <2>3 DEF DyingIsMeant
  <1>3. CASE ReadCommand /\ RecordCommand
    <2>1. UNCHANGED <<proc, bound>>
      BY <1>3 DEF ReadCommand
    <2>2. CASE bound # NoProc /\ proc[bound] = "dying"
      BY <1>3, <2>2 DEF RecordCommand, AckDropped, DyingIsMeant
    <2>3. CASE ~(bound # NoProc /\ proc[bound] = "dying")
      BY <2>1, <2>3 DEF DyingIsMeant
    <2> QED
      BY <2>2, <2>3
  <1>4. CASE startApp /\ RecordLaunch
    <2>1. UNCHANGED <<bound, keeplive, lost>> /\ (UNCHANGED proc \/ startDetached)
      BY <1>4 DEF startApp, startAppBody, launchUnlessExists, RecordLaunch
    <2>2. \A p \in Proc : proc'[p] = "dying" => proc[p] = "dying"
      BY <1>0, <2>1 DEF startDetached, HostTypeOK
    <2> QED
      BY <1>0, <2>1, <2>2 DEF DyingIsMeant, HostTypeOK
  <1>5. CASE ServiceStart
    BY <1>5 DEF ServiceStart, Construct, DyingIsMeant
  <1>6. CASE (ClientStep \/ KillEnds) /\ UNCHANGED <<guardVars, historyVars>>
    <2>1. UNCHANGED <<keeplive, lost>>
      BY <1>6 DEF guardVars, historyVars
    <2>2. \A p \in Proc : proc'[p] = "dying" => proc[p] = "dying"
      BY <1>0, <1>6
      DEF ClientStep, KillEnds, TaskkillEnds, Terminates, Die, ReadHeart, ReadAck, sendRemoteCMD,
          AppStart, DuplicateExit, AppExit, AppHang, AppRecover, UserOpens, HostTypeOK
    <2>3. bound' \in {bound, NoProc} \/ \E p \in Proc : AppStart(p)
      BY <1>6
      DEF ClientStep, KillEnds, TaskkillEnds, Terminates, Die, ReadHeart, ReadAck, sendRemoteCMD,
          DuplicateExit, AppExit, AppHang, AppRecover, UserOpens
    <2>4. CASE bound' \in {bound, NoProc}
      BY <1>0, <2>1, <2>2, <2>4 DEF DyingIsMeant, HostTypeOK
    <2>5. ASSUME NEW p \in Proc, AppStart(p), bound' # bound
          PROVE  bound' = p /\ proc'[p] = "up"
      BY <1>0, <2>5 DEF AppStart, HostTypeOK
    <2> QED
      BY <2>3, <2>4, <2>5 DEF DyingIsMeant
  <1>7. /\ ~ServiceStop /\ ~ServiceCrash /\ ~ServiceCrashInLaunch
        /\ ~ServicePause /\ ~ServiceResume
    BY DEF MirrorConditions, ServiceStop, ServiceCrash, ServiceCrashInLaunch, ServicePause,
           ServiceResume, SetKeepLive
  <1>8. ~ReadRemoteStop
    BY NoRemoteStop DEF MirrorConditions, LiveInv
  <1> QED
    BY <1>1, <1>2, <1>3, <1>4, <1>5, <1>6, <1>7, <1>8
    DEF HistoryNext, RecordOthers, RecordReply, ReadReply, killOther, beginTimeOut, hostVars,
        historyVars, allVars, vars, guardVars

LEMMA MirrorStep ==
  ASSUME LiveInv, Mirror, KillsAreMeant, DyingIsMeant, MirrorConditions, [HistoryNext]_allVars
  PROVE  Mirror'
  <1>1. CASE UNCHANGED <<bound, toApp, remotePause, keeplive, lost>>
    BY <1>1 DEF Mirror, WillBelieve, PauseAcks
  <1>2. CASE HeartTimeout /\ RecordBeat /\ UNCHANGED clientVars
    BY <1>2, MirrorBeat DEF RecordBeat
  <1>3. CASE ReadCommand /\ RecordCommand /\ UNCHANGED clientVars
    BY <1>3, MirrorCommand
  <1>4. CASE ClientStep /\ UNCHANGED <<guardVars, historyVars>>
    BY <1>4, MirrorClient DEF guardVars, historyVars
  <1>5. CASE ServiceStart /\ RecordLaunch /\ UNCHANGED clientVars
    <2>1. keeplive = TRUE /\ keeplive' = TRUE
      BY <1>5 DEF ServiceStart, Construct, LiveInv, GuardInv, Guarding, TypeOK, GuardTypeOK
    <2> QED
      BY <1>1, <1>5, <2>1 DEF ServiceStart, RecordLaunch, clientVars
  <1>6. /\ ~ServiceStop /\ ~ServiceCrash /\ ~ServiceCrashInLaunch
        /\ ~ServicePause /\ ~ServiceResume
    BY DEF MirrorConditions, ServiceStop, ServiceCrash, ServiceCrashInLaunch, ServicePause,
           ServiceResume, SetKeepLive
  <1>7. ~ReadRemoteStop
    BY NoRemoteStop DEF MirrorConditions, LiveInv
  <1>8. CASE KillEnds /\ UNCHANGED <<guardVars, clientVars, historyVars>>
    <2>1. UNCHANGED <<keeplive, lost, remotePause>>
      BY <1>8 DEF guardVars, clientVars, historyVars
    <2>2. UNCHANGED <<bound, toApp>> \/ bound' = NoProc
      BY <1>8 DEF KillEnds, TaskkillEnds, Terminates, Die
    <2>3. CASE UNCHANGED <<bound, toApp>>
      BY <1>1, <2>1, <2>3
    <2>4. CASE bound' = NoProc /\ bound # NoProc
      <3>1. taskkill > 0 \/ proc[bound] = "dying"
        BY <1>8, <2>4 DEF KillEnds, TaskkillEnds, Terminates, Die
      <3> QED
        BY <2>1, <2>4, <3>1 DEF Mirror, KillsAreMeant, DyingIsMeant
    <2>5. CASE bound' = NoProc /\ bound = NoProc
      BY <2>1, <2>5 DEF Mirror
    <2> QED
      BY <2>2, <2>3, <2>4, <2>5
  <1> QED
    BY <1>1, <1>2, <1>3, <1>4, <1>5, <1>6, <1>7, <1>8
    DEF HistoryNext, RecordOthers, RecordReply, RecordLaunch, ReadReply, startApp, startAppBody,
        killOther, beginTimeOut, hostVars, clientVars, historyVars, allVars, vars, guardVars

(* RemotePause in the application says what the guardian does, once what   *)
(* is on its way has arrived, also across replacements of the application  *)
(* and however commands, heartbeats and acknowledgements were interleaved, *)
(* on every platform, so long as no command is read while a taskkill is    *)
(* under way (runCommand does not wait for it).                            *)
THEOREM PauseMirroredBetweenKills ==
  ASSUME MirrorConditions
  PROVE  HistorySpec /\ [][ReadCommand => taskkill = 0]_allVars => []MirrorAgrees
  <1>1. HistoryInit => Mirror /\ KillsAreMeant /\ DyingIsMeant
    BY DEF HistoryInit, Init, HostInit, GuardInit, Mirror, KillsAreMeant, DyingIsMeant
  <1>2. LiveInv /\ KillsAreMeant /\ CommandsWaitForKills /\ [HistoryNext]_allVars
          => KillsAreMeant'
    BY KillsAreMeantStep
  <1>3. LiveInv /\ Mirror /\ KillsAreMeant /\ DyingIsMeant /\ [HistoryNext]_allVars
          => Mirror' /\ DyingIsMeant'
    BY MirrorStep, DyingIsMeantStep
  <1>4. LiveInv /\ Mirror => MirrorAgrees
    <2> SUFFICES ASSUME LiveInv, Mirror, Serving, Quiescent, ~lost
                 PROVE  remotePause = ~keeplive
      BY DEF MirrorAgrees
    <2>1. WillBelieve(~keeplive)
      BY DEF Mirror, Serving
    <2>2. PauseAcks = {}
      BY DEF PauseAcks, Quiescent
    <2> QED
      BY <2>1, <2>2 DEF WillBelieve
  <1> QED
    BY <1>1, <1>2, <1>3, <1>4, HistoryLiveInv, PTL DEF HistorySpec, CommandsWaitForKills

(* Off Windows killall has sent its signals when it returns, and an answer *)
(* to a process that was signalled is lost: the mirror holds without that  *)
(* proviso.                                                                *)
THEOREM PauseMirrored ==
  ASSUME MirrorConditions, Platform # "windows"
  PROVE  HistorySpec => []MirrorAgrees
  <1>1. HistoryInit => NoBackgroundKill
    BY DEF HistoryInit, Init, HostInit, NoBackgroundKill
  <1>2. NoBackgroundKill /\ [HistoryNext]_allVars => NoBackgroundKill'
    BY NoBackgroundKillStep, HistoryStep
  <1>3. NoBackgroundKill => [ReadCommand => taskkill = 0]_allVars
    BY DEF NoBackgroundKill
  <1> QED
    BY <1>1, <1>2, <1>3, PauseMirroredBetweenKills, PTL DEF HistorySpec
=============================================================================
