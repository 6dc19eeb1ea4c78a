----------------------------- MODULE LiveProofs -----------------------------
(***************************************************************************)
(* The theorems about LiveSystem, for every number of processes, every     *)
(* buffer size, every platform, every set of faults and every              *)
(* configuration of the service.                                           *)
(***************************************************************************)
EXTENDS LiveSystem, LiveLemmas

-----------------------------------------------------------------------------
(* Type correctness.                                                       *)

\* The initial state is of the right types.
LEMMA TypeInit == Init => TypeOK
  <1> SUFFICES ASSUME Init PROVE TypeOK
    OBVIOUS
  <1>1. HostTypeOK
    <2>1. <<>> \in Seq(ToApp) /\ <<>> \in Seq(ToSvc)
      OBVIOUS
    <2> QED
    BY <2>1, TaskkillAssumption DEF Init, HostInit, HostTypeOK
  <1>2. GuardTypeOK
    <2>1. /\ count \in 0..TimeoutCount
          /\ reStartCount \in 0..MaxReStartCount
          /\ ini \in 0..MaxReStartCount
      BY TimeoutAssumption, ReStartAssumption DEF Init, GuardInit
    <2>2. /\ ok \in BOOLEAN
          /\ keeplive \in BOOLEAN
          /\ heart \in BOOLEAN
      BY DEF Init, GuardInit
    <2> QED
      BY <2>1, <2>2 DEF Init, GuardInit, GuardTypeOK, Shots
  <1>3. ClientTypeOK
    BY DEF Init, ClientInit, ClientTypeOK
  <1> QED
    BY <1>1, <1>2, <1>3 DEF TypeOK

\* A beat counts up to TimeoutCount and no further.
LEMMA MissesType == GuardTypeOK => Misses \in 0..TimeoutCount
  BY TimeoutAssumption DEF GuardTypeOK, Misses

\* A step of the guardian keeps every variable's type.
LEMMA GuardStepType ==
  ASSUME TypeOK, GuardStep, UNCHANGED clientVars
  PROVE  TypeOK'
  <1> USE DEF TypeOK, HostTypeOK, GuardTypeOK, ClientTypeOK, clientVars,
              configVars, hostVars
  <1>1. CASE HeartTimeout
    <2>1. PICK id \in HeartID, port \in LocalPort :
            /\ sock' = port
            /\ \/ Silent /\ Recover(Inbox(Heart(id, port)))
               \/ /\ ~Silent
                  /\ packetID' = id
                  /\ toApp' = Inbox(Heart(id, port))
                  /\ UNCHANGED <<heart, shots, proc, bound, taskkill>>
      BY <1>1 DEF HeartTimeout
    <2>2. id \in PacketID /\ port \in Port
      BY DEF HeartID, LocalPort, Unused
    <2>3. Inbox(Heart(id, port)) \in Seq(ToApp)
      <3>1. Heart(id, port) \in ToApp
        BY <2>2 DEF Heart, ToApp, HeartMsg
      <3> QED
        BY <3>1, InboxType
    <2>4. count' \in 0..TimeoutCount /\ ok' \in BOOLEAN
      BY <1>1, MissesType DEF HeartTimeout
    <2>5. CASE Recover(Inbox(Heart(id, port)))
      <3>1. ProcessesTypeOK'
        BY <2>3, <2>5, KillAppType DEF Recover
      <3> QED
        BY <1>1, <2>1, <2>2, <2>4, <2>5, <3>1
        DEF HeartTimeout, Recover, ProcessesTypeOK, Shots
    <2>6. CASE /\ packetID' = id
               /\ toApp' = Inbox(Heart(id, port))
               /\ UNCHANGED <<heart, shots, proc, bound, taskkill>>
      BY <1>1, <2>1, <2>2, <2>3, <2>4, <2>6 DEF HeartTimeout
    <2> QED
      BY <2>1, <2>5, <2>6
  <1>2. CASE killOther
    BY <1>2 DEF killOther
  <1>3. CASE startApp
    <2>1. startAppBody(reStartCount, shots \ {"startApp"})
      BY <1>3 DEF startApp
    <2>2. /\ proc' \in [Proc -> {"none", "starting", "up", "hung", "dying"}]
          /\ reStartCount' \in 0..MaxReStartCount
          /\ ini' \in 0..MaxReStartCount
          /\ count' = 0
          /\ ok' = TRUE
          /\ shots' = (shots \ {"startApp"}) \cup {"beginTimeOut"}
      BY <2>1, StartAppBodyType
    <2> QED
      BY <1>3, <2>2, TimeoutAssumption DEF startApp, Shots
  <1>4. CASE beginTimeOut
    BY <1>4 DEF beginTimeOut
  <1>5. CASE ReadReply
    <2>1. Tail(toSvc) \in Seq(ToSvc)
      BY <1>5, TakeType DEF ReadReply
    <2>2. packetID' \in PacketID \cup {NoPacket}
      BY <1>5 DEF ReadReply
    <2>3. count' \in 0..TimeoutCount
      BY <1>5, TimeoutAssumption DEF ReadReply
    <2>4. ok' \in BOOLEAN
      BY <1>5 DEF ReadReply
    <2> QED
      BY <1>5, <2>1, <2>2, <2>3, <2>4 DEF ReadReply
  <1> QED
    BY <1>1, <1>2, <1>3, <1>4, <1>5 DEF GuardStep

\* Forgetting an object leaves its fields and its socket in a typed state.
LEMMA ForgetType ==
  ASSUME TypeOK, Forget, ProcessesTypeOK',
         service' \in {"down", "stopped", "guarding"}, UNCHANGED clientVars
  PROVE  TypeOK'
  <1>1. HostTypeOK'
    BY DEF Forget, ProcessesTypeOK, HostTypeOK
  <1>2. GuardTypeOK'
    <2>1. /\ count' \in 0..TimeoutCount
          /\ reStartCount' \in 0..MaxReStartCount
          /\ ini' \in 0..MaxReStartCount
      BY TimeoutAssumption, ReStartAssumption DEF Forget, TypeOK, GuardTypeOK
    <2>2. /\ ok' \in BOOLEAN
          /\ keeplive' \in BOOLEAN
          /\ heart' \in BOOLEAN
      BY DEF Forget
    <2> QED
      BY <2>1, <2>2 DEF Forget, GuardTypeOK, Shots
  <1>3. ClientTypeOK'
    BY DEF TypeOK, ClientTypeOK, clientVars
  <1> QED
    BY <1>1, <1>2, <1>3 DEF TypeOK

\* The destructor kills or leaves the application.
LEMMA DestroyType ==
  ASSUME TypeOK, Destroy
  PROVE  ProcessesTypeOK'
  <1>1. HostTypeOK /\ toApp \in Seq(ToApp)
    BY DEF TypeOK, HostTypeOK
  <1>2. CASE killApp(toApp)
    BY <1>1, <1>2, KillAppType
  <1>3. CASE UNCHANGED <<proc, bound, taskkill, toApp>>
    BY <1>1, <1>3 DEF HostTypeOK, ProcessesTypeOK
  <1> QED
    BY <1>2, <1>3 DEF Destroy

\* A step of the service keeps every variable's type.
LEMMA ServiceStepType ==
  ASSUME TypeOK, BuffersOwned, ServiceStep, UNCHANGED clientVars
  PROVE  TypeOK'
  <1>1. CASE ServiceStart
    <2>1. startAppBody(ini, {})
      BY <1>1 DEF ServiceStart, Construct
    <2>2. ini \in 0..MaxReStartCount /\ {} \in SUBSET Shots /\ HostTypeOK /\ GuardTypeOK
      BY DEF TypeOK, GuardTypeOK
    <2>3. /\ proc' \in [Proc -> {"none", "starting", "up", "hung", "dying"}]
          /\ reStartCount' \in 0..MaxReStartCount
          /\ ini' \in 0..MaxReStartCount
          /\ count' = 0
          /\ ok' = TRUE
          /\ shots' = {} \cup {"beginTimeOut"}
      BY <2>1, <2>2, StartAppBodyType
    <2>4. count' \in 0..TimeoutCount
      BY <2>3, TimeoutAssumption
    <2>5. /\ ok' \in BOOLEAN
          /\ keeplive' \in BOOLEAN
          /\ heart' \in BOOLEAN
      BY <1>1, <2>3 DEF ServiceStart, Construct
    <2>6. GuardTypeOK'
      BY <1>1, <2>3, <2>4, <2>5 DEF ServiceStart, Construct, GuardTypeOK, Shots
    <2> QED
      BY <1>1, <2>3, <2>6
      DEF ServiceStart, TypeOK, HostTypeOK, ClientTypeOK, clientVars
  <1>2. CASE ServiceStop
    <2>1. ProcessesTypeOK'
      BY <1>2, DestroyType DEF ServiceStop, TypeOK, HostTypeOK, ProcessesTypeOK
    <2>2. Forget
      BY <1>2 DEF ServiceStop, Destroy
    <2> QED
      BY <1>2, <2>1, <2>2, ForgetType DEF ServiceStop
  <1>3. CASE ServiceCrash
    <2>1. ProcessesTypeOK'
      BY <1>3 DEF ServiceCrash, TypeOK, HostTypeOK, ProcessesTypeOK
    <2> QED
      BY <1>3, <2>1, ForgetType DEF ServiceCrash
  <1>4. CASE ServicePause \/ ServiceResume
    BY <1>4
    DEF ServicePause, ServiceResume, SetKeepLive, TypeOK, HostTypeOK, GuardTypeOK,
        ClientTypeOK, clientVars, configVars, hostVars
  <1>5. CASE ReadCommand
    <2>1. Head(toSvc) \in ToSvc /\ Tail(toSvc) \in Seq(ToSvc)
      BY <1>5, TakeType DEF ReadCommand, NextIsCommand, TypeOK, HostTypeOK
    <2>2. Head(toSvc) \in CmdMsg
      BY <1>5, <2>1 DEF ReadCommand, NextIsCommand, ToSvc, ReplyMsg, Reply
    <2>3. toApp' \in Seq(ToApp)
      <3>1. Ack(Head(toSvc).object, Head(toSvc).value, sock) \in ToApp
        BY <1>5, <2>2
        DEF ReadCommand, NextIsCommand, BuffersOwned, Ack, ToApp, AckMsg, CmdMsg,
            TypeOK, HostTypeOK
      <3> QED
        BY <1>5, <3>1, InboxType DEF ReadCommand, TypeOK
    <2>4. keeplive' \in BOOLEAN
      BY <1>5, <2>2 DEF ReadCommand, Obey, CmdMsg, TypeOK, GuardTypeOK
    <2> QED
      BY <1>5, <2>1, <2>3, <2>4
      DEF ReadCommand, TypeOK, HostTypeOK, GuardTypeOK, ClientTypeOK, clientVars, configVars
  <1>6. CASE ReadRemoteStop
    <2>1. ProcessesTypeOK' /\ Forget
      BY <1>6, DestroyType DEF ReadRemoteStop, Destroy
    <2> QED
      BY <1>6, <2>1, ForgetType DEF ReadRemoteStop
  <1>7. CASE ServiceCrashInLaunch
    <2>1. ProcessesTypeOK'
      BY <1>7, LaunchType DEF ServiceCrashInLaunch, TypeOK, HostTypeOK, ProcessesTypeOK
    <2> QED
      BY <1>7, <2>1, ForgetType DEF ServiceCrashInLaunch
  <1> QED
    BY <1>1, <1>2, <1>3, <1>4, <1>5, <1>6, <1>7 DEF ServiceStep

\* A step of the application, or of its user, keeps every variable's type.
LEMMA ClientStepType ==
  ASSUME TypeOK, ClientStep, UNCHANGED <<guardVars, configVars>>
  PROVE  TypeOK'
  <1> USE DEF TypeOK, HostTypeOK, ClientTypeOK
  <1>0. GuardTypeOK'
    BY DEF GuardTypeOK, guardVars, configVars
  <1>1. CASE ReadHeart
    <2>1. Head(toApp) \in ToApp /\ Tail(toApp) \in Seq(ToApp)
      BY <1>1, TakeType DEF ReadHeart
    <2>2. Head(toApp).packetID \in PacketID /\ Head(toApp).src \in Port
      BY <1>1, <2>1 DEF ReadHeart, ToApp, HeartMsg, AckMsg
    <2>3. toSvc' \in Seq(ToSvc)
      BY <1>1, <2>2, ReplyType, OutboxType DEF ReadHeart
    <2> QED
      BY <1>0, <1>1, <2>1, <2>2, <2>3 DEF ReadHeart
  <1>2. CASE ReadAck
    <2>1. Head(toApp) \in ToApp /\ Tail(toApp) \in Seq(ToApp)
      BY <1>2, TakeType DEF ReadAck
    <2>2. Head(toApp) \in AckMsg
      BY <1>2, <2>1 DEF ReadAck, ToApp, HeartMsg
    <2>3. remoteStart' \in BOOLEAN /\ remotePause' \in BOOLEAN
      BY <1>2, <2>2 DEF ReadAck, AckMsg
    <2>4. senderPort' \in Port
      BY <1>2, <2>2 DEF ReadAck, AckMsg
    <2> QED
      BY <1>0, <1>2, <2>1, <2>3, <2>4 DEF ReadAck
  <1>3. ASSUME NEW object \in RemoteObject, NEW value \in BOOLEAN,
               sendRemoteCMD(object, value)
        PROVE  TypeOK'
    <2>1. Cmd(object, value) \in ToSvc
      BY DEF Cmd, ToSvc, CmdMsg
    <2>2. toSvc' \in Seq(ToSvc)
      BY <1>3, <2>1, OutboxType DEF sendRemoteCMD
    <2> QED
      BY <1>0, <1>3, <2>2 DEF sendRemoteCMD, clientVars
  <1>4. ASSUME NEW p \in Proc, AppStart(p)
        PROVE  TypeOK'
    BY <1>0, <1>4 DEF AppStart, clientVars
  <1>5. ASSUME NEW p \in Proc, DuplicateExit(p) \/ AppExit(p)
        PROVE  TypeOK'
    <2>1. HostTypeOK /\ toApp \in Seq(ToApp) /\ Die({p}, toApp)
      BY <1>5 DEF DuplicateExit, AppExit
    <2> QED
      BY <1>0, <1>5, <2>1, DieType DEF DuplicateExit, AppExit, clientVars
  <1>6. ASSUME NEW p \in Proc, AppHang(p) \/ AppRecover(p) \/ UserOpens(p)
        PROVE  TypeOK'
    BY <1>0, <1>6 DEF AppHang, AppRecover, UserOpens, clientVars
  <1> QED
    BY <1>1, <1>2, <1>3, <1>4, <1>5, <1>6 DEF ClientStep

\* A kill that takes effect keeps every variable's type.
LEMMA KillEndsType ==
  ASSUME TypeOK, KillEnds, UNCHANGED <<guardVars, configVars, clientVars>>
  PROVE  TypeOK'
  <1>1. HostTypeOK /\ toApp \in Seq(ToApp)
    BY DEF TypeOK, HostTypeOK
  <1>2. ASSUME TaskkillEnds
        PROVE  ProcessesTypeOK' /\ UNCHANGED <<toSvc, sock>>
    <2>1. taskkill' \in 0..MaxTaskkill /\ UNCHANGED <<toSvc, sock>>
      BY <1>1, <1>2, TaskkillAssumption DEF TaskkillEnds, HostTypeOK
    <2>2. CASE Die(Running, toApp)
      BY <1>1, <2>1, <2>2, DieType DEF ProcessesTypeOK
    <2>3. CASE UNCHANGED <<proc, bound, toApp>>
      BY <1>1, <2>1, <2>3 DEF HostTypeOK, ProcessesTypeOK
    <2> QED
      BY <1>2, <2>1, <2>2, <2>3 DEF TaskkillEnds
  <1>3. ASSUME NEW p \in Proc, Terminates(p)
        PROVE  ProcessesTypeOK' /\ UNCHANGED <<toSvc, sock>>
    <2>1. Die({p}, toApp) /\ UNCHANGED <<taskkill, toSvc, sock>>
      BY <1>3 DEF Terminates
    <2>2. taskkill' \in 0..MaxTaskkill
      BY <1>1, <2>1 DEF HostTypeOK
    <2> QED
      BY <1>1, <2>1, <2>2, DieType DEF ProcessesTypeOK
  <1>4. ProcessesTypeOK' /\ UNCHANGED <<toSvc, sock>>
    BY <1>2, <1>3 DEF KillEnds
  <1> QED
    BY <1>4
    DEF ProcessesTypeOK, TypeOK, HostTypeOK, GuardTypeOK, ClientTypeOK,
        guardVars, configVars, clientVars

\* Every step keeps every variable's type.
LEMMA TypeStep ==
  ASSUME TypeOK, BuffersOwned, [Next]_vars
  PROVE  TypeOK'
  <1>1. CASE UNCHANGED vars
    BY <1>1
    DEF vars, hostVars, guardVars, configVars, clientVars, TypeOK, HostTypeOK,
        GuardTypeOK, ClientTypeOK
  <1> QED
    BY <1>1, GuardStepType, ServiceStepType, ClientStepType, KillEndsType DEF Next

-----------------------------------------------------------------------------
(* A socket that is not open holds no datagram.                            *)

LEMMA BuffersStep ==
  ASSUME TypeOK, BuffersOwned, [Next]_vars
  PROVE  BuffersOwned'
  <1> USE DEF BuffersOwned
  <1>1. CASE HeartTimeout
    <2>1. PICK id \in HeartID, port \in LocalPort :
            /\ sock' = port
            /\ \/ Recover(Inbox(Heart(id, port)))
               \/ toApp' = Inbox(Heart(id, port)) /\ UNCHANGED bound
      BY <1>1 DEF HeartTimeout
    <2>2. sock' # NoPort
      BY <2>1, PortAssumption DEF LocalPort
    <2>3. bound = NoProc => Inbox(Heart(id, port)) = <<>>
      BY DEF Inbox
    <2>4. bound' = NoProc => toApp' = <<>>
      BY <2>1, <2>3, KillAppBuffers DEF Recover
    <2> QED
      BY <2>2, <2>4
  <1>2. CASE killOther \/ beginTimeOut \/ ServicePause \/ ServiceResume
    BY <1>2 DEF killOther, beginTimeOut, ServicePause, ServiceResume, SetKeepLive, hostVars
  <1>3. CASE startApp \/ ServiceStart
    BY <1>3 DEF startApp, ServiceStart
  <1>4. CASE ReadReply
    BY <1>4 DEF ReadReply
  <1>5. CASE ReadCommand
    BY <1>5 DEF ReadCommand, NextIsCommand, Inbox
  <1>6. CASE ServiceStop \/ ServiceCrash \/ ServiceCrashInLaunch \/ ReadRemoteStop
    <2>1. toSvc' = <<>>
      BY <1>6 DEF ServiceStop, ServiceCrash, ServiceCrashInLaunch, ReadRemoteStop, Destroy, Forget
    <2>2. killApp(toApp) \/ UNCHANGED <<bound, toApp>>
      BY <1>6 DEF ServiceStop, ServiceCrash, ServiceCrashInLaunch, ReadRemoteStop, Destroy
    <2> QED
      BY <2>1, <2>2, KillAppBuffers
  <1>7. CASE KillEnds
    BY <1>7, DieBuffers DEF KillEnds, TaskkillEnds, Terminates
  <1>8. CASE ClientStep
    <2>1. CASE ReadHeart \/ ReadAck
      BY <2>1 DEF ReadHeart, ReadAck, Serving, Outbox
    <2>2. ASSUME NEW object \in RemoteObject, NEW value \in BOOLEAN,
                 sendRemoteCMD(object, value)
          PROVE  BuffersOwned'
      BY <2>2 DEF sendRemoteCMD, Outbox
    <2>3. ASSUME NEW p \in Proc, AppStart(p)
          PROVE  BuffersOwned'
      BY <2>3, ProcAssumption DEF AppStart
    <2>4. ASSUME NEW p \in Proc, DuplicateExit(p) \/ AppExit(p)
          PROVE  BuffersOwned'
      BY <2>4, DieBuffers DEF DuplicateExit, AppExit
    <2>5. ASSUME NEW p \in Proc, AppHang(p) \/ AppRecover(p) \/ UserOpens(p)
          PROVE  BuffersOwned'
      BY <2>5 DEF AppHang, AppRecover, UserOpens
    <2> QED
      BY <1>8, <2>1, <2>2, <2>3, <2>4, <2>5 DEF ClientStep
  <1>9. CASE UNCHANGED vars
    BY <1>9 DEF vars, hostVars
  <1> QED
    BY <1>1, <1>2, <1>3, <1>4, <1>5, <1>6, <1>7, <1>8, <1>9
    DEF Next, GuardStep, ServiceStep

-----------------------------------------------------------------------------
(* The guardian's timers, identifier and counter.                          *)

\* A guardian in the making has one timer, no identifier and the file's counter.
LEMMA StartAppBodyGuard ==
  ASSUME NEW launches, NEW pending, startAppBody(launches, pending)
  PROVE  /\ shots' = pending \cup {"beginTimeOut"}
         /\ launches = ini => reStartCount' = ini'
  BY DEF startAppBody, beginTimeOutTimer, launchUnlessExists, CountLaunch

LEMMA GuardStepInv ==
  ASSUME TypeOK, GuardInv, GuardStep
  PROVE  GuardInv'
  <1> USE DEF GuardInv, OneActivity, Guarding
  <1>1. CASE HeartTimeout
    <2>1. PICK id \in HeartID, port \in LocalPort :
            \/ Recover(Inbox(Heart(id, port)))
            \/ UNCHANGED <<heart, shots>>
      BY <1>1 DEF HeartTimeout
    <2>2. Guarding /\ heart /\ UNCHANGED <<service, reStartCount, ini>>
      BY <1>1 DEF HeartTimeout
    <2>3. CASE Recover(Inbox(Heart(id, port)))
      BY <2>2, <2>3 DEF Recover
    <2>4. CASE UNCHANGED <<heart, shots>>
      BY <2>2, <2>4
    <2> QED
      BY <2>1, <2>3, <2>4
  <1>2. CASE killOther
    BY <1>2 DEF killOther, configVars
  <1>3. CASE startApp
    <2>1. shots' = (shots \ {"startApp"}) \cup {"beginTimeOut"}
      BY <1>3, StartAppBodyGuard DEF startApp
    <2>2. Guarding /\ ~heart /\ shots = {"startApp"}
      BY <1>3 DEF startApp
    <2>3. reStartCount' = ini'
      BY <1>3, <2>2, StartAppBodyGuard DEF startApp
    <2> QED
      BY <1>3, <2>1, <2>2, <2>3 DEF startApp
  <1>4. CASE beginTimeOut
    <2>1. Guarding /\ ~heart /\ shots = {"beginTimeOut"}
      BY <1>4 DEF beginTimeOut
    <2> QED
      BY <1>4, <2>1 DEF beginTimeOut, configVars
  <1>5. CASE ReadReply
    BY <1>5 DEF ReadReply, configVars
  <1> QED
    BY <1>1, <1>2, <1>3, <1>4, <1>5 DEF GuardStep

LEMMA ServiceStepInv ==
  ASSUME TypeOK, GuardInv, ServiceStep
  PROVE  GuardInv'
  <1> USE DEF GuardInv, OneActivity, Guarding
  <1>1. CASE ServiceStart
    <2>1. shots' = {"beginTimeOut"} /\ reStartCount' = ini'
      BY <1>1, StartAppBodyGuard DEF ServiceStart, Construct
    <2> QED
      BY <1>1, <2>1 DEF ServiceStart, Construct
  <1>2. CASE ServiceStop \/ ServiceCrash \/ ServiceCrashInLaunch \/ ReadRemoteStop
    <2>1. Forget /\ service' \in {"down", "stopped"}
      BY <1>2 DEF ServiceStop, ServiceCrash, ServiceCrashInLaunch, ReadRemoteStop, Destroy
    <2>2. ~heart' /\ keeplive'
      BY <2>1 DEF Forget
    <2>3. shots' = {} /\ reStartCount' = 0 /\ packetID' = NoPacket
      BY <2>1 DEF Forget
    <2>4. ~Guarding'
      BY <2>1
    <2> HIDE DEF Guarding
    <2> QED
      BY <2>2, <2>3, <2>4
  <1>3. CASE ServicePause \/ ServiceResume
    BY <1>3 DEF ServicePause, ServiceResume, SetKeepLive, configVars
  <1>4. CASE ReadCommand
    BY <1>4 DEF ReadCommand, NextIsCommand, configVars
  <1> QED
    BY <1>1, <1>2, <1>3, <1>4 DEF ServiceStep

LEMMA GuardInvStep ==
  ASSUME TypeOK, GuardInv, [Next]_vars
  PROVE  GuardInv'
  <1>1. CASE UNCHANGED <<guardVars, configVars>>
    BY <1>1 DEF GuardInv, OneActivity, Guarding, guardVars, configVars
  <1>2. CASE UNCHANGED vars
    BY <1>1, <1>2 DEF vars
  <1> QED
    BY <1>1, <1>2, GuardStepInv, ServiceStepInv DEF Next

-----------------------------------------------------------------------------
(* One instance at most.                                                   *)

(* A step that neither launches nor lets a user launch starts no process.  *)
LEMMA OthersShrink ==
  ASSUME TypeOK, [Next]_vars, "open" \notin Faults
  PROVE  Running' \subseteq Running \/ startApp \/ ServiceStart \/ ServiceCrashInLaunch
  <1>0. HostTypeOK
    BY DEF TypeOK
  <1>1. CASE UNCHANGED proc
    BY <1>1 DEF Running
  <1>2. CASE HeartTimeout
    <2>1. PICK inbox : killApp(inbox) \/ UNCHANGED proc
      BY <1>2 DEF HeartTimeout, Recover
    <2> QED
      BY <1>0, <1>1, <2>1, KillAppShrinks
  <1>3. CASE ServiceStop \/ ServiceCrash \/ ReadRemoteStop
    <2>1. killApp(toApp) \/ UNCHANGED proc
      BY <1>3 DEF ServiceStop, ServiceCrash, ReadRemoteStop, Destroy
    <2> QED
      BY <1>0, <1>1, <2>1, KillAppShrinks
  <1>4. CASE KillEnds
    BY <1>0, <1>4 DEF KillEnds, TaskkillEnds, Terminates, Die, Running, HostTypeOK
  <1>5. ASSUME NEW p \in Proc, AppStart(p)
        PROVE  Running' \subseteq Running
    BY <1>0, <1>5 DEF AppStart, Running, HostTypeOK
  <1>6. ASSUME NEW p \in Proc, DuplicateExit(p) \/ AppExit(p)
        PROVE  Running' \subseteq Running
    BY <1>0, <1>6 DEF DuplicateExit, AppExit, Die, Running, HostTypeOK
  <1>7. ASSUME NEW p \in Proc, AppHang(p) \/ AppRecover(p) \/ UserOpens(p)
        PROVE  Running' \subseteq Running
    BY <1>0, <1>7 DEF AppHang, AppRecover, UserOpens, Running, HostTypeOK
  <1>8. ASSUME NEW object, NEW value, sendRemoteCMD(object, value)
        PROVE  UNCHANGED proc
    BY <1>8 DEF sendRemoteCMD
  <1>9. CASE ReadHeart \/ ReadAck \/ killOther \/ beginTimeOut \/ ReadReply
                \/ ServicePause \/ ServiceResume \/ ReadCommand \/ UNCHANGED vars
    BY <1>1, <1>9
    DEF ReadHeart, ReadAck, killOther, beginTimeOut, ReadReply, ServicePause,
        ServiceResume, SetKeepLive, ReadCommand, vars, hostVars
  <1> QED
    BY <1>1, <1>2, <1>3, <1>4, <1>5, <1>6, <1>7, <1>8, <1>9
    DEF Next, GuardStep, ServiceStep, ClientStep

LEMMA InstanceStep ==
  ASSUME TypeOK, AtMostOneInstance, [Next]_vars
  PROVE  AtMostOneInstance'
  <1> SUFFICES ASSUME ExactList, "open" \notin Faults
               PROVE  \A p, q \in Running' : p = q
    BY DEF AtMostOneInstance, ExactList
  <1>1. \A p, q \in Running : p = q
    BY DEF AtMostOneInstance
  <1>2. CASE Running' \subseteq Running
    BY <1>1, <1>2
  <1>3. CASE startApp \/ ServiceStart \/ ServiceCrashInLaunch
    <2>1. (FALSE \in IsExistProcess /\ startDetached) \/ UNCHANGED proc
      BY <1>3
      DEF startApp, ServiceStart, ServiceCrashInLaunch, Construct, startAppBody,
          launchUnlessExists
    <2>2. Running' \subseteq Running \/ \A p, q \in Running' : p = q
      BY <2>1, LaunchAlone DEF TypeOK, ExactList, Running
    <2> QED
      BY <1>1, <2>2
  <1> QED
    BY <1>2, <1>3, OthersShrink

-----------------------------------------------------------------------------
(* The inductive invariant and what follows from it.                       *)

LEMMA LiveInvInit == Init => LiveInv
  <1> SUFFICES ASSUME Init PROVE LiveInv
    OBVIOUS
  <1>1. BuffersOwned
    BY DEF Init, HostInit, BuffersOwned
  <1>2. GuardInv
    BY DEF Init, GuardInit, GuardInv, OneActivity, Guarding
  <1>3. AtMostOneInstance
    BY DEF Init, HostInit, AtMostOneInstance, Running
  <1> QED
    BY <1>1, <1>2, <1>3, TypeInit DEF LiveInv

LEMMA LiveInvStep == LiveInv /\ [Next]_vars => LiveInv'
  BY TypeStep, BuffersStep, GuardInvStep, InstanceStep DEF LiveInv

LEMMA LiveInvariant == Spec => []LiveInv
  BY LiveInvInit, LiveInvStep, PTL DEF Spec

\* A client that knows no remote start never deletes the guardian.
LEMMA NoRemoteStop ==
  ASSUME TypeOK, "start" \notin RemoteObject
  PROVE  ~ReadRemoteStop
  <1> SUFFICES ASSUME ReadRemoteStop PROVE FALSE
    OBVIOUS
  <1>1. Head(toSvc) \in ToSvc /\ Head(toSvc).type = "cmd" /\ Head(toSvc).object = "start"
    BY TakeType DEF ReadRemoteStop, NextIsCommand, Deletes, TypeOK, HostTypeOK
  <1> QED
    BY <1>1 DEF ToSvc, ReplyMsg, Reply, CmdMsg

(* Every variable keeps its type, whatever the platform, the faults and    *)
(* the sizes.                                                              *)
THEOREM TypeCorrect == Spec => []TypeOK
  <1>1. LiveInv => TypeOK
    BY DEF LiveInv
  <1> QED
    BY <1>1, LiveInvariant, PTL

(* A guardian is always on its way to the next heartbeat, on one way only. *)
THEOREM NeverIdleNeverTwice == Spec => []OneActivity
  <1>1. LiveInv => OneActivity
    BY DEF LiveInv, GuardInv
  <1> QED
    BY <1>1, LiveInvariant, PTL

(* With an exact process list the service never launches the application   *)
(* beside one that runs.                                                   *)
THEOREM OneInstance == Spec => []AtMostOneInstance
  <1>1. LiveInv => AtMostOneInstance
    BY DEF LiveInv
  <1> QED
    BY <1>1, LiveInvariant, PTL

\* The body of startApp never takes the file's counter back.
LEMMA LaunchRecorded ==
  ASSUME NEW launches \in Nat, NEW pending, startAppBody(launches, pending),
         launches = ini
  PROVE  ini' >= ini
  <1>1. CASE UNCHANGED ini
    BY <1>1
  <1>2. CASE CountLaunch(launches)
    BY <1>2 DEF CountLaunch
  <1> QED
    BY <1>1, <1>2 DEF startAppBody, launchUnlessExists

\* No step takes it back.
LEMMA RecordStep ==
  ASSUME LiveInv, Next
  PROVE  ini' >= ini
  <1>1. ini \in Nat /\ reStartCount \in Nat
    BY ReStartAssumption DEF LiveInv, TypeOK, GuardTypeOK
  <1>2. CASE UNCHANGED ini
    BY <1>1, <1>2
  <1>3. CASE startApp
    <2>1. reStartCount = ini /\ startAppBody(reStartCount, shots \ {"startApp"})
      BY <1>3 DEF startApp, LiveInv, GuardInv
    <2> QED
      BY <1>1, <2>1, LaunchRecorded
  <1>4. CASE ServiceStart
    <2>1. startAppBody(ini, {})
      BY <1>4 DEF ServiceStart, Construct
    <2> QED
      BY <1>1, <2>1, LaunchRecorded
  <1>5. startApp \/ ServiceStart \/ UNCHANGED ini
    BY DEF Next, GuardStep, ServiceStep, HeartTimeout, killOther, beginTimeOut,
           ReadReply, ServiceStop, ServiceCrash, ServiceCrashInLaunch, ServicePause,
           ServiceResume, SetKeepLive, ReadCommand, ReadRemoteStop, Destroy, Forget, configVars
  <1> QED
    BY <1>2, <1>3, <1>4, <1>5

(* The restart counter in the configuration file never goes back, and a    *)
(* guardian's own agrees with it, across stops, crashes and restarts.      *)
THEOREM RestartsAreRecorded == Spec => RestartsRecorded
  <1>1. ASSUME LiveInv, LiveInv', [Next]_vars
        PROVE  [ini' >= ini /\ (Guarding' => reStartCount' = ini')]_vars
    <2>1. Guarding' => reStartCount' = ini'
      BY <1>1 DEF LiveInv, GuardInv
    <2> QED
      BY <1>1, <2>1, RecordStep
  <1> QED
    BY <1>1, LiveInvariant, PTL DEF Spec, RestartsRecorded
-----------------------------------------------------------------------------
(* The guardian cannot kill: it is told not to, or the search for the name *)
(* followed by a space finds no application launched without arguments.    *)
Harmless == ~DestoryApp \/ (Platform # "windows" /\ ~OperateParameter)

LEMMA HarmlessKill ==
  ASSUME Harmless, NEW inbox, killApp(inbox)
  PROVE  UNCHANGED <<proc, bound, taskkill>>
  <1>1. CASE ~DestoryApp
    BY <1>1 DEF killApp
  <1>2. CASE Platform # "windows" /\ ~OperateParameter
    <2>1. IsExistProcess = {FALSE}
      BY <1>2 DEF IsExistProcess, LinuxIsExistProcess
    <2> QED
      BY <2>1 DEF killApp
  <1> QED
    BY <1>1, <1>2 DEF Harmless

\* No taskkill is ever started then.
NoTaskkill == Harmless => taskkill = 0

LEMMA NoTaskkillStep ==
  ASSUME NoTaskkill, [Next]_vars
  PROVE  NoTaskkill'
  <1> SUFFICES ASSUME Harmless
               PROVE  taskkill = 0 => taskkill' = 0
    BY DEF NoTaskkill, Harmless
  <1>1. CASE UNCHANGED taskkill
    BY <1>1
  <1>2. CASE HeartTimeout \/ Destroy
    <2>1. PICK inbox : killApp(inbox) \/ UNCHANGED taskkill
      BY <1>2 DEF HeartTimeout, Recover, Destroy
    <2> QED
      BY <2>1, HarmlessKill
  <1>3. CASE KillEnds
    <2>1. TaskkillEnds \/ UNCHANGED taskkill
      BY <1>3 DEF KillEnds, Terminates
    <2>2. TaskkillEnds => taskkill # 0
      BY DEF TaskkillEnds
    <2> QED
      BY <2>1, <2>2
  <1> QED
    BY <1>1, <1>2, <1>3
    DEF Next, GuardStep, ServiceStep, ClientStep, vars, hostVars, killOther, startApp,
        beginTimeOut, ReadReply, ServiceStart, ServiceStop, ServiceCrash, ServiceCrashInLaunch,
        ServicePause, ServiceResume, SetKeepLive, ReadCommand, ReadRemoteStop, ReadHeart, ReadAck,
        sendRemoteCMD, AppStart, DuplicateExit, AppExit, AppHang, AppRecover, UserOpens

\* A process that hangs goes on hanging, with the port if it has it.
LEMMA HarmlessStep ==
  ASSUME LiveInv, NoTaskkill, Harmless, GuardStep \/ ServiceStep \/ KillEnds,
         NEW p \in Proc, proc[p] = "hung"
  PROVE  proc'[p] = "hung" /\ (bound = p => bound' = p)
  <1>1. CASE UNCHANGED <<proc, bound>>
    BY <1>1
  <1>2. CASE HeartTimeout \/ Destroy
    <2>1. PICK inbox : killApp(inbox) \/ UNCHANGED <<proc, bound>>
      BY <1>2 DEF HeartTimeout, Recover, Destroy
    <2> QED
      BY <2>1, HarmlessKill
  <1>3. CASE KillEnds
    <2>1. PICK q \in Proc : Terminates(q)
      BY <1>3 DEF KillEnds, NoTaskkill, TaskkillEnds
    <2> QED
      BY <2>1 DEF Terminates, Die
  <1>4. CASE startApp \/ ServiceStart \/ ServiceCrashInLaunch
    <2>1. UNCHANGED bound /\ (UNCHANGED proc \/ startDetached)
      BY <1>4
      DEF startApp, ServiceStart, ServiceCrashInLaunch, Construct, startAppBody,
          launchUnlessExists
    <2>2. startDetached => proc'[p] = proc[p]
      BY DEF startDetached, Running, LiveInv, TypeOK, HostTypeOK
    <2> QED
      BY <2>1, <2>2
  <1> QED
    BY <1>1, <1>2, <1>3, <1>4
    DEF GuardStep, ServiceStep, hostVars, killOther, beginTimeOut, ReadReply, ServiceStop,
        ServiceCrash, ServicePause, ServiceResume, SetKeepLive, ReadCommand, ReadRemoteStop

LEMMA NoTaskkillHolds == Spec => []NoTaskkill
  <1>1. Init => NoTaskkill
    BY DEF Init, HostInit, NoTaskkill
  <1> QED
    BY <1>1, NoTaskkillStep, PTL DEF Spec

(* An application that hangs is never killed by a guardian that cannot     *)
(* find it (off Windows, when it was launched without arguments), or is    *)
(* told not to, whatever the service and its users do: only the            *)
(* application itself, or who crashes it, ends that.                       *)
THEOREM HungNeverKilled ==
  ASSUME ~DestoryApp \/ (Platform # "windows" /\ ~OperateParameter)
  PROVE  Spec => [][\A p \in Proc :
                      (bound = p /\ proc[p] = "hung" /\ (GuardStep \/ ServiceStep \/ KillEnds))
                        => bound' = p /\ proc'[p] = "hung"]_vars
  <1>1. LiveInv /\ NoTaskkill /\ [Next]_vars
          => [\A p \in Proc :
                (bound = p /\ proc[p] = "hung" /\ (GuardStep \/ ServiceStep \/ KillEnds))
                  => bound' = p /\ proc'[p] = "hung"]_vars
    BY HarmlessStep DEF Harmless
  <1> QED
    BY <1>1, LiveInvariant, NoTaskkillHolds, PTL DEF Spec

-----------------------------------------------------------------------------
\* What the client sends back of an identifier is never the identifier.
Unrecognisable == \A id \in PacketID : id >= IdModulus

(* No answer is believed then, not even that of an application that        *)
(* answers every heartbeat at once (readData's toUInt, the comparison in   *)
(* readyRead).                                                             *)
LEMMA NeverRecognised ==
  ASSUME LiveInv, Unrecognisable, ReadReply
  PROVE  ~Answers(Head(toSvc))
  <1>1. PICK id \in PacketID : Head(toSvc) = Reply(id)
    <2>1. Head(toSvc) \in ToSvc
      BY TakeType DEF LiveInv, TypeOK, HostTypeOK, ReadReply
    <2> QED
      BY <2>1 DEF ToSvc, CmdMsg, ReplyMsg, ReadReply
  <1>2. Head(toSvc).packetID \in Nat /\ Head(toSvc).packetID < IdModulus
    BY <1>1, PacketAssumption, ModulusAssumption DEF Reply, Echo
  <1>3. packetID \in PacketID \cup {NoPacket}
    BY DEF LiveInv, TypeOK, GuardTypeOK
  <1> QED
    BY <1>2, <1>3, PacketAssumption, ModulusAssumption DEF Answers, Unrecognisable

-----------------------------------------------------------------------------
(* Identifiers never run out.                                              *)

\* No buffer holds more than it has room for.
BuffersBounded == Len(toApp) <= BufferSize /\ Len(toSvc) <= BufferSize

LEMMA DeliverBounded ==
  ASSUME NEW S, NEW buffer \in Seq(S), Len(buffer) <= BufferSize, NEW m
  PROVE  Len(Deliver(buffer, m)) <= BufferSize
  BY BufferAssumption DEF Deliver

LEMMA TakeBounded ==
  ASSUME NEW S, NEW buffer \in Seq(S), Len(buffer) <= BufferSize, buffer # <<>>
  PROVE  Len(Tail(buffer)) <= BufferSize
  BY BufferAssumption

LEMMA BoundedStep ==
  ASSUME LiveInv, BuffersBounded, [Next]_vars
  PROVE  BuffersBounded'
  <1>0. /\ toApp \in Seq(ToApp) /\ toSvc \in Seq(ToSvc)
        /\ Len(toApp) <= BufferSize /\ Len(toSvc) <= BufferSize
        /\ Len(<<>>) <= BufferSize
    BY BufferAssumption DEF LiveInv, TypeOK, HostTypeOK, BuffersBounded
  <1>1. ASSUME NEW m PROVE Len(Inbox(m)) <= BufferSize
    BY <1>0, DeliverBounded DEF Inbox
  <1>2. ASSUME NEW m, NEW port PROVE Len(Outbox(m, port)) <= BufferSize
    BY <1>0, DeliverBounded DEF Outbox
  <1>3. ASSUME NEW dead, NEW inbox, Die(dead, inbox), Len(inbox) <= BufferSize
        PROVE  Len(toApp') <= BufferSize
    BY <1>0, <1>3 DEF Die
  <1>4. ASSUME NEW inbox, killApp(inbox), Len(inbox) <= BufferSize
        PROVE  Len(toApp') <= BufferSize
    BY <1>3, <1>4 DEF killApp, killProcess, runTaskkill, killAll
  <1>5. CASE HeartTimeout
    <2>1. toSvc' = toSvc
      BY <1>5 DEF HeartTimeout
    <2>2. PICK m : killApp(Inbox(m)) \/ toApp' = Inbox(m)
      BY <1>5 DEF HeartTimeout, Recover
    <2> QED
      BY <1>0, <1>1, <1>4, <2>1, <2>2 DEF BuffersBounded
  <1>6. CASE ServiceStop \/ ServiceCrash \/ ServiceCrashInLaunch \/ ReadRemoteStop
    <2>1. toSvc' = <<>>
      BY <1>6 DEF ServiceStop, ServiceCrash, ServiceCrashInLaunch, ReadRemoteStop, Destroy, Forget
    <2>2. killApp(toApp) \/ UNCHANGED toApp
      BY <1>6 DEF ServiceStop, ServiceCrash, ServiceCrashInLaunch, ReadRemoteStop, Destroy
    <2> QED
      BY <1>0, <1>4, <2>1, <2>2 DEF BuffersBounded
  <1>7. CASE ReadReply
    BY <1>0, <1>7, TakeBounded DEF ReadReply, BuffersBounded
  <1>8. CASE ReadCommand
    <2>1. Len(toApp') <= BufferSize
      BY <1>1, <1>8 DEF ReadCommand
    <2> QED
      BY <1>0, <1>8, <2>1, TakeBounded DEF ReadCommand, NextIsCommand, BuffersBounded
  <1>9. CASE ReadHeart \/ ReadAck
    <2>1. Len(toSvc') <= BufferSize
      BY <1>0, <1>2, <1>9 DEF ReadHeart, ReadAck
    <2> QED
      BY <1>0, <1>9, <2>1, TakeBounded DEF ReadHeart, ReadAck, BuffersBounded
  <1>10. ASSUME NEW object \in RemoteObject, NEW value \in BOOLEAN, sendRemoteCMD(object, value)
         PROVE  BuffersBounded'
    BY <1>0, <1>2, <1>10 DEF sendRemoteCMD, BuffersBounded
  <1>11. ASSUME NEW p \in Proc, DuplicateExit(p) \/ AppExit(p)
         PROVE  BuffersBounded'
    BY <1>0, <1>3, <1>11 DEF DuplicateExit, AppExit, BuffersBounded
  <1>12. CASE KillEnds
    BY <1>0, <1>3, <1>12 DEF KillEnds, TaskkillEnds, Terminates, BuffersBounded
  <1>13. CASE UNCHANGED <<toApp, toSvc>>
    BY <1>13 DEF BuffersBounded
  <1> QED
    BY <1>5, <1>6, <1>7, <1>8, <1>9, <1>10, <1>11, <1>12, <1>13
    DEF Next, GuardStep, ServiceStep, ClientStep, vars, hostVars, killOther, startApp,
        beginTimeOut, ServiceStart, ServicePause, ServiceResume, SetKeepLive, AppStart, AppHang,
        AppRecover, UserOpens

(* A heartbeat that is due can always be sent: with more identifiers than  *)
(* two full buffers hold there is one for it.  The code takes the clock's  *)
(* and never waits (send_heart); so does the model.                        *)
THEOREM BeatAlwaysHasIdentifier ==
  ASSUME ~IsFiniteSet(PacketID) \/ Cardinality(PacketID) > BufferSize + BufferSize
  PROVE  Spec => [](HeartID # {})
  <1>1. Init => BuffersBounded
    BY BufferAssumption DEF Init, HostInit, BuffersBounded
  <1>2. ASSUME LiveInv, BuffersBounded
        PROVE  HeartID # {}
    <2>1. IsFiniteSet(InFlight) /\ Cardinality(InFlight) <= Len(toApp) + Len(toSvc)
      BY <1>2, InFlightSmall DEF LiveInv, TypeOK
    <2>2. Len(toApp) \in Nat /\ Len(toSvc) \in Nat /\ Cardinality(InFlight) \in Nat
      BY <1>2, <2>1, FS_CardinalityType DEF LiveInv, TypeOK, HostTypeOK
    <2>3. Cardinality(InFlight) <= BufferSize + BufferSize
      BY <1>2, <2>1, <2>2, BufferAssumption DEF BuffersBounded
    <2>4. Unused # {}
      <3>1. CASE PacketID \subseteq InFlight
        <4>1. IsFiniteSet(PacketID) /\ Cardinality(PacketID) <= Cardinality(InFlight)
          BY <2>1, <3>1, FS_Subset
        <4>2. Cardinality(PacketID) \in Nat
          BY <4>1, FS_CardinalityType
        <4> QED
          BY <2>2, <2>3, <4>1, <4>2, BufferAssumption
      <3> QED
        BY <3>1 DEF Unused
    <2>5. \E id \in Unused : \A other \in Unused : id <= other
      BY <2>4, LeastExists, PacketAssumption DEF Unused
    <2> QED
      BY <2>5 DEF HeartID
  <1> QED
    BY <1>1, <1>2, BoundedStep, LiveInvariant, PTL DEF Spec
=============================================================================
