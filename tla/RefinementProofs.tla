-------------------------- MODULE RefinementProofs --------------------------
(***************************************************************************)
(* Every step of the system is a step of Watchdog, or leaves it as it is.  *)
(***************************************************************************)
EXTENDS LiveRefinement, LiveProofs

\* The invariant in the words of Watchdog.
LEMMA ModeCases ==
  ASSUME GuardInv
  PROVE  /\ mode = "off" <=> ~Guarding
         /\ mode = "watching" <=> heart
         /\ Guarding /\ ~heart /\ "startApp" \in shots => mode = "recovering"
         /\ Guarding /\ ~heart /\ "startApp" \notin shots => mode = "launching"
  BY DEF mode, GuardInv

LEMMA WatchStutters ==
  ASSUME UNCHANGED <<service, heart, shots, ok, count, keeplive, reStartCount, ini>>
  PROVE  UNCHANGED Guardian!watchVars
  BY DEF Guardian!watchVars, mode, misses, Guarding

\* A launch by the guardian is a launch of Watchdog.
LEMMA LaunchRefines ==
  ASSUME LiveInv, LiveInv', NEW launches, NEW pending,
         startAppBody(launches, pending), Guarding', ~heart',
         "startApp" \notin pending
  PROVE  Guardian!Launch(launches)
  <1>1. mode' = "launching"
    BY ModeCases DEF LiveInv, startAppBody, beginTimeOutTimer, mode, GuardInv
  <1>2. misses' = 0
    BY DEF misses, startAppBody
  <1>3. \/ reStartCount' = launches /\ UNCHANGED ini
        \/ CountLaunch(launches)
    BY DEF startAppBody, launchUnlessExists
  <1> QED
    BY <1>1, <1>2, <1>3 DEF Guardian!Launch, CountLaunch

LEMMA AskRefines ==
  ASSUME LiveInv, LiveInv', HeartTimeout
  PROVE  Guardian!Ask
  <1>1. Guarding /\ heart /\ Guarding' /\ mode = "watching"
    BY ModeCases DEF HeartTimeout, LiveInv, Guarding
  <1>2. count \in 0..TimeoutCount /\ count' = Misses /\ ~ok'
    BY DEF LiveInv, TypeOK, GuardTypeOK, HeartTimeout
  <1>3. misses' = IF misses <= TimeoutCount THEN misses + 1 ELSE misses
    <2>1. misses' = Misses + 1
      BY <1>1, <1>2 DEF misses
    <2>2. CASE ok
      BY <1>1, <2>1, <2>2, TimeoutAssumption DEF misses, Misses
    <2>3. CASE ~ok
      BY <1>1, <1>2, <2>1, <2>3, TimeoutAssumption DEF misses, Misses
    <2> QED
      BY <2>2, <2>3
  <1>4. Silent <=> (misses >= TimeoutCount /\ keeplive)
    <2>1. CASE ok
      BY <1>1, <2>1 DEF Silent, misses, Misses
    <2>2. CASE ~ok
      BY <1>1, <1>2, <2>2, TimeoutAssumption DEF Silent, misses, Misses
    <2> QED
      BY <2>1, <2>2
  <1>5. mode' = IF Silent THEN "recovering" ELSE "watching"
    <2>1. CASE Silent
      <3>1. ~heart' /\ "startApp" \in shots'
        BY <2>1 DEF HeartTimeout, Recover
      <3> QED
        BY <1>1, <2>1, <3>1 DEF mode
    <2>2. CASE ~Silent
      <3>1. heart'
        BY <1>1, <2>2 DEF HeartTimeout
      <3> QED
        BY <1>1, <2>2, <3>1 DEF mode
    <2> QED
      BY <2>1, <2>2
  <1>6. UNCHANGED <<keeplive, reStartCount, ini>>
    BY DEF HeartTimeout
  <1> QED
    BY <1>1, <1>3, <1>4, <1>5, <1>6 DEF Guardian!Ask

LEMMA GuardStepRefines ==
  ASSUME LiveInv, LiveInv', GuardStep
  PROVE  [Guardian!WatchNext]_(Guardian!watchVars)
  <1>1. CASE HeartTimeout
    BY <1>1, AskRefines DEF Guardian!WatchNext
  <1>2. CASE killOther
    <2>1. "startApp" \in shots <=> "startApp" \in shots'
      BY <1>2 DEF killOther
    <2>2. UNCHANGED <<mode, misses>>
      BY <1>2, <2>1 DEF killOther, mode, misses, Guarding
    <2> QED
      BY <1>2, <2>2 DEF killOther, configVars, Guardian!watchVars
  <1>3. CASE startApp
    <2>1. Guarding /\ ~heart /\ mode = "recovering"
      BY <1>3, ModeCases DEF startApp, LiveInv, GuardInv, OneActivity
    <2>2. startAppBody(reStartCount, shots \ {"startApp"}) /\ Guarding' /\ ~heart'
      BY <1>3, <2>1 DEF startApp, Guarding
    <2>3. Guardian!Launch(reStartCount)
      BY <2>2, LaunchRefines
    <2> QED
      BY <1>3, <2>1, <2>3 DEF startApp, Guardian!Relaunch, Guardian!WatchNext
  <1>4. CASE beginTimeOut
    <2>1. mode = "launching" /\ mode' = "watching"
      BY <1>4, ModeCases DEF beginTimeOut, LiveInv, GuardInv, OneActivity, Guarding, mode
    <2>2. UNCHANGED misses
      BY <1>4 DEF beginTimeOut, misses, Guarding
    <2> QED
      BY <1>4, <2>1, <2>2
      DEF beginTimeOut, configVars, Guardian!Arm, Guardian!WatchNext
  <1>5. CASE ReadReply
    <2>1. CASE UNCHANGED <<packetID, count, ok>>
      BY <1>5, <2>1, WatchStutters DEF ReadReply, configVars
    <2>2. CASE Answers(Head(toSvc)) /\ ok'
      <3>1. packetID # NoPacket
        <4>1. Head(toSvc) \in ToSvc
          BY <1>5, TakeType DEF LiveInv, TypeOK, HostTypeOK, ReadReply
        <4>2. PICK id \in PacketID : Head(toSvc) = Reply(id)
          BY <1>5, <4>1 DEF ToSvc, CmdMsg, ReplyMsg, ReadReply
        <4>3. Head(toSvc).packetID \in Nat
          BY <4>2, PacketAssumption, ModulusAssumption DEF Reply, Echo
        <4> QED
          BY <2>2, <4>3, PacketAssumption DEF Answers
      <3>2. heart /\ Guarding /\ mode = "watching"
        BY <1>5, <3>1, ModeCases DEF ReadReply, LiveInv, GuardInv
      <3>3. misses' = 0 /\ UNCHANGED mode
        BY <1>5, <2>2 DEF ReadReply, misses, mode, Guarding
      <3> QED
        BY <1>5, <3>2, <3>3
        DEF ReadReply, configVars, Guardian!Hear, Guardian!WatchNext
    <2> QED
      BY <1>5, <2>1, <2>2 DEF ReadReply
  <1> QED
    BY <1>1, <1>2, <1>3, <1>4, <1>5 DEF GuardStep

LEMMA ServiceStepRefines ==
  ASSUME LiveInv, LiveInv', ServiceStep
  PROVE  [Guardian!WatchNext]_(Guardian!watchVars)
  <1>1. CASE ServiceStart
    <2>1. ~Guarding /\ mode = "off"
      BY <1>1 DEF ServiceStart, mode, Guarding
    <2>2. startAppBody(ini, {}) /\ Guarding' /\ ~heart' /\ keeplive'
      BY <1>1 DEF ServiceStart, Construct, Guarding
    <2>3. Guardian!Launch(ini)
      BY <2>2, LaunchRefines
    <2> QED
      BY <2>1, <2>2, <2>3 DEF Guardian!SwitchOn, Guardian!WatchNext
  <1>2. CASE ServiceStop \/ ServiceCrash \/ ServiceCrashInLaunch \/ ReadRemoteStop
    <2>1. Forget /\ service' \in {"down", "stopped"}
      BY <1>2 DEF ServiceStop, ServiceCrash, ServiceCrashInLaunch, ReadRemoteStop, Destroy
    <2>2. mode' = "off" /\ misses' = 0
      BY <2>1 DEF mode, misses, Guarding
    <2>3. keeplive' /\ reStartCount' = 0 /\ UNCHANGED ini
      BY <2>1 DEF Forget
    <2>4. CASE Guarding
      <3>1. mode # "off"
        BY <2>4, ModeCases DEF LiveInv
      <3> QED
        BY <2>2, <2>3, <3>1 DEF Guardian!SwitchOff, Guardian!WatchNext
    <2>5. CASE ~Guarding
      BY <2>2, <2>3, <2>5 DEF LiveInv, GuardInv, mode, misses, Guardian!watchVars
    <2> QED
      BY <2>4, <2>5
  <1>3. CASE ServicePause \/ ServiceResume \/ ReadCommand
    <2>1. Guarding
      BY <1>3 DEF ServicePause, ServiceResume, SetKeepLive, ReadCommand, NextIsCommand
    <2>2. UNCHANGED <<service, heart, shots, ok, count, reStartCount, ini>>
      BY <1>3 DEF ServicePause, ServiceResume, SetKeepLive, ReadCommand, configVars
    <2>3. mode # "off" /\ UNCHANGED <<mode, misses>>
      BY <2>1, <2>2, ModeCases DEF LiveInv, mode, misses, Guarding
    <2> QED
      BY <2>2, <2>3 DEF Guardian!Pause, Guardian!WatchNext
  <1> QED
    BY <1>1, <1>2, <1>3 DEF ServiceStep

LEMMA StepRefines ==
  ASSUME LiveInv, LiveInv', [Next]_vars
  PROVE  [Guardian!WatchNext]_(Guardian!watchVars)
  <1>1. CASE UNCHANGED <<guardVars, configVars>>
    BY <1>1, WatchStutters DEF guardVars, configVars
  <1>2. CASE UNCHANGED vars
    BY <1>1, <1>2 DEF vars
  <1> QED
    BY <1>1, <1>2, GuardStepRefines, ServiceStepRefines DEF Next

(* The guardian of the service keeps the promises of Watchdog.             *)
THEOREM WatchdogImplemented == Spec => ImplementsWatchdog
  <1>1. Init => Guardian!WatchInit
    BY DEF Init, GuardInit, Guardian!WatchInit, mode, misses, Guarding
  <1>2. LiveInv /\ LiveInv' /\ [Next]_vars => [Guardian!WatchNext]_(Guardian!watchVars)
    BY StepRefines
  <1> QED
    BY <1>1, <1>2, LiveInvariant, PTL DEF Spec, ImplementsWatchdog, Guardian!WatchSafety
=============================================================================
