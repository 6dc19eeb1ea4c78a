---------------------------- MODULE TimedProofs -----------------------------
(***************************************************************************)
(* How long things last: what is left of each timer, added to the age of   *)
(* what the guardian reacts to, never exceeds the promised bound.          *)
(***************************************************************************)
EXTENDS LiveTimed, LiveProofs

\* Every step in time is a step of LiveSystem, or leaves it unchanged.
LEMMA TimedStep == [TimedNext]_timedVars => [Next]_vars
  BY DEF TimedNext, Step, GuardTimers, On, Tick, Next, GuardStep, timedVars

LEMMA TimedLiveInv == TimedSpec => []LiveInv
  <1>1. TimedInit => LiveInv
    BY LiveInvInit DEF TimedInit
  <1>2. LiveInv /\ [TimedNext]_timedVars => LiveInv'
    BY LiveInvStep, TimedStep
  <1> QED
    BY <1>1, <1>2, PTL DEF TimedSpec

(* The clocks only hold steps back: what LiveSystem never does it does not *)
(* do in time either, so that its theorems hold of LiveTimed.              *)
THEOREM TimedIsLive == TimedSpec => Spec
  <1>1. TimedInit => Init
    BY DEF TimedInit
  <1> QED
    BY <1>1, TimedStep, PTL DEF TimedSpec, Spec

-----------------------------------------------------------------------------
(* The clocks.                                                             *)

ClockTypeOK ==
  /\ left \in [Timers -> Nat]
  /\ \A t \in Timers : left[t] <= Delay[t]
  /\ since \in [Proc -> 0..MaxAge]
  /\ killing \in Nat

LEMMA DelayType == \A t \in Timers : Delay[t] \in Nat
  BY IntervalAssumption DEF Timers, Shots, Delay

\* A timer that goes on keeps what is left of it, one that is set has its delay.
LEMMA TimerKept ==
  ASSUME NEW t \in Timers, NEW fired, SetTimers(fired), t \in Armed \ fired, t \in Armed'
  PROVE  left'[t] = left[t]
  BY DEF SetTimers

LEMMA TimerSet ==
  ASSUME NEW t \in Timers, NEW fired, SetTimers(fired), t \notin Armed \ fired, t \in Armed'
  PROVE  left'[t] = Delay[t]
  BY DEF SetTimers

LEMMA ClockStep ==
  ASSUME ClockTypeOK, [TimedNext]_timedVars
  PROVE  ClockTypeOK'
  <1> USE DEF ClockTypeOK
  <1>1. ASSUME NEW fired, SetTimers(fired)
        PROVE  left' \in [Timers -> Nat] /\ \A t \in Timers : left'[t] <= Delay[t]
    BY <1>1, DelayType DEF SetTimers
  <1>2. CASE Step
    <2>1. left' \in [Timers -> Nat] /\ \A t \in Timers : left'[t] <= Delay[t]
      BY <1>1, <1>2 DEF Step, GuardTimers, On
    <2>2. Aging
      BY <1>2 DEF Step
    <2>3. since' \in [Proc -> 0..MaxAge]
      BY <2>2, EnvironmentAssumption DEF Aging
    <2>4. killing' \in Nat
      BY <2>2 DEF Aging
    <2> QED
      BY <2>1, <2>3, <2>4 DEF Delay
  <1>3. CASE Tick
    <2>1. \A t \in Armed : left[t] > 0
      BY <1>3 DEF Tick, Idle
    <2>2. left' = [t \in Timers |-> IF t \in Armed THEN left[t] - 1 ELSE 0]
      BY <1>3 DEF Tick
    <2>3. left' \in [Timers -> Nat] /\ \A t \in Timers : left'[t] <= Delay[t]
      BY <2>1, <2>2, DelayType
    <2>4. since' \in [Proc -> 0..MaxAge]
      BY <1>3, EnvironmentAssumption DEF Tick
    <2>5. killing' \in Nat
      BY <1>3 DEF Tick
    <2> QED
      BY <2>3, <2>4, <2>5 DEF Delay
  <1>4. CASE UNCHANGED timedVars
    BY <1>4 DEF timedVars, clockVars, Delay
  <1> QED
    BY <1>2, <1>3, <1>4 DEF TimedNext

LEMMA ClockTypes == TimedSpec => []ClockTypeOK
  <1>1. TimedInit => ClockTypeOK
    BY DelayType, EnvironmentAssumption DEF TimedInit, ClockTypeOK
  <1> QED
    BY <1>1, ClockStep, PTL DEF TimedSpec

-----------------------------------------------------------------------------
(* A service that keeps its guardian, and an application nobody else       *)
(* launches: the steps that are left.                                      *)
GuardStays ==
  /\ Faults \cap {"open", "controller", "serviceCrash"} = {}
  /\ "start" \notin RemoteObject

LEMMA TimedCases ==
  ASSUME LiveInv, GuardStays, [TimedNext]_timedVars
  PROVE  \/ Tick
         \/ Aging /\ \/ On("heart", HeartTimeout)
                     \/ On("killOther", killOther)
                     \/ On("startApp", startApp)
                     \/ On("beginTimeOut", beginTimeOut)
                     \/ (ReadReply \/ ServiceStart \/ ReadCommand) /\ SetTimers({})
                     \/ KillEnds /\ UNCHANGED <<left, guardVars>>
                     \/ ClientStep /\ UNCHANGED <<left, guardVars>>
         \/ UNCHANGED timedVars
  <1>1. /\ ~ServiceStop /\ ~ServiceCrash /\ ~ServiceCrashInLaunch
        /\ ~ServicePause /\ ~ServiceResume
    BY DEF GuardStays, ServiceStop, ServiceCrash, ServiceCrashInLaunch, ServicePause,
           ServiceResume, SetKeepLive
  <1>2. ~ReadRemoteStop
    BY NoRemoteStop DEF GuardStays, LiveInv
  <1> QED
    BY <1>1, <1>2 DEF TimedNext, Step, GuardTimers, ServiceStep

\* Where the guardian is, by what is armed.
LEMMA Phase ==
  ASSUME LiveInv
  PROVE  /\ heart => Guarding /\ shots = {}
         /\ "startApp" \in shots => Guarding /\ ~heart /\ "beginTimeOut" \notin shots
         /\ "killOther" \in shots => "startApp" \in shots
         /\ "beginTimeOut" \in shots => Guarding /\ ~heart /\ shots = {"beginTimeOut"}
  BY DEF LiveInv, GuardInv, OneActivity

\* startApp runs only when its single shot is due.
LEMMA StartIsDue ==
  ASSUME LiveInv, GuardStays, [TimedNext]_timedVars, startApp
  PROVE  left["startApp"] = 0
  <1>1. "startApp" \in shots /\ "startApp" \notin shots' /\ "killOther" \notin shots
    BY DEF startApp, startAppBody, beginTimeOutTimer
  <1>2. Guarding /\ ~heart /\ "beginTimeOut" \notin shots
    BY <1>1, Phase
  <1>3. shots' # shots
    BY <1>1
  <1>4. ~HeartTimeout /\ ~killOther /\ ~beginTimeOut
    BY <1>1, <1>2 DEF HeartTimeout, killOther, beginTimeOut
  <1>5. ~ReadReply /\ ~ServiceStart /\ ~ReadCommand
    BY <1>2, <1>3 DEF ReadReply, ServiceStart, ReadCommand, Guarding
  <1>6. ~Tick /\ ~UNCHANGED timedVars /\ ~UNCHANGED guardVars
    BY <1>3 DEF Tick, timedVars, vars, guardVars
  <1> QED
    BY <1>4, <1>5, <1>6, TimedCases DEF On

-----------------------------------------------------------------------------
(* While a kill is under way the launch of the same recovery waits, and    *)
(* the two clocks add up to its three seconds.                             *)
KillClock ==
  KillUnderWay => /\ "startApp" \in shots
                  /\ left["startApp"] + killing = 3
                  /\ killing <= KillTime

\* Only a beat orders a kill, while the guardian stays.
LEMMA NoKillBegins ==
  ASSUME HostTypeOK,
         \/ killOther \/ startApp \/ beginTimeOut \/ ReadReply \/ ServiceStart \/ ReadCommand
         \/ KillEnds \/ ClientStep \/ UNCHANGED <<proc, taskkill>>
  PROVE  ~KillBegins /\ (KillUnderWay' => KillUnderWay)
  <1>0. taskkill \in Nat
    BY DEF HostTypeOK
  <1>1. ASSUME taskkill' \in Int, taskkill' <= taskkill,
               \A p \in Proc : proc'[p] = "dying" => proc[p] = "dying"
        PROVE  ~KillBegins /\ (KillUnderWay' => KillUnderWay)
    BY <1>0, <1>1 DEF KillBegins, KillUnderWay
  <1>2. CASE UNCHANGED <<proc, taskkill>>
    BY <1>0, <1>1, <1>2
  <1>3. CASE startApp \/ ServiceStart
    <2>1. UNCHANGED taskkill /\ (UNCHANGED proc \/ startDetached)
      BY <1>3 DEF startApp, ServiceStart, Construct, startAppBody, launchUnlessExists
    <2>2. \A p \in Proc : proc'[p] = "dying" => proc[p] = "dying"
      BY <2>1 DEF startDetached, HostTypeOK
    <2> QED
      BY <1>0, <1>1, <2>1, <2>2
  <1>4. CASE TaskkillEnds
    <2>1. taskkill' \in Int /\ taskkill' <= taskkill
      BY <1>0, <1>4 DEF TaskkillEnds
    <2>2. \A p \in Proc : proc'[p] = "dying" => proc[p] = "dying"
      BY <1>4 DEF TaskkillEnds, Die, HostTypeOK
    <2> QED
      BY <1>1, <2>1, <2>2
  <1>5. ASSUME NEW q \in Proc, Terminates(q)
        PROVE  ~KillBegins /\ (KillUnderWay' => KillUnderWay)
    <2>1. UNCHANGED taskkill /\ \A p \in Proc : proc'[p] = "dying" => proc[p] = "dying"
      BY <1>5 DEF Terminates, Die, HostTypeOK
    <2> QED
      BY <1>0, <1>1, <2>1
  <1>6. CASE ClientStep
    <2>1. UNCHANGED taskkill /\ \A p \in Proc : proc'[p] = "dying" => proc[p] = "dying"
      BY <1>6 DEF ClientStep, ReadHeart, ReadAck, sendRemoteCMD, AppStart, DuplicateExit,
                  AppExit, AppHang, AppRecover, UserOpens, Die, HostTypeOK
    <2> QED
      BY <1>0, <1>1, <2>1
  <1> QED
    BY <1>2, <1>3, <1>4, <1>5, <1>6
    DEF KillEnds, killOther, beginTimeOut, ReadReply, ReadCommand, hostVars

LEMMA KillClockStep ==
  ASSUME LiveInv, ClockTypeOK, KillClock, GuardStays, KillTime < 3, [TimedNext]_timedVars
  PROVE  KillClock'
  <1>0. HostTypeOK /\ "startApp" \in Timers
    BY DEF LiveInv, TypeOK, Timers, Shots
  <1>1. ASSUME KillUnderWay' => KillUnderWay, UNCHANGED killing,
               "startApp" \in shots => "startApp" \in shots',
               "startApp" \in shots => left'["startApp"] = left["startApp"]
        PROVE  KillClock'
    BY <1>1 DEF KillClock
  <1>2. ASSUME KillUnderWay' => KillUnderWay, ~KillUnderWay PROVE KillClock'
    BY <1>2 DEF KillClock
  <1>3. CASE Aging /\ On("heart", HeartTimeout)
    <2>1. ~KillUnderWay
      BY <1>3, Phase DEF KillClock, HeartTimeout, On
    <2>2. CASE KillUnderWay'
      <3>1. PICK inbox : Recover(inbox)
        <4>1. PICK id \in HeartID, port \in LocalPort :
                \/ Recover(Inbox(Heart(id, port)))
                \/ UNCHANGED <<proc, taskkill>>
          BY <1>3 DEF On, HeartTimeout
        <4>2. Recover(Inbox(Heart(id, port)))
          BY <2>1, <2>2, <4>1 DEF KillUnderWay
        <4> QED
          BY <4>2
      <3>2. "startApp" \in shots' /\ "startApp" \in Armed'
        BY <3>1 DEF Recover, Armed
      <3>3. "startApp" \notin Armed
        BY <1>3, Phase DEF On, HeartTimeout, Armed
      <3>4. left'["startApp"] = 3
        BY <1>0, <1>3, <3>2, <3>3, TimerSet DEF On, Delay
      <3>5. KillBegins
        <4>1. taskkill \in Nat /\ ~(taskkill > 0)
          BY <1>0, <2>1 DEF HostTypeOK, KillUnderWay
        <4>2. taskkill' > 0 => taskkill' > taskkill
          BY <4>1
        <4> QED
          BY <2>1, <2>2, <4>2 DEF KillUnderWay, KillBegins
      <3>6. killing' = 0
        BY <1>3, <3>5 DEF Aging
      <3> QED
        BY <3>2, <3>4, <3>6, EnvironmentAssumption DEF KillClock
    <2> QED
      BY <2>2 DEF KillClock
  <1>4. CASE Aging /\ On("killOther", killOther)
    <2>1. (KillUnderWay' => KillUnderWay) /\ killing' = killing
      BY <1>0, <1>4, NoKillBegins DEF On, Aging
    <2>2. ASSUME "startApp" \in shots
          PROVE  "startApp" \in shots' /\ left'["startApp"] = left["startApp"]
      <3>1. "startApp" \in shots'
        BY <1>4, <2>2 DEF On, killOther
      <3>2. "startApp" \in Armed \ {"killOther"} /\ "startApp" \in Armed'
        BY <2>2, <3>1 DEF Armed
      <3> QED
        BY <1>0, <1>4, <3>1, <3>2, TimerKept DEF On
    <2> QED
      BY <1>1, <2>1, <2>2
  <1>5. CASE Aging /\ On("startApp", startApp)
    <2>1. ~KillUnderWay
      BY <1>5, EnvironmentAssumption DEF On, KillClock, ClockTypeOK
    <2> QED
      BY <1>0, <1>2, <1>5, <2>1, NoKillBegins DEF On
  <1>6. CASE Aging /\ On("beginTimeOut", beginTimeOut)
    <2>1. ~KillUnderWay
      BY <1>6, Phase DEF On, beginTimeOut, KillClock
    <2> QED
      BY <1>0, <1>2, <1>6, <2>1, NoKillBegins DEF On
  <1>7. CASE Aging /\ (ReadReply \/ ReadCommand) /\ SetTimers({})
    <2>1. (KillUnderWay' => KillUnderWay) /\ UNCHANGED <<shots, killing>>
      BY <1>0, <1>7, NoKillBegins DEF ReadReply, ReadCommand, Aging
    <2>2. ASSUME "startApp" \in shots
          PROVE  left'["startApp"] = left["startApp"]
      <3>1. "startApp" \in Armed \ {} /\ "startApp" \in Armed'
        BY <2>1, <2>2 DEF Armed
      <3> QED
        BY <1>0, <1>7, <3>1, TimerKept
    <2> QED
      BY <1>1, <2>1, <2>2
  <1>8. CASE ServiceStart
    <2>1. ~KillUnderWay
      BY <1>8 DEF ServiceStart, KillClock, LiveInv, GuardInv, Guarding
    <2> QED
      BY <1>0, <1>2, <1>8, <2>1, NoKillBegins
  <1>9. CASE Aging /\ (KillEnds \/ ClientStep) /\ UNCHANGED <<left, guardVars>>
    <2>1. (KillUnderWay' => KillUnderWay) /\ killing' = killing
      BY <1>0, <1>9, NoKillBegins DEF Aging
    <2> QED
      BY <1>1, <1>9, <2>1 DEF guardVars
  <1>10. CASE Tick
    <2>1. UNCHANGED <<taskkill, proc, shots>>
      BY <1>10 DEF Tick, vars, hostVars, guardVars
    <2>2. ASSUME KillUnderWay
          PROVE  left'["startApp"] = left["startApp"] - 1 /\ killing' = killing + 1
                   /\ killing < KillTime
      <3>1. "startApp" \in Armed
        BY <2>2 DEF KillClock, Armed
      <3> QED
        BY <1>0, <1>10, <2>2, <3>1 DEF Tick, Idle
    <2>3. KillUnderWay' <=> KillUnderWay
      BY <2>1 DEF KillUnderWay
    <2>4. left["startApp"] \in Nat /\ killing \in Nat /\ KillTime \in Nat
      BY <1>0, EnvironmentAssumption DEF ClockTypeOK
    <2> QED
      BY <2>1, <2>2, <2>3, <2>4 DEF KillClock
  <1>11. CASE UNCHANGED timedVars
    BY <1>1, <1>11 DEF timedVars, vars, hostVars, guardVars, clockVars, KillUnderWay
  <1> QED
    BY <1>3, <1>4, <1>5, <1>6, <1>7, <1>8, <1>9, <1>10, <1>11, TimedCases

(* A launch finds no kill under way: the one of the recovery that leads to *)
(* it is over (killApp in initService, then the single shot of three       *)
(* seconds), if a kill takes less.                                         *)
THEOREM KillBeforeLaunch ==
  ASSUME GuardStays, KillTime < 3 PROVE TimedSpec => LaunchAfterKill
  <1>1. TimedInit => KillClock
    BY DEF TimedInit, Init, HostInit, KillClock, KillUnderWay
  <1>2. LiveInv /\ ClockTypeOK /\ KillClock /\ [TimedNext]_timedVars => KillClock'
    BY KillClockStep
  <1>3. ASSUME LiveInv, ClockTypeOK, KillClock, [TimedNext]_timedVars,
               NEW p \in Proc, proc[p] = "none", proc'[p] = "starting"
        PROVE  ~KillUnderWay
    <2>1. startApp \/ ServiceStart
      <3>1. ~(Running' \subseteq Running)
        BY <1>3 DEF Running
      <3>2. ~ServiceCrashInLaunch
        BY DEF GuardStays, ServiceCrashInLaunch
      <3> QED
        BY <1>3, <3>1, <3>2, TimedStep, OthersShrink DEF LiveInv, GuardStays
    <2>2. ASSUME ServiceStart PROVE ~KillUnderWay
      BY <1>3, <2>2 DEF ServiceStart, KillClock, LiveInv, GuardInv, Guarding
    <2>3. ASSUME startApp PROVE ~KillUnderWay
      <3>1. left["startApp"] = 0
        BY <1>3, <2>3, StartIsDue
      <3> QED
        BY <1>3, <3>1, EnvironmentAssumption DEF KillClock, ClockTypeOK
    <2> QED
      BY <2>1, <2>2, <2>3
  <1>4. LiveInv /\ ClockTypeOK /\ KillClock /\ [TimedNext]_timedVars
          => [(\E p \in Proc : proc[p] = "none" /\ proc'[p] = "starting")
                => ~KillUnderWay]_timedVars
    BY <1>3
  <1> QED
    BY <1>1, <1>2, <1>4, TimedLiveInv, ClockTypes, PTL DEF TimedSpec, LaunchAfterKill
-----------------------------------------------------------------------------
(* A process that starts: how many beats it has seen.                      *)

LEMMA KillAppStarts ==
  ASSUME HostTypeOK, NEW inbox, killApp(inbox), NEW p \in Proc, proc'[p] = "starting"
  PROVE  proc[p] = "starting"
  BY DEF killApp, killProcess, runTaskkill, killAll, HostTypeOK

\* Only a launch makes a process start.
LEMMA OnlyLaunchStarts ==
  ASSUME LiveInv, [Next]_vars, "open" \notin Faults, NEW p \in Proc, proc'[p] = "starting"
  PROVE  proc[p] = "starting" \/ startApp \/ ServiceStart \/ ServiceCrashInLaunch
  <1>0. HostTypeOK
    BY DEF LiveInv, TypeOK
  <1>1. CASE UNCHANGED proc
    BY <1>1
  <1>2. CASE HeartTimeout \/ Destroy
    <2>1. PICK inbox : killApp(inbox) \/ UNCHANGED proc
      BY <1>2 DEF HeartTimeout, Recover, Destroy
    <2> QED
      BY <1>0, <1>1, <2>1, KillAppStarts
  <1>3. CASE KillEnds
    BY <1>0, <1>3 DEF KillEnds, TaskkillEnds, Terminates, Die, HostTypeOK
  <1>4. CASE ClientStep
    BY <1>0, <1>4
    DEF ClientStep, ReadHeart, ReadAck, sendRemoteCMD, AppStart, DuplicateExit, AppExit,
        AppHang, AppRecover, UserOpens, Die, HostTypeOK
  <1> QED
    BY <1>1, <1>2, <1>3, <1>4
    DEF Next, GuardStep, ServiceStep, vars, hostVars, killOther, beginTimeOut, ReadReply,
        ServiceStop, ServiceCrash, ServicePause, ServiceResume, SetKeepLive, ReadCommand,
        ReadRemoteStop

\* One beat more lasts one interval more, at most.
LEMMA OneRoundMore ==
  ASSUME NEW n \in Nat, NEW m \in Nat, m <= n + 1, NEW h \in Nat
  PROVE  n * h \in Nat /\ m * h \in Nat /\ m * h <= n * h + h
  <1>1. (n + 1) * h = n * h + h
    OBVIOUS
  <1>2. n * h \in Nat /\ m * h \in Nat
    OBVIOUS
  <1>3. m * h <= (n + 1) * h
    <2>1. CASE m = n + 1
      BY <2>1
    <2>2. CASE m < n + 1
      OBVIOUS
    <2> QED
      BY <2>1, <2>2
  <1> QED
    BY <1>1, <1>2, <1>3

\* Beats that a process which starts has seen when the next one comes.
BeatsSeen == IF ok THEN 1 ELSE count + 2

(* Its age, with what is left to the next beat, covers them; a launch is   *)
(* followed by a guardian that has counted nothing.                        *)
StartClock ==
  /\ "beginTimeOut" \in shots => ok
  /\ heart => \A p \in Proc :
       proc[p] = "starting" =>
         since[p] = MaxAge \/ since[p] + left["heart"] >= BeatsSeen * HeartInterval

LEMMA StartClockStep ==
  ASSUME LiveInv, ClockTypeOK, StartClock, "open" \notin Faults, [TimedNext]_timedVars
  PROVE  StartClock'
  <1>0. /\ "heart" \in Timers /\ HeartInterval \in Nat \ {0} /\ MaxAge \in Nat
        /\ count \in 0..TimeoutCount /\ TimeoutCount \in Nat
        /\ left["heart"] \in Nat /\ \A p \in Proc : since[p] \in 0..MaxAge
    BY IntervalAssumption, EnvironmentAssumption, TimeoutAssumption
    DEF LiveInv, TypeOK, GuardTypeOK, Timers, ClockTypeOK
  <1>1. ASSUME Step, ~startApp, ~ServiceStart, ~ServiceCrashInLaunch, NEW p \in Proc,
               proc'[p] = "starting"
        PROVE  proc[p] = "starting" /\ since'[p] = since[p]
    <2>1. proc[p] = "starting"
      BY <1>1, TimedStep, OnlyLaunchStarts DEF TimedNext
    <2> QED
      BY <1>1, <2>1 DEF Step, Aging
  <1>2. ASSUME Step, ~startApp, ~ServiceStart, ~ServiceCrashInLaunch, UNCHANGED <<ok, count>>,
               heart' => heart /\ left'["heart"] = left["heart"],
               "beginTimeOut" \in shots' => "beginTimeOut" \in shots
        PROVE  StartClock'
    BY <1>1, <1>2 DEF StartClock, BeatsSeen
  <1>3. ASSUME ~heart', "beginTimeOut" \in shots' => ok'
        PROVE  StartClock'
    BY <1>3 DEF StartClock
  <1>4. ASSUME NEW fired, SetTimers(fired), "heart" \notin fired, heart, heart'
        PROVE  left'["heart"] = left["heart"]
    BY <1>0, <1>4, TimerKept DEF Armed
  <1>5. CASE Step /\ On("heart", HeartTimeout)
    <2>1. HeartTimeout /\ left["heart"] = 0 /\ SetTimers({"heart"})
      BY <1>5 DEF On
    <2>2. heart /\ shots = {} /\ ~ok' /\ count' = Misses
      BY <2>1, Phase DEF HeartTimeout
    <2>3. CASE ~heart'
      <3>1. shots' = shots \/ shots' = shots \cup {"killOther", "startApp"}
        <4>1. PICK id \in HeartID, port \in LocalPort :
                Recover(Inbox(Heart(id, port))) \/ UNCHANGED shots
          BY <2>1 DEF HeartTimeout
        <4> QED
          BY <4>1 DEF Recover
      <3> QED
        BY <1>3, <2>2, <2>3, <3>1
    <2>4. CASE heart'
      <3>1. left'["heart"] = HeartInterval
        <4>1. "heart" \in Armed'
          BY <2>4 DEF Armed
        <4> QED
          BY <1>0, <2>1, <4>1, TimerSet DEF Delay
      <3>2. shots' = {}
        BY <2>1, <2>2, <2>4 DEF HeartTimeout, Recover
      <3>3. ~startApp /\ ~ServiceStart /\ ~ServiceCrashInLaunch
        BY <2>2, <2>4, <3>2 DEF startApp, ServiceStart, Construct, startAppBody,
                                beginTimeOutTimer, ServiceCrashInLaunch, Forget
      <3>4. ASSUME NEW p \in Proc, proc'[p] = "starting"
            PROVE  since'[p] = MaxAge \/
                   since'[p] + left'["heart"] >= BeatsSeen' * HeartInterval
        <4>1. proc[p] = "starting" /\ since'[p] = since[p]
          BY <1>1, <1>5, <3>3, <3>4
        <4>2. since[p] = MaxAge \/ since[p] >= BeatsSeen * HeartInterval
          BY <1>0, <2>1, <2>2, <4>1 DEF StartClock
        <4>3. BeatsSeen \in Nat /\ BeatsSeen' \in Nat /\ BeatsSeen' <= BeatsSeen + 1
          BY <1>0, <2>2 DEF BeatsSeen, Misses
        <4>4. /\ BeatsSeen' * HeartInterval <= BeatsSeen * HeartInterval + HeartInterval
              /\ BeatsSeen * HeartInterval \in Nat /\ BeatsSeen' * HeartInterval \in Nat
          BY <1>0, <4>3, OneRoundMore
        <4> QED
          BY <1>0, <3>1, <4>1, <4>2, <4>4
      <3> QED
        BY <3>2, <3>4 DEF StartClock
    <2> QED
      BY <2>3, <2>4
  <1>6. CASE Step /\ On("killOther", killOther)
    BY <1>3, <1>6, Phase DEF On, killOther, StartClock
  <1>7. CASE startApp \/ ServiceStart
    <2>1. ok' /\ ~heart'
      BY <1>7, Phase DEF startApp, ServiceStart, Construct, startAppBody
    <2> QED
      BY <1>3, <2>1
  <1>8. CASE Step /\ On("beginTimeOut", beginTimeOut)
    <2>1. beginTimeOut /\ SetTimers({"beginTimeOut"})
      BY <1>8 DEF On
    <2>2. ok /\ ok' = ok /\ ~heart /\ heart' /\ shots' = {}
      BY <2>1, Phase DEF beginTimeOut, StartClock
    <2>3. left'["heart"] = HeartInterval
      <3>1. "heart" \notin Armed /\ "heart" \in Armed'
        BY <2>2 DEF Armed, LiveInv, TypeOK, GuardTypeOK, Shots
      <3> QED
        BY <1>0, <2>1, <3>1, TimerSet DEF Delay
    <2>4. \A p \in Proc : since'[p] \in 0..MaxAge
      BY ClockStep DEF ClockTypeOK
    <2>5. BeatsSeen' = 1
      BY <2>2 DEF BeatsSeen
    <2> QED
      BY <1>0, <2>2, <2>3, <2>4, <2>5 DEF StartClock
  <1>9. CASE Step /\ ReadReply /\ SetTimers({})
    <2>1. /\ UNCHANGED <<heart, shots>>
          /\ ~startApp /\ ~ServiceStart /\ ~ServiceCrashInLaunch
      BY <1>9 DEF ReadReply, startApp, ServiceStart, startAppBody, beginTimeOutTimer, Guarding,
                  ServiceCrashInLaunch
    <2>2. CASE UNCHANGED <<ok, count>>
      BY <1>2, <1>4, <1>9, <2>1, <2>2
    <2>3. CASE ok' /\ count' = 0
      <3>1. BeatsSeen' = 1 /\ BeatsSeen \in Nat \ {0}
        BY <1>0, <2>3 DEF BeatsSeen
      <3>2. BeatsSeen * HeartInterval >= HeartInterval
        BY <1>0, <3>1
      <3>3. BeatsSeen * HeartInterval \in Nat
        BY <1>0, <3>1
      <3>4. ASSUME heart, NEW p \in Proc, proc'[p] = "starting"
            PROVE  since'[p] = MaxAge \/
                   since'[p] + left'["heart"] >= BeatsSeen' * HeartInterval
        BY <1>0, <1>1, <1>4, <1>9, <2>1, <3>1, <3>2, <3>3, <3>4 DEF StartClock
      <3> QED
        BY <2>1, <2>3, <3>4 DEF StartClock
    <2> QED
      BY <1>9, <2>2, <2>3 DEF ReadReply
  <1>10. CASE Step /\ (ReadCommand \/ ServicePause \/ ServiceResume) /\ SetTimers({})
    <2>1. /\ UNCHANGED <<heart, shots, ok, count>>
          /\ ~startApp /\ ~ServiceStart /\ ~ServiceCrashInLaunch
      BY <1>10 DEF ReadCommand, NextIsCommand, ServicePause, ServiceResume, SetKeepLive,
                   startApp, ServiceStart, startAppBody, beginTimeOutTimer, Guarding,
                   ServiceCrashInLaunch
    <2> QED
      BY <1>2, <1>4, <1>10, <2>1
  <1>11. CASE ServiceStop \/ ServiceCrash \/ ServiceCrashInLaunch \/ ReadRemoteStop
    BY <1>3, <1>11 DEF ServiceStop, ServiceCrash, ServiceCrashInLaunch, ReadRemoteStop, Destroy,
                       Forget
  <1>12. CASE Step /\ ~ServiceCrashInLaunch /\ UNCHANGED <<left, guardVars>>
    <2>1. ~startApp /\ ~ServiceStart
      BY <1>12 DEF startApp, ServiceStart, Construct, startAppBody, beginTimeOutTimer, guardVars
    <2> QED
      BY <1>2, <1>12, <2>1 DEF guardVars
  <1>13. CASE Tick
    <2>1. UNCHANGED <<ok, count, heart, shots, proc>>
      BY <1>13 DEF Tick, vars, hostVars, guardVars
    <2>2. ASSUME heart
          PROVE  left'["heart"] = left["heart"] - 1
      BY <1>0, <1>13, <2>2 DEF Tick, Armed
    <2>3. \A p \in Proc : since'[p] = MaxAge \/ since'[p] = since[p] + 1
      BY <1>0, <1>13 DEF Tick
    <2>4. \A p \in Proc : since[p] = MaxAge => since'[p] = MaxAge
      BY <1>0, <1>13 DEF Tick
    <2>5. BeatsSeen' = BeatsSeen /\ BeatsSeen * HeartInterval \in Nat
      BY <1>0, <2>1 DEF BeatsSeen
    <2> QED
      BY <1>0, <2>1, <2>2, <2>3, <2>4, <2>5 DEF StartClock
  <1>14. CASE UNCHANGED timedVars
    BY <1>14 DEF timedVars, vars, hostVars, guardVars, clockVars, StartClock, BeatsSeen
  <1> QED
    BY <1>5, <1>6, <1>7, <1>8, <1>9, <1>10, <1>11, <1>12, <1>13, <1>14
    DEF TimedNext, Step, GuardTimers, ServiceStep, On

\* The guardian gives the application up at a beat that is due.
LEMMA RecoversAtBeat ==
  ASSUME LiveInv, TimedNext, Recovers
  PROVE  HeartTimeout /\ left["heart"] = 0
  <1>1. ~Tick /\ ~UNCHANGED guardVars /\ heart /\ ~heart' /\ Guarding'
    BY DEF Recovers, Tick, vars, guardVars
  <1>2. shots = {} /\ Guarding
    BY <1>1, Phase
  <1> QED
    BY <1>1, <1>2
    DEF TimedNext, Step, GuardTimers, On, ServiceStep, ReadReply, ReadCommand, startApp,
        ServiceStart, killOther, beginTimeOut, ServiceStop, ServiceCrash,
        ServiceCrashInLaunch, ServicePause, ServiceResume, SetKeepLive, ReadRemoteStop,
        Guarding

(* An application that still starts is given up after TimeoutCount + 1     *)
(* intervals of its own, also when it was launched for one that had just   *)
(* been given up, or by a service that came back.                          *)
THEOREM StartsArePatient ==
  ASSUME "open" \notin Faults, MaxAge >= Patience PROVE TimedSpec => StartGetsPatience
  <1>1. TimedInit => StartClock
    BY DEF TimedInit, Init, GuardInit, StartClock
  <1>2. LiveInv /\ ClockTypeOK /\ StartClock /\ [TimedNext]_timedVars => StartClock'
    BY StartClockStep
  <1>3. ASSUME LiveInv, ClockTypeOK, StartClock, TimedNext, Recovers,
               NEW p \in Proc, proc[p] = "starting"
        PROVE  since[p] >= Patience
    <2>1. HeartTimeout /\ left["heart"] = 0
      BY <1>3, RecoversAtBeat
    <2>2. Misses >= TimeoutCount
      BY <1>3, <2>1 DEF HeartTimeout, Recovers, Silent
    <2>3. /\ HeartInterval \in Nat /\ MaxAge \in Nat /\ TimeoutCount \in Nat
          /\ count \in 0..TimeoutCount /\ since[p] \in 0..MaxAge
      BY <1>3, IntervalAssumption, EnvironmentAssumption, TimeoutAssumption
      DEF LiveInv, TypeOK, GuardTypeOK, ClockTypeOK
    <2>4. BeatsSeen \in Nat /\ BeatsSeen >= TimeoutCount + 1
      BY <2>2, <2>3 DEF BeatsSeen, Misses
    <2>5. BeatsSeen * HeartInterval >= (TimeoutCount + 1) * HeartInterval
      BY <2>3, <2>4
    <2>6. since[p] = MaxAge \/ since[p] >= BeatsSeen * HeartInterval
      BY <1>3, <2>1, <2>3 DEF StartClock, Recovers
    <2>7. BeatsSeen * HeartInterval \in Nat /\ Patience \in Nat
      BY <2>3, <2>4 DEF Patience
    <2> QED
      BY <2>3, <2>5, <2>6, <2>7 DEF Patience
  <1>4. LiveInv /\ ClockTypeOK /\ StartClock /\ [TimedNext]_timedVars
          => [Recovers => \A p \in Proc : proc[p] = "starting" => since[p] >= Patience]_timedVars
    BY <1>3
  <1> QED
    BY <1>1, <1>2, <1>4, TimedLiveInv, ClockTypes, PTL DEF TimedSpec, StartGetsPatience
-----------------------------------------------------------------------------
(* A guardian in force: nobody stops it, nobody pauses it.                 *)
InForceAlways == GuardStays /\ "pause" \notin RemoteObject

(* What is left until it gives the application up; negative once it has,   *)
(* by the time since.                                                      *)
Rest ==
  IF heart THEN left["heart"] + (IF ok THEN TimeoutCount ELSE TimeoutCount - 1 - count) * HeartInterval
  ELSE IF "startApp" \in shots THEN left["startApp"] - 3
  ELSE Patience

(* Not paused, and on the way to a beat with a beat to spare.              *)
InForceInv ==
  /\ keeplive = TRUE
  /\ service # "stopped"
  /\ Guarding => "startApp" \in shots \/ ok \/ count < TimeoutCount

(* No application: the last one to end has not been gone for longer than   *)
(* Patience without what is left.  Its last answer is read at once.        *)
GoneSince(p) ==
  /\ since[p] + (IF Guarding THEN Rest ELSE 0) <= Patience
  /\ ~Guarding => since[p] = 0
  /\ toSvc # <<>> => since[p] = 0

DownClock == Running = {} => \E p \in Proc : GoneSince(p)

(* Before the launch of a recovery what still runs is being killed: by the *)
(* taskkill under way, or by the signal it has.                            *)
CleanLaunch ==
  /\ "startApp" \in shots => taskkill > 0 \/ \A p \in Running : proc[p] = "dying"
  /\ ~Guarding => Running = {}

(* An application that will not be heard: it hangs, or its answers are not *)
(* recognised.                                                             *)
Doomed(p) == proc[p] = "hung" \/ (proc[p] = "up" /\ Unrecognisable)

\* Until the guardian gives it up, and then until its kill is over.
DoomedClock ==
  \A p \in Proc :
    bound = p /\ Doomed(p) =>
      IF taskkill > 0 THEN since[p] <= Patience + killing
      ELSE /\ since[p] + Rest <= Patience
           /\ proc[p] = "hung" /\ toSvc # <<>> => since[p] = 0

\* Products of beats and intervals.
LEMMA Rounds ==
  ASSUME NEW n \in Nat, NEW m \in Nat, n <= m, NEW h \in Nat
  PROVE  /\ n * h \in Nat /\ m * h \in Nat /\ n * h <= m * h
         /\ (n + 1) * h = n * h + h /\ 0 * h = 0
  <1>1. n * h \in Nat /\ m * h \in Nat
    OBVIOUS
  <1>2. (n + 1) * h = n * h + h /\ 0 * h = 0
    OBVIOUS
  <1>3. n * h <= m * h
    <2>1. CASE n = m
      BY <1>1, <2>1
    <2>2. CASE n < m
      OBVIOUS
    <2> QED
      BY <2>1, <2>2
  <1> QED
    BY <1>1, <1>2, <1>3

\* Beats that may stay unanswered, after the next one.
Spare == IF ok THEN TimeoutCount ELSE TimeoutCount - 1 - count

LEMMA RestTypes ==
  ASSUME LiveInv, ClockTypeOK
  PROVE  /\ "heart" \in Timers /\ "startApp" \in Timers /\ "beginTimeOut" \in Timers
         /\ HeartInterval \in Nat \ {0} /\ TimeoutCount \in Nat
         /\ count \in 0..TimeoutCount
         /\ left["heart"] \in 0..HeartInterval
         /\ left["startApp"] \in Nat
         /\ left["startApp"] <= 3
         /\ left["beginTimeOut"] = 0
         /\ \A p \in Proc : since[p] \in Nat
         /\ Patience = TimeoutCount * HeartInterval + HeartInterval
         /\ Patience \in Nat /\ TimeoutCount * HeartInterval \in Nat
  <1>1. HeartInterval \in Nat \ {0} /\ TimeoutCount \in Nat
    BY IntervalAssumption, TimeoutAssumption
  <1>2. count \in 0..TimeoutCount
    BY DEF LiveInv, TypeOK, GuardTypeOK
  <1>3. /\ "heart" \in Timers /\ left["heart"] \in Nat /\ left["heart"] <= Delay["heart"]
        /\ "startApp" \in Timers /\ left["startApp"] \in Nat
        /\ left["startApp"] <= Delay["startApp"]
        /\ "beginTimeOut" \in Timers /\ left["beginTimeOut"] \in Nat
        /\ left["beginTimeOut"] <= Delay["beginTimeOut"]
    BY DEF ClockTypeOK, Timers, Shots
  <1>4. Delay["heart"] = HeartInterval /\ Delay["startApp"] = 3 /\ Delay["beginTimeOut"] = 0
    BY DEF Delay
  <1>5. Patience = TimeoutCount * HeartInterval + HeartInterval
          /\ TimeoutCount * HeartInterval \in Nat
    BY <1>1, Rounds DEF Patience
  <1>6. \A p \in Proc : since[p] \in Nat
    BY EnvironmentAssumption DEF ClockTypeOK
  <1> QED
    BY <1>1, <1>2, <1>3, <1>4, <1>5, <1>6

\* Never more than the whole patience is left; with a beat to spare, not less than 0.
LEMMA RestBounds ==
  ASSUME LiveInv, ClockTypeOK
  PROVE  /\ Rest \in Int /\ Rest <= Patience
         /\ InForceInv /\ Guarding /\ "startApp" \notin shots => Rest >= 0
         /\ InForceInv /\ Guarding => Rest >= -3
  <1> USE RestTypes
  <1>1. CASE heart
    <2>1. Rest = left["heart"] + Spare * HeartInterval
      BY <1>1 DEF Rest, Spare
    <2>2. Spare \in Int /\ Spare <= TimeoutCount
      BY DEF Spare
    <2>3. CASE Spare \in Nat
      <3>1. Spare * HeartInterval \in Nat
              /\ Spare * HeartInterval <= TimeoutCount * HeartInterval
        BY <2>2, <2>3, Rounds
      <3> QED
        BY <2>1, <3>1
    <2>4. CASE Spare \notin Nat
      <3>1. Spare = -1
        BY <2>2, <2>4 DEF Spare
      <3>2. Spare * HeartInterval = -HeartInterval
        BY <3>1
      <3>3. ~(InForceInv /\ Guarding)
        BY <1>1, <2>4, Phase DEF InForceInv, Spare
      <3> QED
        BY <2>1, <3>2, <3>3
    <2> QED
      BY <2>3, <2>4
  <1>2. CASE ~heart /\ "startApp" \in shots
    BY <1>2 DEF Rest
  <1>3. CASE ~heart /\ "startApp" \notin shots
    BY <1>3 DEF Rest
  <1> QED
    BY <1>1, <1>2, <1>3

\* A command that is read is one the client knows.
LEMMA CommandKnown ==
  ASSUME LiveInv, ReadCommand
  PROVE  Head(toSvc).object \in RemoteObject
  <1>1. Head(toSvc) \in ToSvc /\ Head(toSvc).type = "cmd"
    BY TakeType DEF ReadCommand, NextIsCommand, LiveInv, TypeOK, HostTypeOK
  <1> QED
    BY <1>1 DEF ToSvc, ReplyMsg, Reply, CmdMsg

LEMMA InForceStep ==
  ASSUME LiveInv, InForceInv, InForceAlways, [TimedNext]_timedVars
  PROVE  InForceInv'
  <1>0. TimeoutCount \in Nat /\ GuardStays
    BY TimeoutAssumption DEF InForceAlways
  <1>1. CASE UNCHANGED <<keeplive, service, shots, ok, count>>
    BY <1>1 DEF InForceInv, Guarding
  <1>2. CASE HeartTimeout
    <2>1. PICK id \in HeartID, port \in LocalPort :
            \/ Recover(Inbox(Heart(id, port)))
            \/ ~Silent
      BY <1>2 DEF HeartTimeout
    <2>2. UNCHANGED <<keeplive, service>> /\ count' = Misses
      BY <1>2 DEF HeartTimeout
    <2>3. CASE Recover(Inbox(Heart(id, port)))
      BY <2>2, <2>3 DEF Recover, InForceInv
    <2>4. CASE ~Silent
      <3>1. Misses < TimeoutCount
        BY <1>0, <2>4, MissesType DEF Silent, InForceInv, LiveInv, TypeOK
      <3> QED
        BY <2>2, <3>1 DEF InForceInv
    <2> QED
      BY <2>1, <2>3, <2>4
  <1>3. CASE killOther
    BY <1>3 DEF killOther, InForceInv, Guarding
  <1>4. CASE startApp
    BY <1>4 DEF startApp, startAppBody, InForceInv
  <1>5. CASE ServiceStart
    BY <1>5 DEF ServiceStart, Construct, startAppBody, InForceInv
  <1>6. CASE beginTimeOut
    BY <1>6 DEF beginTimeOut, InForceInv, Guarding
  <1>7. CASE ReadReply
    BY <1>7 DEF ReadReply, InForceInv, Guarding
  <1>8. CASE ReadCommand
    <2>1. keeplive' = keeplive
      BY <1>8, CommandKnown DEF ReadCommand, Obey, InForceAlways
    <2> QED
      BY <1>1, <1>8, <2>1 DEF ReadCommand
  <1>9. CASE UNCHANGED guardVars
    BY <1>1, <1>9 DEF guardVars
  <1> QED
    BY <1>0, <1>2, <1>3, <1>4, <1>5, <1>6, <1>7, <1>8, <1>9, TimedCases
    DEF On, Tick, timedVars, vars

\* What is left runs down with time, and grows only by a launch or an answer that is believed.
LEMMA RestStep ==
  ASSUME LiveInv, ClockTypeOK, LiveInv', ClockTypeOK', InForceInv, InForceAlways, Guarding,
         [TimedNext]_timedVars
  PROVE  /\ Tick => Rest' = Rest - 1
         /\ Tick \/ Rest' <= Rest \/ startApp \/ (ReadReply /\ Answers(Head(toSvc)))
  <1>0. GuardStays
    BY DEF InForceAlways
  <1> USE RestTypes
  <1>1. Rest \in Int
    BY RestBounds
  <1>2. ASSUME UNCHANGED <<heart, shots, ok, count, left>>
        PROVE  Rest' = Rest
    BY <1>2 DEF Rest
  <1>3. ASSUME Tick PROVE Rest' = Rest - 1
    <2>1. UNCHANGED <<heart, shots, ok, count>>
      BY <1>3 DEF Tick, vars, guardVars
    <2>2. "beginTimeOut" \notin shots
      BY <1>3 DEF Tick, Idle, Armed
    <2>3. CASE heart
      <3>1. left'["heart"] = left["heart"] - 1
        BY <1>3, <2>3 DEF Tick, Armed
      <3>2. Spare * HeartInterval \in Int /\ Spare' = Spare
        BY <2>1 DEF Spare
      <3>3. Rest = left["heart"] + Spare * HeartInterval
        BY <2>3 DEF Rest, Spare
      <3>4. Rest' = left'["heart"] + Spare' * HeartInterval
        BY <2>1, <2>3 DEF Rest, Spare
      <3> QED
        BY <3>1, <3>2, <3>3, <3>4
    <2>4. CASE ~heart
      <3>1. "startApp" \in shots
        BY <2>2, <2>4 DEF LiveInv, GuardInv, OneActivity
      <3>2. left'["startApp"] = left["startApp"] - 1
        BY <1>3, <3>1 DEF Tick, Armed
      <3> QED
        BY <2>1, <2>4, <3>1, <3>2 DEF Rest
    <2> QED
      BY <2>3, <2>4
  <1>4. ASSUME On("heart", HeartTimeout) PROVE Rest' <= Rest
    <2>1. HeartTimeout /\ left["heart"] = 0 /\ SetTimers({"heart"})
      BY <1>4 DEF On
    <2>2. heart /\ shots = {} /\ ~ok' /\ count' = Misses
      BY <2>1, Phase DEF HeartTimeout
    <2>3. Rest = Spare * HeartInterval /\ Spare \in Nat
      BY <2>1, <2>2 DEF Rest, Spare, InForceInv
    <2>4. PICK id \in HeartID, port \in LocalPort :
            \/ Silent /\ Recover(Inbox(Heart(id, port)))
            \/ ~Silent /\ UNCHANGED <<heart, shots>>
      BY <2>1 DEF HeartTimeout
    <2>5. CASE Silent /\ Recover(Inbox(Heart(id, port)))
      <3>1. ~heart' /\ "startApp" \in shots'
        BY <2>5 DEF Recover
      <3>2. left'["startApp"] = 3
        <4>1. "startApp" \notin Armed /\ "startApp" \in Armed'
          BY <2>2, <3>1 DEF Armed
        <4> QED
          BY <2>1, <4>1, TimerSet DEF Delay
      <3>3. Rest' = 0
        BY <3>1, <3>2 DEF Rest
      <3>4. Rest >= 0
        BY <2>3, Rounds
      <3> QED
        BY <3>3, <3>4
    <2>6. CASE ~Silent /\ UNCHANGED <<heart, shots>>
      <3>1. left'["heart"] = HeartInterval
        <4>1. "heart" \in Armed'
          BY <2>2, <2>6 DEF Armed
        <4> QED
          BY <2>1, <4>1, TimerSet DEF Delay
      <3>2. Misses < TimeoutCount
        BY <2>6 DEF Silent, InForceInv, Misses
      <3>3. Spare' \in Nat /\ Spare = Spare' + 1
        BY <2>2, <3>2 DEF Spare, Misses
      <3>4. Rest' = HeartInterval + Spare' * HeartInterval
        BY <2>2, <2>6, <3>1 DEF Rest, Spare
      <3>5. Spare * HeartInterval = Spare' * HeartInterval + HeartInterval
              /\ Spare' * HeartInterval \in Nat
        BY <3>3, Rounds
      <3> QED
        BY <2>3, <3>4, <3>5
    <2> QED
      BY <2>4, <2>5, <2>6
  <1>5. ASSUME On("killOther", killOther) PROVE Rest' <= Rest
    <2>1. ~heart /\ ~heart' /\ "startApp" \in shots /\ "startApp" \in shots'
      BY <1>5, Phase DEF On, killOther
    <2>2. left'["startApp"] = left["startApp"]
      <3>1. "startApp" \in Armed \ {"killOther"} /\ "startApp" \in Armed'
        BY <2>1 DEF Armed
      <3> QED
        BY <1>5, <3>1, TimerKept DEF On
    <2> QED
      BY <2>1, <2>2 DEF Rest
  <1>6. ASSUME On("beginTimeOut", beginTimeOut) PROVE Rest' <= Rest
    <2>1. Rest = Patience
      BY <1>6, Phase DEF On, beginTimeOut, Rest
    <2>2. (Rest <= Patience)'
      BY RestBounds, PTL
    <2>3. Rest' <= Patience
      BY <2>2 DEF Patience
    <2> QED
      BY <2>1, <2>3
  <1>7. ASSUME (ReadReply /\ ~Answers(Head(toSvc))) \/ ReadCommand, SetTimers({})
        PROVE  Rest' <= Rest
    <2>1. UNCHANGED <<heart, shots, ok, count>>
      BY <1>7 DEF ReadReply, ReadCommand
    <2>2. \A t \in Armed : left'[t] = left[t]
      <3>1. Armed' = Armed /\ Armed \subseteq Timers
        BY <2>1 DEF Armed, Timers, LiveInv, TypeOK, GuardTypeOK
      <3> QED
        BY <1>7, <3>1, TimerKept
    <2>3. Rest' = Rest
      BY <2>1, <2>2 DEF Rest, Armed
    <2> QED
      BY <1>1, <2>3
  <1>8. ASSUME UNCHANGED <<left, guardVars>> PROVE Rest' <= Rest
    BY <1>1, <1>2, <1>8 DEF guardVars
  <1>9. ASSUME UNCHANGED timedVars PROVE Rest' <= Rest
    BY <1>8, <1>9 DEF timedVars, vars, clockVars
  <1>10. ~ServiceStart
    BY DEF ServiceStart, Guarding
  <1> QED
    BY <1>0, <1>3, <1>4, <1>5, <1>6, <1>7, <1>8, <1>9, <1>10, TimedCases DEF On

LEMMA InForceHolds ==
  ASSUME InForceAlways PROVE TimedSpec => [](LiveInv /\ ClockTypeOK /\ InForceInv)
  <1>1. TimedInit => InForceInv
    BY DEF TimedInit, Init, GuardInit, InForceInv, Guarding
  <1>2. LiveInv /\ InForceInv /\ [TimedNext]_timedVars => InForceInv'
    BY InForceStep
  <1> QED
    BY <1>1, <1>2, TimedLiveInv, ClockTypes, PTL DEF TimedSpec

\* Only an application that serves sends the service anything.
LEMMA OnlyServedSends ==
  ASSUME LiveInv, InForceAlways, [TimedNext]_timedVars, ~Serving, toSvc' # <<>>
  PROVE  toSvc # <<>>
  <1>1. GuardStays
    BY DEF InForceAlways
  <1>2. Tail(<<>>) = <<>>
    OBVIOUS
  <1>3. ~ReadHeart /\ ~ReadAck /\ \A object, value : ~sendRemoteCMD(object, value)
    BY DEF ReadHeart, ReadAck, sendRemoteCMD
  <1>4. ASSUME ClientStep PROVE UNCHANGED toSvc
    BY <1>3, <1>4 DEF ClientStep, AppStart, DuplicateExit, AppExit, AppHang, AppRecover, UserOpens
  <1> QED
    BY <1>1, <1>2, <1>4, TimedCases
    DEF On, HeartTimeout, killOther, startApp, beginTimeOut, ReadReply, ReadCommand,
        NextIsCommand, ServiceStart, KillEnds, TaskkillEnds, Terminates, Tick, timedVars,
        vars, hostVars

\* A launch with nothing running, and room for it, comes off.
LEMMA LaunchComesOff ==
  ASSUME HostTypeOK, Running = {}, AppInstalled, "launchFail" \notin Faults, Proc # {},
         NEW launches, launchUnlessExists(launches)
  PROVE  Running' # {}
  <1>1. TRUE \notin IsExistProcess
    BY DEF IsExistProcess, WinIsExistProcess, LinuxIsExistProcess
  <1>2. startDetached
    BY <1>1 DEF launchUnlessExists
  <1>3. PICK p \in Proc : proc' = [proc EXCEPT ![p] = "starting"]
    BY <1>2 DEF startDetached, LaunchMayFail
  <1> QED
    BY <1>3 DEF Running, HostTypeOK

\* The conditions under which a missing application is launched again.
LaunchesComeOff ==
  InForceAlways /\ AppInstalled /\ "launchFail" \notin Faults /\ Proc # {}

LEMMA DownClockStep ==
  ASSUME LiveInv, ClockTypeOK, LiveInv', ClockTypeOK', InForceInv, DownClock,
         LaunchesComeOff, [TimedNext]_timedVars
  PROVE  DownClock'
  <1>0. InForceAlways /\ GuardStays /\ HostTypeOK
    BY DEF LaunchesComeOff, InForceAlways, LiveInv, TypeOK
  <1> USE RestTypes
  <1>1. Rest \in Int /\ Rest <= Patience
    BY RestBounds
  <1>2. Rest' \in Int /\ Rest' <= Patience
    <2>1. (Rest \in Int /\ Rest <= Patience)'
      BY RestBounds, PTL
    <2> QED
      BY <2>1 DEF Patience
  <1>3. Patience' = Patience
    BY DEF Patience
  <1> SUFFICES ASSUME Running' = {} PROVE DownClock'
    BY DEF DownClock
  <1>4. ASSUME NEW p \in Proc, since'[p] = 0 PROVE DownClock'
    <2>1. since'[p] + (IF Guarding' THEN Rest' ELSE 0) <= Patience'
      BY <1>2, <1>3, <1>4
    <2>2. GoneSince(p)'
      BY <1>4, <2>1 DEF GoneSince
    <2> QED
      BY <2>2 DEF DownClock
  <1>5. CASE Running # {}
    <2>1. PICK p \in Proc : proc[p] # "none" /\ proc'[p] = "none"
      BY <1>5 DEF Running
    <2>2. Step
      BY <2>1 DEF TimedNext, Tick, timedVars, vars, hostVars
    <2>3. since'[p] = 0
      BY <2>1, <2>2 DEF Step, Aging
    <2> QED
      BY <1>4, <2>3
  <1>6. CASE Running = {}
    <2>1. PICK p \in Proc : GoneSince(p)
      BY <1>6 DEF DownClock
    <2>2. ~Serving
      BY <1>0, <1>6 DEF Serving, Running, HostTypeOK
    <2>3. toSvc' # <<>> => toSvc # <<>>
      BY <1>0, <2>2, OnlyServedSends
    <2>4. ~startApp /\ ~ServiceStart
      BY <1>0, <1>6, LaunchComesOff
      DEF startApp, ServiceStart, Construct, startAppBody, LaunchesComeOff
    <2>5. proc'[p] = proc[p]
      BY <1>6 DEF Running
    <2>6. ~Tick => since'[p] = since[p]
      BY <2>5 DEF TimedNext, Step, Aging, timedVars, clockVars
    <2>7. ASSUME toSvc # <<>>, ~Tick PROVE DownClock'
      BY <1>4, <2>1, <2>6, <2>7 DEF GoneSince
    <2>8. CASE Guarding
      <3>1. Guarding'
        BY <1>0, <2>8, TimedCases
        DEF On, HeartTimeout, killOther, startApp, beginTimeOut, ReadReply, ReadCommand,
            ServiceStart, Guarding, Tick, timedVars, vars, guardVars
      <3>2. since[p] + Rest <= Patience /\ since[p] \in Nat
        BY <2>1, <2>8 DEF GoneSince
      <3>3. ASSUME since'[p] + Rest' <= Patience, toSvc' = <<>>
            PROVE  DownClock'
        <4>1. GoneSince(p)'
          BY <1>3, <3>1, <3>3 DEF GoneSince
        <4> QED
          BY <4>1 DEF DownClock
      <3>4. CASE Tick
        <4>1. toSvc = <<>> /\ since'[p] \in Nat /\ since'[p] <= since[p] + 1
          BY <2>8, <3>2, <3>4, EnvironmentAssumption DEF Tick, Idle, ClockTypeOK
        <4>2. Rest' = Rest - 1
          BY <1>0, <2>8, <3>4, RestStep
        <4> QED
          BY <1>1, <2>3, <3>2, <3>3, <4>1, <4>2
      <3>5. CASE ~Tick /\ toSvc = <<>>
        <4>1. Rest' <= Rest
          BY <1>0, <2>4, <2>8, <3>5, RestStep DEF ReadReply
        <4> QED
          BY <1>1, <1>2, <2>3, <2>6, <3>2, <3>3, <3>5, <4>1
      <3> QED
        BY <2>7, <3>4, <3>5
    <2>9. CASE ~Guarding
      <3>1. service = "down"
        BY <1>0, <2>9 DEF InForceInv, LiveInv, TypeOK, GuardTypeOK, Guarding
      <3>2. ~Tick
        BY <3>1 DEF Tick, Idle
      <3> QED
        BY <1>4, <2>1, <2>6, <2>9, <3>2 DEF GoneSince
    <2> QED
      BY <2>8, <2>9
  <1> QED
    BY <1>5, <1>6

(* An application that ended is gone for a round of beats and the three    *)
(* seconds before the launch at most, whenever in a round it ended and     *)
(* whatever it had answered before.                                        *)
THEOREM DownIsBounded ==
  ASSUME LaunchesComeOff PROVE TimedSpec => []DownBounded
  <1>1. TimedInit => DownClock
    <2> SUFFICES ASSUME TimedInit PROVE DownClock
      OBVIOUS
    <2>1. ~Guarding /\ \A p \in Proc : since[p] = 0
      BY DEF TimedInit, Init, GuardInit, Guarding
    <2>2. Patience \in Nat
      BY IntervalAssumption, TimeoutAssumption DEF Patience
    <2> QED
      BY <2>1, <2>2 DEF GoneSince, DownClock, LaunchesComeOff
  <1>2. LiveInv /\ ClockTypeOK /\ InForceInv /\ LiveInv' /\ ClockTypeOK' /\ DownClock
          /\ [TimedNext]_timedVars => DownClock'
    BY DownClockStep
  <1>3. ASSUME LiveInv, ClockTypeOK, InForceInv, DownClock, Running = {}
        PROVE  \E p \in Proc : since[p] <= Patience + 3
    <2>1. PICK p \in Proc : GoneSince(p)
      BY <1>3 DEF DownClock
    <2>2. Rest \in Int /\ (Guarding => Rest >= -3)
      BY <1>3, RestBounds
    <2>3. since[p] \in Nat /\ Patience \in Nat
      BY <1>3, RestTypes
    <2> QED
      BY <2>1, <2>2, <2>3 DEF GoneSince
  <1>4. LiveInv /\ ClockTypeOK /\ InForceInv /\ DownClock => DownBounded
    BY <1>3 DEF DownBounded
  <1>5. TimedSpec => [](LiveInv /\ ClockTypeOK /\ InForceInv)
    BY InForceHolds DEF LaunchesComeOff
  <1> QED
    BY <1>1, <1>2, <1>4, <1>5, PTL DEF TimedSpec
-----------------------------------------------------------------------------
(* The conditions under which a hung application is killed in time: it is  *)
(* found, no kill is refused, and a kill is over before the launch.        *)
KillsComeOff ==
  InForceAlways /\ ExactList /\ DestoryApp /\ "killFail" \notin Faults /\ KillTime < 3

LEMMA KillAppClears ==
  ASSUME LiveInv, KillsComeOff, NEW inbox, killApp(inbox), ~(taskkill' > 0)
  PROVE  \A p \in Running' : proc'[p] = "dying"
  <1>1. taskkill \in Nat
    BY DEF LiveInv, TypeOK, HostTypeOK
  <1>2. CASE runTaskkill(inbox)
    BY <1>1, <1>2, TaskkillAssumption DEF runTaskkill
  <1>3. CASE killAll(inbox)
    BY <1>3 DEF killAll, KillsComeOff, Running
  <1>4. CASE FALSE \in IsExistProcess /\ UNCHANGED proc
    BY <1>4 DEF IsExistProcess, WinIsExistProcess, LinuxIsExistProcess, KillsComeOff, ExactList,
                Running
  <1> QED
    BY <1>2, <1>3, <1>4 DEF killApp, killProcess, KillsComeOff

LEMMA CleanLaunchStep ==
  ASSUME LiveInv, CleanLaunch, KillsComeOff, [TimedNext]_timedVars
  PROVE  CleanLaunch'
  <1>0. GuardStays /\ "open" \notin Faults /\ HostTypeOK /\ ~ServiceCrashInLaunch
    BY DEF KillsComeOff, InForceAlways, GuardStays, LiveInv, TypeOK, ServiceCrashInLaunch
  <1>1. Running' \subseteq Running \/ startApp \/ ServiceStart
    BY <1>0, TimedStep, OthersShrink DEF LiveInv
  <1>2. ASSUME Running' \subseteq Running,
               \A p \in Proc : proc[p] = "dying" => proc'[p] \in {"dying", "none"},
               "startApp" \in shots' => "startApp" \in shots,
               UNCHANGED <<taskkill, service>>
        PROVE  CleanLaunch'
    BY <1>2 DEF CleanLaunch, Guarding, Running
  <1>3. ASSUME Guarding', "startApp" \notin shots'
        PROVE  CleanLaunch'
    BY <1>3 DEF CleanLaunch
  <1>4. CASE HeartTimeout
    <2>1. Guarding' /\ ~startApp /\ ~ServiceStart
      BY <1>4, Phase DEF HeartTimeout, Guarding, startApp, ServiceStart
    <2>2. PICK id \in HeartID, port \in LocalPort :
            \/ Recover(Inbox(Heart(id, port)))
            \/ UNCHANGED shots
      BY <1>4 DEF HeartTimeout
    <2>3. CASE Recover(Inbox(Heart(id, port)))
      BY <2>1, <2>3, KillAppClears DEF Recover, CleanLaunch
    <2>4. CASE UNCHANGED shots
      <3>1. "startApp" \notin shots'
        BY <1>4, <2>4, Phase DEF HeartTimeout
      <3> QED
        BY <1>3, <2>1, <3>1
    <2> QED
      BY <2>2, <2>3, <2>4
  <1>5. CASE startApp \/ ServiceStart
    <2>1. Guarding' /\ "startApp" \notin shots'
      BY <1>5, Phase DEF startApp, ServiceStart, Construct, startAppBody, beginTimeOutTimer,
                         Guarding
    <2> QED
      BY <1>3, <2>1
  <1>6. CASE TaskkillEnds
    <2>1. Die(Running, toApp)
      BY <1>6 DEF TaskkillEnds, KillsComeOff
    <2>2. Running' = {}
      BY <2>1 DEF Die, Running
    <2> QED
      BY <2>2 DEF CleanLaunch
  <1>7. CASE (killOther \/ beginTimeOut \/ ReadReply \/ ReadCommand) /\ ~startApp /\ ~ServiceStart
    <2>1. UNCHANGED proc
      BY <1>7 DEF killOther, beginTimeOut, ReadReply, ReadCommand, hostVars
    <2> QED
      BY <1>1, <1>2, <1>7, <2>1 DEF killOther, beginTimeOut, ReadReply, ReadCommand, hostVars
  <1>8. CASE ClientStep /\ UNCHANGED guardVars /\ ~startApp /\ ~ServiceStart
    <2>1. UNCHANGED taskkill
      BY <1>8 DEF ClientStep, ReadHeart, ReadAck, sendRemoteCMD, AppStart, DuplicateExit,
                  AppExit, AppHang, AppRecover, UserOpens
    <2>2. \A p \in Proc : proc[p] = "dying" => proc'[p] \in {"dying", "none"}
      BY <1>0, <1>8
      DEF ClientStep, ReadHeart, ReadAck, sendRemoteCMD, AppStart, DuplicateExit, AppExit,
          AppHang, AppRecover, UserOpens, Die, HostTypeOK
    <2> QED
      BY <1>1, <1>2, <1>8, <2>1, <2>2 DEF guardVars
  <1>9. ASSUME NEW q \in Proc, Terminates(q), UNCHANGED guardVars, ~startApp, ~ServiceStart
        PROVE  CleanLaunch'
    <2>1. /\ UNCHANGED taskkill
          /\ \A p \in Proc : proc[p] = "dying" => proc'[p] \in {"dying", "none"}
      BY <1>9 DEF Terminates, Die
    <2> QED
      BY <1>1, <1>2, <1>9, <2>1 DEF guardVars
  <1>10. CASE UNCHANGED vars
    BY <1>10 DEF vars, hostVars, guardVars, CleanLaunch, Running, Guarding
  <1> QED
    BY <1>0, <1>4, <1>5, <1>6, <1>7, <1>8, <1>9, <1>10, TimedCases
    DEF On, Tick, timedVars, KillEnds

\* A process with the port that goes on as it was had the port before.
LEMMA PortKept ==
  ASSUME LiveInv, [Next]_vars, NEW p \in Proc, bound' = p, proc'[p] = proc[p]
  PROVE  bound = p
  <1>1. HostTypeOK /\ p # NoProc
    BY ProcAssumption DEF LiveInv, TypeOK
  <1>2. ASSUME NEW dead, NEW inbox, Die(dead, inbox) PROVE bound = p
    BY <1>1, <1>2 DEF Die
  <1>3. CASE UNCHANGED bound
    BY <1>3
  <1>4. CASE HeartTimeout \/ Destroy
    <2>1. PICK inbox : killApp(inbox) \/ UNCHANGED bound
      BY <1>4 DEF HeartTimeout, Recover, Destroy
    <2> QED
      BY <1>2, <1>3, <2>1 DEF killApp, killProcess, runTaskkill, killAll
  <1>5. CASE KillEnds
    BY <1>2, <1>3, <1>5 DEF KillEnds, TaskkillEnds, Terminates
  <1>6. ASSUME NEW q \in Proc, AppStart(q) PROVE bound = p
    BY <1>1, <1>3, <1>6 DEF AppStart, HostTypeOK
  <1>7. ASSUME NEW q \in Proc, DuplicateExit(q) \/ AppExit(q) PROVE bound = p
    BY <1>2, <1>7 DEF DuplicateExit, AppExit
  <1> QED
    BY <1>3, <1>4, <1>5, <1>6, <1>7
    DEF Next, GuardStep, ServiceStep, ClientStep, vars, hostVars, killOther, startApp,
        beginTimeOut, ReadReply, ServiceStart, ServiceStop, ServiceCrash,
        ServiceCrashInLaunch, ServicePause, ServiceResume, SetKeepLive, ReadCommand,
        ReadRemoteStop, ReadHeart, ReadAck, sendRemoteCMD, AppHang, AppRecover, UserOpens

LEMMA DoomedClockStep ==
  ASSUME LiveInv, ClockTypeOK, LiveInv', ClockTypeOK', InForceInv, KillClock, KillClock',
         CleanLaunch, DoomedClock, KillsComeOff, [TimedNext]_timedVars
  PROVE  DoomedClock'
  <1>0. InForceAlways /\ GuardStays /\ HostTypeOK
    BY DEF KillsComeOff, InForceAlways, LiveInv, TypeOK
  <1> USE RestTypes
  <1>1. Rest \in Int /\ Rest <= Patience
    BY RestBounds
  <1>2. Rest' \in Int /\ Rest' <= Patience
    <2>1. (Rest \in Int /\ Rest <= Patience)'
      BY RestBounds, PTL
    <2> QED
      BY <2>1 DEF Patience
  <1>3. Patience' = Patience
    BY DEF Patience
  <1>4. killing \in Nat /\ killing' \in Nat /\ taskkill \in Nat /\ taskkill' \in Nat
    BY DEF ClockTypeOK, LiveInv, TypeOK, HostTypeOK
  <1>8. \A q \in Proc : since[q] \in Nat /\ since'[q] \in Nat
    BY EnvironmentAssumption DEF ClockTypeOK
  <1>9. Patience \in Nat
    OBVIOUS
  <1> HIDE RestTypes
  <1> SUFFICES ASSUME NEW p \in Proc, bound' = p, Doomed(p)'
               PROVE  IF taskkill' > 0 THEN since'[p] <= Patience + killing'
                      ELSE /\ since'[p] + Rest' <= Patience
                           /\ proc'[p] = "hung" /\ toSvc' # <<>> => since'[p] = 0
    BY <1>3 DEF DoomedClock
  <1>5. CASE since'[p] = 0
    <2>1. since'[p] \in Nat /\ since'[p] <= 0
      BY <1>5, <1>8
    <2>2. since'[p] + Rest' <= Patience
      BY <1>2, <1>9, <2>1
    <2>3. since'[p] <= Patience + killing'
      BY <1>4, <1>9, <2>1
    <2> QED
      BY <1>5, <2>2, <2>3
  <1>6. CASE proc'[p] # proc[p]
    <2>1. Step
      BY <1>6 DEF TimedNext, Tick, timedVars, vars, hostVars
    <2>2. since'[p] = 0
      BY <1>6, <2>1 DEF Step, Aging
    <2> QED
      BY <1>5, <2>2
  <1>7. CASE proc'[p] = proc[p]
    <2>1. bound = p /\ Doomed(p)
      BY <1>7, TimedStep, PortKept DEF Doomed
    <2>2. p \in Running /\ Guarding /\ (proc[p] = "hung" => ~Serving)
      BY <1>7, <2>1 DEF Running, CleanLaunch, Serving, Doomed
    <2>3. ~Tick => since'[p] = since[p]
      BY <1>7 DEF TimedNext, Step, Aging, timedVars, clockVars
    <2>4. Tick => since'[p] <= since[p] + 1 /\ taskkill' = taskkill /\ toSvc' = <<>>
      BY <2>2, EnvironmentAssumption DEF Tick, Idle, ClockTypeOK, vars, hostVars
    <2>5. proc[p] = "hung" /\ toSvc' # <<>> => toSvc # <<>>
      BY <1>0, <2>2, OnlyServedSends
    <2>6. CASE taskkill > 0
      <3>1. since[p] <= Patience + killing
        BY <1>7, <2>1, <2>6 DEF DoomedClock
      <3>2. ~TaskkillEnds
        BY <1>7, <2>2 DEF TaskkillEnds, KillsComeOff, Die, Running
      <3>3. "startApp" \in shots /\ ~heart /\ left["startApp"] # 0
        <4>1. left["startApp"] \in Nat /\ left["startApp"] + killing = 3 /\ killing <= KillTime
              /\ KillTime \in Nat /\ KillTime < 3 /\ "startApp" \in shots
          BY <2>6, RestTypes, EnvironmentAssumption DEF KillClock, KillUnderWay, KillsComeOff
        <4> QED
          BY <1>4, <4>1, Phase
      <3>4. taskkill' = taskkill /\ killing' = IF Tick THEN killing + 1 ELSE killing
        <4>1. CASE Tick
          BY <2>6, <4>1 DEF Tick, KillUnderWay, vars, hostVars
        <4>2. CASE ~Tick
          <5>1. \/ killOther \/ ReadReply \/ ReadCommand \/ ClientStep \/ UNCHANGED vars
                \/ \E q \in Proc : Terminates(q)
            BY <1>0, <2>2, <3>2, <3>3, <4>2, TimedCases
            DEF On, HeartTimeout, beginTimeOut, ServiceStart, KillEnds, Guarding, timedVars,
                LiveInv, GuardInv, OneActivity
          <5>2. taskkill' = taskkill
            BY <5>1
            DEF killOther, ReadReply, ReadCommand, Terminates, ClientStep, ReadHeart, ReadAck,
                sendRemoteCMD, AppStart, DuplicateExit, AppExit, AppHang, AppRecover, UserOpens,
                vars, hostVars
          <5>3. ~KillBegins
            BY <1>0, <5>1, NoKillBegins DEF KillEnds, vars, hostVars
          <5>4. killing' = killing
            BY <4>2, <5>3 DEF TimedNext, Step, Aging, timedVars, clockVars
          <5> QED
            BY <4>2, <5>2, <5>4
        <4> QED
          BY <4>1, <4>2
      <3> QED
        <4>1. since'[p] <= Patience + killing'
          BY <1>4, <1>8, <1>9, <2>3, <2>4, <3>1, <3>4
        <4> QED
          BY <2>6, <3>4, <4>1
    <2>7. CASE taskkill = 0
      <3>1. /\ since[p] + Rest <= Patience
            /\ proc[p] = "hung" /\ toSvc # <<>> => since[p] = 0
        BY <1>7, <2>1, <2>7 DEF DoomedClock
      <3>2. "startApp" \notin shots
        BY <2>1, <2>2, <2>7 DEF CleanLaunch, Doomed
      <3>3. ~startApp /\ Rest >= 0
        BY <2>2, <3>2, RestBounds DEF startApp
      <3>4. CASE Tick
        <4>1. Rest' = Rest - 1
          BY <1>0, <2>2, <3>4, RestStep
        <4>2. since'[p] + Rest' <= Patience
          BY <1>1, <1>8, <1>9, <2>4, <3>1, <3>4, <4>1
        <4> QED
          BY <2>4, <2>7, <3>4, <4>2
      <3>5. CASE ~Tick /\ proc[p] = "hung" /\ toSvc # <<>>
        BY <1>5, <2>3, <3>1, <3>5
      <3>6. CASE ~Tick /\ (proc[p] = "hung" => toSvc = <<>>)
        <4>0. ~(ReadReply /\ Answers(Head(toSvc)))
          BY <2>1, <3>6, NeverRecognised DEF ReadReply, Doomed
        <4>1. Rest' <= Rest
          BY <1>0, <2>2, <3>3, <3>6, <4>0, RestStep
        <4>2. since'[p] + Rest' <= Patience
          BY <1>1, <1>2, <1>8, <1>9, <2>3, <3>1, <3>6, <4>1
        <4>3. since'[p] <= Patience + killing'
          BY <1>1, <1>4, <1>8, <1>9, <2>3, <3>1, <3>3, <3>6
        <4>4. proc'[p] = "hung" => toSvc' = <<>>
          BY <1>7, <2>5, <3>6
        <4> QED
          BY <4>2, <4>3, <4>4
      <3> QED
        BY <3>4, <3>5, <3>6
    <2> QED
      BY <1>4, <2>6, <2>7
  <1> QED
    BY <1>6, <1>7

\* The guardian makes no difference between the two.
DoomedBounded ==
  \A p \in Proc : bound = p /\ Doomed(p) => since[p] <= Patience + KillTime

LEMMA DoomedIsBounded ==
  ASSUME KillsComeOff PROVE TimedSpec => []DoomedBounded
  <1>1. TimedInit => KillClock /\ CleanLaunch /\ DoomedClock
    BY DEF TimedInit, Init, HostInit, GuardInit, KillClock, KillUnderWay, CleanLaunch,
        DoomedClock, Doomed, Running
  <1>2. LiveInv /\ ClockTypeOK /\ KillClock /\ [TimedNext]_timedVars => KillClock'
    BY KillClockStep DEF KillsComeOff, InForceAlways
  <1>3. LiveInv /\ CleanLaunch /\ [TimedNext]_timedVars => CleanLaunch'
    BY CleanLaunchStep
  <1>4. LiveInv /\ ClockTypeOK /\ LiveInv' /\ ClockTypeOK' /\ InForceInv /\ KillClock /\ KillClock'
          /\ CleanLaunch /\ DoomedClock /\ [TimedNext]_timedVars => DoomedClock'
    BY DoomedClockStep
  <1>5. ASSUME LiveInv, ClockTypeOK, InForceInv, KillClock, CleanLaunch, DoomedClock,
               NEW p \in Proc, bound = p, Doomed(p)
        PROVE  since[p] <= Patience + KillTime
    <2>1. /\ since[p] \in Nat /\ Patience \in Nat /\ Rest \in Int
          /\ KillTime \in Nat /\ killing \in Nat /\ taskkill \in Nat
      BY <1>5, RestTypes, RestBounds, EnvironmentAssumption
      DEF ClockTypeOK, LiveInv, TypeOK, HostTypeOK
    <2>2. CASE taskkill > 0
      BY <1>5, <2>1, <2>2 DEF DoomedClock, KillClock, KillUnderWay
    <2>3. CASE taskkill = 0
      <3>1. Guarding /\ "startApp" \notin shots
        BY <1>5, <2>3 DEF CleanLaunch, Running, Doomed
      <3>2. Rest >= 0
        BY <1>5, <3>1, RestBounds
      <3> QED
        BY <1>5, <2>1, <2>3, <3>2 DEF DoomedClock
    <2> QED
      BY <2>1, <2>2, <2>3
  <1>6. LiveInv /\ ClockTypeOK /\ InForceInv /\ KillClock /\ CleanLaunch /\ DoomedClock
          => DoomedBounded
    BY <1>5 DEF DoomedBounded
  <1>7. TimedSpec => [](LiveInv /\ ClockTypeOK /\ InForceInv)
    BY InForceHolds DEF KillsComeOff
  <1> QED
    BY <1>1, <1>2, <1>3, <1>4, <1>6, <1>7, PTL DEF TimedSpec

(* A hung application lasts TimeoutCount + 1 intervals and the time of the *)
(* kill at most, whatever it answered before it hung and wherever the      *)
(* guardian was in its round.                                              *)
THEOREM HungIsBounded ==
  ASSUME KillsComeOff PROVE TimedSpec => []HungBounded
  <1>1. DoomedBounded => HungBounded
    BY DEF DoomedBounded, HungBounded, Doomed
  <1> QED
    BY <1>1, DoomedIsBounded, PTL

(* With the identifiers of a clock of today, which do not fit in what      *)
(* readData keeps of them (toUInt), an application that serves and answers *)
(* every heartbeat lasts no longer than one that hangs.                    *)
THEOREM WideIdsKillServing ==
  ASSUME KillsComeOff, Unrecognisable
  PROVE  TimedSpec => [](\A p \in Proc :
                           bound = p /\ proc[p] = "up" => since[p] <= Patience + KillTime)
  <1>1. DoomedBounded =>
          \A p \in Proc : bound = p /\ proc[p] = "up" => since[p] <= Patience + KillTime
    BY DEF DoomedBounded, Doomed
  <1> QED
    BY <1>1, DoomedIsBounded, PTL

-----------------------------------------------------------------------------
(* An application that serves: one interval and one answer clear it.       *)

(* It answers within an interval, and its buffer holds heartbeats only:    *)
(* the answers to remote commands could fill it, and the heartbeat that    *)
(* clears the application would be dropped.                                *)
AnswersInTime == RemoteObject = {} /\ ReplyTime < HeartInterval /\ TimeoutCount > 0

\* The identifier that waits is one that does not come back whole.
Unanswerable == packetID # NoPacket /\ Echo(packetID) # packetID

\* It has served longer than datagrams may wait, so none is left from before.
Settled == Serving /\ since[bound] > ReplyTime

NeverStopped == service # "stopped"

\* A guardian that is about to ask has counted nothing.
StartsOk == "beginTimeOut" \in shots => ok

WaitClock == waited \in 0..ReplyTime /\ (toApp = <<>> => waited = 0)

(* What waits is older than the service of the application, or it is one   *)
(* heartbeat, and the next comes an interval after it at the earliest.     *)
LoneBeat ==
  Serving /\ toApp # <<>> =>
    \/ waited >= since[bound]
    \/ Len(toApp) = 1 /\ (heart => left["heart"] + waited >= HeartInterval)

\* A heartbeat finds the way to the application and back empty.
OneAtATime ==
  Settled => /\ toApp # <<>> => toSvc = <<>>
             /\ toSvc # <<>> /\ heart => left["heart"] > 0

\* The last heartbeat, sent when the application had settled, is on its way.
AnswerComes ==
  heart /\ ~ok /\ Serving /\ since[bound] + left["heart"] > ReplyTime + HeartInterval =>
    \/ toApp = <<Heart(packetID, sock)>>
    \/ toSvc = <<Reply(packetID)>>
    \/ Unanswerable

SparedInv == NeverStopped /\ StartsOk /\ WaitClock /\ LoneBeat /\ OneAtATime /\ AnswerComes

\* Without remote commands there are only heartbeats and answers.
LEMMA BeatsOnly ==
  ASSUME LiveInv, RemoteObject = {}
  PROVE  toApp \in Seq(HeartMsg) /\ toSvc \in Seq(ReplyMsg)
  <1>1. AckMsg = {}
    <2>1. \A m \in AckMsg : m.object \in {}
      BY DEF AckMsg
    <2> QED
      BY <2>1
  <1>2. CmdMsg = {}
    <2>1. \A m \in CmdMsg : m.object \in {}
      BY DEF CmdMsg
    <2> QED
      BY <2>1
  <1>3. ToApp = HeartMsg /\ ToSvc = ReplyMsg
    BY <1>1, <1>2 DEF ToApp, ToSvc
  <1> QED
    BY <1>3 DEF LiveInv, TypeOK, HostTypeOK

LEMMA NoCommands ==
  ASSUME LiveInv, RemoteObject = {}
  PROVE  ~NextIsCommand /\ ~ReadAck
  <1>1. CASE NextIsCommand
    <2>1. Head(toSvc) \in ReplyMsg
      BY <1>1, BeatsOnly DEF NextIsCommand
    <2>2. PICK id \in PacketID : Head(toSvc) = Reply(id)
      BY <2>1 DEF ReplyMsg
    <2>3. Reply(id).type = "reply"
      BY DEF Reply
    <2> QED
      BY <1>1, <2>2, <2>3 DEF NextIsCommand
  <1>2. CASE ReadAck
    <2>1. Head(toApp) \in HeartMsg
      BY <1>2, BeatsOnly DEF ReadAck
    <2> QED
      BY <1>2, <2>1 DEF ReadAck, HeartMsg
  <1> QED
    BY <1>1, <1>2

\* An application that serves did so before, or begins.
LEMMA StillServing ==
  ASSUME LiveInv, LiveInv', Step, Serving'
  PROVE  \/ since'[bound'] = 0
         \/ Serving /\ bound' = bound /\ since'[bound'] = since[bound]
  <1>1. PICK p \in Proc : bound' = p /\ proc'[p] = "up"
    BY DEF Serving, LiveInv, TypeOK, HostTypeOK
  <1>2. since'[p] = IF proc'[p] = proc[p] THEN since[p] ELSE 0
    BY DEF Step, Aging
  <1>3. CASE proc'[p] = proc[p]
    <2>1. bound = p
      BY <1>1, <1>3, TimedStep, PortKept DEF TimedNext
    <2>2. p # NoProc /\ proc[p] = "up"
      BY <1>1, <1>3, ProcAssumption
    <2>3. since'[bound'] = since[bound]
      BY <1>1, <1>2, <1>3, <2>1
    <2> QED
      BY <1>1, <2>1, <2>2, <2>3 DEF Serving
  <1> QED
    BY <1>1, <1>2, <1>3

\* What may happen to the application's buffer.
LEMMA ToAppStep ==
  ASSUME LiveInv, RemoteObject = {}, Step
  PROVE  \/ toApp' = toApp
         \/ bound' = NoProc
         \/ ReadHeart
         \/ /\ On("heart", HeartTimeout)
            /\ \E id \in HeartID, port \in LocalPort : toApp' = Inbox(Heart(id, port))
  <1>1. ASSUME NEW dead, NEW inbox, Die(dead, inbox) PROVE toApp' = inbox \/ bound' = NoProc
    BY <1>1 DEF Die
  <1>2. ASSUME NEW inbox, killApp(inbox) PROVE toApp' = inbox \/ bound' = NoProc
    BY <1>1, <1>2 DEF killApp, killProcess, runTaskkill, killAll
  <1>3. CASE On("heart", HeartTimeout)
    BY <1>2, <1>3 DEF On, HeartTimeout, Recover
  <1>4. CASE Destroy
    BY <1>2, <1>4 DEF Destroy
  <1>5. CASE KillEnds
    BY <1>1, <1>5 DEF KillEnds, TaskkillEnds, Terminates
  <1>6. ASSUME NEW p \in Proc, DuplicateExit(p) \/ AppExit(p)
        PROVE  toApp' = toApp \/ bound' = NoProc
    BY <1>1, <1>6 DEF DuplicateExit, AppExit
  <1>7. ~ReadCommand /\ ~ReadRemoteStop /\ ~ReadAck
    BY NoCommands DEF ReadCommand, ReadRemoteStop
  <1> QED
    BY <1>3, <1>4, <1>5, <1>6, <1>7
    DEF Step, GuardTimers, On, ServiceStep, ClientStep, hostVars, killOther, startApp, beginTimeOut,
        ReadReply, ServiceStart, ServiceStop, ServiceCrash, ServiceCrashInLaunch, ServicePause,
        ServiceResume, SetKeepLive, sendRemoteCMD, AppStart, AppHang, AppRecover, UserOpens

\* And to the service's, which ends with its guardian.
LEMMA ToSvcStep ==
  ASSUME LiveInv, RemoteObject = {}, Step
  PROVE  UNCHANGED toSvc \/ ReadReply \/ ReadHeart \/ (~heart' /\ toSvc' = <<>>)
  <1>1. ~ReadCommand /\ ~ReadRemoteStop /\ ~ReadAck
    BY NoCommands DEF ReadCommand, ReadRemoteStop
  <1>2. Forget => ~heart' /\ toSvc' = <<>>
    BY DEF Forget
  <1>3. ~\E object \in RemoteObject, value \in BOOLEAN : sendRemoteCMD(object, value)
    OBVIOUS
  <1> QED
    BY <1>1, <1>2, <1>3
    DEF Step, GuardTimers, On, ServiceStep, ClientStep, hostVars, HeartTimeout, killOther, startApp,
        beginTimeOut, ServiceStart, ServiceStop, ServiceCrash, ServiceCrashInLaunch,
        ServicePause, ServiceResume, SetKeepLive, Destroy, KillEnds, TaskkillEnds, Terminates,
        AppStart, DuplicateExit, AppExit, AppHang, AppRecover, UserOpens

\* A heartbeat timer that runs on, has just beaten, or has just been set.
LEMMA HeartRuns ==
  ASSUME LiveInv, ClockTypeOK, StartsOk, RemoteObject = {}, Step, heart'
  PROVE  \/ /\ heart /\ left'["heart"] = left["heart"]
            /\ UNCHANGED <<ok, packetID, sock>> \/ ReadReply
         \/ left'["heart"] = HeartInterval /\ On("heart", HeartTimeout)
         \/ left'["heart"] = HeartInterval /\ ok'
  <1>0. "heart" \in Timers /\ ("heart" \in Armed <=> heart) /\ "heart" \in Armed'
    BY DEF Timers, Armed, Shots, LiveInv, TypeOK, GuardTypeOK
  <1>1. ASSUME NEW fired, SetTimers(fired), "heart" \notin fired, heart
        PROVE  left'["heart"] = left["heart"]
    BY <1>0, <1>1, TimerKept
  <1>2. CASE On("heart", HeartTimeout)
    <2>1. left'["heart"] = HeartInterval
      BY <1>0, <1>2, TimerSet DEF On, Delay
    <2> QED
      BY <1>2, <2>1
  <1>3. CASE On("beginTimeOut", beginTimeOut)
    <2>1. beginTimeOut /\ SetTimers({"beginTimeOut"})
      BY <1>3 DEF On
    <2>2. ok /\ ok' = ok /\ ~heart
      BY <2>1, Phase DEF beginTimeOut, StartsOk
    <2>3. left'["heart"] = HeartInterval
      BY <1>0, <2>1, <2>2, TimerSet DEF Delay
    <2> QED
      BY <2>2, <2>3
  <1>4. CASE On("killOther", killOther) \/ On("startApp", startApp)
    BY <1>4, Phase DEF On, killOther, startApp
  <1>5. CASE ReadReply /\ SetTimers({})
    <2>1. heart
      BY <1>5 DEF ReadReply
    <2> QED
      BY <1>1, <1>5, <2>1
  <1>6. CASE (ServicePause \/ ServiceResume) /\ SetTimers({})
    <2>1. heart /\ UNCHANGED <<ok, packetID, sock>>
      BY <1>6 DEF ServicePause, ServiceResume, SetKeepLive, hostVars
    <2> QED
      BY <1>1, <1>6, <2>1
  <1>7. CASE UNCHANGED <<left, guardVars, sock>>
    BY <1>7 DEF guardVars
  <1>8. ~ServiceStart /\ ~Forget
    BY DEF ServiceStart, Construct, Forget
  <1>9. ~ReadCommand /\ ~ReadRemoteStop
    BY NoCommands DEF ReadCommand, ReadRemoteStop
  <1>10. ASSUME KillEnds \/ ClientStep PROVE UNCHANGED sock
    BY <1>10 DEF KillEnds, TaskkillEnds, Terminates, ClientStep, ReadHeart, ReadAck,
                 sendRemoteCMD, AppStart, DuplicateExit, AppExit, AppHang, AppRecover, UserOpens
  <1> QED
    BY <1>2, <1>3, <1>4, <1>5, <1>6, <1>7, <1>8, <1>9, <1>10
    DEF Step, GuardTimers, ServiceStep, ServiceStop, ServiceCrash, ServiceCrashInLaunch, Destroy

LEMMA SparedTypes ==
  ASSUME LiveInv, ClockTypeOK, AnswersInTime, WaitClock
  PROVE  /\ "heart" \in Timers /\ left["heart"] \in 0..HeartInterval
         /\ HeartInterval \in Nat \ {0} /\ ReplyTime \in Nat /\ ReplyTime < HeartInterval
         /\ waited \in 0..ReplyTime
         /\ toApp \in Seq(HeartMsg) /\ toSvc \in Seq(ReplyMsg)
         /\ bound # NoProc => since[bound] \in Nat
  <1>1. "heart" \in Timers /\ HeartInterval \in Nat \ {0} /\ ReplyTime \in Nat
    BY IntervalAssumption, EnvironmentAssumption DEF Timers
  <1>2. left["heart"] \in 0..HeartInterval
    BY <1>1 DEF ClockTypeOK, Delay
  <1>3. bound # NoProc => since[bound] \in Nat
    BY EnvironmentAssumption DEF ClockTypeOK, LiveInv, TypeOK, HostTypeOK
  <1> QED
    BY <1>1, <1>2, <1>3, BeatsOnly DEF AnswersInTime, WaitClock

\* Whatever arrived before the next heartbeat was due is alone.
LEMMA SettledBeat ==
  ASSUME LiveInv, ClockTypeOK, AnswersInTime, WaitClock, LoneBeat, Settled, toApp # <<>>
  PROVE  Len(toApp) = 1 /\ (heart => left["heart"] > 0)
  <1>1. waited < since[bound]
    BY SparedTypes DEF Settled, Serving
  <1>2. Len(toApp) = 1 /\ (heart => left["heart"] + waited >= HeartInterval)
    BY <1>1, SparedTypes DEF LoneBeat, Settled, Serving
  <1> QED
    BY <1>2, SparedTypes

LEMMA WaitStep ==
  ASSUME WaitClock, [TimedNext]_timedVars
  PROVE  WaitClock'
  <1> USE EnvironmentAssumption DEF WaitClock
  <1>1. CASE Step
    BY <1>1 DEF Step, Aging
  <1>2. CASE Tick
    BY <1>2 DEF Tick, Idle, vars, hostVars
  <1>3. CASE UNCHANGED timedVars
    BY <1>3 DEF timedVars, vars, hostVars, clockVars
  <1> QED
    BY <1>1, <1>2, <1>3 DEF TimedNext

LEMMA GuardianStep ==
  ASSUME LiveInv, NeverStopped, StartsOk, RemoteObject = {}, [TimedNext]_timedVars
  PROVE  NeverStopped' /\ StartsOk'
  <1> USE DEF NeverStopped, StartsOk
  <1>1. CASE HeartTimeout
    <2>1. shots = {} /\ service' = service
      BY <1>1, Phase DEF HeartTimeout
    <2>2. shots' = shots \/ shots' = shots \cup {"killOther", "startApp"}
      BY <1>1 DEF HeartTimeout, Recover
    <2> QED
      BY <2>1, <2>2
  <1>2. CASE killOther \/ beginTimeOut \/ ReadReply
    BY <1>2 DEF killOther, beginTimeOut, ReadReply
  <1>3. CASE startApp \/ ServiceStart
    BY <1>3, Phase DEF startApp, ServiceStart, Construct, startAppBody, Guarding
  <1>4. CASE ServiceStop \/ ServiceCrash \/ ServiceCrashInLaunch
    BY <1>4 DEF ServiceStop, ServiceCrash, ServiceCrashInLaunch, Destroy, Forget
  <1>5. CASE ServicePause \/ ServiceResume
    BY <1>5 DEF ServicePause, ServiceResume, SetKeepLive
  <1>6. CASE UNCHANGED guardVars
    BY <1>6 DEF guardVars
  <1>7. ~ReadCommand /\ ~ReadRemoteStop
    BY NoCommands DEF ReadCommand, ReadRemoteStop
  <1>8. CASE Tick \/ UNCHANGED timedVars
    BY <1>6, <1>8 DEF Tick, timedVars, vars
  <1> QED
    BY <1>1, <1>2, <1>3, <1>4, <1>5, <1>6, <1>7, <1>8
    DEF TimedNext, Step, GuardTimers, On, ServiceStep

LEMMA LoneBeatStep ==
  ASSUME LiveInv, LiveInv', ClockTypeOK, ClockTypeOK', AnswersInTime, StartsOk, WaitClock,
         WaitClock', LoneBeat, [TimedNext]_timedVars
  PROVE  LoneBeat'
  <1>0. RemoteObject = {}
    BY DEF AnswersInTime
  <1> USE SparedTypes
  <1>1. CASE Step
    <2> SUFFICES ASSUME Serving', toApp' # <<>>
                 PROVE  \/ waited' >= since'[bound']
                        \/ Len(toApp') = 1 /\ (heart' => left'["heart"] + waited' >= HeartInterval)
      BY DEF LoneBeat
    <2>1. waited' = waited /\ waited \in Nat
      BY <1>1 DEF Step, Aging
    <2>2. CASE since'[bound'] = 0
      BY <2>1, <2>2
    <2>3. CASE Serving /\ bound' = bound /\ since'[bound'] = since[bound]
      <3>1. heart' => \/ heart /\ left'["heart"] = left["heart"]
                      \/ left'["heart"] = HeartInterval
        BY <1>0, <1>1, HeartRuns
      <3>2. CASE toApp' = toApp
        BY <2>1, <2>3, <3>1, <3>2 DEF LoneBeat
      <3>3. CASE ReadHeart
        <4>1. toApp # <<>> /\ toApp' = Tail(toApp)
          BY <3>3 DEF ReadHeart
        <4>2. Len(toApp) # 1
          BY <4>1
        <4> QED
          BY <2>1, <2>3, <4>1, <4>2 DEF LoneBeat
      <3>4. ASSUME On("heart", HeartTimeout), NEW m, toApp' = Inbox(m)
            PROVE  \/ waited' >= since'[bound']
                   \/ Len(toApp') = 1 /\ (heart' => left'["heart"] + waited' >= HeartInterval)
        <4>1. left["heart"] = 0 /\ heart
          BY <3>4 DEF On, HeartTimeout
        <4>2. CASE toApp = <<>>
          <5>1. Len(toApp') = 1
            BY <2>3, <3>4, <4>2, BufferAssumption DEF Inbox, Deliver, Serving
          <5>2. heart' => left'["heart"] = HeartInterval
            <6>1. "heart" \in Armed' <=> heart'
              BY DEF Armed, Shots, LiveInv, TypeOK, GuardTypeOK
            <6> QED
              BY <3>4, <6>1, TimerSet DEF On, Delay
          <5> QED
            BY <2>1, <5>1, <5>2
        <4>3. CASE toApp # <<>>
          BY <2>1, <2>3, <4>1, <4>3 DEF LoneBeat
        <4> QED
          BY <4>2, <4>3
      <3>5. bound' # NoProc
        BY DEF Serving
      <3> QED
        BY <1>0, <1>1, <3>2, <3>3, <3>4, <3>5, ToAppStep
    <2> QED
      BY <1>1, <2>2, <2>3, StillServing
  <1>2. CASE Tick
    <2>1. UNCHANGED <<toApp, bound, proc, heart, shots>>
      BY <1>2 DEF Tick, vars, hostVars, guardVars
    <2>2. heart => left'["heart"] = left["heart"] - 1
      BY <1>2 DEF Tick, Armed
    <2> SUFFICES ASSUME Serving, toApp # <<>>
                 PROVE  \/ waited' >= since'[bound]
                        \/ Len(toApp) = 1 /\ (heart => left'["heart"] + waited' >= HeartInterval)
      BY <2>1 DEF LoneBeat, Serving
    <2>3. waited' = waited + 1
      BY <1>2 DEF Tick
    <2>4. since'[bound] <= since[bound] + 1 /\ since'[bound] \in Nat /\ since[bound] \in Nat
      <3>1. bound \in Proc
        BY DEF Serving, LiveInv, TypeOK, HostTypeOK
      <3> QED
        BY <1>2, <3>1, EnvironmentAssumption DEF Tick, ClockTypeOK
    <2> QED
      BY <2>2, <2>3, <2>4 DEF LoneBeat
  <1>3. CASE UNCHANGED timedVars
    BY <1>3 DEF timedVars, vars, hostVars, guardVars, clockVars, LoneBeat, Serving
  <1> QED
    BY <1>1, <1>2, <1>3 DEF TimedNext

\* One that has settled was settled before the step.
LEMMA StaysSettled ==
  ASSUME LiveInv, LiveInv', Step, Settled'
  PROVE  Settled /\ bound' = bound /\ since'[bound'] = since[bound]
  BY StillServing, EnvironmentAssumption DEF Settled

LEMMA OneAtATimeStep ==
  ASSUME LiveInv, LiveInv', ClockTypeOK, AnswersInTime, NeverStopped, StartsOk, WaitClock,
         LoneBeat, OneAtATime, [TimedNext]_timedVars
  PROVE  OneAtATime'
  <1>0. RemoteObject = {}
    BY DEF AnswersInTime
  <1>1. CASE Step
    <2> SUFFICES ASSUME Settled'
                 PROVE  /\ toApp' # <<>> => toSvc' = <<>>
                        /\ toSvc' # <<>> /\ heart' => left'["heart"] > 0
      BY DEF OneAtATime
    <2>1. Settled /\ bound' # NoProc
      BY <1>1, StaysSettled DEF Settled, Serving
    <2>2. /\ toApp # <<>> => toSvc = <<>>
          /\ toSvc # <<>> /\ heart => left["heart"] > 0
      BY <2>1 DEF OneAtATime
    <2>3. ASSUME toApp' # <<>>
          PROVE  toSvc' = <<>>
      <3>1. ~ReadHeart
        <4>1. ASSUME ReadHeart PROVE toApp # <<>> /\ toApp' = Tail(toApp)
          BY <4>1 DEF ReadHeart
        <4>2. ASSUME ReadHeart PROVE Len(toApp) = 1
          BY <2>1, <4>1, <4>2, SettledBeat
        <4> QED
          BY <2>3, <4>1, <4>2, SparedTypes
      <3>2. toSvc = <<>>
        <4>1. CASE toApp' = toApp
          BY <2>2, <2>3, <4>1
        <4>2. CASE On("heart", HeartTimeout)
          BY <2>2, <4>2, SparedTypes DEF On, HeartTimeout
        <4> QED
          BY <1>0, <1>1, <2>1, <3>1, <4>1, <4>2, ToAppStep
      <3>3. ~ReadReply
        BY <3>2 DEF ReadReply
      <3> QED
        BY <1>0, <1>1, <3>1, <3>2, <3>3, ToSvcStep
    <2>4. ASSUME toSvc' # <<>>, heart'
          PROVE  left'["heart"] > 0
      <3>1. CASE left'["heart"] = HeartInterval
        BY <3>1, SparedTypes
      <3>2. CASE heart /\ left'["heart"] = left["heart"]
        <4>1. toSvc # <<>> \/ toApp # <<>>
          <5>1. ReadReply => toSvc # <<>>
            BY DEF ReadReply
          <5>2. ReadHeart => toApp # <<>>
            BY DEF ReadHeart
          <5> QED
            BY <1>0, <1>1, <2>4, <5>1, <5>2, ToSvcStep
        <4> QED
          BY <2>1, <2>2, <3>2, <4>1, SettledBeat
      <3> QED
        BY <1>0, <1>1, <2>4, <3>1, <3>2, HeartRuns
    <2> QED
      BY <2>3, <2>4
  <1>2. CASE Tick
    <2>1. toSvc = <<>>
      BY <1>2 DEF Tick, Idle, NeverStopped, Guarding, LiveInv, TypeOK, GuardTypeOK
    <2> QED
      BY <1>2, <2>1 DEF Tick, vars, hostVars, OneAtATime
  <1>3. CASE UNCHANGED timedVars
    BY <1>3 DEF timedVars, vars, hostVars, guardVars, clockVars, OneAtATime, Settled, Serving
  <1> QED
    BY <1>1, <1>2, <1>3 DEF TimedNext

\* What is sent to an application whose buffer is empty arrives.
LEMMA AloneInBuffer ==
  ASSUME NEW m
  PROVE  Deliver(<<>>, m) = <<m>>
  BY BufferAssumption DEF Deliver

\* The answer to the heartbeat that waits is recognised.
LEMMA AnswerRecognised ==
  ASSUME packetID \in PacketID, ~Unanswerable
  PROVE  Answers(Reply(packetID))
  BY PacketAssumption DEF Unanswerable, Answers, Reply

LEMMA AnswerComesStep ==
  ASSUME LiveInv, LiveInv', ClockTypeOK, ClockTypeOK', AnswersInTime, NeverStopped, StartsOk,
         WaitClock, WaitClock', LoneBeat, OneAtATime, AnswerComes, [TimedNext]_timedVars
  PROVE  AnswerComes'
  <1>0. RemoteObject = {}
    BY DEF AnswersInTime
  <1>1. CASE Step
    <2> SUFFICES ASSUME heart', ~ok', Serving',
                        since'[bound'] + left'["heart"] > ReplyTime + HeartInterval
                 PROVE  \/ toApp' = <<Heart(packetID', sock')>>
                        \/ toSvc' = <<Reply(packetID')>>
                        \/ Unanswerable'
      BY DEF AnswerComes, Heart, Reply, Echo
    <2>1. Settled'
      <3>1. bound' # NoProc
        BY DEF Serving
      <3>2. left'["heart"] \in 0..HeartInterval
        BY SparedTypes DEF ClockTypeOK, Delay
      <3>3. since'[bound'] \in Nat
        BY <3>1, EnvironmentAssumption DEF ClockTypeOK, LiveInv, TypeOK, HostTypeOK
      <3>4. since'[bound'] > ReplyTime
        BY <3>2, <3>3, SparedTypes
      <3> QED
        BY <3>4 DEF Settled
    <2>2. Settled /\ bound' = bound /\ since'[bound'] = since[bound] /\ bound # NoProc
      BY <1>1, <2>1, StaysSettled DEF Settled, Serving
    <2>3. toApp # <<>> => Len(toApp) = 1 /\ toSvc = <<>> /\ (heart => left["heart"] > 0)
      BY <2>2, SettledBeat DEF OneAtATime
    <2>4. CASE On("heart", HeartTimeout)
      <3>1. left["heart"] = 0 /\ HeartTimeout /\ heart
        BY <2>4 DEF On, HeartTimeout
      <3>2. toApp = <<>>
        BY <2>3, <3>1
      <3>3. PICK id \in HeartID, port \in LocalPort :
              toApp' = Inbox(Heart(id, port)) /\ packetID' = id /\ sock' = port
        BY <3>1 DEF HeartTimeout, Recover
      <3> QED
        BY <2>2, <3>2, <3>3, AloneInBuffer DEF Inbox
    <2>5. CASE /\ heart /\ left'["heart"] = left["heart"]
               /\ UNCHANGED <<ok, packetID, sock>> \/ ReadReply
      <3>1. ~ok /\ UNCHANGED <<packetID, sock>>
        BY <2>5 DEF ReadReply
      <3>2. \/ toApp = <<Heart(packetID, sock)>>
            \/ toSvc = <<Reply(packetID)>>
            \/ Unanswerable
        BY <2>2, <2>5, <3>1 DEF AnswerComes, Settled
      <3>3. CASE toSvc = <<Reply(packetID)>> /\ ~Unanswerable
        <4>1. packetID \in PacketID
          <5>1. Reply(packetID) \in ReplyMsg
            BY <3>3, BeatsOnly, <1>0
          <5> QED
            BY <5>1 DEF ReplyMsg, Reply
        <4>2. ~ReadReply
          <5>1. Answers(Head(toSvc))
            <6>1. toSvc = <<Reply(packetID)>> /\ ~Unanswerable
              BY <3>3
            <6>2. Head(toSvc) = Reply(packetID)
              BY <6>1
            <6> QED
              BY <4>1, <6>1, <6>2, AnswerRecognised
          <5> QED
            BY <5>1 DEF ReadReply
        <4>3. ~ReadHeart
          BY <2>3, <3>3 DEF ReadHeart
        <4>4. toSvc' = toSvc
          BY <1>0, <1>1, <4>2, <4>3, ToSvcStep
        <4> QED
          BY <3>1, <3>3, <4>4
      <3>4. CASE toApp = <<Heart(packetID, sock)>>
        <4>1. toSvc = <<>> /\ left["heart"] > 0
          BY <2>3, <2>5, <3>4
        <4>2. CASE toApp' = toApp
          BY <3>1, <3>4, <4>2
        <4>3. CASE ReadHeart
          <5>1. sock # NoPort
            <6>1. Heart(packetID, sock) \in HeartMsg
              BY <3>4, BeatsOnly, <1>0
            <6> QED
              BY <6>1, PortAssumption DEF HeartMsg, Heart
          <5>2. toSvc' = Outbox(Reply(packetID), sock)
            BY <3>4, <4>3 DEF ReadHeart, Heart
          <5> QED
            BY <3>1, <4>1, <5>1, <5>2, AloneInBuffer DEF Outbox
        <4>4. ~On("heart", HeartTimeout)
          BY <4>1 DEF On
        <4> QED
          BY <1>0, <1>1, <2>2, <4>2, <4>3, <4>4, ToAppStep
      <3>5. CASE Unanswerable
        BY <3>1, <3>5 DEF Unanswerable, Echo
      <3> QED
        BY <3>2, <3>3, <3>4, <3>5
    <2> QED
      BY <1>0, <1>1, <2>4, <2>5, HeartRuns
  <1>2. CASE Tick
    <2>1. toSvc = <<>>
      BY <1>2 DEF Tick, Idle, NeverStopped, Guarding, LiveInv, TypeOK, GuardTypeOK
    <2>2. UNCHANGED <<proc, bound, toApp, toSvc, sock, heart, ok, packetID>>
      BY <1>2 DEF Tick, vars, hostVars, guardVars
    <2> SUFFICES ASSUME heart, ~ok, Serving,
                        since'[bound] + left'["heart"] > ReplyTime + HeartInterval
                 PROVE  toApp = <<Heart(packetID, sock)>> \/ Unanswerable
      BY <2>2 DEF AnswerComes, Serving, Heart, Unanswerable, Echo
    <2>3. left'["heart"] = left["heart"] - 1
      BY <1>2, SparedTypes DEF Tick, Armed
    <2>4. since'[bound] <= since[bound] + 1 /\ since'[bound] \in Nat /\ since[bound] \in Nat
      <3>1. bound \in Proc
        BY DEF Serving, LiveInv, TypeOK, HostTypeOK
      <3> QED
        BY <1>2, <3>1, EnvironmentAssumption DEF Tick, ClockTypeOK
    <2>5. since[bound] + left["heart"] > ReplyTime + HeartInterval
      BY <2>3, <2>4, SparedTypes
    <2> QED
      BY <2>1, <2>5 DEF AnswerComes
  <1>3. CASE UNCHANGED timedVars
    BY <1>3 DEF timedVars, vars, hostVars, guardVars, clockVars, AnswerComes, Serving, Heart, Reply,
                Echo, Unanswerable
  <1> QED
    BY <1>1, <1>2, <1>3 DEF TimedNext

LEMMA SparedStep ==
  ASSUME LiveInv, LiveInv', ClockTypeOK, ClockTypeOK', AnswersInTime, SparedInv,
         [TimedNext]_timedVars
  PROVE  SparedInv'
  <1>1. NeverStopped' /\ StartsOk' /\ WaitClock'
    BY GuardianStep, WaitStep DEF SparedInv, AnswersInTime
  <1>2. LoneBeat'
    BY <1>1, LoneBeatStep DEF SparedInv
  <1>3. OneAtATime'
    BY OneAtATimeStep DEF SparedInv
  <1>4. AnswerComes'
    BY <1>1, AnswerComesStep DEF SparedInv
  <1> QED
    BY <1>1, <1>2, <1>3, <1>4 DEF SparedInv

\* A beat finds nothing to hold against an application that has served long enough.
LEMMA SparedBeat ==
  ASSUME LiveInv, ClockTypeOK, AnswersInTime, SparedInv, TimedNext, Recovers,
         NEW p \in Proc, bound = p, proc[p] = "up", since[p] > HeartInterval + ReplyTime
  PROVE  packetID # NoPacket /\ Echo(packetID) # packetID
  <1>1. HeartTimeout /\ left["heart"] <= 0 /\ heart
    BY RecoversAtBeat DEF Recovers
  <1>2. ~ok
    <2>1. Misses >= TimeoutCount
      BY <1>1 DEF HeartTimeout, Recovers, Silent
    <2> QED
      BY <2>1, TimeoutAssumption DEF Misses, AnswersInTime
  <1>3. Serving /\ WaitClock /\ since[p] \in Nat
    BY ProcAssumption, EnvironmentAssumption DEF Serving, SparedInv, ClockTypeOK
  <1>4. Settled
    BY <1>3, SparedTypes DEF Settled
  <1>5. toApp = <<>>
    BY <1>1, <1>3, <1>4, SettledBeat, SparedTypes DEF SparedInv
  <1>6. toSvc = <<>>
    BY <1>1, <1>3, <1>4, SparedTypes DEF SparedInv, OneAtATime
  <1>7. since[bound] + left["heart"] > ReplyTime + HeartInterval
    BY <1>3, SparedTypes
  <1> QED
    BY <1>1, <1>2, <1>3, <1>5, <1>6, <1>7 DEF SparedInv, AnswerComes, Unanswerable

(* An application that serves and answers within an interval is not given  *)
(* up for what it, or one before it, did: by an interval and an answer     *)
(* after it began to serve its misses are wiped out (send_heart,           *)
(* readyRead), through crashes, hangs, refused kills and restarts of the   *)
(* service, whatever waited in its buffer when it came back.  Given up     *)
(* later, it is for an identifier that waits and does not come back whole, *)
(* and for no other reason; with a clock of today every one is of those.   *)
(* Remote commands are left out: their answers could fill the buffer.      *)
THEOREM HealthyAreSpared == ASSUME AnswersInTime PROVE TimedSpec => HealthySpared
  <1>1. TimedInit => SparedInv
    BY EnvironmentAssumption
    DEF TimedInit, Init, HostInit, GuardInit, SparedInv, NeverStopped, StartsOk, WaitClock,
        LoneBeat, OneAtATime, AnswerComes, Settled, Serving
  <1>2. LiveInv /\ LiveInv' /\ ClockTypeOK /\ ClockTypeOK' /\ SparedInv /\ [TimedNext]_timedVars
          => SparedInv'
    BY SparedStep
  <1>3. LiveInv /\ ClockTypeOK /\ SparedInv /\ [TimedNext]_timedVars
          => [Recovers => \A p \in Proc :
                (bound = p /\ proc[p] = "up" /\ since[p] > HeartInterval + ReplyTime)
                  => packetID # NoPacket /\ Echo(packetID) # packetID]_timedVars
    BY SparedBeat
  <1> QED
    BY <1>1, <1>2, <1>3, TimedLiveInv, ClockTypes, PTL DEF TimedSpec, HealthySpared

-----------------------------------------------------------------------------
(* The configuration's own start-up time.                                  *)

(* The start-up time the configuration names is granted if TimeoutCount    *)
(* and TimerHeartInterval happen to cover it: the guardian reads           *)
(* AppStartupTime and counts beats only.                                   *)
THEOREM StartupRespected ==
  ASSUME "open" \notin Faults, MaxAge >= Patience, Patience >= AppStartupTime
  PROVE  TimedSpec => StartupTimeRespected
  <1>1. \A p \in Proc : ClockTypeOK /\ since[p] >= Patience => since[p] >= AppStartupTime
    <2>1. /\ \A p \in Proc : ClockTypeOK => since[p] \in 0..MaxAge
          /\ MaxAge \in Nat /\ AppStartupTime \in Nat /\ HeartInterval \in Nat
          /\ TimeoutCount \in Nat
      BY IntervalAssumption, EnvironmentAssumption, TimeoutAssumption DEF ClockTypeOK
    <2>2. Patience \in Nat
      BY <2>1 DEF Patience
    <2> QED
      BY <2>1, <2>2
  <1>2. ClockTypeOK /\
          [Recovers => \A p \in Proc : proc[p] = "starting" => since[p] >= Patience]_timedVars
          => [Recovers => \A p \in Proc : proc[p] = "starting" =>
                            since[p] >= AppStartupTime]_timedVars
    BY <1>1
  <1> QED
    BY <1>2, StartsArePatient, ClockTypes, PTL DEF StartGetsPatience, StartupTimeRespected
=============================================================================
