----------------------------- MODULE LiveTimed ------------------------------
(***************************************************************************)
(* LiveSystem in discrete time: a tick is a second.  Every timer fires at  *)
(* the second it is due, the service reads its datagrams at once, and the  *)
(* application's own delays have bounds.                                   *)
(***************************************************************************)
EXTENDS LiveSystem

CONSTANTS
  HeartInterval,   \* App::TimerHeartInterval
  AppStartupTime,  \* App::AppStartupTime, which the guardian reads and never uses
  StartupTime,     \* the longest the application takes to start
  ReplyTime,       \* the longest an application that serves leaves datagrams unread
  KillTime,        \* the longest a kill takes
  MaxAge           \* bound: time in a state is told apart up to here

ASSUME IntervalAssumption == HeartInterval \in Nat \ {0} /\ AppStartupTime \in Nat
ASSUME EnvironmentAssumption ==
  StartupTime \in Nat /\ ReplyTime \in Nat /\ KillTime \in Nat /\ MaxAge \in Nat

VARIABLES
  left,     \* seconds until each timer fires
  since,    \* seconds each process has been in its state, up to MaxAge
  waited,   \* seconds the application's buffer has not been empty while it serves
  killing   \* seconds the last kill has been under way

clockVars == <<left, since, waited, killing>>
timedVars == <<vars, clockVars>>

Timers == Shots \cup {"heart"}
Armed == shots \cup IF heart THEN {"heart"} ELSE {}

\* Mutants of Delay: startApp comes too soon; the heartbeat is twice as slow.
HastyStart ==
  [heart |-> HeartInterval, killOther |-> 1, startApp |-> 1, beginTimeOut |-> 0]
LazyHeart ==
  [heart |-> 2 * HeartInterval, killOther |-> 1, startApp |-> 3, beginTimeOut |-> 0]

(* What each timer is set to.  beginTimeOutTimer waits TimeoutCount        *)
(* milliseconds, which is less than a tick.                                *)
Delay ==
  [heart |-> HeartInterval, killOther |-> 1, startApp |-> 3, beginTimeOut |-> 0]

\* A timer that is set, or that repeats, starts from its delay.
SetTimers(fired) ==
  left' = [t \in Timers |->
             IF t \notin Armed' THEN 0
             ELSE IF t \in Armed \ fired THEN left[t] ELSE Delay[t]]

\* A timer's callback runs when it is due.
On(t, callback) == left[t] = 0 /\ callback /\ SetTimers({t})

\* A kill is ordered.
KillBegins ==
  \/ taskkill' > taskkill
  \/ \E p \in Proc : proc[p] # "dying" /\ proc'[p] = "dying"

Aging ==
  /\ since' = [p \in Proc |-> IF proc'[p] = proc[p] THEN since[p] ELSE 0]
  /\ waited' = IF toApp' = <<>> THEN 0 ELSE waited
  /\ killing' = IF KillBegins THEN 0 ELSE killing

GuardTimers ==
  \/ On("heart", HeartTimeout)
  \/ On("killOther", killOther)
  \/ On("startApp", startApp)
  \/ On("beginTimeOut", beginTimeOut)

Step ==
  /\ \/ GuardTimers /\ UNCHANGED clientVars
     \/ (ReadReply \/ ServiceStep) /\ UNCHANGED clientVars /\ SetTimers({})
     \/ /\ KillEnds
        /\ UNCHANGED <<left, guardVars, configVars, clientVars>>
     \/ ClientStep /\ UNCHANGED <<left, guardVars, configVars>>
  /\ Aging

\* Nothing is due: time may pass.
Idle ==
  /\ service # "down"
  /\ \A t \in Armed : left[t] > 0
  /\ Guarding => toSvc = <<>>
  /\ Serving /\ toApp # <<>> => waited < ReplyTime
  /\ \A p \in Proc : proc[p] = "starting" => since[p] < StartupTime
  /\ KillUnderWay => killing < KillTime

Tick ==
  /\ Idle
  /\ left' = [t \in Timers |-> IF t \in Armed THEN left[t] - 1 ELSE 0]
  /\ since' = [p \in Proc |-> IF since[p] < MaxAge THEN since[p] + 1 ELSE MaxAge]
  /\ waited' = IF Serving /\ toApp # <<>> THEN waited + 1 ELSE waited
  /\ killing' = IF KillUnderWay THEN killing + 1 ELSE killing
  /\ UNCHANGED vars

TimedInit ==
  /\ Init
  /\ left = [t \in Timers |-> 0]
  /\ since = [p \in Proc |-> 0]
  /\ waited = 0
  /\ killing = 0

TimedNext == Step \/ Tick

TimedSpec == TimedInit /\ [][TimedNext]_timedVars

-----------------------------------------------------------------------------
\* From a launch to the beat that gives the application up.
Patience == (TimeoutCount + 1) * HeartInterval

(* A hung application does not last: TimeoutCount + 1 beats and the kill   *)
(* bound the time it stays (README, basic feature 1).                      *)
HungBounded ==
  \A p \in Proc :
    bound = p /\ proc[p] = "hung" => since[p] <= Patience + KillTime

(* The application is never gone for longer than a round of beats and the  *)
(* three seconds before the launch.                                        *)
DownBounded == Running = {} => \E p \in Proc : since[p] <= Patience + 3

(* An application that serves is not given up for what it did before: one  *)
(* interval and one answer wipe out the misses, whatever waited in its     *)
(* buffer when it recovered.  The answer must be recognisable: one that    *)
(* serves for longer is given up only when an identifier waits that does   *)
(* not come back whole.                                                    *)
HealthySpared ==
  [][Recovers =>
       \A p \in Proc :
         (bound = p /\ proc[p] = "up" /\ since[p] > HeartInterval + ReplyTime)
           => packetID # NoPacket /\ Echo(packetID) # packetID]_timedVars

(* An application that still starts is given up after the whole patience,  *)
(* not after what is left of an earlier round.                             *)
StartGetsPatience ==
  [][Recovers =>
       \A p \in Proc : proc[p] = "starting" => since[p] >= Patience]_timedVars

(* The launch three seconds after the kill finds the kill done: it neither *)
(* ends a process the recovery has just launched, nor leaves two.          *)
LaunchAfterKill ==
  [][(\E p \in Proc : proc[p] = "none" /\ proc'[p] = "starting")
       => ~KillUnderWay]_timedVars

(* An application is given the start-up time its configuration names       *)
(* (app.h, the comment on AppStartupTime) before it is taken for hung.     *)
StartupTimeRespected ==
  [][Recovers =>
       \A p \in Proc : proc[p] = "starting" => since[p] >= AppStartupTime]_timedVars
=============================================================================
