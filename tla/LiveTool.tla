------------------------------ MODULE LiveTool ------------------------------
(***************************************************************************)
(* livetool, the older guardian with a window, in discrete time: a tick is *)
(* a second.  It asks "hello" every two seconds, takes any "OK" for an     *)
(* answer, and launches without looking at the process list.  The          *)
(* application is one that speaks this protocol, as livetool implies it;   *)
(* livedemo now speaks the one of AppKeepLive.  killOther and              *)
(* startExplorer touch only the desktop and are left out.                  *)
(***************************************************************************)
EXTENDS Integers, FiniteSets

CONSTANTS
  Proc,             \* the slots a process of the application may take
  NoProc,           \* no process
  TimeoutCount,     \* App::TimeoutCount
  HoldsSegment,     \* the application creates shared memory of its own name
  Names,            \* what a user types: "livedemo", "" for the empty name
  KillTime,         \* the longest a taskkill takes, in seconds
  MaxReStartCount,  \* bound: the restart counter stops counting here
  Faults            \* what may go wrong: "crash", "hang", "recover", "launchFail", "exit"

ASSUME LimitAssumption == TimeoutCount \in Nat \ {0}
ASSUME BoundAssumption == KillTime \in Nat /\ MaxReStartCount \in Nat
ASSUME ProcAssumption == NoProc \notin Proc

VARIABLES
  on,        \* livetool runs
  guarding,  \* the button says "pause": it is meant to guard
  count,     \* beats without an answer
  ok,        \* the last beat was answered
  timer,     \* seconds to the next beat, Off when the timer is stopped
  launches,  \* seconds to each pending startApp
  name,      \* App::TargetAppName
  restarts,  \* App::ReStartCount
  file,      \* both, in config.ini
  proc,      \* what each process of the application is doing
  owner,     \* the process that owns the application's port
  asked,     \* a "hello" waits at the application
  answered,  \* an "OK" waits at livetool
  kill,      \* seconds the taskkill under way may still take
  spared     \* history: a recovery has left alive what still runs

toolVars == <<on, guarding, count, ok, timer, launches>>
configVars == <<name, restarts, file>>
appVars == <<proc, owner, asked, answered, kill, spared>>
vars == <<toolVars, configVars, appVars>>

Off == -1
Interval == 2
App == "livedemo"
Running == {p \in Proc : proc[p] # "none"}
Defaults == [name |-> App, restarts |-> 0]

Die(dead) ==
  /\ proc' = [p \in Proc |-> IF p \in dead THEN "none" ELSE proc[p]]
  /\ owner' = IF owner \in dead THEN NoProc ELSE owner
  /\ asked' = (asked /\ owner \notin dead)

writeConfig(n, r) == name' = n /\ restarts' = r /\ file' = [name |-> n, restarts |-> r]

\* checkConfig: a file with an empty value is replaced by the defaults.
readConfig == IF file.name = "" THEN Defaults ELSE file

-----------------------------------------------------------------------------
\* initForm runs before readConfig, with the default name: it guards.
Start ==
  /\ ~on
  /\ on' = TRUE /\ guarding' = TRUE
  /\ count' = 0 /\ ok' = FALSE
  /\ timer' = Interval /\ launches' = {}
  /\ writeConfig(readConfig.name, readConfig.restarts)
  /\ UNCHANGED appVars

\* closeAll, or livetool dies: timers and socket end, the application stays.
Exit ==
  /\ "exit" \in Faults
  /\ on
  /\ on' = FALSE /\ guarding' = FALSE
  /\ count' = 0 /\ ok' = FALSE
  /\ timer' = Off /\ launches' = {}
  /\ answered' = FALSE
  /\ UNCHANGED <<configVars, proc, owner, asked, kill, spared>>

\* Mutant of Misses: a silent beat is not counted.
MissesUncounted == IF ok THEN 0 ELSE count

Misses == IF ok THEN 0 ELSE count + 1

\* The application, once it is up, holds the segment named after it.
SegmentExists == HoldsSegment /\ name = App /\ \E p \in Running : proc[p] # "starting"

(* killApp is called when the segment exists: not for an application that  *)
(* still starts, nor under the empty name.                                 *)
killApp ==
  /\ kill' = IF SegmentExists THEN KillTime ELSE kill
  /\ spared' = (spared \/ (Running # {} /\ ~SegmentExists))

\* Mutant of GiveUp: the launch comes before a slow kill is over.
GiveUpHastily ==
  /\ timer' = Off
  /\ killApp
  /\ launches' = launches \cup {1}

\* Mutant of GiveUp: the timer runs on.
GiveUpUnstopped ==
  /\ timer' = Interval
  /\ killApp
  /\ launches' = launches \cup {3}

GiveUp ==
  /\ timer' = Off
  /\ killApp
  /\ launches' = launches \cup {3}

sendHearData ==
  /\ timer = 0
  /\ asked' = (owner # NoProc)
  /\ count' = Misses
  /\ ok' = FALSE
  /\ \/ count' >= TimeoutCount /\ GiveUp
     \/ count' < TimeoutCount /\ timer' = Interval /\ UNCHANGED <<launches, kill, spared>>
  /\ UNCHANGED <<on, guarding, configVars, proc, owner, answered>>

\* A process more that starts, or none: QProcess::start is not asked how it went.
Launch ==
  \/ \E p \in Proc \ Running : proc' = [proc EXCEPT ![p] = "starting"]
  \/ ("launchFail" \in Faults \/ Running = Proc) /\ UNCHANGED proc

\* Mutant of startApp: the timer is not started again.
startAppOnce ==
  /\ 0 \in launches
  /\ launches' = launches \ {0}
  /\ count' = 0
  /\ IF ~guarding THEN UNCHANGED <<ok, timer, configVars, proc>>
     ELSE /\ IF name = App THEN Launch ELSE UNCHANGED proc
          /\ ok' = TRUE
          /\ timer' = timer
          /\ writeConfig(name, IF restarts < MaxReStartCount THEN restarts + 1 ELSE restarts)
  /\ UNCHANGED <<on, guarding, owner, asked, answered, kill, spared>>

(* startApp does nothing but reset the counter when the user has paused.   *)
startApp ==
  /\ 0 \in launches
  /\ launches' = launches \ {0}
  /\ count' = 0
  /\ IF ~guarding THEN UNCHANGED <<ok, timer, configVars, proc>>
     ELSE /\ IF name = App THEN Launch ELSE UNCHANGED proc
          /\ ok' = TRUE
          /\ timer' = Interval
          /\ writeConfig(name, IF restarts < MaxReStartCount THEN restarts + 1 ELSE restarts)
  /\ UNCHANGED <<on, guarding, owner, asked, answered, kill, spared>>

\* readData empties the buffer; any answer counts, whoever sent it and when.
readData ==
  /\ on /\ answered
  /\ answered' = FALSE
  /\ count' = 0 /\ ok' = TRUE
  /\ UNCHANGED <<on, guarding, timer, launches, configVars, proc, owner, asked, kill, spared>>

(* on_btnOk_clicked takes the name first and refuses the empty one after;  *)
(* a name that is not refused is written.                                  *)
btnOk(n) ==
  /\ on
  /\ IF n = "" THEN name' = n /\ UNCHANGED <<restarts, file>>
     ELSE writeConfig(n, restarts)
  /\ UNCHANGED <<toolVars, appVars>>

\* Mutant of btnStart: the counter is not reset.
btnStartKeepsCount ==
  /\ on
  /\ guarding' = ~guarding
  /\ timer' = IF guarding THEN Off ELSE Interval
  /\ UNCHANGED <<on, count, ok, launches, configVars, appVars>>

\* on_btnStart_clicked: pause or begin.
btnStart ==
  /\ on
  /\ count' = 0
  /\ guarding' = ~guarding
  /\ timer' = IF guarding THEN Off ELSE Interval
  /\ UNCHANGED <<on, ok, launches, configVars, appVars>>

btnReset ==
  /\ on
  /\ writeConfig(name, 0)
  /\ UNCHANGED <<toolVars, appVars>>

-----------------------------------------------------------------------------
\* The application answers every "hello" it finds.
Answer ==
  /\ asked /\ proc[owner] = "up"
  /\ asked' = FALSE
  /\ answered' = on
  /\ UNCHANGED <<toolVars, configVars, proc, owner, kill, spared>>

\* It is up, and takes the port if the port is free.
AppStarts(p) ==
  /\ proc[p] = "starting"
  /\ proc' = [proc EXCEPT ![p] = "up"]
  /\ owner' = IF owner = NoProc THEN p ELSE owner
  /\ UNCHANGED <<toolVars, configVars, asked, answered, kill, spared>>

AppEnds(p) ==
  /\ "crash" \in Faults /\ p \in Running
  /\ Die({p})
  /\ spared' = (spared /\ Running # {p})
  /\ UNCHANGED <<toolVars, configVars, answered, kill>>

AppHangs(p) ==
  /\ "hang" \in Faults /\ proc[p] = "up"
  /\ proc' = [proc EXCEPT ![p] = "hung"]
  /\ UNCHANGED <<toolVars, configVars, owner, asked, answered, kill, spared>>

AppRecovers(p) ==
  /\ "recover" \in Faults /\ proc[p] = "hung"
  /\ proc' = [proc EXCEPT ![p] = "up"]
  /\ UNCHANGED <<toolVars, configVars, owner, asked, answered, kill, spared>>

TaskkillEnds ==
  /\ kill # Off
  /\ Die(Running)
  /\ kill' = Off /\ spared' = FALSE
  /\ UNCHANGED <<toolVars, configVars, answered>>

\* A second passes when nothing is due.
Tick ==
  /\ timer # 0 /\ 0 \notin launches /\ kill # 0
  /\ timer' = IF timer = Off THEN Off ELSE timer - 1
  /\ launches' = {t - 1 : t \in launches}
  /\ kill' = IF kill = Off THEN Off ELSE kill - 1
  /\ UNCHANGED <<on, guarding, count, ok, configVars, proc, owner, asked, answered, spared>>

Init ==
  /\ on = FALSE /\ guarding = FALSE
  /\ count = 0 /\ ok = FALSE
  /\ timer = Off /\ launches = {}
  /\ name = App /\ restarts = 0 /\ file = Defaults
  /\ proc = [p \in Proc |-> "none"]
  /\ owner = NoProc
  /\ asked = FALSE /\ answered = FALSE
  /\ kill = Off /\ spared = FALSE

ToolNext ==
  \/ Start
  \/ Exit
  \/ sendHearData
  \/ startApp
  \/ readData
  \/ \E n \in Names : btnOk(n)
  \/ btnStart
  \/ btnReset

AppNext ==
  \/ Answer
  \/ TaskkillEnds
  \/ \E p \in Proc : AppStarts(p) \/ AppEnds(p) \/ AppHangs(p) \/ AppRecovers(p)

Next == ToolNext \/ AppNext \/ Tick

Spec == Init /\ [][Next]_vars

(* Time passes, timers fire, a taskkill ends.  Nothing is assumed of users *)
(* and of the application.                                                 *)
Fairness ==
  /\ WF_vars(Tick)
  /\ WF_vars(sendHearData)
  /\ WF_vars(startApp)
  /\ WF_vars(TaskkillEnds)

FairSpec == Spec /\ Fairness

-----------------------------------------------------------------------------
FlagTypeOK ==
  /\ on \in BOOLEAN /\ guarding \in BOOLEAN /\ ok \in BOOLEAN
  /\ asked \in BOOLEAN /\ answered \in BOOLEAN /\ spared \in BOOLEAN

ClockTypeOK ==
  /\ count \in 0..TimeoutCount
  /\ timer \in {Off} \cup 0..Interval
  /\ launches \subseteq 0..3
  /\ kill \in {Off} \cup 0..KillTime

ConfigTypeOK ==
  /\ name \in Names \cup {App} /\ restarts \in 0..MaxReStartCount
  /\ file \in [name : Names \cup {App}, restarts : 0..MaxReStartCount]

ProcTypeOK ==
  /\ proc \in [Proc -> {"none", "starting", "up", "hung"}]
  /\ owner \in Running \cup {NoProc}

ToolTypeOK == FlagTypeOK /\ ClockTypeOK /\ ConfigTypeOK /\ ProcTypeOK

(* While the button says it guards it asks or is about to launch; while it *)
(* says paused it asks nothing, however the clicks fall in a recovery.     *)
GuardsWhenItSays ==
  on => IF guarding THEN timer # Off \/ launches # {} ELSE timer = Off

(* Clicks on the button during a recovery, which start the timer while a   *)
(* launch is pending, never lead to a second launch pending.               *)
OneLaunchPending == Cardinality(launches) <= 1

(* The launch, which does not look at the process list, never puts a       *)
(* process beside one that runs: the kill is over by then.  But a recovery *)
(* kills nothing under the empty name, nor an application that has not     *)
(* created its segment yet: its launch can put a second beside the first.  *)
OneApplication == ~spared => \A p, q \in Running : p = q

(* An application that ended is launched again, whatever is clicked, and   *)
(* again so long as launches fail, while livetool is neither paused nor    *)
(* renamed.                                                                *)
DeadRelaunched ==
  <>[](on /\ guarding /\ name = App /\ Running = {}) => []<><<startApp>>_vars
=============================================================================
