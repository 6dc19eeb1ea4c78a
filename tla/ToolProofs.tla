----------------------------- MODULE ToolProofs -----------------------------
(***************************************************************************)
(* Safety of livetool against clicks at any moment, for any number of      *)
(* processes, any names, limit and faults.                                 *)
(***************************************************************************)
EXTENDS LiveTool, FiniteSetTheorems, TLAPS

-----------------------------------------------------------------------------
(* The inductive invariant.                                                *)

\* Without livetool nothing is scheduled.
OffIdle == ~on => ~guarding /\ timer = Off /\ launches = {}

\* A timer that runs has not reached the limit yet.
BelowLimit == timer # Off => count < TimeoutCount

\* A launch that is pending is the only one.
Alone == \A l, m \in launches : l = m

(* Where the timer runs beside a pending launch, a click has started it:   *)
(* it beats once at most before the launch and that beat gives nothing up. *)
LaunchRoom ==
  timer # Off => \A l \in launches : l <= timer + 1 /\ (timer <= l => count + 1 < TimeoutCount)

(* Whatever runs when a launch is pending is being killed, and in time.    *)
KillFirst ==
  ~spared /\ Running # {} => \A l \in launches : kill # Off /\ kill < l

ToolInv ==
  ToolTypeOK /\ OffIdle /\ BelowLimit /\ GuardsWhenItSays

\* With a limit of two beats at least.
PatientInv == ToolInv /\ Alone /\ LaunchRoom

-----------------------------------------------------------------------------
(* Processes and the configuration.                                        *)

LEMMA DieTypes ==
  ASSUME ProcTypeOK, NEW dead \in SUBSET Proc, Die(dead)
  PROVE  ProcTypeOK' /\ Running' = Running \ dead /\ asked' \in BOOLEAN
<1>1. proc' = [p \in Proc |-> IF p \in dead THEN "none" ELSE proc[p]]
  BY DEF Die
<1>2. proc' \in [Proc -> {"none", "starting", "up", "hung"}] /\ Running' = Running \ dead
  BY <1>1 DEF ProcTypeOK, Running
<1>3. owner' \in Running' \cup {NoProc} /\ asked' \in BOOLEAN
  BY <1>2, ProcAssumption DEF Die, ProcTypeOK
<1>4. QED
  BY <1>2, <1>3 DEF ProcTypeOK

LEMMA LaunchTypes ==
  ASSUME ProcTypeOK, Launch, UNCHANGED owner
  PROVE  /\ ProcTypeOK'
         /\ Running' = Running \/ \E p \in Proc : Running' = Running \cup {p}
<1>1. ASSUME NEW p \in Proc \ Running, proc' = [proc EXCEPT ![p] = "starting"]
      PROVE  ProcTypeOK' /\ Running' = Running \cup {p}
  <2>1. proc' \in [Proc -> {"none", "starting", "up", "hung"}] /\ Running' = Running \cup {p}
    BY <1>1 DEF ProcTypeOK, Running
  <2>2. QED
    BY <2>1 DEF ProcTypeOK
<1>2. CASE UNCHANGED proc
  BY <1>2 DEF ProcTypeOK, Running
<1>3. QED
  BY <1>1, <1>2 DEF Launch

\* A process that has started, hangs or recovers still runs.
LEMMA ChangeTypes ==
  ASSUME ProcTypeOK, NEW p \in Proc, AppStarts(p) \/ AppHangs(p) \/ AppRecovers(p)
  PROVE  ProcTypeOK' /\ Running' = Running
<1>1. PICK s \in {"up", "hung"} : proc' = [proc EXCEPT ![p] = s] /\ proc[p] # "none"
  BY DEF AppStarts, AppHangs, AppRecovers
<1>2. proc' \in [Proc -> {"none", "starting", "up", "hung"}] /\ Running' = Running
  BY <1>1 DEF ProcTypeOK, Running
<1>3. owner' = owner \/ owner' = p
  BY DEF AppStarts, AppHangs, AppRecovers
<1>4. p \in Running
  BY <1>1 DEF Running
<1>5. QED
  BY <1>2, <1>3, <1>4 DEF ProcTypeOK

LEMMA ProcKept ==
  ASSUME ProcTypeOK, UNCHANGED <<proc, owner>>
  PROVE  ProcTypeOK' /\ Running' = Running
BY DEF ProcTypeOK, Running

LEMMA WriteTypes ==
  ASSUME NEW n \in Names \cup {App}, NEW r \in 0..MaxReStartCount, writeConfig(n, r)
  PROVE  ConfigTypeOK'
BY DEF writeConfig, ConfigTypeOK

LEMMA GiveUpTypes ==
  ASSUME FlagTypeOK, ClockTypeOK, GiveUp
  PROVE  /\ timer' = Off /\ launches' = launches \cup {3} /\ launches' \subseteq 0..3
         /\ kill' \in {Off} \cup 0..KillTime /\ spared' \in BOOLEAN
         /\ spared' = (spared \/ (Running # {} /\ ~SegmentExists))
         /\ SegmentExists => kill' = KillTime
<1>1. kill' \in {Off} \cup 0..KillTime
  BY BoundAssumption DEF GiveUp, killApp, ClockTypeOK
<1>2. spared' \in BOOLEAN /\ spared' = (spared \/ (Running # {} /\ ~SegmentExists))
  BY DEF GiveUp, killApp, FlagTypeOK
<1>3. QED
  BY <1>1, <1>2 DEF GiveUp, killApp, ClockTypeOK

LEMMA InitTypes == Init => ToolTypeOK /\ Running = {}
<1> SUFFICES ASSUME Init PROVE ToolTypeOK /\ Running = {}
  OBVIOUS
<1>1. Running = {}
  BY DEF Init, Running
<1>2. FlagTypeOK
  BY DEF Init, FlagTypeOK
<1>3. ClockTypeOK
  BY LimitAssumption DEF Init, ClockTypeOK
<1>4. ConfigTypeOK
  BY BoundAssumption DEF Init, ConfigTypeOK, Defaults
<1>5. ProcTypeOK
  BY DEF Init, ProcTypeOK
<1>6. QED
  BY <1>1, <1>2, <1>3, <1>4, <1>5 DEF ToolTypeOK

-----------------------------------------------------------------------------
(* Every step keeps the types, and what relates the timer to the limit and *)
(* to the button.                                                          *)
LEMMA NextKeepsTool == ToolInv /\ [Next]_vars => ToolInv'
<1> SUFFICES ASSUME ToolInv, [Next]_vars PROVE ToolInv'
  OBVIOUS
<1> USE LimitAssumption, BoundAssumption
<1> USE DEF ToolInv, ToolTypeOK, toolVars, configVars, appVars
<1> DEFINE Clocked == OffIdle' /\ BelowLimit' /\ GuardsWhenItSays'
<1>1. ASSUME Start PROVE ToolInv'
  <2>1. readConfig.name \in Names \cup {App} /\ readConfig.restarts \in 0..MaxReStartCount
    <3>1. CASE file.name = ""
      <4>1. readConfig = Defaults
        BY <3>1 DEF readConfig
      <4>2. QED
        BY <4>1 DEF Defaults
    <3>2. CASE file.name # ""
      <4>1. readConfig = file
        BY <3>2 DEF readConfig
      <4>2. QED
        BY <4>1 DEF ConfigTypeOK
    <3>3. QED
      BY <3>1, <3>2
  <2>2. ConfigTypeOK'
    BY <1>1, <2>1, WriteTypes DEF Start
  <2>3. FlagTypeOK'
    BY <1>1 DEF Start, FlagTypeOK
  <2>4. ClockTypeOK'
    BY <1>1 DEF Start, ClockTypeOK, Interval
  <2>5. ProcTypeOK'
    BY <1>1, ProcKept DEF Start
  <2>6. Clocked
    BY <1>1 DEF Start, OffIdle, BelowLimit, GuardsWhenItSays, Off, Interval
  <2>7. QED
    BY <2>2, <2>3, <2>4, <2>5, <2>6
<1>2. ASSUME Exit PROVE ToolInv'
  <2>1. FlagTypeOK'
    BY <1>2 DEF Exit, FlagTypeOK
  <2>2. ClockTypeOK'
    BY <1>2 DEF Exit, ClockTypeOK
  <2>3. ConfigTypeOK' /\ ProcTypeOK'
    BY <1>2, ProcKept DEF Exit, ConfigTypeOK
  <2>4. Clocked
    BY <1>2 DEF Exit, OffIdle, BelowLimit, GuardsWhenItSays
  <2>5. QED
    BY <2>1, <2>2, <2>3, <2>4
<1>3. ASSUME sendHearData PROVE ToolInv'
  <2>1. timer = 0 /\ count < TimeoutCount /\ on
    BY <1>3 DEF sendHearData, Off, OffIdle, BelowLimit
  <2>2. guarding
    BY <2>1 DEF GuardsWhenItSays, Off
  <2>3. count' \in 0..TimeoutCount
    BY <1>3, <2>1 DEF sendHearData, Misses, ClockTypeOK
  <2>4. ConfigTypeOK' /\ ProcTypeOK' /\ UNCHANGED <<on, guarding>>
    BY <1>3, ProcKept DEF sendHearData, ConfigTypeOK
  <2>5. ASSUME GiveUp PROVE ToolInv'
    <3>1. ClockTypeOK'
      BY <2>3, <2>5, GiveUpTypes DEF ClockTypeOK
    <3>2. FlagTypeOK'
      BY <1>3, <2>5, GiveUpTypes DEF sendHearData, FlagTypeOK
    <3>3. Clocked
      BY <2>1, <2>2, <2>4, <2>5, GiveUpTypes DEF OffIdle, BelowLimit, GuardsWhenItSays
    <3>4. QED
      BY <2>4, <3>1, <3>2, <3>3
  <2>6. ASSUME count' < TimeoutCount, timer' = Interval, UNCHANGED <<launches, kill, spared>>
        PROVE  ToolInv'
    <3>1. ClockTypeOK'
      BY <2>3, <2>6 DEF ClockTypeOK, Interval
    <3>2. FlagTypeOK'
      BY <1>3, <2>6 DEF sendHearData, FlagTypeOK
    <3>3. Clocked
      BY <2>1, <2>2, <2>4, <2>6 DEF OffIdle, BelowLimit, GuardsWhenItSays, Off, Interval
    <3>4. QED
      BY <2>4, <3>1, <3>2, <3>3
  <2>7. QED
    BY <1>3, <2>5, <2>6 DEF sendHearData
<1>4. ASSUME startApp PROVE ToolInv'
  <2>1. on
    BY <1>4 DEF startApp, OffIdle
  <2>2. FlagTypeOK' /\ UNCHANGED <<on, guarding>>
    BY <1>4 DEF startApp, FlagTypeOK
  <2>3. ClockTypeOK'
    BY <1>4 DEF startApp, ClockTypeOK, Interval
  <2>4. ProcTypeOK'
    BY <1>4, LaunchTypes, ProcKept DEF startApp
  <2>5. ConfigTypeOK'
    <3>1. CASE ~guarding
      BY <1>4, <3>1 DEF startApp, ConfigTypeOK
    <3>2. CASE guarding
      <4>1. (IF restarts < MaxReStartCount THEN restarts + 1 ELSE restarts)
              \in 0..MaxReStartCount
        BY DEF ConfigTypeOK
      <4>2. writeConfig(name, IF restarts < MaxReStartCount THEN restarts + 1 ELSE restarts)
        BY <1>4, <3>2 DEF startApp
      <4>3. name \in Names \cup {App}
        BY DEF ConfigTypeOK
      <4>4. QED
        BY <4>1, <4>2, <4>3, WriteTypes
    <3>3. QED
      BY <3>1, <3>2
  <2>6. Clocked
    <3>1. CASE guarding
      BY <1>4, <2>1, <2>2, <3>1 DEF startApp, OffIdle, BelowLimit, GuardsWhenItSays, Off, Interval
    <3>2. CASE ~guarding
      BY <1>4, <2>1, <2>2, <3>2 DEF startApp, OffIdle, BelowLimit, GuardsWhenItSays
    <3>3. QED
      BY <3>1, <3>2
  <2>7. QED
    BY <2>2, <2>3, <2>4, <2>5, <2>6
<1>5. ASSUME readData PROVE ToolInv'
  <2>1. FlagTypeOK'
    BY <1>5 DEF readData, FlagTypeOK
  <2>2. ClockTypeOK'
    BY <1>5 DEF readData, ClockTypeOK
  <2>3. ConfigTypeOK' /\ ProcTypeOK'
    BY <1>5, ProcKept DEF readData, ConfigTypeOK
  <2>4. Clocked
    BY <1>5 DEF readData, OffIdle, BelowLimit, GuardsWhenItSays
  <2>5. QED
    BY <2>1, <2>2, <2>3, <2>4
<1>6. ASSUME NEW n \in Names, btnOk(n) PROVE ToolInv'
  <2>1. ConfigTypeOK'
    BY <1>6, WriteTypes DEF btnOk, ConfigTypeOK
  <2>2. ProcTypeOK'
    BY <1>6, ProcKept DEF btnOk
  <2>3. FlagTypeOK' /\ ClockTypeOK'
    BY <1>6 DEF btnOk, FlagTypeOK, ClockTypeOK
  <2>4. Clocked
    BY <1>6 DEF btnOk, OffIdle, BelowLimit, GuardsWhenItSays
  <2>5. QED
    BY <2>1, <2>2, <2>3, <2>4
<1>7. ASSUME btnStart PROVE ToolInv'
  <2>1. FlagTypeOK'
    BY <1>7 DEF btnStart, FlagTypeOK
  <2>2. ClockTypeOK'
    BY <1>7 DEF btnStart, ClockTypeOK, Interval
  <2>3. ConfigTypeOK' /\ ProcTypeOK'
    BY <1>7, ProcKept DEF btnStart, ConfigTypeOK
  <2>4. Clocked
    <3>1. CASE guarding
      BY <1>7, <3>1 DEF btnStart, OffIdle, BelowLimit, GuardsWhenItSays
    <3>2. CASE ~guarding
      <4>1. guarding' = TRUE
        BY <1>7, <3>2 DEF btnStart
      <4>2. timer' = Interval /\ on' /\ count' = 0
        BY <1>7, <3>2 DEF btnStart
      <4>3. QED
        BY <4>1, <4>2 DEF OffIdle, BelowLimit, GuardsWhenItSays, Off, Interval
    <3>3. QED
      BY <3>1, <3>2
  <2>5. QED
    BY <2>1, <2>2, <2>3, <2>4
<1>8. ASSUME btnReset PROVE ToolInv'
  <2>1. ConfigTypeOK'
    BY <1>8, WriteTypes DEF btnReset, ConfigTypeOK
  <2>2. ProcTypeOK'
    BY <1>8, ProcKept DEF btnReset
  <2>3. FlagTypeOK' /\ ClockTypeOK'
    BY <1>8 DEF btnReset, FlagTypeOK, ClockTypeOK
  <2>4. Clocked
    BY <1>8 DEF btnReset, OffIdle, BelowLimit, GuardsWhenItSays
  <2>5. QED
    BY <2>1, <2>2, <2>3, <2>4
<1>9. ASSUME UNCHANGED <<toolVars, configVars, kill>>, ProcTypeOK',
             asked' \in BOOLEAN, answered' \in BOOLEAN, spared' \in BOOLEAN
      PROVE  ToolInv'
  <2>1. FlagTypeOK' /\ ClockTypeOK' /\ ConfigTypeOK'
    BY <1>9 DEF FlagTypeOK, ClockTypeOK, ConfigTypeOK
  <2>2. Clocked
    BY <1>9 DEF OffIdle, BelowLimit, GuardsWhenItSays
  <2>3. QED
    BY <1>9, <2>1, <2>2
<1>10. ASSUME Answer PROVE ToolInv'
  BY <1>9, <1>10, ProcKept DEF Answer, FlagTypeOK
<1>11. ASSUME NEW p \in Proc, AppEnds(p) PROVE ToolInv'
  <2>1. ProcTypeOK' /\ asked' \in BOOLEAN
    BY <1>11, DieTypes DEF AppEnds
  <2>2. QED
    BY <1>9, <1>11, <2>1 DEF AppEnds, FlagTypeOK
<1>12. ASSUME NEW p \in Proc, AppStarts(p) \/ AppHangs(p) \/ AppRecovers(p) PROVE ToolInv'
  BY <1>9, <1>12, ChangeTypes DEF AppStarts, AppHangs, AppRecovers, FlagTypeOK
<1>13. ASSUME TaskkillEnds PROVE ToolInv'
  <2>1. Running \in SUBSET Proc
    BY DEF Running
  <2>2. ProcTypeOK' /\ asked' \in BOOLEAN
    BY <1>13, <2>1, DieTypes DEF TaskkillEnds
  <2>3. FlagTypeOK' /\ ClockTypeOK'
    BY <1>13, <2>2 DEF TaskkillEnds, FlagTypeOK, ClockTypeOK
  <2>4. ConfigTypeOK'
    BY <1>13 DEF TaskkillEnds, ConfigTypeOK
  <2>5. Clocked
    BY <1>13 DEF TaskkillEnds, OffIdle, BelowLimit, GuardsWhenItSays
  <2>6. QED
    BY <2>2, <2>3, <2>4, <2>5
<1>14. ASSUME Tick PROVE ToolInv'
  <2>1. launches' \subseteq 0..3 /\ (launches = {} <=> launches' = {})
    BY <1>14 DEF Tick, ClockTypeOK
  <2>2. kill' \in {Off} \cup 0..KillTime
    BY <1>14 DEF Tick, ClockTypeOK, Off
  <2>3. timer' \in {Off} \cup 0..Interval /\ (timer = Off <=> timer' = Off)
    BY <1>14 DEF Tick, ClockTypeOK, Off, Interval
  <2>4. UNCHANGED <<on, guarding, count, ok, configVars, proc, owner, asked, answered, spared>>
    BY <1>14 DEF Tick
  <2>5. FlagTypeOK' /\ ConfigTypeOK' /\ ProcTypeOK'
    BY <2>4, ProcKept DEF FlagTypeOK, ConfigTypeOK
  <2>6. ClockTypeOK'
    BY <2>1, <2>2, <2>3, <2>4 DEF ClockTypeOK
  <2>7. Clocked
    BY <2>1, <2>3, <2>4 DEF OffIdle, BelowLimit, GuardsWhenItSays
  <2>8. QED
    BY <2>5, <2>6, <2>7
<1>15. CASE UNCHANGED vars
  BY <1>9, <1>15, ProcKept DEF vars, FlagTypeOK
<1>16. QED
  BY <1>1, <1>2, <1>3, <1>4, <1>5, <1>6, <1>7, <1>8, <1>10, <1>11, <1>12, <1>13, <1>14, <1>15
  DEF Next, ToolNext, AppNext

LEMMA ToolInvariant == Spec => []ToolInv
<1>1. Init => ToolInv
  BY InitTypes DEF Init, ToolInv, OffIdle, BelowLimit, GuardsWhenItSays, Off
<1>2. QED
  BY <1>1, NextKeepsTool, PTL DEF Spec

-----------------------------------------------------------------------------
(* One launch pending, when a single beat gives nothing up.                *)
LEMMA NextKeepsRoom ==
  ASSUME TimeoutCount > 1
  PROVE  ToolInv /\ Alone /\ LaunchRoom /\ [Next]_vars => Alone' /\ LaunchRoom'
<1> SUFFICES ASSUME ToolInv, Alone, LaunchRoom, [Next]_vars
             PROVE  Alone' /\ LaunchRoom'
  OBVIOUS
<1> USE LimitAssumption
<1> USE DEF Alone, LaunchRoom
<1>1. launches \subseteq 0..3 /\ timer \in {Off} \cup 0..Interval /\ count \in 0..TimeoutCount
  BY DEF ToolInv, ToolTypeOK, ClockTypeOK
<1>2. ASSUME launches' = {} PROVE Alone' /\ LaunchRoom'
  BY <1>2
<1>3. ASSUME UNCHANGED <<timer, launches>>, count' = count \/ count' = 0
      PROVE  Alone' /\ LaunchRoom'
  BY <1>1, <1>3
<1>4. ASSUME sendHearData PROVE Alone' /\ LaunchRoom'
  <2>1. timer = 0 /\ \A l \in launches : l <= 1 /\ count + 1 < TimeoutCount
    BY <1>1, <1>4 DEF sendHearData, Off
  <2>2. count' = Misses /\ count' \in 0..count + 1
    BY <1>1, <1>4 DEF sendHearData, Misses
  <2>3. CASE count' >= TimeoutCount /\ GiveUp
    <3>1. launches = {}
      BY <1>1, <2>1, <2>2, <2>3
    <3>2. QED
      BY <2>3, <3>1 DEF GiveUp
  <2>4. CASE timer' = Interval /\ UNCHANGED launches
    BY <1>1, <2>1, <2>4 DEF Interval
  <2>5. QED
    BY <1>4, <2>3, <2>4 DEF sendHearData
<1>5. ASSUME startApp PROVE Alone' /\ LaunchRoom'
  BY <1>2, <1>5 DEF startApp
<1>6. ASSUME btnStart PROVE Alone' /\ LaunchRoom'
  BY <1>1, <1>6 DEF btnStart, Interval, Off
<1>7. ASSUME Tick PROVE Alone' /\ LaunchRoom'
  BY <1>1, <1>7 DEF Tick, Off, Interval
<1>8. QED
  BY <1>2, <1>3, <1>4, <1>5, <1>6, <1>7
  DEF Next, ToolNext, AppNext, vars, toolVars, Start, Exit, readData, btnOk, btnReset, Answer,
      AppStarts, AppEnds, AppHangs, AppRecovers, TaskkillEnds

-----------------------------------------------------------------------------
(* One application, when taskkill finds it and is faster than the launch.  *)
LEMMA NextKeepsOne ==
  ASSUME TimeoutCount > 1, KillTime < 3
  PROVE  PatientInv /\ KillFirst /\ OneApplication /\ [Next]_vars
           => KillFirst' /\ OneApplication'
<1> SUFFICES ASSUME PatientInv, KillFirst, OneApplication, [Next]_vars
             PROVE  KillFirst' /\ OneApplication'
  OBVIOUS
<1>1. /\ launches \subseteq 0..3 /\ kill \in {Off} \cup 0..KillTime
      /\ ProcTypeOK /\ ToolTypeOK
  BY DEF PatientInv, ToolInv, ToolTypeOK, ClockTypeOK
<1>2. ASSUME Running' \subseteq Running, UNCHANGED <<launches, kill, spared>>
      PROVE  KillFirst' /\ OneApplication'
  BY <1>2 DEF KillFirst, OneApplication
<1>3. ASSUME launches' = {}, UNCHANGED <<proc, spared>>
      PROVE  KillFirst' /\ OneApplication'
  BY <1>3 DEF KillFirst, OneApplication, Running
<1>4. ASSUME sendHearData PROVE KillFirst' /\ OneApplication'
  <2>1. Running' = Running
    BY <1>4 DEF sendHearData, Running
  <2>2. CASE count' >= TimeoutCount /\ GiveUp
    <3>1. launches = {}
      <4>1. timer = 0 /\ \A l \in launches : count + 1 < TimeoutCount
        BY <1>1, <1>4 DEF sendHearData, PatientInv, LaunchRoom, Off
      <4>2. count' \in 0..count + 1 /\ count \in Nat
        BY <1>1, <1>4 DEF sendHearData, Misses, ToolTypeOK, ClockTypeOK
      <4>3. QED
        BY <2>2, <4>1, <4>2, LimitAssumption
    <3>2. launches' = {3}
      BY <2>2, <3>1 DEF GiveUp
    <3>3. ~spared' /\ Running # {} => kill' = KillTime
      BY <2>2 DEF GiveUp, killApp
    <3>4. ~spared' => ~spared
      BY <2>2 DEF GiveUp, killApp
    <3>5. QED
      BY <2>1, <3>2, <3>3, <3>4, BoundAssumption DEF KillFirst, OneApplication, Off
  <2>3. CASE UNCHANGED <<launches, kill, spared>>
    BY <1>2, <2>1, <2>3
  <2>4. QED
    BY <1>4, <2>2, <2>3 DEF sendHearData
<1>5. ASSUME startApp PROVE KillFirst' /\ OneApplication'
  <2>1. 0 \in launches /\ launches' = {} /\ spared' = spared
    BY <1>5 DEF startApp, PatientInv, Alone
  <2>2. ~spared => Running = {}
    BY <1>1, <2>1 DEF KillFirst, Off
  <2>3. CASE UNCHANGED proc
    BY <1>3, <2>1, <2>3
  <2>4. CASE Launch
    <3>1. Running' = Running \/ \E p \in Proc : Running' = Running \cup {p}
      BY <1>1, <1>5, <2>4, LaunchTypes DEF startApp
    <3>2. QED
      BY <2>1, <2>2, <3>1 DEF KillFirst, OneApplication
  <2>5. QED
    BY <1>5, <2>3, <2>4 DEF startApp
<1>6. ASSUME NEW p \in Proc, AppEnds(p) PROVE KillFirst' /\ OneApplication'
  <2>1. Running' = Running \ {p} /\ UNCHANGED <<launches, kill>>
    BY <1>1, <1>6, DieTypes DEF AppEnds, toolVars
  <2>2. CASE Running = {p}
    BY <2>1, <2>2 DEF KillFirst, OneApplication
  <2>3. CASE Running # {p}
    BY <1>6, <2>1, <2>3 DEF AppEnds, KillFirst, OneApplication
  <2>4. QED
    BY <2>2, <2>3
<1>7. ASSUME NEW p \in Proc, AppStarts(p) \/ AppHangs(p) \/ AppRecovers(p)
      PROVE  KillFirst' /\ OneApplication'
  BY <1>1, <1>2, <1>7, ChangeTypes DEF AppStarts, AppHangs, AppRecovers, toolVars
<1>8. ASSUME TaskkillEnds PROVE KillFirst' /\ OneApplication'
  <2>1. Running \in SUBSET Proc
    BY DEF Running
  <2>2. Running' = {}
    BY <1>1, <1>8, <2>1, DieTypes DEF TaskkillEnds
  <2>3. QED
    BY <2>2 DEF KillFirst, OneApplication
<1>9. ASSUME Tick PROVE KillFirst' /\ OneApplication'
  <2>1. Running' = Running /\ spared' = spared
    BY <1>9 DEF Tick, Running
  <2>2. KillFirst'
    BY <1>1, <1>9, <2>1 DEF Tick, KillFirst, Off
  <2>3. QED
    BY <2>1, <2>2 DEF OneApplication
<1>10. ASSUME Start \/ Exit PROVE KillFirst' /\ OneApplication'
  BY <1>3, <1>10 DEF Start, Exit, appVars
<1>11. ASSUME UNCHANGED <<launches, proc, kill, spared>> PROVE KillFirst' /\ OneApplication'
  BY <1>2, <1>11 DEF Running
<1>12. QED
  BY <1>4, <1>5, <1>6, <1>7, <1>8, <1>9, <1>10, <1>11
  DEF Next, ToolNext, AppNext, vars, toolVars, appVars, readData, btnOk, btnStart, btnReset, Answer

-----------------------------------------------------------------------------
(* Every value the form, App and the timers hold is of its kind; in        *)
(* particular count never passes the limit (sendHearData stops the timer   *)
(* there).                                                                 *)
THEOREM ToolTypeCorrect == Spec => []ToolTypeOK
<1>1. ToolInv => ToolTypeOK
  BY DEF ToolInv
<1>2. QED
  BY <1>1, ToolInvariant, PTL

(* What the button says is what livetool does, however on_btnStart_clicked *)
(* falls between sendHearData and startApp.                                *)
THEOREM ButtonTellsTruth == Spec => []GuardsWhenItSays
<1>1. ToolInv => GuardsWhenItSays
  BY DEF ToolInv
<1>2. QED
  BY <1>1, ToolInvariant, PTL

(* A timer a click has started beats at most once before the launch that   *)
(* was pending; with a limit of two or more it starts no second recovery.  *)
THEOREM OneLaunch == ASSUME TimeoutCount > 1 PROVE Spec => []OneLaunchPending
<1>1. Init => Alone /\ LaunchRoom
  BY DEF Init, Alone, LaunchRoom
<1>2. ToolInv /\ Alone => OneLaunchPending
  <2> SUFFICES ASSUME Alone PROVE OneLaunchPending
    OBVIOUS
  <2>1. CASE launches = {}
    BY <2>1, FS_EmptySet DEF OneLaunchPending
  <2>2. ASSUME NEW l \in launches PROVE OneLaunchPending
    <3>1. launches = {l}
      BY <2>2 DEF Alone
    <3>2. QED
      BY <3>1, FS_Singleton DEF OneLaunchPending
  <2>3. QED
    BY <2>1, <2>2
<1>3. ToolInv /\ Alone /\ LaunchRoom /\ [Next]_vars => Alone' /\ LaunchRoom'
  BY NextKeepsRoom
<1>4. QED
  BY <1>1, <1>2, <1>3, ToolInvariant, PTL DEF Spec

(* startApp, which looks at no process list, puts no process beside one    *)
(* that runs, if taskkill is faster than the three seconds before the      *)
(* launch; unless a recovery has left an application alive, because the    *)
(* segment it looks for was not there or the name in force was another.    *)
THEOREM OneApplicationRuns ==
  ASSUME TimeoutCount > 1, KillTime < 3 PROVE Spec => []OneApplication
<1>1. Init => Alone /\ LaunchRoom /\ KillFirst /\ OneApplication
  BY InitTypes DEF Init, Alone, LaunchRoom, KillFirst, OneApplication
<1>2. ToolInv /\ Alone /\ LaunchRoom /\ [Next]_vars => Alone' /\ LaunchRoom'
  BY NextKeepsRoom
<1>3. ToolInv /\ Alone /\ LaunchRoom /\ KillFirst /\ OneApplication /\ [Next]_vars
        => KillFirst' /\ OneApplication'
  BY NextKeepsOne DEF PatientInv
<1>4. QED
  BY <1>1, <1>2, <1>3, ToolInvariant, PTL DEF Spec
=============================================================================
