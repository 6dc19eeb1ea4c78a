------------------------------ MODULE Watchdog ------------------------------
(***************************************************************************)
(* What a guardian promises, without datagrams, identifiers, timers or     *)
(* processes: it asks, it counts what stays unanswered, it gives up only   *)
(* past the limit and never while paused, and having given up it launches, *)
(* waits and asks again.                                                   *)
(***************************************************************************)
EXTENDS Integers

CONSTANTS
  Limit,       \* unanswered questions it puts up with
  MaxLaunches  \* bound: launches are counted up to here

VARIABLES
  mode,      \* "off", "launching", "watching", "recovering"
  paused,    \* it asks but does not give up
  misses,    \* questions asked since the last answer, up to Limit + 1
  launches,  \* launches counted by this guardian
  journal    \* launches counted by all guardians

watchVars == <<mode, paused, misses, launches, journal>>

WatchInit ==
  /\ mode = "off"
  /\ paused = FALSE
  /\ misses = 0
  /\ launches = 0
  /\ journal = 0

\* A launch may be skipped, and is journalled when it is not.
Launch(counted) ==
  /\ mode' = "launching"
  /\ misses' = 0
  /\ \/ launches' = counted /\ UNCHANGED journal
     \/ /\ launches' = IF counted < MaxLaunches THEN counted + 1 ELSE counted
        /\ journal' = launches'

SwitchOn ==
  /\ mode = "off"
  /\ Launch(journal)
  /\ paused' = FALSE

SwitchOff ==
  /\ mode # "off"
  /\ mode' = "off"
  /\ paused' = FALSE
  /\ misses' = 0
  /\ launches' = 0
  /\ UNCHANGED journal

Arm ==
  /\ mode = "launching"
  /\ mode' = "watching"
  /\ UNCHANGED <<paused, misses, launches, journal>>

Ask ==
  /\ mode = "watching"
  /\ misses' = IF misses <= Limit THEN misses + 1 ELSE misses
  /\ mode' = IF misses >= Limit /\ ~paused THEN "recovering" ELSE "watching"
  /\ UNCHANGED <<paused, launches, journal>>

\* Only a guardian that asks listens to answers.
Hear ==
  /\ mode = "watching"
  /\ misses' = 0
  /\ UNCHANGED <<mode, paused, launches, journal>>

Relaunch ==
  /\ mode = "recovering"
  /\ Launch(launches)
  /\ UNCHANGED paused

Pause ==
  /\ mode # "off"
  /\ paused' \in BOOLEAN
  /\ UNCHANGED <<mode, misses, launches, journal>>

WatchNext ==
  \/ SwitchOn
  \/ SwitchOff
  \/ Arm
  \/ Ask
  \/ Hear
  \/ Relaunch
  \/ Pause

WatchSafety == WatchInit /\ [][WatchNext]_watchVars

(* Nothing obliges anyone to switch it on; once on it keeps moving.        *)
WatchFairness ==
  /\ WF_watchVars(Arm)
  /\ WF_watchVars(Ask)
  /\ WF_watchVars(Relaunch)

WatchSpec == WatchSafety /\ WatchFairness
=============================================================================
