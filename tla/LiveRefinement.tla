--------------------------- MODULE LiveRefinement ---------------------------
(* The guardian of LiveSystem keeps the promises of Watchdog.              *)
EXTENDS LiveSystem

mode ==
  CASE ~Guarding -> "off"
    [] Guarding /\ heart -> "watching"
    [] Guarding /\ ~heart /\ "startApp" \in shots -> "recovering"
    [] Guarding /\ ~heart /\ "startApp" \notin shots -> "launching"

misses == IF ~Guarding \/ ok THEN 0 ELSE count + 1

Guardian == INSTANCE Watchdog WITH
  Limit <- TimeoutCount,
  MaxLaunches <- MaxReStartCount,
  paused <- ~keeplive,
  launches <- reStartCount,
  journal <- ini

(* The guardian asks, counts, gives up, launches and journals as Watchdog  *)
(* says: a kill needs the limit passed and no pause, an answer counts only *)
(* while the timer runs, every launch is journalled.                       *)
ImplementsWatchdog == Guardian!WatchSafety

(* And it keeps moving: it comes back from every recovery, it never stops  *)
(* asking while it is in force.                                            *)
ImplementsFairWatchdog == Guardian!WatchSpec
=============================================================================
