----------------------------- MODULE LiveHistory ----------------------------
(***************************************************************************)
(* LiveSystem with four history variables, which record what the           *)
(* properties speak of and never influence a step.                         *)
(***************************************************************************)
EXTENDS LiveSystem

VARIABLES
  silent,   \* heartbeats sent since the last answer or launch, up to TimeoutCount
  unheard,  \* the same, answers whose identifier did not come back whole left out
  old,      \* identifiers sent before the last recovery began
  lost      \* the answer to a remote command was dropped

historyVars == <<silent, unheard, old, lost>>
allVars == <<vars, historyVars>>

HistoryInit == Init /\ silent = 0 /\ unheard = 0 /\ old = {} /\ lost = FALSE

-----------------------------------------------------------------------------
\* An answer to the heartbeat that waits, as the application meant it.
Genuine(m) == m.of = packetID

\* And its identifier came back as it was sent.
Whole(m) == Echo(m.of) = m.of

Outstanding == IF packetID = NoPacket THEN {} ELSE {packetID}

\* Nobody reads what is sent to a closed socket, or to a process that is ending.
AckDropped ==
  \/ bound = NoProc
  \/ bound # NoProc /\ proc[bound] = "dying"
  \/ Len(toApp) >= BufferSize

Counted(beats) == IF beats < TimeoutCount THEN beats + 1 ELSE beats

RecordBeat ==
  /\ silent' = Counted(silent)
  /\ unheard' = Counted(unheard)
  /\ old' = IF Recovers THEN InFlight \cup Outstanding
            ELSE IF packetID = NoPacket THEN old \ {packetID'} ELSE old
  /\ UNCHANGED lost

RecordReply ==
  /\ silent' = IF Genuine(Head(toSvc)) THEN 0 ELSE silent
  /\ unheard' = IF Genuine(Head(toSvc)) /\ Whole(Head(toSvc)) THEN 0 ELSE unheard
  /\ UNCHANGED <<old, lost>>

RecordCommand ==
  /\ lost' = (lost \/ AckDropped)
  /\ UNCHANGED <<silent, unheard, old>>

RecordLaunch == silent' = 0 /\ unheard' = 0 /\ UNCHANGED <<old, lost>>

RecordOthers ==
  \/ killOther
  \/ beginTimeOut
  \/ ServiceStop
  \/ ServiceCrash
  \/ ServiceCrashInLaunch
  \/ ServicePause
  \/ ServiceResume
  \/ ReadRemoteStop

HistoryNext ==
  \/ /\ UNCHANGED clientVars
     /\ \/ HeartTimeout /\ RecordBeat
        \/ ReadReply /\ RecordReply
        \/ ReadCommand /\ RecordCommand
        \/ (startApp \/ ServiceStart) /\ RecordLaunch
        \/ RecordOthers /\ UNCHANGED historyVars
  \/ KillEnds /\ UNCHANGED <<guardVars, configVars, clientVars, historyVars>>
  \/ ClientStep /\ UNCHANGED <<guardVars, configVars, historyVars>>

HistorySpec == HistoryInit /\ [][HistoryNext]_allVars

HistoryTypeOK ==
  /\ TypeOK
  /\ silent \in 0..TimeoutCount
  /\ unheard \in 0..TimeoutCount
  /\ old \subseteq PacketID
  /\ lost \in BOOLEAN

-----------------------------------------------------------------------------
(* Safety.                                                                 *)

(* The application is given up only after TimeoutCount heartbeats in a row *)
(* that it did not answer (initService, the comment on the timeout).       *)
KillNeedsSilence == [][Recovers => silent >= TimeoutCount]_allVars

(* However wide the identifiers: the application is given up, or what is   *)
(* in its place, only after TimeoutCount heartbeats in a row for which no  *)
(* answer came back whole, counted from the last launch.  A late answer, a *)
(* pause, a resumption or a crash never shortens that.                     *)
GivenUpUnheard == [][Recovers => unheard >= TimeoutCount]_allVars

(* The answer to a heartbeat sent before a recovery is never believed      *)
(* after it, neither for the application the recovery launches nor for one *)
(* it could not end.                                                       *)
StaleReplyNeverCounts ==
  [][ReadReply /\ Answers(Head(toSvc)) => Head(toSvc).of \notin old]_allVars

\* No command about pausing, and no answer to one, is on its way.
Quiescent ==
  /\ \A i \in DOMAIN toSvc : toSvc[i].type = "cmd" => toSvc[i].object # "pause"
  /\ \A i \in DOMAIN toApp : toApp[i].type = "ack" => toApp[i].object # "pause"

(* What the application is told by getRemotePause is what the guardian     *)
(* does, once commands and answers have arrived and none was dropped, even *)
(* when the guardian replaced the application in the meantime.             *)
MirrorAgrees ==
  (Guarding /\ Serving /\ Quiescent /\ ~lost) => (remotePause = ~keeplive)
=============================================================================
