----------------------------- MODULE LiveSystem -----------------------------
(***************************************************************************)
(* The whole system: the service, the guarded application, the machine     *)
(* under them and the users of both.                                       *)
(***************************************************************************)
EXTENDS MyService, AppKeepLive

vars == <<hostVars, guardVars, configVars, clientVars>>

Init == HostInit /\ GuardInit /\ ClientInit

(* The guardian's own steps, the service's, and the datagrams it reads.    *)
GuardStep ==
  \/ HeartTimeout
  \/ killOther
  \/ startApp
  \/ beginTimeOut
  \/ ReadReply

ServiceStep ==
  \/ ServiceStart
  \/ ServiceStop
  \/ ServiceCrash
  \/ ServiceCrashInLaunch
  \/ ServicePause
  \/ ServiceResume
  \/ ReadCommand
  \/ ReadRemoteStop

ClientStep ==
  \/ ReadHeart
  \/ ReadAck
  \/ \E object \in RemoteObject, value \in BOOLEAN : sendRemoteCMD(object, value)
  \/ \E p \in Proc :
       \/ AppStart(p)
       \/ DuplicateExit(p)
       \/ AppExit(p)
       \/ AppHang(p)
       \/ AppRecover(p)
       \/ UserOpens(p)

Next ==
  \/ GuardStep /\ UNCHANGED clientVars
  \/ ServiceStep /\ UNCHANGED clientVars
  \/ KillEnds /\ UNCHANGED <<guardVars, configVars, clientVars>>
  \/ ClientStep /\ UNCHANGED <<guardVars, configVars>>

Spec == Init /\ [][Next]_vars

(* Every event loop keeps turning: a timer that is due fires, a datagram   *)
(* that has arrived is read, a process that was launched finishes starting,*)
(* one that was signalled ends and so does a taskkill.  Nothing is assumed *)
(* of users and of faults.                                                 *)
Fairness ==
  /\ WF_vars(HeartTimeout /\ UNCHANGED clientVars)
  /\ WF_vars(killOther /\ UNCHANGED clientVars)
  /\ WF_vars(startApp /\ UNCHANGED clientVars)
  /\ WF_vars(beginTimeOut /\ UNCHANGED clientVars)
  /\ WF_vars((ReadReply \/ ReadCommand \/ ReadRemoteStop) /\ UNCHANGED clientVars)
  /\ WF_vars(TaskkillEnds /\ UNCHANGED <<guardVars, configVars, clientVars>>)
  /\ WF_vars(ServiceStart /\ UNCHANGED clientVars)
  /\ WF_vars((ReadHeart \/ ReadAck) /\ UNCHANGED <<guardVars, configVars>>)
  /\ \A p \in Proc :
       /\ WF_vars((AppStart(p) \/ DuplicateExit(p)) /\ UNCHANGED <<guardVars, configVars>>)
       /\ WF_vars(Terminates(p) /\ UNCHANGED <<guardVars, configVars, clientVars>>)

FairSpec == Spec /\ Fairness

-----------------------------------------------------------------------------
(* Safety.                                                                 *)

\* Every variable keeps to the values its declaration in the source allows.
TypeOK == HostTypeOK /\ GuardTypeOK /\ ClientTypeOK

(* A guardian is always on its way to the next heartbeat, and on one way   *)
(* only: never with its timer stopped and nothing scheduled to start it    *)
(* (initService stops it, startApp and beginTimeOutTimer restart it), and  *)
(* never with two recoveries under way.                                    *)
OneActivity ==
  Guarding =>
    IF heart THEN shots = {}
    ELSE shots \in {{"killOther", "startApp"}, {"startApp"}, {"beginTimeOut"}}

(* The restart counter survives the service: the file never goes back, and *)
(* a guardian's own counter agrees with it, across stops and crashes.      *)
RestartsRecorded == [][ini' >= ini /\ (Guarding' => reStartCount' = ini')]_vars

\* The process list the service looks at shows every process.
ExactList == Platform = "windows" \/ (Platform = "linux_arm" /\ OperateParameter)

(* The service never launches the application beside one that runs: with   *)
(* an exact process list and no user launching it there is one at most.    *)
AtMostOneInstance ==
  (ExactList /\ "open" \notin Faults) => \A p, q \in Running : p = q

\* The guardian gives the application up: it stops asking and kills it.
Recovers == Guarding /\ heart /\ Guarding' /\ ~heart'

(* What the properties above rest on: without a guardian nothing is        *)
(* scheduled, a stopped timer leaves no identifier waiting for an answer.  *)
GuardInv ==
  /\ OneActivity
  /\ ~Guarding => ~heart /\ shots = {} /\ keeplive /\ reStartCount = 0
  /\ ~heart => packetID = NoPacket
  /\ Guarding => reStartCount = ini

LiveInv == TypeOK /\ BuffersOwned /\ GuardInv /\ AtMostOneInstance

-----------------------------------------------------------------------------
(* Liveness, under FairSpec.                                               *)

\* The guard is in force, so long as the service and the pause leave it.
InForce == Guarding /\ keeplive

(* An application that owns the port and hangs does not stay: it recovers  *)
(* or its process ends (README, basic feature 1).                          *)
HungReplaced ==
  \A p \in Proc :
    (InForce /\ bound = p /\ proc[p] = "hung")
      ~> (proc[p] # "hung" \/ ~InForce)

(* An application that ended is launched again (README, basic feature 1),  *)
(* and again so long as launches fail: while the guard is in force and     *)
(* nothing runs, startApp comes back for ever.                             *)
DeadRelaunched == <>[](InForce /\ Running = {}) => []<><<startApp>>_vars

(* A guardian that stopped asking asks again: a recovery never stalls.     *)
WatchResumes == (Guarding /\ ~heart) ~> (heart \/ ~Guarding)

(* After the service came back on another port the application learns it,  *)
(* so that its commands reach the guardian again.                          *)
AddressLearned ==
  (Guarding /\ Serving) ~> (senderPort = sock \/ ~Guarding \/ ~Serving)
=============================================================================
