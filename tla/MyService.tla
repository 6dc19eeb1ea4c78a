------------------------------ MODULE MyService -----------------------------
(***************************************************************************)
(* The system service around the guardian: MyService creates and deletes   *)
(* the KeepLive object, at the service controller's request or at the      *)
(* guarded application's own, and pauses it.                               *)
(***************************************************************************)
EXTENDS KeepLive

\* The controller (or the boot) starts the service process: MyService::start.
ServiceStart ==
  /\ service = "down"
  /\ Construct
  /\ UNCHANGED <<bound, taskkill, toApp, toSvc, sock>>

\* The controller stops the service: MyService::stop, then quit.
ServiceStop ==
  /\ "controller" \in Faults
  /\ service # "down"
  /\ IF Guarding THEN Destroy ELSE Forget /\ UNCHANGED <<proc, bound, taskkill, toApp>>
  /\ service' = "down"

\* The service process dies: no destructor runs.
ServiceCrash ==
  /\ "serviceCrash" \in Faults
  /\ service # "down"
  /\ service' = "down"
  /\ Forget
  /\ UNCHANGED <<proc, bound, taskkill, toApp>>

(* The service process dies inside startApp, called by the constructor or  *)
(* by the single shot: the application is launched and no file is written. *)
ServiceCrashInLaunch ==
  /\ "serviceCrash" \in Faults
  /\ service = "down" \/ ("startApp" \in shots /\ "killOther" \notin shots)
  /\ FALSE \in IsExistProcess /\ AppInstalled
  /\ startDetached
  /\ service' = "down"
  /\ Forget
  /\ UNCHANGED <<bound, taskkill, toApp>>

SetKeepLive(on) ==
  /\ "controller" \in Faults
  /\ Guarding
  /\ keeplive' = on
  /\ UNCHANGED <<service, count, ok, packetID, heart, shots, configVars, hostVars>>

\* The controller pauses and resumes: MyService::pause and resume.
ServicePause == SetKeepLive(FALSE)
ServiceResume == SetKeepLive(TRUE)

-----------------------------------------------------------------------------
(* readyRead takes a remote command: send_cmdResponse emits serviceCmd,    *)
(* MyService's slot obeys at once, then the answer goes back.              *)

\* Mutant of Obey: only pausing is handled, resuming is forgotten.
ObeyPauseOnly(m) ==
  keeplive' = IF m.object = "pause" /\ m.value THEN FALSE ELSE keeplive

\* What the slot makes of a command that leaves the guardian in place.
Obey(m) == keeplive' = IF m.object = "pause" THEN ~m.value ELSE keeplive

Deletes(m) == m.object = "start" /\ ~m.value

NextIsCommand ==
  /\ Guarding
  /\ toSvc # <<>> /\ Head(toSvc).type = "cmd"

ReadCommand ==
  /\ NextIsCommand
  /\ LET m == Head(toSvc) IN
       /\ ~Deletes(m)
       /\ Obey(m)
       /\ toApp' = Inbox(Ack(m.object, m.value, sock))
  /\ toSvc' = Tail(toSvc)
  /\ UNCHANGED <<service, count, ok, packetID, heart, shots, configVars>>
  /\ UNCHANGED <<proc, bound, taskkill, sock>>

(* A remote "start FALSE" deletes the KeepLive object inside its own       *)
(* readyRead callback, which then uses the deleted socket: the process     *)
(* dies, or lives on without a guardian.  No answer leaves either way.     *)
ReadRemoteStop ==
  /\ NextIsCommand
  /\ Deletes(Head(toSvc))
  /\ Destroy
  /\ service' \in {"stopped", "down"}
=============================================================================
