----------------------------- MODULE ServiceLife ----------------------------
(***************************************************************************)
(* What QtService promises a service: one request at a time, announced by  *)
(* a pending status, handed to the service once, and only then confirmed.  *)
(***************************************************************************)
EXTENDS Naturals

VARIABLES
  status,   \* the status of the service, as the service knows it
  owed      \* the request announced and not yet handed over, or "none"

lifeVars == <<status, owed>>

Settled == {"running", "paused"}
Confirmed == [startPending |-> "running", pausePending |-> "paused",
              continuePending |-> "running"]

LifeInit == status = "stopped" /\ owed = "none"

Announce(request, from, to) ==
  /\ owed = "none" /\ status \in from
  /\ status' = to
  /\ owed' = request

Accept ==
  \/ Announce("startup", {"stopped"}, "startPending")
  \/ Announce("stop", Settled, "stopPending")
  \/ Announce("pause", Settled, "pausePending")
  \/ Announce("continue", Settled, "continuePending")
  \/ \E request \in {"command", "stop"} : Announce(request, Settled, status)

Perform ==
  /\ owed # "none"
  /\ owed' = "none"
  /\ UNCHANGED status

Confirm ==
  /\ owed = "none" /\ status \in DOMAIN Confirmed
  /\ status' = Confirmed[status]
  /\ UNCHANGED owed

\* The service has stopped, at a request or because its process ended.
End ==
  /\ status' = "stopped"
  /\ owed' = "none"

LifeNext == Accept \/ Perform \/ Confirm \/ End

LifeSafety == LifeInit /\ [][LifeNext]_lifeVars

\* What was announced is done and confirmed, unless the service ends first.
LifeFairness ==
  /\ WF_lifeVars(Perform)
  /\ WF_lifeVars(Confirm)
  /\ WF_lifeVars(status = "stopPending" /\ owed = "none" /\ End)

LifeSpec == LifeSafety /\ LifeFairness
=============================================================================
