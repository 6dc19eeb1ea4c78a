---------------------------- MODULE ServiceProofs ---------------------------
(***************************************************************************)
(* With starts kept apart from other starts and from stops there is one    *)
(* service at most, and it can be reached, for any number of clients and   *)
(* of services that are killed.                                            *)
(***************************************************************************)
EXTENDS ServiceControl, TLAPS

\* One service process exists at a time, and the path names it while it listens.
Alone == \A s, t \in Service : phase[s] # "none" /\ phase[t] # "none" => s = t

Named ==
  \A s \in Service :
    /\ phase[s] = "unlinked" => path = Nobody
    /\ phase[s] \in {"up", "leaving"} => path = s /\ owns[s]

(* While a start waits nobody else does, and no service comes up or ends;  *)
(* while a stop waits none comes up.                                       *)
Orderly ==
  /\ \A c, d \in Client : asks[c] = "alive" /\ asks[d] # "nothing" => c = d
  /\ \A c \in Client, s \in Service :
       /\ asks[c] = "alive" => phase[s] \in {"none", "up"}
       /\ asks[c] = "alive" /\ phase[s] = "up" => peer[c] = s
       /\ asks[c] = "terminate" => phase[s] \notin {"loaded", "unlinked"}

ControlInv == ControlTypeOK /\ Alone /\ Named /\ Orderly

LEMMA ControlInit == Init => ControlInv
  BY DEF Init, ControlInv, ControlTypeOK, Alone, Named, Orderly, Phases

\* With nothing reached and nothing under way no service process exists.
LEMMA NobodyRuns ==
  ASSUME ControlInv, Reached = Nobody, Quiet({"alive", "terminate"})
  PROVE  \A s \in Service : phase[s] = "none"
  <1> SUFFICES ASSUME NEW s \in Service, phase[s] = "up" PROVE FALSE
    BY DEF Quiet
  <1> QED
    BY NobodyAssumption DEF ControlInv, Named, Reached, Listening

LEMMA StartStep ==
  ASSUME ControlInv, Patient, NEW c \in Client, Start(c)
  PROVE  ControlInv'
  <1>1. Quiet({"alive", "terminate"}) /\ asks[c] = "nothing"
    BY DEF Start
  <1>2. CASE Ask(c, "alive")
    BY <1>1, <1>2
    DEF Ask, ControlInv, ControlTypeOK, Alone, Named, Orderly, Quiet, Reached, Listening
  <1>3. CASE Reached = Nobody /\ Spawn /\ UNCHANGED <<owns, path, asks, peer>>
    BY <1>1, <1>3, NobodyRuns
    DEF Spawn, ControlInv, ControlTypeOK, Alone, Named, Orderly, Quiet, Phases
  <1> QED
    BY <1>2, <1>3 DEF Start

LEMMA TerminateStep ==
  ASSUME ControlInv, Patient, NEW c \in Client, Terminate(c)
  PROVE  ControlInv'
  BY DEF Terminate, Ask, ControlInv, ControlTypeOK, Alone, Named, Orderly, Quiet, Reached,
         Listening

LEMMA ClientStep ==
  ASSUME ControlInv, NEW c \in Client, ClientNext(c)
  PROVE  ControlInv'
  <1>1. CASE AnswerAlive(c)
    BY <1>1 DEF AnswerAlive, Done, ControlInv, ControlTypeOK, Alone, Named, Orderly
  <1>2. CASE AnswerTerminate(c)
    BY <1>2
    DEF AnswerTerminate, Done, ControlInv, ControlTypeOK, Alone, Named, Orderly, Phases
  <1>3. CASE HangUp(c)
    <2>1. CASE asks[c] = "alive"
      <3>1. \A s \in Service : phase[s] = "none"
        BY <1>3, <2>1 DEF HangUp, Listening, ControlInv, Orderly
      <3>2. \A d \in Client : d # c => asks[d] = "nothing"
        BY <2>1 DEF ControlInv, Orderly, ControlTypeOK
      <3> QED
        BY <1>3, <2>1, <3>1, <3>2
        DEF HangUp, Spawn, Done, ControlInv, ControlTypeOK, Alone, Named, Orderly, Phases
    <2>2. CASE asks[c] # "alive"
      BY <1>3, <2>2 DEF HangUp, Done, ControlInv, ControlTypeOK, Alone, Named, Orderly
    <2> QED
      BY <2>1, <2>2
  <1> QED
    BY <1>1, <1>2, <1>3 DEF ClientNext

LEMMA ServiceStep ==
  ASSUME ControlInv, NEW s \in Service, ServiceNext(s) \/ Crash(s)
  PROVE  ControlInv'
  <1>1. CASE Unlink(s)
    BY <1>1, NobodyAssumption
    DEF Unlink, ControlInv, ControlTypeOK, Alone, Named, Orderly, Phases
  <1>2. CASE Bind(s)
    BY <1>2 DEF Bind, ControlInv, ControlTypeOK, Alone, Named, Orderly, Phases
  <1>3. CASE Close(s)
    BY <1>3 DEF Close, ControlInv, ControlTypeOK, Alone, Named, Orderly, Phases
  <1>4. CASE RemovePath(s)
    BY <1>4 DEF RemovePath, ControlInv, ControlTypeOK, Alone, Named, Orderly, Phases
  <1>5. CASE Crash(s)
    <2>1. phase[s] # "none"
      BY <1>5, KillableAssumption DEF Crash
    <2> QED
      BY <1>5, <2>1 DEF Crash, ControlInv, ControlTypeOK, Alone, Named, Orderly, Phases
  <1> QED
    BY <1>1, <1>2, <1>3, <1>4, <1>5 DEF ServiceNext

LEMMA ControlStep ==
  (Patient => ControlInv) /\ [Next]_controlVars => (Patient => ControlInv)'
  <1> SUFFICES ASSUME Patient, ControlInv, [Next]_controlVars
               PROVE  ControlInv'
    OBVIOUS
  <1>1. CASE UNCHANGED controlVars
    BY <1>1 DEF controlVars, ControlInv, ControlTypeOK, Alone, Named, Orderly
  <1>2. CASE Next
    BY <1>2, StartStep, TerminateStep, ClientStep, ServiceStep DEF Next
  <1> QED
    BY <1>1, <1>2

\* The invariant of both theorems.
LEMMA ControlInvHolds == Spec => [](Patient => ControlInv)
  <1>1. Init => (Patient => ControlInv)
    BY ControlInit
  <1> QED
    BY <1>1, ControlStep, PTL DEF Spec

(* There is never a second service, so never a second guardian, when       *)
(* nobody starts the service while another starts or stops it (main.cpp    *)
(* line 41).                                                               *)
THEOREM OneServiceRuns == Spec => [](Patient => OneService)
  <1>1. (Patient => ControlInv) => (Patient => OneService)
    BY DEF ControlInv, Alone, OneService
  <1> QED
    BY <1>1, ControlInvHolds, PTL

(* The service that runs can always be stopped: under the same condition   *)
(* the path names its socket, whoever was killed before.                   *)
THEOREM ServiceReachable == Spec => [](Patient => Reachable)
  <1>1. (Patient => ControlInv) => (Patient => Reachable)
    BY DEF ControlInv, Named, Reachable
  <1> QED
    BY <1>1, ControlInvHolds, PTL
-----------------------------------------------------------------------------
\* Every step keeps the types, also with operators who are not patient.
LEMMA ControlTypeStep ==
  ASSUME ControlTypeOK, [Next]_controlVars
  PROVE  ControlTypeOK'
  <1> USE DEF ControlTypeOK
  <1>1. ASSUME NEW c \in Client, Start(c) \/ Terminate(c)
        PROVE  ControlTypeOK'
    <2>1. CASE Ask(c, "alive") \/ Ask(c, "terminate")
      BY <1>1, <2>1, NobodyAssumption DEF Ask, Reached
    <2>2. CASE Spawn /\ UNCHANGED <<owns, path, asks, peer>>
      BY <2>2 DEF Spawn, Phases
    <2> QED
      BY <1>1, <2>1, <2>2 DEF Start, Terminate
  <1>2. ASSUME NEW c \in Client, ClientNext(c)
        PROVE  ControlTypeOK'
    <2>1. Done(c) /\ UNCHANGED <<owns, path>>
      BY <1>2 DEF ClientNext, AnswerAlive, AnswerTerminate, HangUp
    <2>2. phase' \in [Service -> Phases]
      BY <1>2 DEF ClientNext, AnswerAlive, AnswerTerminate, HangUp, Spawn, Phases
    <2> QED
      BY <2>1, <2>2 DEF Done
  <1>3. ASSUME NEW s \in Service, ServiceNext(s) \/ Crash(s)
        PROVE  ControlTypeOK'
    BY <1>3 DEF ServiceNext, Unlink, Bind, Close, RemovePath, Crash, Phases
  <1>4. CASE UNCHANGED controlVars
    BY <1>4 DEF controlVars
  <1> QED
    BY <1>1, <1>2, <1>3, <1>4 DEF Next

(* A client is connected exactly while it waits for an answer, and every   *)
(* slot, path and socket is of its kind, whatever the operators do.        *)
THEOREM ControlTypeCorrect == Spec => []ControlTypeOK
  <1>1. Init => ControlTypeOK
    BY ControlInit DEF ControlInv
  <1> QED
    BY <1>1, ControlTypeStep, PTL DEF Spec
=============================================================================
