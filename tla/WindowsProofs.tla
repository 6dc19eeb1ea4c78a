---------------------------- MODULE WindowsProofs ---------------------------
(***************************************************************************)
(* Safety of the hand-over between the threads of a Windows service, for   *)
(* every set of flags.                                                     *)
(***************************************************************************)
EXTENDS WindowsService, TLAPS

-----------------------------------------------------------------------------
(* The inductive invariant.                                                *)

HandlerPlaces == {"entered", "posted", "waiting", "woken", "unlocked", "reporting"}
Asking(t) == pc[t] \in {"posted", "waiting"}
AppMade == {"loop", "obeyed", "quit", "ended", "cleaned"}
Over == {"ended", "cleaned"}

\* The two semaphores order the creation of the application and handler.
StartOrder ==
  /\ main = "none" =>
       /\ scm = "stopped" /\ status = "stopped" /\ called = "none" /\ guardian = "none"
       /\ startSemaphore = 0 /\ startSemaphore2 = 0 /\ ~late
       /\ pc = [t \in Thread |-> "none"] /\ code = [t \in Thread |-> "none"]
  /\ main = "starting" => pc["dispatcher"] \in {"connecting", "failed", "idle"}
  /\ main \in {"starting", "creating", "returning"} =>
       startSemaphore2 = 0 /\ pc["starter"] \in {"none", "begun", "signalled"}
  /\ main = "creating" => At("starter", "signalled")
  /\ main \in AppMade => pc["starter"] \in {"signalled", "over"} \cup HandlerPlaces
  /\ At("starter", "begun") \/ At("dispatcher", "connecting") => startSemaphore = 0
  /\ main = "starting" /\ startSemaphore = 1 =>
       At("dispatcher", "failed") \/ At("starter", "signalled")
  /\ pc["starter"] \in {"none", "begun", "signalled", "over"} \cup HandlerPlaces
  /\ pc["dispatcher"] \in {"none", "connecting", "failed", "idle", "over"} \cup HandlerPlaces
  /\ At("starter", "none") <=> pc["dispatcher"] \in {"none", "connecting", "failed"}

\* Until the starter has reported that the service runs it is alone.
StarterFirst ==
  /\ pc["starter"] \in HandlerPlaces => code["starter"] = "startup"
  /\ pc["starter"] \in {"none", "begun", "signalled"} => code["starter"] = "none"
  /\ pc["starter"] \in {"begun", "signalled", "entered", "posted", "waiting", "woken"} =>
       /\ At("dispatcher", "idle") /\ code["dispatcher"] = "none"
       /\ scm = "startPending" /\ ~late
  /\ pc["starter"] \in {"none", "begun", "signalled", "entered"} =>
       status = "stopped" /\ called = "none" /\ events = <<>>
  /\ pc["starter"] \in {"posted", "waiting", "woken"} => status = "startPending"
  /\ At("starter", "none") => code["dispatcher"] = "none" /\ ~late
  /\ At("starter", "none") /\ main # "none" => scm = "startPending"
  /\ ~late /\ code["dispatcher"] # "none" => At("starter", "over")
  /\ Unregistered =>
       /\ At("dispatcher", "idle") /\ code["dispatcher"] = "none" /\ main = "loop"
       /\ scm = "startPending" /\ ~late
       /\ status = "stopped" /\ called = "none" /\ events = <<>>

\* The event that is posted is that of the one thread that waits for it.
Handshake ==
  /\ pc["dispatcher"] \in HandlerPlaces => code["dispatcher"] \in Controls
  /\ \A t \in Thread :
       /\ pc[t] \in {"posted", "waiting", "woken"} => code[t] # "interrogate"
       /\ Asking(t) /\ events # <<>> => events = <<Event(code[t])>>
       /\ Asking(t) /\ events = <<>> => main = "obeyed" /\ called = Event(code[t])
       /\ At(t, "woken") => called = Event(code[t]) /\ events = <<>>
  /\ events # <<>> => \E t \in Thread : Asking(t)
  /\ main = "obeyed" => events = <<>> /\ \E t \in Thread : Asking(t)

\* A stop ends the guardian before main leaves its loop and reports it.
StopOrder ==
  /\ called = "stop" => main \in {"obeyed", "quit"} \cup Over /\ guardian = "none"
  /\ called = "stop" => code["dispatcher"] # "none"
  /\ main \in {"quit"} \cup Over => called = "stop"
  /\ called = "none" => guardian = "none"
  /\ scm = "stopped" => main \in {"none"} \cup Over
  /\ At("dispatcher", "over") => main \in Over
  /\ \A t \in Thread : At(t, "reporting") => sent[t] # "stopped"

\* The status, at each place of the dispatcher, while nobody is overtaken.
StatusOrder == ~late =>
  /\ status # "stopped" => scm = status
  /\ main \in Over => status = "stopped" /\ scm = "stopped"
  /\ main = "cleaned" => At("dispatcher", "over")
  /\ \A t \in Thread : At(t, "reporting") => sent[t] = status \/ status = "stopped"
  /\ pc["dispatcher"] \in {"entered", "posted", "waiting"} => main \in {"loop", "obeyed"}
  /\ pc["starter"] \in {"posted", "waiting", "woken", "unlocked", "reporting"}
       /\ code["dispatcher"] = "none" => main \in {"loop", "obeyed"}
  /\ main \in {"quit"} \cup Over => code["dispatcher"] \in {"stop", "shutdown"}
  /\ main = "quit" /\ code["dispatcher"] = "stop" => status = "stopPending"
  /\ pc["starter"] \in {"unlocked", "reporting"} => status = "running"
  /\ pc["dispatcher"] \in {"posted", "waiting", "woken"} =>
       IF code["dispatcher"] \in DOMAIN Pending
         THEN status = Pending[code["dispatcher"]] \/ main \in Over
         ELSE status \in {"running", "paused"} \/ main \in Over
  /\ pc["starter"] \in {"over", "unlocked", "reporting"} /\ ~Unregistered
       /\ main \in {"loop", "obeyed"}
       /\ pc["dispatcher"] \in {"idle", "entered", "unlocked", "reporting"} =>
         status \in {"running", "paused"}

ServiceInv ==
  ServiceTypeOK /\ StartOrder /\ StarterFirst /\ Handshake /\ StopOrder /\ StatusOrder


-----------------------------------------------------------------------------
(* Ended leaves nothing behind.                                            *)
LEMMA EndedTypes ==
  ASSUME Ended
  PROVE  ServiceTypeOK'
<1>1. (scm \in Statuses /\ status \in Statuses /\ main \in MainPlaces)'
  BY DEF Ended, Statuses, MainPlaces
<1>2. (pc \in [Thread -> Places] /\ sent \in [Thread -> Statuses])'
  BY DEF Ended, Places, Statuses
<1>3. (code \in [Thread -> Controls \cup {"startup", "none"}])'
  BY DEF Ended
<1>4. (/\ events \in {<<>>} \cup {<<e>> : e \in (Controls \cup {"startup"})}
       /\ startSemaphore \in 0..1 /\ startSemaphore2 \in 0..1)'
  BY DEF Ended
<1>5. (/\ called \in Controls \cup {"startup", "none"}
       /\ guardian \in {"none", "guarding", "paused"}
       /\ late \in BOOLEAN)'
  BY DEF Ended
<1>6. QED
  BY <1>1, <1>2, <1>3, <1>4, <1>5 DEF ServiceTypeOK

LEMMA EndedKeeps ==
  ASSUME Ended
  PROVE  ServiceInv'
<1>1. (StartOrder /\ StarterFirst /\ Handshake /\ StopOrder /\ StatusOrder)'
  BY DEF Ended, StartOrder, StarterFirst, Handshake, StopOrder, StatusOrder,
         HandlerPlaces, Asking, AppMade, Over, At, Thread, Unregistered
<1>2. QED
  BY <1>1, EndedTypes DEF ServiceInv

LEMMA InitHolds == Init => ServiceInv
<1> SUFFICES ASSUME Init PROVE ServiceInv
  OBVIOUS
<1>1. ServiceTypeOK
  <2>1. scm \in Statuses /\ status \in Statuses /\ main \in MainPlaces
    BY DEF Init, Statuses, MainPlaces
  <2>2. pc \in [Thread -> Places] /\ sent \in [Thread -> Statuses]
    BY DEF Init, Places, Statuses
  <2>3. code \in [Thread -> Controls \cup {"startup", "none"}]
    BY DEF Init
  <2>4. /\ events \in {<<>>} \cup {<<e>> : e \in (Controls \cup {"startup"})}
        /\ startSemaphore \in 0..1 /\ startSemaphore2 \in 0..1
    BY DEF Init
  <2>5. /\ called \in Controls \cup {"startup", "none"}
        /\ guardian \in {"none", "guarding", "paused"}
        /\ late \in BOOLEAN
    BY DEF Init
  <2>6. QED
    BY <2>1, <2>2, <2>3, <2>4, <2>5 DEF ServiceTypeOK
<1>2. StartOrder /\ StarterFirst /\ Handshake /\ StopOrder /\ StatusOrder
  BY DEF Init, StartOrder, StarterFirst, Handshake, StopOrder, StatusOrder,
         HandlerPlaces, Asking, AppMade, Over, At, Thread, Unregistered
<1>3. QED
  BY <1>1, <1>2 DEF ServiceInv

-----------------------------------------------------------------------------
(* A thread that enters handler finds no event: the other one waits for    *)
(* none, since the starter is alone while it starts the service.           *)
LEMMA PostedAlone ==
  ASSUME NEW t \in Thread, ServiceInv, Post(t)
  PROVE  /\ events = <<>> /\ events' = <<Event(code[t])>>
         /\ code[t] \in Controls \cup {"startup"}
         /\ Event(code[t]) \in Controls \cup {"startup"}
<1>1. events = <<>>
  BY DEF Post, ServiceInv, Handshake, StarterFirst, Asking, At, Thread
<1>2. code[t] \in Controls \cup {"startup"}
  BY DEF Post, ServiceInv, Handshake, StarterFirst, At, HandlerPlaces, Thread
<1>3. Event(code[t]) \in Controls \cup {"startup"}
  BY <1>2 DEF Event, Controls
<1>4. QED
  BY <1>1, <1>2, <1>3 DEF Post

LEMMA PostTypes ==
  ASSUME NEW t \in Thread, ServiceInv, Post(t)
  PROVE  ServiceTypeOK'
<1>1. scm' \in Statuses /\ status' \in Statuses
  BY DEF Post, Announce, setStatus, SetServiceStatus, Pending, Statuses, ServiceInv,
         ServiceTypeOK
<1>2. pc' \in [Thread -> Places]
  BY DEF Post, Goes, Places, ServiceInv, ServiceTypeOK
<1>3. QED
  BY <1>1, <1>2, PostedAlone DEF Post, semaphores, serviceVars, ServiceInv, ServiceTypeOK

LEMMA HandledTypes ==
  ASSUME ServiceInv, handleCustomEvent
  PROVE  /\ events = <<called'>> /\ events' = <<>>
         /\ called' \in Controls \cup {"startup"} /\ guardian' = Obeyed(called')
         /\ ServiceTypeOK'
<1>1. PICK e \in Controls \cup {"startup"} : events = <<e>>
  BY DEF handleCustomEvent, ServiceInv, ServiceTypeOK
<1>2. called' = e /\ events' = <<>> /\ guardian' = Obeyed(e)
  BY <1>1 DEF handleCustomEvent
<1>3. guardian' \in {"none", "guarding", "paused"}
  BY <1>2 DEF Obeyed, Switched, ServiceInv, ServiceTypeOK
<1>4. ServiceTypeOK'
  BY <1>2, <1>3 DEF handleCustomEvent, MainPlaces, threadVars, semaphores, ServiceInv,
                    ServiceTypeOK
<1>5. QED
  BY <1>1, <1>2, <1>4

LEMMA ControlAfterStart ==
  ASSUME NEW c \in Controls, ServiceInv, Control(c)
  PROVE  StarterFirst'
<1>1. pc["starter"] \in {"unlocked", "reporting", "over"}
  BY DEF Control, ServiceInv, StartOrder, StarterFirst, HandlerPlaces, At
<1>2. ~late' => pc["starter"] = "over"
  BY DEF Control
<1>3. pc'["starter"] = pc["starter"] /\ code'["starter"] = code["starter"]
  BY DEF Control, Goes, ServiceInv, ServiceTypeOK, Thread
<1>4. ~Unregistered /\ ~Unregistered'
  BY <1>3 DEF Control, ServiceInv, StarterFirst, Unregistered, At
<1>5. QED
  BY <1>1, <1>2, <1>3, <1>4 DEF Control, ServiceInv, StarterFirst, At, HandlerPlaces

-----------------------------------------------------------------------------
(* Every step keeps the invariant.                                         *)
LEMMA NextKeeps == ServiceInv /\ [Next]_vars => ServiceInv'
<1> SUFFICES ASSUME ServiceInv, [Next]_vars PROVE ServiceInv'
  OBVIOUS
<1> USE DEF ServiceInv, StartOrder, StarterFirst, Handshake, StopOrder, StatusOrder,
            HandlerPlaces, Asking, AppMade, Over, Thread, At, Goes, Unlocked, Unregistered,
            threadVars, semaphores, serviceVars
<1>1. ASSUME StartService PROVE ServiceInv'
  BY <1>1, SMTT(60) DEF StartService, Statuses, ServiceTypeOK, Places, MainPlaces
<1>2. ASSUME NEW c \in Controls, Control(c) PROVE ServiceInv'
  <2>1. ServiceTypeOK'
    BY <1>2 DEF Control, ServiceTypeOK, Places, MainPlaces
  <2>2. /\ pc'["starter"] = pc["starter"] /\ code'["starter"] = code["starter"]
        /\ pc["dispatcher"] = "idle" /\ pc'["dispatcher"] = "entered"
        /\ code'["dispatcher"] = c
        /\ pc["starter"] \notin {"none", "posted", "waiting", "woken"}
        /\ UNCHANGED <<scm, main, sent, status, events, semaphores, serviceVars>>
    BY <1>2 DEF Control, ServiceTypeOK
  <2>3. StartOrder' /\ Handshake' /\ StopOrder'
    <3>1. StartOrder'
      BY <1>2, <2>2 DEF Control
    <3>2. Handshake'
      BY <2>2
    <3>3. StopOrder'
      BY <1>2, <2>2 DEF Control, Controls
    <3>4. QED
      BY <3>1, <3>2, <3>3
  <2>4. StatusOrder'
    BY <1>2, SMTT(60) DEF Control, Statuses, ServiceTypeOK, Places, MainPlaces
  <2>5. QED
    BY <1>2, <2>1, <2>3, <2>4, ControlAfterStart DEF ServiceInv
<1>3. ASSUME Connect PROVE ServiceInv'
  BY <1>3, SMTT(60) DEF Connect, ServiceTypeOK, Places, MainPlaces
<1>4. ASSUME ConnectFails PROVE ServiceInv'
  BY <1>4, SMTT(60) DEF ConnectFails, ServiceTypeOK, Places, MainPlaces
<1>5. ASSUME DispatcherEnds PROVE ServiceInv'
  BY <1>5, SMTT(60) DEF DispatcherEnds, ServiceTypeOK, Places, MainPlaces
<1>6. ASSUME serviceMain PROVE ServiceInv'
  BY <1>6, SMTT(60) DEF serviceMain, ServiceTypeOK, Places, MainPlaces
<1>7. ASSUME Register PROVE ServiceInv'
  <2>1. ServiceTypeOK'
    BY <1>7 DEF Register, ServiceTypeOK, Places
  <2>2. /\ pc["starter"] = "signalled" /\ pc'["starter"] = "entered"
        /\ code'["starter"] = "startup" /\ pc'["dispatcher"] = pc["dispatcher"]
        /\ code'["dispatcher"] = code["dispatcher"]
        /\ startSemaphore2' = startSemaphore2 - 1 /\ startSemaphore2 # 0
        /\ UNCHANGED <<scm, main, sent, status, events, startSemaphore, serviceVars, late>>
    BY <1>7 DEF Register, ServiceTypeOK
  <2>3. main \in AppMade
    BY <2>2 DEF ServiceTypeOK, MainPlaces
  <2>4. StartOrder'
    BY <2>2, <2>3
  <2>5. StarterFirst'
    BY <2>2
  <2>6. Handshake'
    BY <2>2
  <2>7. StopOrder' /\ StatusOrder'
    BY <2>2
  <2>8. QED
    BY <2>1, <2>4, <2>5, <2>6, <2>7
<1>8. ASSUME NEW t \in Thread, Post(t) PROVE ServiceInv'
  <2>1. ServiceTypeOK'
    BY <1>8, PostTypes
  <2>2. Handshake'
    <3>1. events' = <<Event(code[t])>> /\ events' # <<>> /\ events = <<>>
      BY <1>8, PostedAlone
    <3>2. /\ pc[t] = "entered" /\ pc'[t] = "posted"
          /\ \A u \in Thread \ {t} : pc'[u] = pc[u]
      BY <1>8 DEF Post, ServiceTypeOK
    <3>3. code' = code /\ code[t] # "interrogate" /\ UNCHANGED <<main, called>>
      BY <1>8 DEF Post
    <3>4. \A u \in Thread \ {t} : ~Asking(u)
      BY <3>2
    <3>5. main # "obeyed"
      BY <3>2, <3>4
    <3>6. Asking(t)'
      BY <3>2
    <3>7. (pc["dispatcher"] \in HandlerPlaces => code["dispatcher"] \in Controls)'
      BY <3>2, <3>3
    <3>8. \A u \in Thread :
            /\ pc'[u] \in {"posted", "waiting", "woken"} => code'[u] # "interrogate"
            /\ Asking(u)' /\ events' # <<>> => events' = <<Event(code'[u])>>
            /\ Asking(u)' /\ events' = <<>> => main' = "obeyed" /\ called' = Event(code'[u])
      BY <3>1, <3>2, <3>3, <3>4
    <3>9. \A u \in Thread : ~At(u, "woken")'
      BY <3>2
    <3>10. QED
      BY <3>1, <3>3, <3>5, <3>6, <3>7, <3>8, <3>9
  <2>3. (StartOrder /\ StarterFirst /\ StopOrder)'
    BY <1>8, PostedAlone, SMTT(60) DEF Post, Announce, setStatus, SetServiceStatus, Pending, ServiceTypeOK, Places, MainPlaces
  <2>4. StatusOrder'
    BY <1>8, PostedAlone, SMTT(60) DEF Post, Announce, setStatus, SetServiceStatus, Pending,
          Controls, ServiceTypeOK, Places, MainPlaces
  <2>5. QED
    BY <2>1, <2>2, <2>3, <2>4
<1>9. ASSUME NEW t \in Thread, Wait(t) PROVE ServiceInv'
  BY <1>9, SMTT(60) DEF Wait, ServiceTypeOK, Places, MainPlaces
<1>10. ASSUME NEW t \in Thread, Finish(t) PROVE ServiceInv'
  BY <1>10, SMTT(60) DEF Finish, Confirm, setStatus, SetServiceStatus, Final, Pending,
    Statuses, Controls, Event, ServiceTypeOK, Places, MainPlaces
<1>11. ASSUME NEW t \in Thread, Interrogate(t) PROVE ServiceInv'
  BY <1>11, SMTT(60) DEF Interrogate, ServiceTypeOK, Places, MainPlaces
<1>12. ASSUME NEW t \in Thread, ReadStatus(t) PROVE ServiceInv'
  BY <1>12, SMTT(60) DEF ReadStatus, Leaves, ServiceTypeOK, Places, MainPlaces
<1>13. ASSUME NEW t \in Thread, ReportStatus(t) PROVE ServiceInv'
  BY <1>13, SMTT(60) DEF ReportStatus, SetServiceStatus, Leaves, Statuses, ServiceTypeOK, Places, MainPlaces
<1>14. ASSUME AcquireStart PROVE ServiceInv'
  BY <1>14, SMTT(60) DEF AcquireStart, ServiceTypeOK, Places, MainPlaces
<1>15. ASSUME AcquireTimesOut PROVE ServiceInv'
  BY <1>15, SMTT(60) DEF AcquireTimesOut, ServiceTypeOK, Places, MainPlaces
<1>16. ASSUME createApplication PROVE ServiceInv'
  BY <1>16, SMTT(60) DEF createApplication, ServiceTypeOK, Places, MainPlaces
<1>17. ASSUME handleCustomEvent PROVE ServiceInv'
  <2>1. ServiceTypeOK' /\ events = <<called'>> /\ events' = <<>> /\ guardian' = Obeyed(called')
    BY <1>17, HandledTypes
  <2>2. Handshake'
    BY <1>17, <2>1, SMTT(60) DEF handleCustomEvent, ServiceTypeOK, Places, MainPlaces
  <2>3. (StartOrder /\ StarterFirst /\ StopOrder /\ StatusOrder)'
    BY <1>17, <2>1, HandledTypes, SMTT(60) DEF handleCustomEvent, Obeyed, Event, Controls, ServiceTypeOK, Places, MainPlaces
  <2>4. QED
    BY <2>1, <2>2, <2>3
<1>18. ASSUME wakeAll PROVE ServiceInv'
  BY <1>18, SMTT(60) DEF wakeAll, Woken, Event, Pending, Controls, ServiceTypeOK, Places, MainPlaces
<1>19. ASSUME ReportStopped PROVE ServiceInv'
  BY <1>19, SMTT(60) DEF ReportStopped, setStatus, SetServiceStatus, Statuses, ServiceTypeOK, Places, MainPlaces
<1>20. ASSUME Join PROVE ServiceInv'
  BY <1>20, SMTT(60) DEF Join, ServiceTypeOK, Places, MainPlaces
<1>21. ASSUME JoinTimesOut PROVE ServiceInv'
  BY <1>21, SMTT(60) DEF JoinTimesOut, ServiceTypeOK, Places, MainPlaces
<1>22. ASSUME RemoteCommand PROVE ServiceInv'
  BY <1>22, SMTT(60) DEF RemoteCommand, ServiceTypeOK, Places, MainPlaces
<1>23. ASSUME RegisterFails PROVE ServiceInv'
  <2>1. ServiceTypeOK'
    BY <1>23 DEF RegisterFails, ServiceTypeOK, Places
  <2>2. /\ pc["starter"] = "signalled" /\ pc'["starter"] = "over"
        /\ pc'["dispatcher"] = pc["dispatcher"] /\ code' = code
        /\ startSemaphore2' = startSemaphore2 - 1 /\ startSemaphore2 # 0
        /\ UNCHANGED <<scm, main, sent, status, events, startSemaphore, serviceVars, late>>
    BY <1>23 DEF RegisterFails, ServiceTypeOK
  <2>3. main \in AppMade
    BY <2>2 DEF ServiceTypeOK, MainPlaces
  <2>4. main = "loop"
    BY <2>2, <2>3
  <2>5. StartOrder' /\ Handshake'
    BY <2>2, <2>3
  <2>6. StarterFirst'
    BY <2>2, <2>4
  <2>7. StopOrder' /\ StatusOrder'
    BY <2>2, <2>4
  <2>8. QED
    BY <2>1, <2>5, <2>6, <2>7
<1>24. ASSUME createApplicationFails PROVE ServiceInv'
  BY <1>24, SMTT(60) DEF createApplicationFails, ServiceTypeOK, Places, MainPlaces
<1>25. ASSUME Ended PROVE ServiceInv'
  BY <1>25, EndedKeeps
<1>26. CASE UNCHANGED vars
  BY <1>26, SMTT(60) DEF vars, ServiceTypeOK
<1>27. QED
  BY <1>1, <1>2, <1>3, <1>4, <1>5, <1>6, <1>7, <1>8, <1>9, <1>10, <1>11, <1>12, <1>13, <1>14, <1>15, <1>16, <1>17, <1>18, <1>19, <1>20, <1>21, <1>22, <1>23, <1>24, <1>25, <1>26
  DEF Next, Controller, stop, pause, resume, sendCommand, OtherControl, Dispatching,
      Starting, handler, MainThread, Return, Crash, Controls

LEMMA ServiceInvariant == Spec => []ServiceInv
  BY InitHolds, NextKeeps, PTL DEF Spec

-----------------------------------------------------------------------------
(* What QtServiceSysPrivate's members may hold: the semaphores and the     *)
(* event queue never more than one.                                        *)
THEOREM ServiceTypeCorrect == Spec => []ServiceTypeOK
<1>1. ServiceInv => ServiceTypeOK
  BY DEF ServiceInv
<1>2. QED
  BY <1>1, ServiceInvariant, PTL

(* Whichever thread wakes from condition.wait, main has obeyed the event   *)
(* that this thread posted (qtservice_win.cpp, handler), also when reports *)
(* are late.                                                               *)
THEOREM WaitsAnswered == Spec => []AnswersItsOwn
<1>1. ServiceInv => AnswersItsOwn
  BY DEF ServiceInv, Handshake, AnswersItsOwn
<1>2. QED
  BY <1>1, ServiceInvariant, PTL

\* handler never posts to a controllerHandler that is not there.
THEOREM PostedToReceiver == Spec => []ReceiverExists
<1>1. ServiceInv => ReceiverExists
  BY DEF ServiceInv, StatusOrder, StarterFirst, ReceiverExists, Thread, At
<1>2. QED
  BY <1>1, ServiceInvariant, PTL

(* When main has left its event loop, for whatever reason and however late *)
(* the other threads are, the starter has left the mutex and the condition *)
(* sysCleanup deletes (qtservice_win.cpp, start and handler).              *)
THEOREM StarterGone == Spec => []StarterPastMutex
<1>1. ServiceInv => StarterPastMutex
  BY DEF ServiceInv, StartOrder, StarterFirst, StopOrder, StarterPastMutex, AppMade,
         HandlerPlaces, At, Over
<1>2. QED
  BY <1>1, ServiceInvariant, PTL

\* The SCM is told the status the service has.
THEOREM StatusKnown == Spec => []ScmAgrees
<1>1. ServiceInv => ScmAgrees
  BY DEF ServiceInv, StatusOrder, ScmAgrees
<1>2. QED
  BY <1>1, ServiceInvariant, PTL

\* The guardian is deleted before the service is reported stopped.
THEOREM UnguardedWhenStopped == Spec => []StoppedUnguarded
<1>1. ServiceInv => StoppedUnguarded
  BY DEF ServiceInv, StartOrder, StopOrder, StoppedUnguarded, Over
<1>2. QED
  BY <1>1, ServiceInvariant, PTL

-----------------------------------------------------------------------------
(* The refinement: each step of the threads is a step of the abstract      *)
(* service, or none.                                                       *)

\* The abstract state.
lifeStatus == IF late THEN "stopped" ELSE status
lifeOwed == IF late \/ events = <<>> THEN "none" ELSE Head(events)

\* Once a thread was overtaken nothing is seen any more, until the process ends.
LEMMA LateIsEnded ==
  ASSUME late' = TRUE
  PROVE  Life!End
BY DEF Life!End

\* handler accepts a request when none is owed and the service has settled.
LEMMA PostAccepts ==
  ASSUME NEW t \in Thread, ServiceInv, Post(t), ~late
  PROVE  Life!Accept
<1>1. /\ events = <<>> /\ events' = <<Event(code[t])>> /\ ~late'
      /\ code[t] \in Controls \cup {"startup"} /\ code[t] # "interrogate"
  BY PostedAlone DEF Post
<1>2. lifeOwed = "none" /\ lifeOwed' = Event(code[t])
  BY <1>1 DEF lifeOwed
<1>3. lifeStatus = status /\ lifeStatus' = status'
  BY <1>1 DEF lifeStatus
<1>4. CASE t = "starter"
  <2>1. code[t] = "startup" /\ status = "stopped"
    BY <1>4 DEF Post, At, ServiceInv, StarterFirst, HandlerPlaces
  <2>2. status' = "startPending"
    BY <2>1 DEF Post, Announce, Pending, setStatus
  <2>3. QED
    BY <1>2, <1>3, <2>1, <2>2 DEF Life!Accept, Life!Announce, lifeStatus, lifeOwed, Event
<1>5. CASE t = "dispatcher"
  <2>1. status \in Life!Settled
    BY <1>5 DEF Post, At, ServiceInv, StartOrder, StarterFirst, StatusOrder, HandlerPlaces,
                Thread, Life!Settled
  <2>2. code[t] \in {"stop", "pause", "continue", "command", "shutdown"}
    BY <1>1, <1>5 DEF Post, At, ServiceInv, Handshake, HandlerPlaces, Controls
  <2>3. CASE code[t] = "stop"
    <3>1. status' = "stopPending" /\ lifeOwed' = "stop"
      BY <1>2, <2>3 DEF Post, Announce, Pending, setStatus, Event
    <3>2. QED
      BY <1>2, <1>3, <2>1, <3>1 DEF Life!Accept, Life!Announce, lifeStatus, lifeOwed
  <2>4. CASE code[t] = "pause"
    <3>1. status' = "pausePending" /\ lifeOwed' = "pause"
      BY <1>2, <2>4 DEF Post, Announce, Pending, setStatus, Event
    <3>2. QED
      BY <1>2, <1>3, <2>1, <3>1 DEF Life!Accept, Life!Announce, lifeStatus, lifeOwed
  <2>5. CASE code[t] = "continue"
    <3>1. status' = "continuePending" /\ lifeOwed' = "continue"
      BY <1>2, <2>5 DEF Post, Announce, Pending, setStatus, Event
    <3>2. QED
      BY <1>2, <1>3, <2>1, <3>1 DEF Life!Accept, Life!Announce, lifeStatus, lifeOwed
  <2>6. CASE code[t] \in {"command", "shutdown"}
    <3>1. status' = status /\ lifeOwed' \in {"command", "stop"}
      BY <1>2, <2>6 DEF Post, Announce, Pending, Event
    <3>2. QED
      BY <1>2, <1>3, <2>1, <3>1 DEF Life!Accept, Life!Announce, lifeStatus, lifeOwed
  <2>7. QED
    BY <2>2, <2>3, <2>4, <2>5, <2>6
<1>6. QED
  BY <1>4, <1>5 DEF Thread

\* handler confirms what main has obeyed; a stop and a command have nothing to confirm.
LEMMA FinishConfirms ==
  ASSUME NEW t \in Thread, ServiceInv, Finish(t), ~late
  PROVE  Life!Confirm \/ UNCHANGED Life!lifeVars
<1>1. events = <<>> /\ events' = events /\ ~late'
  BY DEF Finish, At, ServiceInv, Handshake
<1>2. CASE code[t] \in DOMAIN Final /\ main \notin Over
  <2>1. status = Pending[code[t]] /\ status' = Final[code[t]]
    BY <1>2 DEF Finish, Confirm, setStatus, At, Final, Pending, ServiceInv, StarterFirst,
                StatusOrder, Over, Thread, HandlerPlaces, Handshake, Controls
  <2>2. QED
    BY <1>1, <1>2, <2>1 DEF Life!Confirm, Life!Confirmed, Pending, Final
<1>3. CASE code[t] \notin DOMAIN Final
  BY <1>1, <1>3 DEF Finish, Confirm, Life!lifeVars
<1>4. CASE code[t] \in DOMAIN Final /\ main \in Over
  <2>1. code["dispatcher"] \in {"stop", "shutdown"} /\ At("starter", "over")
    BY <1>4 DEF ServiceInv, StatusOrder, StarterFirst, Over
  <2>2. QED
    BY <1>4, <2>1 DEF Finish, At, Final, Thread
<1>5. QED
  BY <1>2, <1>3, <1>4

LEMMA LifeStep == ServiceInv /\ [Next]_vars => [Life!LifeNext]_(Life!lifeVars)
<1> SUFFICES ASSUME ServiceInv, [Next]_vars PROVE [Life!LifeNext]_(Life!lifeVars)
  OBVIOUS
<1>1. CASE late' = TRUE
  BY <1>1, LateIsEnded DEF Life!LifeNext
<1>2. ASSUME NEW t \in Thread, Post(t), ~late PROVE Life!LifeNext
  BY <1>2, PostAccepts DEF Life!LifeNext
<1>3. ASSUME NEW t \in Thread, Finish(t), ~late PROVE [Life!LifeNext]_(Life!lifeVars)
  BY <1>3, FinishConfirms DEF Life!LifeNext
<1>4. ASSUME handleCustomEvent, ~late PROVE Life!LifeNext
  <2>1. PICK e \in Controls \cup {"startup"} : events = <<e>>
    BY <1>4 DEF handleCustomEvent, ServiceInv, ServiceTypeOK
  <2>2. e # "none" /\ events' = <<>> /\ ~late' /\ status' = status
    BY <1>4, <2>1 DEF handleCustomEvent, Controls
  <2>3. Life!Perform
    BY <1>4, <2>1, <2>2 DEF Life!Perform
  <2>4. QED
    BY <2>3 DEF Life!LifeNext
<1>5. ASSUME ReportStopped, ~late PROVE Life!LifeNext
  <2>1. events = <<>>
    <3>1. main \notin {"loop", "obeyed"} /\ main = "quit"
      BY <1>5 DEF ReportStopped
    <3>2. \A t \in Thread : Asking(t) => main = "loop" \/ main = "obeyed"
      BY <1>5, <3>1 DEF ServiceInv, StatusOrder, Handshake, StarterFirst, Asking, Thread
    <3>3. QED
      BY <3>1, <3>2 DEF ServiceInv, Handshake
  <2>2. Life!End
    BY <1>5, <2>1 DEF ReportStopped, setStatus, Life!End
  <2>3. QED
    BY <2>2 DEF Life!LifeNext
<1>6. ASSUME Ended PROVE Life!LifeNext
  BY <1>6 DEF Ended, Life!End, Life!LifeNext
<1>7. ASSUME UNCHANGED <<status, events, late>> PROVE UNCHANGED Life!lifeVars
  BY <1>7 DEF Life!lifeVars
<1>8. ASSUME NEW c \in Controls, Control(c), ~late' PROVE UNCHANGED <<status, events, late>>
  <2>1. late' = (late \/ pc["starter"] # "over") /\ late \in BOOLEAN
    BY <1>8 DEF Control, ServiceInv, ServiceTypeOK
  <2>2. ~late
    BY <1>8, <2>1
  <2>3. QED
    BY <1>8, <2>1, <2>2 DEF Control
<1>9. CASE late = TRUE /\ ~late'
  <2>1. Controller => \E c \in Controls : Control(c)
    BY DEF Controller, stop, pause, resume, sendCommand, OtherControl, Controls
  <2>2. \A t \in Thread : handler(t) => UNCHANGED late
    BY DEF handler, Post, Wait, Finish, Interrogate, ReadStatus, ReportStatus
  <2>3. Dispatching \/ Starting \/ StartService => UNCHANGED late
    BY DEF Dispatching, Starting, StartService, Connect, ConnectFails, DispatcherEnds,
           serviceMain, Register
  <2>4. MainThread => UNCHANGED late \/ Ended \/ late' = TRUE
    BY DEF MainThread, Return, AcquireStart, createApplication, handleCustomEvent, wakeAll,
           ReportStopped, Join, JoinTimesOut
  <2>5. AcquireTimesOut \/ RemoteCommand \/ RegisterFails \/ createApplicationFails
          \/ UNCHANGED vars => UNCHANGED late
    BY DEF AcquireTimesOut, RemoteCommand, RegisterFails, createApplicationFails, vars
  <2>6. Ended
    BY <1>8, <1>9, <2>1, <2>2, <2>3, <2>4, <2>5 DEF Next, Crash
  <2>7. QED
    BY <1>6, <2>6
<1>10. CASE ~late /\ ~late' /\ Next
  <2>1. \/ \E t \in Thread : Post(t) \/ Finish(t)
        \/ handleCustomEvent \/ ReportStopped \/ Ended
        \/ \E c \in Controls : Control(c)
        \/ UNCHANGED <<status, events, late>>
    BY <1>10, SMTT(60) DEF Next, Controller, stop, pause, resume, sendCommand, OtherControl,
      Controls, Dispatching, Starting, handler, MainThread, Return, Crash, StartService,
      Connect, ConnectFails, DispatcherEnds, serviceMain, Register, Wait, Interrogate,
      ReadStatus, ReportStatus, AcquireStart, AcquireTimesOut, createApplication, wakeAll,
      Join, JoinTimesOut, RemoteCommand, RegisterFails, createApplicationFails
  <2>2. QED
    BY <1>2, <1>3, <1>4, <1>5, <1>6, <1>7, <1>8, <1>10, <2>1
<1>11. CASE UNCHANGED vars
  BY <1>7, <1>11 DEF vars
<1>12. late \in BOOLEAN /\ late' \in BOOLEAN
  BY NextKeeps DEF ServiceInv, ServiceTypeOK
<1>13. QED
  BY <1>1, <1>9, <1>10, <1>11, <1>12

(* To the SCM's side a Windows service is ServiceLife: one request at a    *)
(* time is announced, handed to MyService once and then confirmed, until a *)
(* thread is overtaken.  What ImplementsServiceLife says of safety.        *)
THEOREM LifeImplemented == Spec => Life!LifeSafety
<1>1. Init => Life!LifeInit
  BY DEF Init, Life!LifeInit
<1>2. ServiceInv /\ [Next]_vars => [Life!LifeNext]_(Life!lifeVars)
  BY LifeStep
<1>3. QED
  BY <1>1, <1>2, ServiceInvariant, PTL DEF Spec, Life!LifeSafety
=============================================================================
