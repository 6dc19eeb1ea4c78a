--------------------------- MODULE WindowsService ---------------------------
(***************************************************************************)
(* QtService on Windows.  A service process has three threads: main runs   *)
(* the event loop and MyService; the dispatcher is called with the         *)
(* controls of the service control manager (SCM); the starter is a thread  *)
(* of Windows' own for serviceMain.  The latter two post an event to main  *)
(* and wait on a condition until main has obeyed.                          *)
(***************************************************************************)
EXTENDS Naturals, Sequences

CONSTANT Flags   \* QtServiceBase::ServiceFlags; MyService sets CanBeSuspended

ASSUME FlagsAssumption ==
  Flags \subseteq {"CanBeSuspended", "CannotBeStopped", "NeedsStopOnShutdown"}

VARIABLES
  scm,               \* the status the SCM has last been told
  main,              \* where the main thread is
  pc,                \* where the starter and the dispatcher are
  code,              \* the code each of them runs handler with
  sent,              \* the status each of them is about to report
  status,            \* status.dwCurrentState
  events,            \* events posted to controllerHandler
  startSemaphore,
  startSemaphore2,
  called,            \* the last request MyService was given
  guardian,          \* MyService's KeepLive: "none", "guarding" or "paused"
  late               \* history: a thread was overtaken, see Control and JoinTimesOut

threadVars == <<pc, code, sent>>
semaphores == <<startSemaphore, startSemaphore2>>
serviceVars == <<called, guardian>>
vars == <<scm, main, threadVars, status, events, semaphores, serviceVars, late>>

Thread == {"starter", "dispatcher"}
Controls == {"stop", "pause", "continue", "command", "interrogate", "shutdown"}
Statuses == {"stopped", "startPending", "running", "pausePending", "paused",
             "continuePending", "stopPending"}
MainPlaces == {"none", "starting", "creating", "loop", "obeyed", "quit", "ended", "cleaned",
               "returning"}
Places == {"none", "connecting", "idle", "failed", "over",            \* the dispatcher
           "begun", "signalled",                                      \* the starter
           "entered", "posted", "waiting", "woken", "unlocked", "reporting"}

\* What handler reports before it posts the event, and after main has obeyed.
Pending == [startup |-> "startPending", stop |-> "stopPending",
            pause |-> "pausePending", continue |-> "continuePending"]
Final == [startup |-> "running", pause |-> "paused", continue |-> "running"]

\* The event handler posts: a shutdown is a stop to the application.
Event(c) == IF c = "shutdown" THEN "stop" ELSE c

At(t, place) == pc[t] = place
Goes(t, place) == pc' = [pc EXCEPT ![t] = place]

\* A thread that has posted an event holds the mutex until it waits.
Unlocked == \A t \in Thread : ~At(t, "posted")

\* The SCM listens to a service until that has stopped.
SetServiceStatus(s) == scm' = IF scm = "stopped" THEN scm ELSE s

setStatus(s) == status' = s /\ SetServiceStatus(s)

-----------------------------------------------------------------------------
(* The SCM.                                                                *)

\* The process up to the wait for serviceMain: sysInit, HandlerThread::start.
StartService ==
  /\ main = "none"
  /\ scm' = "startPending"
  /\ main' = "starting"
  /\ Goes("dispatcher", "connecting")
  /\ UNCHANGED <<code, sent, status, events, semaphores, serviceVars, late>>

\* The controls a service with these flags gets.
serviceFlags(c) ==
  /\ c \in {"pause", "continue"} => "CanBeSuspended" \in Flags
  /\ c = "stop" => "CannotBeStopped" \notin Flags
  /\ c = "shutdown" => "NeedsStopOnShutdown" \in Flags

(* ControlService, and the call of handler it ends in: one at a time, none *)
(* while the service starts or stops or after a shutdown.  The starter,    *)
(* which has reported that the service runs, may not have left handler:    *)
(* then it was overtaken.                                                  *)
Control(c) ==
  /\ At("dispatcher", "idle") /\ code["dispatcher"] # "shutdown"
  /\ scm \notin {"stopped", "startPending", "stopPending"} /\ serviceFlags(c)
  /\ code' = [code EXCEPT !["dispatcher"] = c]
  /\ Goes("dispatcher", "entered")
  /\ late' = (late \/ pc["starter"] # "over")
  /\ UNCHANGED <<scm, main, sent, status, events, semaphores, serviceVars>>

\* QtServiceController: stop, pause, resume and sendCommand.
stop == Control("stop")
pause == Control("pause")
resume == Control("continue")
sendCommand == Control("command")

\* What other tools and the system may send.
OtherControl == \E c \in {"interrogate", "shutdown"} : Control(c)

-----------------------------------------------------------------------------
(* HandlerThread::run and serviceMain.                                     *)

\* StartServiceCtrlDispatcher has reached the SCM, which calls serviceMain.
Connect ==
  /\ At("dispatcher", "connecting")
  /\ pc' = [starter |-> "begun", dispatcher |-> "idle"]
  /\ UNCHANGED <<scm, main, code, sent, status, events, semaphores, serviceVars, late>>

\* It has not: run lets start go on, since serviceMain will not.
ConnectFails ==
  /\ At("dispatcher", "connecting")
  /\ Goes("dispatcher", "failed")
  /\ startSemaphore' = startSemaphore + 1
  /\ UNCHANGED <<scm, main, code, sent, status, events, startSemaphore2, serviceVars, late>>

\* StartServiceCtrlDispatcher returns when the service has stopped.
DispatcherEnds ==
  /\ At("dispatcher", "idle") /\ scm = "stopped"
  /\ Goes("dispatcher", "over")
  /\ UNCHANGED <<scm, main, code, sent, status, events, semaphores, serviceVars, late>>

\* serviceMain lets the main thread create the application ...
serviceMain ==
  /\ At("starter", "begun")
  /\ Goes("starter", "signalled")
  /\ startSemaphore' = startSemaphore + 1
  /\ UNCHANGED <<scm, main, code, sent, status, events, startSemaphore2, serviceVars, late>>

\* Mutant of Register: serviceMain does not wait for the application.
RegisterAtOnce ==
  /\ At("starter", "signalled")
  /\ code' = [code EXCEPT !["starter"] = "startup"]
  /\ Goes("starter", "entered")
  /\ UNCHANGED <<scm, main, sent, status, events, semaphores, serviceVars, late>>

\* ... and, once it has, registers handler and calls it itself.
Register ==
  /\ At("starter", "signalled") /\ startSemaphore2 > 0
  /\ startSemaphore2' = startSemaphore2 - 1
  /\ code' = [code EXCEPT !["starter"] = "startup"]
  /\ Goes("starter", "entered")
  /\ UNCHANGED <<scm, main, sent, status, events, startSemaphore, serviceVars, late>>

\* handler cannot be registered: serviceMain ends and tells nobody.
RegisterFails ==
  /\ At("starter", "signalled") /\ startSemaphore2 > 0
  /\ startSemaphore2' = startSemaphore2 - 1
  /\ Goes("starter", "over")
  /\ UNCHANGED <<scm, main, code, sent, status, events, startSemaphore, serviceVars, late>>

-----------------------------------------------------------------------------
(* QtServiceSysPrivate::handler, on either thread.                         *)

(* Mutants of Announce: the status is set and not sent; a service that     *)
(* starts is reported to run before main has started it.                   *)
AnnounceQuietly(c) ==
  status' = (IF c \in DOMAIN Pending THEN Pending[c] ELSE status) /\ UNCHANGED scm

AnnounceRunning(c) ==
  IF c = "startup" THEN setStatus("running")
  ELSE IF c \in DOMAIN Pending THEN setStatus(Pending[c])
  ELSE UNCHANGED <<status, scm>>

Announce(c) ==
  IF c \in DOMAIN Pending THEN setStatus(Pending[c]) ELSE UNCHANGED <<status, scm>>

Confirm(c) ==
  IF c \in DOMAIN Final THEN setStatus(Final[c]) ELSE UNCHANGED <<status, scm>>

\* lock, setStatus, postEvent ...
Post(t) ==
  /\ At(t, "entered") /\ Unlocked
  /\ code[t] # "interrogate"
  /\ Announce(code[t])
  /\ events' = Append(events, Event(code[t]))
  /\ Goes(t, "posted")
  /\ UNCHANGED <<main, code, sent, semaphores, serviceVars, late>>

\* Mutant of Wait: handler does not wait for main.
WaitNot(t) ==
  /\ At(t, "posted")
  /\ Goes(t, "woken")
  /\ UNCHANGED <<scm, main, code, sent, status, events, semaphores, serviceVars, late>>

\* ... condition.wait, which unlocks ...
Wait(t) ==
  /\ At(t, "posted")
  /\ Goes(t, "waiting")
  /\ UNCHANGED <<scm, main, code, sent, status, events, semaphores, serviceVars, late>>

\* ... and locks again: setStatus, unlock.
Finish(t) ==
  /\ At(t, "woken") /\ Unlocked
  /\ Confirm(code[t])
  /\ Goes(t, "unlocked")
  /\ UNCHANGED <<main, code, sent, events, semaphores, serviceVars, late>>

Interrogate(t) ==
  /\ At(t, "entered") /\ Unlocked
  /\ code[t] = "interrogate"
  /\ Goes(t, "unlocked")
  /\ UNCHANGED <<scm, main, code, sent, status, events, semaphores, serviceVars, late>>

\* Where a thread goes from handler: serviceMain ends, the dispatcher waits.
Leaves(t) == Goes(t, IF t = "starter" THEN "over" ELSE "idle")

\* "Report current status", without the lock: it is read ...
ReadStatus(t) ==
  /\ At(t, "unlocked")
  /\ IF status = "stopped" THEN Leaves(t) ELSE Goes(t, "reporting")
  /\ sent' = [sent EXCEPT ![t] = status]
  /\ UNCHANGED <<scm, main, code, status, events, semaphores, serviceVars, late>>

\* ... and sent.
ReportStatus(t) ==
  /\ At(t, "reporting")
  /\ SetServiceStatus(sent[t])
  /\ Leaves(t)
  /\ UNCHANGED <<main, code, sent, status, events, semaphores, serviceVars, late>>

handler(t) ==
  Post(t) \/ Wait(t) \/ Finish(t) \/ Interrogate(t) \/ ReadStatus(t) \/ ReportStatus(t)

-----------------------------------------------------------------------------
(* The main thread: QtServiceBasePrivate::start and the event loop.        *)

\* startSemaphore is acquired: go on if the dispatcher has reached the SCM.
AcquireStart ==
  /\ main = "starting" /\ startSemaphore > 0
  /\ startSemaphore' = startSemaphore - 1
  /\ main' = IF At("dispatcher", "failed") THEN "returning" ELSE "creating"
  /\ UNCHANGED <<scm, threadVars, status, events, startSemaphore2, serviceVars, late>>

\* tryAcquire gives up after 20 s.
AcquireTimesOut ==
  /\ main = "starting"
  /\ main' = "returning"
  /\ UNCHANGED <<scm, threadVars, status, events, semaphores, serviceVars, late>>

\* Mutant of createApplication: serviceMain is not told.
createApplicationOnly ==
  /\ main = "creating"
  /\ main' = "loop"
  /\ UNCHANGED <<scm, threadVars, status, events, semaphores, serviceVars, late>>

\* The application and controllerHandler exist: serviceMain may continue.
createApplication ==
  /\ main = "creating"
  /\ startSemaphore2' = startSemaphore2 + 1
  /\ main' = "loop"
  /\ UNCHANGED <<scm, threadVars, status, events, startSemaphore, serviceVars, late>>

\* There is no application: start returns, and the process with it.
createApplicationFails ==
  /\ main = "creating"
  /\ main' = "returning"
  /\ UNCHANGED <<scm, threadVars, status, events, semaphores, serviceVars, late>>

\* MyService: start creates the guardian, stop deletes it, pause and resume switch it.
Switched == [pause |-> "paused", continue |-> "guarding"]

\* Mutant of Obeyed: stop only ends the event loop.
ObeyedQuitOnly(request) ==
  IF request = "startup" /\ guardian = "none" THEN "guarding"
  ELSE IF request \in DOMAIN Switched /\ guardian # "none" THEN Switched[request]
  ELSE guardian

Obeyed(request) ==
  IF request = "stop" THEN "none"
  ELSE IF request = "startup" /\ guardian = "none" THEN "guarding"
  ELSE IF request \in DOMAIN Switched /\ guardian # "none" THEN Switched[request]
  ELSE guardian

\* handleCustomEvent calls the service ...
handleCustomEvent ==
  /\ main = "loop" /\ events # <<>>
  /\ called' = Head(events)
  /\ guardian' = Obeyed(Head(events))
  /\ events' = Tail(events)
  /\ main' = "obeyed"
  /\ UNCHANGED <<scm, threadVars, status, semaphores, late>>

\* Who waits is woken.
Woken == [t \in Thread |-> IF At(t, "waiting") THEN "woken" ELSE pc[t]]

\* Mutants of wakeAll: the mutex is not taken; quit is not called.
wakeAllUnlocked ==
  /\ main = "obeyed"
  /\ pc' = Woken
  /\ main' = IF called = "stop" THEN "quit" ELSE "loop"
  /\ UNCHANGED <<scm, code, sent, status, events, semaphores, serviceVars, late>>

wakeAllNoQuit ==
  /\ main = "obeyed" /\ Unlocked
  /\ pc' = Woken
  /\ main' = "loop"
  /\ UNCHANGED <<scm, code, sent, status, events, semaphores, serviceVars, late>>

\* ... and, under the mutex, wakes who waits.  After quit the event loop returns.
wakeAll ==
  /\ main = "obeyed" /\ Unlocked
  /\ pc' = Woken
  /\ main' = IF called = "stop" THEN "quit" ELSE "loop"
  /\ UNCHANGED <<scm, code, sent, status, events, semaphores, serviceVars, late>>

\* executeApplication has returned.
ReportStopped ==
  /\ main = "quit"
  /\ setStatus("stopped")
  /\ main' = "ended"
  /\ UNCHANGED <<threadVars, events, semaphores, serviceVars, late>>

\* The dispatcher has ended: controllerHandler and the rest are deleted (sysCleanup).
Join ==
  /\ main = "ended" /\ At("dispatcher", "over")
  /\ main' = "cleaned"
  /\ UNCHANGED <<scm, threadVars, status, events, semaphores, serviceVars, late>>

\* The same after a second of waiting for it.
JoinTimesOut ==
  /\ main = "ended" /\ ~At("dispatcher", "over")
  /\ main' = "cleaned"
  /\ late' = TRUE
  /\ UNCHANGED <<scm, threadVars, status, events, semaphores, serviceVars>>

(* Meanwhile the guarded application may pause, resume and stop its        *)
(* guardian by itself (MyService's serviceCmd slot).                       *)
RemoteCommand ==
  /\ main = "loop" /\ guardian # "none"
  /\ guardian' \in {"guarding", "paused", "none"}
  /\ UNCHANGED <<scm, main, threadVars, status, events, semaphores, called, late>>

-----------------------------------------------------------------------------
\* No process: as before the first start.
Ended ==
  /\ scm' = "stopped"
  /\ main' = "none"
  /\ pc' = [t \in Thread |-> "none"]
  /\ code' = [t \in Thread |-> "none"]
  /\ sent' = [t \in Thread |-> "stopped"]
  /\ status' = "stopped"
  /\ events' = <<>>
  /\ startSemaphore' = 0 /\ startSemaphore2' = 0
  /\ called' = "none" /\ guardian' = "none"
  /\ late' = FALSE

\* main returns and the process ends with its threads.
Return == main \in {"returning", "cleaned"} /\ Ended

Crash == main # "none" /\ Ended

Init ==
  /\ scm = "stopped"
  /\ main = "none"
  /\ pc = [t \in Thread |-> "none"]
  /\ code = [t \in Thread |-> "none"]
  /\ sent = [t \in Thread |-> "stopped"]
  /\ status = "stopped"
  /\ events = <<>>
  /\ startSemaphore = 0 /\ startSemaphore2 = 0
  /\ called = "none" /\ guardian = "none"
  /\ late = FALSE

Controller == stop \/ pause \/ resume \/ sendCommand \/ OtherControl

Dispatching == Connect \/ ConnectFails \/ DispatcherEnds

Starting == serviceMain \/ Register

MainThread ==
  \/ AcquireStart \/ createApplication
  \/ handleCustomEvent \/ wakeAll \/ ReportStopped
  \/ Join \/ JoinTimesOut \/ Return

Next ==
  \/ StartService \/ Controller
  \/ Dispatching \/ Starting
  \/ \E t \in Thread : handler(t)
  \/ MainThread \/ AcquireTimesOut \/ RemoteCommand \/ Crash
  \/ RegisterFails \/ createApplicationFails

Spec == Init /\ [][Next]_vars

(* Every thread gets on; nobody has to send controls, nothing has to fail, *)
(* and no timeout has to run out except where nothing else can happen.     *)
Fairness ==
  /\ WF_vars(Dispatching)
  /\ WF_vars(Starting)
  /\ \A t \in Thread : WF_vars(handler(t))
  /\ WF_vars(MainThread)

FairSpec == Spec /\ Fairness

-----------------------------------------------------------------------------
\* Types; a semaphore and the event queue never hold more than one.
ServiceTypeOK ==
  /\ scm \in Statuses /\ status \in Statuses
  /\ main \in MainPlaces
  /\ pc \in [Thread -> Places]
  /\ code \in [Thread -> Controls \cup {"startup", "none"}]
  /\ sent \in [Thread -> Statuses]
  /\ events \in {<<>>} \cup {<<e>> : e \in (Controls \cup {"startup"})}
  /\ startSemaphore \in 0..1 /\ startSemaphore2 \in 0..1
  /\ called \in Controls \cup {"startup", "none"}
  /\ guardian \in {"none", "guarding", "paused"}
  /\ late \in BOOLEAN

(* A thread wakes from condition.wait only after main obeyed its own       *)
(* event: the two threads share the condition, and wait returns to either. *)
AnswersItsOwn ==
  \A t \in Thread : At(t, "woken") => called = Event(code[t]) /\ events = <<>>

\* An event is posted only while controllerHandler exists.
ReceiverExists ==
  (\E t \in Thread : At(t, "posted")) => main \in {"loop", "obeyed"} \/ late

(* When the event loop has ended, and sysCleanup may delete the mutex and  *)
(* the condition, serviceMain's thread is past both: it is never asked to  *)
(* lock what is gone, and never left waiting for a loop that has ended.    *)
StarterPastMutex ==
  main \in {"quit", "ended", "cleaned"} =>
    pc["starter"] \in {"unlocked", "reporting", "over"}

(* The SCM knows the status of the service, unless a report of handler's,  *)
(* which reads it without the mutex, was overtaken by the next control.    *)
ScmAgrees == ~late /\ status # "stopped" => scm = status

\* A service that is reported stopped has no guardian any more.
StoppedUnguarded == scm = "stopped" => guardian = "none"

-----------------------------------------------------------------------------
(* The abstract service owes what has been posted and not handled.  One    *)
(* that was overtaken counts as ended, and promises nothing.               *)
Life == INSTANCE ServiceLife WITH
  status <- IF late THEN "stopped" ELSE status,
  owed <- IF late \/ events = <<>> THEN "none" ELSE Head(events)

(* One request at a time is announced, handed to MyService once and then   *)
(* confirmed; all of it happens.                                           *)
ImplementsServiceLife == Life!LifeSpec

(* The dispatcher comes back from handler: it can take the next control.   *)
ControlsReturn ==
  At("dispatcher", "entered") ~> (At("dispatcher", "idle") \/ At("dispatcher", "none") \/ late)

\* A stop that was passed on stops the service.
StopCompletes ==
  (At("dispatcher", "entered") /\ code["dispatcher"] = "stop") ~> (scm = "stopped" \/ late)

\* serviceMain has ended without handler: the event loop runs and gets no events.
Unregistered == At("starter", "over") /\ code["starter"] = "none"

(* A start ends with a service that runs or has stopped, unless handler    *)
(* could not be registered: then the SCM is told nothing any more.         *)
StartCompletes == (scm = "startPending") ~> (scm # "startPending" \/ Unregistered)
=============================================================================
