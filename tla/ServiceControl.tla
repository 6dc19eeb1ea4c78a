--------------------------- MODULE ServiceControl ---------------------------
(***************************************************************************)
(* How the service is started and stopped on Unix: command-line processes  *)
(* talk to the service over a socket whose path is the only lock there is. *)
(* A service that runs ("up") has a guardian; MyService models what it     *)
(* does.                                                                   *)
(***************************************************************************)
EXTENDS FiniteSets

CONSTANTS
  Client,    \* the slots of command-line processes
  Service,   \* the slots of service processes
  Nobody,    \* no service
  Stale,     \* the path names a socket whose process is dead
  Patient,   \* TRUE: nobody starts the service while another starts or stops it
  Killable   \* the phases a service process may be killed in

ASSUME PatientAssumption == Patient \in BOOLEAN
ASSUME NobodyAssumption == Nobody \notin Service /\ Stale \notin Service

VARIABLES
  phase,   \* what each service process is doing
  owns,    \* its path_ is not empty: it bound the path once
  path,    \* the service whose socket the path names
  asks,    \* what each client waits an answer to
  peer     \* the service each client is connected to

controlVars == <<phase, owns, path, asks, peer>>

Phases == {"none", "loaded", "unlinked", "up", "leaving", "closed"}

ASSUME KillableAssumption == Killable \subseteq Phases \ {"none"}

Listening(s) == phase[s] \in {"up", "leaving"}
Reached == IF path \in Service /\ Listening(path) THEN path ELSE Nobody

\* No service is coming up or ending, and no client waits for any of "whats".
Quiet(whats) ==
  /\ \A c \in Client : asks[c] \notin whats
  /\ \A s \in Service : phase[s] \in {"none", "up"}

(* QProcess::startDetached of the program itself, with QTSERVICE_RUN set.  *)
(* A slot is used again once its last client has noticed its end.          *)
Spawn == \E s \in Service :
  /\ phase[s] = "none" /\ \A c \in Client : peer[c] # s
  /\ phase' = [phase EXCEPT ![s] = "loaded"]

Ask(c, what) ==
  /\ Reached # Nobody
  /\ asks' = [asks EXCEPT ![c] = what]
  /\ peer' = [peer EXCEPT ![c] = Reached]
  /\ UNCHANGED <<phase, owns, path>>

\* The program is run without arguments: is it alive?  If not, start it.
Start(c) ==
  /\ asks[c] = "nothing"
  /\ Patient => Quiet({"alive", "terminate"})
  /\ \/ Ask(c, "alive")
     \/ Reached = Nobody /\ Spawn /\ UNCHANGED <<owns, path, asks, peer>>

\* The program is run with -t; with nobody to connect to it says so and ends.
Terminate(c) ==
  /\ asks[c] = "nothing"
  /\ Patient => Quiet({"alive"})
  /\ Ask(c, "terminate")

-----------------------------------------------------------------------------
\* Mutant of Done: the connection stays open.
DoneStaysConnected(c) ==
  /\ asks' = [asks EXCEPT ![c] = "nothing"]
  /\ UNCHANGED peer

\* The end of what a client waited for.
Done(c) ==
  /\ asks' = [asks EXCEPT ![c] = "nothing"]
  /\ peer' = [peer EXCEPT ![c] = Nobody]

\* slotReady answers "alive": the start is refused, exec returns -4.
AnswerAlive(c) ==
  /\ asks[c] = "alive" /\ phase[peer[c]] = "up"
  /\ Done(c)
  /\ UNCHANGED <<phase, owns, path>>

\* Mutant of AnswerTerminate: the event loop is not told to quit.
AnswerOnly(c) ==
  /\ asks[c] = "terminate" /\ phase[peer[c]] = "up"
  /\ Done(c)
  /\ UNCHANGED <<phase, owns, path>>

\* slotReady stops the guardian, tells the event loop to quit and answers.
AnswerTerminate(c) ==
  /\ asks[c] = "terminate" /\ phase[peer[c]] = "up"
  /\ phase' = [phase EXCEPT ![peer[c]] = "leaving"]
  /\ Done(c)
  /\ UNCHANGED <<owns, path>>

\* Mutant of HangUp: a start that got no answer gives up.
HangUpGivesUp(c) ==
  /\ asks[c] # "nothing" /\ ~Listening(peer[c])
  /\ Done(c)
  /\ UNCHANGED <<phase, owns, path>>

(* The connection ends without an answer: the event loop stopped before it *)
(* read the command, or the process died.  A start goes on and spawns.     *)
HangUp(c) ==
  /\ asks[c] # "nothing" /\ ~Listening(peer[c])
  /\ IF asks[c] = "alive" THEN Spawn ELSE UNCHANGED phase
  /\ Done(c)
  /\ UNCHANGED <<owns, path>>

-----------------------------------------------------------------------------
\* Mutant of Unlink: setPath leaves what it finds at the path.
UnlinkNothing(s) ==
  /\ phase[s] = "loaded"
  /\ phase' = [phase EXCEPT ![s] = "unlinked"]
  /\ UNCHANGED <<owns, path, asks, peer>>

\* setPath removes whatever is at the path ...
Unlink(s) ==
  /\ phase[s] = "loaded"
  /\ phase' = [phase EXCEPT ![s] = "unlinked"]
  /\ path' = Nobody
  /\ UNCHANGED <<owns, asks, peer>>

(* ... and binds a socket of its own there.  If the path is taken again    *)
(* bind fails, and the service runs all the same, without a socket.        *)
Bind(s) ==
  /\ phase[s] = "unlinked"
  /\ phase' = [phase EXCEPT ![s] = "up"]
  /\ owns' = [owns EXCEPT ![s] = (path = Nobody)]
  /\ path' = IF path = Nobody THEN s ELSE path
  /\ UNCHANGED <<asks, peer>>

\* sysCleanup: the socket is closed ...
Close(s) ==
  /\ phase[s] = "leaving"
  /\ phase' = [phase EXCEPT ![s] = "closed"]
  /\ UNCHANGED <<owns, path, asks, peer>>

\* ... and the path removed, whoever's socket it names by then.
RemovePath(s) ==
  /\ phase[s] = "closed"
  /\ phase' = [phase EXCEPT ![s] = "none"]
  /\ owns' = [owns EXCEPT ![s] = FALSE]
  /\ path' = IF owns[s] THEN Nobody ELSE path
  /\ UNCHANGED <<asks, peer>>

\* The process is killed: its socket ends, its path stays.
Crash(s) ==
  /\ phase[s] \in Killable
  /\ phase' = [phase EXCEPT ![s] = "none"]
  /\ owns' = [owns EXCEPT ![s] = FALSE]
  /\ path' = IF path = s THEN Stale ELSE path
  /\ UNCHANGED <<asks, peer>>
-----------------------------------------------------------------------------
Init ==
  /\ phase = [s \in Service |-> "none"]
  /\ owns = [s \in Service |-> FALSE]
  /\ path \in {Nobody, Stale}
  /\ asks = [c \in Client |-> "nothing"]
  /\ peer = [c \in Client |-> Nobody]

ClientNext(c) ==
  \/ AnswerAlive(c)
  \/ AnswerTerminate(c)
  \/ HangUp(c)

ServiceNext(s) ==
  \/ Unlink(s)
  \/ Bind(s)
  \/ Close(s)
  \/ RemovePath(s)

Next ==
  \/ \E c \in Client : Start(c) \/ Terminate(c) \/ ClientNext(c)
  \/ \E s \in Service : ServiceNext(s) \/ Crash(s)

Spec == Init /\ [][Next]_controlVars

(* Every process gets on with what it began; nobody has to start or stop   *)
(* anything.                                                               *)
Fairness ==
  /\ \A c \in Client : WF_controlVars(ClientNext(c))
  /\ \A s \in Service : WF_controlVars(ServiceNext(s))

FairSpec == Spec /\ Fairness

-----------------------------------------------------------------------------
\* Types, and a client is connected just while it waits for an answer.
ControlTypeOK ==
  /\ phase \in [Service -> Phases]
  /\ owns \in [Service -> BOOLEAN]
  /\ path \in Service \cup {Nobody, Stale}
  /\ asks \in [Client -> {"nothing", "alive", "terminate"}]
  /\ peer \in [Client -> Service \cup {Nobody}]
  /\ \A c \in Client : asks[c] = "nothing" <=> peer[c] = Nobody

(* One service runs at most, so that the application has one guardian      *)
(* (main.cpp, "Allow one instance only").                                  *)
OneService == \A s, t \in Service : phase[s] = "up" /\ phase[t] = "up" => s = t

(* A service that runs can be stopped: the path names its socket, also     *)
(* after services were killed and left their path behind.                  *)
Reachable == \A s \in Service : phase[s] = "up" => path = s /\ owns[s]

(* A start that found a service ends with one that runs, even when the one *)
(* it asked was killed or ended before it answered.  (A service killed     *)
(* while it comes up is a start that failed, and nobody tries again.)      *)
StartsServed ==
  \A c \in Client : (asks[c] = "alive") ~> (\E s \in Service : phase[s] = "up")

(* A stop ends with no service that runs.                                  *)
StopsAll ==
  \A c \in Client :
    (asks[c] = "terminate") ~> (\A s \in Service : phase[s] # "up")
=============================================================================
