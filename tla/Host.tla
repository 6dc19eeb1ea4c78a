-------------------------------- MODULE Host --------------------------------
(***************************************************************************)
(* The machine the keep-alive service and the guarded application share:   *)
(* the application's processes, the datagrams between the two programs and *)
(* the services of the operating system they call (process list, kill,     *)
(* launch).  The modules of the two programs extend this one.              *)
(***************************************************************************)
EXTENDS Integers, Sequences, FiniteSets

CONSTANTS
  Proc,              \* the slots a process of the guarded application may take
  NoProc,            \* no process
  Platform,          \* which of ISysWin and ISysLinux the service is built with
  OperateParameter,  \* TRUE when the application is launched with arguments
  AppInstalled,      \* the executable is where the service looks for it
  PacketID,          \* the heartbeat identifiers: milliseconds since the epoch
  NoPacket,          \* the empty _packetID
  IdModulus,         \* QVariant::toUInt keeps an identifier modulo 2^32
  RemoteObject,      \* what a remote command may name: "start", "pause", "restart"
  Port,              \* the local ports the service's socket may be given
  NoPort,            \* the socket is not bound
  BufferSize,        \* datagrams a socket's receive buffer holds
  MaxTaskkill,       \* bound: taskkill processes under way at once
  Faults             \* what the run lets go wrong or lets a user do

Platforms == {"windows", "linux", "linux_arm"}

FaultKinds ==
  {"crash", "hang", "recover", "open", "launchFail", "killFail",
   "serviceCrash", "controller"}

ASSUME ProcAssumption == IsFiniteSet(Proc) /\ NoProc \notin Proc
ASSUME PlatformAssumption == Platform \in Platforms
ASSUME ParameterAssumption == OperateParameter \in BOOLEAN /\ AppInstalled \in BOOLEAN
ASSUME PacketAssumption == PacketID \subseteq Nat /\ NoPacket \notin Nat
ASSUME ModulusAssumption == IdModulus \in Nat \ {0}
ASSUME RemoteAssumption == RemoteObject \subseteq {"start", "pause", "restart"}
ASSUME PortAssumption == Port # {} /\ NoPort \notin Port
ASSUME BufferAssumption == BufferSize \in Nat \ {0}
ASSUME TaskkillAssumption == MaxTaskkill \in Nat \ {0}
ASSUME FaultsAssumption == Faults \subseteq FaultKinds

VARIABLES
  proc,      \* what each process of the application is doing
  bound,     \* the process that owns the application's port
  taskkill,  \* taskkill processes started and not yet finished
  toApp,     \* the receive buffer of the application's socket
  toSvc,     \* the receive buffer of the service's socket
  sock       \* the local port of the service's socket

hostVars == <<proc, bound, taskkill, toApp, toSvc, sock>>

-----------------------------------------------------------------------------
(* Datagrams.  Reply carries in "of" the identifier of the heartbeat it    *)
(* answers, which the program does not see, beside the number that travels.*)

Heart(id, port) == [type |-> "heart", packetID |-> id, src |-> port]
Ack(object, value, port) ==
  [type |-> "ack", object |-> object, value |-> value, src |-> port]
Echo(id) == id % IdModulus
Reply(id) == [type |-> "reply", packetID |-> Echo(id), of |-> id]
Cmd(object, value) == [type |-> "cmd", object |-> object, value |-> value]

(* The clock only goes forward: what is left of an identifier, which is    *)
(* never more than the identifier, is not one taken later.  The model uses *)
(* the members of PacketID over and over, so that none may be the rest of  *)
(* another.                                                                *)
ASSUME EchoAssumption ==
  \A id, other \in PacketID : Echo(id) = other => id = other

HeartMsg == [type : {"heart"}, packetID : PacketID, src : Port]
AckMsg == [type : {"ack"}, object : RemoteObject, value : BOOLEAN, src : Port]
ReplyMsg == {Reply(id) : id \in PacketID}
CmdMsg == [type : {"cmd"}, object : RemoteObject, value : BOOLEAN]

ToApp == HeartMsg \cup AckMsg
ToSvc == ReplyMsg \cup CmdMsg

(* A full receive buffer drops what arrives; loopback loses nothing else.  *)
Deliver(buffer, m) ==
  IF Len(buffer) < BufferSize THEN Append(buffer, m) ELSE buffer

\* The application's receive buffer once the service has sent it m.
Inbox(m) == IF bound = NoProc THEN toApp ELSE Deliver(toApp, m)

\* The service's receive buffer once the application has sent m to a port.
Outbox(m, port) ==
  IF sock # NoPort /\ port = sock THEN Deliver(toSvc, m) ELSE toSvc

-----------------------------------------------------------------------------
(* Processes of the guarded application.                                   *)

Running == {p \in Proc : proc[p] # "none"}

\* The processes in "dead" end; the buffer of a socket goes with its owner.
Die(dead, inbox) ==
  /\ proc' = [p \in Proc |-> IF p \in dead THEN "none" ELSE proc[p]]
  /\ bound' = IF bound \in dead THEN NoProc ELSE bound
  /\ toApp' = IF bound \in dead THEN <<>> ELSE inbox

(* What the process list may answer.  Windows takes a snapshot of every    *)
(* process.  Linux searches the output of ps for "/name " with a trailing  *)
(* space, which a command line without arguments does not have; on desktop *)
(* Linux the BSD option r hides the processes that are not running at that *)
(* instant.                                                                *)
WinIsExistProcess == {Running # {}}

LinuxIsExistProcess ==
  IF Platform = "linux" /\ OperateParameter /\ Running # {} THEN BOOLEAN
  ELSE {OperateParameter /\ Running # {}}

IsExistProcess ==
  IF Platform = "windows" THEN WinIsExistProcess ELSE LinuxIsExistProcess

(* killall sends SIGTERM to every process of that name and returns: they   *)
(* run no code of their own any more and end when the system comes to it.  *)
(* Or it may not signal them.                                              *)
killAll(inbox) ==
  /\ \/ proc' = [p \in Proc |-> IF p \in Running THEN "dying" ELSE "none"]
     \/ "killFail" \in Faults /\ UNCHANGED proc
  /\ toApp' = inbox
  /\ UNCHANGED <<bound, taskkill>>

\* runCommand starts taskkill and does not wait for it.
runTaskkill(inbox) ==
  /\ taskkill' = IF taskkill < MaxTaskkill THEN taskkill + 1 ELSE taskkill
  /\ toApp' = inbox
  /\ UNCHANGED <<proc, bound>>

\* The machine has no room for another process, or the launch call fails.
LaunchMayFail == "launchFail" \in Faults \/ Running = Proc

\* startDetached and loadWindowsApplication: a new process, or none.
startDetached ==
  \/ \E p \in Proc \ Running : proc' = [proc EXCEPT ![p] = "starting"]
  \/ LaunchMayFail /\ UNCHANGED proc

-----------------------------------------------------------------------------
(* A taskkill under way ends: every process of that name dies, or the kill *)
(* is refused.                                                             *)
TaskkillEnds ==
  /\ taskkill > 0
  /\ taskkill' = taskkill - 1
  /\ \/ Die(Running, toApp)
     \/ "killFail" \in Faults /\ UNCHANGED <<proc, bound, toApp>>
  /\ UNCHANGED <<toSvc, sock>>

\* A process that was signalled ends, its sockets with it.
Terminates(p) ==
  /\ proc[p] = "dying"
  /\ Die({p}, toApp)
  /\ UNCHANGED <<taskkill, toSvc, sock>>

KillEnds == TaskkillEnds \/ \E p \in Proc : Terminates(p)

\* A kill that was ordered is not over.
KillUnderWay == taskkill > 0 \/ \E p \in Proc : proc[p] = "dying"

HostTypeOK ==
  /\ proc \in [Proc -> {"none", "starting", "up", "hung", "dying"}]
  /\ bound \in Proc \cup {NoProc}
  /\ taskkill \in 0..MaxTaskkill
  /\ toApp \in Seq(ToApp)
  /\ toSvc \in Seq(ToSvc)
  /\ sock \in Port \cup {NoPort}

\* A socket that is not open holds no datagram.
BuffersOwned ==
  /\ bound = NoProc => toApp = <<>>
  /\ sock = NoPort => toSvc = <<>>

HostInit ==
  /\ proc = [p \in Proc |-> "none"]
  /\ bound = NoProc
  /\ taskkill = 0
  /\ toApp = <<>>
  /\ toSvc = <<>>
  /\ sock = NoPort
=============================================================================
