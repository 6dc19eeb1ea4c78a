---------------------------- MODULE AppKeepLive -----------------------------
(***************************************************************************)
(* The client side: the AppKeepLive object inside the guarded application, *)
(* the application's own start and end, and what a user does to it.        *)
(* Only the process that owns the port exchanges datagrams, so one copy of *)
(* the object's fields is kept, for that process.                          *)
(***************************************************************************)
EXTENDS Host

VARIABLES
  senderPort,   \* _senderPort: where the last datagram came from
  remotePause,  \* RemotePause
  remoteStart   \* RemoteStart

clientVars == <<senderPort, remotePause, remoteStart>>

\* The process whose event loop serves the application's socket.
Serving == bound # NoProc /\ proc[bound] = "up"

(* The application finishes starting: main calls start(60001), which binds *)
(* the port unless another instance has it.                                *)
AppStart(p) ==
  /\ proc[p] = "starting"
  /\ proc' = [proc EXCEPT ![p] = "up"]
  /\ IF bound = NoProc
       THEN /\ bound' = p
            /\ senderPort' = NoPort
            /\ remotePause' = FALSE
            /\ remoteStart' = TRUE
       ELSE UNCHANGED <<bound, clientVars>>
  /\ UNCHANGED <<taskkill, toApp, toSvc, sock>>

\* Mutant of ReadHeart: the sender is remembered once and for all.
ReadHeartKeepsPort ==
  /\ Serving
  /\ toApp # <<>> /\ Head(toApp).type = "heart"
  /\ LET m == Head(toApp) IN
       /\ senderPort' = IF senderPort = NoPort THEN m.src ELSE senderPort
       /\ toSvc' = Outbox(Reply(m.packetID), m.src)
  /\ toApp' = Tail(toApp)
  /\ UNCHANGED <<proc, bound, taskkill, sock, remotePause, remoteStart>>

\* readData takes a heartbeat and answers it where it came from.
ReadHeart ==
  /\ Serving
  /\ toApp # <<>> /\ Head(toApp).type = "heart"
  /\ LET m == Head(toApp) IN
       /\ senderPort' = m.src
       /\ toSvc' = Outbox(Reply(m.packetID), m.src)
  /\ toApp' = Tail(toApp)
  /\ UNCHANGED <<proc, bound, taskkill, sock, remotePause, remoteStart>>

\* readData takes the answer to a remote command.
ReadAck ==
  /\ Serving
  /\ toApp # <<>> /\ Head(toApp).type = "ack"
  /\ LET m == Head(toApp) IN
       /\ senderPort' = m.src
       /\ remoteStart' = IF m.object = "start" THEN m.value ELSE remoteStart
       /\ remotePause' = IF m.object = "pause" THEN m.value ELSE remotePause
  /\ toApp' = Tail(toApp)
  /\ UNCHANGED <<proc, bound, taskkill, toSvc, sock>>

(* setRemotePause, setRemoteStart and RemoteRestart: a command goes to     *)
(* whoever last sent a datagram.  RemoteRestart always says TRUE.          *)
sendRemoteCMD(object, value) ==
  /\ Serving
  /\ object = "restart" => value
  /\ toSvc' = Outbox(Cmd(object, value), senderPort)
  /\ UNCHANGED <<proc, bound, taskkill, toApp, sock, clientVars>>

\* A second instance finds the lock file taken and ends by itself.
DuplicateExit(p) ==
  /\ proc[p] = "up" /\ bound # p
  /\ Die({p}, toApp)
  /\ UNCHANGED <<taskkill, toSvc, sock, clientVars>>

\* The application crashes, or its user closes it.
AppExit(p) ==
  /\ "crash" \in Faults
  /\ p \in Running
  /\ Die({p}, toApp)
  /\ UNCHANGED <<taskkill, toSvc, sock, clientVars>>

\* The application's event loop stops turning (the demo's while(1)).
AppHang(p) ==
  /\ "hang" \in Faults
  /\ proc[p] = "up"
  /\ proc' = [proc EXCEPT ![p] = "hung"]
  /\ UNCHANGED <<bound, taskkill, toApp, toSvc, sock, clientVars>>

\* A long computation ends and the event loop turns again.
AppRecover(p) ==
  /\ "recover" \in Faults
  /\ proc[p] = "hung"
  /\ proc' = [proc EXCEPT ![p] = "up"]
  /\ UNCHANGED <<bound, taskkill, toApp, toSvc, sock, clientVars>>

\* A user launches the application by hand.
UserOpens(p) ==
  /\ "open" \in Faults
  /\ proc[p] = "none"
  /\ proc' = [proc EXCEPT ![p] = "starting"]
  /\ UNCHANGED <<bound, taskkill, toApp, toSvc, sock, clientVars>>

ClientInit ==
  /\ senderPort = NoPort
  /\ remotePause = FALSE
  /\ remoteStart = TRUE

ClientTypeOK ==
  /\ senderPort \in Port \cup {NoPort}
  /\ remotePause \in BOOLEAN
  /\ remoteStart \in BOOLEAN
=============================================================================
