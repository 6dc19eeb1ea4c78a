----------------------------- MODULE LiveLemmas -----------------------------
(* What the operators of Host keep true, for any number of processes and   *)
(* any size of buffer.                                                     *)
EXTENDS KeepLive, FiniteSetTheorems, TLAPS

(* Delivering to a buffer keeps the kind of messages it holds, whether the *)
(* datagram is appended or dropped.                                        *)
LEMMA DeliverType ==
  ASSUME NEW S, NEW buffer \in Seq(S), NEW m \in S
  PROVE  Deliver(buffer, m) \in Seq(S)
  BY DEF Deliver

(* Taking the first datagram of a buffer yields one of its messages and    *)
(* leaves the others.                                                      *)
LEMMA TakeType ==
  ASSUME NEW S, NEW buffer \in Seq(S), buffer # <<>>
  PROVE  Head(buffer) \in S /\ Tail(buffer) \in Seq(S)
  OBVIOUS

(* The bytes a client sends back are a number of the reply's type.         *)
LEMMA ReplyType ==
  ASSUME NEW id \in PacketID
  PROVE  Reply(id) \in ToSvc
  BY DEF ToSvc, ReplyMsg

(* What a socket sends is of the type the other side's buffer holds.       *)
LEMMA InboxType ==
  ASSUME HostTypeOK, NEW m \in ToApp
  PROVE  Inbox(m) \in Seq(ToApp)
  <1>1. Deliver(toApp, m) \in Seq(ToApp)
    BY DeliverType DEF HostTypeOK
  <1> QED
    BY <1>1 DEF Inbox, HostTypeOK

LEMMA OutboxType ==
  ASSUME HostTypeOK, NEW m \in ToSvc, NEW port
  PROVE  Outbox(m, port) \in Seq(ToSvc)
  <1>1. Deliver(toSvc, m) \in Seq(ToSvc)
    BY DeliverType DEF HostTypeOK
  <1> QED
    BY <1>1 DEF Outbox, HostTypeOK

\* The variables that processes dying or being killed may change.
ProcessesTypeOK ==
  /\ proc \in [Proc -> {"none", "starting", "up", "hung", "dying"}]
  /\ bound \in Proc \cup {NoProc}
  /\ taskkill \in 0..MaxTaskkill
  /\ toApp \in Seq(ToApp)

LEMMA DieType ==
  ASSUME HostTypeOK, NEW dead, NEW inbox \in Seq(ToApp), Die(dead, inbox)
  PROVE  /\ proc' \in [Proc -> {"none", "starting", "up", "hung", "dying"}]
         /\ bound' \in Proc \cup {NoProc}
         /\ toApp' \in Seq(ToApp)
  <1>1. <<>> \in Seq(ToApp)
    OBVIOUS
  <1> QED
    BY <1>1 DEF Die, HostTypeOK

LEMMA KillAppType ==
  ASSUME HostTypeOK, NEW inbox \in Seq(ToApp), killApp(inbox)
  PROVE  ProcessesTypeOK'
  <1>1. CASE runTaskkill(inbox)
    BY <1>1, TaskkillAssumption DEF runTaskkill, HostTypeOK, ProcessesTypeOK
  <1>2. CASE killAll(inbox)
    BY <1>2 DEF killAll, HostTypeOK, ProcessesTypeOK
  <1>3. CASE toApp' = inbox /\ UNCHANGED <<proc, bound, taskkill>>
    BY <1>3 DEF HostTypeOK, ProcessesTypeOK
  <1> QED
    BY <1>1, <1>2, <1>3 DEF killApp, killProcess

(* A launch turns at most one free slot into a starting process.           *)
LEMMA LaunchType ==
  ASSUME HostTypeOK, startDetached
  PROVE  proc' \in [Proc -> {"none", "starting", "up", "hung", "dying"}]
  BY DEF startDetached, HostTypeOK, Running

(* The body of startApp keeps the counters within their bounds.            *)
LEMMA StartAppBodyType ==
  ASSUME HostTypeOK, GuardTypeOK, NEW launches \in 0..MaxReStartCount,
         NEW pending \in SUBSET Shots, startAppBody(launches, pending)
  PROVE  /\ proc' \in [Proc -> {"none", "starting", "up", "hung", "dying"}]
         /\ reStartCount' \in 0..MaxReStartCount
         /\ ini' \in 0..MaxReStartCount
         /\ count' = 0
         /\ ok' = TRUE
         /\ shots' = pending \cup {"beginTimeOut"}
  <1>1. CASE reStartCount' = launches /\ UNCHANGED <<proc, ini>>
    BY <1>1 DEF startAppBody, beginTimeOutTimer, HostTypeOK, GuardTypeOK
  <1>2. CASE startDetached /\ CountLaunch(launches)
    BY <1>2, LaunchType, ReStartAssumption
    DEF startAppBody, beginTimeOutTimer, CountLaunch, GuardTypeOK
  <1> QED
    BY <1>1, <1>2 DEF startAppBody, launchUnlessExists

(* Killing leaves no datagram in the buffer of a socket that is closed.    *)
LEMMA DieBuffers ==
  ASSUME NEW dead, NEW inbox, Die(dead, inbox), bound = NoProc => inbox = <<>>
  PROVE  bound' = NoProc => toApp' = <<>>
  BY DEF Die

LEMMA KillAppBuffers ==
  ASSUME NEW inbox, killApp(inbox), bound = NoProc => inbox = <<>>
  PROVE  bound' = NoProc => toApp' = <<>>
  <1>1. CASE runTaskkill(inbox)
    BY <1>1 DEF runTaskkill
  <1>2. CASE killAll(inbox)
    BY <1>2 DEF killAll
  <1>3. CASE toApp' = inbox /\ UNCHANGED <<proc, bound, taskkill>>
    BY <1>3
  <1> QED
    BY <1>1, <1>2, <1>3 DEF killApp, killProcess

(* Killing starts no process.                                              *)
LEMMA KillAppShrinks ==
  ASSUME HostTypeOK, NEW inbox, killApp(inbox)
  PROVE  Running' \subseteq Running
  <1>1. CASE killAll(inbox)
    BY <1>1 DEF killAll, Running, HostTypeOK
  <1>2. CASE UNCHANGED proc
    BY <1>2 DEF Running
  <1> QED
    BY <1>1, <1>2 DEF killApp, killProcess, runTaskkill

(* With an exact process list a launch happens only when nothing runs.     *)
LEMMA LaunchAlone ==
  ASSUME HostTypeOK, FALSE \in IsExistProcess, startDetached,
         Platform = "windows" \/ (Platform = "linux_arm" /\ OperateParameter)
  PROVE  \A p, q \in Running' : p = q
  <1>1. Running = {}
    BY DEF IsExistProcess, WinIsExistProcess, LinuxIsExistProcess
  <1> QED
    BY <1>1 DEF startDetached, Running, HostTypeOK

-----------------------------------------------------------------------------
(* Identifiers.                                                            *)

\* A set of naturals that is not empty has a least element.
LEMMA LeastExists ==
  ASSUME NEW T \in SUBSET Nat, T # {}
  PROVE  \E n \in T : \A m \in T : n <= m
  <1> DEFINE below == {0..n : n \in T}
  <1>1. \A n \in T : 0..n \in FiniteSubsetsOf(Nat)
    BY FS_Interval DEF FiniteSubsetsOf
  <1>2. below \subseteq FiniteSubsetsOf(Nat) /\ below # {}
    BY <1>1
  <1>3. PICK b \in below : \A c \in below : <<c, b>> \notin StrictSubsetOrdering(Nat)
    BY <1>2, FS_StrictSubsetOrderingWellFounded, WFMin
  <1>4. PICK n \in T : b = 0..n
    OBVIOUS
  <1>5. ASSUME NEW m \in T, m < n
        PROVE  FALSE
    <2>1. 0..m \in below /\ 0..m \subseteq Nat /\ 0..n \subseteq Nat
      OBVIOUS
    <2>2. 0..m \subseteq 0..n /\ 0..m # 0..n
      BY <1>5
    <2> QED
      BY <1>3, <1>4, <2>1, <2>2 DEF StrictSubsetOrdering
  <1> QED
    BY <1>5

\* A buffer carries no more identifiers than datagrams.
LEMMA FieldsFinite ==
  ASSUME NEW S, NEW buffer \in Seq(S), NEW D \in SUBSET DOMAIN buffer, NEW f
  PROVE  IsFiniteSet({f[i] : i \in D}) /\ Cardinality({f[i] : i \in D}) <= Len(buffer)
  <1> DEFINE ids == {f[i] : i \in D}
             g == [i \in D |-> f[i]]
  <1>1. IsFiniteSet(1..Len(buffer)) /\ Cardinality(1..Len(buffer)) = Len(buffer)
    <2>1. Len(buffer) \in Nat
      OBVIOUS
    <2> QED
      BY <2>1, FS_Interval
  <1>2. IsFiniteSet(D) /\ Cardinality(D) <= Len(buffer)
    <2>1. D \in SUBSET (1..Len(buffer))
      OBVIOUS
    <2> QED
      BY <1>1, <2>1, FS_Subset
  <1>3. g \in Surjection(D, ids)
    BY DEF Surjection
  <1>4. IsFiniteSet(ids) /\ Cardinality(ids) <= Cardinality(D)
    BY <1>2, <1>3, FS_Surjection
  <1> QED
    BY <1>2, <1>4, FS_CardinalityType

LEMMA InFlightSmall ==
  ASSUME HostTypeOK
  PROVE  IsFiniteSet(InFlight) /\ Cardinality(InFlight) <= Len(toApp) + Len(toSvc)
  <1> DEFINE hearts == {j \in DOMAIN toApp : toApp[j].type = "heart"}
             replies == {j \in DOMAIN toSvc : toSvc[j].type = "reply"}
             heartID == [j \in DOMAIN toApp |-> toApp[j].packetID]
             replyID == [j \in DOMAIN toSvc |-> toSvc[j].of]
             A == {heartID[i] : i \in hearts}
             B == {replyID[i] : i \in replies}
  <1>1. InFlight = A \cup B
    BY DEF InFlight
  <1>2. IsFiniteSet(A) /\ Cardinality(A) <= Len(toApp)
    <2>1. toApp \in Seq(ToApp) /\ hearts \in SUBSET DOMAIN toApp
      BY DEF HostTypeOK
    <2> HIDE DEF hearts, heartID
    <2> QED
      BY <2>1, FieldsFinite
  <1>3. IsFiniteSet(B) /\ Cardinality(B) <= Len(toSvc)
    <2>1. toSvc \in Seq(ToSvc) /\ replies \in SUBSET DOMAIN toSvc
      BY DEF HostTypeOK
    <2> HIDE DEF replies, replyID
    <2> QED
      BY <2>1, FieldsFinite
  <1>4. /\ IsFiniteSet(A \cup B)
        /\ Cardinality(A \cup B) = Cardinality(A) + Cardinality(B) - Cardinality(A \cap B)
    BY <1>2, <1>3, FS_Union
  <1>5. IsFiniteSet(A \cap B)
    BY <1>2, FS_Subset
  <1>6. Cardinality(A) \in Nat /\ Cardinality(B) \in Nat /\ Cardinality(A \cap B) \in Nat
    BY <1>2, <1>3, <1>5, FS_CardinalityType
  <1> HIDE DEF A, B
  <1>7. Len(toApp) \in Nat /\ Len(toSvc) \in Nat
    BY DEF HostTypeOK
  <1> QED
    BY <1>1, <1>2, <1>3, <1>4, <1>6, <1>7
=============================================================================
