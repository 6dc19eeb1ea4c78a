# keeplive: verification project

keeplive is a Qt program that keeps another Qt application alive. A system
service (`livetoolservice`) sends the application a heartbeat over UDP every
`TimerHeartInterval` milliseconds; an application that stays silent for
`TimeoutCount` beats is killed and launched again. The application links a
small client class (`AppKeepLive`) which answers the heartbeats and can, in the
other direction, pause, stop or consult its guardian.

This directory holds TLA+ models of that system, the TLC configurations that
check them on small instances, and TLAPS proofs of the main safety theorems for
every value of the constants. `PROJECT.json` maps each definition to the source
lines it stands for.

    tlc -workers 2 -config live_windows.cfg MCLive.tla
    tlapm LiveProofs.tla

## 1. Inventory of the system

| Part | State | Operations |
| --- | --- | --- |
| `KeepLive` (`livetoolservice/myservice/keeplive.cpp`), the guardian | `count`, `ok`, `_packetID`, `_keeplive`, `_timerHeart`, pending single shots, the UDP socket | constructor, heartbeat timeout, `killApp`, `killOther`, `startApp`, `beginTimeOutTimer`, `readyRead` (answers and remote commands), `pause`, `resume`, destructor |
| `MyService` (`myservice.cpp`) | the pointer to the guardian | `start`, `stop`, `pause`, `resume`, the `serviceCmd` slot |
| `App` (`plugins/app.cpp`) | the configuration, read once per guardian; `ReStartCount`, written at each launch | `readConfig`, `writeConfig` |
| `ISysWin`, `ISysLinux`, `ProcessLoader` | none of their own: the machine's processes | process list, kill, launch |
| `AppKeepLive` (`livedemo/appkeeplive`) in the guarded application | `_senderAddress`/`_senderPort`, `RemotePause`, `RemoteStart`, the bound socket | `start`, `readData`, `setRemotePause`, `setRemoteStart`, `RemoteRestart` |
| `livedemo` | the lock file of one instance | hang button, crash button, exit of a second instance |
| `livetool` | `count`, `ok`, the timer, pending launches, the text of the button, `TargetAppName` and `ReStartCount` with their copy in `config.ini` | the older watchdog with a window, not in `live.pro`: heartbeat, launch, `readData`, three buttons; no identifiers, no remote commands |
| QtService on Unix (`qt-solutions/qtservice`, vendored) | the service processes, the path of the control socket, the commands under way | start, stop, pause, resume, custom commands |
| QtService on Windows (`qtservice_win.cpp`) | the status, a mutex and a condition, two semaphores, the event posted to the main thread | `serviceMain`, `handler` (start-up, stop, pause, continue, interrogate, shutdown, custom), `handleCustomEvent`, the main thread's `start` |

### How they interact

The guardian and the application exchange JSON datagrams on the loopback
interface. The application's port is fixed; the guardian's is given by the
system at its first send, so the application answers, and sends its commands,
to the sender of the last datagram it read. The guardian calls the operating
system to list, kill and launch processes. Neither way to kill waits for the end of
the application: `killall` signals it and returns, `taskkill` is started and left
alone. A remote
command is handled inside the guardian's `readyRead` callback, which emits a
signal that `MyService` obeys at once, also when obeying means deleting the
guardian whose callback is running.

### What is hard about it

- Everything of the guardian runs in one event loop, but four timers and the
  datagrams may come in any order; a recovery is spread over four callbacks
  (timeout, `killOther`, `startApp`, the shot of `beginTimeOutTimer`), and each
  of them must leave the next one scheduled, whichever of its steps failed.
- Answers are late, repeated or belong to a process that is gone: a hung
  application answers every heartbeat in its buffer when it recovers.
- The kill takes effect some time after the call, and nothing orders it before the
  look at the process list and the launch that follow. The service may die between
  the launch and the write of the file.
- Either side may die and come back, and the service then has another port.
- The same fact is kept twice: the pause in the guardian and, as
  `RemotePause`, in the application; `ReStartCount` in memory and in a file.
- Identifiers are 64-bit numbers on one side and 32-bit ones on the other.
- The delays (interval, 1 s and 3 s shots, the wait after a launch) only work
  together: the launch must come after the kill, an application that starts must
  not be judged by its predecessor's silence.
- On Windows a service process has three threads: the main one runs `MyService`,
  one is called with the controls of the service manager, one is Windows' own for
  `serviceMain`. The last two post an event to the first and wait for it on one
  condition; the status is sent once under the mutex and once outside it.
- On Unix the service has no lock but the path of its socket, which it unlinks
  when it comes up and again when it ends.

### What makes each part correct

- guardian: it is always on its way to the next heartbeat, and on one way
  only (`OneActivity`, `WatchResumes`); it should give the application up only after
  `TimeoutCount` unanswered beats (`KillNeedsSilence`, which fails for the identifiers
  of a clock of today) and does so only after that many for which no answer came back
  whole (`GivenUpUnheard`); it believes only an answer to what it asks now
  (`StaleReplyNeverCounts`), and then does replace the application (`HungReplaced`,
  `DeadRelaunched`); as a whole it behaves as the abstract `Watchdog` says
  (`ImplementsFairWatchdog`);
- launching: never a second process beside a running one
  (`AtMostOneInstance`); every launch is recorded (`RestartsRecorded`);
- client: it finds its guardian again (`AddressLearned`) and what it says of
  the pause is true (`MirrorAgrees`);
- durations: a hung or absent application lasts a bounded time (`HungBounded`,
  `DownBounded`), a healthy one is spared (`HealthySpared`), one that starts gets
  the whole patience (`StartGetsPatience`), a kill is over before the launch
  (`LaunchAfterKill`);
- service control: one service (`OneService`) that can be stopped (`Reachable`,
  `StopsAll`), and a start that ends with one (`StartsServed`);
- a Windows service: each thread is answered for its own request
  (`AnswersItsOwn`, `ControlsReturn`), by an object that exists
  (`ReceiverExists`, `StarterPastMutex`); the manager knows its status (`ScmAgrees`);
  a start and a stop end (`StartCompletes`, `StopCompletes`), the latter without a
  guardian (`StoppedUnguarded`); and it is an abstract service
  (`ImplementsServiceLife`);
- livetool: it guards when its button says so (`GuardsWhenItSays`), has one
  launch pending (`OneLaunchPending`), keeps one application (`OneApplication`) and
  launches a dead one (`DeadRelaunched`).

`PROJECT.json` lists the hazards with the line where each one bites.

## 2. Modules

    Host ─┬─ KeepLive ── MyService ──┐
          └─ AppKeepLive ────────────┴─ LiveSystem ─┬─ LiveHistory ── MCLive
                                                    ├─ LiveRefinement (INSTANCE Watchdog)
                                                    └─ LiveTimed
    ServiceControl (Unix), WindowsService (INSTANCE ServiceLife): when MyService is called
    LiveTool (on its own)
    proofs: LiveLemmas ─ LiveProofs ─┬─ HistoryProofs
                                     ├─ RefinementProofs
                                     └─ TimedProofs
            ServiceProofs, WindowsProofs, ToolProofs (of the modules they are named after)

**Host** is what the two programs share: the slots of the application's
processes (`proc`: none, starting, up, hung, dying), the process that owns the
application's port (`bound`), the two receive buffers (`toApp`, `toSvc`), the
service's port (`sock`) and the `taskkill` processes under way. It models the
calls to the operating system by what they do:
`WinIsExistProcess` sees every process. `LinuxIsExistProcess` searches `ps`
for the regular expression `.*/name .*`, with a space after the name, which a
command line without arguments does not have; on desktop Linux the option `r`
also hides every process that is not running at that instant, hence a
nondeterministic answer. No kill is over when the call returns. `killAll` signals
every process that runs: such a process is "dying", does nothing any more, is still in
the list and owns its port, until `Terminates` ends it. `runTaskkill` starts a
`taskkill` that ends all processes later (`TaskkillEnds`), including, when it is slow,
one launched in the meantime. Either may be refused (`killFail`). `KillEnds` is the
effect of a kill of either sort and `KillUnderWay` says that one is to come.
`startDetached` may fail.

**KeepLive** has one action per callback of the guardian. `HeartTimeout` is the
whole lambda: the send (which gives the socket its port), the counter, and the
recovery. `ReadReply` is the `response` branch of `readyRead`; `killOther`,
`startApp` and `beginTimeOut` are the single shots. `Construct` and `Destroy`
are the constructor (read the counter from the file, `initService`, `startApp`)
and the destructor. The heartbeat timer is a Boolean, and the pending shots a
set: `killOther` (1000 ms) and `startApp` (3000 ms) are scheduled together and
ordered by `startApp`'s guard.

**MyService** has the controller's operations (`ServiceStart`, `ServiceStop`,
`ServicePause`, `ServiceResume`), the crash of the service, between two callbacks
(`ServiceCrash`) or inside a launch when the application runs and `ReStartCount` is not
written (`ServiceCrashInLaunch`), and the commands read from the application. `ReadCommand` covers pause, resume and restart (which
the slot does not handle, and which is acknowledged all the same);
`ReadRemoteStop` is the stop that deletes the guardian in its own callback. The
callback then goes on with the deleted socket, which is undefined: the process
dies, or lives on with no guardian (`service` = "stopped"). No answer leaves in
either case, because the socket is gone.

**AppKeepLive** is the client and its application: `AppStart` binds the port
unless another instance owns it, `ReadHeart` and `ReadAck` are the branches of
`readData`, `sendRemoteCMD` is any of the three remote calls. `DuplicateExit`
is the end of a second instance that finds the lock taken; `AppExit`,
`AppHang`, `AppRecover` and `UserOpens` are what an application and its user
may do at any time. Only the owner of the port exchanges datagrams, so the
client's fields are kept once, for the owner.

**LiveSystem** composes them, gives the specification with and without
fairness, and states the properties. **LiveHistory** adds four history
variables that record what properties speak of: `silent` (beats since the
last genuine answer or launch), `unheard` (the same, but an answer whose identifier was
truncated does not end it), `old` (identifiers sent before the last recovery) and
`lost` (an acknowledgement was dropped). **Watchdog** is the abstract
specification: a guardian that asks, counts, gives up past its limit and never
while paused, launches, waits and asks again. **LiveRefinement** maps
`LiveSystem` to it: the mode is read off the timers, the abstract `misses` is 0
while `ok` holds and `count + 1` otherwise, because the code sends first and
counts at the next beat.

**LiveTimed** runs the actions of `LiveSystem` against clocks; a tick is a second.
`Delay` has the delays of the code (the wait after a launch, `TimeoutCount`
milliseconds, is no tick at all), `SetTimers` keeps what is left of each timer,
and time may pass (`Idle`) only when no timer is due and the application and
kills keep within the delays named by constants: `StartupTime`, `ReplyTime`,
`KillTime`. `since` is the age of each process's state, `killing` that of the kill
ordered last.

**ServiceControl** is QtService on Unix, which decides when `MyService` starts and
stops. A client runs the program without arguments (`Start`: `sendCmd("alive")`,
then `startDetached`) or with `-t` (`Terminate`); a service comes up in two steps,
`Unlink` and `Bind`, as `setPath` does, and ends in two, `Close` and
`RemovePath`. A client waits without a limit for its answer; `HangUp` is the end
of a connection nobody answered. A path may outlive its service (`Stale`).
`Patient` says that the operator keeps a start apart from other starts and from
stops. Pause, resume and numbered commands do no more than call `MyService`,
and appear there; with `-e` the service opens no socket.

**WindowsService** is QtService on Windows. `main`, `pc["starter"]` and
`pc["dispatcher"]` say where the three threads are. `handler` is split where
another thread can see the difference: `Post` locks the mutex, sets the status
and posts the event; `Wait` is the wait, which unlocks; `Finish` locks again and
sets the final status; `ReadStatus` and `ReportStatus` are "Report current
status", after the unlock. `handleCustomEvent` calls `MyService`, `wakeAll` takes
the mutex and wakes whoever waits. The mutex is held exactly while a thread is at
"posted" (`Unlocked`). `AcquireStart`, `createApplication`, `ReportStopped`, `Join`
and `Return` are `QtServiceBasePrivate::start`, with its time-outs of 20 s
(`AcquireTimesOut`) and of 1 s (`JoinTimesOut`). Each early return is an action:
the connection fails (`ConnectFails`), `handler` cannot be registered
(`RegisterFails`: "cannot happen" in the code; the event loop then runs and no control
ever reaches it), there is no application (`createApplicationFails`). `MyService` is
there as the state of its guardian (`Obeyed`), which remote commands change too
(`RemoteCommand`). The service manager is external: it sends one control at a time and waits for
`handler` to return, none while its status is pending for a start or stop or
after a shutdown, and starts a process only when the last one has ended.
The history variable `late` is set when a control enters `handler` before the
starter has left it, and when main did not wait for the dispatcher; it marks
what the code does not protect.
**ServiceLife** is the abstract service: it accepts one request when it has
settled, hands it over once, confirms it and settles again, or ends.

**LiveTool** is `livetool` with its clocks, in the same manner as `LiveTimed`:
`sendHearData`, `startApp`, `readData`, the buttons as actions of their own, and
the configuration file, which takes an empty value for damage and is then
replaced by the defaults. A process it launches starts first and takes the port
later (`AppStarts`), or the launch fails. Names are typed while it guards, so a
recovery may be that of another name, which leaves the application that runs alive, as does one that
comes before the application holds its segment (`SegmentExists`); the history variable
`spared` records both, and `OneApplication` speaks of states without it. Its
application is the one its protocol implies: it answers "hello" with "OK" and holds a shared memory segment of its name.
(`livedemo` has since moved to the protocol of `AppKeepLive`.)

### Abstractions

- Both `readyRead` handlers loop over the pending datagrams; the model takes one
  datagram per step, so that other callbacks may come between two of them. This
  allows every behaviour of the loop and more.
- The text of a datagram is a record with what the handlers look at. `Reply`
  has beside the number that travels a field `of`, the identifier it was
  made for; only `InFlight` and the history variables read it.
- An identifier is the clock's time. It is later than all those sent before, so
  an identifier in use nowhere any more can stand for a new one: `HeartID` takes
  the least unused element of `PacketID`. Nothing in the code compares
  identifiers except for equality. When all of `PacketID` is in flight the
  guardian cannot take a new one; the runs have enough of them for this
  never to happen (one per place in the two buffers, and one: `BeatAlwaysHasIdentifier`).
- `Echo` is `QVariant::toUInt`: it keeps the low 32 bits of a 64-bit number
  (`IdModulus` stands for 2^32). Milliseconds since 1970 fit in 32 bits only
  during the first 50 days of 1970, which is where the clock of a board without
  battery starts. Runs with `PacketID` below `IdModulus` show the protocol as it was
  meant, `live_wide_ids` what happens with today's clock, and `live_windows` has
  identifiers of both sorts. No theorem assumes that identifiers fit. Two say
  in their statement what becomes of those that do not: `PatienceNeverShortened`
  counts their answers as silence, `HealthyAreSpared` excepts the beats that wait for
  one. `WideIdsKillServing` is about identifiers none of which fits.
- The remainder of an identifier is less than the identifier, and the clock does not go
  back: it is no identifier taken later. Since the model uses its identifiers again,
  `EchoAssumption` says that none is the remainder of another.
- The desktop shell and crash dialogs that `killOther` ends are not part of the
  state. Window title, log and default application name are left out, and so is
  an empty `TargetAppName`, which the constructor replaces.
- Fields of an object that does not exist have one fixed value (`Forget`).

## 3. Runs

| Run | Platform and faults | Shows |
| --- | --- | --- |
| `live_windows` | Windows, two processes, two ports; crashes, hangs that end, failed launches and kills, service crashes, controller; identifiers that fit and that do not | types; `OneActivity`, `AtMostOneInstance`, `RestartsRecorded`, `GivenUpUnheard`, `StaleReplyNeverCounts` |
| `live_mirror` | ARM Linux; remote pause and restart, hangs that end or are replaced | `MirrorAgrees` |
| `live_wide_ids` | Windows, no fault at all, identifiers above `IdModulus` | `KillNeedsSilence` is violated |
| `live_replaced` | Windows, two processes, two ports; hangs that end or not, crashes on both sides, failed launches, remote pause; fair | `HungReplaced`, `DeadRelaunched`, `AddressLearned` |
| `live_linux` | desktop Linux, the application left alone when the guardian is deleted (`ExitDestoryApp` false), two processes; hangs, crashes on both sides, failed launches, controller, a user who launches, remote pause and stop; fair | `ImplementsFairWatchdog`, `DeadRelaunched`, `WatchResumes` |
| `live_linux_hung` | desktop Linux, no arguments; fair | `HungReplaced` is violated |
| `timed_windows` | Windows in seconds; crashes, hangs that end or not, slow starts | `HungBounded`, `DownBounded`, `HealthySpared`, `StartGetsPatience`, `LaunchAfterKill` |
| `timed_startup` | the settings of the ARM build, no fault | `StartupTimeRespected` is violated |
| `control_patient` | patient operators, services that are killed once they are up; fair | types, `OneService`, `Reachable`, `StopsAll`, `StartsServed` |
| `control_restart` | a client that starts twice, no fault | `OneService` is violated |
| `tool_window` | clicks, the empty name typed, crashes, hangs, failed launches, exits of livetool; fair | types, `GuardsWhenItSays`, `OneLaunchPending`, `OneApplication`, `DeadRelaunched` |
| `windows_service` | the flags `MyService` sets; all controls at any time, starts that fail at each step, crashes, remote commands; fair | types, `AnswersItsOwn`, `ReceiverExists`, `StarterPastMutex`, `ScmAgrees`, `StoppedUnguarded`, `ImplementsServiceLife`, `ControlsReturn`, `StopCompletes`, `StartCompletes` |

### The four violations

`live_wide_ids`: the client reads the identifier with `toUInt`
(`livedemo/appkeeplive/appkeeplive.cpp:80`) and sends back the low 32 bits of a
millisecond timestamp, which the guardian compares with the whole one. No
answer is ever recognised, and an application that answers every heartbeat is
killed after `TimeoutCount` beats. The comment at `keeplive.cpp:327` says a
restart happens when no reply was received more than the prescribed number of
times.

`live_linux_hung`: on Linux an application launched without arguments is not
found by the process list (`isyslinux.cpp:30`), so `killApp` never kills it, and
it stays hung for ever, although a second instance is launched at every
recovery and ends by itself. `README.md:14` says the guardian kills and restarts
an application that hangs.

`timed_startup`: `beginTimeOutTimer` waits `TimeoutCount` milliseconds
(`keeplive.cpp:517`); `AppStartupTime`, "the application's start-up time"
(`plugins/app.h:15`), is read and written and never used. With the settings of
the ARM build an application has 40 s to start instead of 60 s.

`control_restart`: between `sendCmd("alive")` and the moment the new service has
bound its socket a second start finds nobody, spawns another service, and
whichever comes up later unlinks the path of the first
(`qtservice_unix.cpp:409`). The message for a refused start is "Allow one
instance only" (`livetoolservice/main.cpp:41`).

### Bounds

`Proc` has one or two slots: two are needed for a second instance to exist;
a full machine is a failed launch. `BufferSize` is 1 to 3: 1 makes drops common,
2 and 3 let old datagrams sit before a new one; loopback drops nothing else and
never reorders. `MaxTaskkill` is 1 or 2 kills under way, more behave as two.
`MaxReStartCount` (1 or 2) is where the restart counter stops; nothing reads it.
`count` stops at `TimeoutCount` (2, and 4 or 7 in the timed runs): the code only compares it with that
limit, and a larger value is the same to it (it grows past the limit only while
the guard is paused). `silent` and `unheard` stop there too. Symmetry is used only for safety
runs: processes and ports are compared for equality only.

The timed runs use intervals of 4 s (`timed_windows`) and 5 s. The bounds
`HungBounded` and `DownBounded` state are exact: one second less is violated.
The identifiers of `timed_windows` fit, so that `HealthySpared` there excepts nobody.
Timers are punctual and the service reads at once; a late event loop adds its
lateness to each bound. `KillTime` is 2 s because the launch comes 3 s after
the kill; a slower `taskkill` breaks `LaunchAfterKill`, and run `live_windows`
shows what then remains true. `MaxAge` is above every bound compared with it.
In `tool_window` `TimeoutCount` is 2: with 1, a click that starts the timer during
a recovery can give a second recovery before the first launch. The names typed
there are the application's own and the empty one, which `on_btnOk_clicked` assigns
before it refuses it (`livetool/frmmain.cpp:173`) and the next launch or reset writes to
the file; the next start takes the file for damaged and goes back to the defaults. A
third name would behave as the empty one does until that start.
`Client` and `Service` have three and four slots, so that a killed service, one
that ends and one that comes up may overlap. `Killable` leaves out the phases
before a service is up, because nobody repeats a start whose service was killed
while it came up, and `StartsServed` promises nothing of it; the theorems hold
for every `Killable`. `WindowsService` has no bound: its state is finite. Without `late`
`ScmAgrees` is false: the status that `handler` reports outside the mutex can be that of
before the next control, so that the manager may think that a service runs which is
stopping. Main deletes the mutex and the condition a second after it reported STOPPED,
whether the dispatcher has left `handler` or not; of the starter alone one can say that
it is past both by then (`StarterPastMutex`, which needs no `late`). `StartCompletes`
excepts a service whose `handler` could not be registered: it stays in "start pending".
`control_restart` turns the deadlock check off: when every
service slot is taken by a service nobody can reach, nothing is left to do.

### Fairness

`Fairness` is weak fairness of each event loop: an active timer fires, a
datagram in the buffer of a live loop is read, a process that was launched
finishes starting, a `taskkill` ends, a process that was signalled ends (`Terminates`),
the system starts the service again (it is
installed as an automatic service). `WF` suffices since each of these steps
stays enabled until it is taken or something else makes it pointless. Nothing
is assumed of users, faults, recoveries from a hang or remote commands. In the
fair runs faults may go on for ever; the properties hold all the same because
each of them is about the guard answering them, and lapses only when the
service is gone or paused (`InForce`).

`killFail` is left out of the runs of `HungReplaced`: where every kill fails nothing is
replaced; it is part of `live_windows`. Launches may fail in all runs of
`DeadRelaunched`, and for ever: the property says that the guardian, or livetool, tries
again for as long as nothing runs, not that an attempt comes off. An executable that is missing
(`AppInstalled` false) is to the guardian a launch that never comes off; no run has
it and the theorems do. `live_mirror` runs on ARM Linux and `live_linux` on desktop Linux, the
others on Windows, so that each process list and each way to kill is used.

`WindowsService` assumes that each thread gets on, that the event loop handles a
posted event and that the dispatcher is connected or refused; nothing of the
manager's controls, nor of the time-out of 20 s, which no property needs.

`ServiceControl` assumes that every process gets on with what it began, and not
that anybody starts or stops the service. `LiveTool` assumes that time passes,
timers fire and a `taskkill` ends; not that what it launches starts.

`Watchdog` has no fairness of `SwitchOn`: after a remote stop the process may
live on with no guardian, and nothing in the code creates another one.

## 4. Theorems

All are proved from the named assumptions on the constants in `Host`, `KeepLive`,
`LiveTimed`, `ServiceControl`, `WindowsService` and `LiveTool`, for any number of
processes, ports and identifiers, any buffer size, limit and interval, and any set of
faults except where a theorem excludes some.

- `TypeCorrect`: `Spec => []TypeOK`.
- `NeverIdleNeverTwice`: `Spec => []OneActivity`.
- `OneInstance`: `Spec => []AtMostOneInstance`.
- `RestartsAreRecorded`: `Spec => RestartsRecorded`.
- `PatienceNeverShortened`: `HistorySpec => GivenUpUnheard`, for every set of faults and
  identifiers.
- `StaleRepliesIgnored`: `HistorySpec => StaleReplyNeverCounts`: the heartbeat a
  believed answer was made for was not sent before the last recovery, by
  `EchoAssumption` also where answers are truncated.
- `HistoryTypeCorrect`: `HistorySpec => []HistoryTypeOK`.
- `PauseMirroredBetweenKills`: `HistorySpec /\ [][ReadCommand => taskkill = 0]_allVars
  => []MirrorAgrees` under `MirrorConditions`: no crash of the application, nobody but
  the guardian starts or stops the service. `PauseMirrored`: off Windows, where no
  `taskkill` is ever under way and a signalled application reads nothing any more, `HistorySpec => []MirrorAgrees`. The run `live_mirror` is
  an instance of the second.
- `KillBeforeLaunch`: `TimedSpec => LaunchAfterKill`, if a kill, of either sort, takes
  less than three seconds (`KillTime < 3`) and the service keeps its guardian
  (`GuardStays`).
- `StartsArePatient`: `TimedSpec => StartGetsPatience`, if no user opens the
  application beside the guardian and `MaxAge` lets a process grow that old.
- `DownIsBounded`: `TimedSpec => []DownBounded`, if the guardian stays, nobody pauses
  it, the application is installed and launches come off (`LaunchesComeOff`).
- `HungIsBounded`: `TimedSpec => []HungBounded`, if the guardian stays, nobody pauses
  it, the process list is exact, and kills are allowed, come off and take less than
  three seconds (`KillsComeOff`). Both bounds hold for every `TimeoutCount` and
  `HeartInterval`.
- `HealthyAreSpared`: `TimedSpec => HealthySpared`, if an application that serves answers
  within less than an interval, `TimeoutCount > 0` and there are no remote commands
  (`AnswersInTime`): one that has served for an interval and an answer is given up only
  while an identifier waits that does not come back whole. Nothing is assumed of faults
  and identifiers; with today's clock every beat is excepted, which is what
  `WideIdsKillServing` makes of it.
- `StartupRespected`: `TimedSpec => StartupTimeRespected`, if `Patience`, that is
  `TimeoutCount + 1` intervals, covers `AppStartupTime` and no user opens the application.
- Two findings, for every value of the constants: `WideIdsKillServing` (behind
  `live_wide_ids`): if no identifier is below `IdModulus` and kills come off, whatever
  owns the port and answers lasts no longer than `Patience + KillTime`;
  `HungNeverKilled` (behind `live_linux_hung`): off Windows and without arguments no step
  of guardian or service and no kill takes a hung owner of the port away, nor anywhere
  with `DestoryApp` false.
- `BeatAlwaysHasIdentifier`: `Spec => [](HeartID # {})` with more identifiers than two
  full buffers hold, so that a finite `PacketID` never holds a heartbeat back.
- `HistoryIsLive` and `TimedIsLive`: `HistorySpec => Spec` and `TimedSpec => Spec`. The
  history records and the clocks only hold steps back, so the theorems about `Spec` hold
  of the other two.
- `WatchdogImplemented`: `Spec => Guardian!WatchSafety`, the safety part of
  `ImplementsFairWatchdog`.
- `OneServiceRuns`: `Spec => [](Patient => OneService)` and `ServiceReachable`:
  `Spec => [](Patient => Reachable)`, of `ServiceControl`; `ControlTypeCorrect`:
  `Spec => []ControlTypeOK`, patient or not.
- `ServiceTypeCorrect`, `WaitsAnswered`, `PostedToReceiver`, `StarterGone`,
  `StatusKnown`, `UnguardedWhenStopped`: the six invariants of `WindowsService`, for
  every set of flags; `LifeImplemented`: `Spec => Life!LifeSafety`.
- `ToolTypeCorrect` and `ButtonTellsTruth`: `Spec => []ToolTypeOK` and
  `Spec => []GuardsWhenItSays` of `LiveTool`; `OneLaunch`:
  `Spec => []OneLaunchPending` if `TimeoutCount > 1`; `OneApplicationRuns`:
  `Spec => []OneApplication` if besides `KillTime < 3`.

The invariant behind the first four is
`LiveInv == TypeOK /\ BuffersOwned /\ GuardInv /\ AtMostOneInstance`.
`OneActivity` is not inductive alone: that nothing is scheduled without a
guardian, and that a stopped timer leaves no waiting identifier, must be known
when a guardian is created and when an answer arrives during a recovery.
`RestartsRecorded` needs the guardian's counter to equal the file's; a crash inside a
launch leaves the file behind what was launched, and no guardian to disagree with it.
`AtMostOneInstance` holds because a launch needs an exact process list to be
empty. `LiveLemmas` proves what the operators of `Host` and `KeepLive` preserve
(`Deliver`, `Inbox`, `Die`, `killApp`, `launchUnlessExists`...), and
`LiveProofs` has one step per action.

`HistoryProofs` adds for the first history theorem that the counter stays below
`unheard` while the last beat is unanswered (`Unheard`): a beat that finds no answer
counts one that was sent, since the last launch, to which none came back whole; and for
the second that the waiting identifier is never in `old` (`WaitsForNew`), since a new
one is later than all in flight. What a believed answer says is that identifier, and by
`EchoAssumption` it was made for it.
For `PauseMirrored` it relates what is on its way to what the guardian does
(`Mirror`): the last pause acknowledgement in the application's buffer, or `RemotePause`
when there is none, is the negation of `_keeplive` (`WillBelieve`); an application that
has just been launched believes that nobody paused, and so does the guardian that
launched it, because it gives nothing up while paused. The kill must have been meant
(`KillsAreMeant`: while a `taskkill` is under way the guard is not paused; `DyingIsMeant`:
nor was it when a process was signalled), hence the hypothesis on `ReadCommand`. It is needed: on Windows, also with kills that end in time,
the guardian may read a pause between `killApp` and the end of the `taskkill`; its answer
ends with the application, and the next one believes that nobody paused.
`RefinementProofs` shows that each action is a step of `Watchdog` or leaves its
variables alone.

`ServiceProofs` uses `ControlInv == ControlTypeOK /\ Alone /\ Named /\ Orderly`: at
most one service process exists in any phase, the path is free while it comes up
and names it while it listens, and what clients wait for agrees with that phase.
`OneService` alone says nothing of a service that has been spawned and is not up
yet, which is where the race is; `Patient` is used in the two actions that open a
connection or spawn.

`WindowsProofs` uses `ServiceInv`: `StartOrder` (the two semaphores order the creation
of the application, the registration of `handler` and the start), `StarterFirst`
(until the service runs the starter is alone in `handler`), `Handshake` (a posted
event is that of the one thread that waits, and main has obeyed it when it wakes
that thread), `StopOrder` (the guardian goes before the loop ends, the loop before
STOPPED) and `StatusOrder` (while nobody is overtaken, the status for each
place of the dispatcher). `StarterPastMutex` follows from two of them, through all three
threads: the loop ends after a stop only, the dispatcher is sent one only when the
manager has been told that the service runs, and the starter tells it so when it has
been woken and before it unlocks. `AnswersItsOwn` alone is not inductive: that the other
thread does not wait comes from `StarterFirst`, which comes from the status the
manager was told.

`TimedProofs` adds up clocks: what is left of each timer and the age of what it is set
for. `KillClock`: while a kill is under way its age and what is left of the launch's
timer are three seconds, for a `taskkill` and a signalled process alike. `StartClock`: a process that starts is as old as the beats it
has seen (`BeatsSeen`), less what is left to the next one. `Rest` is what is left until
the guardian gives the application up, and goes on negative through the three seconds
before the launch; `DownClock` and `DoomedClock` say that the age of an absence or a hang
and `Rest` never exceed `Patience`. They are inductive only with `InForceInv` (not
paused, and a beat to spare), with `CleanLaunch` (a launch whose kill is over finds
nothing running, so that the round that begins is that of a new process), and because
an answer that waits at the guardian when the application hangs or ends is read before
time passes. `DoomedClock` speaks of processes whose answers are not coming or not
believed, so that it serves `HungIsBounded` and `WideIdsKillServing` alike. `TimedStep`
carries `LiveInv` over: every timed step is a step of `LiveSystem`.

`HealthyAreSpared` rests on `SparedInv`, which follows one heartbeat to the application
and back. `LoneBeat`: what waits in the application's buffer is older than its service,
or is one heartbeat, and the next is an interval away from it. `OneAtATime`: once the
application has served longer than datagrams wait (`Settled`), a heartbeat and an answer
are never both on their way, and the answer is read before the next beat. `AnswerComes`:
of the last heartbeat sent since then, either it or its answer is still there. When the
timer fires the answer has been read, so `ok` holds and the beat counts no miss, unless
the identifier does not come back whole (`Unanswerable`). Remote
commands are excluded because their answers can fill the application's buffer, which
then drops the heartbeat that would have cleared it.

`HungNeverKilled` rests on `HarmlessStep`: where `killApp` does nothing, no kill is ever
under way, and only the application's own steps change `bound`. `BeatAlwaysHasIdentifier` needs `BuffersBounded` and counts `InFlight`.

`ToolProofs` uses `ToolInv` (types, nothing scheduled without livetool, a running timer
is below its limit) and, for one launch and one application, `Alone` (one launch
pending), `LaunchRoom` (a timer that a click started beside a pending launch beats once
before it, and that beat gives nothing up, hence `TimeoutCount > 1`) and `KillFirst`
(whatever runs while a launch is pending is under a kill that ends first).

Model-checked only: every liveness property (also those
of `LiveTool`, `ServiceControl` and `WindowsService`) and the liveness half of the two
refinements, since the prover does not treat fairness and ENABLED.

## 5. What is not modelled, and the plan

In this order:

1. **Config**: `readConfig`/`writeConfig` of the service: a file edited while the
   guardian runs is overwritten at the next launch, a damaged one replaced, and a
   crash may come between two launches' writes; the configuration a new guardian
   reads after a pause of the service.
2. **ServiceControl** and **WindowsService** composed with `MyService` in place of
   its `ServiceStop` and `ServicePause`.
3. **LiveTool**: renaming the application across a restart of livetool; **LiveTool**
   and **LiveTimed** against one abstract timed watchdog, with the differences between
   the two programs as its parameters.
4. Proofs: `HealthySpared` with remote commands, for a buffer that the answers to them
   cannot fill.

Left out for good: the tray icon, the widgets, the log file, text and device
helpers, and installation.

The repository is about 100,000 lines, of which the program's own are about 4,500. The
rest is vendored: `qtpropertybrowser`, `qtscriptclassic`, `qtsoap`, `qtbrowserplugin`,
`qtwinmigrate` and the examples of `qt-solutions`, none of them linked into the service
or livetool. `QtLocalPeer` and `QtLockedFile` are linked: `MyService` is a
`QtService<QtSingleCoreApplication>`, whose constructor creates a `QtLocalPeer`. But the
lock and the local server are only touched by `isRunning` and `sendMessage`, which
nobody calls, so a model of them would say nothing of this program. For these reasons
the share of lines the map covers stays small.
