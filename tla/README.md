# RavenLink: TLA+ models, checks and proofs

RavenLink runs on the driver station of an FRC robot. It listens to
NetworkTables (NT4), decides from the FMS control word when a match is on, makes
OBS record it, logs telemetry into session files, and uploads those files to one
or more servers when it can reach them. This directory holds TLA+ modules for
the parts whose correctness depends on order, time and failure, the TLC
configurations that check them, and proofs for TLAPS.

Paths such as `machine.go:163` are relative to the package named beside them;
`PROJECT.json` maps every definition to its lines.

## 1. Inventory

| Component | State it keeps | Operations | What makes it hard |
|---|---|---|---|
| Match state machine (`internal/statemachine`) | state, `wasEnabled`, three optional timers | `Update`, `Reset` | long sequences of enables, outages, E-stops and detaches; timers that outlive their state; a wall clock |
| Main loop (`cmd/ravenlink/main.go`) | latest FMS state, two machines, channels, tick | `runMainLoop`, fan-out goroutine, shutdown | one tick reads a pause flag other goroutines set; channels that drop; calls that fail; two ways out of the loop |
| Session logger (`internal/ntlogger`) | open file, `bufio.Writer`, `latestValues`, active id | `Run`, `StartSession`, `EndSession`, `RecordMatchEvent`, periodic sync | an actor with bounded channels; write errors; crashes between lines; an id others read |
| Uploader (`internal/uploader`) | `pending/`, `uploaded/`, marker files; per target back-off | one goroutine per target, finalizer, `DrainPending`, `PruneUploaded`, `New` | goroutines share directories; each step may be the last before a crash; servers answer late or not |
| Upload authentication (`auth.go`, requests of `target.go`) | cached token, its expiry | `GetAuthHeader`, login, `Invalidate`, the retry after a 401 | tokens that expire on their way, are revoked, or cannot be read; a clock that is off; a retry of what was already done |
| OBS client (`internal/obsclient`) | connection under a mutex, `connected` | start/stop, health check | calls that outlive their timeout; a reconnect that holds the lock |
| NT client (`internal/ntclient`) | topics per connection, values channel | connect, receive, reconnect | drop-oldest channel; topic announcements per connection |
| Limelight monitor | per camera result, values channel | overlapping polls | late answers; closing a channel under a sender |
| Configuration store (`internal/config`) | the file, its `.tmp` and `.bak` | load, save | two writers of one temporary file; crash between renames |
| Dashboard (`internal/dashboard`) | configuration, hooks, event clients | pause/resume, config posts, session list, download, open, shutdown, restart | acts on everything above from HTTP goroutines; finds files another goroutine moves |
| WPILog export (`internal/wpilog`) | none | `Convert`, its encoder | ids per topic and type, two time bases, numbers of variable length |
| Life cycle, tray (`main.go`, `internal/tray`, `internal/lifecycle`) | context, `sigCh`, `quitCh`, `restartRequested`, wait group, the tray's event loop | signals, Quit, Shutdown, Restart, drain, `RestartSelf` | four ways to ask for the end, at once and in any order; the main goroutine sits in the tray on macOS |
| Status, paths, autostart, typeconv, tools | display values, OS calls | - | - |

How they interact: the NT client's values go through a fan-out goroutine, which
copies control words to the main loop (`fmsCh`, dropped when full) and values to
the logger. The main loop owns two machines: the recording machine drives OBS by
blocking calls, the collection machine drives the logger by commands that are
dropped when `cmdCh` is full. The dashboard sets the pause flag that the loop
reads. The logger and the uploader share `pending/`; the uploader leaves the
active session alone by asking the logger for its id. All goroutines share one
context; after they have returned, the uploader drains.

What makes the core correct:

* *machine* - a match is one recording: not cut short by a gap, an outage, a
  detach or a cancelled stop; and every recording ends.
* *main loop* - OBS and the logger follow their machines; a live match overrides
  a pause; nothing goes on after shutdown.
* *logger* - a file is one well-formed session whatever cuts it off; nothing known
  at its start is missing from it; the id covers the file while it changes.
* *uploader* - servers hold every finished session exactly once and in order, a
  file leaves `pending/` only then, and it does leave.
* *OBS client* - two goroutines that drop and replace each other's connection leave
  no connection behind, report success only for what was done, and always return.
* *NT client and fan-out* - the newest control word gets through whatever is lost or
  dropped; a shutdown ends with every goroutine and panics on no closed channel.
* *authentication* - a request happens at most once whatever is retried, one refused
  token costs no call, and no token runs out on its way.
* *life cycle* - each way to ask for the end leads to it, a restart restarts, and buttons
  do not panic.
* *export* - a session is found wherever it is being moved, an export holds all of it, and
  what is read back is what was logged.
* *configuration* - the file is replaced as a whole or not at all, and what a post
  reported as saved is what a restart loads.

Hazards are listed in `PROJECT.json` with the line where each bites and the
properties that would notice it.

## 2. Modules

```
MatchMachine            pure operators: Update, the FMS word
 |- Recorder            one machine, real time    --implements--> RecordingContract
 |   '- RecorderProofs
 '- MainLoop            two machines, pause, fmsCh, cmdCh, calls to OBS, shutdown
     |- uses ObsContract  (as its view of the OBS client)
     '- MainLoopProofs

SessionLogger           the actor and its files   --implements--> SessionFiles
 '- SessionLoggerProofs
Uploader                targets, markers, crash   --implements--> Delivery
 |- uses SessionFiles   (as its view of the logger)
 '- UploaderProofs
UploadAuth              one request, its token    --implements--> RequestContract
                        (proved in UploaderProofs)
SessionExport           lists, downloads, opened copies
 |- uses SessionFiles   (as its view of the logger)
 |- extends WpilogConvert  Convert and a reader of the format as pure operators
 '- SessionExportProofs

ObsClient               calls, health check, connections  --implements--> ObsContract
 '- ObsClientProofs
NtPipeline              NT client, Limelight monitor, fan-out, shutdown
 '- NtPipelineProofs
ConfigStore             posts, reloads, SaveConfig, crashes   --implements--> ConfigRegister
 '- ConfigStoreProofs
Lifecycle               signals, Quit, dashboard hooks, waiter, tray, drain, restart
                        (proved in MainLoopProofs)
```

`MainLoopProofs` extends `Lifecycle` beside `MainLoop` (both are `main.go`), and
`UploaderProofs` extends `UploadAuth` beside `Uploader` (both are the uploader's package). So that no
name is defined twice, what `Lifecycle` would call `Spec` or `TypeOK` is `EndSpec` and
`EndTypeOK`, and `UploadAuth` has `AuthSpec` and `AuthTypeOK`.

`SessionFiles` is the joint between two components: `SessionLogger` is checked and proved to
implement it, and `Uploader` and `SessionExport` take their logger actions from it.
`RequestContract` is the joint between `UploadAuth`, which implements it, and `Uploader`,
whose `Handshake`, `SendBatch` and `Complete` take a request for one call of it. `MainLoop` has the
logger reduced to "a session is open", and `Uploader` has the loop reduced to the
pause flag and the end of the context. `ObsContract` is the joint between `ObsClient`, which is checked and proved to implement it,
and `MainLoop`, which takes its calls and what OBS does unasked from it.
`MainLoop` takes control words in any order (`NtPipeline` says which get lost).

### MatchMachine, Recorder, RecordingContract

`Update` is one operator per case of the code's switch, in its order:
disconnect, detach, E-stop, then the transition. The code stores the instant a
timer was set; the model stores the timer's age, which is what every comparison
uses, and `Elapse` adds the time between polls. The detach path's
`now - stopDelay + 3.0` becomes the age `StopDelay - DetachDelay`, which may be
negative as in the code. Time is in whole units: the code compares only
differences with thresholds, so instances keep the order of the delays and not
their size. `wasEnabled` is kept though nothing reads it.

`Recorder` polls one machine with any control word after any step of 1 to `MaxStep`,
and resets it as the pause branch of the loop does. `quiet`, `silent`
and `offFor` are history: how long in fact the trigger, NT and the robot have been
off. They saturate at `Horizon`, which the assumption puts above every
threshold. `SpecWallClock` adds steps of the host's clock, which ages the timers and not
the history.

`RecordingContract` is what a user of a recorder relies on: a poll that meets
the trigger leaves the recording on, and only quiet of `MinHold`, or the
operator, ends it.

### MainLoop

One pass of the ticker is three or four steps, with the other goroutines
between them: `Tick` (NT check and failsafe), `Collect`, `Record`, and
`Calling` for as long as a call to OBS lasts. `pc` is the place in the loop. `Collect` and `Record` send
commands with `Send`, which drops them when the buffer is full. A call begins in
`RunActions`, or in `CtxDone`; OBS may serve it, the client may give up on it before or after that,
and it returns. `DisturbOBS` is OBS on its own: it may carry out a late request at any time, of
either kind, whether one was given up on or not. That allows more than the code does, includes an OBS that
quits, and has the effect of an operator who starts or stops by hand. `Receive` is the logger, where the
creation of a file may fail. `CtxDone` and `FmsClosed` are the two ways out of the select.
`prevState` of the code always equals `sm.State` before the update and is not a
variable. OBS is taken to be enabled; disabled, there are simply no calls.
`lost`, `touched` and `settled` are history and say which guarantee is suspended.

### SessionLogger, SessionFiles

The actor takes one step per change visible to someone else: the file's
creation, the id, the header, the trailer, the close, the clearing of the id. `Written` is the
`bufio.Writer`: a prefix of what is buffered reaches the disk at
any time, the rest by a flush, and after an error nothing more does. A crash
may come at any step and keeps what is on disk. Lines are written whole: a
torn last line counts as not written, as the uploader's and the export's parsers
skip it. Values are one topic's readings, one of which JSON cannot encode.
`match_start` and `match_end` are one kind of line.

### Uploader, Delivery

A goroutine per target, plus the main goroutine while `New` runs, each
with a `pc`. A tick of `maybeUploadForTarget` is cut at every point where another
goroutine, a crash or a server can act: the id is read (`Tick`), the ping (`Ping`),
the lock of the finalizer (`Acquire` to `Release`), the directory listing (`List`), the marker
lookups and the file read (`ReadFile`), the session POST and the count (`Handshake`),
each batch (`SendBatch`), `Complete`, `Mark`. Rename and marker removal are separate
steps under the lock. Whatever can fail may fail, and a failed POST may
have been executed. `Crash` and `Start` keep directories and servers, choose any
set of targets and sweep orphan markers. `DrainPending` visits the targets
in order and repeats while something was marked; its deadline is read between
passes. `Exit` includes the pruning of old uploads.

The server (external) commits a batch whole and answers `uploadedCount` with
what it holds, as `target.go` expects. It commits a request before the client gives up on it or
never: a server that went on after the client's timeout could store a batch the
retry sends again, for a request carries neither offset nor key.

`raced` is history: sessions that were listed for upload while the logger had
them open. The code has such a window (section 5); the properties that need a
session to be closed are stated for the others, and `NothingLost` states what the
documentation says without that exception.

`Delivery` knows neither goroutines nor markers nor crashes: a server's copy grows
by entries that are on disk, and a session retires only when every target
enabled at that moment holds all of it.

### ObsClient

Two threads, the main loop (`StartRecording`, `StopRecording`, `Close`) and the health
check, each with a `pc` cut where the mutex is released. Requests run outside
it, so `Read` (take the client under the mutex), the request itself (`Answer`, `Fail`) and
`Drop` (compare and clear) are steps with the other thread between them; a dial holds it
from `BeginConnect` to `EndConnect`. A request that times out goes on in its own goroutine:
it joins `late`, and OBS may carry it out at any later time (`ServeLate`) until it quits. `Tick` and `Straggler` are
`probeInFlight`: a timed-out probe's goroutine keeps the flag until it comes back.
Connections are recycled once nothing refers to them. `Init` is the state after `Connect`.
`IsRecording` has no caller and is left out. `disturbed` is history:
a quit or a late request has changed what OBS does since it carried out the last call.

`ObsContract` is a call as the main loop sees it: it begins, OBS serves it or not, the client
may give up on it, it returns. A request given up on before it was served stays on its way
(`late`) and may be carried out even after the answer to a later call; OBS may quit at any time. `settled`
says that the last call was answered and that OBS has stayed in that state since.

### NtPipeline

`Dial`, `Subscribe`, `Read`, `ReadFails` and `Lost` are one round of `Client.run`; `Evict` and
`Push` are the two halves of the drop-oldest send, between which the fan-out may read.
`wire` holds the frames the robot has sent. `Break` closes the connection or silences it: frames on their way may
still come, then nothing does until the read times out. A frame carries one value; a frame
of several is several. A topic id means one topic while a connection lasts.
`announced` is the session's map of topics. Polls of cameras
are counted, not told apart, because only their sends matter here. `Forward`
is the fan-out with its non-blocking send to the main loop; the logger's channel,
which it treats alike, is left out. `Cancel` is `ctx`; the client itself has another
context, which its `Close` cancels after `wg.Wait` and the drain, so it runs on until then
with nobody reading - `main.go:543-546` says that it has stopped by that point, which is harmless only because its sends
never wait. `dropped` is history: a channel has dropped the newest word since the robot last sent one.

### ConfigStore, ConfigRegister

Files are inodes, so that a process that holds a file open goes on writing to it
after a rename. A post sets fields under the mutex (`Apply`, in any order, as Go ranges over a
map), marshals without it, and saves: `Open` truncates, `Write` writes a field at
a time, `Sync` (with the close behind it), `Rename`, `Finish`. Any file operation may fail (`Fail` removes the
temporary file, whoever made it). `Crash` is the end of the process or of the machine at any
step: what was not synced is cut off anywhere, renames last. Two fields stand for the
file's content; a missing one gets its default as `yaml.Unmarshal` into `DefaultConfig` gives it, a hole is no YAML.
The backup is written and never read, and is left out. A marshal that races
with another post sees any field before or after its change. `overlapped` and
`failed` are history: posts or reloads overlapped and the file is not yet
whole again; the last post reported an error.

`ConfigRegister` has one configuration in memory and one saved, and neither files nor
partial writes: what is saved is replaced as a whole by what is in memory, a post that
reports success has done so, and a reload or a restart brings back what is saved. When
posts overlap, only the last of these is left, until a post has the file to itself again.

### UploadAuth, RequestContract

One `postJSON` or `getJSON`: `Call`, the header (`GetAuthHeader` takes the api_key, the
cached token, or goes to the login), the request on the server (`Serve`), and the three
ways back: `Succeeds`, `Lost`, and the 401, which is retried once with an emptied cache
(`Retry`) and then reported (`Denied`). The server is external: `Issue` gives a token of
`Life`, whose `exp` claim may be unreadable and then counts as the zero time, so that it
is never cached; `Revoke` invalidates tokens, or changes the api_key's fate, at any
moment. Time is the server's; the client reads `now + skew`, and `SetClock` changes `skew`
within `MaxSkew` whenever it likes. A request takes at most `MaxWait`. All requests of a
target come from one goroutine at a time, so one call is modelled. Which URL is safe to
send a password to is the flag `usable`. It is assumed that the laptop is not suspended
within a request, and that the server commits before the client gives up.

### SessionExport, WpilogConvert

A request is a list, a download or an open. The list reads `pending/`, asks for each
file's attributes, and reads `uploaded/` (`ListFirst`, `StatFirst`, `ListSecond`); an
export checks the active id (`RequestExport`), searches both directories
(`findSessionFile`), reads the file (`ReadFile`), and answers, or truncates and writes the
copy in `wpilog/` (`Truncate`, `Write`) and starts AdvantageScope. Between any two of
these the logger writes, the uploader moves a file (`Finalize`) or prunes it, another
request does the same, or the process ends. `raced` is history: sessions that had a file
but no published id when an export was requested. `there` is what was on disk when a list
was asked for.

`WpilogConvert` is `Convert` with its encoder as pure operators: which lines are data,
entry ids per topic and type in the order of their appearance, the smallest server
timestamp as base, markers sorted by wall clock, records with header bits and numbers of
variable length. Bytes are digits of `Base` instead of 256, so that numbers of several bytes
are within reach of short sessions; a name and an encoded value are opaque. `Records`
reads the result back as the format prescribes it (external), and `Faithful` and
`TimesKept` compare what it reads with the lines. What is joined, counted or followed step
by step (`Concat`, `pow`, `Number`, `Records`) is a recursive function on a bounded set of
numbers, about which can be proved. `Convertible` names the limits of the format: ids and sizes of four
bytes, times of eight (`uint32`, `len(payload)` and `uint64` in `encoder.go`), and server times that are not
negative; `Sessions` may be any set of such sessions. A download converts
one of them, so `RecordsFaithful` and `TimesFaithful` stand in `SessionExport`.

### Lifecycle

`Init` chooses macOS or not, and a process with a team or on its first run. `Ask` is
a POST to `/api/shutdown` or `/api/restart`; its hook then runs in a goroutine of its own:
`Fire` after 500 ms, `Flag` (`restartRequested`, for a restart), `HookCancels`, `SendQuit`.
`Interrupt` buffers a signal, `Wake` is the waiter's select, which then cancels
and stops the tray. `ClickQuit` closes `quitCh`. `StopTray` is `systray.Quit`, of which only the first call has any
effect: before the tray has registered itself (`TrayStarts`) it is lost on macOS, and may
be elsewhere. `TrayEnds`, which needs a stop that was not lost, gives the main goroutine back on
macOS. `Return` is a subsystem that sees the context; the dashboard also returns when its port is taken.
`Waited`, `Drained` and `Decide` are the end of `main`: wait group, drain, then
`RestartSelf` or exit. A flag set after another caller has cancelled is a data race
with main's read and is modelled as `"late"`: main may see it or not.

## 3. Runs

| Run | Instance | States | Question |
|---|---|---|---|
| `recorder` | all 32 flag words; stop 4, gap 2, grace 3, detach 2, steps 1-2 | 4 thousand | is one recording one match, does it always end |
| `main_loop` | words disabled, enabled, enabled with FMS; OBS on `any`, collection on `fms`; delays 0-1; `fmsCh` 1, `cmdCh` 2 | 5.5 million | do sessions and OBS follow their machines through pauses, drops and failures |
| `session_logger` | two files, one topic, two readings, three lines, `cmdCh` 1 | 0.7 million | are files whole, and does the uploader see what it relies on |
| `uploader_shared` | one file of two batches, two targets, four configurations | 0.6 million | can targets, crashes and reconfiguration break delivery |
| `uploader_queue` | two files (one with an entry, one without), one target with or without credentials | 0.2 million | does the queue empty, and what does a drain leave |
| `uploader_active` | one file, one target | - | violation: a session uploaded while it is written |
| `obs_client` | three connections | 0.1 million | do calls, probes and dials of two threads keep one connection, true answers, and an end; is that what the main loop counts on |
| `nt_pipeline` | two control words, one other value, channels of one, two frames on the wire | 0.25 million | does the newest word arrive, does a shutdown end |
| `config_store` | two posts, two fields of two values, four inodes | 2.1 million, posts symmetric | is the file ever torn, does a saved post survive a restart |
| `lifecycle` | two requests of either kind, one subsystem beside the dashboard, macOS and elsewhere, full and first run | 0.33 million | does the process end, does a restart restart, what can panic |
| `upload_auth` | life 7, margin 4, requests of up to 2, a clock off by 1, 16 units of time | 0.11 million | is a call carried out once, does a refused token cost one |
| `session_export` | two requests (symmetric), two sessions of one line; 6,900 generated sessions for the conversion | 3.1 million | is a session missed or cut, is it read back as it was logged |

What the properties say:

* `recorder`: `StopsInTime` (a robot seen disabled for gap + stop delay + one poll, plus
  what the detach timer exceeds the stop delay by, is no longer recorded), `NoEarlyStop`
  (a stop is justified by real quiet or a real outage),
  `EventuallyStops` (NT may flap for ever), `ImplementsContract`.
* `main_loop`: `SessionFollowsCollector` (unless a command was lost, a session is open or
  will be exactly while the machine collects), `FailsafeCollects`,
  `ObsFollowsMachine` (after a call that OBS has answered, and until OBS changes of itself, it
  records exactly while the recording machine is out of `Idle`; a late request or a quit suspends this
  until the next call is answered), `PauseEndsSession`.
* `session_logger`: `OneSessionPerFile`, `ClosedIsWhole`, `SnapshotKept`,
  `ImplementsSessionFiles`, `ReturnsClosed`.
* `uploader_shared`: `MarkersTrue` (a marker means that the server holds the whole,
  closed file), `StoredIsPrefix`, `ImplementsDelivery`.
* `uploader_queue`: `DrainLeavesOnlyFailures`, `EventuallyUploaded`.
* `obs_client`: `OneConnection` (no connection is forgotten open, no two dials at once), `SuccessHolds`,
  `CallReturns`, `FlagHeals` (the flag the dashboard shows comes right once OBS behaves and
  no call is made, or once OBS stays away). Two threads that keep calling can go on closing each
  other's connections, hence the "no call". `ImplementsObsContract`: nothing happens to OBS, and no call returns,
  in a way the main loop's model leaves out.
* `nt_pipeline`: `NewestOnItsWay` (the last word in the line from wire to loop is the robot's, unless a channel dropped
  it), `NoSendAfterClose`, `ShutdownEnds`, `WordArrives` (and `Nil` when the robot stays away, however silently it left).
* `config_store`: `AtomicReplace`, `DiskMatchesMemory`, both while no posts overlap (section 5),
  and `ImplementsRegister`, which also says what is left when they do.
* `lifecycle`: `RestartHonoured` (a process that a Restart ended does not just exit),
  `PanicNeedsQuit`, `EventuallyEnds` (every request ends the process, or leaves it `Stranded`:
  on macOS, in a tray whose stop came before it was registered, with all subsystems gone; section 5).
* `upload_auth`: `HealsInOneCall` (a call that fails had more against it than one refused
  token), `InFlightFresh`, `ImplementsRequest`.
* `session_export`: `NothingMissed`, `ExportWhole`, `RecordsFaithful`, `TimesFaithful`.

**Bounds.** In `recorder` the detach delay is smaller than the stop
delay, so that its timer starts with a positive age; the theorems cover the other
order. The grace period lies between gap and stop delay, polls of two units step
over thresholds, and `Horizon` lets every clock pass all of them.
`main_loop` keeps the delays at zero and one because timing is `recorder`'s subject:
every state of both machines and each of their transitions still occurs, and with two
slots in `cmdCh` a tick that sends a session command and a marker fills it. With
capacity one in `session_logger`, commands are dropped at once; two files are needed for a session that begins while
another is open; `MaxLines` bounds a session to what replay, one value and one marker need.
One topic suffices as no property relates two. In
`uploader_shared` two entries with batches of one give a file that is half sent, and the
four configurations give a target removed, one added, one without
credentials and none. `uploader_queue` needs two files
for the order of the queue, the second with nothing but a header. The
process may crash and restart any number of times in all of them; nothing
bounds the number of failures or ticks. In `obs_client` three connections
let both threads hold an old one while a third is current. In `nt_pipeline` channels of
one are full at once; two words tell the newest from an older one, and
`WireCap` is two because a subscription sends two frames at once; one poll in flight is enough for a
send to an abandoned channel. In `config_store` four inodes are the configuration, the temporary file and one
unlinked file that each post may have open; both posts may start again any number of times.

`lifecycle` needs two requests for a shutdown and a restart, or two of a kind, that race; more
only repeat them, since the context is cancelled once and `quitCh` holds one token. One
subsystem stands for all that only obey the context. In `upload_auth` the numbers are the
smallest that meet `MarginSuffices` with a request that can time out and a margin that
is more than skew and wait; sixteen units are two lives and a refresh. In
`session_export` two sessions let one be written while the other is exported, and two requests meet in one
file of `wpilog/`. One line is enough for an export that is short; the conversion has its own
sessions: all sequences of up to two lines out of eighteen kinds, of up to three behind a
`session_start`, and of four topics at once. Base 2 makes every number of more than one digit a
multi-byte one.

**Deadlock** is checked in all passing runs but `lifecycle`, whose process is meant to
end. It is switched off in the violation run, where TLC stops at the first counterexample.

**Fairness.** `Recorder!FairSpec` has the ticker fire (`WF(Polls)`): `time.Ticker` does
as long as the program runs. It does not assume that any control word
arrives. `SessionLogger!FairSpec` has the goroutine run (`WF` on the steps
between two selects) and `SF` on `Return`: Go's `select` picks at random among ready
cases, so `ctx.Done` cannot be passed over for ever however many values arrive.
Nothing is assumed of commands or values. `Uploader!Fairness` has each goroutine
and each back-off timer proceed; requests, file operations and crashes have no
fairness, and `EventuallyUploaded` therefore assumes in its own premise that
failures end and the process stays up. `ObsClient!FairSpec` is strong on each thread, because
Go's mutex starves nobody and `select` chooses at random, and weak on the goroutine of a
timed-out probe; it takes a dial to return. `NtPipeline!FairSpec` lets reads on a broken or cancelled
connection end (`conn.Read` has its 30 second timeout), polls end by theirs, and no ready case of the fan-out's `select`
be passed over for ever. Nothing is assumed of the robot, the network, OBS or the dial's
success; the properties name the good weather they need. `Lifecycle!EndFairSpec` has
started hooks, the waiter, the tray's loop and the main goroutine run, subsystems return once the
context is done (the loops of `main.go` all select on it) and the drain end by its
deadline; no button is pressed, no signal sent and no port taken by fairness. `MainLoop`, `ConfigStore`, `UploadAuth` and
`SessionExport` are checked for safety only: their steps fail as they like, and what must
happen in the end is stated where the retries are, in `Uploader`, `ObsClient` and `Lifecycle`.

## 4. Proofs

The proofs hold for all constants that meet the named assumptions of the modules
(`TimingAssumption`, `RecorderAssumption`, `MainLoopAssumption`, `LoggerAssumption`,
`PipelineAssumption`, `UploaderAssumption`, `UploadAuthAssumption`, `MarginSuffices`, `ObsAssumption`, `StoreAssumption`,
`LifecycleAssumption`, `ExportAssumption`, `ConvertAssumption`, `SessionsAssumption`):

| Theorem | Statement |
|---|---|
| `RecorderProofs!TypeCorrect` | `Spec => []TypeOK` |
| `RecorderProofs!CallerAlwaysAgrees` | `Spec => []CallerAgrees` |
| `RecorderProofs!TimersAlwaysFit` | `Spec => []TimersFitState` |
| `RecorderProofs!AlwaysStopsInTime` | `Spec => []StopsInTime` |
| `RecorderProofs!NeverStopsEarly` | `Spec => NoEarlyStop` |
| `RecorderProofs!Refinement` | `Spec => ImplementsContract` |
| `UploaderProofs!TypeCorrect` | `Spec => []TypeOK` |
| `UploaderProofs!MarkersAlwaysTrue` | `Spec => []MarkersTrue` |
| `UploaderProofs!NoDuplicatesNoGaps` | `Spec => []StoredIsPrefix` |
| `UploaderProofs!AlwaysUploadedInPlace` | `Spec => []UploadedInPlace` |
| `UploaderProofs!DrainsLeaveOnlyFailures` | `Spec => DrainLeavesOnlyFailures` |
| `UploaderProofs!DeliveryRefinement` | `Spec => ImplementsDelivery` |
| `ObsClientProofs!TypeCorrect` | `Spec => []TypeOK` |
| `ObsClientProofs!AlwaysOneConnection` | `Spec => []OneConnection` |
| `ObsClientProofs!SuccessAlwaysHolds` | `Spec => []SuccessHolds` |
| `ObsClientProofs!ClientKeepsContract` | `Spec => ImplementsObsContract` |
| `ObsClientProofs!ProbesAlwaysBounded` | `Spec => []ProbesBounded` |
| `ObsClientProofs!CloseAlwaysFinal` | `Spec => []CloseIsFinal` |
| `MainLoopProofs!TypeCorrect` | `Spec => []TypeOK` |
| `MainLoopProofs!SessionsFollow` | `Spec => []SessionFollowsCollector` |
| `MainLoopProofs!ObsFollows` | `Spec => []ObsFollowsMachine` |
| `MainLoopProofs!PauseEnds` | `Spec => []PauseEndsSession` |
| `MainLoopProofs!FailsafeHolds` | `ControlWords \subseteq Nat` gives `Spec => []FailsafeCollects` |
| `MainLoopProofs!EndTypeCorrect` | `EndSpec => []EndTypeOK` |
| `MainLoopProofs!RestartAlwaysHonoured` | `EndSpec => []RestartHonoured` |
| `MainLoopProofs!PanicAlwaysNeedsQuit` | `EndSpec => []PanicNeedsQuit` |
| `SessionLoggerProofs!TypeCorrect` | `Spec => []TypeOK` |
| `SessionLoggerProofs!OneSessionInEachFile` | `Spec => []OneSessionPerFile` |
| `SessionLoggerProofs!ClosedSessionsWhole` | `Spec => []ClosedIsWhole` |
| `SessionLoggerProofs!SnapshotAlwaysKept` | `Spec => []SnapshotKept` |
| `SessionLoggerProofs!LoggerImplementsFiles` | `Spec => ImplementsSessionFiles` |
| `NtPipelineProofs!TypeCorrect` | `Spec => []TypeOK` |
| `NtPipelineProofs!NewestAlwaysOnItsWay` | `Spec => []NewestOnItsWay` |
| `NtPipelineProofs!NoSendEverAfterClose` | `Spec => []NoSendAfterClose` |
| `ConfigStoreProofs!TypeCorrect` | `Spec => []TypeOK` |
| `ConfigStoreProofs!SavesAreAtomic` | `Spec => AtomicReplace` |
| `ConfigStoreProofs!MemoryIsSaved` | `Spec => []DiskMatchesMemory` |
| `ConfigStoreProofs!StoreIsRegister` | `Spec => ImplementsRegister` |
| `UploaderProofs!RequestsTyped` | `AuthSpec => []AuthTypeOK` |
| `UploaderProofs!OneRefusalHeals` | `AuthSpec => []HealsInOneCall` |
| `UploaderProofs!TokensOutlastRequests` | `AuthSpec => []InFlightFresh` |
| `UploaderProofs!CallsAreSingle` | `AuthSpec => ImplementsRequest` |
| `SessionExportProofs!TypeCorrect` | `Spec => []TypeOK` |
| `SessionExportProofs!SessionsAreFound` | `Spec => []NothingMissed` |
| `SessionExportProofs!ExportsAreWhole` | `Spec => []ExportWhole` |
| `SessionExportProofs!TopicsHaveTheirIds` | entry ids and topics (name with type) are one to one, and a start record with its id carries a line's own name and type |
| `SessionExportProofs!ClocksKept` | the times of values and markers: what `TimesKept` says, before they are encoded |
| `SessionExportProofs!MarkersSorted` | `byTs` is a permutation of the markers in the order of their times |
| `SessionExportProofs!NumbersAreRead` | the digits of a number that fits are read as that number, for any base and length |
| `SessionExportProofs!RecordsAreRead` | a record is read with its id, time and payload wherever it stands, and its end is found |
| `SessionExportProofs!StreamsAreRead` | a stream of any records is read as those records, in order and without remainder |
| `SessionExportProofs!ConversionsAreFaithful` | `Convertible(text) => Faithful(text)`, for any session |
| `SessionExportProofs!ConversionsKeepTime` | `Convertible(text) => TimesKept(text)`, for any session |
| `SessionExportProofs!DownloadsAreFaithful` | `Spec => []RecordsFaithful` |
| `SessionExportProofs!DownloadsKeepTime` | `Spec => []TimesFaithful` |

Type invariants, `CallerAgrees`, `TimersFitState`, `UploadedInPlace`, `ProbesBounded` and
`CloseIsFinal` are proved for all instances, so no run repeats them.

*Recorder.* None of the bounds is inductive: they speak of real time, the machine of
its timers. `IInv` adds the relations between both: a pending stop's timer is no older
than the quiet that caused it, apart from the head start of a detach
(`PendingIsQuiet`); the outage timer is no older than the silence
(`OutageIsSilence`); silence implies quiet (`SilenceIsQuiet`); and the time a robot
has been seen disabled is covered by the gap timer, the stop timer and one poll
(`GapAccounted`). A poll is split into the disconnected and the connected case,
the latter over the outcome of `UpdateConnected`, which one lemma
characterises so that no later step expands the switch again. `NeverStopsEarly` and
`Refinement` follow from `IInv` and one step.

*Uploader.* `MarkersTrue` and `StoredIsPrefix` hold only together with what a goroutine has
in hand. `IInv` adds `Uploads`: a goroutine that is uploading has a file
of `pending/`, unmarked by itself, whose entries it knows exactly unless
the file was raced, whose server copy is shorter than or equal to what it has
counted, and equal to the file where it writes the marker; that no file of
`pending/` is unborn (`Created`); and that only configured targets of a running process
work (`Working`). Most steps leave all of that alone, which the lemma `Frame` states
once; each action that moves files, markers or entries has a lemma of its own. That
no other goroutine moves the file away follows because a finalizer
needs this target's marker, and this target has not written it. `DrainLeavesOnlyFailures`
has an invariant of its own, `Visited`: in a drain `pending/` and the markers stand still until the first
file of the pass is marked, because every finalizer there follows a marker, so a target that has been
visited in a pass without progress still owes nothing, or its attempt failed.

*OBS client.* `OneConnection` needs that a thread that dials finds no client and holds none
(`Holder`), `SuccessHolds` that an answer which has arrived is still true (`Answered`),
`CloseIsFinal` that the health check has ended (`Ended`), and `ProbesBounded` that the flag
counts the goroutine inside `GetVersion` (`Probing`). `ObsAssumption` asks for three
connections, so that a dial finds one nothing refers to (`FreshExists`). `ClientKeepsContract` takes an
answer that has arrived, or a call that has returned success, for `settled` unless `disturbed`; the
health check, dials and retries change nothing the contract speaks of (`Hidden`).

*Main loop.* What a session will be depends on the last start or end in `cmdCh`; four lemmas
say what appending a command and taking the first one do to that (`AheadOfAppend`,
`AheadOfTail`). `UpdateAgrees` says of the whole switch of `Update` that it returns a start
or stop exactly when the machine leaves `Idle` or comes back. `IInv` adds that a call
under way is the one the machine's state calls for (`CallAgrees`) and that a pause the
tick has seen has put the collection machine to rest (`PauseRests`). `SendStep` covers the
three places that send. `FailsafeCollects` has the hypothesis that a control word is a
natural number, as the bit mask that `ParseFMSControlData` makes of it is
(`fmsstate.go:21`). The inductive form (`Failsafed`) has three parts: the last word is one the robot published, or none
(`WordOrOut`); a tick that has seen a live match is not paused when it comes to its collection step
(`FailsafeSeen`); and on a word that is not negative that step leaves the machine collecting
(`FailsafeWorks`). `UpdateRecords` says of the whole switch of `Update` that a machine that may start
records afterwards, from whatever state it was in.

*Session logger.* `OneSessionPerFile` is a statement about a file on disk, and the steps write to a
buffer of which any prefix gets there. `OpenText` therefore speaks of what is on disk followed by
what is buffered: of the open file, this text begins with its `session_start` and has no other, and no
`session_end` before `writeTrailer`. Every prefix of such a text is again one (`Prefix`), every line added
keeps it one (`Continued`), the trailer ends it (`Ended`). `Places` ties the `pc` to which file is open and
whose id is published. `ClosedIsWhole` needs that a write error is remembered (`torn`) and that
`entriesInFile` is at least the number of data lines in the text (`Counted`, with `Counting`).
`SnapshotKept` compares the last line of a topic before and after; `LastForConcat` says that
appending lines changes it only for topics that the lines are about, and `DataLinesAre` that an order
of finitely many lines has each of them exactly once, which is the pigeonhole principle.
The refinement needs of each step which lines reached the disk: `WriteShows` for the steps that
write, `StepShows` for the others. `LoggerAssumption` asks for finitely many topics, as a
Go map has, and for a null value that is no topic, reading or text.

*NT pipeline.* `NewestOnItsWay` follows the newest word along a line of four places: wire, the
client's channel, the hand of the goroutine that makes room for it, `fmsCh`. The line is one sequence
(`OnLine`), and each step moves its items along, drops one, or adds one at the end; `OfAppend`,
`OfTail` and `OfConcat` say what that does to the last control word of a sequence. `AnnouncedFirst` is needed
because the client throws away a value whose topic it does not know: on the wire and in the
session's map, an announcement is ahead of every value. `LinkedOpen` and `HandHeld` tie the connection and
the item in hand to the goroutine's place. `NoSendAfterClose` asks only that every
sender has left when the channels are closed.

In both, sequences are described by their indices (`LastWordIs`, `LastFor`, `DataCount` are
existence, position and cardinality, not recursion or a fold), and counting cites the library's theorems about
finite sets.

*Configuration store.* While posts do not overlap, one post has the temporary file to
itself: `Alone` says what it holds at each step, up to the synced inode it renames; `Places`
says what any post holds. That a new temporary file finds an inode is a counting
argument (`RoomForTmp`), for which `StoreAssumption` has two inodes more than posts. A crash
keeps synced files, and the configuration is one unless posts have overlapped. `StoreIsRegister` follows step
by step: all steps of a post before the rename but those that set fields are invisible (`InsidePost`), and what
`Alone` says of a post at its end is what an answer of success promises (`PostEnds`).

*Life cycle.* A restart that cancels a live context has set its flag before
(`FlagBeforeCancel`), so the flag of the one that cancelled first is in time
(`CauseFlagged`). A panic needs a closed channel, and only the menu closes it (`ClosedByMenu`).

*Upload authentication.* A token that is used was issued a margin before its end, and a token
just issued has all of its life but one wait left (`Issued`), so either lasts longer
than what is left of the request's timeout (`Lasting`): this is where `MarginSuffices` is
needed. The second attempt begins with an empty cache and so with a new token (`Second`).

*Session export.* A search goes through the directories in the order in which files move, so what it
has not found where it has looked is further on or gone (`Searched`). A session that is not active
is not written any more, unless it had no id yet (`Settled`), so all readers read the same
lines and two writers of one copy write the same bytes (`Copies`).

*Conversion.* First the operators of `Convert`, for any sequence of data lines and of
markers. Ids count the topics seen so far (`Seen`), which grow by one with the first line
of a topic and with no other (`SeenGrows`); that a topic has a first line, and a session an oldest
stamp, is the least-number principle (`Least`), from the library's well-founded order. The rank by which
`byTs` places a marker is the number of markers up to it: injective because
time and position order the markers totally, hence onto. The model's order is stable, which
`sort.Slice` is only for a few lines, so the theorem says nothing of equal times.

Then the stream, from small to large. The library's theorem of induction takes a predicate, which the
provers cannot instantiate, but a set will do: `Induction` says that a set of numbers that holds 0 and
the successor of each of its members is `Nat`, and follows from `Least`. From it `Recursion` makes a
function that steps from a start value, and so each recursive function of `WpilogConvert`, defined by a
`CHOOSE`, has what it chooses and obeys its equation (`PowFacts`, `ConcatPrefixes`). A number: the value of its first `k`
digits is the number modulo `pow[k]` (`OneMoreDigit`), and it fits the bytes it is given (`MinBytesFit`),
hence `NumbersAreRead`. A record: the header byte gives the three lengths back, and
what stands where in a concatenation is carried along as `Holds(s, at, part)` (`RecordsAreRead`). A stream: the place a
reader gets to after `n` records is the end of the `n`-th, and it is at the end of the stream only
after the last (`StreamsAreRead`). The session: its stream is that of the
start records followed by that of the values and markers; start records have id 0 and the others, by
`TopicsHaveTheirIds`, have not, so filtering what is read gives the two parts back
(`StreamRead`), a start record found by an id is the one of the line's own topic, and
`ClocksKept` says the rest about times. What is read back is compared for the order of markers `byTs` gives.

What stays with TLC is liveness: `EventuallyStops`, `ReturnsClosed`,
`EventuallyUploaded`, `CallReturns`, `FlagHeals`, `ShutdownEnds`, `WordArrives` and
`EventuallyEnds`. Every safety property of the runs that pass is stated by a theorem.

## 5. Findings

* **`uploader_active`** - README.md:187-189 promises that a file moves to `uploaded/` only after
  every enabled target has accepted it. The active id is read before the ping and used after it. A
  session created in between is listed, read before its header is on disk, taken for a file
  without a session, marked and moved to `uploaded/` while the logger writes it.

Known divergences that have no run of their own, with the way to see each:

* `machine.go:23-24` wants a monotonic clock; `defaultClock` is `time.Now().UnixNano()`, the wall
  clock. A time synchronisation during an outage, or just after a disable, ends the
  recording: with `SPECIFICATION SpecWallClock`, `MCRecorder.cfg` violates `NoEarlyStop`.
* `main.go:539` says of `trayIcon.Start` on macOS "blocks until Stop() is called". The waiter that
  calls `Stop` is started before it (`main.go:523`), and a signal may be in `sigCh` since `main.go:276`.
  A `systray.Quit` before `registerSystray` messages a nil `owner` (`systray_darwin.m:356, 386-391,
  471-473`), which does nothing, and uses up `quitOnce` (`systray.go:148-150`), so that a later one, also
  the menu's, does nothing either: context cancelled, every subsystem gone, and the main goroutine in the tray
  for ever, without drain or restart. With `SPECIFICATION EndFairSpec`, `PROPERTY StopUnblocks`
  fails in `MCLifecycle.cfg` by `Interrupt`, `Wake`, `WaiterCancels`, `WaiterStopsTray`, `TrayStarts`.
* The context's end also closes `fmsCh`; when the loop was busy, both cases of its select are ready
  and only one of them stops OBS: `INVARIANT ShutdownStopsOBS` fails in `MCMainLoop.cfg`.
* `client.go:185-188` spares a connection another path has made meanwhile, but `client.go:194`
  then calls `connectLocked`, which disconnects it: `PROPERTY ProbeSparesOthers` fails in
  `MCObsClient.cfg`.
* `SaveConfig` calls itself atomic (`config.go:182`), yet two posts at once share one
  `config.yaml.tmp` outside the mutex. One may truncate the file the other has just synced;
  the other renames it empty over `config.yaml`, and the first goes on writing into the
  installed file. Without its first two disjuncts `AtomicReplace` fails in 14 steps that way.
* docs/DEVELOPMENT.md:311-327 describes a graceful drain for every way out. A click on Quit
  closes `quitCh`; a dashboard hook that is still in its 500 ms then sends on the closed
  channel and panics. `PanicNeedsQuit` says that this is the only way.
* docs/plans/2026-04-14-001 (line 109 and following) says that markers use the same epoch as
  data; the code measures data from the smallest server timestamp and markers from the
  wall clock of `session_start`. A session that begins with retained values older than itself has
  its markers early by that age; `TimesKept` claims order only for values that are
  `InStep` with the session's clock.

What the models show beside their properties: the dashboard's `Start` returns as soon as
`Shutdown` begins (`server.go:178-181`), so main does not wait for requests in flight, and
`Ask`ed hooks may run in a process that is draining. The drain's deadline is
read between files and passes only. Signals after the first are swallowed by `sigCh` until the waiter
reads it, and by nobody after that. A first run whose port is taken exits. Between the creation of a
session's file and the publication of its id an export of it may be partial (`raced`), two
opens at once may hand AdvantageScope a truncated file, a file that moves between `findSessionFile` and
`ReadFile` costs a 500, and a list may show a session twice while it is moved.

## 6. Not modelled

Directory listings and `Stat` of the uploader succeed. Target status,
counters, rates, reachability, log output and the status ticker decide nothing. File names are
numbers in the order of modification times. The NT
connection delivers any word at any time to `MainLoop`, which includes every loss and
reordering before `fmsCh`. What a session list shows of a session (`readMatchID`, `readEntryCount`), array
encodings and file names of exports are display. What polls of one camera report when they overlap is
not modelled: nothing acts on it. `latestValues` lives as long as the process: a session that begins
after a robot code restart also snapshots topics the robot no longer publishes, which
`logger.go:81` does not say. Origin checks and validation of posts restrict inputs the models allow
anyway. Status, value conversion, paths, autostart and the command line tools keep no state
another part depends on.

## 7. Plan

Done, in this order: machine and recorder, recorder proofs, uploader and
logger contract, uploader proofs, session logger, main loop, OBS client, NT pipeline,
configuration store, OBS client proofs; then life cycle, upload authentication and session export
with the WPILog conversion, each with its proofs, and the proofs of main loop, configuration store,
session logger and NT pipeline; last, that a conversion is read back as the session was logged.

Left, most important first:

1. What overlapping polls of one camera report, and in which order; `latestValues`
   across reconnects.
