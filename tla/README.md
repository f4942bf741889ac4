# A TLA+ verification of the EASY Maritime Awareness Dashboard

The dashboard (Flask, `easy_dashboard/`, and a React front end, `frontend/`)
runs on a Raspberry Pi aboard a boat: two cameras, an object detector that runs
in a background thread, missions ("sessions") that collect detections and
images, and the files all of this is kept in. The process is killed by a power
switch more often than it is stopped, so the hard part of the code is what it
keeps in memory and in files at the same time, written by several threads.

Six parts are modelled, checked and proved about:

| Part | Code | Specification | Proofs | Runs |
| --- | --- | --- | --- | --- |
| detection history | `detection_manager.py` | `DetectionStore`, abstractly `DetectionLog` | `DetectionStoreProofs` | `detection_store`, `detection_status` |
| inference worker | `inference_worker.py` | `InferenceWorker` | `InferenceWorkerProofs` | `inference_worker`, `worker_restart`, `worker_retry` |
| missions | `session_manager.py` | `SessionStore`, abstractly `MissionLife` | `SessionStoreProofs`, `SessionRecordProofs` | `session_store`, `session_loss` |
| mission pipeline | `event_manager.py`, the result's way through the managers, `api_inference.py` | `EventStore`, composed in `MissionPipeline` | `MissionPipelineProofs` | `mission_pipeline`, `pipeline_overlay` |
| cameras | `rgb_hardware.py`, `thermal_hardware.py`, `system_orchestrator.py`, `app.py` | `RgbCamera`, `ThermalCamera`, composed in `Orchestrator` | `OrchestratorProofs` | `cameras`, `thermal_cooldown` |
| services | `auth.py`, `stores.py`, `acquisition_manager.py`, `dataset_exporter.py`, `source_manager.py`, `frame_provider.py`, `usePolling.ts`, `useSessionList.ts` and their routes | `Access`, `Captures`, `Exports`, `Polling`, `Sources`, put together in `Services` | `ServicesProofs` | `services` |

`MC*.tla` and `*.cfg` instantiate them for TLC. `PROJECT.json` maps each
definition to its source lines and lists hazards, runs, mutants, findings and
theorems. To check a run: `tlc -config DetectionStore.cfg MCDetectionStore`;
to check proofs: `tlapm DetectionStoreProofs.tla`.

## 1. The system

```
 browser (usePolling, AuthContext)                systemd / keep-alive thread
     |  HTTP, one thread per request                      |
     v                                                    v
 before_request: authentication, CSRF, roles        SystemOrchestrator
     |                                                    |
     v                                              cameras (RGB, thermal)
 routes --start/stop/status--> InferenceWorker            |
     |                          _demo_loop thread <- FrameProvider <- SourceManager
     |                              | result
     |                              v
     |                        DetectionManager.record_inference_result
     |                          |  (after its lock is released)
     |                          +-> EventManager.record_detections
     |                          +-> AcquisitionManager.record_inference_result
     |                                   |
     +--start/stop mission-------------> SessionManager
```

| Component | State | Operations | Hard behaviour | What makes it correct |
| --- | --- | --- | --- | --- |
| **DetectionManager** | records by id, history order, current ids; `current_detections.json`, `detection_history.json`, `.jsonl` | load, record a run, add one, clear | a crash between or inside the writes; overlap of the three files | nothing is lost, doubled, or comes back after a clear; a run is all there or not at all; a restart shows what was shown |
| **InferenceWorker** | mode, `_running`, `_thread`, `_stop_event`, failure count | start, stop, status, the loop | two starts at once; a stop that gives up waiting; an old loop next to a new one; the lock | `running` tells the truth; a stop stops; a broken set-up ends; requests are answered |
| **SessionManager** | running mission, cached lists; per mission `metadata.json`, `detections.json`, its journal, `metrics.json`, the manifest, `events.json`; `index.json`, the activity log | start, ensure, stop, flush, record, restore, polls | recording runs outside the lock the others hold; crashes between any two writes; torn lines | one mission at most; it survives a restart; a stop is final; no detection is lost or counted twice |
| **EventManager** | events by id, which are open; two files and the mission's `events.json` | record detections, resolve a mission's events, clear | a late detection after the resolution; two writers of one file | one open event per object; a stop closes the events of its mission; a closed event stays closed |
| **AcquisitionManager** | none of its own (manifest, snapshots) | record an inference, a snapshot, a pair | reads the manifest and appends later; ensures the mission twice | one result lies in one mission; a partner is of the same mission, sample and moment |
| **SourceManager, FrameProvider** | selected source, source states; position in a folder or video, last error | select, refresh, next frame, reset | two locks, two steps; a folder that changes; an error that stays | what is selected is what the model gets, again and again |
| **RgbMasterSource, ThermalState** | process or device, threads, last frame, counters | start, stop, restart, pause, frame | readers that outlive their process; starts that race; back-off | one process has the device and is read; a dead one recovers; the state shown is not a ghost's |
| **SystemOrchestrator** | system state | start, stop, restart, ensure running (keep-alive) | the keep-alive thread against restarts and requests | an enabled camera runs |
| **Authentication** | users, sessions, elevation, failed logins (memory and files) | login, logout, change, deactivate, revoke | orders of calls; failed saves; concurrent changes | an administrator remains |
| **SnapshotStore, DatasetExporter** | image files, sidecars, index | save, list, export, retain | one step of several fails; an index without a lock | the index names what exists; the latest export stays |
| **Front-end hooks** | the last answer, timers, identity | poll, refresh, login, logout | late answers, aborts | an old answer never replaces a newer one |
| **DeviceManager** | device states | refresh | pure mapping of states | |
| **Model backend** | one lazily loaded ONNX session | load, run | | |
| image arithmetic, presentation, wiring, probe, benchmark, installation | none that others depend on | | | |

The hazards these hard behaviours amount to are listed, each at its line, in
`PROJECT.json`, with the properties that cover them or the reason why none does.

## 2. What is modelled

### DetectionStore: the detection history

Every operation of `DetectionManager` that changes something takes `_lock`,
changes the tables and calls `_persist()`, so a call is the action
`RecordInferenceResult`, `AddDetection`, `Clear` or `Start` (the constructor,
which ends in a forced `_persist()`), followed by the writes `WriteCurrent`,
`AppendJournal`, `WriteHistory`, `TruncateJournal`. `step` says which write is
next; `step = "idle"` is a free lock. A file that is replaced through a
temporary file changes in one step; the journal, which is appended to, may be
left with any part of the batch (`CrashInAppend`). `Crash` may fall anywhere.
The age and size that decide on a compaction are nondeterministic, with the one
thing kept that the code rules out: an empty journal is not compacted unless
forced. The order of the history is left out, its multiplicities are kept
(`listed`, `historyCopies`).

`DetectionLog` is what other components may assume: a durable set that grows by
whole runs in one step and shrinks only during a clear. `ImplementsLog` is the
refinement, with `log` mapped to the union of the three files.

`used`, `recorded`, `erased` and `run` are history variables.

### InferenceWorker: requests and loops

Each HTTP thread (`Requests`) runs one call at a time and each thread object
(`Loops`) runs `_demo_loop` once. A critical section under `_state_lock` is one
action with the guard `lock = None`; the code between two sections is one action
per shared variable touched (`AssignThread` and `LaunchThread` are two, as
`self._thread = ...` and `self._thread.start()` are). `lock` is held across
actions by one path only: `EnterRunning`, which calls `status()` inside the
lock. Validation reads the source before the lock is taken, and the source may
change in between (`SourceChanges`). The join of `stop()` has a time limit, so
it is no guard: `MarkStopped` may come before or after the loop's end.
`frameError` is the provider's `_last_error`: set by a frame it fails to give,
seen by validation and by the top of the loop, cleared by the next frame or by
`ResetProvider`. One frame is the same thing for the loop (`Infer`) and for a
request (`RunFrame`): `FrameRaises` or `FrameServed`, which set and clear that
error. `FetchFrame` is `next_frame()`, and `RunImage` looks at an image that does
not come from the provider; a result is noted under the lock (`Noted`). So a
request may clear, or set, the error the loop is about to look at. `late` counts, per loop, inferences begun since the last stop.

### SessionStore: missions

`start_session`, `stop_session`, `flush_all` and the polls run under the
manager's lock: `op` and `opStep` are its holder and its next write.
`record_inference_result` runs outside it except for `ensure_session()`, so
every call `d` has a program counter `step[d]` and interleaves with the holder
of the lock and with other calls, down to: reading the cached list, reading the
files for it, installing it, extending it, appending to the journal, replacing
the snapshot, emptying the journal, and reloading for the metrics. A call that
holds a list which another has replaced extends a list nobody reads (`live`).
A crash inside an append leaves a line without a newline (`torn`); the next
append is glued to it and both are unreadable. Missions are named by the second
they started in, as in the code, so one second may reuse a name.

`MissionLife` is what other components may assume: one mission runs at a time; a
start puts it into memory and then, at one moment, on disk (`Start`, `Keep`); a
stop takes it out of memory and then, at one moment, off the disk (`Stop`,
`Forget`); what is on disk when the process starts is what runs (`StartUp`).
`ImplementsLife` is the refinement, with `kept` mapped to the missions that both
files name as running (`Resumable`). It contains `AtMostOneResumable`: no crash
leaves two missions to resume. A start and a stop write two files each, and the
point of the refinement is that one of the two writes, never both, changes what a
restart would do.

History variables: `recorded` (appended), `overlapped` (calls during which
another call, a stop or a shutdown ran), `glued`, `straddled` (kept in both
files when the process died), `open` (the mission whose start returned, until a
stop is called), `stopped`.

### EventStore and MissionPipeline: a result among the managers

`EventStore` is `EventManager`: `RecordDetection` (`UpdateEvent` if the key of
mission, type and source has an open event, else `CreateEvent`),
`ResolveSessionEvents`, `ClearEvents` and `LoadEvents` (the constructor) change
the memory and take the lock; `WriteCurrentEvents` and `WriteEventHistory` are
the two writes of `_persist()`, and a crash may fall before either. `LoadEvents`
reads the history and puts the current events over it; which of several open
entries a key ends up with is nondeterministic (`Indexed`), so that uniqueness
is a result and no assumption.

`MissionPipeline` EXTENDS it with the result's way through the managers. A
result `d` has a program counter `step[d]`: `Begin` (the running mission is
ensured and the records are built for it), `Store` (the history and the current
detections, under the detection manager's lock), `RaiseEvent`, `Acquire` (the
mission is ensured again, for the manifest), `ListDetection` (and a third time,
for the list of detections), `AppendManifest`. No lock spans two of them. The
stop route has one too, `route`: it looks up the mission, stops the one that
runs, resolves the events of the one it looked up, clears the detections. The
history is an instance of `DetectionLog` (`Log!Record`, `Log!BeginErase`, ...),
which `DetectionStore` implements; `running` and `started` stand for
`SessionStore`. `running` is `MissionLife` with `Start` and `Keep`, and `Stop`
and `Forget`, in one step each: a crash between them has the effect of one before
the start or before the stop.

History variables: `stored`; `cut` (results a stop came across); `late`
(detections given to the events when their mission was stopped); `torn` (events
that a crash between the two event files left open in the history file and
absent from the current one); `ending` (the mission that the stop under way has
stopped); `closed` (missions that a stop ended, once it was answered); `unseen`
(those of them that were not the mission the stop had looked up).

### RgbCamera, ThermalCamera and Orchestrator: the cameras

`RgbCamera` is `RgbMasterSource`. A launch names a capture process and the two
threads it starts; `process` is `self.process`, `live` the processes that run.
`start()` and `stop()` hold the lock and are one step each (`Start`, `Stop`);
the reader is not under it: it looks the process up when it first runs (`Bind`),
which may be a later one, then reads (`Read`), stores (`StoreFrame`) and at its
end writes OFFLINE (`ReaderEnds`). `Report` is a line on stderr. A request
pauses a view and only then starts or stops (`Toggle`, then `Enable`,
`Disable`, `PauseStops`), or waits for a frame and restarts the camera when
none came (`WaitForFrame`, `Waited`, `Recover`).

`ThermalCamera` is `ThermalState` in its continuous mode. Every request may
start the worker, by a look at `_worker_started` (`Ask`) and a step that sets it
(`Spawn`), so two may. A worker turns (`Turn`, the one look at the
temperature), opens a stream, receives and publishes frames, and closes the
stream when it fails (`NoFrame`, `Close`). A process that outlives its kill by a
second makes the wait raise and ends the worker (`Close`, second case), whose
outer `finally` clears the flag; the process keeps the device, `self._stream_process`
goes on naming it, and the next worker's FFmpeg ends at once, until the system
lets go of it (`Reap`). `stop()` does not wait for a process it killed either
(`EndStream`). `killed` are those processes.

`Orchestrator` EXTENDS both with the orchestrator's lock (`owner`), the
keep-alive, the restart route and the exit handler, each a `job` that goes
through the calls of `ensure_running()`, `stop()` and `restart()`; `restart()`
gives the lock back between its stop and its start.

### Services: accounts, archive, exports, polls, sources

Five modules that share no state which changes; `Services` lets a behaviour be
one of one of them, so that they share an instance and a proof.

- `Access`: a request finds its session, then its account, then acts, each
  under a lock of its own (`Request`, `Resolve`, `Update`, ...), so everything
  it read may be old. `Save` changes the memory and then the file, or fails and
  leaves the memory changed; `RestartAccess` reads the file and forgets the
  sessions.
- `Captures`: `WriteImage`, `WriteSidecar`, `WriteIndex` are the writes of
  `SnapshotStore.save()`, under its lock; `Undo` and `UndoSidecar` its clean-up.
  Then, without a lock, `Look` (which mission runs), `Pair` (the closest item
  of the other modality within the window) and `Enter` (the manifest). A paired
  request does so for three images, with the set's number in the place of a
  partner. `Crash` falls anywhere and rebuilds the index from the folders.
- `Exports`: `Export`, `Zip`, `LoadLast`, `ReadRows`, `WriteRows` and `Retain`,
  `Plan` (which reads the index again), `Delete`, `KeepRows`, `SetLast`; none
  takes a lock. `LoadLast` is line 222, which reads the shared `_last_export`
  back: another export's, or None, which makes a null row at which later loops
  over the index raise (`AboveNull`) and the program may not start again. Threads
  change places between 213 and 222 in Python 3.9, which the project supports;
  later versions do so only at calls and jumps, and there is none in between.
  `entered` numbers the exports, and the index, which lists the latest first, is
  the set of the numbers it has a row for.
- `Polling`: each effect of `usePolling` has a request of its own (`inFlight`),
  each refresh of `useSessionList` a number; requests are served in any order
  (`Serve`) with the server's version of that moment or a failure, and answers
  arrive in any order (`Receive`, `ReceiveList`).
- `Sources`: a camera's availability, the device that remembers it, the source
  that remembers the device, the selection, the provider, and the worker's loop,
  which asks for the frames. `Select`, `Sync`, `Configure` are the route's three
  steps under two locks. `NextFrame` reads the folder anew each time, as
  `FolderFrameProvider` does. `LoopLooks` is the top of the loop (it resolves the
  selected source's record and ends the loop where `Accepts` is false, also for
  the provider's error), `LoopAsks` its frame; `StartLoop`, `StopLoop` and
  `AskFrame` are requests. After an error no loop runs and none is started until
  a selection, a reset or a frame that succeeds clears it.

History variables: `cut` (pictures that were being saved when the process died),
`mistaken` (exports that another export's request entered), `overlapped`
(whether a selection began before another was through).

## 3. What the runs show

| Run | Instance | Properties |
| --- | --- | --- |
| `detection_store` | 4 interchangeable detections | `TypeOK`, `RestartShowsSameHistory`, `NothingLost`, `RunsAreAtomic`, `NoDuplicates`, `ErasedStaysErased`, `ClosedStaysClosedOnDisk`, `ImplementsLog`: all hold |
| `detection_status` | 3 detections | `OnlyCurrentIsNew`: **violated** |
| `inference_worker` | 2 requests, 2 loops, 2 failures, with fairness | `TypeOK`, `RunningHasALoop`, `StopBoundsWork`, `StopEndsLoops`, `BrokenSetupEnds`: all hold |
| `worker_restart` | 1 request, 2 loops, 1 failure, with fairness | `EveryRequestReturns`: **violated** |
| `worker_retry` | 1 request, 1 loop, 2 failures | `TransientFailureIsRetried`: **violated** |
| `session_store` | 2 interchangeable detections, 2 seconds | `TypeOK`, `MissionSurvivesRestart`, `StopIsFinal`, `SequentialCallsAreDurable`, `CountedOnce`, `ImplementsLife`: all hold |
| `session_loss` | 1 detection, 1 second | `NothingBetweenCompactionsIsLost`: **violated** |
| `mission_pipeline` | 2 interchangeable results, 2 missions, 1 kind of event | `TypeOK`, `OneOpenEventPerKey`, `CurrentEventsAreOpen`, `StopClosesEvents`, `FiledTogether`, `ClosedEventsStayClosed`: all hold |
| `pipeline_overlay` | 1 result, 2 missions | `StopClearsOverlay`: **violated** |
| `cameras` | 2 launches, 2 workers, one camera at a time, with fairness | `TypeOK`, `OneCapture`, `LiveProcessIsRead`, `NoGhostCamera`, `FlagHasWorker`, `NoOrphanStream`, `EnabledCameraRuns`, `SensorComesBack`: all hold |
| `thermal_cooldown` | 2 workers, 3 changes of sensor or CPU, with fairness | `HotSensorPauses`: **violated** |
| `services` | one part at a time, with fairness | `TypeOK`, `ArchiveIsSound`, `OnlyOlderExportsGo`, `AdminRemains`, `LateAnswersAreDropped`, `PollGoesOn`, `SelectedSourceDelivers`: all hold |

Every property of a run that holds has a mutant in `PROJECT.json`: a plausible
bug in one definition of the model with which TLC finds that property violated.

### Where code and comments disagree

- **A replaced detection is shown as NEW** (`detection_status`;
  `detection_manager.py:144`). A new run closes the previous one in memory only;
  the journal holds it as NEW. A restart that finds the old run still current
  compacts it as NEW, and after the next run its journal line is gone: the
  restart after that loads it as NEW, although line 47 says it is RESOLVED.
- **A start that finds the worker running never returns** (`worker_restart`;
  `inference_worker.py:882`). It calls `status()` inside the non-reentrant lock
  `status()` takes; status, stop and the loop then wait too. Line 13 calls the
  worker thread-safe. The properties of `inference_worker` that speak of
  progress exclude exactly this state (`SelfBlocked`).
- **One failed frame ends the loop** (`worker_retry`;
  `inference_worker.py:719`). The provider keeps its error until another frame
  succeeds; the loop counts the failure, waits, and then takes the same error
  for a broken provider. Line 758 says one failure must not end it. The count of
  consecutive failures is therefore only reached by failures of the inference, or
  with a request for a frame that clears the error in between; and a request for
  a frame that fails ends a loop that did not.
- **A detection recorded during a compaction is lost** (`session_loss`;
  `session_manager.py:582`). It is extended and journalled between the snapshot
  and the truncation of a compaction, and is in neither file when the process
  ends, or when a stop evicts the list. Line 516 says nothing between
  compactions is lost. `SequentialCallsAreDurable` and `CountedOnce` state what
  remains true: they set aside the calls that overlap another (`overlapped`).
- **A stopped mission's detections are drawn after the stop** (`pipeline_overlay`;
  `detection_manager.py:497`). A result built for the running mission waits for
  the lock while the stop route clears the detections; it then makes them the
  current ones. The comment at `api_inference.py:213` says the clear is there to
  prevent this.
- **A hot sensor goes on** (`thermal_cooldown`; `thermal_hardware.py:371`). The
  temperature is read once per attempt to open the stream; a stream that works
  is read in an inner loop that never looks at it. Line 26 says that capture
  pauses while the CPU is at or above 78 C, line 370 "checked on every cycle".

`StopClosesEvents` and `CurrentEventsAreOpen` set aside three things the code
does. The first is at odds with the stop route's docstring ("Stop the mission,
close its events", `api_inference.py:202`): the route looks the mission up (204)
and stops whichever runs (206), so where the look-up finds none and a result
starts a mission in between, that mission is stopped and answered with all its
events open (`unseen`). The other two no document denies in so many words. A result still on its way when its
mission stops opens an event that no stop will close (`late`). And a crash
between `current_events.json` and `event_history.json`, during a stop or a clear,
leaves an event open that is not among the current ones (`torn`): later
detections join it, and `resolve_session_events`, which walks the current ones
(`event_manager.py:364`), never closes it.

What else was met and is stated by no property, for the code promises nothing
that it breaks, or the part is not modelled:

- Two captures of one moment may each look for a partner before the other is
  entered, and both stay alone (`Pair`, `Enter`).
- Two selections of a source may overlap and leave one source selected and the
  other one served (`api_runtime.py:120`): `SelectedSourceDelivers` excuses them
  (`overlapped`).
- The row an export enters may be another export's, or null
  (`dataset_exporter.py:222`, see `Exports`). Two rows of one export are removed
  together, the latest export with them: `OnlyOlderExportsGo` excuses such exports
  (`mistaken`) and no others.
- A crash in the middle of a save leaves an image without its sidecar, or a
  sidecar without its image, which the rebuilt index does not mend:
  `ArchiveIsSound` excuses the picture at hand (`cut`).
- The worker's loop ends with the first frame that fails, whatever the source,
  and `start()` refuses while the error is kept (`inference_worker.py:847`), also
  after the camera came back; an empty folder that is filled again is refused
  until a frame is asked for, since the count is the last frame's (866).
- A reader of a dead RGB process whose successor runs never ends
  (`rgb_hardware.py:279-281`): it sleeps and looks again for good.
- The thermal back-off counts attempts and is never reset
  (`thermal_hardware.py:434`): after four it is 16 s for good, also after
  success, and never the 30 s of the docstring.
- A set of samples none of which is hashed to `train` has its first one moved
  there (`dataset_exporter.py:161`): an export made before other samples came
  may put it elsewhere, though lines 9-10 say that it always lands in the same
  split. Two images of one feed in one sample get one file name (169), and the
  second replaces the first.
- A retention that fails between two deletions leaves `_last_export` on an
  export whose archive is gone, until the next one or a restart.
- A password that is replaced leaves the sessions of the account open
  (`api_auth.py:391`).

### Bounds, and why they suffice

- `DetectionStore`: no bound but the number of detections. Four allow a run of
  two to replace a run of two with a crash in any write of both; an id has no
  role but to be distinct, and the theorems hold for every set.
- `InferenceWorker`: two requests race for the two unlocked steps of a start;
  two loops let an old one outlive its stop beside a new one; `MaxFailures = 2`
  distinguishes one failure from a run of them. `StartRequest` requires an
  unused thread object for every start on its way, which bounds the starts of a
  behaviour by `Loops`; stop, status and refused starts are unbounded.
- `SessionStore`: two calls overlap each other and a holder of the lock; two
  seconds (`MaxSecond`, the only guard added) give a mission that is stopped and
  another one after it. Copies saturate at two: properties only tell none, one
  and more apart.
- `MissionPipeline`: two results meet in every pair of steps, share an event or
  not, and belong to one mission or to two; `MaxMissions = 2` gives a stop with
  a mission after it. One stop or clear at a time. With one kind, the two events
  share a key exactly when they are of one mission, which is the case that
  collides.
- `cameras`: builds with the RGB camera only (two requests and a restart, or two
  requests and a fault) or the thermal camera only (three changes of sensor or
  CPU, or an exit), since the two share the orchestrator's jobs and nothing
  else. One caller interleaves with the keep-alive, the restart and the threads;
  two launches let an old reader meet the next process, and a launch waits until
  a name is free; two workers are what the race for the flag can make. One view
  can be paused, so that both are paused when it is.
- `services`: accounts with 2 requests from 2 browsers and 2 failed saves or
  restarts, where two administrators may demote each other; captures with 2
  requests on 2 threads, one mission and one failure, or two missions and none,
  3 pictures, two moments and a window of 0, where two images are partners or
  not; exports with 4 requests on 2 threads, 3 exports and one failure, where a
  retention of 0, 1 or 2 falls between two exports and another retention;
  polling with 5 clicks, 2 effects and 2 refreshes; sources with one camera, 2
  images, 2 tabs and 4 changes or clicks (`turns`), which are enough for a camera
  that comes, is selected, is started on and goes, for a folder that empties
  under the loop, and for two selections that overlap.

One configuration switches deadlock checking off: in `services` a part ends when
its requests are used up, and nothing then moves. In every other one something
stays enabled: a crash and a restart, a status request, a change of the source,
the keep-alive, or the step that stands for a program that was left.

### Fairness

`InferenceWorker`, `Orchestrator` and `Services` state liveness. Threads are
scheduled by the operating system, and a critical section is one step of the
model, so a free lock is not withheld from a waiting thread for ever: weak
fairness of each thread's, each loop's and each pending request's next step, and
nothing stronger. Beyond that:

- the keep-alive comes round, because its thread sleeps five seconds and calls
  again (`app.py:258`); a back-off runs out; a camera process that runs gives a
  frame, since its reader is fair (a process that hangs without a viewer is left
  out, see below); a worker's read of FFmpeg has a time limit;
- a timer of the browser fires, a request is answered or given up after eight
  seconds (`client.ts`), and its answer is handled;
- the keep-alive refreshes the devices, the two seconds of the folder's answer
  pass, and a selection under way and the worker's loop run on. Nobody has to
  look at the dashboard or to ask for a frame: `SelectedSourceDelivers` speaks of
  a loop that runs on for ever, and of the end of one whose source stays away;
- the operating system lets go of a killed FFmpeg process in the end (`Reap`).

Starting requests, stopping, pausing, failures, the state of the source, the
sensor, the CPU and the server are the operator's and the world's: no fairness.
`DetectionStore`, `SessionStore` and `MissionPipeline` state safety only; nothing
in the code promises when an unforced compaction happens.

## 4. What is proved

All theorems hold for every value of the constants under the assumptions the
modules name: `AbsentAssumption` (the value for "not in the table" is no
status), `WorkerAssumption` (finitely many thread objects, at least one failure
allowed, `None` is no thread) and `SessionAssumption` (at least one second,
`None` is neither a detection nor a number nor a list) and `EventAssumption` (`None` is no
number, kind, detection, event or name of a lock's holder), those of the
cameras (names are finitely many, and none is the one for "no process") and
those of the services (ids, pictures and exports are positive numbers, sessions
and images finitely many, markers are no ids).

**DetectionStoreProofs**: all eight properties of the run (`TypeCorrect`,
`Durability`, `RunAtomicity`, `ErasureIsFinal`, `Uniqueness`,
`RestartFidelity`, `ClosedForGood`) including the refinement
(`Implementation`). The properties are not inductive: whether a crash loses
something depends on how far `_persist()` is. `IInv` adds, per step of it, where
memory and files agree (`AgreeInv`), that what the current file names is in
another file before the next run overwrites it (`CoverInv`, the reason why
`WriteCurrent` never loses a detection), that each file counts an id at most
once (`TableInv`), what a clear has emptied already (`ClearInv`), and that a
detection closed on disk is neither current nor open in memory (`ClosedInv`).
One lemma per action preserves it; the refinement is one lemma on steps.

**InferenceWorkerProofs**: all three safety properties of the run (`TypeCorrect`,
`RunningIsBacked`, `StopIsPrompt`), for any number of requests and loops. `RunningHasALoop` alone fails under induction when two
starts store their threads and one launch raises: `LaunchInv` adds that the
stored object is unstarted only while some request is about to start it.
`LateInv` adds that a loop which began work after a stop is past its last
inference. `TypeOK` bounds the count of failures, which the loops share:
`FailInv` says that it exceeds `MaxFailures` by no more than the loops that have
failed and not yet looked at it, or are past the loop (`Spent`). A failure adds
one to both; a loop leaves `Spent` only when the count is within the limit
(`FailStep`); and no other step takes a loop out of it (`SpentGrows`).

**SessionStoreProofs**: `OneMission`, `Survival`, `StopFinality` and the
refinement of `MissionLife` (`Implementation`), for any number of missions and
recorders. `FileInv` says what the two files name at each
write of a start and of a stop: a start writes the mission's own file first and
a stop too, so `Resumable`, which needs both files to agree, changes by one
write. The calls that record never touch these variables (`LifeFrame`), so the
proof has one lemma per action of the lock's holder. The refinement follows from
the same invariant: `WriteStep` says which of the two writes is `Keep` or
`Forget` and that the other is a stutter, `LifeStep` maps every other step.

**SessionRecordProofs**: the other three (`TypeCorrect`, `Durability`,
`SingleCount`), for any number of missions and of calls that record. Neither
`SequentialCallsAreDurable` nor `CountedOnce` is inductive: both speak of the
calls that overlapped nothing, whose detection the other calls, which may overlap
as they like, still read, carry and write. `IInv` follows such a detection from
its call to the files:

- before its call extends the list it is nowhere, not even in a list that another
  call has read and not yet installed (`EarlyInv`);
- while its call is in progress no other is, and only a start may hold the lock
  (`AloneInv`; `Beside` says what can happen meanwhile); so the list it extends
  is the one in memory, and no file is written before it appends (`HoldsInv`);
- from then on (`SafeInv`) it is in the snapshot or the journal, in the list if
  there is one, in every list a call carries to the memory or to the snapshot,
  and in the snapshot while its journal is about to be emptied. `SafeStays` is
  that this survives every step of every actor. This is what the lost detection
  of `session_loss` lacks, since it came between the two writes of a compaction;
- in each place it is there once (`OnceInv`). The snapshot and the journal both
  have it only between the two writes of a compaction, and then nobody reads
  them, because the list is in memory until the journal is empty: a stop evicts
  the list only after that. A crash ends the reading of the list, so it adds what
  is in both files to `straddled`.

`ListInv`, which the type of `dump` needs too, is that a compaction under the
lock always finds a list in memory: nothing but `Evict` drops one.

**MissionPipelineProofs**: all six properties of the run (`TypeCorrect`,
`UniqueOpenEvent`, `CurrentAreOpen`, `StopCloses`, `ResultsStayTogether`,
`ClosedStayClosed`), for any number of results, missions and kinds, and that the
event files name only detections the history held (`EventsAreStored`). `OneOpenEventPerKey` speaks of the memory, which a restart rebuilds
from two files written at different times, so `IInv` says what a start-up would
bring at every step: `IndexInv` (the keys index exactly the open events),
`DiskInv` (the two files together hold one open event per key, and what the
history closed is open nowhere) and `StepInv` (how far the files are behind; in
particular, while the current file is not yet written, any open event of the
history that shares a key with a current one is that one or is current itself,
which is why a mixture of old and new files is harmless). `TornInv` makes the
crash exact. `WorldInv` and `FreshInv` tie results to missions and to the
absence of an event of their own, `RouteInv` says that neither the mission the
stop route looked up nor the one it stopped runs again, and `LateInv` carries the result of a
resolution from memory to the file. One lemma per action that touches events,
one frame lemma (`FrameInv`) for all others.

**OrchestratorProofs**: the six safety properties of the run (`TypeCorrect`,
`CameraOpenedOnce`, `RunningIsRead`, `NoGhost`, `FlagIsTrue`,
`StreamsHaveOwners`), for any number of launches, workers, callers and builds.
`LiveProcessIsRead` needs that `_stop` is not set while a process runs
(`RunningIsWanted`), for else its readers would end; `NoGhostCamera` needs that
a reader still to look up its process will find one, or that another is past it
(`GhostInv`). `Start` and `Stop` have a lemma each, which the callers, the
keep-alive and the restart all use, and every thermal step one.

**ServicesProofs**: type correctness of all five parts, `AdminStays`,
`NoOldAnswer`, `ArchiveStaysSound`, `OlderExportsGo` and the safety part of
`SelectedSourceDelivers` (`FramesFailForCause`), for any number of accounts,
browsers, images, missions, requests, exports and tabs.

- `AdminRemains` is about a file that may be older than the memory: `AdminIsKept`
  adds that the file never has an administrator whom the memory lacks, and
  `CarriesUser` that requests carry accounts that exist.
- `LateAnswersAreDropped` needs that an answer which would be shown is no older
  than what is shown, and that effects to come have asked nothing (`AnswersInv`).
- `ArchiveIsSound` rests on `CapturesInv`: one request saves at a time and what
  has no row is its picture (`SaveIsAlone`), what a request knows of the picture
  and the partner at hand still holds (`JobOK`), and entered items stay partnered
  as others are added (`CandidatesStay`); and on `SidecarsOK`, that only the
  picture being saved, or one that was when the process died, lacks an image or a
  sidecar.
- `OnlyOlderExportsGo` rests on `ExportsInv`: an export is in the index twice
  only if it was entered by mistake, and the latest one has its archive or was
  (`EntriesOK`); a request makes an export of its own, whose archive is there
  from `Zip` on unless it was entered by mistake, and no retention is after the
  latest one (`TaskOK`).
- `FailsForCause` rests on the position: past the end of a folder that shrank the
  first image is next, so a frame finds none only in an empty folder.
- That a set of numbers has a least and a greatest element (`LeastOf`,
  `GreatestOf`), which the choice of a partner (`BestCandidate`) and of the last
  export need, comes from the well-foundedness of `<` on the naturals.

Every invariant and every action property that a passing run checks, and the
refinements of `DetectionLog` and of `MissionLife`, is a theorem. Only model-checked are the liveness
properties `StopEndsLoops`, `BrokenSetupEnds`, `EnabledCameraRuns`,
`SensorComesBack`, `PollGoesOn` and `SelectedSourceDelivers`. Out of the
prover's reach are liveness under fairness, ENABLED and induction over data; no
module uses a RECURSIVE operator.

## 5. What is left out

- `DetectionStore`: the order of the history, the fields of a record.
- `InferenceWorker`: the last-inference snapshot file, saved artifacts, the
  timing of frames. The provider is reduced to its sticky error.
- `SessionStore`: the manifest, `metrics.json`, the activity log (whose journal
  has the scheme of the detections'), the clock that paces unforced
  compactions, and the events file shared with `EventManager`. A call records
  one detection: a batch is extended and appended by the same two statements.
- `EventStore`: the `events.json` of each mission, which `SessionManager`
  rewrites from a cache of its own, and the fields of an event but its status
  and detections.
- `MissionPipeline`: results with several detections (they are stored, told to
  the events and listed as one batch), two stops or clears at once, the reuse of
  a mission's id within a second (`SessionStore` has it), the crash inside one
  manager's writes other than the event files (the managers' own modules have
  it), the exceptions a manager may raise.
- `RgbCamera`: a capture process that hangs while nobody waits for a frame (no
  code restarts it then), a process that the system holds back for two seconds
  after its kill (191, where the wait would raise and leave the camera to two
  processes), detection, the frame buffer, and `pause_for_thermal`, which nothing
  registers. `ThermalCamera`: the mock and on-demand modes, a
  failure to run FFmpeg, error texts; DEGRADED is merged into ERROR.
  `Orchestrator`: its calls of the worker, the sources and the missions, which
  have modules of their own.
- `Access`: passwords, the limit on failed logins, CSRF tokens, the audit log,
  the enforcement switch; time, so that a session may expire at any moment.
- `Captures`, `Exports`: listings, sizes, splits, file names; the activity store.
- `Polling`: delays, and hooks that only use these two. `Sources`: the thermal
  source, which the route refuses, and providers of single images and videos,
  which no route selects.
- Not modelled for want of a promise: the identity a browser keeps
  (`AuthContext.tsx`), where a refresh that began before a login overwrites it.
- Not modelled by choice: the model backend (a frame that raises or a start that
  is refused, in `InferenceWorker`), image arithmetic, drawing, layout, wording, the host
  probe, the benchmark, installation scripts. They keep no state the rest of
  the dashboard depends on.

## 6. What could follow

1. The `events.json` that `EventManager` and `SessionManager` both write, and
   `metrics.json`, read and written outside the lock.
2. `MissionPipeline` over an instance of `MissionLife` instead of `running`, so
   that a crash may fall inside a start or a stop there too; liveness of the stop
   route.
3. A clock: the compaction that frequent results put off for ever
   (`session_manager.py:556`), the age of thermal frames, the back-off.
