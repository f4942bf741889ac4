-------------------------- MODULE OrchestratorProofs --------------------------
(***************************************************************************)
(* Proofs about Orchestrator: the safety of the two cameras, for any names, *)
(* any threads and any budget.  CameraInv and WorkerInv are the inductive   *)
(* invariants of the two cameras; the orchestrator's steps are steps of     *)
(* theirs.                                                                  *)
(***************************************************************************)
EXTENDS Orchestrator, TLAPS

CameraTypeOK ==
  /\ process \in Launches \cup {None}
  /\ live \in SUBSET Launches
  /\ reader \in [Launches -> {"none", "new", "read", "store", "end"}]
  /\ bound \in [Launches -> Launches \cup {None}]
  /\ listener \in [Launches -> {"off", "on"}]
  /\ stop \in BOOLEAN /\ frame \in BOOLEAN /\ backoff \in BOOLEAN
  /\ status \in {"OFFLINE", "STARTING", "ONLINE", "BUSY", "ERROR"}
  /\ faults \in Nat

\* No stop is pending for the process that runs: it ended the ones before.
RunningIsWanted == Running => ~stop

\* A camera shown as on has a reader past its look-up of the process, or one
\* that will find a process there.
GhostInv ==
  status \in {"STARTING", "ONLINE"} =>
    \E l \in Launches : \/ reader[l] \in {"read", "store", "end"}
                        \/ reader[l] = "new" /\ process # None

CameraInv ==
  CameraTypeOK /\ OneCapture /\ RunningIsWanted /\ LiveProcessIsRead /\ GhostInv

\* What the requests keep of the RGB camera.
CallTypeOK ==
  /\ feeds \in SUBSET Feeds
  /\ call \in [Callers -> {"idle", "enable", "disable", "stop", "wait", "recover"}]
  /\ calls \in Nat

USE LaunchesAssumption, WorkersAssumption

LEMMA SameKeeps ==
  ASSUME CameraInv, UNCHANGED <<camera, threads, faults>>
  PROVE  CameraInv'
<1>1. UNCHANGED <<process, live, stop, status, frame, backoff, reader, bound, listener, faults>>
  BY DEF camera, threads
<1>2. CameraTypeOK' /\ OneCapture' /\ RunningIsWanted'
  BY <1>1 DEF CameraInv, CameraTypeOK, OneCapture, RunningIsWanted, Running
<1>3. LiveProcessIsRead' /\ GhostInv'
  BY <1>1 DEF CameraInv, LiveProcessIsRead, GhostInv, Running
<1> QED BY <1>2, <1>3 DEF CameraInv

LEMMA LaunchedKeeps ==
  ASSUME CameraInv, stop' = FALSE, frame' = FALSE, Launched, UNCHANGED bound
  PROVE  CameraInv'
<1>1. PICK l \in Launches :
        /\ Free(l) /\ process' = l /\ live' = (live \ {process}) \cup {l}
        /\ status' = "STARTING" /\ reader' = [reader EXCEPT ![l] = "new"]
        /\ listener' = [listener EXCEPT ![l] = "on"] /\ UNCHANGED <<backoff, faults>>
  BY DEF Launched
<1>2. CameraTypeOK'
  BY <1>1 DEF CameraInv, CameraTypeOK
<1>3. OneCapture' /\ RunningIsWanted'
  BY <1>1 DEF CameraInv, OneCapture, RunningIsWanted, Running
<1>4. reader'[l] = "new" /\ process' # None
  BY <1>1 DEF CameraInv, CameraTypeOK, None
<1>5. LiveProcessIsRead' /\ GhostInv'
  BY <1>1, <1>4 DEF LiveProcessIsRead, GhostInv
<1> QED BY <1>2, <1>3, <1>5 DEF CameraInv

LEMMA LaunchFailsKeeps ==
  ASSUME CameraInv, stop' = FALSE, frame' = FALSE, LaunchFails, UNCHANGED bound
  PROVE  CameraInv'
<1>0. faults \in Nat /\ faults > 0 /\ faults' = faults - 1
  BY DEF CameraInv, CameraTypeOK, LaunchFails
<1>4. faults' \in Nat
  BY <1>0
<1>1. CameraTypeOK'
  BY <1>4 DEF CameraInv, CameraTypeOK, LaunchFails, None
<1>2. ~Running' /\ live' = {}
  BY DEF CameraInv, CameraTypeOK, OneCapture, LaunchFails, Running, None
<1>3. GhostInv'
  BY DEF LaunchFails, GhostInv
<1> QED BY <1>1, <1>2, <1>3 DEF CameraInv, OneCapture, RunningIsWanted, LiveProcessIsRead

\* A start, forced or not, keeps the camera sound.
LEMMA StartKeeps ==
  ASSUME CameraInv, NEW force, Start(force)
  PROVE  CameraInv'
<1>1. CASE UNCHANGED <<camera, threads, faults>>
  BY <1>1, SameKeeps
<1>2. CASE /\ stop' = FALSE /\ frame' = FALSE /\ UNCHANGED bound
           /\ Launched \/ LaunchFails
  <2>1. CASE Launched
    BY <1>2, <2>1, LaunchedKeeps
  <2>2. CASE LaunchFails
    BY <1>2, <2>2, LaunchFailsKeeps
  <2> QED BY <1>2, <2>1, <2>2
<1> QED BY <1>1, <1>2 DEF Start

LEMMA StopKeeps ==
  ASSUME CameraInv, Stop, UNCHANGED <<threads, faults>>
  PROVE  CameraInv'
<1>1. CameraTypeOK'
  BY DEF CameraInv, CameraTypeOK, Stop, threads, None
<1>2. live' = {} /\ ~Running'
  BY DEF CameraInv, CameraTypeOK, OneCapture, Stop, Running
<1>3. GhostInv'
  BY DEF Stop, GhostInv, CameraInv, CameraTypeOK
<1> QED BY <1>1, <1>2, <1>3 DEF CameraInv, OneCapture, RunningIsWanted, LiveProcessIsRead

LEMMA ThreadKeeps ==
  ASSUME CameraInv, NEW l \in Launches, ThreadStep(l) \/ Report(l)
  PROVE  CameraInv'
<1> USE DEF CameraInv, camera, threads
<1>1. CASE Bind(l)
  <2>1. CameraTypeOK'
    BY <1>1 DEF Bind, CameraTypeOK
  <2>2. OneCapture' /\ RunningIsWanted'
    BY <1>1 DEF Bind, OneCapture, RunningIsWanted, Running
  <2>3. LiveProcessIsRead'
    BY <1>1 DEF Bind, LiveProcessIsRead, Running, CameraTypeOK
  <2>4. GhostInv'
    BY <1>1 DEF Bind, GhostInv, CameraTypeOK
  <2> QED BY <2>1, <2>2, <2>3, <2>4
<1>2. CASE Read(l)
  <2>1. CameraTypeOK' /\ OneCapture' /\ RunningIsWanted'
    BY <1>2 DEF Read, CameraTypeOK, OneCapture, RunningIsWanted, Running
  <2>2. LiveProcessIsRead'
    BY <1>2 DEF Read, Ends, LiveProcessIsRead, RunningIsWanted, Running, CameraTypeOK
  <2>3. GhostInv'
    BY <1>2 DEF Read, GhostInv, CameraTypeOK
  <2> QED BY <2>1, <2>2, <2>3
<1>3. CASE StoreFrame(l)
  <2>1. CameraTypeOK' /\ OneCapture' /\ RunningIsWanted'
    BY <1>3 DEF StoreFrame, CameraTypeOK, OneCapture, RunningIsWanted, Running
  <2>2. LiveProcessIsRead'
    BY <1>3 DEF StoreFrame, LiveProcessIsRead, Running, CameraTypeOK
  <2>3. reader'[l] = "read"
    BY <1>3 DEF StoreFrame, CameraTypeOK
  <2>4. GhostInv'
    BY <2>3 DEF GhostInv
  <2> QED BY <2>1, <2>2, <2>4
<1>4. CASE ReaderEnds(l)
  <2>1. CameraTypeOK' /\ OneCapture' /\ RunningIsWanted'
    BY <1>4 DEF ReaderEnds, CameraTypeOK, OneCapture, RunningIsWanted, Running
  <2>2. LiveProcessIsRead'
    BY <1>4 DEF ReaderEnds, LiveProcessIsRead, Running, CameraTypeOK
  <2>3. GhostInv'
    BY <1>4 DEF ReaderEnds, GhostInv, CameraTypeOK
  <2> QED BY <2>1, <2>2, <2>3
<1>5. CASE Report(l) \/ ListenerEnds(l)
  <2>1. UNCHANGED <<process, live, stop, frame, reader, bound>>
    BY <1>5 DEF Report, ListenerEnds
  <2>0. faults \in Nat /\ ((faults > 0 /\ faults' = faults - 1) \/ faults' = faults)
    BY <1>5 DEF Report, ListenerEnds, CameraTypeOK
  <2>6. faults' \in Nat
    BY <2>0
  <2>2. CameraTypeOK'
    BY <1>5, <2>1, <2>6 DEF Report, ListenerEnds, CameraTypeOK
  <2>3. OneCapture' /\ RunningIsWanted' /\ LiveProcessIsRead'
    BY <2>1 DEF OneCapture, RunningIsWanted, LiveProcessIsRead, Running
  <2>4. status' \in {"BUSY", "ERROR"} \/ status' = status
    BY <1>5 DEF Report, ListenerEnds
  <2>5. GhostInv'
    BY <2>1, <2>4 DEF GhostInv
  <2> QED BY <2>2, <2>3, <2>5
<1> QED BY <1>1, <1>2, <1>3, <1>4, <1>5 DEF ThreadStep

LEMMA RgbKeeps ==
  ASSUME CameraInv, CallTypeOK, RgbNext
  PROVE  CameraInv' /\ CallTypeOK'
<1>1. CASE \E l \in Launches : ThreadStep(l) \/ Report(l)
  <2>1. UNCHANGED <<feeds, call, calls>>
    BY <1>1 DEF ThreadStep, Bind, Read, StoreFrame, ReaderEnds, Report, ListenerEnds
  <2> QED BY <1>1, <2>1, ThreadKeeps DEF CallTypeOK
<1>2. ASSUME NEW c \in Callers, CallStep(c)
      PROVE  CameraInv' /\ CallTypeOK'
  <2>1. CASE Toggle(c) \/ Disable(c) \/ Waited(c)
    <3>1. UNCHANGED <<camera, threads, faults>>
      BY <2>1 DEF Toggle, Disable, Waited
    <3>2. CameraInv'
      BY <3>1, SameKeeps
    <3>3. CallTypeOK'
      BY <2>1 DEF Toggle, Disable, Waited, Go, CallTypeOK
    <3> QED BY <3>2, <3>3
  <2>2. CASE Enable(c) \/ WaitForFrame(c) \/ Recover(c)
    <3>0. calls \in Nat /\ ((calls > 0 /\ calls' = calls - 1) \/ calls' = calls)
      BY <2>2 DEF Enable, WaitForFrame, Recover, CallTypeOK
    <3>4. calls' \in Nat
      BY <3>0
    <3>1. CallTypeOK'
      BY <2>2, <3>4 DEF Enable, WaitForFrame, Recover, Go, CallTypeOK
    <3>2. CASE \E force \in BOOLEAN : Start(force)
      BY <3>1, <3>2, StartKeeps
    <3>3. CASE UNCHANGED <<camera, threads, faults>>
      BY <3>1, <3>3, SameKeeps
    <3> QED BY <2>2, <3>2, <3>3 DEF Enable, WaitForFrame, Recover
  <2>3. CASE PauseStops(c)
    <3>1. CameraInv'
      BY <2>3, StopKeeps DEF PauseStops, threads
    <3>2. CallTypeOK'
      BY <2>3 DEF PauseStops, Go, CallTypeOK
    <3> QED BY <3>1, <3>2
  <2> QED BY <1>2, <2>1, <2>2, <2>3 DEF CallStep
<1>3. CASE Die \/ BackoffOver
  <2>1. UNCHANGED <<process, stop, status, frame, reader, bound, listener, feeds, call, calls>>
    BY <1>3 DEF Die, BackoffOver, threads
  <2>0. faults \in Nat /\ ((faults > 0 /\ faults' = faults - 1) \/ faults' = faults)
    BY <1>3 DEF Die, BackoffOver, CameraInv, CameraTypeOK
  <2>6. faults' \in Nat
    BY <2>0
  <2>2. /\ live' = live \/ live' = live \ {process}
        /\ backoff' \in BOOLEAN /\ faults' \in Nat
    BY <1>3, <2>6 DEF Die, BackoffOver, CameraInv, CameraTypeOK
  <2>3. CameraTypeOK' /\ CallTypeOK'
    BY <2>1, <2>2 DEF CameraInv, CameraTypeOK, CallTypeOK
  <2>4. OneCapture' /\ RunningIsWanted' /\ LiveProcessIsRead'
    BY <2>1, <2>2 DEF CameraInv, OneCapture, RunningIsWanted, LiveProcessIsRead, Running
  <2>5. GhostInv'
    BY <2>1 DEF CameraInv, GhostInv
  <2> QED BY <2>3, <2>4, <2>5 DEF CameraInv
<1> QED BY <1>1, <1>2, <1>3 DEF RgbNext

-----------------------------------------------------------------------------
\* The flag and the processes of the workers, with the types they rest on.
WorkerInv == ThermalTypeOK /\ FlagHasWorker /\ NoOrphanStream

LEMMA StartWorkerKeeps ==
  ASSUME WorkerInv, StartWorker, UNCHANGED world, request' \in [Clients -> {"idle", "spawn"}]
  PROVE  WorkerInv'
<1>1. PICK w \in Workers :
        /\ worker[w] = "none" /\ worker' = [worker EXCEPT ![w] = "top"]
        /\ workerThread' = w /\ workerStarted' = TRUE /\ stopEvent' = FALSE
        /\ thermalStatus' = "STARTING" /\ UNCHANGED <<detected, streamProcess, ffmpeg, killed>>
  BY DEF StartWorker, NameFree, processes
<1>2. ThermalTypeOK'
  BY <1>1 DEF WorkerInv, ThermalTypeOK, world
<1>3. FlagHasWorker' /\ NoOrphanStream'
  BY <1>1 DEF WorkerInv, ThermalTypeOK, FlagHasWorker, NoOrphanStream
<1> QED BY <1>2, <1>3 DEF WorkerInv

LEMMA ThermalKeeps ==
  ASSUME WorkerInv, ThermalNext
  PROVE  WorkerInv'
<1> USE DEF WorkerInv, flags, processes, stream, world
<1>1. ASSUME NEW w \in Workers, WorkerStep(w)
      PROVE  WorkerInv'
  <2> USE DEF To
  <2>1. ThermalTypeOK'
    BY <1>1 DEF WorkerStep, Turn, Open, Receive, Publish, NoFrame, Close, WorkerEnds, ThermalTypeOK
  <2>2. CASE Turn(w) \/ Open(w) \/ Receive(w) \/ Publish(w) \/ NoFrame(w)
    BY <2>1, <2>2 DEF Turn, Open, Receive, Publish, NoFrame, ThermalTypeOK, FlagHasWorker,
       NoOrphanStream
  <2>3. CASE Close(w)
    BY <2>1, <2>3 DEF Close, ThermalTypeOK, FlagHasWorker, NoOrphanStream
  <2>4. CASE WorkerEnds(w)
    BY <2>1, <2>4 DEF WorkerEnds, ThermalTypeOK, FlagHasWorker, NoOrphanStream
  <2> QED BY <1>1, <2>2, <2>3, <2>4 DEF WorkerStep
<1>2. ASSUME NEW c \in Clients, RequestStep(c)
      PROVE  WorkerInv'
  <2>1. CASE Spawn(c)
    <3>1. request' \in [Clients -> {"idle", "spawn"}]
      BY <2>1 DEF Spawn, At, ThermalTypeOK
    <3> QED BY <2>1, <3>1, StartWorkerKeeps DEF Spawn
  <2>2. CASE Detect(c) \/ Ask(c)
    BY <2>2 DEF Detect, Ask, At, ThermalTypeOK, FlagHasWorker, NoOrphanStream
  <2> QED BY <1>2, <2>1, <2>2 DEF RequestStep
<1>3. CASE Plug \/ Heat
  <2>1. /\ changes \in Nat /\ changes > 0 /\ changes' = changes - 1
        /\ plugged' \in BOOLEAN /\ hot' \in BOOLEAN
        /\ UNCHANGED <<detected, thermalStatus, workerStarted, workerThread, stopEvent,
                       streamProcess, ffmpeg, killed, worker, request>>
    BY <1>3 DEF Plug, Heat, ThermalTypeOK
  <2>2. changes' \in Nat
    BY <2>1
  <2> QED BY <2>1, <2>2 DEF ThermalTypeOK, FlagHasWorker, NoOrphanStream
<1>4. ASSUME NEW w \in Workers, Reap(w)
      PROVE  WorkerInv'
  BY <1>4 DEF Reap, ThermalTypeOK, FlagHasWorker, NoOrphanStream
<1> QED BY <1>1, <1>2, <1>3, <1>4 DEF ThermalNext

-----------------------------------------------------------------------------
JobTypeOK ==
  /\ fitted \in SUBSET Cameras
  /\ system \in {"INITIALIZING", "RUNNING", "STOPPED"}
  /\ owner \in Jobs \cup {Nobody}
  /\ job \in [Jobs -> {"idle", "thermal", "spawn", "rgb", "launch", "stop", "begin",
                       "signal", "end", "join", "gone"}]
  /\ budget \in [{"restart", "exit"} -> Nat]

IInv == CameraInv /\ CallTypeOK /\ WorkerInv /\ JobTypeOK

LEMMA InitIInv == Init => IInv
<1> SUFFICES ASSUME Init PROVE IInv
  OBVIOUS
<1>1. PICK b \in Builds : /\ fitted = b.cameras
                          /\ budget = [restart |-> b.restart, exit |-> b.exit]
  BY DEF Init
<1>2. JobTypeOK
  BY <1>1, OrchestratorAssumption DEF Init, JobTypeOK
<1>3. CameraInv /\ CallTypeOK
  BY DEF Init, RgbInit, CameraInv, CameraTypeOK, OneCapture, RunningIsWanted, LiveProcessIsRead,
     GhostInv, Running, CallTypeOK
<1>4. WorkerInv
  BY DEF Init, ThermalInit, WorkerInv, ThermalTypeOK, FlagHasWorker, NoOrphanStream
<1> QED BY <1>2, <1>3, <1>4 DEF IInv

\* A step that leaves a camera alone keeps what holds of it.
LEMMA RgbSame == ASSUME CameraInv, CallTypeOK, UNCHANGED rgbVars
                 PROVE  CameraInv' /\ CallTypeOK'
<1>1. UNCHANGED <<camera, threads, faults>> /\ UNCHANGED <<feeds, call, calls>>
  BY DEF rgbVars, camera, threads
<1> QED BY <1>1, SameKeeps DEF CallTypeOK

LEMMA ThermalSame == ASSUME WorkerInv, UNCHANGED thermalVars PROVE WorkerInv'
BY DEF WorkerInv, thermalVars, ThermalTypeOK, FlagHasWorker, NoOrphanStream

LEMMA JobSame == ASSUME JobTypeOK, UNCHANGED orchestratorVars PROVE JobTypeOK'
BY DEF JobTypeOK, orchestratorVars

LEMMA JobKeeps ==
  ASSUME IInv, NEW j \in Jobs, JobStep(j) \/ Request(j)
  PROVE  IInv'
<1> USE DEF IInv
<1>1. JobTypeOK'
  <2>1. CASE Request(j)
    <3>1. j \in {"restart", "exit"} /\ budget[j] \in Nat /\ budget[j] > 0
      BY <2>1 DEF Request, Jobs, JobTypeOK
    <3>2. budget[j] - 1 \in Nat
      BY <3>1
    <3> QED BY <2>1, <3>1, <3>2 DEF Request, Moves, JobTypeOK
  <2>2. CASE JobStep(j)
    BY <2>2 DEF JobStep, EnsureRunning, ThermalTurn, SpawnTurn, RgbTurn, LaunchTurn, StopSystem,
       Moves, JobTypeOK
  <2> QED BY <2>1, <2>2
<1>2. CASE Request(j) \/ EnsureRunning(j) \/ ThermalTurn(j) \/ RgbTurn(j)
  <2>1. UNCHANGED rgbVars /\ UNCHANGED thermalVars
    BY <1>2 DEF Request, EnsureRunning, ThermalTurn, RgbTurn
  <2> QED BY <1>1, <2>1, RgbSame, ThermalSame
<1>3. CASE SpawnTurn(j)
  <2>1. UNCHANGED rgbVars /\ UNCHANGED world /\ request' = request /\ StartWorker
    BY <1>3 DEF SpawnTurn
  <2>2. request' \in [Clients -> {"idle", "spawn"}]
    BY <2>1 DEF WorkerInv, ThermalTypeOK
  <2> QED BY <1>1, <2>1, <2>2, RgbSame, StartWorkerKeeps
<1>4. CASE LaunchTurn(j)
  <2>1. Start(FALSE) /\ UNCHANGED <<feeds, call, calls>> /\ UNCHANGED thermalVars
    BY <1>4 DEF LaunchTurn
  <2> QED BY <1>1, <2>1, StartKeeps, ThermalSame DEF CallTypeOK
<1>5. CASE StopSystem(j)
  <2>1. UNCHANGED thermalVars
    BY <1>5 DEF StopSystem
  <2>2. CASE "rgb" \in fitted
    <3>1. Stop /\ UNCHANGED <<threads, faults>> /\ UNCHANGED <<feeds, call, calls>>
      BY <1>5, <2>2 DEF StopSystem
    <3> QED BY <1>1, <2>1, <3>1, StopKeeps, ThermalSame DEF CallTypeOK
  <2>3. CASE "rgb" \notin fitted
    <3>1. UNCHANGED rgbVars
      BY <1>5, <2>3 DEF StopSystem
    <3> QED BY <1>1, <2>1, <3>1, RgbSame, ThermalSame
  <2> QED BY <2>2, <2>3
<1> QED BY <1>2, <1>3, <1>4, <1>5 DEF JobStep

LEMMA ExitKeeps == ASSUME IInv, ExitSteps PROVE IInv'
<1>1. CameraInv' /\ CallTypeOK'
  BY RgbSame DEF IInv, ExitSteps
<1>2. JobTypeOK'
  BY DEF IInv, ExitSteps, Moves, JobTypeOK, Jobs
<1>3. WorkerInv'
  <2> USE DEF IInv, WorkerInv, ThermalTypeOK, FlagHasWorker, NoOrphanStream, flags, processes,
          stream, world
  <2>1. CASE SignalStop
    BY <2>1 DEF SignalStop
  <2>2. CASE EndStream
    BY <2>2 DEF EndStream
  <2>3. CASE Joined
    BY <2>3 DEF Joined
  <2> QED BY <2>1, <2>2, <2>3 DEF ExitSteps
<1> QED BY <1>1, <1>2, <1>3 DEF IInv

LEMMA NextIInv == IInv /\ [Next]_vars => IInv'
<1> SUFFICES ASSUME IInv, [Next]_vars PROVE IInv'
  OBVIOUS
<1>1. CASE InRgb(RgbNext)
  <2>1. RgbNext /\ UNCHANGED thermalVars /\ UNCHANGED orchestratorVars
    BY <1>1 DEF InRgb
  <2> QED BY <2>1, RgbKeeps, ThermalSame, JobSame DEF IInv
<1>2. CASE InThermal(ThermalNext)
  <2>1. ThermalNext /\ UNCHANGED rgbVars /\ UNCHANGED orchestratorVars
    BY <1>2 DEF InThermal
  <2> QED BY <2>1, ThermalKeeps, RgbSame, JobSame DEF IInv
<1>3. CASE ExitSteps
  BY <1>3, ExitKeeps
<1>4. CASE \E j \in Jobs : JobStep(j) \/ Request(j)
  BY <1>4, JobKeeps
<1>5. CASE UNCHANGED vars
  <2>1. UNCHANGED rgbVars /\ UNCHANGED thermalVars /\ UNCHANGED orchestratorVars
    BY <1>5 DEF vars
  <2> QED BY <2>1, RgbSame, ThermalSame, JobSame DEF IInv
<1> QED BY <1>1, <1>2, <1>3, <1>4, <1>5 DEF Next

LEMMA IInvHolds == Spec => []IInv
BY InitIInv, NextIInv, PTL DEF Spec

\* Every variable of the cameras and the orchestrator keeps its type.
THEOREM TypeCorrect == Spec => []TypeOK
<1>1. IInv => TypeOK
  BY DEF IInv, CameraInv, CameraTypeOK, CallTypeOK, WorkerInv, JobTypeOK, TypeOK, RgbTypeOK
<1> QED BY <1>1, IInvHolds, PTL

\* The RGB camera is opened once, whatever the number of requests and launches.
THEOREM CameraOpenedOnce == Spec => []OneCapture
<1>1. IInv => OneCapture
  BY DEF IInv, CameraInv
<1> QED BY <1>1, IInvHolds, PTL

\* A capture process that runs is read.
THEOREM RunningIsRead == Spec => []LiveProcessIsRead
<1>1. IInv => LiveProcessIsRead
  BY DEF IInv, CameraInv
<1> QED BY <1>1, IInvHolds, PTL

\* No camera is shown as starting or online without a thread behind it.
THEOREM NoGhost == Spec => []NoGhostCamera
<1>1. IInv => NoGhostCamera
  BY DEF IInv, CameraInv, GhostInv, NoGhostCamera
<1> QED BY <1>1, IInvHolds, PTL

\* While the flag is set a worker lives, however many starts raced.
THEOREM FlagIsTrue == Spec => []FlagHasWorker
<1>1. IInv => FlagHasWorker
  BY DEF IInv, WorkerInv
<1> QED BY <1>1, IInvHolds, PTL

\* Every FFmpeg process has the worker that will end it, or was killed.
THEOREM StreamsHaveOwners == Spec => []NoOrphanStream
<1>1. IInv => NoOrphanStream
  BY DEF IInv, WorkerInv
<1> QED BY <1>1, IInvHolds, PTL
=============================================================================
