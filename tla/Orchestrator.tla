----------------------------- MODULE Orchestrator -----------------------------
(***************************************************************************)
(* SystemOrchestrator (src/easy_dashboard/system_orchestrator.py) over the   *)
(* two cameras: the start when the program boots, the keep-alive thread of   *)
(* app.py, the restart route and the shutdown at exit, which share the       *)
(* orchestrator's lock, and the requests that reach the cameras without it.  *)
(* A system may be built with either camera or with both (rgb and thermal    *)
(* are optional, 155-156); the inference worker, the sources and the         *)
(* missions it also stops have modules of their own.                         *)
(***************************************************************************)
EXTENDS RgbCamera, ThermalCamera

CONSTANTS
  Builds       \* systems: the cameras each has, and how many requests, faults,
               \* changes of sensor or CPU, restarts and exits it sees

Cameras == {"rgb", "thermal"}
Jobs == {"keepalive", "restart", "exit"}
Nobody == "nobody"

ASSUME OrchestratorAssumption ==
  Builds \subseteq [cameras : SUBSET Cameras, calls : Nat, faults : Nat, changes : Nat,
              restart : Nat, exit : Nat]

VARIABLES
  fitted,   \* the cameras of this system
  system,   \* self._status
  owner,    \* the job that holds self._lock
  job,      \* where each job is
  budget    \* restarts and exits left

orchestratorVars == <<fitted, system, owner, job, budget>>
vars == <<rgbVars, thermalVars, orchestratorVars>>

Init ==
  /\ \E b \in Builds :
       /\ fitted = b.cameras
       /\ calls = b.calls /\ faults = b.faults /\ changes = b.changes
       /\ budget = [restart |-> b.restart, exit |-> b.exit]
  /\ RgbInit /\ ThermalInit
  /\ "thermal" \notin fitted => plugged
  /\ system = "INITIALIZING"
  /\ owner = Nobody
  /\ job = [j \in Jobs |-> "idle"]

Moves(j, there) == job' = [job EXCEPT ![j] = there]
Gone == job["exit"] = "gone"

(***************************************************************************)
(* ensure_running(), which the boot, the keep-alive and a restart call      *)
(***************************************************************************)
EnsureRunning(j) ==
  /\ \/ j = "keepalive" /\ job[j] = "idle"
     \/ j = "restart" /\ job[j] = "begin"
  /\ owner = Nobody
  /\ owner' = j
  /\ system' = "RUNNING"
  /\ Moves(j, "thermal")
  /\ UNCHANGED <<rgbVars, thermalVars, fitted, budget>>

ThermalTurn(j) ==
  /\ job[j] = "thermal"
  /\ Moves(j, IF "thermal" \in fitted /\ MayStart THEN "spawn" ELSE "rgb")
  /\ UNCHANGED <<rgbVars, thermalVars, fitted, system, owner, budget>>

SpawnTurn(j) ==
  /\ job[j] = "spawn"
  /\ StartWorker
  /\ Moves(j, "rgb")
  /\ UNCHANGED <<rgbVars, request, world, fitted, system, owner, budget>>

\* rgb.ensure_running() looks at the views and starts afterwards.
RgbTurn(j) ==
  /\ job[j] = "rgb"
  /\ LET on == "rgb" \in fitted /\ feeds # {} IN
     /\ Moves(j, IF on THEN "launch" ELSE "idle")
     /\ owner' = IF on THEN owner ELSE Nobody
  /\ UNCHANGED <<rgbVars, thermalVars, fitted, system, budget>>

LaunchTurn(j) ==
  /\ job[j] = "launch"
  /\ Start(FALSE)
  /\ Moves(j, "idle")
  /\ owner' = Nobody
  /\ UNCHANGED <<feeds, call, calls, thermalVars, fitted, system, budget>>

(***************************************************************************)
(* restart() and the two handlers at exit                                   *)
(***************************************************************************)
\* restart() gives the lock back before stop() takes it.
Request(j) ==
  /\ j # "keepalive" /\ job[j] = "idle" /\ budget[j] > 0
  /\ budget' = [budget EXCEPT ![j] = @ - 1]
  /\ Moves(j, "stop")
  /\ UNCHANGED <<rgbVars, thermalVars, fitted, system, owner>>

StopSystem(j) ==
  /\ job[j] = "stop" /\ owner = Nobody
  /\ IF "rgb" \in fitted THEN Stop /\ UNCHANGED <<threads, feeds, call, calls, faults>>
     ELSE UNCHANGED rgbVars
  /\ system' = "STOPPED"
  /\ Moves(j, IF j = "restart" THEN "begin" ELSE "signal")
  /\ UNCHANGED <<thermalVars, fitted, owner, budget>>

\* thermal.stop(), which no one calls while the program runs; the other
\* threads are still there.
ExitSteps ==
  /\ UNCHANGED <<rgbVars, fitted, system, owner, budget>>
  /\ \/ job["exit"] = "signal" /\ SignalStop /\ Moves("exit", "end")
     \/ job["exit"] = "end" /\ EndStream /\ Moves("exit", "join")
     \/ job["exit"] = "join" /\ Joined /\ Moves("exit", "gone")

JobStep(j) ==
  \/ EnsureRunning(j) \/ ThermalTurn(j) \/ SpawnTurn(j) \/ RgbTurn(j) \/ LaunchTurn(j)
  \/ StopSystem(j)

InRgb(A) == ~Gone /\ "rgb" \in fitted /\ A /\ UNCHANGED <<thermalVars, orchestratorVars>>
InThermal(A) == ~Gone /\ "thermal" \in fitted /\ A /\ UNCHANGED <<rgbVars, orchestratorVars>>

Next ==
  \/ InRgb(RgbNext)
  \/ InThermal(ThermalNext)
  \/ ~Gone /\ (ExitSteps \/ \E j \in Jobs : JobStep(j) \/ Request(j))
  \/ Gone /\ UNCHANGED vars

\* Nothing obliges the operator to ask, the camera to fail, or the CPU to heat.
\* A process that was killed ends at some time.
Fairness ==
  /\ \A l \in Launches : WF_vars(InRgb(ThreadStep(l)))
  /\ \A c \in Callers : WF_vars(InRgb(call[c] # "idle" /\ CallStep(c)))
  /\ WF_vars(InRgb(BackoffOver))
  /\ \A w \in Workers : WF_vars(InThermal(WorkerStep(w))) /\ WF_vars(InThermal(Reap(w)))
  /\ \A c \in Clients : WF_vars(InThermal(Spawn(c)))
  /\ \A j \in Jobs : WF_vars(~Gone /\ JobStep(j))

Spec == Init /\ [][Next]_vars /\ Fairness

TypeOK ==
  /\ RgbTypeOK /\ ThermalTypeOK
  /\ fitted \in SUBSET Cameras
  /\ system \in {"INITIALIZING", "RUNNING", "STOPPED"}
  /\ owner \in Jobs \cup {Nobody}
  /\ job \in [Jobs -> {"idle", "thermal", "spawn", "rgb", "launch", "stop", "begin",
                       "signal", "end", "join", "gone"}]
  /\ budget \in [{"restart", "exit"} -> Nat]

(***************************************************************************)
(* Properties                                                               *)
(***************************************************************************)
\* "restarts them if they died" (app.py:259): with a view enabled, whatever
\* dies, is refused, is stopped or is restarted, the camera ends up showing
\* frames, unless the views are paused or the program is left.
EnabledCameraRuns ==
  "rgb" \in fitted /\ feeds # {} ~> feeds = {} \/ status = "ONLINE" \/ job["exit"] # "idle"

\* The same for the thermal camera: a detected sensor ends up giving frames,
\* unless it is unplugged or the CPU is hot, though two starts may race and a
\* worker may die.
SensorComesBack ==
  "thermal" \in fitted /\ detected
    ~> thermalStatus = "REAL" \/ ~plugged \/ hot \/ job["exit"] # "idle"

\* "capture pauses (COOLDOWN) while the CPU is at or above 78 C"
\* (thermal_hardware.py:26).
HotSensorPauses == hot ~> ~hot \/ ffmpeg = {}
=============================================================================
