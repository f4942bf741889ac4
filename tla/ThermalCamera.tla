---------------------------- MODULE ThermalCamera ----------------------------
(***************************************************************************)
(* ThermalState (src/easy_dashboard/thermal_hardware.py) in its default      *)
(* mode, continuous: a worker thread keeps an FFmpeg stream alive and every  *)
(* request starts the worker if no worker seems to run.  A worker and its    *)
(* FFmpeg process share a name of Workers.  ERROR stands for DEGRADED too,    *)
(* and the CPU is hot or not.  The simulator and the on-demand mode are left out.        *)
(***************************************************************************)
EXTENDS Integers, FiniteSets

CONSTANTS
  Workers,    \* names for workers that exist at once
  Clients     \* request threads

NoWorker == 0

ASSUME WorkersAssumption == IsFiniteSet(Workers) /\ NoWorker \notin Workers
VARIABLES
  detected,       \* self.detected
  thermalStatus,  \* self.status
  workerStarted,  \* self._worker_started
  workerThread,   \* self._worker_thread: the worker started last
  stopEvent,      \* self._stop_event
  streamProcess,  \* self._stream_process
  ffmpeg,         \* the workers whose FFmpeg process runs
  killed,         \* those of them that were sent SIGKILL and are still there
  worker,         \* where each worker is
  request,        \* where each request is
  plugged, hot,   \* the sensor and the CPU
  changes         \* changes of these two left to happen

flags == <<workerStarted, workerThread, stopEvent>>
processes == <<streamProcess, ffmpeg, killed>>
stream == <<processes, worker>>
world == <<plugged, hot, changes>>
thermalVars == <<detected, thermalStatus, workerStarted, workerThread, stopEvent,
                 streamProcess, ffmpeg, killed, worker, request,
                 plugged, hot, changes>>

\* The device was looked for when the services start (app.py:220).
ThermalInit ==
  /\ plugged \in BOOLEAN
  /\ detected = plugged
  /\ thermalStatus = IF plugged THEN "PENDING" ELSE "NOT_DETECTED"
  /\ workerStarted = FALSE
  /\ workerThread = NoWorker
  /\ stopEvent = FALSE
  /\ streamProcess = NoWorker
  /\ ffmpeg = {} /\ killed = {}
  /\ worker = [w \in Workers |-> "none"]
  /\ request = [c \in Clients |-> "idle"]
  /\ hot = FALSE
  /\ changes \in Nat

(***************************************************************************)
(* start(): the flag is read, then set, without a lock                      *)
(***************************************************************************)
MayStart == detected /\ ~workerStarted

\* A name is taken as long as its thread or its process is there.
NameFree(w) == worker[w] = "none" /\ w \notin ffmpeg

StartWorker ==
  \E w \in Workers :
    /\ NameFree(w) /\ w = CHOOSE v \in Workers : NameFree(v)
    /\ worker' = [worker EXCEPT ![w] = "top"]
    /\ workerThread' = w
    /\ workerStarted' = TRUE
    /\ stopEvent' = FALSE
    /\ thermalStatus' = "STARTING"
    /\ UNCHANGED <<detected, processes>>

(***************************************************************************)
(* Requests: frame(), status_payload() and refresh_device()                 *)
(***************************************************************************)
At(c, there) == request' = [request EXCEPT ![c] = there]

\* A forced refresh looks for the device even when one is known; the start
\* that follows a detection is an Ask.
Detect(c) ==
  /\ request[c] = "idle"
  /\ detected' = plugged
  /\ thermalStatus' = IF plugged THEN thermalStatus ELSE "NOT_DETECTED"
  /\ UNCHANGED <<flags, stream, request, world>>

Ask(c) ==
  /\ request[c] = "idle"
  /\ At(c, IF MayStart THEN "spawn" ELSE "idle")
  /\ UNCHANGED <<detected, thermalStatus, flags, stream, world>>

Spawn(c) ==
  /\ request[c] = "spawn"
  /\ StartWorker
  /\ At(c, "idle")
  /\ UNCHANGED <<world>>

(***************************************************************************)
(* _continuous_worker_loop()                                                *)
(***************************************************************************)
To(w, there) == worker' = [worker EXCEPT ![w] = there]

\* The only place where the temperature is looked at.
Turn(w) ==
  /\ worker[w] = "top"
  /\ IF stopEvent THEN To(w, "ended") /\ UNCHANGED thermalStatus
     ELSE IF hot THEN thermalStatus' = "COOLDOWN" /\ UNCHANGED worker
     ELSE To(w, "open") /\ UNCHANGED thermalStatus
  /\ UNCHANGED <<detected, flags, processes, request, world>>

\* While a process has the device, another one ends at once (254).
Open(w) ==
  /\ worker[w] = "open"
  /\ To(w, "stream")
  /\ ffmpeg' = IF ffmpeg = {} THEN {w} ELSE ffmpeg
  /\ streamProcess' = w
  /\ thermalStatus' = "STARTING"
  /\ UNCHANGED <<detected, flags, killed, request, world>>

Receive(w) ==
  /\ worker[w] = "stream" /\ w \in ffmpeg /\ plugged /\ ~stopEvent
  /\ To(w, "frame")
  /\ UNCHANGED <<detected, thermalStatus, flags, processes, request, world>>

Publish(w) ==
  /\ worker[w] = "frame"
  /\ To(w, "stream")
  /\ thermalStatus' = "REAL"
  /\ UNCHANGED <<detected, flags, processes, request, world>>

\* No frame in three seconds, or the end of the process.  The process is kept
\* until the back-off ends; a loop that was stopped ends without a word.
NoFrame(w) ==
  /\ worker[w] = "stream"
  /\ stopEvent \/ ~plugged \/ w \notin ffmpeg
  /\ To(w, "close")
  /\ thermalStatus' = IF stopEvent THEN thermalStatus ELSE "ERROR"
  /\ UNCHANGED <<detected, flags, processes, request, world>>

\* Ends the process that self._stream_process names instead of its own.
Close_Named(w) ==
  /\ worker[w] = "close"
  /\ ffmpeg' = ffmpeg \ {streamProcess}
  /\ killed' = killed \ {streamProcess}
  /\ To(w, "top") /\ streamProcess' = NoWorker
  /\ UNCHANGED <<detected, thermalStatus, flags, request, world>>

\* Whatever process self._stream_process names is forgotten, once the worker's
\* own is gone.  A process that outlives its kill by a second makes the wait
\* raise (444): the worker ends, the process is still there and still named.
Close(w) ==
  /\ worker[w] = "close"
  /\ \/ /\ ffmpeg' = ffmpeg \ {w} /\ killed' = killed \ {w}
        /\ To(w, "top") /\ streamProcess' = NoWorker
     \/ /\ w \in ffmpeg /\ killed' = killed \cup {w}
        /\ To(w, "ended") /\ UNCHANGED <<streamProcess, ffmpeg>>
  /\ UNCHANGED <<detected, thermalStatus, flags, request, world>>

\* Without the outer finally.
WorkerEnds_KeepsFlag(w) ==
  /\ worker[w] = "ended"
  /\ To(w, "none")
  /\ workerThread' = IF workerThread = w THEN NoWorker ELSE workerThread
  /\ UNCHANGED <<detected, thermalStatus, workerStarted, stopEvent, processes, request, world>>

\* The flag is cleared whichever worker it was set for.
WorkerEnds(w) ==
  /\ worker[w] = "ended"
  /\ To(w, "none")
  /\ workerStarted' = FALSE
  /\ workerThread' = IF workerThread = w THEN NoWorker ELSE workerThread
  /\ UNCHANGED <<detected, thermalStatus, stopEvent, processes, request, world>>

(***************************************************************************)
(* stop(): the event, the process it knows of, five seconds, the flag       *)
(***************************************************************************)
SignalStop ==
  /\ stopEvent' = TRUE
  /\ UNCHANGED <<detected, thermalStatus, workerStarted, workerThread, stream, request, world>>

\* It does not wait for a process it had to kill.
EndStream ==
  /\ \/ ffmpeg' = ffmpeg \ {streamProcess} /\ killed' = killed \ {streamProcess}
     \/ /\ streamProcess \in ffmpeg
        /\ killed' = killed \cup {streamProcess} /\ UNCHANGED ffmpeg
  /\ UNCHANGED <<detected, thermalStatus, flags, streamProcess, worker, request, world>>

Joined ==
  /\ workerStarted' = FALSE
  /\ UNCHANGED <<detected, thermalStatus, workerThread, stopEvent, stream, request, world>>

(***************************************************************************)
(* The system, the sensor and the CPU                                       *)
(***************************************************************************)
\* A process that was killed is gone, and the device free, when the system has
\* let go of it.
Reap(w) ==
  /\ w \in killed
  /\ ffmpeg' = ffmpeg \ {w} /\ killed' = killed \ {w}
  /\ UNCHANGED <<detected, thermalStatus, flags, streamProcess, worker, request, world>>

Plug ==
  /\ changes > 0
  /\ changes' = changes - 1
  /\ plugged' = ~plugged
  /\ UNCHANGED <<detected, thermalStatus, flags, stream, request, hot>>

Heat ==
  /\ changes > 0
  /\ changes' = changes - 1
  /\ hot' = ~hot
  /\ UNCHANGED <<detected, thermalStatus, flags, stream, request, plugged>>

WorkerStep(w) ==
  \/ Turn(w) \/ Open(w) \/ Receive(w) \/ Publish(w) \/ NoFrame(w) \/ Close(w)
  \/ WorkerEnds(w)

RequestStep(c) == Detect(c) \/ Ask(c) \/ Spawn(c)

ThermalNext ==
  \/ \E w \in Workers : WorkerStep(w) \/ Reap(w)
  \/ \E c \in Clients : RequestStep(c)
  \/ Plug \/ Heat

ThermalTypeOK ==
  /\ detected \in BOOLEAN /\ plugged \in BOOLEAN /\ hot \in BOOLEAN
  /\ thermalStatus \in {"PENDING", "NOT_DETECTED", "STARTING", "REAL", "ERROR", "COOLDOWN"}
  /\ workerStarted \in BOOLEAN /\ stopEvent \in BOOLEAN
  /\ workerThread \in Workers \cup {NoWorker}
  /\ streamProcess \in Workers \cup {NoWorker}
  /\ ffmpeg \in SUBSET Workers /\ killed \in SUBSET ffmpeg
  /\ worker \in [Workers -> {"none", "top", "open", "stream", "frame", "close", "ended"}]
  /\ request \in [Clients -> {"idle", "spawn"}]
  /\ changes \in Nat

(***************************************************************************)
(* Properties                                                               *)
(***************************************************************************)
\* The flag that keeps every start from starting a worker is set only while
\* the worker it was set for lives: a worker that dies is replaced, even when
\* two starts raced and one of two workers ended (281, 447).
FlagHasWorker == workerStarted => workerThread # NoWorker /\ worker[workerThread] # "none"

\* An FFmpeg process that runs has a worker that will end it, or was killed
\* already: no worker leaves a process behind that nobody ends, though
\* self._stream_process is shared and a worker may die while it closes its own
\* (436-445).
NoOrphanStream == \A w \in ffmpeg \ killed : worker[w] \in {"stream", "frame", "close"}
=============================================================================
