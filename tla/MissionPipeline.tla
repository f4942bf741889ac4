--------------------------- MODULE MissionPipeline ---------------------------
(***************************************************************************)
(* One inference result on its way through the managers                    *)
(* (DetectionManager.record_inference_result, EventManager,                *)
(* AcquisitionManager, SessionManager), and the requests that meet it: a   *)
(* mission is started or stopped, detections or events are cleared.        *)
(*                                                                         *)
(* Each manager has its own lock and is done with before the next one is   *)
(* called, so results interleave with each other and with the requests     *)
(* between any two of them.  The detection history is the log it           *)
(* implements (DetectionLog); the mission that runs is one variable that a *)
(* restart keeps (SessionStore), and no two missions start in one second;  *)
(* events are those of EventStore.  A result holds one detection.          *)
(***************************************************************************)
EXTENDS EventStore

VARIABLES
    up,        \* the process runs
    running,   \* the mission that runs, or None
    started,   \* number of missions started
    log,       \* the detection history
    erasing,   \* DetectionManager.clear() is under way
    shown,     \* the current detections, drawn over the live feed
    step,      \* where the result of each detection is
    filed,     \* the mission whose manifest lists it
    home,      \* the mission whose detections hold it
    route,     \* where the request that stops or clears is
    stopping,  \* the mission it looked up
    \* history variables
    stored,    \* detections the history ever held
    cut,       \* results during which a mission was stopped
    late,      \* detections given to the events after their mission was stopped
    torn,      \* events left open by a crash between the two event files
    ending,    \* the mission the stop under way has stopped, or None
    closed,    \* missions that were stopped and the stop was answered
    unseen     \* those that were not the mission the stop had looked up

world  == <<up, running, started>>
store  == <<log, erasing, shown>>
result == <<step, filed, home>>
stop   == <<route, stopping>>
ends   == <<ending, closed, unseen>>
ghosts == <<stored, cut, late, torn, ends>>
vars   == <<evVars, world, store, result, stop, ghosts>>

Steps == {"idle", "store", "events", "acquire", "list", "manifest", "done"}

TypeOK ==
    /\ EvTypeOK
    /\ up \in BOOLEAN
    /\ running \in Missions \cup {None}
    /\ started \in Missions \cup {0}
    /\ log \in SUBSET Detections
    /\ erasing \in BOOLEAN
    /\ shown \in SUBSET Detections
    /\ step \in [Detections -> Steps]
    /\ filed \in [Detections -> Missions \cup {None}]
    /\ home \in [Detections -> Missions \cup {None}]
    /\ route \in {"idle", "stop", "resolve", "clear", "erase"}
    /\ stopping \in Missions \cup {None}
    /\ stored \in SUBSET Detections
    /\ cut \in SUBSET Detections
    /\ late \in SUBSET Detections
    /\ torn \in SUBSET Detections
    /\ ending \in Missions \cup {None}
    /\ closed \in SUBSET Missions
    /\ unseen \in SUBSET Missions

Log == INSTANCE DetectionLog

Init ==
    /\ EvInit
    /\ up = TRUE
    /\ running = None
    /\ started = 0
    /\ Log!Init
    /\ shown = {}
    /\ step = [d \in Detections |-> "idle"]
    /\ filed = [d \in Detections |-> None]
    /\ home = [d \in Detections |-> None]
    /\ route = "idle"
    /\ stopping = None
    /\ stored = {}
    /\ cut = {}
    /\ late = {}
    /\ torn = {}
    /\ ending = None
    /\ closed = {}
    /\ unseen = {}

\* Requests and results are served once the managers are constructed.
Serving == up /\ holder # "load"

InFlight == {d \in Detections : step[d] \notin {"idle", "done"}}

Goto(d, to) == step' = [step EXCEPT ![d] = to]

\* A new mission.  Bound: there is an id left.
Launch ==
    /\ started + 1 \in Missions
    /\ started' = started + 1
    /\ running' = started + 1

\* Mutant: a mission is started whether one runs or not.
Ensured_Always(m) == Launch /\ m = running'

\* ensure_session(): the mission that runs, or a new one.
Ensured(m) ==
    \/ running # None /\ m = running /\ UNCHANGED <<running, started>>
    \/ running = None /\ Launch /\ m = running'

-----------------------------------------------------------------------------
(* One result.                                                             *)

\* The records are built for the mission that runs now.
Begin(d) ==
    /\ Serving
    /\ step[d] = "idle"
    /\ \E m \in Missions : Ensured(m) /\ mission' = [mission EXCEPT ![d] = m]
    /\ \E k \in Kinds \cup {None} : kind' = [kind EXCEPT ![d] = k]
    /\ Goto(d, "store")
    /\ UNCHANGED <<evMemory, evFiles, evLock, up, store, filed, home, stop,
                   ghosts>>

\* They replace the current detections and enter the history.
Store(d) ==
    /\ step[d] = "store"
    /\ Log!Record({d})
    /\ shown' = {d}
    /\ stored' = stored \cup {d}
    /\ Goto(d, IF kind[d] = None THEN "acquire" ELSE "events")
    /\ UNCHANGED <<evVars, world, filed, home, stop, cut, late, torn, ends>>

RaiseEvent(d) ==
    /\ step[d] = "events"
    /\ RecordDetection(d)
    /\ late' = IF running = mission[d] THEN late ELSE late \cup {d}
    /\ Goto(d, "acquire")
    /\ UNCHANGED <<world, store, filed, home, stop, stored, cut, torn, ends>>

\* The acquisition manager asks for the running mission again ...
Acquire(d) ==
    /\ step[d] = "acquire"
    /\ holder # d
    /\ \E m \in Missions : Ensured(m) /\ filed' = [filed EXCEPT ![d] = m]
    /\ Goto(d, "list")
    /\ UNCHANGED <<evVars, up, store, home, stop, ghosts>>

\* ... and the session manager once more, for the list of detections.
ListDetection(d) ==
    /\ step[d] = "list"
    /\ \E m \in Missions : Ensured(m) /\ home' = [home EXCEPT ![d] = m]
    /\ Goto(d, "manifest")
    /\ UNCHANGED <<evVars, up, store, filed, stop, ghosts>>

AppendManifest(d) ==
    /\ step[d] = "manifest"
    /\ Goto(d, "done")
    /\ UNCHANGED <<evVars, world, store, filed, home, stop, ghosts>>

-----------------------------------------------------------------------------
(* Requests.                                                               *)

StartRequest ==
    /\ Serving
    /\ running = None
    /\ Launch
    /\ UNCHANGED <<evVars, up, store, result, stop, ghosts>>

\* api_session_stop() looks up the mission, ...
StopRequest ==
    /\ Serving
    /\ route = "idle"
    /\ route' = "stop"
    /\ stopping' = running
    /\ UNCHANGED <<evVars, world, store, result, ghosts>>

\* ... stops the one that runs, ...
StopMission ==
    /\ route = "stop"
    /\ running' = None
    /\ ending' = running
    /\ cut' = IF running = None THEN cut ELSE cut \cup InFlight
    /\ route' = IF stopping = None THEN "clear" ELSE "resolve"
    /\ UNCHANGED <<evVars, up, started, store, result, stopping, stored, late,
                   torn, closed, unseen>>

\* ... closes the events of the one it looked up, ...
ResolveEvents ==
    /\ route = "resolve"
    /\ ResolveSessionEvents(stopping)
    /\ route' = "clear"
    /\ UNCHANGED <<world, store, result, stopping, ghosts>>

\* ... and clears the detections.
BeginClear ==
    /\ route = "clear"
    /\ holder # "stop"
    /\ Log!BeginErase
    /\ route' = "erase"
    /\ UNCHANGED <<evVars, world, shown, result, stopping, ghosts>>

EraseDetections ==
    /\ route = "erase"
    /\ Log!Erase
    /\ UNCHANGED <<evVars, world, shown, result, stop, ghosts>>

EndClear ==
    /\ route = "erase"
    /\ Log!EndErase
    /\ shown' = {}
    /\ route' = "idle"
    /\ stopping' = None
    /\ ending' = None
    /\ closed' = closed \cup ({ending} \ {None})
    /\ unseen' = unseen \cup ({ending} \ {stopping, None})
    /\ UNCHANGED <<evVars, world, result, stored, cut, late, torn>>

\* A request that clears the detections only.
ClearRequest ==
    /\ Serving
    /\ route = "idle"
    /\ route' = "clear"
    /\ UNCHANGED <<evVars, world, store, result, stopping, ghosts>>

ClearEventsRequest ==
    /\ Serving
    /\ ClearEvents
    /\ torn' = {}
    /\ UNCHANGED <<world, store, result, stop, stored, cut, late, ends>>

PersistEvents ==
    /\ WriteCurrentEvents \/ WriteEventHistory
    /\ UNCHANGED <<world, store, result, stop, ghosts>>

-----------------------------------------------------------------------------
(* The process dies and comes back.                                        *)

\* The history file keeps them open, the current events do not name them.
CutOff == {e \in Open(eventHistory) : currentEvents[e] = None}

Crash ==
    /\ up
    /\ up' = FALSE
    /\ LoseEvents
    /\ IF erasing THEN Log!AbandonErase /\ shown' \in {shown \cap log, {}}
                  ELSE UNCHANGED store
    /\ step' = [d \in Detections |-> IF d \in InFlight THEN "done" ELSE step[d]]
    /\ route' = "idle"
    /\ stopping' = None
    /\ ending' = None
    /\ torn' = CutOff
    /\ UNCHANGED <<running, started, filed, home, stored, cut, late, closed, unseen>>

Restart ==
    /\ ~up
    /\ up' = TRUE
    /\ LoadEvents
    /\ UNCHANGED <<running, started, store, result, stop, ghosts>>

ResultStep(d) ==
    \/ Begin(d)
    \/ Store(d)
    \/ RaiseEvent(d)
    \/ Acquire(d)
    \/ ListDetection(d)
    \/ AppendManifest(d)

Request ==
    \/ StartRequest
    \/ StopRequest
    \/ StopMission
    \/ ResolveEvents
    \/ BeginClear
    \/ EraseDetections
    \/ EndClear
    \/ ClearRequest
    \/ ClearEventsRequest

Next ==
    \/ \E d \in Detections : ResultStep(d)
    \/ Request
    \/ PersistEvents
    \/ Crash
    \/ Restart

Spec == Init /\ [][Next]_vars

-----------------------------------------------------------------------------
(* Properties.                                                             *)

\* What an event names was recorded: at no point of a crash do the event
\* files refer to a detection that the detection history never held
\* (record_inference_result writes the history first).
EventsNameStoredDetections ==
    \A e \in Detections :
        /\ currentEvents[e] # None => currentEvents[e].related \subseteq stored
        /\ eventHistory[e] # None => eventHistory[e].related \subseteq stored

\* A detection has one open event per mission, type and source to join, after
\* any crash and in whatever order results, stops and clears arrive.
OneOpenEventPerKey ==
    \A k \in Keys : \A e, f \in OpenUnder(events, k) : e = f

\* An event that was closed is not reopened: not by a late result, and not by
\* a restart that reads the two event files.
ClosedEventsStayClosed ==
    [][\A e \in Detections :
          eventHistory[e] # None /\ eventHistory[e].status = "RESOLVED" =>
              e \notin Open(eventHistory')]_vars

\* The current events are the open ones, but for those a crash cut off.
CurrentEventsAreOpen ==
    up /\ holder = None => Open(events) = current \cup torn

\* "Stop the mission, close its events" (api_inference.py:202): an event of a
\* mission that a stop ended is open afterwards only if a result still on its
\* way created it later, if a crash cut it off, or if the mission is not the one
\* the stop had looked up.  That one, started between the look-up (204) and the
\* stop (206), keeps all its events open, which is what the code does and not
\* what it says.
StopClosesEvents ==
    up /\ holder = None =>
        \A e \in Open(events) :
            mission[e] \in closed \ unseen => e \in late \cup torn

\* The detections and the manifest entry of a result go to the mission it was
\* recorded for unless a stop came between, and then to a later one.
FiledTogether ==
    \A d \in Detections : \A m \in {filed[d], home[d]} \ {None} :
        /\ m >= mission[d]
        /\ m = mission[d] \/ d \in cut

\* "the current detections of the last inference would stay visible as an
\* overlay ... after the session that produced them has ended"
\* (api_inference.py:213): once the stop of a mission was answered, none of its
\* detections is shown.
StopClearsOverlay == \A d \in shown : mission[d] \notin closed
=============================================================================
