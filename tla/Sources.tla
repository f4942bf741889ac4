------------------------------- MODULE Sources -------------------------------
(***************************************************************************)
(* Where frames for the model come from: what the cameras report, the        *)
(* devices that remember it (device_manager.py, runtime_status.py), the      *)
(* sources that are shown and selected (source_manager.py), the route that   *)
(* selects one (api_runtime.py), the provider that delivers its frames       *)
(* (frame_provider.py) and the worker's loop, which asks for them            *)
(* (inference_worker.py).  A camera is what RgbCamera makes of it; loops     *)
(* that overlap, and failures of the model, are in InferenceWorker; the      *)
(* thermal source, which the route refuses, and the providers of single      *)
(* images and videos, which no route selects, are left out.                  *)
(***************************************************************************)
EXTENDS Integers, FiniteSets

CONSTANTS
  Live,    \* the RGB sources
  Images,  \* names of images in the replay folder, in their order
  Tabs     \* browser tabs that select a source

Replay == "replay"

ASSUME SourcesAssumption ==
  Replay \notin Live /\ Images \subseteq Nat \ {0} /\ IsFiniteSet(Images)

AllSources == Live \cup {Replay}

VARIABLES
  camera,      \* the availability of each live source in its state contract
  device,      \* DeviceRecord.status, of the live sources
  reported,    \* SourceRecord.status
  folder,      \* images in the replay folder
  broken,      \* those of them that cannot be read
  cached,      \* _replay_frames_cache
  selected,    \* _selected_source_id
  provider,    \* the source of the provider, its _index and the length of _images
  failed,      \* UnifiedFrameProvider._last_error
  frame,       \* the last frame delivered: its source and image
  loop,        \* where the worker's loop is: about to look, or to ask
  pick,        \* where the selection of each tab is, and the source it read
  overlapped,  \* whether a selection began before another was through
  turns        \* changes in the world and clicks left

world == <<camera, folder, broken>>
status == <<device, reported, cached>>
delivery == <<provider, failed, frame>>
worker == <<delivery, loop>>
choice == <<selected, pick, overlapped>>
sourceVars == <<world, status, worker, choice, turns>>

\* The contract's availability as a device status, and that as a source status.
DeviceStatus(c) == IF c = "READY" THEN "CONNECTED" ELSE c
SourceStatus(d) ==
  CASE d = "CONNECTED" -> "ONLINE" [] d = "NOT_PRESENT" -> "NOT_AVAILABLE" [] OTHER -> d

Available == {"ONLINE", "STREAMING"}

\* directory_has_frames(), and the answer kept for two seconds.
Frames == IF folder = {} THEN "no" ELSE "yes"
HasFrames == IF cached = "none" THEN Frames ELSE cached

\* _resolve_source_status() with these devices and this selection; the replay
\* device is never in error.
Resolved(s, devices, chosen) ==
  IF s # Replay THEN SourceStatus(devices[s])
  ELSE IF HasFrames = "no" THEN "OFFLINE"
  ELSE IF chosen = Replay THEN "STREAMING" ELSE "ONLINE"

Listing(devices, chosen) == [s \in AllSources |-> Resolved(s, devices, chosen)]

\* A provider as configure() and configure_live_source() make it.
Fresh(s) == [source |-> s, index |-> 0, total |-> IF s = Replay THEN Cardinality(folder) ELSE 0]

SourcesInit ==
  /\ camera = [s \in Live |-> "INITIALIZING"]
  /\ device = [s \in Live |-> "INITIALIZING"]
  /\ folder \in SUBSET Images /\ broken = {}
  /\ cached = "none"
  /\ selected = Replay
  /\ provider = Fresh(Replay)
  /\ reported = Listing(device, Replay)
  /\ failed = FALSE
  /\ frame = [source |-> "none", image |-> 0]
  /\ loop = "off"
  /\ pick = [t \in Tabs |-> [at |-> "idle", source |-> Replay]]
  /\ overlapped = FALSE
  /\ turns \in Nat

(***************************************************************************)
(* The cameras, the folder and time                                         *)
(***************************************************************************)
Turn == turns > 0 /\ turns' = turns - 1

CameraTurns ==
  /\ Turn
  /\ \E s \in Live, c \in {"READY", "STREAMING", "INITIALIZING", "ERROR", "NOT_PRESENT"} :
       c # camera[s] /\ camera' = [camera EXCEPT ![s] = c]
  /\ UNCHANGED <<folder, broken, status, worker, choice>>

\* Images come, whole or not yet, are completed, and go.
FolderTurns ==
  /\ Turn
  /\ \E i \in Images :
       \/ i \notin folder /\ folder' = folder \cup {i} /\ broken' \in {broken, broken \cup {i}}
       \/ i \in broken /\ broken' = broken \ {i} /\ UNCHANGED folder
       \/ i \in folder /\ folder' = folder \ {i} /\ broken' = broken \ {i}
  /\ UNCHANGED <<camera, status, worker, choice>>

CacheOver ==
  /\ cached # "none" /\ cached' = "none"
  /\ UNCHANGED <<world, device, reported, worker, choice, turns>>

(***************************************************************************)
(* Devices and sources                                                      *)
(***************************************************************************)
Devices == [s \in Live |-> DeviceStatus(camera[s])]

\* The keep-alive, and POST /api/devices/refresh.
RefreshDevices ==
  /\ device' = Devices
  /\ UNCHANGED <<world, reported, cached, worker, choice, turns>>

\* All records are resolved anew, and the answer about the folder is kept.
List(devices, chosen) == reported' = Listing(devices, chosen) /\ cached' = HasFrames

\* The dashboard polls list_sources().
ListSources ==
  /\ List(device, selected)
  /\ UNCHANGED <<world, device, worker, choice, turns>>

\* refresh_status(), for POST /api/sources/refresh and a restart.
RefreshSources ==
  /\ device' = Devices
  /\ List(Devices, selected)
  /\ UNCHANGED <<world, worker, choice, turns>>

\* POST /api/sources/select: select_source() under the lock of the manager...
Select(t) ==
  /\ Turn /\ pick[t].at = "idle"
  /\ \E s \in AllSources : selected' = s /\ List(device, s)
  /\ overlapped' = (overlapped \/ \E u \in Tabs : pick[u].at # "idle")
  /\ pick' = [pick EXCEPT ![t].at = "sync"]
  /\ UNCHANGED <<world, device, worker>>

\* ...then sync_selected_source() reads the selection...
Sync(t) ==
  /\ pick[t].at = "sync"
  /\ pick' = [pick EXCEPT ![t] = [at |-> "configure", source |-> selected]]
  /\ UNCHANGED <<world, status, worker, selected, overlapped, turns>>

\* ...and replaces the provider, under the lock of the provider.
Configure(t) ==
  /\ pick[t].at = "configure"
  /\ provider' = Fresh(pick[t].source)
  /\ failed' = FALSE
  /\ pick' = [pick EXCEPT ![t].at = "idle"]
  /\ UNCHANGED <<world, status, frame, loop, selected, overlapped, turns>>

(***************************************************************************)
(* Frames                                                                   *)
(***************************************************************************)
\* The image at a position of the folder, which is read anew for every frame.
At(n) == CHOOSE i \in folder : Cardinality({j \in folder : j < i}) = n

\* The folder starts again past its end.
Position_PastEnd == IF provider.index > Cardinality(folder) THEN 0 ELSE provider.index

Position == IF provider.index >= Cardinality(folder) THEN 0 ELSE provider.index

\* The next image; one that cannot be read stays the next.
NextImage ==
  LET n == Position
      past == n >= Cardinality(folder)
      image == IF past THEN 0 ELSE At(n)
      failing == past \/ image \in broken
  IN /\ failed' = failing
     /\ provider' = [provider EXCEPT
          !.index = IF folder = {} THEN provider.index ELSE IF failing THEN n ELSE n + 1,
          !.total = Cardinality(folder)]
     /\ frame' = IF failing THEN frame ELSE [source |-> Replay, image |-> image]

\* The picture of the camera, unless it gives a placeholder.
LiveFrame ==
  /\ failed' = (camera[provider.source] # "STREAMING")
  /\ frame' = IF failed' THEN frame ELSE [source |-> provider.source, image |-> 0]
  /\ UNCHANGED provider

\* UnifiedFrameProvider.next_frame(), under the lock of the provider.
NextFrame == IF provider.source = Replay THEN NextImage ELSE LiveFrame

\* The operator asks for one frame, with a result or without.
AskFrame ==
  /\ Turn
  /\ NextFrame
  /\ UNCHANGED <<world, status, loop, choice>>

ResetProvider ==
  /\ Turn
  /\ provider' = Fresh(provider.source) /\ failed' = FALSE
  /\ UNCHANGED <<world, status, frame, loop, choice>>

(***************************************************************************)
(* The worker's loop                                                        *)
(***************************************************************************)
\* get_selected_source() resolves the record of the selected source anew.
SeeSelected ==
  /\ reported' = [reported EXCEPT ![selected] = Resolved(selected, device, selected)]
  /\ cached' = IF selected = Replay THEN HasFrames ELSE cached
  /\ UNCHANGED device

\* What start() and the loop ask of the provider and the selected source.
Accepts ==
  /\ ~failed
  /\ IF selected = Replay THEN provider.source = Replay /\ provider.total > 0
     ELSE Resolved(selected, device, selected) \in Available

\* POST /api/inference/start goes ahead, or is refused; a loop that runs is
\* left to run.
StartLoop ==
  /\ Turn
  /\ SeeSelected
  /\ loop' = IF Accepts /\ loop = "off" THEN "look" ELSE loop
  /\ UNCHANGED <<world, delivery, choice>>

\* The top of the loop: it goes on, or ends itself.
LoopLooks ==
  /\ loop = "look"
  /\ SeeSelected
  /\ loop' = IF Accepts THEN "ask" ELSE "off"
  /\ UNCHANGED <<world, delivery, choice, turns>>

\* Its frame, after which it looks again, unless it runs once or has failed
\* too often (_max_consecutive_loop_failures).
LoopAsks ==
  /\ loop = "ask"
  /\ NextFrame
  /\ loop' \in {"look", "off"}
  /\ UNCHANGED <<world, status, choice, turns>>

\* POST /api/inference/stop; the frame under way may be taken still.
StopLoop ==
  /\ Turn /\ loop # "off"
  /\ loop' = "off"
  /\ UNCHANGED delivery \/ (loop = "ask" /\ NextFrame)
  /\ UNCHANGED <<world, status, choice>>

SourcesNext ==
  \/ CameraTurns \/ FolderTurns \/ CacheOver \/ RefreshDevices \/ ListSources
  \/ RefreshSources \/ AskFrame \/ ResetProvider
  \/ StartLoop \/ LoopLooks \/ LoopAsks \/ StopLoop
  \/ \E t \in Tabs : Select(t) \/ Sync(t) \/ Configure(t)

SourcesTypeOK ==
  /\ folder \subseteq Images /\ broken \subseteq folder
  /\ cached \in {"none", "yes", "no"}
  /\ selected \in AllSources /\ provider.source \in AllSources
  /\ {provider.index, provider.total} \subseteq 0..Cardinality(Images)
  /\ pick \in [Tabs -> [at : {"idle", "sync", "configure"}, source : AllSources]]
  /\ loop \in {"off", "look", "ask"}
  /\ {failed, overlapped} \subseteq BOOLEAN /\ turns \in Nat

(***************************************************************************)
(* Properties                                                               *)
(***************************************************************************)
\* Selections are through and never overlapped (two that do may leave the
\* provider with one source and the selection on another, api_runtime.py:120).
Settled(s) == selected = s /\ ~overlapped /\ \A t \in Tabs : pick[t].at = "idle"

\* A frame fails only where its source is not there: the camera does not
\* stream, or the folder is empty or holds an image that cannot be read.
FailsForCause ==
  ~failed /\ failed' =>
    IF provider.source = Replay THEN folder = {} \/ broken # {}
    ELSE camera[provider.source] # "STREAMING"

\* What the operator selected is what a loop that runs on gets: from a live
\* camera the frames come from it and no other, and the source shows that it
\* streams, through both copies of its state; from the folder every readable
\* image comes up again and again, whatever came and went before
\* (FolderFrameProvider "picks up new files", frame_provider.py:294), and the
\* source shows it although the answer about the folder is cached.  A loop
\* whose source stays away ends ("The loop stops itself when the source is
\* unavailable or empty", inference_worker.py:711), and no frame fails for
\* another reason.
SelectedSourceDelivers ==
  /\ [][FailsForCause]_sourceVars
  /\ \A s \in Live :
       /\ <>[](Settled(s) /\ camera[s] = "STREAMING" /\ loop # "off") =>
            <>[](frame.source = s /\ reported[s] = "STREAMING")
       /\ <>[](Settled(s) /\ camera[s] # "STREAMING") => []<>(loop = "off")
  /\ <>[](Settled(Replay) /\ folder = {}) => []<>(loop = "off")
  /\ <>[](Settled(Replay) /\ loop # "off") => <>[](reported[Replay] = "STREAMING")
  /\ \A i \in Images :
       <>[](Settled(Replay) /\ i \in folder \ broken /\ loop # "off") =>
         []<>(frame = [source |-> Replay, image |-> i])
=============================================================================
