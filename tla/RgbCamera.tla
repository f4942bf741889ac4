------------------------------ MODULE RgbCamera ------------------------------
(***************************************************************************)
(* RgbMasterSource (src/easy_dashboard/rgb_hardware.py): the one capture    *)
(* process, the two threads every launch of it starts, and the requests     *)
(* that start, stop and read it.  A launch is named by a member of          *)
(* Launches, which names its process, its stdout reader and its stderr      *)
(* listener; a name is used again when all three are gone.  A frame is one  *)
(* bit (is one held?), and the clock is the bit that says whether the       *)
(* back-off of the last failure still runs.                                 *)
(***************************************************************************)
EXTENDS Integers, FiniteSets

CONSTANTS
  Launches,   \* names for launches that exist at once
  Callers,    \* request threads
  Feeds       \* the views that can be paused: rgb_left and rgb_right

None == 0

ASSUME LaunchesAssumption == IsFiniteSet(Launches) /\ None \notin Launches

VARIABLES
  process,    \* self.process: a launch or None
  live,       \* the launches whose process runs
  reader,     \* where the stdout thread of each launch is
  bound,      \* the process whose stdout that thread reads
  listener,   \* where the stderr thread of each launch is
  stop,       \* self._stop
  status,     \* self._status
  frame,      \* self._frame is not None
  backoff,    \* time.time() < self._next_retry_ts
  feeds,      \* the views that enabled_feeds holds for enabled
  call,       \* where each request is
  calls,      \* requests left to make
  faults      \* failed launches, deaths and error messages left to happen

threads == <<reader, bound, listener>>
camera == <<process, live, stop, status, frame, backoff>>
rgbVars == <<process, live, reader, bound, listener, stop, status, frame,
             backoff, feeds, call, calls, faults>>

RgbInit ==
  /\ process = None
  /\ live = {}
  /\ reader = [l \in Launches |-> "none"]
  /\ bound = [l \in Launches |-> None]
  /\ listener = [l \in Launches |-> "off"]
  /\ stop = FALSE
  /\ status = "OFFLINE"
  /\ frame = FALSE
  /\ backoff = FALSE
  /\ feeds = Feeds
  /\ call = [c \in Callers |-> "idle"]
  /\ calls \in Nat /\ faults \in Nat

(***************************************************************************)
(* start() and stop(), each under the lock                                  *)
(***************************************************************************)
Running == process \in live

\* No thread or process has this name any more.
Free(l) ==
  /\ l # process /\ l \notin live
  /\ reader[l] = "none" /\ listener[l] = "off"
  /\ \A r \in Launches : bound[r] # l

\* What a forced start would do if it did not end the process it replaces.
Launched_KeepsOld ==
  \E l \in Launches :
    /\ Free(l) /\ l = CHOOSE k \in Launches : Free(k)
    /\ process' = l
    /\ live' = live \cup {l}
    /\ status' = "STARTING"
    /\ reader' = [reader EXCEPT ![l] = "new"]
    /\ listener' = [listener EXCEPT ![l] = "on"]
    /\ UNCHANGED <<backoff, faults>>

\* The process it replaces is gone, or it would not come so far: the wait that
\* follows a kill is taken to succeed (_terminate_process_locked, 189-191; a
\* process the system holds back for two seconds more would make it raise).
Launched ==
  \E l \in Launches :
    /\ Free(l) /\ l = CHOOSE k \in Launches : Free(k)
    /\ process' = l
    /\ live' = (live \ {process}) \cup {l}
    /\ status' = "STARTING"
    /\ reader' = [reader EXCEPT ![l] = "new"]
    /\ listener' = [listener EXCEPT ![l] = "on"]
    /\ UNCHANGED <<backoff, faults>>

\* The command cannot be run; a process that ran was terminated before.
LaunchFails ==
  /\ faults > 0
  /\ faults' = faults - 1
  /\ process' = IF Running THEN None ELSE process
  /\ live' = live \ {process}
  /\ status' = "ERROR"
  /\ backoff' = TRUE
  /\ UNCHANGED <<reader, listener>>

\* Without the look at poll(): a process that died counts as running.
LeftAlone_NoPoll == process # None \/ (status \in {"ERROR", "BUSY"} /\ backoff)

\* A launch that was not forced leaves a running camera and a back-off alone.
LeftAlone == Running \/ (status \in {"ERROR", "BUSY"} /\ backoff)

\* Without the reset of _stop.
Start_KeepsStop(force) ==
  \/ ~force /\ LeftAlone /\ UNCHANGED <<camera, threads, faults>>
  \/ /\ ~force => ~LeftAlone
     /\ frame' = FALSE
     /\ \E l \in Launches : Free(l)
     /\ Launched \/ LaunchFails
     /\ UNCHANGED <<stop, bound>>

\* A launch waits for a name: the bound on launches that exist at once.
Start(force) ==
  \/ ~force /\ LeftAlone /\ UNCHANGED <<camera, threads, faults>>
  \/ /\ ~force => ~LeftAlone
     /\ stop' = FALSE
     /\ frame' = FALSE
     /\ \E l \in Launches : Free(l)
     /\ Launched \/ LaunchFails
     /\ UNCHANGED bound

Stop ==
  /\ stop' = TRUE
  /\ live' = live \ {process}
  /\ process' = None
  /\ status' = IF status = "ERROR" THEN status ELSE "OFFLINE"
  /\ UNCHANGED <<frame, backoff>>

(***************************************************************************)
(* The threads of a launch                                                  *)
(***************************************************************************)
\* _read_stdout() looks self.process up when it first runs: by then it may
\* be gone, or be the process of a later launch.
Bind(l) ==
  /\ reader[l] = "new"
  /\ reader' = [reader EXCEPT ![l] = IF process = None THEN "none" ELSE "read"]
  /\ bound' = [bound EXCEPT ![l] = process]
  /\ UNCHANGED <<camera, listener, feeds, call, calls, faults>>

Ends(l) == stop \/ (bound[l] \notin live /\ process # None /\ ~Running)

\* A frame is read, or the loop ends; a reader of a dead process whose
\* successor runs stays here.
Read(l) ==
  /\ reader[l] = "read"
  /\ Ends(l) \/ bound[l] \in live
  /\ reader' = [reader EXCEPT ![l] = IF Ends(l) THEN "end" ELSE "store"]
  /\ UNCHANGED <<camera, bound, listener, feeds, call, calls, faults>>

StoreFrame(l) ==
  /\ reader[l] = "store"
  /\ reader' = [reader EXCEPT ![l] = "read"]
  /\ status' = "ONLINE"
  /\ frame' = TRUE
  /\ backoff' = FALSE
  /\ UNCHANGED <<process, live, stop, bound, listener, feeds, call, calls, faults>>

\* Leaves the state to stop().
ReaderEnds_Silent(l) ==
  /\ reader[l] = "end"
  /\ reader' = [reader EXCEPT ![l] = "none"]
  /\ bound' = [bound EXCEPT ![l] = None]
  /\ UNCHANGED <<camera, listener, feeds, call, calls, faults>>

ReaderEnds(l) ==
  /\ reader[l] = "end"
  /\ reader' = [reader EXCEPT ![l] = "none"]
  /\ bound' = [bound EXCEPT ![l] = None]
  /\ status' = IF status = "ERROR" THEN status ELSE "OFFLINE"
  /\ UNCHANGED <<process, live, stop, frame, backoff, listener, feeds, call, calls, faults>>

\* A line on stderr reports a failure, without the lock; a line that was read
\* before a stop may be reported after it.
Report(l) ==
  /\ listener[l] = "on" /\ faults > 0
  /\ faults' = faults - 1
  /\ status' \in {"BUSY", "ERROR"}
  /\ backoff' = TRUE
  /\ UNCHANGED <<process, live, stop, frame, threads, feeds, call, calls>>

ListenerEnds(l) ==
  /\ listener[l] = "on"
  /\ l \notin live \/ stop
  /\ listener' = [listener EXCEPT ![l] = "off"]
  /\ UNCHANGED <<camera, reader, bound, feeds, call, calls, faults>>

(***************************************************************************)
(* Requests                                                                 *)
(***************************************************************************)
Go(c, there) == call' = [call EXCEPT ![c] = there]

\* set_enabled() changes the view first and starts or stops afterwards.
Toggle(c) ==
  /\ call[c] = "idle" /\ calls > 0
  /\ calls' = calls - 1
  /\ \E f \in Feeds :
       \/ feeds' = feeds \cup {f} /\ Go(c, "enable")
       \/ feeds' = feeds \ {f} /\ Go(c, "disable")
  /\ UNCHANGED <<camera, threads, faults>>

Enable(c) ==
  /\ call[c] = "enable"
  /\ Start(TRUE)
  /\ Go(c, "idle")
  /\ UNCHANGED <<feeds, calls>>

Disable(c) ==
  /\ call[c] = "disable"
  /\ Go(c, IF feeds = {} THEN "stop" ELSE "idle")
  /\ UNCHANGED <<camera, threads, feeds, calls, faults>>

PauseStops(c) ==
  /\ call[c] = "stop"
  /\ Stop
  /\ Go(c, "idle")
  /\ UNCHANGED <<threads, feeds, calls, faults>>

\* wait_for_frame(), for a live view, a snapshot or the inference.
WaitForFrame(c) ==
  /\ call[c] = "idle" /\ calls > 0
  /\ calls' = calls - 1
  /\ Start(FALSE)
  /\ Go(c, IF process' \in live' THEN "wait" ELSE "idle")
  /\ UNCHANGED feeds

\* Takes the camera in use elsewhere for one in recovery.
Waited_Names(c) ==
  /\ call[c] = "wait"
  /\ Go(c, IF frame THEN "idle" ELSE status)
  /\ UNCHANGED <<camera, threads, feeds, calls, faults>>

Waited(c) ==
  /\ call[c] = "wait"
  /\ Go(c, IF frame THEN "idle" ELSE "recover")
  /\ UNCHANGED <<camera, threads, feeds, calls, faults>>

\* Without a frame the process is restarted, but not a camera in use
\* elsewhere, nor within five seconds of the last such restart.
Recover(c) ==
  /\ call[c] = "recover"
  /\ \/ status # "BUSY" /\ Start(TRUE)
     \/ UNCHANGED <<camera, threads, faults>>
  /\ Go(c, "idle")
  /\ UNCHANGED <<feeds, calls>>

(***************************************************************************)
(* The process and the clock                                                *)
(***************************************************************************)
Die ==
  /\ faults > 0 /\ Running
  /\ faults' = faults - 1
  /\ live' = live \ {process}
  /\ UNCHANGED <<process, stop, status, frame, backoff, threads, feeds, call, calls>>

BackoffOver ==
  /\ backoff
  /\ backoff' = FALSE
  /\ UNCHANGED <<process, live, stop, status, frame, threads, feeds, call, calls, faults>>

ThreadStep(l) ==
  Bind(l) \/ Read(l) \/ StoreFrame(l) \/ ReaderEnds(l) \/ ListenerEnds(l)

CallStep(c) ==
  \/ Toggle(c) \/ Enable(c) \/ Disable(c) \/ PauseStops(c)
  \/ WaitForFrame(c) \/ Waited(c) \/ Recover(c)

RgbNext ==
  \/ \E l \in Launches : ThreadStep(l) \/ Report(l)
  \/ \E c \in Callers : CallStep(c)
  \/ Die \/ BackoffOver

RgbTypeOK ==
  /\ process \in Launches \cup {None}
  /\ live \in SUBSET Launches
  /\ reader \in [Launches -> {"none", "new", "read", "store", "end"}]
  /\ bound \in [Launches -> Launches \cup {None}]
  /\ listener \in [Launches -> {"off", "on"}]
  /\ stop \in BOOLEAN /\ frame \in BOOLEAN /\ backoff \in BOOLEAN
  /\ status \in {"OFFLINE", "STARTING", "ONLINE", "BUSY", "ERROR"}
  /\ feeds \in SUBSET Feeds
  /\ call \in [Callers -> {"idle", "enable", "disable", "stop", "wait", "recover"}]
  /\ calls \in Nat /\ faults \in Nat

(***************************************************************************)
(* Properties                                                               *)
(***************************************************************************)
\* "The camera is opened exactly once" (rgb_hardware.py:18): however starts,
\* recoveries, pauses and the keep-alive overlap, no capture process runs but
\* the one self.process names.
OneCapture == live \subseteq {process}

\* A capture process that runs has a thread that reads it or is about to:
\* the flag that ends the readers of a stopped camera does not end those of
\* the next one (_read_stdout, 280).
LiveProcessIsRead ==
  Running => \E l \in Launches :
               \/ reader[l] = "new"
               \/ bound[l] = process /\ reader[l] \in {"read", "store"}

\* A camera shown as starting or online has a thread that will take that
\* back: a late frame of a stopped camera does not leave it online (290, 311).
NoGhostCamera ==
  status \in {"STARTING", "ONLINE"} => \E l \in Launches : reader[l] # "none"
=============================================================================
