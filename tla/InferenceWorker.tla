--------------------------- MODULE InferenceWorker ---------------------------
(***************************************************************************)
(* InferenceWorker (easy_dashboard/inference_worker.py): the HTTP requests *)
(* that start, stop and query the worker or run it once, and the           *)
(* background loops they leave behind.                                     *)
(*                                                                         *)
(* A critical section under _state_lock is one action, taken when the lock *)
(* is free; what happens between two of them is a step of its own.  The    *)
(* two-second join of stop() may time out at any time (an inference takes  *)
(* as long as it takes), so it is the delay before the action after it.    *)
(***************************************************************************)
EXTENDS Naturals, FiniteSets

CONSTANTS Requests,     \* HTTP threads, one request each at a time
          Loops,        \* thread objects that start() may create
          MaxFailures,  \* _max_consecutive_loop_failures
          None

Modes == {"loop", "single"}   \* replay/demo/loop, and single/once

ASSUME WorkerAssumption ==
    /\ IsFiniteSet(Loops)
    /\ MaxFailures \in Nat \ {0}
    /\ None \notin Requests \cup Loops

VARIABLES
    request,   \* where each HTTP thread is
    asked,     \* the mode of its start(), "loop" when it serves none
    loop,      \* where each thread object is
    lock,      \* holder of _state_lock across actions, or None
    stopping,  \* _stop_event
    running,   \* _running
    thread,    \* _thread
    mode,      \* _mode
    failures,  \* _consecutive_loop_failures
    source,    \* what the selected source and the model would do next
    frameError,\* UnifiedFrameProvider._last_error is set
    late       \* inferences each live loop began since the last stop request

input == <<source, frameError>>
vars  == <<request, asked, loop, lock, stopping, running, thread, mode,
           failures, input, late>>

RequestSteps == {"idle", "validate", "reject", "enter", "assign", "launch",
                 "mark", "status"}
LoopSteps == {"unused", "created", "top", "infer", "record", "failed",
              "sleep", "backoff", "exit", "dead"}

\* "off": validation and the loop's checks refuse it, and the frame under way
\* may still be served; "good": a frame gives a result; "bad": it raises.
Sources == {"off", "good", "bad"}

TypeOK ==
    /\ request \in [Requests -> RequestSteps]
    /\ asked \in [Requests -> Modes]
    /\ loop \in [Loops -> LoopSteps]
    /\ lock \in Requests \cup {None}
    /\ stopping \in BOOLEAN
    /\ running \in BOOLEAN
    /\ thread \in Loops \cup {None}
    /\ mode \in Modes
    /\ failures \in 0 .. MaxFailures + Cardinality(Loops)
    /\ source \in Sources
    /\ frameError \in BOOLEAN
    /\ late \in [Loops -> Nat]

Alive(t) == loop[t] \notin {"unused", "created", "dead"}

Unused == {t \in Loops : loop[t] = "unused"}

\* Requests past the point where start() commits to a new thread.
Spawning == {r \in Requests : request[r] \in {"assign", "launch"}}

Init ==
    /\ request = [r \in Requests |-> "idle"]
    /\ asked = [r \in Requests |-> "loop"]
    /\ loop = [t \in Loops |-> "unused"]
    /\ lock = None
    /\ stopping = FALSE
    /\ running = FALSE
    /\ thread = None
    /\ mode = "loop"
    /\ failures = 0
    /\ source \in {"off", "good"}
    /\ frameError = FALSE
    /\ late = [t \in Loops |-> 0]

LoopVars == <<loop, failures, late>>
Shared   == <<lock, stopping, running, thread, mode>>

\* The provider keeps the error of the last frame it failed to give.
Usable == source # "off" /\ ~frameError

Goto(r, to) == request' = [request EXCEPT ![r] = to]

-----------------------------------------------------------------------------
(* start()                                                                 *)

\* Bound: a start() that could need a thread object finds one unused.
StartRequest(r, m) ==
    /\ request[r] = "idle"
    /\ Cardinality({q \in Requests : request[q] \in
          {"validate", "enter", "assign"}}) < Cardinality(Unused)
    /\ asked' = [asked EXCEPT ![r] = m]
    /\ Goto(r, "validate")
    /\ UNCHANGED <<LoopVars, Shared, input>>

Validate(r) ==
    /\ request[r] = "validate"
    /\ Goto(r, IF Usable THEN "enter" ELSE "reject")
    /\ UNCHANGED <<asked, LoopVars, Shared, input>>

\* "ok: False": the worker is marked stopped, whatever its loop does.
Reject(r) ==
    /\ request[r] = "reject"
    /\ lock = None
    /\ running' = FALSE
    /\ asked' = [asked EXCEPT ![r] = "loop"]
    /\ Goto(r, "idle")
    /\ UNCHANGED <<LoopVars, lock, stopping, thread, mode, input>>

AlreadyRunning == running /\ thread # None /\ Alive(thread)

\* The early return of a start() that finds the loop running calls status()
\* before it has left the lock.
EnterRunning(r) ==
    /\ request[r] = "enter"
    /\ lock = None
    /\ AlreadyRunning
    /\ lock' = r
    /\ mode' = asked[r]
    /\ asked' = [asked EXCEPT ![r] = "loop"]
    /\ Goto(r, "status")
    /\ UNCHANGED <<LoopVars, stopping, running, thread, input>>

EnterStopped(r) ==
    /\ request[r] = "enter"
    /\ lock = None
    /\ ~AlreadyRunning
    /\ mode' = asked[r]
    /\ stopping' = FALSE
    /\ running' = TRUE
    /\ late' = [t \in Loops |-> 0]
    /\ asked' = [asked EXCEPT ![r] = "loop"]
    /\ Goto(r, "assign")
    /\ UNCHANGED <<loop, failures, lock, thread, input>>

\* Outside the lock: the counter is reset and the thread object stored ...
AssignThread(r) ==
    /\ request[r] = "assign"
    /\ \E t \in Unused :
          /\ thread' = t
          /\ loop' = [loop EXCEPT ![t] = "created"]
    /\ failures' = 0
    /\ Goto(r, "launch")
    /\ UNCHANGED <<asked, late, lock, stopping, running, mode, input>>

\* ... and whichever object is stored by now is started; starting it a
\* second time raises, and the request fails.
LaunchThread(r) ==
    /\ request[r] = "launch"
    /\ IF loop[thread] = "created"
       THEN /\ loop' = [loop EXCEPT ![thread] = "top"]
            /\ Goto(r, "status")
       ELSE /\ UNCHANGED loop
            /\ Goto(r, "idle")
    /\ UNCHANGED <<asked, failures, late, Shared, input>>

-----------------------------------------------------------------------------
(* stop() and status()                                                     *)

StopRequest(r) ==
    /\ request[r] = "idle"
    /\ stopping' = TRUE
    /\ Goto(r, "mark")
    /\ UNCHANGED <<asked, LoopVars, lock, running, thread, mode, input>>

MarkStopped(r) ==
    /\ request[r] = "mark"
    /\ lock = None
    /\ running' = FALSE
    /\ Goto(r, "status")
    /\ UNCHANGED <<asked, LoopVars, lock, stopping, thread, mode, input>>

StatusRequest(r) ==
    /\ request[r] = "idle"
    /\ Goto(r, "status")
    /\ UNCHANGED <<asked, LoopVars, Shared, input>>

\* status() takes the lock: _state_lock is not reentrant.
Status(r) ==
    /\ request[r] = "status"
    /\ lock = None
    /\ Goto(r, "idle")
    /\ UNCHANGED <<asked, LoopVars, Shared, input>>

-----------------------------------------------------------------------------
(* One frame: run_on_next_frame(), for the loop and for requests, which    *)
(* may also fetch a frame or have an image of their own looked at.         *)

\* The provider gives no frame, and remembers that, or gives one on which the
\* inference raises.
FrameRaises ==
    /\ source # "good"
    /\ frameError' \in BOOLEAN

\* The frame comes to a result: detections, or "ok: False" for want of a model
\* or of the image.
FrameServed ==
    /\ source # "bad"
    /\ frameError' = FALSE

\* run_on_frame() and run_on_image() note a result under the lock: the same
\* wait as that of a status.
Noted(r) == Goto(r, "status")

\* What raises is answered with an error at once.  Nobody sees an inference
\* that a request runs begin, so it is one step.
RunFrame(r) ==
    /\ request[r] = "idle"
    /\ \/ FrameRaises /\ UNCHANGED request
       \/ FrameServed /\ Noted(r)
    /\ UNCHANGED <<asked, LoopVars, Shared, source>>

\* An image does not come from the provider.  One that is refused or raises
\* changes nothing.
RunImage(r) ==
    /\ request[r] = "idle"
    /\ Noted(r)
    /\ UNCHANGED <<asked, LoopVars, Shared, input>>

\* next_frame(): the frame alone.
FetchFrame(r) ==
    /\ request[r] = "idle"
    /\ \/ source # "good" /\ frameError' = TRUE
       \/ frameError' = FALSE
    /\ UNCHANGED <<request, asked, LoopVars, Shared, source>>

-----------------------------------------------------------------------------
(* _demo_loop()                                                            *)

LoopGoto(t, to) == loop' = [loop EXCEPT ![t] = to]

Top(t) ==
    /\ loop[t] = "top"
    /\ LoopGoto(t, IF stopping \/ ~Usable THEN "exit" ELSE "infer")
    /\ UNCHANGED <<request, asked, failures, late, Shared, input>>

Begins(t) == late' = [late EXCEPT ![t] = IF stopping THEN @ + 1 ELSE @]

\* Mutant: an exception is not counted.
Infer_NotCounted(t) ==
    /\ loop[t] = "infer"
    /\ Begins(t)
    /\ \/ FrameRaises /\ LoopGoto(t, "failed")
       \/ FrameServed /\ LoopGoto(t, "record")
    /\ UNCHANGED <<request, asked, failures, Shared, source>>

\* One frame.  The provider or the inference may raise, which counts as a
\* failure at once; a result, also one with "ok: False", is recorded.
Infer(t) ==
    /\ loop[t] = "infer"
    /\ Begins(t)
    /\ \/ /\ FrameRaises
          /\ LoopGoto(t, "failed")
          /\ failures' = failures + 1
       \/ /\ FrameServed
          /\ LoopGoto(t, "record")
          /\ UNCHANGED failures
    /\ UNCHANGED <<request, asked, Shared, source>>

Leaves == stopping \/ mode = "single"

\* Mutant: a recorded frame is followed by the next one, and the loop
\* condition is not seen.
Record_NoStopCheck(t) ==
    /\ loop[t] = "record"
    /\ lock = None
    /\ failures' = 0
    /\ LoopGoto(t, IF mode = "single" THEN "exit" ELSE "infer")
    /\ UNCHANGED <<request, asked, late, Shared, input>>

Record(t) ==
    /\ loop[t] = "record"
    /\ lock = None
    /\ failures' = 0
    /\ LoopGoto(t, IF Leaves THEN "exit" ELSE "sleep")
    /\ UNCHANGED <<request, asked, late, Shared, input>>

\* Mutant: the loop never gives up.
Failed_Forever(t) ==
    /\ loop[t] = "failed"
    /\ lock = None
    /\ LoopGoto(t, IF stopping THEN "exit" ELSE "backoff")
    /\ UNCHANGED <<request, asked, failures, late, Shared, input>>

\* A run of failures, or a stop request, ends the loop.
Failed(t) ==
    /\ loop[t] = "failed"
    /\ lock = None
    /\ LoopGoto(t, IF failures >= MaxFailures \/ stopping
                   THEN "exit" ELSE "backoff")
    /\ UNCHANGED <<request, asked, failures, late, Shared, input>>

\* Mutant: the back-off waits for the source, and not for the stop request.
Wake_SourceBack(t) ==
    /\ \/ loop[t] = "sleep" /\ LoopGoto(t, IF mode = "single" THEN "exit" ELSE "top")
       \/ loop[t] = "backoff" /\ source = "good" /\ LoopGoto(t, "top")
    /\ UNCHANGED <<request, asked, failures, late, Shared, input>>

\* The mode is read again after the pause that follows a result.
Wake(t) ==
    /\ \/ loop[t] = "sleep" /\ LoopGoto(t, IF mode = "single" THEN "exit" ELSE "top")
       \/ loop[t] = "backoff" /\ LoopGoto(t, "top")
    /\ UNCHANGED <<request, asked, failures, late, Shared, input>>

\* Mutant: a loop that gives up leaves the worker marked running.
Exit_StillMarked(t) ==
    /\ loop[t] = "exit"
    /\ lock = None
    /\ LoopGoto(t, "dead")
    /\ late' = [late EXCEPT ![t] = 0]
    /\ UNCHANGED <<request, asked, failures, Shared, input>>

\* Every way out of the loop marks the worker stopped.
Exit(t) ==
    /\ loop[t] = "exit"
    /\ lock = None
    /\ running' = FALSE
    /\ LoopGoto(t, "dead")
    /\ late' = [late EXCEPT ![t] = 0]
    /\ UNCHANGED <<request, asked, failures, lock, stopping, thread, mode,
                   input>>

-----------------------------------------------------------------------------
(* The source comes and goes, and frames turn bad.                         *)

SourceChanges ==
    /\ source' \in Sources \ {source}
    /\ UNCHANGED <<request, asked, LoopVars, Shared, frameError>>

\* The provider is rewound or configured anew.
ResetProvider ==
    /\ frameError
    /\ frameError' = FALSE
    /\ UNCHANGED <<request, asked, LoopVars, Shared, source>>

NewRequest(r) ==
    \/ \E m \in Modes : StartRequest(r, m)
    \/ StopRequest(r)
    \/ StatusRequest(r)
    \/ RunFrame(r)
    \/ RunImage(r)
    \/ FetchFrame(r)

RequestStep(r) ==
    \/ Validate(r)
    \/ Reject(r)
    \/ EnterRunning(r)
    \/ EnterStopped(r)
    \/ AssignThread(r)
    \/ LaunchThread(r)
    \/ MarkStopped(r)
    \/ Status(r)

LoopStep(t) ==
    \/ Top(t)
    \/ Infer(t)
    \/ Record(t)
    \/ Failed(t)
    \/ Wake(t)
    \/ Exit(t)

Next ==
    \/ \E r \in Requests : NewRequest(r) \/ RequestStep(r)
    \/ \E t \in Loops : LoopStep(t)
    \/ SourceChanges
    \/ ResetProvider

Spec == Init /\ [][Next]_vars

\* Threads run; the operator and the world owe nothing.  A critical section
\* is one step, so a free lock stays free for whoever waits: weak fairness.
Fairness ==
    /\ \A r \in Requests : WF_vars(RequestStep(r))
    /\ \A t \in Loops : WF_vars(LoopStep(t))

FairSpec == Spec /\ Fairness

-----------------------------------------------------------------------------
(* Properties.                                                             *)

\* A request that waits for the lock it holds itself.
SelfBlocked == \E r \in Requests : lock = r /\ request[r] = "status"

\* "running" is never left behind: when the status says the worker runs, a
\* loop is alive or a start() is about to launch one (start, stop and every
\* exit of _demo_loop write _running).
RunningHasALoop == running => Spawning # {} \/ \E t \in Loops : Alive(t)

\* stop() bounds the work that follows it: until a start() takes the request
\* back, each loop begins at most the one inference it was about to begin.
StopBoundsWork == \A t \in Loops : late[t] <= 1

\* Every loop ends after a stop request that no start() takes back, unless a
\* request holds the lock it waits for.
StopEndsLoops ==
    \A t \in Loops :
        stopping /\ Alive(t) ~> ~Alive(t) \/ ~stopping \/ SelfBlocked

\* A broken setup does not spin: when every frame raises from some time on,
\* the loops end unless start() keeps resetting the count of failures.
BrokenSetupEnds ==
    <>[](source = "bad" /\ Spawning = {})
        => <>[](SelfBlocked \/ \A t \in Loops : ~Alive(t))

\* "The worker is thread-safe" (inference_worker.py:13): a request is
\* answered, whatever the other requests and the loop do.
EveryRequestReturns ==
    \A r \in Requests : request[r] # "idle" ~> request[r] = "idle"

\* "A single frame's transient failure ... must not kill an unattended demo
\* loop" (inference_worker.py:758): with the source there and nobody stopping
\* it, a loop that goes for its next frame gets to infer it.
TransientFailureIsRetried ==
    [][\A t \in Loops :
          loop[t] = "top" /\ loop'[t] = "exit" => stopping \/ source = "off"]_vars
=============================================================================
