---------------------------- MODULE DetectionLog ----------------------------
(***************************************************************************)
(* What the detection history promises to the rest of the dashboard,       *)
(* whatever files it is kept in: a log of detections that survives every   *)
(* crash, grows by whole inference runs, and shrinks only while a clear()  *)
(* is being carried out.                                                   *)
(***************************************************************************)
CONSTANT Detections   \* the detection ids an installation may ever record

VARIABLES log,        \* the detections a restart would bring back
          erasing     \* TRUE while a clear() is under way

logVars == <<log, erasing>>

Init ==
    /\ log = {}
    /\ erasing = FALSE

\* A run's detections become durable, all of them in one step.
Record(run) ==
    /\ ~erasing
    /\ log' = log \cup run
    /\ UNCHANGED erasing

BeginErase ==
    /\ ~erasing
    /\ erasing' = TRUE
    /\ UNCHANGED log

\* The erasure may reach the files one after the other.
Erase ==
    /\ erasing
    /\ log' \in SUBSET log
    /\ UNCHANGED erasing

\* The call returns: nothing is left.
EndErase ==
    /\ erasing
    /\ log' = {}
    /\ erasing' = FALSE

\* The process dies half way: what was not erased yet stays.
AbandonErase ==
    /\ erasing
    /\ erasing' = FALSE
    /\ UNCHANGED log

Next ==
    \/ \E run \in SUBSET Detections : Record(run)
    \/ BeginErase
    \/ Erase
    \/ EndErase
    \/ AbandonErase

Spec == Init /\ [][Next]_logVars
=============================================================================
