----------------------------- MODULE MissionLife -----------------------------
(***************************************************************************)
(* What SessionManager promises of missions to the rest of the dashboard,  *)
(* whatever files they are kept in: one runs at a time; from the moment    *)
(* its start is on disk until a stop is asked for, every restart resumes   *)
(* it; and a stop that is on disk is final.                                *)
(***************************************************************************)
CONSTANTS Missions, None

VARIABLES up,       \* the process runs
          running,  \* the mission that runs in it, or None
          kept      \* the missions a restart could resume

lifeVars == <<up, running, kept>>

Init ==
    /\ up = FALSE
    /\ running = None
    /\ kept = {}

\* The process starts, with the mission that was kept if there is one.
StartUp ==
    /\ ~up
    /\ up' = TRUE
    /\ running' \in IF kept = {} THEN {None} ELSE kept
    /\ UNCHANGED kept

\* A start begins only when nothing runs and nothing is kept ...
Start(m) ==
    /\ up
    /\ running = None
    /\ kept = {}
    /\ running' = m
    /\ UNCHANGED <<up, kept>>

\* ... and at one moment its mission is on disk.
Keep ==
    /\ running # None
    /\ kept = {}
    /\ kept' = {running}
    /\ UNCHANGED <<up, running>>

\* A stop takes the mission out of memory ...
Stop ==
    /\ running # None
    /\ kept = {running}
    /\ running' = None
    /\ UNCHANGED <<up, kept>>

\* ... and at one moment from disk.  While no process runs nothing is
\* forgotten.
Forget ==
    /\ up
    /\ running = None
    /\ kept # {}
    /\ kept' = {}
    /\ UNCHANGED <<up, running>>

\* The process dies; what is on disk stays.
Die ==
    /\ up
    /\ up' = FALSE
    /\ running' = None
    /\ UNCHANGED kept

Next ==
    \/ StartUp
    \/ \E m \in Missions : Start(m)
    \/ Keep
    \/ Stop
    \/ Forget
    \/ Die

Spec == Init /\ [][Next]_lifeVars
=============================================================================
