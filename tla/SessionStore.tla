----------------------------- MODULE SessionStore -----------------------------
(***************************************************************************)
(* SessionManager (easy_dashboard/session_manager.py): missions, the two   *)
(* files that say which of them runs, and the detections of each one,      *)
(* kept in memory, in a journal and in a snapshot.                         *)
(*                                                                         *)
(* start, stop, flush_all and the status polls run under the manager's     *)
(* lock; record_inference_result() does not, so any number of its calls    *)
(* interleave with them and with each other.  Every file write is a step   *)
(* of its own and the process may die between any two.  A call records one *)
(* detection.  A mission is named by the second it started in; how often   *)
(* a detection is kept is counted as never, once, or more than once.       *)
(***************************************************************************)
EXTENDS Naturals

CONSTANTS Detections,  \* one per call of record_inference_result()
          MaxSecond,   \* bound: the clock stops there
          None

ASSUME SessionAssumption ==
    /\ MaxSecond \in Nat \ {0}
    /\ None \notin Detections \cup Nat \cup [Detections -> 0 .. 2]

Sessions == 1 .. MaxSecond
Copies == 0 .. 2
Lists == [Detections -> Copies]
NoRecords == [d \in Detections |-> 0]

VARIABLES
    up, second,     \* the process runs; the clock
    current,        \* _current: the running mission or None
    metadata,       \* metadata.json: the status of each mission
    index,          \* index.json: the status of each mission
    snapshot,       \* detections.json of each mission
    journal,        \* detections_journal.jsonl of each mission
    torn,           \* its last line is incomplete
    cache,          \* _detections_cache: the list of each mission or None
    \* the holder of the lock
    op, opStep, opFor, target, todo, dump,
    \* the calls of record_inference_result()
    step, home, live, payload,
    \* history variables
    recorded, overlapped, glued, straddled, open, stopped

files  == <<metadata, index, snapshot, journal, torn>>
held   == <<op, opStep, opFor, target, todo, dump>>
calls  == <<step, home, live, payload>>
ghosts == <<recorded, overlapped, glued, straddled, open, stopped>>
vars   == <<up, second, current, files, cache, held, calls, ghosts>>

Statuses == {"none", "RUNNING", "STOPPED"}
Operations == {"none", "start", "stop", "flush"}
OpSteps == {"idle", "metadata", "index", "refresh", "dump", "replace",
            "truncate", "evict"}
Steps == {"idle", "start", "get", "install", "extend", "append", "flush",
          "replace", "truncate", "metrics", "reload", "done"}

\* The steps of a call that has a mission.
AtHome == Steps \ {"idle", "start", "done"}

TypeOK ==
    /\ up \in BOOLEAN
    /\ second \in Sessions
    /\ current \in Sessions \cup {None}
    /\ metadata \in [Sessions -> Statuses]
    /\ index \in [Sessions -> Statuses]
    /\ snapshot \in [Sessions -> Lists]
    /\ journal \in [Sessions -> Lists]
    /\ torn \in [Sessions -> BOOLEAN]
    /\ cache \in [Sessions -> Lists \cup {None}]
    /\ op \in Operations
    /\ opStep \in OpSteps
    /\ opFor \in Detections \cup {None}
    /\ target \in Sessions \cup {None}
    /\ todo \in SUBSET Sessions
    /\ dump \in Lists
    /\ step \in [Detections -> Steps]
    /\ home \in [Detections -> Sessions \cup {None}]
    /\ live \in SUBSET Detections
    /\ payload \in [Detections -> Lists]
    /\ recorded \in SUBSET Detections
    /\ overlapped \in SUBSET Detections
    /\ glued \in SUBSET Detections
    /\ straddled \in SUBSET Detections
    /\ open \in Sessions \cup {None}
    /\ stopped \in SUBSET Sessions
    /\ \A d \in Detections : step[d] \in AtHome => home[d] \in Sessions

Plus(m, n) == IF m + n > 2 THEN 2 ELSE m + n

\* Mutant: the journal is not replayed.
ReadFiles_NoJournal(s) == snapshot[s]

\* A mission's list as the files give it: the snapshot, then the journal.
ReadFiles(s) == [d \in Detections |-> Plus(snapshot[s][d], journal[s][d])]

\* Mutant: the index alone tells which mission to resume.
Resumable_ByIndex == {s \in Sessions : index[s] = "RUNNING"}

\* The missions a restart may resume.
Resumable == {s \in Sessions : index[s] = "RUNNING" /\ metadata[s] = "RUNNING"}

Init ==
    /\ up = FALSE
    /\ second = 1
    /\ current = None
    /\ metadata = [s \in Sessions |-> "none"]
    /\ index = [s \in Sessions |-> "none"]
    /\ snapshot = [s \in Sessions |-> NoRecords]
    /\ journal = [s \in Sessions |-> NoRecords]
    /\ torn = [s \in Sessions |-> FALSE]
    /\ cache = [s \in Sessions |-> None]
    /\ op = "none"
    /\ opStep = "idle"
    /\ opFor = None
    /\ target = None
    /\ todo = {}
    /\ dump = NoRecords
    /\ step = [d \in Detections |-> "idle"]
    /\ home = [d \in Detections |-> None]
    /\ live = {}
    /\ payload = [d \in Detections |-> NoRecords]
    /\ recorded = {}
    /\ overlapped = {}
    /\ glued = {}
    /\ straddled = {}
    /\ open = None
    /\ stopped = {}

Free == up /\ op = "none"

InProgress == {d \in Detections : step[d] \notin {"idle", "done"}}

\* The list of mission s is in memory from here on.
Loaded(s) == cache' = [cache EXCEPT ![s] = IF @ = None THEN ReadFiles(s) ELSE @]

-----------------------------------------------------------------------------
(* Start-up, the clock and the polls.                                      *)

\* The latest mission that both files call running is resumed (there is
\* never more than one: AtMostOneResumable).
Restart ==
    /\ ~up
    /\ up' = TRUE
    /\ current' \in IF Resumable = {} THEN {None} ELSE Resumable
    /\ UNCHANGED <<second, files, cache, held, calls, ghosts>>

Tick ==
    /\ second < MaxSecond
    /\ second' = second + 1
    /\ UNCHANGED <<up, current, files, cache, held, calls, ghosts>>

\* get_current_session(), by status polls: the metrics need the list.
GetCurrentSession ==
    /\ Free
    /\ current # None
    /\ Loaded(current)
    /\ UNCHANGED <<up, second, current, files, held, calls, ghosts>>

-----------------------------------------------------------------------------
(* start_session(), for an operator (None) or for a call that found no     *)
(* running mission, and stop_session().                                    *)

\* Mutant: the call goes on without the id of its mission.
Admit_NoMission(d, s) ==
    /\ step' = [step EXCEPT ![d] = "get"]
    /\ UNCHANGED home

\* The call has its mission and goes on to the list of it.
Admit(d, s) ==
    /\ step' = [step EXCEPT ![d] = "get"]
    /\ home' = [home EXCEPT ![d] = s]

Asks(who) == who = None \/ (who \in Detections /\ step[who] = "start")

\* Mutant: start trusts the check that ensure_session() made before.
StartSession_NoRecheck(who) ==
    /\ Free
    /\ Asks(who)
    /\ op' = "start"
    /\ opStep' = "metadata"
    /\ opFor' = who
    /\ target' = second
    /\ current' = second
    /\ UNCHANGED <<up, second, files, cache, todo, dump, calls, ghosts>>

StartSession(who) ==
    /\ Free
    /\ Asks(who)
    /\ current = None
    /\ op' = "start"
    /\ opStep' = "metadata"
    /\ opFor' = who
    /\ target' = second
    /\ current' = second
    /\ UNCHANGED <<up, second, files, cache, todo, dump, calls, ghosts>>

\* Another start came first: "Session already running".
JoinSession(d) ==
    /\ Free
    /\ step[d] = "start"
    /\ current # None
    /\ Loaded(current)
    /\ Admit(d, current)
    /\ UNCHANGED <<up, second, current, files, held, live, payload, ghosts>>

StopSession ==
    /\ Free
    /\ current # None
    /\ op' = "stop"
    /\ opStep' = "metadata"
    /\ target' = current
    /\ current' = None
    /\ open' = None
    /\ overlapped' = overlapped \cup InProgress
    /\ UNCHANGED <<up, second, files, cache, opFor, todo, dump, calls,
                   recorded, glued, straddled, stopped>>

NewStatus == IF op = "start" THEN "RUNNING" ELSE "STOPPED"

\* _write_metadata(): the mission's own file, then the index.
WriteMetadata ==
    /\ opStep = "metadata"
    /\ metadata' = [metadata EXCEPT ![target] = NewStatus]
    /\ stopped' = IF op = "start" THEN stopped \ {target}
                                  ELSE stopped \cup {target}
    /\ opStep' = "index"
    /\ UNCHANGED <<up, second, current, index, snapshot, journal, torn, cache,
                   op, opFor, target, todo, dump, calls, recorded, overlapped,
                   glued, straddled, open>>

\* Mutant: a new mission is not entered in the index.
WriteIndex_KnownOnly ==
    /\ opStep = "index"
    /\ index' = [index EXCEPT ![target] = IF @ = "none" THEN @ ELSE NewStatus]
    /\ opStep' = "refresh"
    /\ UNCHANGED <<up, second, current, metadata, snapshot, journal, torn,
                   cache, op, opFor, target, todo, dump, calls, ghosts>>

WriteIndex ==
    /\ opStep = "index"
    /\ index' = [index EXCEPT ![target] = NewStatus]
    /\ opStep' = "refresh"
    /\ UNCHANGED <<up, second, current, metadata, snapshot, journal, torn,
                   cache, op, opFor, target, todo, dump, calls, ghosts>>

Release ==
    /\ op' = "none"
    /\ opStep' = "idle"
    /\ opFor' = None
    /\ target' = None

\* Both refresh the metrics.  A start ends here and admits the call that
\* asked for it; a stop goes on to the compaction.
Refresh ==
    /\ opStep = "refresh"
    /\ Loaded(target)
    /\ IF op = "start"
       THEN /\ Release
            /\ open' = target
            /\ IF opFor = None THEN UNCHANGED <<step, home>>
                               ELSE Admit(opFor, target)
       ELSE /\ opStep' = "dump"
            /\ UNCHANGED <<op, opFor, target, step, home, open>>
    /\ UNCHANGED <<up, second, current, files, todo, dump, live, payload,
                   recorded, overlapped, glued, straddled, stopped>>

-----------------------------------------------------------------------------
(* The forced compaction of stop_session() and flush_all().                *)

FlushAll ==
    /\ Free
    /\ \E s \in Sessions :
          /\ cache[s] # None
          /\ target' = s
          /\ todo' = {q \in Sessions : cache[q] # None} \ {s}
    /\ op' = "flush"
    /\ opStep' = "dump"
    /\ overlapped' = overlapped \cup InProgress
    /\ UNCHANGED <<up, second, current, files, cache, opFor, dump, calls,
                   recorded, glued, straddled, open, stopped>>

\* The list is serialised to a temporary file ...
Dump ==
    /\ opStep = "dump"
    /\ dump' = cache[target]
    /\ opStep' = "replace"
    /\ UNCHANGED <<up, second, current, files, cache, op, opFor, target, todo,
                   calls, ghosts>>

\* ... which replaces the snapshot ...
Replace ==
    /\ opStep = "replace"
    /\ snapshot' = [snapshot EXCEPT ![target] = dump]
    /\ dump' = NoRecords
    /\ opStep' = "truncate"
    /\ UNCHANGED <<up, second, current, metadata, index, journal, torn, cache,
                   op, opFor, target, todo, calls, ghosts>>

\* Mutant: the journal is kept after it was folded.
Truncate_Kept ==
    /\ opStep = "truncate"
    /\ \/ /\ op = "stop"
          /\ opStep' = "evict"
          /\ UNCHANGED <<op, opFor, target, todo>>
       \/ /\ op = "flush"
          /\ todo = {}
          /\ Release
          /\ UNCHANGED todo
       \/ /\ op = "flush"
          /\ target' \in todo
          /\ todo' = todo \ {target'}
          /\ opStep' = "dump"
          /\ UNCHANGED <<op, opFor>>
    /\ UNCHANGED <<up, second, current, files, cache, dump, calls, ghosts>>

\* ... and the journal is emptied.
Truncate ==
    /\ opStep = "truncate"
    /\ journal' = [journal EXCEPT ![target] = NoRecords]
    /\ torn' = [torn EXCEPT ![target] = FALSE]
    /\ \/ /\ op = "stop"
          /\ opStep' = "evict"
          /\ UNCHANGED <<op, opFor, target, todo>>
       \/ /\ op = "flush"
          /\ todo = {}
          /\ Release
          /\ UNCHANGED todo
       \/ /\ op = "flush"
          /\ target' \in todo
          /\ todo' = todo \ {target'}
          /\ opStep' = "dump"
          /\ UNCHANGED <<op, opFor>>
    /\ UNCHANGED <<up, second, current, metadata, index, snapshot, cache, dump,
                   calls, ghosts>>

Residents(s) == {d \in Detections : home[d] = s}

\* The list is dropped; a call that holds it keeps a list nobody reads.
Evict ==
    /\ opStep = "evict"
    /\ cache' = [cache EXCEPT ![target] = None]
    /\ live' = live \ Residents(target)
    /\ Release
    /\ UNCHANGED <<up, second, current, files, todo, dump, step, home, payload,
                   ghosts>>

-----------------------------------------------------------------------------
(* record_inference_result(d), outside the lock but for ensure_session().  *)

Goto(d, to) == step' = [step EXCEPT ![d] = to]

Begins(d) ==
    overlapped' = IF InProgress = {} THEN overlapped
                                     ELSE overlapped \cup InProgress \cup {d}

\* ensure_session() looks for the running mission; without one it lets the
\* lock go before start_session() takes it again.
EnsureSession(d) ==
    /\ Free
    /\ step[d] = "idle"
    /\ IF current = None
       THEN Goto(d, "start") /\ UNCHANGED <<home, cache>>
       ELSE Admit(d, current) /\ Loaded(current)
    /\ Begins(d)
    /\ UNCHANGED <<up, second, current, files, held, live, payload, recorded,
                   glued, straddled, open, stopped>>

\* _get_detections_cache(): the list of the mission, or the files.
GetCache(d) ==
    /\ step[d] = "get"
    /\ IF cache[home[d]] # None
       THEN /\ Goto(d, "extend")
            /\ live' = live \cup {d}
            /\ UNCHANGED payload
       ELSE /\ Goto(d, "install")
            /\ payload' = [payload EXCEPT ![d] = ReadFiles(home[d])]
            /\ UNCHANGED live
    /\ UNCHANGED <<up, second, current, files, cache, held, home, ghosts>>

\* What was read becomes the list, whoever installed another meanwhile.
Install(d) ==
    /\ step[d] \in {"install", "reload"}
    /\ cache' = [cache EXCEPT ![home[d]] = payload[d]]
    /\ payload' = [payload EXCEPT ![d] = NoRecords]
    /\ IF step[d] = "install"
       THEN /\ Goto(d, "extend")
            /\ live' = (live \ Residents(home[d])) \cup {d}
       ELSE /\ Goto(d, "done")
            /\ live' = live \ Residents(home[d])
    /\ UNCHANGED <<up, second, current, files, held, home, ghosts>>

More(list, d) == [list EXCEPT ![d] = Plus(@, 1)]

Extend(d) ==
    /\ step[d] = "extend"
    /\ cache' = IF d \in live
                THEN [cache EXCEPT ![home[d]] = More(@, d)]
                ELSE cache
    /\ Goto(d, "append")
    /\ live' = live \ {d}
    /\ UNCHANGED <<up, second, current, files, held, home, payload, ghosts>>

\* A line appended to an incomplete one is as unreadable as that one.
Append(d) ==
    /\ step[d] = "append"
    /\ IF torn[home[d]]
       THEN /\ glued' = glued \cup {d}
            /\ torn' = [torn EXCEPT ![home[d]] = FALSE]
            /\ UNCHANGED journal
       ELSE /\ journal' = [journal EXCEPT ![home[d]] = More(@, d)]
            /\ UNCHANGED <<glued, torn>>
    /\ recorded' = recorded \cup {d}
    /\ Goto(d, "flush")
    /\ UNCHANGED <<up, second, current, metadata, index, snapshot, cache, held,
                   home, live, payload, overlapped, straddled, open, stopped>>

\* _flush_session_cache(): compacts when the journal is old and large
\* enough, which an empty one never is.
Flush(d) ==
    /\ step[d] = "flush"
    /\ \/ /\ Goto(d, "metrics")
          /\ UNCHANGED payload
       \/ /\ cache[home[d]] # None
          /\ journal[home[d]] # NoRecords
          /\ Goto(d, "replace")
          /\ payload' = [payload EXCEPT ![d] = cache[home[d]]]
    /\ UNCHANGED <<up, second, current, files, cache, held, home, live, ghosts>>

FlushReplace(d) ==
    /\ step[d] = "replace"
    /\ snapshot' = [snapshot EXCEPT ![home[d]] = payload[d]]
    /\ payload' = [payload EXCEPT ![d] = NoRecords]
    /\ Goto(d, "truncate")
    /\ UNCHANGED <<up, second, current, metadata, index, journal, torn, cache,
                   held, home, live, ghosts>>

FlushTruncate(d) ==
    /\ step[d] = "truncate"
    /\ journal' = [journal EXCEPT ![home[d]] = NoRecords]
    /\ torn' = [torn EXCEPT ![home[d]] = FALSE]
    /\ Goto(d, "metrics")
    /\ UNCHANGED <<up, second, current, metadata, index, snapshot, cache, held,
                   home, live, payload, ghosts>>

\* _refresh_metrics() loads the list again when it is gone.
Metrics(d) ==
    /\ step[d] = "metrics"
    /\ IF cache[home[d]] # None
       THEN Goto(d, "done") /\ UNCHANGED payload
       ELSE /\ Goto(d, "reload")
            /\ payload' = [payload EXCEPT ![d] = ReadFiles(home[d])]
    /\ UNCHANGED <<up, second, current, files, cache, held, home, live, ghosts>>

-----------------------------------------------------------------------------
(* The process dies; a line that is being appended may be cut.             *)

\* What a mission keeps twice while its compaction is between two writes.
Straddling ==
    {d \in Detections : \E s \in Sessions :
        /\ snapshot[s][d] > 0 /\ journal[s][d] > 0
        /\ \/ opStep = "truncate" /\ target = s
           \/ \E c \in Detections : step[c] = "truncate" /\ home[c] = s}

Die ==
    /\ up
    /\ up' = FALSE
    /\ current' = None
    /\ cache' = [s \in Sessions |-> None]
    /\ op' = "none"
    /\ opStep' = "idle"
    /\ opFor' = None
    /\ target' = None
    /\ todo' = {}
    /\ dump' = NoRecords
    /\ step' = [d \in Detections |-> IF d \in InProgress THEN "done" ELSE step[d]]
    /\ live' = {}
    /\ payload' = [d \in Detections |-> NoRecords]
    /\ straddled' = straddled \cup Straddling
    /\ UNCHANGED <<second, metadata, index, snapshot, journal, home, recorded,
                   overlapped, glued, open, stopped>>

Crash ==
    /\ Die
    /\ UNCHANGED torn

CrashInAppend(d) ==
    /\ Die
    /\ step[d] = "append"
    /\ torn' = [torn EXCEPT ![home[d]] = TRUE]

Record(d) ==
    \/ EnsureSession(d)
    \/ StartSession(d)
    \/ JoinSession(d)
    \/ GetCache(d)
    \/ Install(d)
    \/ Extend(d)
    \/ Append(d)
    \/ Flush(d)
    \/ FlushReplace(d)
    \/ FlushTruncate(d)
    \/ Metrics(d)

Locked ==
    \/ WriteMetadata
    \/ WriteIndex
    \/ Refresh
    \/ Dump
    \/ Replace
    \/ Truncate
    \/ Evict

Next ==
    \/ Restart
    \/ Tick
    \/ GetCurrentSession
    \/ StartSession(None)
    \/ StopSession
    \/ FlushAll
    \/ Locked
    \/ \E d \in Detections : Record(d)
    \/ Crash
    \/ \E d \in Detections : CrashInAppend(d)

Spec == Init /\ [][Next]_vars

-----------------------------------------------------------------------------
(* Properties.                                                             *)

Kept(d) == home[d] \in Sessions /\ ReadFiles(home[d])[d] > 0

\* "A session survives a restart: the last RUNNING one is restored on
\* start-up" (session_manager.py:16): from the return of a start to the next
\* stop, a restart would resume that mission and no other, wherever a crash
\* falls.
MissionSurvivesRestart ==
    open # None => Resumable = {open} /\ (Free => current = open)

\* No crash leaves two missions that a restart could resume, although a
\* start and a stop write metadata.json and index.json one after the other.
\* (MissionLife keeps at most one, so ImplementsLife contains this.)
AtMostOneResumable ==
    \A s, q \in Resumable : s = q

\* The two files, the memory and the lock implement the life of a mission:
\* start_session(), stop_session() and _restore_active_session() change in
\* several writes what MissionLife changes in one.
Life == INSTANCE MissionLife
            WITH Missions <- Sessions, running <- current, kept <- Resumable
ImplementsLife == Life!Spec

\* A stopped mission does not run again: not after a crash between the
\* writes of the stop, and not for a call that was still recording.
StopIsFinal == current \notin stopped \/ op = "start"

\* A detection whose call overlapped no other call, stop or shutdown is never
\* lost, through compactions, crashes and restarts; but one appended to the
\* line that a crash cut short is.
SequentialCallsAreDurable ==
    recorded \ (overlapped \cup glued) \subseteq {d \in Detections : Kept(d)}

\* Such a detection is counted once, unless the process died between the two
\* writes of a compaction.
CountedOnce ==
    \A s \in Sessions : cache[s] # None =>
        \A d \in Detections \ (overlapped \cup straddled) : cache[s][d] <= 1

\* "replay it on top of the last compacted snapshot so nothing between
\* compactions is lost" (session_manager.py:516): whatever was appended to a
\* journal is in the files or, while the process runs, in the list.
NothingBetweenCompactionsIsLost ==
    \A d \in recorded :
        Kept(d) \/ (cache[home[d]] # None /\ cache[home[d]][d] > 0)
=============================================================================
