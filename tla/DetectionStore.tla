--------------------------- MODULE DetectionStore ---------------------------
(***************************************************************************)
(* DetectionManager (easy_dashboard/detection_manager.py): the detections  *)
(* of the latest inference, the history of all of them, and the three      *)
(* files they are kept in, across crashes and restarts.                    *)
(*                                                                         *)
(* Every operation that changes the manager runs under its lock and ends   *)
(* in _persist(), whose writes are separate steps here: a crash may fall   *)
(* between any two of them, and inside the append.  The order in which the *)
(* history lists detections is left out; how often it lists one is kept.   *)
(***************************************************************************)
EXTENDS Naturals

CONSTANTS Detections,  \* detection ids (uuid4: no id is drawn twice)
          Absent       \* the status of an id that a table does not hold

Statuses == {"NEW", "RESOLVED"}

ASSUME AbsentAssumption == Absent \notin Statuses

VARIABLES
    running,      \* the process is up
    step,         \* the write _persist() does next; "idle": the lock is free
    op,           \* the operation that holds the lock
    batch,        \* journal_records of the _persist() under way
    \* the manager's memory
    status,       \* _detections: the status of each id
    listed,       \* _history_ids: how often it lists each id
    current,      \* _current_ids
    \* the files
    currentFile,  \* current_detections.json (a current record is NEW)
    historyFile,  \* detection_history.json: status of each id
    historyCopies,\* detection_history.json: how often it lists each id
    journal,      \* detection_history.jsonl (a record is journalled NEW)
    \* history variables
    used,         \* ids drawn so far
    recorded,     \* ids recorded and not given to a clear() since
    erased,       \* ids removed by a clear() that returned
    run           \* the latest run given to record, {} once a clear() is called

memory == <<status, listed, current>>
files  == <<currentFile, historyFile, historyCopies, journal>>
ghosts == <<used, recorded, erased, run>>
vars   == <<running, step, op, batch, memory, files, ghosts>>

Operations == {"none", "load", "record", "clear"}
Steps == {"idle", "current", "append", "history", "truncate"}

TypeOK ==
    /\ running \in BOOLEAN
    /\ step \in Steps
    /\ op \in Operations
    /\ batch \in SUBSET Detections
    /\ status \in [Detections -> Statuses \cup {Absent}]
    /\ listed \in [Detections -> Nat]
    /\ current \in SUBSET Detections
    /\ currentFile \in SUBSET Detections
    /\ historyFile \in [Detections -> Statuses \cup {Absent}]
    /\ historyCopies \in [Detections -> Nat]
    /\ journal \in SUBSET Detections
    /\ used \in SUBSET Detections
    /\ recorded \in SUBSET Detections
    /\ erased \in SUBSET Detections
    /\ run \in SUBSET Detections

Nothing == [d \in Detections |-> Absent]
NoCopies == [d \in Detections |-> 0]

\* The ids in memory, and the ids each file would bring back.
Held    == {d \in Detections : status[d] # Absent}
Folded  == {d \in Detections : historyFile[d] # Absent}
Durable == Folded \cup journal \cup currentFile

Init ==
    /\ running = FALSE
    /\ step = "idle"
    /\ op = "none"
    /\ batch = {}
    /\ status = Nothing
    /\ listed = NoCopies
    /\ current = {}
    /\ currentFile = {}
    /\ historyFile = Nothing
    /\ historyCopies = NoCopies
    /\ journal = {}
    /\ used = {}
    /\ recorded = {}
    /\ erased = {}
    /\ run = {}

-----------------------------------------------------------------------------
(* Start-up: the snapshot, then the journal, then the current detections.  *)

\* Mutant: the replay adds what the snapshot holds already.
Replayed_NoDedup == journal

\* Journal records that the replay adds: those the snapshot does not hold.
Replayed == journal \ Folded

\* Current records that the replay has not listed already.
Restored == currentFile \ (Folded \cup journal)

\* Mutant: a record without a status is loaded with the default "ACTIVE".
LoadedStatus_Default ==
    [d \in Detections |->
        IF d \in journal \ currentFile THEN "ACTIVE" ELSE historyFile[d]]

\* Mutant: the current snapshot is not read back into the history.
LoadedStatus_NoCurrent ==
    [d \in Detections |->
        IF d \in journal THEN "RESOLVED" ELSE historyFile[d]]

\* Mutant: the journal overrides the snapshot, and its records are not closed.
LoadedStatus_JournalWins ==
    [d \in Detections |->
        IF d \in journal \cup currentFile THEN "NEW" ELSE historyFile[d]]

\* The current snapshot is loaded last; a journal record that is not
\* current belongs to an earlier run and is closed.
LoadedStatus ==
    [d \in Detections |->
        CASE d \in currentFile           -> "NEW"
          [] d \in journal \ currentFile -> "RESOLVED"
          [] OTHER                       -> historyFile[d]]

LoadedCopies ==
    [d \in Detections |->
        historyCopies[d] + (IF d \in Replayed THEN 1 ELSE 0)
                         + (IF d \in Restored THEN 1 ELSE 0)]

Start ==
    /\ ~running
    /\ running' = TRUE
    /\ op' = "load"
    /\ step' = "current"
    /\ batch' = {}
    /\ status' = LoadedStatus
    /\ listed' = LoadedCopies
    /\ current' = currentFile
    /\ UNCHANGED <<files, ghosts>>

-----------------------------------------------------------------------------
(* Operations: each takes the lock and leaves the writes to _persist().    *)

Free == running /\ step = "idle"

Fresh == Detections \ used

\* A run replaces the current detections, and closes them, even when it
\* found nothing.
RecordInferenceResult(found) ==
    /\ Free
    /\ found \subseteq Fresh
    /\ op' = "record"
    /\ step' = "current"
    /\ batch' = found
    /\ status' = [d \in Detections |->
                    CASE d \in found             -> "NEW"
                      [] d \in current \ found   -> "RESOLVED"
                      [] OTHER                   -> status[d]]
    /\ listed' = [d \in Detections |->
                    IF d \in found THEN listed[d] + 1 ELSE listed[d]]
    /\ current' = found
    /\ used' = used \cup found
    /\ run' = found
    /\ UNCHANGED <<running, files, recorded, erased>>

AddDetection(d) ==
    /\ Free
    /\ d \in Fresh
    /\ op' = "record"
    /\ step' = "current"
    /\ batch' = {d}
    /\ status' = [status EXCEPT ![d] = "NEW"]
    /\ listed' = [listed EXCEPT ![d] = @ + 1]
    /\ current' = current \cup {d}
    /\ used' = used \cup {d}
    /\ run' = {d}
    /\ UNCHANGED <<running, files, recorded, erased>>

Clear ==
    /\ Free
    /\ op' = "clear"
    /\ step' = "current"
    /\ batch' = {}
    /\ status' = Nothing
    /\ listed' = NoCopies
    /\ current' = {}
    /\ recorded' = {}
    /\ run' = {}
    /\ UNCHANGED <<running, files, used, erased>>

-----------------------------------------------------------------------------
(* _persist(): one action per write.                                       *)

\* Mutant: only the journal is written.
WriteCurrent_Skipped ==
    /\ step = "current"
    /\ step' = "append"
    /\ recorded' = recorded \cup batch
    /\ UNCHANGED <<running, op, batch, memory, used, erased, run, files>>

WriteCurrent ==
    /\ step = "current"
    /\ currentFile' = current
    /\ step' = "append"
    /\ recorded' = recorded \cup batch
    /\ UNCHANGED <<running, op, batch, memory, used, erased, run,
                   historyFile, historyCopies, journal>>

\* load and clear force the compaction; another call compacts when the
\* journal is old and large enough, which an empty one never is.
Compacts(size) == op \in {"load", "clear"} \/ size # {}
Skips          == op = "record"

\* Mutant: the records are not handed to the journal.
AppendJournal_NoRecords ==
    /\ step = "append"
    /\ \/ Compacts(journal) /\ step' = "history" /\ UNCHANGED op
       \/ Skips /\ step' = "idle" /\ op' = "none"
    /\ UNCHANGED <<running, batch, memory, ghosts, files>>

AppendJournal ==
    /\ step = "append"
    /\ journal' = journal \cup batch
    /\ \/ Compacts(journal') /\ step' = "history" /\ UNCHANGED op
       \/ Skips /\ step' = "idle" /\ op' = "none"
    /\ UNCHANGED <<running, batch, memory, ghosts,
                   currentFile, historyFile, historyCopies>>

\* Mutant: the compaction writes the current detections only.
WriteHistory_CurrentOnly ==
    /\ step = "history"
    /\ historyFile' = [d \in Detections |->
                         IF d \in current THEN status[d] ELSE Absent]
    /\ historyCopies' = [d \in Detections |->
                           IF d \in current THEN listed[d] ELSE 0]
    /\ step' = "truncate"
    /\ UNCHANGED <<running, op, batch, memory, ghosts, currentFile, journal>>

WriteHistory ==
    /\ step = "history"
    /\ historyFile' = status
    /\ historyCopies' = listed
    /\ step' = "truncate"
    /\ UNCHANGED <<running, op, batch, memory, ghosts, currentFile, journal>>

\* Mutant: the journal is kept after it was folded.
TruncateJournal_Kept ==
    /\ step = "truncate"
    /\ step' = "idle"
    /\ op' = "none"
    /\ erased' = IF op = "clear" THEN used ELSE erased
    /\ UNCHANGED <<running, batch, memory, used, recorded, run, files>>

TruncateJournal ==
    /\ step = "truncate"
    /\ journal' = {}
    /\ step' = "idle"
    /\ op' = "none"
    /\ erased' = IF op = "clear" THEN used ELSE erased
    /\ UNCHANGED <<running, batch, memory, used, recorded, run,
                   currentFile, historyFile, historyCopies>>

-----------------------------------------------------------------------------
(* The process dies, and an append under way leaves any part of the batch. *)

Die ==
    /\ running
    /\ running' = FALSE
    /\ step' = "idle"
    /\ op' = "none"
    /\ batch' = {}
    /\ status' = Nothing
    /\ listed' = NoCopies
    /\ current' = {}
    /\ UNCHANGED ghosts

Crash ==
    /\ Die
    /\ UNCHANGED files

CrashInAppend(written) ==
    /\ Die
    /\ step = "append"
    /\ written \subseteq batch
    /\ journal' = journal \cup written
    /\ UNCHANGED <<currentFile, historyFile, historyCopies>>

Persist ==
    \/ WriteCurrent
    \/ AppendJournal
    \/ WriteHistory
    \/ TruncateJournal

Next ==
    \/ Start
    \/ \E found \in SUBSET Detections : RecordInferenceResult(found)
    \/ \E d \in Detections : AddDetection(d)
    \/ Clear
    \/ Persist
    \/ Crash
    \/ \E written \in SUBSET Detections : CrashInAppend(written)

Spec == Init /\ [][Next]_vars

-----------------------------------------------------------------------------
(* Properties.                                                             *)

\* A restart shows the history the running dashboard shows: whenever the
\* lock is free, the files together hold exactly the detections in memory,
\* and current_detections.json the current ones (detection_manager.py,
\* _persist and the three loaders).
RestartShowsSameHistory ==
    Free => Held = Durable /\ current = currentFile

\* No detection is lost: from the moment current_detections.json names it,
\* some file holds it, through compactions, crashes in any write and
\* restarts, until clear() is called.
NothingLost == recorded \subseteq Durable

\* A run is recovered whole or not at all: a crash while its records are
\* appended to the journal never leaves a part of them.
RunsAreAtomic == run \subseteq Durable \/ run \cap Durable = {}

\* The history lists a detection once, although the snapshot, the journal
\* and the current snapshot overlap after a crash between their writes.
NoDuplicates ==
    \A d \in Detections : listed[d] <= 1 /\ historyCopies[d] <= 1

\* A clear() that returned is final: none of its detections comes back.
ErasedStaysErased == erased \cap (Held \cup Durable) = {}

\* On disk a closed detection is never open again.
ClosedStaysClosedOnDisk ==
    [][\A d \in Detections :
          historyFile[d] = "RESOLVED" => historyFile'[d] # "NEW"]_vars

\* The files implement the log.
Log == INSTANCE DetectionLog WITH log <- Durable, erasing <- (op = "clear")
ImplementsLog == Log!Spec

\* DetectionRecord promises "NEW for the latest inference and RESOLVED once
\* a newer inference replaces it" (detection_manager.py:47).
OnlyCurrentIsNew ==
    Free => \A d \in Detections : status[d] = "NEW" => d \in current
=============================================================================
