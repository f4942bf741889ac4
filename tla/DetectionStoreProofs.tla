------------------------ MODULE DetectionStoreProofs ------------------------
(***************************************************************************)
(* Proofs about DetectionStore, for any set of detections.                 *)
(*                                                                         *)
(* The properties are not inductive: what a crash may lose depends on how  *)
(* far _persist() is, so IInv says, for each step of it, where the files   *)
(* and the memory agree.                                                   *)
(***************************************************************************)
EXTENDS DetectionStore, TLAPS

\* A process that is down holds nothing; a step is under way for some call.
ProcessInv ==
    /\ step = "idle" <=> op = "none"
    /\ ~running => /\ step = "idle"
                   /\ status = Nothing
                   /\ listed = NoCopies
                   /\ current = {}
    /\ op \in {"load", "clear"} => batch = {}

\* The tables and the counts next to them agree; a current record is NEW.
TableInv ==
    /\ \A d \in Detections :
          /\ listed[d] = IF status[d] = Absent THEN 0 ELSE 1
          /\ historyCopies[d] = IF historyFile[d] = Absent THEN 0 ELSE 1
          /\ d \in current => status[d] = "NEW"
    /\ Held \subseteq used
    /\ Durable \subseteq used

\* Before current_detections.json is written the memory is ahead of the
\* files by the batch; afterwards it is not.
AgreeInv ==
    /\ running /\ op # "clear" /\ step = "current" => Held = Durable \cup batch
    /\ running /\ op # "clear" /\ step # "current" =>
          Held = Durable /\ current = currentFile
    /\ op = "load" => current = currentFile
    /\ op = "record" => batch \subseteq current
    /\ step = "truncate" => historyFile = status /\ historyCopies = listed

\* What current_detections.json names is in another file as well before the
\* next run replaces it.
CoverInv ==
    /\ running /\ (op = "none" \/ (op = "record" /\ step # "append")) =>
          currentFile \subseteq Folded \cup journal
    /\ op = "record" /\ step = "append" =>
          currentFile \subseteq Folded \cup journal \cup batch

\* A clear() has emptied the memory, and the files from the first on.
ClearInv ==
    op = "clear" => /\ Held = {}
                    /\ current = {}
                    /\ recorded = {}
                    /\ run = {}
                    /\ step # "current" => currentFile = {}

\* A detection closed on disk is not current, and not open in memory.
ClosedInv ==
    \A d \in Detections : historyFile[d] = "RESOLVED" =>
        d \notin currentFile /\ status[d] # "NEW"

GhostInv ==
    /\ erased \subseteq used
    /\ op = "record" /\ step = "current" => run = batch

IInv ==
    /\ TypeOK
    /\ ProcessInv
    /\ TableInv
    /\ AgreeInv
    /\ CoverInv
    /\ ClearInv
    /\ ClosedInv
    /\ GhostInv
    /\ NothingLost
    /\ RunsAreAtomic
    /\ ErasedStaysErased

-----------------------------------------------------------------------------

LEMMA InitIInv == Init => IInv
<1> SUFFICES ASSUME Init PROVE IInv
  OBVIOUS
<1> USE AbsentAssumption DEF Init, Nothing, NoCopies
<1>1. TypeOK
  BY DEF TypeOK, Statuses, Steps, Operations
<1>2. ProcessInv /\ TableInv
  BY DEF ProcessInv, TableInv, Held, Folded, Durable
<1>3. AgreeInv /\ CoverInv /\ ClearInv /\ ClosedInv /\ GhostInv
  BY DEF AgreeInv, CoverInv, ClearInv, ClosedInv, GhostInv, Statuses
<1>4. NothingLost /\ RunsAreAtomic /\ ErasedStaysErased
  BY DEF NothingLost, RunsAreAtomic, ErasedStaysErased
<1>5. QED
  BY <1>1, <1>2, <1>3, <1>4 DEF IInv

LEMMA StartIInv ==
  ASSUME IInv, Start
  PROVE  IInv'
<1> USE AbsentAssumption DEF IInv, Start, files, ghosts, Statuses
<1>1. TypeOK'
  BY DEF TypeOK, LoadedStatus, LoadedCopies, Steps, Operations
<1>2. Held' = Durable /\ Durable' = Durable
  BY <1>1 DEF TypeOK, Held, Durable, Folded, LoadedStatus
<1>3. ProcessInv'
  BY DEF ProcessInv
<1>4. TableInv'
  <2>1. \A d \in Detections :
          listed'[d] = IF status'[d] = Absent THEN 0 ELSE 1
    BY <1>1 DEF TypeOK, TableInv, LoadedCopies, LoadedStatus, Replayed,
                Restored, Folded
  <2>2. QED
    BY <1>1, <1>2, <2>1 DEF TypeOK, TableInv, Durable, Folded, LoadedStatus
<1>5. AgreeInv' /\ CoverInv' /\ ClearInv' /\ GhostInv'
  BY <1>2 DEF AgreeInv, CoverInv, ClearInv, GhostInv
<1>6. ClosedInv'
  BY <1>1 DEF TypeOK, ClosedInv, LoadedStatus
<1>7. NothingLost' /\ RunsAreAtomic' /\ ErasedStaysErased'
  BY <1>2 DEF NothingLost, RunsAreAtomic, ErasedStaysErased
<1>8. QED
  BY <1>1, <1>3, <1>4, <1>5, <1>6, <1>7

\* A run of fresh detections: only the memory changes, by the batch.
LEMMA RecordIInv ==
  ASSUME IInv, NEW found \in SUBSET Detections, RecordInferenceResult(found)
  PROVE  IInv'
<1> USE AbsentAssumption
    DEF IInv, RecordInferenceResult, Free, Fresh, files, Statuses
<1>1. TypeOK'
  BY DEF TypeOK, Steps, Operations
<1>2. Held' = Held \cup found /\ Durable' = Durable
  BY DEF TypeOK, TableInv, Held, Durable, Folded
<1>3. found \cap Durable = {} /\ found \cap Held = {}
  BY DEF TableInv
<1>4. op = "none" /\ Held = Durable
  BY DEF ProcessInv, AgreeInv
<1>5. ProcessInv' /\ AgreeInv' /\ GhostInv' /\ ClearInv'
  BY <1>2, <1>4 DEF ProcessInv, AgreeInv, GhostInv, ClearInv
<1>6. TableInv'
  <2>1. \A d \in found : status[d] = Absent
    BY <1>3 DEF Held
  <2>2. \A d \in Detections :
          listed'[d] = IF status'[d] = Absent THEN 0 ELSE 1
    BY <2>1, <1>1 DEF TypeOK, TableInv
  <2>3. QED
    BY <1>1, <1>2, <2>2 DEF TypeOK, TableInv
<1>7. CoverInv'
  BY <1>4 DEF CoverInv, Folded
<1>8. ClosedInv'
  BY <1>3 DEF TypeOK, ClosedInv, Durable, Folded
<1>9. NothingLost' /\ RunsAreAtomic' /\ ErasedStaysErased'
  BY <1>2, <1>3 DEF NothingLost, RunsAreAtomic, ErasedStaysErased, GhostInv
<1>10. QED
  BY <1>1, <1>5, <1>6, <1>7, <1>8, <1>9

LEMMA AddIInv ==
  ASSUME IInv, NEW new \in Detections, AddDetection(new)
  PROVE  IInv'
<1> USE AbsentAssumption DEF IInv, AddDetection, Free, Fresh, files, Statuses
<1>1. TypeOK'
  BY DEF TypeOK, Steps, Operations
<1>2. Held' = Held \cup {new} /\ Durable' = Durable
  BY DEF TypeOK, TableInv, Held, Durable, Folded
<1>3. new \notin Durable /\ new \notin Held
  BY DEF TableInv
<1>4. op = "none" /\ Held = Durable
  BY DEF ProcessInv, AgreeInv
<1>5. ProcessInv' /\ AgreeInv' /\ GhostInv' /\ ClearInv'
  BY <1>2, <1>4 DEF ProcessInv, AgreeInv, GhostInv, ClearInv
<1>6. TableInv'
  <2>1. status[new] = Absent
    BY <1>3 DEF Held
  <2>2. \A d \in Detections :
          listed'[d] = IF status'[d] = Absent THEN 0 ELSE 1
    BY <2>1, <1>1 DEF TypeOK, TableInv
  <2>3. QED
    BY <1>1, <1>2, <2>2 DEF TypeOK, TableInv
<1>7. CoverInv'
  BY <1>4 DEF CoverInv, Folded
<1>8. ClosedInv'
  BY <1>3 DEF TypeOK, ClosedInv, Durable, Folded
<1>9. NothingLost' /\ RunsAreAtomic' /\ ErasedStaysErased'
  BY <1>2, <1>3 DEF NothingLost, RunsAreAtomic, ErasedStaysErased, GhostInv
<1>10. QED
  BY <1>1, <1>5, <1>6, <1>7, <1>8, <1>9

\* clear() empties the memory first; the files still hold everything.
LEMMA ClearIInv ==
  ASSUME IInv, Clear
  PROVE  IInv'
<1> USE AbsentAssumption
    DEF IInv, Clear, Free, files, Statuses, Nothing, NoCopies
<1>1. TypeOK'
  BY DEF TypeOK, Steps, Operations
<1>2. Held' = {} /\ Durable' = Durable
  BY DEF Held, Durable, Folded
<1>3. ProcessInv' /\ AgreeInv' /\ GhostInv' /\ ClearInv' /\ CoverInv'
  BY <1>2 DEF ProcessInv, AgreeInv, GhostInv, ClearInv, CoverInv
<1>4. TableInv'
  BY <1>2 DEF TypeOK, TableInv
<1>5. ClosedInv'
  BY DEF TypeOK, ClosedInv
<1>6. NothingLost' /\ RunsAreAtomic' /\ ErasedStaysErased'
  BY <1>2 DEF NothingLost, RunsAreAtomic, ErasedStaysErased
<1>7. QED
  BY <1>1, <1>3, <1>4, <1>5, <1>6

-----------------------------------------------------------------------------

\* Writing current_detections.json makes the batch durable, and drops
\* nothing that is not kept elsewhere.
LEMMA WriteCurrentDurable ==
  ASSUME IInv, WriteCurrent
  PROVE  /\ op = "record" => Durable' = Durable \cup batch
         /\ op = "load" => Durable' = Durable
         /\ op = "clear" => Durable' \subseteq Durable
<1> USE DEF IInv, WriteCurrent
<1>0. Folded' = Folded
  BY DEF Folded
<1>1. CASE op = "record"
  <2>1. /\ running
        /\ currentFile \subseteq Folded \cup journal
        /\ Held = Durable \cup batch
        /\ batch \subseteq current
    BY <1>1 DEF ProcessInv, CoverInv, AgreeInv
  <2>2. current \subseteq Held
    BY AbsentAssumption DEF TypeOK, TableInv, Held, Statuses
  <2>3. QED
    BY <1>0, <1>1, <2>1, <2>2 DEF Durable
<1>2. CASE op = "load"
  BY <1>0, <1>2 DEF AgreeInv, Durable
<1>3. CASE op = "clear"
  BY <1>0, <1>3 DEF ClearInv, Durable
<1>4. QED
  BY <1>1, <1>2, <1>3

LEMMA WriteCurrentIInv ==
  ASSUME IInv, WriteCurrent
  PROVE  IInv'
<1> USE DEF IInv, WriteCurrent, memory
<1>0. running /\ op \in {"load", "record", "clear"}
  BY DEF TypeOK, ProcessInv, Operations
<1>1. TypeOK'
  BY DEF TypeOK, Steps
<1>2. Held' = Held /\ Folded' = Folded
  BY DEF Held, Folded
<1>3. /\ op = "record" => Durable' = Durable \cup batch
      /\ op = "load" => Durable' = Durable
      /\ op = "clear" => Durable' \subseteq Durable
  BY WriteCurrentDurable
<1>4. op # "clear" => Held = Durable \cup batch
  BY <1>0 DEF AgreeInv
<1>5. op \in {"load", "clear"} => batch = {}
  BY DEF ProcessInv
<1>6. ProcessInv'
  BY DEF ProcessInv
<1>7. TableInv'
  BY <1>0, <1>2, <1>3, <1>4, <1>5 DEF TableInv
<1>8. AgreeInv'
  BY <1>0, <1>2, <1>3, <1>4, <1>5 DEF AgreeInv
<1>9. CoverInv'
  <2>1. ASSUME op = "record"
        PROVE  current \subseteq Folded \cup journal \cup batch
    <3>1. current \subseteq Held
      BY AbsentAssumption DEF TypeOK, TableInv, Held, Statuses
    <3>2. currentFile \subseteq Folded \cup journal
      BY <1>0, <2>1 DEF CoverInv
    <3>3. QED
      BY <1>4, <2>1, <3>1, <3>2 DEF Durable
  <2>2. QED
    BY <1>0, <1>2, <2>1 DEF CoverInv
<1>10. ClearInv'
  BY <1>2, <1>5 DEF ClearInv
<1>11. ClosedInv'
  BY DEF ClosedInv, TypeOK, TableInv
<1>12. GhostInv'
  BY DEF GhostInv
<1>13. NothingLost'
  BY <1>0, <1>3, <1>5 DEF NothingLost, ClearInv
<1>14. RunsAreAtomic'
  BY <1>0, <1>3 DEF RunsAreAtomic, ClearInv, GhostInv
<1>15. ErasedStaysErased'
  BY <1>0, <1>2, <1>3, <1>4 DEF ErasedStaysErased
<1>16. QED
  BY <1>1, <1>6, <1>7, <1>8, <1>9, <1>10, <1>11, <1>12, <1>13, <1>14, <1>15

\* What is appended is in current_detections.json already.
LEMMA AppendDurable ==
  ASSUME IInv, step = "append", NEW written \in SUBSET batch
  PROVE  Folded \cup (journal \cup written) \cup currentFile = Durable
<1>1. CASE op = "record"
  <2>1. batch \subseteq currentFile
    BY <1>1 DEF IInv, ProcessInv, AgreeInv
  <2>2. QED
    BY <2>1 DEF Durable
<1>2. CASE op # "record"
  <2>1. batch = {}
    BY <1>2 DEF IInv, TypeOK, ProcessInv, Operations
  <2>2. QED
    BY <2>1 DEF Durable
<1>3. QED
  BY <1>1, <1>2

LEMMA AppendIInv ==
  ASSUME IInv, AppendJournal
  PROVE  IInv'
<1> USE DEF IInv, AppendJournal, Skips, memory, ghosts
<1>0. running /\ op \in {"load", "record", "clear"}
  BY DEF TypeOK, ProcessInv, Operations
<1>1. TypeOK'
  BY DEF TypeOK, Steps, Operations
<1>2. Held' = Held /\ Folded' = Folded
  BY DEF Held, Folded
<1>3. Durable' = Durable
  BY <1>2, AppendDurable DEF Durable
<1>4. ProcessInv' /\ AgreeInv' /\ GhostInv'
  BY <1>0, <1>2, <1>3 DEF ProcessInv, AgreeInv, GhostInv
<1>5. CoverInv'
  BY <1>0, <1>2 DEF CoverInv
<1>6. TableInv' /\ ClearInv' /\ ClosedInv'
  BY <1>0, <1>2, <1>3 DEF TableInv, ClearInv, ClosedInv
<1>7. NothingLost' /\ RunsAreAtomic' /\ ErasedStaysErased'
  BY <1>2, <1>3 DEF NothingLost, RunsAreAtomic, ErasedStaysErased
<1>8. QED
  BY <1>1, <1>4, <1>5, <1>6, <1>7

\* The snapshot takes in all of the memory, or nothing in a clear().
LEMMA WriteHistoryIInv ==
  ASSUME IInv, WriteHistory
  PROVE  /\ IInv'
         /\ op # "clear" => Durable' = Durable
         /\ op = "clear" => Durable' \subseteq Durable
<1> USE DEF IInv, WriteHistory, memory, ghosts
<1>0. running /\ op \in {"load", "record", "clear"}
  BY DEF TypeOK, ProcessInv, Operations
<1>1. TypeOK'
  BY DEF TypeOK, Steps
<1>2. Held' = Held /\ Folded' = Held
  BY DEF Held, Folded
<1>3. op # "clear" => Durable' = Durable
  BY <1>0, <1>2 DEF AgreeInv, Durable
<1>4. op = "clear" => Durable' \subseteq Durable
  BY <1>2 DEF ClearInv, Durable
<1>5. ProcessInv' /\ AgreeInv' /\ GhostInv'
  BY <1>0, <1>2, <1>3 DEF ProcessInv, AgreeInv, GhostInv
<1>6. CoverInv'
  BY <1>0, <1>2, <1>3 DEF CoverInv, AgreeInv, Durable
<1>7. TableInv'
  BY <1>2, <1>3, <1>4 DEF TypeOK, TableInv
<1>8. ClearInv'
  BY <1>2 DEF ClearInv
<1>9. ClosedInv'
  BY <1>0, AbsentAssumption
  DEF ClosedInv, TableInv, AgreeInv, ClearInv, TypeOK, Statuses
<1>10. NothingLost' /\ RunsAreAtomic' /\ ErasedStaysErased'
  BY <1>2, <1>3, <1>4 DEF NothingLost, RunsAreAtomic, ErasedStaysErased,
                          ClearInv
<1>11. QED
  BY <1>1, <1>3, <1>4, <1>5, <1>6, <1>7, <1>8, <1>9, <1>10

\* The journal goes once the snapshot is the memory.
LEMMA TruncateIInv ==
  ASSUME IInv, TruncateJournal
  PROVE  /\ IInv'
         /\ op # "clear" => Durable' = Durable
         /\ op = "clear" => Durable' = {}
<1> USE DEF IInv, TruncateJournal, memory
<1>0. running /\ op \in {"load", "record", "clear"}
  BY DEF TypeOK, ProcessInv, Operations
<1>1. TypeOK'
  BY DEF TypeOK, Steps, Operations
<1>2. Held' = Held /\ Folded' = Folded /\ Folded = Held
  BY DEF Held, Folded, AgreeInv
<1>3. op # "clear" => Durable' = Durable
  BY <1>0, <1>2 DEF AgreeInv, Durable
<1>4. op = "clear" => Durable' = {}
  BY <1>2 DEF ClearInv, Durable
<1>5. ProcessInv' /\ GhostInv'
  BY <1>0 DEF ProcessInv, GhostInv
<1>6. AgreeInv'
  BY <1>0, <1>2, <1>3, <1>4 DEF AgreeInv, ClearInv
<1>7. CoverInv'
  BY <1>0, <1>2, <1>3, <1>4 DEF CoverInv, Durable, AgreeInv, ClearInv
<1>8. TableInv' /\ ClearInv' /\ ClosedInv'
  BY <1>0, <1>2, <1>3, <1>4 DEF TableInv, ClearInv, ClosedInv
<1>9. NothingLost' /\ RunsAreAtomic'
  BY <1>2, <1>3, <1>4 DEF NothingLost, RunsAreAtomic, ClearInv
<1>10. ErasedStaysErased'
  BY <1>2, <1>3, <1>4 DEF ErasedStaysErased, ClearInv
<1>11. QED
  BY <1>1, <1>3, <1>4, <1>5, <1>6, <1>7, <1>8, <1>9, <1>10

-----------------------------------------------------------------------------

\* A crash loses the memory only; a torn append adds nothing new.
LEMMA DieIInv ==
  ASSUME IInv, Die, Durable' = Durable, journal' \in SUBSET Detections,
         UNCHANGED <<currentFile, historyFile, historyCopies>>
  PROVE  IInv'
<1> USE DEF IInv, Die, Nothing, NoCopies, ghosts
<1>1. TypeOK'
  BY DEF TypeOK, Steps, Operations
<1>2. Held' = {}
  BY DEF Held
<1>3. ProcessInv' /\ AgreeInv' /\ CoverInv' /\ ClearInv' /\ GhostInv'
  BY DEF ProcessInv, AgreeInv, CoverInv, ClearInv, GhostInv, Nothing, NoCopies
<1>4. TableInv' /\ ClosedInv'
  BY <1>2, AbsentAssumption DEF TableInv, ClosedInv, Statuses
<1>5. NothingLost' /\ RunsAreAtomic' /\ ErasedStaysErased'
  BY <1>2 DEF NothingLost, RunsAreAtomic, ErasedStaysErased
<1>6. QED
  BY <1>1, <1>3, <1>4, <1>5

LEMMA CrashIInv ==
  ASSUME IInv, Crash
  PROVE  IInv' /\ Durable' = Durable
<1>1. Durable' = Durable /\ journal' \in SUBSET Detections
  BY DEF Crash, files, Durable, Folded, IInv, TypeOK
<1>2. QED
  BY <1>1, DieIInv DEF Crash, files

LEMMA CrashInAppendIInv ==
  ASSUME IInv, NEW written \in SUBSET Detections, CrashInAppend(written)
  PROVE  IInv' /\ Durable' = Durable
<1> USE DEF CrashInAppend
<1>1. Folded' = Folded
  BY DEF Folded
<1>2. Durable' = Durable
  BY <1>1, AppendDurable DEF Durable
<1>3. journal' \in SUBSET Detections
  BY DEF IInv, TypeOK
<1>4. QED
  BY <1>2, <1>3, DieIInv

LEMMA StutterIInv ==
  ASSUME IInv, UNCHANGED vars
  PROVE  IInv' /\ Durable' = Durable
BY DEF vars, memory, files, ghosts, IInv, TypeOK, ProcessInv, TableInv,
       AgreeInv, CoverInv, ClearInv, ClosedInv, GhostInv, NothingLost,
       RunsAreAtomic, ErasedStaysErased, Held, Folded, Durable

LEMMA NextIInv == IInv /\ [Next]_vars => IInv'
<1> SUFFICES ASSUME IInv, [Next]_vars PROVE IInv'
  OBVIOUS
<1>1. CASE Start
  BY <1>1, StartIInv
<1>2. ASSUME NEW found \in SUBSET Detections, RecordInferenceResult(found)
      PROVE  IInv'
  BY <1>2, RecordIInv
<1>3. ASSUME NEW d \in Detections, AddDetection(d)
      PROVE  IInv'
  BY <1>3, AddIInv
<1>4. CASE Clear
  BY <1>4, ClearIInv
<1>5. CASE WriteCurrent
  BY <1>5, WriteCurrentIInv
<1>6. CASE AppendJournal
  BY <1>6, AppendIInv
<1>7. CASE WriteHistory
  BY <1>7, WriteHistoryIInv
<1>8. CASE TruncateJournal
  BY <1>8, TruncateIInv
<1>9. CASE Crash
  BY <1>9, CrashIInv
<1>10. ASSUME NEW written \in SUBSET Detections, CrashInAppend(written)
       PROVE  IInv'
  BY <1>10, CrashInAppendIInv
<1>11. CASE UNCHANGED vars
  BY <1>11, StutterIInv
<1>12. QED
  BY <1>1, <1>2, <1>3, <1>4, <1>5, <1>6, <1>7, <1>8, <1>9, <1>10, <1>11
  DEF Next, Persist

-----------------------------------------------------------------------------

\* The inductive invariant holds in every reachable state, for any set of
\* detections (every write of detection_manager.py, every crash point).
THEOREM Invariance == Spec => []IInv
BY InitIInv, NextIInv, PTL DEF Spec

\* Every variable keeps its type: the loaders build tables the operations
\* accept, whatever a crash left in the files.
THEOREM TypeCorrect == Spec => []TypeOK
BY Invariance, PTL DEF IInv

\* No detection that was recorded is lost by a crash or a compaction.
THEOREM Durability == Spec => []NothingLost
BY Invariance, PTL DEF IInv

\* The detections of one run are recovered together or not at all.
THEOREM RunAtomicity == Spec => []RunsAreAtomic
BY Invariance, PTL DEF IInv

\* A completed clear() is final.
THEOREM ErasureIsFinal == Spec => []ErasedStaysErased
BY Invariance, PTL DEF IInv

\* The history never lists a detection twice, in memory or on disk.
THEOREM Uniqueness == Spec => []NoDuplicates
<1>1. IInv => NoDuplicates
  <2>1. ASSUME TableInv, NEW d \in Detections
        PROVE  listed[d] \in {0, 1} /\ historyCopies[d] \in {0, 1}
    BY <2>1 DEF TableInv
  <2>2. \A n \in {0, 1} : n <= 1
    OBVIOUS
  <2>3. QED
    BY <2>1, <2>2 DEF IInv, NoDuplicates
<1>2. QED
  BY <1>1, Invariance, PTL

\* When no call is being served, the files hold what the memory holds.
THEOREM RestartFidelity == Spec => []RestartShowsSameHistory
<1>1. IInv => RestartShowsSameHistory
  BY DEF IInv, ProcessInv, AgreeInv, RestartShowsSameHistory, Free
<1>2. QED
  BY <1>1, Invariance, PTL

\* A detection closed on disk is never written open again.
THEOREM ClosedForGood == Spec => ClosedStaysClosedOnDisk
<1> DEFINE Keeps == \A d \in Detections :
              historyFile[d] = "RESOLVED" => historyFile'[d] # "NEW"
<1>1. IInv /\ [Next]_vars => Keeps \/ UNCHANGED vars
  <2> SUFFICES ASSUME IInv, Next PROVE Keeps
    BY DEF vars
  <2>1. CASE WriteHistory
    BY <2>1 DEF WriteHistory, IInv, ClosedInv
  <2>2. CASE ~WriteHistory
    <3>1. UNCHANGED historyFile
      BY <2>2 DEF Next, Persist, Start, RecordInferenceResult, AddDetection,
                  Clear, WriteCurrent, AppendJournal, TruncateJournal, Crash,
                  CrashInAppend, files
    <3>2. QED
      BY <3>1
  <2>3. QED
    BY <2>1, <2>2
<1>2. QED
  BY <1>1, Invariance, PTL DEF Spec, ClosedStaysClosedOnDisk

\* Each step of the manager is a step of the log it implements.
LEMMA StepImplements ==
  ASSUME IInv, [Next]_vars
  PROVE  [Log!Next]_(Log!logVars)
<1> USE DEF Log!Next, Log!logVars
<1> DEFINE Same == Durable' = Durable /\ (op = "clear")' = (op = "clear")
<1>0. Same => UNCHANGED Log!logVars
  OBVIOUS
<1>1. CASE Start
  <2>1. Durable' = Durable
    BY <1>1 DEF Start, files, Durable, Folded
  <2>2. (op = "clear")' = (op = "clear")
    BY <1>1 DEF Start, IInv, ProcessInv
  <2>3. QED
    BY <2>1, <2>2, <1>0
<1>2. ASSUME NEW found \in SUBSET Detections, RecordInferenceResult(found)
      PROVE  Same
  BY <1>2 DEF RecordInferenceResult, files, Durable, Folded, Free, IInv,
              ProcessInv
<1>3. ASSUME NEW d \in Detections, AddDetection(d)
      PROVE  Same
  BY <1>3 DEF AddDetection, files, Durable, Folded, Free, IInv, ProcessInv
<1>4. CASE Clear
  <2>1. Log!BeginErase
    BY <1>4 DEF Clear, Log!BeginErase, files, Durable, Folded, Free, IInv,
                ProcessInv
  <2>2. QED
    BY <2>1
<1>5. CASE WriteCurrent
  <2>0. op \in {"load", "record", "clear"} /\ op' = op
    BY <1>5 DEF WriteCurrent, IInv, TypeOK, ProcessInv, Operations
  <2>1. CASE op = "record"
    <3>1. Log!Record(batch)
      BY <1>5, <2>0, <2>1, WriteCurrentDurable DEF Log!Record
    <3>2. QED
      BY <3>1 DEF IInv, TypeOK
  <2>2. CASE op = "clear"
    <3>1. Log!Erase
      BY <1>5, <2>0, <2>2, WriteCurrentDurable DEF Log!Erase
    <3>2. QED
      BY <3>1
  <2>3. CASE op = "load"
    BY <1>0, <1>5, <2>0, <2>3, WriteCurrentDurable
  <2>4. QED
    BY <2>0, <2>1, <2>2, <2>3
<1>6. CASE AppendJournal
  <2>1. Durable' = Durable
    BY <1>6, AppendDurable DEF AppendJournal, Durable, Folded
  <2>2. (op = "clear")' = (op = "clear")
    BY <1>6 DEF AppendJournal, Skips
  <2>3. QED
    BY <2>1, <2>2, <1>0
<1>7. CASE WriteHistory
  <2>0. op' = op
    BY <1>7 DEF WriteHistory
  <2>1. CASE op = "clear"
    <3>1. Log!Erase
      BY <1>7, <2>0, <2>1, WriteHistoryIInv DEF Log!Erase
    <3>2. QED
      BY <3>1
  <2>2. CASE op # "clear"
    BY <1>0, <1>7, <2>0, <2>2, WriteHistoryIInv
  <2>3. QED
    BY <2>1, <2>2
<1>8. CASE TruncateJournal
  <2>0. op' = "none"
    BY <1>8 DEF TruncateJournal
  <2>1. CASE op = "clear"
    <3>1. Log!EndErase
      BY <1>8, <2>0, <2>1, TruncateIInv DEF Log!EndErase
    <3>2. QED
      BY <3>1
  <2>2. CASE op # "clear"
    BY <1>0, <1>8, <2>0, <2>2, TruncateIInv
  <2>3. QED
    BY <2>1, <2>2
<1>9. ASSUME Die, Durable' = Durable
      PROVE  [Log!Next]_(Log!logVars)
  <2>0. op' = "none"
    BY <1>9 DEF Die
  <2>1. CASE op = "clear"
    <3>1. Log!AbandonErase
      BY <1>9, <2>0, <2>1 DEF Log!AbandonErase
    <3>2. QED
      BY <3>1
  <2>2. CASE op # "clear"
    BY <1>0, <1>9, <2>0, <2>2
  <2>3. QED
    BY <2>1, <2>2
<1>10. CASE Crash
  BY <1>9, <1>10, CrashIInv DEF Crash
<1>11. ASSUME NEW written \in SUBSET Detections, CrashInAppend(written)
       PROVE  [Log!Next]_(Log!logVars)
  BY <1>9, <1>11, CrashInAppendIInv DEF CrashInAppend
<1>12. CASE UNCHANGED vars
  <2>1. Same
    BY <1>12, StutterIInv DEF vars
  <2>2. QED
    BY <2>1, <1>0
<1>13. QED
  BY <1>0, <1>1, <1>2, <1>3, <1>4, <1>5, <1>6, <1>7, <1>8, <1>10, <1>11,
     <1>12 DEF Next, Persist

\* The three files, with crashes between any of their writes, implement the
\* log that grows by whole runs and shrinks only in a clear().
THEOREM Implementation == Spec => ImplementsLog
<1>1. Init => Log!Init
  BY DEF Init, Log!Init, Durable, Folded, Nothing
<1>2. IInv /\ [Next]_vars => [Log!Next]_(Log!logVars)
  BY StepImplements
<1>3. QED
  BY <1>1, <1>2, Invariance, PTL DEF Spec, ImplementsLog, Log!Spec
=============================================================================
