-------------------------- MODULE SessionStoreProofs --------------------------
(***************************************************************************)
(* Proofs about the life of the missions in SessionStore: which mission a  *)
(* restart would resume, for any number of calls and any length of time.   *)
(***************************************************************************)
EXTENDS SessionStore, TLAPS

\* The variables these proofs are about.
life == <<up, current, metadata, index, op, opStep, target, todo, open, stopped>>

Types ==
    /\ up \in BOOLEAN
    /\ second \in Sessions
    /\ current \in Sessions \cup {None}
    /\ metadata \in [Sessions -> Statuses]
    /\ index \in [Sessions -> Statuses]
    /\ op \in Operations
    /\ opStep \in OpSteps
    /\ target \in Sessions \cup {None}
    /\ todo \in SUBSET Sessions
    /\ open \in Sessions \cup {None}
    /\ stopped \in SUBSET Sessions

\* Where an operation may be, and what it works on.
LockInv ==
    /\ op = "none" <=> opStep = "idle"
    /\ op = "start" => /\ opStep \in {"metadata", "index", "refresh"}
                       /\ target \in Sessions
                       /\ current = target
    /\ op = "stop" => target \in Sessions /\ current = None
    /\ op = "flush" => opStep \in {"dump", "replace", "truncate"}
    /\ ~up => op = "none" /\ current = None

\* The files name the running mission except while a start or a stop is
\* between its two writes; then they name no other than the one it is about.
FileInv ==
    /\ up /\ op \in {"none", "flush"} => Resumable = {current} \ {None}
    /\ op = "start" =>
          CASE opStep = "metadata" -> Resumable = {}
            [] opStep = "index"    -> Resumable \subseteq {target} /\ metadata[target] = "RUNNING"
            [] OTHER               -> Resumable = {target}
    /\ op = "stop" =>
          IF opStep = "metadata" THEN Resumable = {target} ELSE Resumable = {}
    /\ AtMostOneResumable

\* What the operator was promised.
PromiseInv ==
    /\ open # None => Resumable = {open}
    /\ op = "stop" => open = None
    /\ \A s \in stopped : metadata[s] = "STOPPED"

LifeInv == Types /\ LockInv /\ FileInv /\ PromiseInv

LEMMA NoneIsNoSession == None \notin Sessions
BY SessionAssumption DEF Sessions

LEMMA FirstSecond == 1 \in Sessions
BY SessionAssumption DEF Sessions

\* Before the first start there is no mission at all.
LEMMA InitLife == Init => LifeInv
<1> SUFFICES ASSUME Init PROVE LifeInv
  OBVIOUS
<1>0. Resumable = {}
  BY DEF Init, Resumable
<1>1. Types
  BY FirstSecond DEF Init, Types, Statuses, Operations, OpSteps
<1>2. LockInv
  BY DEF Init, LockInv
<1>3. FileInv
  BY <1>0 DEF Init, FileInv, AtMostOneResumable
<1>4. PromiseInv
  BY DEF Init, PromiseInv
<1>5. QED
  BY <1>1, <1>2, <1>3, <1>4 DEF LifeInv

\* A step that leaves these variables alone keeps the invariant.
LEMMA LifeFrame ==
    ASSUME LifeInv, UNCHANGED life, second' \in Sessions
    PROVE  LifeInv'
<1>1. Resumable' = Resumable
  BY DEF life, Resumable
<1>2. QED
  BY <1>1 DEF LifeInv, Types, LockInv, FileInv, PromiseInv, AtMostOneResumable, life

LEMMA RestartLife == ASSUME LifeInv, Restart PROVE LifeInv'
<1>1. Resumable' = Resumable
  BY DEF Restart, files, Resumable
<1>2. current' \in Sessions \cup {None} /\ Resumable = {current'} \ {None}
  BY NoneIsNoSession DEF Restart, LifeInv, FileInv, AtMostOneResumable, Resumable
<1>3. QED
  BY <1>1, <1>2 DEF Restart, files, held, ghosts, LifeInv, Types, LockInv,
                    FileInv, PromiseInv, AtMostOneResumable

\* A start finds no mission, so the files name none either.
LEMMA StartLife ==
    ASSUME LifeInv, NEW who \in Detections \cup {None}, StartSession(who)
    PROVE  LifeInv'
<1>1. Resumable' = Resumable
  BY DEF StartSession, files, Resumable
<1>2. Resumable = {}
  BY DEF StartSession, Free, LifeInv, FileInv
<1>3. QED
  BY <1>1, <1>2 DEF StartSession, Free, files, ghosts, LifeInv, Types, LockInv,
                    FileInv, PromiseInv, AtMostOneResumable, Operations, OpSteps

LEMMA StopLife == ASSUME LifeInv, StopSession PROVE LifeInv'
<1>1. Resumable' = Resumable
  BY DEF StopSession, files, Resumable
<1>2. Resumable = {current} /\ current \in Sessions
  BY DEF StopSession, Free, LifeInv, FileInv, Types
<1>3. QED
  BY <1>1, <1>2 DEF StopSession, Free, files, LifeInv, Types, LockInv,
                    FileInv, PromiseInv, AtMostOneResumable, Operations, OpSteps

\* The first write of a stop takes the mission out, that of a start does not
\* bring another in.
LEMMA WriteMetadataLife == ASSUME LifeInv, WriteMetadata PROVE LifeInv'
<1> USE DEF WriteMetadata, NewStatus
<1>1. target \in Sessions /\ op \in {"start", "stop"}
  BY DEF LifeInv, LockInv, Types, Operations
<1>2. metadata' \in [Sessions -> Statuses] /\ metadata'[target] = NewStatus
  BY <1>1 DEF LifeInv, Types, Statuses
<1>3. \A s \in Sessions \ {target} : metadata'[s] = metadata[s]
  BY DEF LifeInv, Types
<1>4. CASE op = "start"
  <2>1. Resumable' \subseteq {target} /\ open = None
    BY <1>3, <1>4 DEF Resumable, LifeInv, FileInv, PromiseInv
  <2>2. PromiseInv'
    BY <1>2, <1>3, <1>4, <2>1 DEF LifeInv, Types, PromiseInv
  <2>3. QED
    BY <1>1, <1>2, <1>4, <2>1, <2>2 DEF LifeInv, Types, LockInv, FileInv,
       AtMostOneResumable, OpSteps
<1>5. CASE op = "stop"
  <2>1. Resumable' = {}
    BY <1>2, <1>3, <1>5 DEF Resumable, LifeInv, FileInv
  <2>2. PromiseInv'
    BY <1>1, <1>2, <1>3, <1>5 DEF LifeInv, Types, PromiseInv
  <2>3. QED
    BY <1>1, <1>2, <1>5, <2>1, <2>2 DEF LifeInv, Types, LockInv, FileInv,
       AtMostOneResumable, OpSteps
<1>6. QED
  BY <1>1, <1>4, <1>5

LEMMA WriteIndexLife == ASSUME LifeInv, WriteIndex PROVE LifeInv'
<1> USE DEF WriteIndex, NewStatus
<1>1. target \in Sessions /\ op \in {"start", "stop"}
  BY DEF LifeInv, LockInv, Types, Operations
<1>2. index' \in [Sessions -> Statuses] /\ index'[target] = NewStatus
  BY <1>1 DEF LifeInv, Types, Statuses
<1>3. \A s \in Sessions \ {target} : index'[s] = index[s]
  BY DEF LifeInv, Types
<1>4. CASE op = "start"
  <2>1. Resumable' = {target} /\ (open # None => open = target)
    BY <1>1, <1>2, <1>3, <1>4 DEF Resumable, LifeInv, FileInv, PromiseInv, Types
  <2>2. QED
    BY <1>1, <1>2, <1>4, <2>1 DEF ghosts, LifeInv, Types, LockInv, FileInv,
       PromiseInv, AtMostOneResumable, OpSteps
<1>5. CASE op = "stop"
  <2>1. Resumable' = {}
    BY <1>2, <1>3, <1>5 DEF Resumable, LifeInv, FileInv
  <2>2. QED
    BY <1>1, <1>2, <1>5, <2>1 DEF ghosts, LifeInv, Types, LockInv, FileInv,
       PromiseInv, AtMostOneResumable, OpSteps
<1>6. QED
  BY <1>1, <1>4, <1>5

LEMMA RefreshLife == ASSUME LifeInv, Refresh PROVE LifeInv'
<1>1. Resumable' = Resumable
  BY DEF Refresh, files, Resumable
<1>2. op \in {"start", "stop"}
  BY DEF Refresh, LifeInv, LockInv, Types, Operations
<1>3. CASE op = "start"
  BY <1>1, <1>3, NoneIsNoSession
  DEF Refresh, Release, files, LifeInv, Types, LockInv, FileInv, PromiseInv,
      AtMostOneResumable, Operations, OpSteps
<1>4. CASE op = "stop"
  BY <1>1, <1>4
  DEF Refresh, files, LifeInv, Types, LockInv, FileInv, PromiseInv,
      AtMostOneResumable, OpSteps
<1>5. QED
  BY <1>2, <1>3, <1>4

\* A compaction touches neither file.
LEMMA CompactLife ==
    ASSUME LifeInv, FlushAll \/ Dump \/ Replace \/ Truncate \/ Evict
    PROVE  LifeInv'
<1>1. Resumable' = Resumable
  BY DEF FlushAll, Dump, Replace, Truncate, Evict, files, Resumable
<1> USE <1>1 DEF LifeInv, Types, LockInv, FileInv, PromiseInv,
                 AtMostOneResumable, files, ghosts, Release, Operations, OpSteps
<1>2. CASE FlushAll
  BY <1>2 DEF FlushAll, Free
<1>3. CASE Dump
  BY <1>3 DEF Dump
<1>4. CASE Replace
  BY <1>4 DEF Replace
<1>5. CASE Truncate
  BY <1>5 DEF Truncate
<1>6. CASE Evict
  <2>1. op = "stop"
    BY <1>6 DEF Evict
  <2>2. Resumable = {} /\ current = None
    BY <1>6, <2>1 DEF Evict
  <2>3. QED
    BY <1>6, <2>1, <2>2 DEF Evict
<1>7. QED
  BY <1>2, <1>3, <1>4, <1>5, <1>6

\* A crash leaves both files as they are.
LEMMA CrashLife == ASSUME LifeInv, Die PROVE LifeInv'
<1>1. Resumable' = Resumable
  BY DEF Die, Resumable
<1>2. QED
  BY <1>1 DEF Die, LifeInv, Types, LockInv, FileInv, PromiseInv,
              AtMostOneResumable, Operations, OpSteps

LEMMA NextLife == LifeInv /\ [Next]_vars => LifeInv'
<1> SUFFICES ASSUME LifeInv, [Next]_vars PROVE LifeInv'
  OBVIOUS
<1>0. second \in Sessions
  BY DEF LifeInv, Types
<1>1. CASE Restart
  BY <1>1, RestartLife
<1>2. CASE Tick
  <2>1. second' \in Sessions
    BY <1>0, <1>2, SessionAssumption DEF Tick, Sessions
  <2>2. QED
    BY <1>2, <2>1, LifeFrame DEF Tick, files, held, ghosts, life
<1>3. CASE GetCurrentSession
  BY <1>0, <1>3, LifeFrame DEF GetCurrentSession, files, held, ghosts, life
<1>4. CASE StartSession(None)
  BY <1>4, StartLife
<1>5. CASE StopSession
  BY <1>5, StopLife
<1>6. CASE FlushAll
  BY <1>6, CompactLife
<1>7. CASE Locked
  BY <1>7, WriteMetadataLife, WriteIndexLife, RefreshLife, CompactLife DEF Locked
<1>8. ASSUME NEW d \in Detections, Record(d)
      PROVE  LifeInv'
  <2>1. CASE StartSession(d)
    BY <2>1, StartLife
  <2>2. CASE ~StartSession(d)
    <3>1. UNCHANGED <<life, second>>
      BY <1>8, <2>2 DEF Record, EnsureSession, JoinSession, GetCache, Install,
         Extend, Append, Flush, FlushReplace, FlushTruncate, Metrics, files,
         held, ghosts, life
    <3>2. QED
      BY <1>0, <3>1, LifeFrame
  <2>3. QED
    BY <2>1, <2>2
<1>9. CASE Crash \/ \E d \in Detections : CrashInAppend(d)
  BY <1>9, CrashLife DEF Crash, CrashInAppend
<1>10. CASE UNCHANGED vars
  BY <1>0, <1>10, LifeFrame DEF vars, files, held, ghosts, life
<1>11. QED
  BY <1>1, <1>2, <1>3, <1>4, <1>5, <1>6, <1>7, <1>8, <1>9, <1>10 DEF Next

-----------------------------------------------------------------------------

\* The inductive invariant holds in every reachable state: whatever the
\* unlocked calls do, and wherever a crash falls between metadata.json and
\* index.json.
THEOREM Invariance == Spec => []LifeInv
BY InitLife, NextLife, PTL DEF Spec

\* No crash leaves two missions that a restart could resume.
THEOREM OneMission == Spec => []AtMostOneResumable
<1>1. LifeInv => AtMostOneResumable
  BY DEF LifeInv, FileInv
<1>2. QED
  BY <1>1, Invariance, PTL

\* A mission whose start returned is the one a restart resumes, until a stop.
THEOREM Survival == Spec => []MissionSurvivesRestart
<1>1. LifeInv => MissionSurvivesRestart
  BY DEF LifeInv, FileInv, PromiseInv, Free, MissionSurvivesRestart
<1>2. QED
  BY <1>1, Invariance, PTL

\* A mission whose stop was written does not run again.
THEOREM StopFinality == Spec => []StopIsFinal
<1>1. ASSUME LifeInv PROVE StopIsFinal
  <2>1. CASE op = "stop"
    BY <1>1, <2>1, NoneIsNoSession DEF LifeInv, LockInv, Types, StopIsFinal
  <2>2. CASE ~up
    BY <1>1, <2>2, NoneIsNoSession DEF LifeInv, LockInv, Types, StopIsFinal
  <2>3. CASE up /\ op \in {"none", "flush"}
    BY <1>1, <2>3, NoneIsNoSession
    DEF LifeInv, FileInv, PromiseInv, Types, Resumable, StopIsFinal
  <2>4. QED
    BY <1>1, <2>1, <2>2, <2>3 DEF LifeInv, Types, Operations, StopIsFinal
<1>2. QED
  BY <1>1, Invariance, PTL
-----------------------------------------------------------------------------
(* The life of a mission.                                                  *)

\* A start keeps its mission by whichever of its two writes makes the files
\* agree, a stop forgets it by the first.
LEMMA WriteStep ==
    ASSUME LifeInv, WriteMetadata \/ WriteIndex
    PROVE  [Life!Next]_(Life!lifeVars)
<1> USE DEF Life!Next, Life!lifeVars, Life!Keep, Life!Forget
<1>1. LifeInv'
  BY WriteMetadataLife, WriteIndexLife
<1>2. /\ opStep \in {"metadata", "index"} /\ opStep' \in {"index", "refresh"}
      /\ opStep = "metadata" <=> opStep' = "index"
      /\ UNCHANGED <<up, current, op, target>>
  BY DEF WriteMetadata, WriteIndex
<1>3. op \in {"start", "stop"} /\ target \in Sessions /\ up
  BY <1>2 DEF LifeInv, LockInv, Types, Operations
<1>4. CASE op = "start"
  <2>1. Resumable \subseteq {target} /\ Resumable' \subseteq {target}
    BY <1>1, <1>2, <1>4 DEF LifeInv, FileInv
  <2>2. current = target /\ current # None
    BY <1>3, <1>4, NoneIsNoSession DEF LifeInv, LockInv
  <2>3. Resumable = {target} => Resumable' = {target}
    <3>1. opStep = "metadata" => Resumable = {}
      BY <1>4 DEF LifeInv, FileInv
    <3>2. opStep = "index" => Resumable' = {target}
      BY <1>1, <1>2, <1>4 DEF LifeInv, FileInv
    <3>3. QED
      BY <1>2, <3>1, <3>2
  <2>4. Resumable' = Resumable \/ (Resumable = {} /\ Resumable' = {target})
    BY <2>1, <2>3
  <2>5. QED
    BY <1>2, <2>2, <2>4
<1>5. CASE op = "stop"
  <2>1. current = None /\ Resumable' = {}
    BY <1>1, <1>2, <1>5 DEF LifeInv, LockInv, FileInv
  <2>2. QED
    BY <1>2, <1>3, <2>1
<1>6. QED
  BY <1>3, <1>4, <1>5

LEMMA LifeStep ==
    ASSUME LifeInv, [Next]_vars
    PROVE  [Life!Next]_(Life!lifeVars)
<1> USE DEF Life!Next, Life!lifeVars
<1>1. CASE WriteMetadata \/ WriteIndex
  BY <1>1, WriteStep
<1>2. CASE ~(WriteMetadata \/ WriteIndex)
  <2>1. Resumable' = Resumable
    <3>1. UNCHANGED <<metadata, index>>
      BY <1>2 DEF Next, Locked, Record, Restart, Tick, GetCurrentSession, StartSession,
         StopSession, FlushAll, Refresh, Dump, Replace, Truncate, Evict, EnsureSession,
         JoinSession, GetCache, Install, Extend, Append, Flush, FlushReplace,
         FlushTruncate, Metrics, Crash, CrashInAppend, Die, vars, files
    <3>2. QED
      BY <3>1 DEF Resumable
  <2>2. CASE Restart
    BY <2>1, <2>2 DEF Restart, Life!StartUp
  <2>3. ASSUME NEW who \in Detections \cup {None}, StartSession(who)
        PROVE  [Life!Next]_(Life!lifeVars)
    <3>1. Resumable = {} /\ second \in Sessions
      BY <2>3 DEF StartSession, Free, LifeInv, Types, FileInv
    <3>2. Life!Start(second)
      BY <2>1, <2>3, <3>1 DEF StartSession, Free, Life!Start
    <3>3. QED
      BY <3>1, <3>2
  <2>4. CASE StopSession
    <3>1. Resumable = {current}
      BY <2>4 DEF StopSession, Free, LifeInv, FileInv
    <3>2. QED
      BY <2>1, <2>4, <3>1 DEF StopSession, Life!Stop
  <2>5. CASE Crash \/ \E d \in Detections : CrashInAppend(d)
    BY <2>1, <2>5 DEF Crash, CrashInAppend, Die, Life!Die
  <2>6. CASE UNCHANGED <<up, current>>
    BY <2>1, <2>6
  <2>7. ASSUME NEW d \in Detections, Record(d), ~StartSession(d)
        PROVE  UNCHANGED <<up, current>>
    BY <2>7 DEF Record, EnsureSession, JoinSession, GetCache, Install, Extend, Append,
       Flush, FlushReplace, FlushTruncate, Metrics
  <2>8. CASE \/ Tick \/ GetCurrentSession \/ FlushAll \/ Refresh \/ Dump \/ Replace
             \/ Truncate \/ Evict \/ UNCHANGED vars
    BY <2>6, <2>8 DEF Tick, GetCurrentSession, FlushAll, Refresh, Dump, Replace,
       Truncate, Evict, vars
  <2>9. QED
    BY <1>2, <2>2, <2>3, <2>4, <2>5, <2>6, <2>7, <2>8 DEF Next, Locked, Record
<1>3. QED
  BY <1>1, <1>2

\* Whatever the calls and the polls do and wherever a crash falls, the two
\* files and the memory go through the life of a mission as MissionLife has it.
THEOREM Implementation == Spec => ImplementsLife
<1>1. Init => Life!Init
  BY DEF Init, Resumable, Life!Init
<1>2. LifeInv /\ [Next]_vars => [Life!Next]_(Life!lifeVars)
  BY LifeStep
<1>3. QED
  BY <1>1, <1>2, Invariance, PTL DEF Spec, ImplementsLife, Life!Spec

=============================================================================
