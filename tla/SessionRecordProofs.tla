-------------------------- MODULE SessionRecordProofs --------------------------
(***************************************************************************)
(* Proofs about the detections in SessionStore: what a mission keeps of a  *)
(* call that overlapped no other, for any number of calls and missions.    *)
(* They build on the life of the missions (LifeInv).                       *)
(***************************************************************************)
EXTENDS SessionStoreProofs

\* TypeOK but for what LifeInv says, and who waits for whom.
RecordTypes ==
    /\ snapshot \in [Sessions -> Lists]
    /\ journal \in [Sessions -> Lists]
    /\ torn \in [Sessions -> BOOLEAN]
    /\ cache \in [Sessions -> Lists \cup {None}]
    /\ opFor \in Detections \cup {None}
    /\ dump \in Lists
    /\ step \in [Detections -> Steps]
    /\ home \in [Detections -> Sessions \cup {None}]
    /\ live \in SUBSET Detections
    /\ payload \in [Detections -> Lists]
    /\ recorded \in SUBSET Detections
    /\ overlapped \in SUBSET Detections
    /\ glued \in SUBSET Detections
    /\ straddled \in SUBSET Detections
    /\ \A d \in Detections : step[d] \in AtHome => home[d] \in Sessions
    /\ opFor # None => op = "start" /\ step[opFor] = "start"

\* A compaction under the lock has a list to write, now and for the missions
\* still to do, and a call that holds the list of its mission holds a list.
ListInv ==
    /\ opStep \in {"dump", "replace", "truncate"} =>
          target \in Sessions /\ cache[target] # None
    /\ op = "flush" => \A s \in todo : cache[s] # None
    /\ \A d \in live : step[d] = "extend" /\ cache[home[d]] # None

Carrying == {"install", "reload", "replace"}

Writing == {"replace", "truncate"}

Early == {"idle", "start", "get", "install", "extend"}

Absent(d) ==
    /\ \A s \in Sessions : /\ snapshot[s][d] = 0
                           /\ journal[s][d] = 0
                           /\ cache[s] # None => cache[s][d] = 0
    /\ dump[d] = 0
    /\ \A c \in Detections : payload[c][d] = 0

\* A call that has not extended its list yet is nowhere.
EarlyInv ==
    \A d \in Detections : step[d] \in Early => Absent(d) /\ d \notin recorded

\* A call that overlaps nothing has the manager for itself; only a start may
\* run beside it.
AloneInv ==
    \A d \in Detections \ overlapped :
        d \in InProgress =>
            /\ \A c \in Detections \ {d} : step[c] \in {"idle", "done"}
            /\ op \in {"none", "start"}

\* So the list it extends is the one the others will find, and is not written
\* before the call appends to the journal.
HoldsInv ==
    \A d \in Detections \ overlapped :
        /\ step[d] = "extend" => d \in live
        /\ step[d] = "append" =>
              /\ cache[home[d]] # None
              /\ cache[home[d]][d] = 1
              /\ \A s \in Sessions : snapshot[s][d] = 0 /\ journal[s][d] = 0

\* A recorded detection is in every copy of the list that may yet become the
\* files: a compaction that replaces the snapshot does not take it out, and
\* the journal is emptied after a snapshot that has it.
Safe(d) ==
    /\ home[d] \in Sessions
    /\ step[d] \notin Early \cup {"append"}
    /\ snapshot[home[d]][d] # 0 \/ journal[home[d]][d] # 0
    /\ cache[home[d]] # None => cache[home[d]][d] # 0
    /\ target = home[d] => /\ opStep = "replace" => dump[d] # 0
                           /\ opStep = "truncate" => snapshot[home[d]][d] # 0
    /\ \A c \in Detections : home[c] = home[d] =>
          /\ step[c] \in Carrying => payload[c][d] # 0
          /\ step[c] = "truncate" => snapshot[home[d]][d] # 0

SafeInv == \A d \in recorded \ (overlapped \cup glued) : Safe(d)

\* A compaction of mission s is between its two writes.
Between(s) ==
    \/ opStep = "truncate" /\ target = s
    \/ \E c \in Detections : step[c] = "truncate" /\ home[c] = s

\* The files of mission s count detection d once, except between the two
\* writes of a compaction; and then nobody reads them, for the list is in
\* memory until the journal is empty.
Once(d, s) ==
    /\ snapshot[s][d] \in {0, 1}
    /\ journal[s][d] \in {0, 1}
    /\ snapshot[s][d] = 0 \/ journal[s][d] = 0 \/ Between(s)
    /\ cache[s] # None => cache[s][d] \in {0, 1}
    /\ cache[s] = None =>
          /\ snapshot[s][d] = 0 \/ journal[s][d] = 0
          /\ \A c \in Detections :
                step[c] = "replace" /\ home[c] = s => journal[s][d] = 0
    /\ opStep = "evict" /\ target = s => journal[s][d] = 0

OnceInv ==
    \A d \in Detections \ (overlapped \cup straddled) :
        /\ \A s \in Sessions : Once(d, s)
        /\ dump[d] \in {0, 1}
        /\ \A c \in Detections : payload[c][d] \in {0, 1}

RecordInv ==
    /\ RecordTypes
    /\ ListInv
    /\ EarlyInv
    /\ AloneInv
    /\ HoldsInv
    /\ SafeInv
    /\ OnceInv

IInv == LifeInv /\ RecordInv

-----------------------------------------------------------------------------
(* Lists.                                                                  *)

LEMMA NoneIsNoList == None \notin Lists
BY SessionAssumption DEF Lists, Copies

\* Copies add up to none only when there are none.
LEMMA PlusCopies ==
    ASSUME NEW m \in Copies, NEW n \in Copies
    PROVE  /\ Plus(m, n) \in Copies
           /\ Plus(m, n) = 0 <=> m = 0 /\ n = 0
BY DEF Copies, Plus

\* One more of c leaves the others alone.
LEMMA OneMore ==
    ASSUME NEW list \in Lists, NEW c \in Detections
    PROVE  /\ More(list, c) \in Lists
           /\ \A d \in Detections \ {c} : More(list, c)[d] = list[d]
           /\ More(list, c)[c] = Plus(list[c], 1)
<1>1. list[c] \in Copies /\ 1 \in Copies
  BY DEF Lists, Copies
<1>2. Plus(list[c], 1) \in Copies
  BY <1>1, PlusCopies
<1>3. QED
  BY <1>2 DEF Lists, More

LEMMA FilesGive ==
    ASSUME RecordTypes, NEW s \in Sessions
    PROVE  /\ ReadFiles(s) \in Lists
           /\ \A d \in Detections :
                 /\ ReadFiles(s)[d] \in Nat
                 /\ ReadFiles(s)[d] = 0 <=> snapshot[s][d] = 0 /\ journal[s][d] = 0
<1>1. \A d \in Detections : snapshot[s][d] \in Copies /\ journal[s][d] \in Copies
  BY DEF RecordTypes, Lists
<1>2. ReadFiles(s) = [d \in Detections |-> Plus(snapshot[s][d], journal[s][d])]
  BY DEF ReadFiles
<1>3. ReadFiles(s) \in Lists
  BY <1>1, <1>2, PlusCopies DEF Lists
<1>4. ASSUME NEW d \in Detections
      PROVE  /\ ReadFiles(s)[d] \in Nat
             /\ ReadFiles(s)[d] = 0 <=> snapshot[s][d] = 0 /\ journal[s][d] = 0
  <2>1. ReadFiles(s)[d] = Plus(snapshot[s][d], journal[s][d])
    BY <1>2
  <2>2. \A n \in Copies : n \in Nat
    BY DEF Copies
  <2>3. QED
    BY <1>1, <2>1, <2>2, PlusCopies
<1>5. QED
  BY <1>3, <1>4

\* What the types say of the single counts.
LEMMA Counts ==
    ASSUME RecordTypes, NEW d \in Detections
    PROVE  /\ \A s \in Sessions : /\ snapshot[s][d] \in 0 .. 2
                                  /\ journal[s][d] \in 0 .. 2
                                  /\ cache[s] # None => cache[s][d] \in 0 .. 2
           /\ dump[d] \in 0 .. 2
           /\ \A c \in Detections : payload[c][d] \in 0 .. 2
BY DEF RecordTypes, Lists, Copies

\* A list that is in memory stays; one that is not is what the files give.
LEMMA LoadedGives ==
    ASSUME RecordTypes, NEW s \in Sessions, Loaded(s)
    PROVE  /\ cache'[s] # None
           /\ \A q \in Sessions :
                 \/ cache'[q] = cache[q]
                 \/ cache[q] = None /\ q = s /\ cache'[q] = ReadFiles(q)
<1>1. ReadFiles(s) # None
  BY FilesGive, NoneIsNoList
<1>2. QED
  BY <1>1 DEF RecordTypes, Loaded

\* One of the two files has the detection once at most, the other not at all.
LEMMA OnceRead ==
    ASSUME NEW s \in Sessions, NEW d \in Detections,
           snapshot[s][d] \in {0, 1}, journal[s][d] \in {0, 1},
           snapshot[s][d] = 0 \/ journal[s][d] = 0
    PROVE  ReadFiles(s)[d] \in {0, 1}
<1>1. ReadFiles(s)[d] = Plus(snapshot[s][d], journal[s][d])
  BY DEF ReadFiles
<1>2. QED
  BY <1>1 DEF Plus

LEMMA NoRecordsList == NoRecords \in Lists /\ \A d \in Detections : NoRecords[d] = 0
BY DEF NoRecords, Lists, Copies

-----------------------------------------------------------------------------
(* Types.                                                                  *)

LEMMA InitTypes == Init => RecordTypes
BY NoRecordsList DEF Init, RecordTypes, Steps, AtHome

LEMMA TypesStep == LifeInv /\ RecordTypes /\ ListInv /\ [Next]_vars => RecordTypes'
<1> SUFFICES ASSUME LifeInv, RecordTypes, ListInv, [Next]_vars PROVE RecordTypes'
  OBVIOUS
<1> USE NoRecordsList DEF RecordTypes
<1>0. /\ current \in Sessions \cup {None}
      /\ target \in Sessions \cup {None}
      /\ opStep \in {"metadata", "index", "refresh", "evict"} => target \in Sessions
  BY DEF LifeInv, Types, LockInv, Operations
<1>1. CASE \/ Restart \/ Tick \/ StopSession \/ FlushAll \/ WriteMetadata
           \/ WriteIndex \/ UNCHANGED vars
  BY <1>1 DEF Restart, Tick, StopSession, FlushAll, WriteMetadata, WriteIndex,
     Free, InProgress, vars, files, held, calls, ghosts
<1>2. CASE GetCurrentSession
  <2>1. current \in Sessions
    BY <1>0, <1>2 DEF GetCurrentSession
  <2>2. QED
    BY <1>2, <2>1, FilesGive DEF GetCurrentSession, Loaded, files, held, calls, ghosts
<1>3. ASSUME NEW who \in Detections \cup {None}, StartSession(who)
      PROVE  RecordTypes'
  BY <1>3, SessionAssumption DEF StartSession, Asks, files, calls, ghosts
<1>4. CASE Refresh
  <2>1. target \in Sessions
    BY <1>0, <1>4 DEF Refresh
  <2>2. cache' \in [Sessions -> Lists \cup {None}]
    BY <1>4, <2>1, FilesGive DEF Refresh, Loaded
  <2>3. CASE op = "start" /\ opFor # None
    BY <1>4, <2>1, <2>2, <2>3 DEF Refresh, Release, Admit, Steps, AtHome, files
  <2>4. CASE ~(op = "start" /\ opFor # None)
    BY <1>4, <2>2, <2>4 DEF Refresh, Release, files
  <2>5. QED
    BY <2>3, <2>4
<1>5. CASE Dump
  <2>1. dump' \in Lists
    BY <1>5 DEF Dump, ListInv
  <2>2. QED
    BY <1>5, <2>1 DEF Dump, files, calls, ghosts
<1>6. CASE Replace
  BY <1>6 DEF Replace, calls, ghosts
<1>7. CASE Truncate
  BY <1>7 DEF Truncate, Release, calls, ghosts
<1>8. CASE Evict
  BY <1>8 DEF Evict, Release, files, ghosts
<1>9. ASSUME NEW c \in Detections, Record(c), ~StartSession(c)
      PROVE  RecordTypes'
  <2>0. step[c] \in AtHome => home[c] \in Sessions
    OBVIOUS
  <2>1. CASE EnsureSession(c)
    <3>1. overlapped' \in SUBSET Detections
      BY <2>1 DEF EnsureSession, Begins, InProgress
    <3>2. CASE current = None
      BY <2>1, <3>1, <3>2 DEF EnsureSession, Goto, Steps, AtHome, files, held
    <3>3. CASE current # None
      <4>1. current \in Sessions
        BY <1>0, <3>3
      <4>2. cache' \in [Sessions -> Lists \cup {None}]
        BY <2>1, <3>3, <4>1, FilesGive DEF EnsureSession, Loaded
      <4>3. QED
        BY <2>1, <3>1, <3>3, <4>1, <4>2
        DEF EnsureSession, Admit, Steps, AtHome, files, held
    <3>4. QED
      BY <3>2, <3>3
  <2>2. CASE JoinSession(c)
    <3>1. current \in Sessions
      BY <1>0, <2>2 DEF JoinSession
    <3>2. cache' \in [Sessions -> Lists \cup {None}]
      BY <2>2, <3>1, FilesGive DEF JoinSession, Loaded
    <3>3. opFor = None
      BY <2>2 DEF JoinSession, Free
    <3>4. QED
      BY <2>2, <3>1, <3>2, <3>3
      DEF JoinSession, Admit, Steps, AtHome, files, held, ghosts
  <2>3. CASE GetCache(c)
    BY <2>0, <2>3, FilesGive
    DEF GetCache, Goto, Steps, AtHome, files, held, ghosts
  <2>4. CASE Install(c)
    BY <2>0, <2>4 DEF Install, Goto, Steps, AtHome, files, held, ghosts
  <2>5. CASE Extend(c)
    <3>1. ASSUME c \in live PROVE cache' \in [Sessions -> Lists \cup {None}]
      <4>1. cache[home[c]] \in Lists
        <5>1. home[c] \in Sessions
          BY <2>0, <2>5 DEF AtHome, Steps, Extend
        <5>2. cache[home[c]] # None
          BY <3>1 DEF ListInv
        <5>3. QED
          BY <5>1, <5>2
      <4> DEFINE more == More(cache[home[c]], c)
      <4>2. more \in Lists
        BY <4>1, OneMore
      <4>3. cache' = [cache EXCEPT ![home[c]] = more]
        BY <2>5, <3>1 DEF Extend
      <4>4. QED
        <5> HIDE DEF more
        <5> QED BY <4>2, <4>3
    <3>2. cache' \in [Sessions -> Lists \cup {None}]
      BY <2>5, <3>1 DEF Extend
    <3>3. QED
      BY <2>0, <2>5, <3>2 DEF Extend, Goto, Steps, AtHome, files, held, ghosts
  <2>6. CASE Append(c)
    <3>1. home[c] \in Sessions /\ step' = [step EXCEPT ![c] = "flush"]
      BY <2>0, <2>6 DEF Append, Goto, Steps, AtHome
    <3> DEFINE more == More(journal[home[c]], c)
    <3>2. more \in Lists
      BY <3>1, OneMore
    <3>3. /\ journal' \in [Sessions -> Lists]
          /\ torn' \in [Sessions -> BOOLEAN]
          /\ glued' \in SUBSET Detections
          /\ recorded' \in SUBSET Detections
      <4>1. journal' = journal \/ journal' = [journal EXCEPT ![home[c]] = more]
        BY <2>6 DEF Append
      <4>2. journal' \in [Sessions -> Lists]
        <5> HIDE DEF more
        <5> QED BY <3>2, <4>1
      <4>3. torn' \in [Sessions -> BOOLEAN]
        BY <2>6, Zenon DEF Append
      <4>4. glued' \in SUBSET Detections /\ recorded' \in SUBSET Detections
        BY <2>6 DEF Append
      <4>5. QED
        BY <4>2, <4>3, <4>4
    <3>4. \A d \in Detections : step'[d] \in AtHome => home[d] \in Sessions
      BY <3>1
    <3>5. opFor # None => step'[opFor] = "start"
      BY <2>6, <3>1 DEF Append
    <3>6. QED
      BY <2>6, <3>1, <3>3, <3>4, <3>5 DEF Append, Steps, held
  <2>7. CASE Flush(c)
    BY <2>0, <2>7 DEF Flush, Goto, Steps, AtHome, files, held, ghosts
  <2>8. CASE FlushReplace(c)
    BY <2>0, <2>8 DEF FlushReplace, Goto, Steps, AtHome, held, ghosts
  <2>9. CASE FlushTruncate(c)
    BY <2>0, <2>9 DEF FlushTruncate, Goto, Steps, AtHome, held, ghosts
  <2>10. CASE Metrics(c)
    BY <2>0, <2>10, FilesGive DEF Metrics, Goto, Steps, AtHome, files, held, ghosts
  <2>11. QED
    BY <1>9, <2>1, <2>2, <2>3, <2>4, <2>5, <2>6, <2>7, <2>8, <2>9, <2>10 DEF Record
<1>10. CASE Crash \/ \E d \in Detections : CrashInAppend(d)
  <2>1. Die
    BY <1>10 DEF Crash, CrashInAppend
  <2>2. torn' \in [Sessions -> BOOLEAN]
    BY <1>10 DEF Crash, CrashInAppend
  <2>3. QED
    BY <2>1, <2>2 DEF Die, InProgress, Straddling, Steps, AtHome
<1>11. QED
  BY <1>1, <1>2, <1>3, <1>4, <1>5, <1>6, <1>7, <1>8, <1>9, <1>10
  DEF Next, Locked, Record
-----------------------------------------------------------------------------
(* Who holds which list.                                                   *)

LEMMA InitRecords == Init => RecordInv
<1> SUFFICES ASSUME Init PROVE RecordInv
  OBVIOUS
<1> USE DEF Init
<1>1. RecordTypes
  BY InitTypes
<1>2. ListInv /\ AloneInv /\ HoldsInv
  BY DEF ListInv, AloneInv, HoldsInv, InProgress
<1>3. EarlyInv /\ SafeInv
  BY NoRecordsList DEF EarlyInv, Absent, SafeInv
<1>4. OnceInv
  <2>1. ASSUME NEW d \in Detections
        PROVE  /\ \A s \in Sessions : snapshot[s][d] = 0 /\ journal[s][d] = 0
               /\ \A c \in Detections : payload[c][d] = 0
               /\ dump[d] = 0
    BY NoRecordsList
  <2>2. ASSUME NEW d \in Detections, NEW s \in Sessions PROVE Once(d, s)
    <3>1. cache[s] = None /\ opStep = "idle" /\ snapshot[s][d] = 0 /\ journal[s][d] = 0
      BY <2>1
    <3>2. QED
      BY <3>1 DEF Once
  <2> HIDE DEF Init
  <2>3. ASSUME NEW d \in Detections
        PROVE  dump[d] \in {0, 1} /\ \A c \in Detections : payload[c][d] \in {0, 1}
    BY <2>1
  <2>4. QED
    BY <2>2, <2>3, Zenon DEF OnceInv
<1>5. QED
  BY <1>1, <1>2, <1>3, <1>4 DEF RecordInv

LEMMA ListStep ==
    LifeInv /\ RecordTypes /\ RecordTypes' /\ ListInv /\ [Next]_vars => ListInv'
<1> SUFFICES ASSUME LifeInv, RecordTypes, RecordTypes', ListInv, [Next]_vars
             PROVE  ListInv'
  OBVIOUS
<1> USE NoneIsNoList DEF ListInv
<1>0. /\ current \in Sessions \cup {None}
      /\ target \in Sessions \cup {None}
      /\ todo \in SUBSET Sessions
      /\ op \in {"start", "stop"} => target \in Sessions
      /\ op = "start" => opStep \in {"metadata", "index", "refresh"}
      /\ op = "flush" => opStep \in {"dump", "replace", "truncate"}
      /\ op = "none" <=> opStep = "idle"
      /\ op \in Operations
  BY DEF LifeInv, Types, LockInv
<1>1. CASE \/ Restart \/ Tick \/ StopSession \/ WriteMetadata \/ WriteIndex
           \/ Dump \/ Replace \/ UNCHANGED vars
  BY <1>0, <1>1 DEF Restart, Tick, StopSession, WriteMetadata, WriteIndex, Dump,
     Replace, Free, vars, files, held, calls, ghosts
<1>2. CASE GetCurrentSession
  <2>1. \A s \in Sessions : cache[s] # None => cache'[s] # None
    BY <1>0, <1>2, LoadedGives DEF GetCurrentSession
  <2>2. \A d \in live : home[d] \in Sessions
    BY DEF RecordTypes, AtHome, Steps
  <2>3. QED
    BY <1>0, <1>2, <2>1, <2>2 DEF GetCurrentSession, files, held, calls, ghosts
<1>3. CASE FlushAll
  BY <1>0, <1>3 DEF FlushAll, calls
<1>4. ASSUME NEW who \in Detections \cup {None}, StartSession(who)
      PROVE  ListInv'
  BY <1>0, <1>4 DEF StartSession, calls
<1>5. CASE Refresh
  <2>1. target \in Sessions
    BY <1>0, <1>5 DEF Refresh, Operations
  <2>2. /\ cache'[target] # None
        /\ \A s \in Sessions : cache[s] # None => cache'[s] # None
    BY <1>5, <2>1, LoadedGives DEF Refresh
  <2>3. \A d \in live : home[d] \in Sessions
    BY DEF RecordTypes, AtHome, Steps
  <2>4. \A d \in live : step'[d] = "extend" /\ home'[d] = home[d]
    BY <1>5 DEF Refresh, Admit, RecordTypes
  <2>5. QED
    BY <1>0, <1>5, <2>1, <2>2, <2>3, <2>4 DEF Refresh, Release
<1>6. CASE Truncate
  BY <1>0, <1>6 DEF Truncate, Release, calls
<1>7. CASE Evict
  <2>1. op = "stop"
    BY <1>0, <1>7 DEF Evict, Operations
  <2>2. QED
    BY <1>0, <1>7, <2>1 DEF Evict, Release, Residents, RecordTypes
<1>8. ASSUME NEW c \in Detections, Record(c), ~StartSession(c)
      PROVE  ListInv'
  <2>0. UNCHANGED <<op, opStep, target, todo>>
    BY <1>8 DEF Record, EnsureSession, JoinSession, GetCache, Install, Extend,
       Append, Flush, FlushReplace, FlushTruncate, Metrics, held
  <2>1. \A s \in Sessions : cache[s] # None => cache'[s] # None
    <3>1. CASE EnsureSession(c) \/ JoinSession(c)
      BY <1>0, <3>1, LoadedGives DEF EnsureSession, JoinSession
    <3>2. CASE Install(c)
      BY <3>2 DEF Install, RecordTypes
    <3>3. CASE Extend(c)
      <4>1. ASSUME c \in live PROVE More(cache[home[c]], c) # None
        <5>1. home[c] \in Sessions
          BY <3>3 DEF Extend, RecordTypes, AtHome, Steps
        <5>2. cache[home[c]] \in Lists
          BY <4>1, <5>1 DEF RecordTypes
        <5>3. QED
          BY <5>2, OneMore
      <4> DEFINE more == More(cache[home[c]], c)
      <4>2. cache' = cache \/ (c \in live /\ cache' = [cache EXCEPT ![home[c]] = more])
        BY <3>3 DEF Extend
      <4>3. c \in live => more # None
        BY <4>1
      <4>4. QED
        <5> HIDE DEF more
        <5> QED BY <4>2, <4>3 DEF RecordTypes
    <3>4. CASE ~(EnsureSession(c) \/ JoinSession(c) \/ Install(c) \/ Extend(c))
      BY <1>8, <3>4 DEF Record, GetCache, Append, Flush, FlushReplace,
         FlushTruncate, Metrics, files
    <3>5. QED
      BY <3>1, <3>2, <3>3, <3>4
  <2>2. \A d \in live' : step'[d] = "extend" /\ home'[d] \in Sessions
                        /\ cache'[home'[d]] # None
    <3>0. \A d \in live : home[d] \in Sessions
      BY DEF RecordTypes, AtHome, Steps
    <3>1. CASE GetCache(c)
      BY <2>1, <3>0, <3>1 DEF GetCache, Goto, RecordTypes, files, AtHome, Steps
    <3>2. CASE Install(c)
      <4>1. home[c] \in Sessions /\ cache'[home[c]] # None
        BY <3>2 DEF Install, RecordTypes, AtHome, Steps
      <4>2. QED
        BY <2>1, <3>0, <3>2, <4>1 DEF Install, Goto, Residents, RecordTypes
    <3>3. CASE EnsureSession(c) \/ JoinSession(c)
      BY <2>1, <3>0, <3>3 DEF EnsureSession, JoinSession, Admit, Goto, RecordTypes
    <3>4. CASE \/ Extend(c) \/ Append(c) \/ Flush(c) \/ FlushReplace(c)
               \/ FlushTruncate(c) \/ Metrics(c)
      BY <2>1, <3>0, <3>4 DEF Extend, Append, Flush, FlushReplace, FlushTruncate,
         Metrics, Goto, RecordTypes
    <3>5. QED
      BY <1>8, <3>1, <3>2, <3>3, <3>4 DEF Record
  <2>3. QED
    BY <1>0, <2>0, <2>1, <2>2
<1>9. CASE Crash \/ \E d \in Detections : CrashInAppend(d)
  BY <1>9 DEF Crash, CrashInAppend, Die
<1>10. QED
  BY <1>1, <1>2, <1>3, <1>4, <1>5, <1>6, <1>7, <1>8, <1>9 DEF Next, Locked, Record

\* Who is early now was early before; what there is not can be neither read
\* nor copied.
LEMMA EarlyStep ==
    LifeInv /\ RecordTypes /\ ListInv /\ EarlyInv /\ [Next]_vars => EarlyInv'
<1> SUFFICES ASSUME LifeInv, RecordTypes, ListInv, EarlyInv, [Next]_vars,
                    NEW d \in Detections, step'[d] \in Early
             PROVE  Absent(d)' /\ d \notin recorded'
  BY DEF EarlyInv
<1>0. /\ current \in Sessions \cup {None}
      /\ opStep \in {"metadata", "index", "refresh", "evict"} => target \in Sessions
  BY DEF LifeInv, Types, LockInv, Operations
<1>a. ASSUME step[d] \in Early PROVE Absent(d) /\ d \notin recorded
  BY <1>a DEF EarlyInv
<1>b. Absent(d) => \A s \in Sessions : ReadFiles(s)[d] = 0
  BY FilesGive DEF Absent
<1>c. NoRecords[d] = 0
  BY NoRecordsList
<1> USE DEF Early
<1>1. CASE \/ Restart \/ Tick \/ StopSession \/ FlushAll \/ WriteMetadata
           \/ WriteIndex \/ UNCHANGED vars
  BY <1>a, <1>1 DEF Restart, Tick, StopSession, FlushAll, WriteMetadata, WriteIndex,
     vars, files, held, calls, ghosts, Absent
<1>2. CASE GetCurrentSession
  <2>1. step[d] \in Early /\ current \in Sessions
    BY <1>0, <1>2 DEF GetCurrentSession, calls
  <2>2. \A s \in Sessions : cache'[s] # None => cache'[s][d] = 0
    BY <1>2, <1>a, <1>b, <2>1, LoadedGives DEF GetCurrentSession, Absent
  <2>3. QED
    BY <1>2, <1>a, <2>1, <2>2 DEF GetCurrentSession, files, held, calls, ghosts, Absent
<1>3. ASSUME NEW who \in Detections \cup {None}, StartSession(who)
      PROVE  Absent(d)' /\ d \notin recorded'
  BY <1>a, <1>3 DEF StartSession, files, calls, ghosts, Absent
<1>4. CASE Refresh
  <2>1. target \in Sessions
    BY <1>0, <1>4 DEF Refresh
  <2>2. step[d] \in Early
    BY <1>4 DEF Refresh, Admit, RecordTypes
  <2>3. \A s \in Sessions : cache'[s] # None => cache'[s][d] = 0
    BY <1>4, <1>a, <1>b, <2>1, <2>2, LoadedGives DEF Refresh, Absent
  <2>4. QED
    BY <1>4, <1>a, <2>2, <2>3 DEF Refresh, files, Absent
<1>5. CASE Dump
  BY <1>5, <1>a DEF Dump, ListInv, files, calls, ghosts, Absent
<1>6. CASE Replace
  BY <1>6, <1>a, <1>c DEF Replace, RecordTypes, calls, ghosts, Absent
<1>7. CASE Truncate
  BY <1>7, <1>a, <1>c DEF Truncate, RecordTypes, calls, ghosts, Absent
<1>8. CASE Evict
  <2>1. \A s \in Sessions : cache'[s] # None => cache'[s] = cache[s]
    BY <1>8 DEF Evict, RecordTypes
  <2>2. QED
    BY <1>8, <1>a, <2>1 DEF Evict, files, ghosts, Absent
<1>9. ASSUME NEW c \in Detections, Record(c), ~StartSession(c)
      PROVE  Absent(d)' /\ d \notin recorded'
  <2>0. step[c] \in AtHome => home[c] \in Sessions
    BY DEF RecordTypes
  <2>1. CASE EnsureSession(c)
    <3>1. step[d] \in Early
      BY <2>1 DEF EnsureSession, Admit, Goto, RecordTypes
    <3>2. \A s \in Sessions : cache'[s] # None => cache'[s][d] = 0
      BY <1>0, <2>1, <1>a, <1>b, <3>1, LoadedGives DEF EnsureSession, Absent
    <3>3. QED
      BY <2>1, <1>a, <3>1, <3>2 DEF EnsureSession, files, held, Absent
  <2>2. CASE JoinSession(c)
    <3>1. step[d] \in Early
      BY <2>2 DEF JoinSession, Admit, RecordTypes
    <3>2. \A s \in Sessions : cache'[s] # None => cache'[s][d] = 0
      BY <1>0, <2>2, <1>a, <1>b, <3>1, LoadedGives DEF JoinSession, Absent
    <3>3. QED
      BY <2>2, <1>a, <3>1, <3>2 DEF JoinSession, files, held, ghosts, Absent
  <2>3. CASE GetCache(c)
    <3>1. step[d] \in Early /\ home[c] \in Sessions
      BY <2>0, <2>3 DEF GetCache, Goto, RecordTypes, AtHome, Steps
    <3>2. \A q \in Detections : payload'[q][d] = 0
      BY <2>3, <1>a, <1>b, <3>1 DEF GetCache, Absent, RecordTypes
    <3>3. QED
      BY <2>3, <1>a, <3>1, <3>2 DEF GetCache, files, held, ghosts, Absent
  <2>4. CASE Install(c)
    <3>1. step[d] \in Early
      BY <2>4 DEF Install, Goto, RecordTypes
    <3>2. \A s \in Sessions : cache'[s] # None => cache'[s][d] = 0
      BY <2>4, <1>a, <3>1 DEF Install, Absent, RecordTypes
    <3>3. \A q \in Detections : payload'[q][d] = 0
      BY <2>4, <1>a, <1>c, <3>1 DEF Install, Absent, RecordTypes
    <3>4. QED
      BY <2>4, <1>a, <3>1, <3>2, <3>3 DEF Install, files, held, ghosts, Absent
  <2>5. CASE Extend(c)
    <3>1. step[d] \in Early /\ c # d /\ home[c] \in Sessions
      BY <2>0, <2>5 DEF Extend, Goto, RecordTypes, AtHome, Steps
    <3>2. ASSUME c \in live, NEW s \in Sessions PROVE cache'[s] # None => cache'[s][d] = 0
      <4> DEFINE more == More(cache[home[c]], c)
      <4>1. cache[home[c]] \in Lists
        BY <3>1, <3>2 DEF ListInv, RecordTypes
      <4>2. more[d] = cache[home[c]][d]
        BY <3>1, <4>1, OneMore
      <4>3. cache[home[c]][d] = 0
        BY <1>a, <3>1, <4>1, NoneIsNoList DEF Absent
      <4>4. cache' = [cache EXCEPT ![home[c]] = more]
        BY <2>5, <3>2 DEF Extend
      <4>5. QED
        <5> HIDE DEF more
        <5> QED BY <1>a, <3>1, <4>2, <4>3, <4>4 DEF RecordTypes, Absent
    <3>3. \A s \in Sessions : cache'[s] # None => cache'[s][d] = 0
      BY <1>a, <2>5, <3>1, <3>2 DEF Extend, Absent
    <3>4. QED
      BY <2>5, <1>a, <3>1, <3>3 DEF Extend, files, held, ghosts, Absent
  <2>6. CASE Append(c)
    <3>1. step[d] \in Early /\ c # d /\ home[c] \in Sessions
      BY <2>0, <2>6 DEF Append, Goto, RecordTypes, AtHome, Steps
    <3>2. \A s \in Sessions : journal'[s][d] = 0
      <4> DEFINE more == More(journal[home[c]], c)
      <4>1. more[d] = 0
        <5>1. journal[home[c]] \in Lists /\ journal[home[c]][d] = 0
          BY <1>a, <3>1 DEF RecordTypes, Absent
        <5>2. QED
          BY <3>1, <5>1, OneMore
      <4>2. journal' = journal \/ journal' = [journal EXCEPT ![home[c]] = more]
        BY <2>6 DEF Append
      <4>3. QED
        <5> HIDE DEF more
        <5> QED BY <1>a, <3>1, <4>1, <4>2 DEF RecordTypes, Absent
    <3>3. QED
      BY <2>6, <1>a, <3>1, <3>2 DEF Append, held, Absent
  <2>7. CASE Flush(c)
    <3>1. step[d] \in Early /\ home[c] \in Sessions
      BY <2>0, <2>7 DEF Flush, Goto, RecordTypes, AtHome, Steps
    <3>2. \A q \in Detections : payload'[q][d] = 0
      BY <2>7, <1>a, <3>1 DEF Flush, Absent, RecordTypes
    <3>3. QED
      BY <2>7, <1>a, <3>1, <3>2 DEF Flush, files, held, ghosts, Absent
  <2>8. CASE FlushReplace(c)
    <3>1. step[d] \in Early
      BY <2>8 DEF FlushReplace, Goto, RecordTypes
    <3>2. \A s \in Sessions : snapshot'[s][d] = 0
      BY <2>8, <1>a, <3>1 DEF FlushReplace, Absent, RecordTypes
    <3>3. \A q \in Detections : payload'[q][d] = 0
      BY <2>8, <1>a, <1>c, <3>1 DEF FlushReplace, Absent, RecordTypes
    <3>4. QED
      BY <2>8, <1>a, <3>1, <3>2, <3>3 DEF FlushReplace, held, ghosts, Absent
  <2>9. CASE FlushTruncate(c)
    <3>1. step[d] \in Early
      BY <2>9 DEF FlushTruncate, Goto, RecordTypes
    <3>2. \A s \in Sessions : journal'[s][d] = 0
      BY <2>9, <1>a, <1>c, <3>1 DEF FlushTruncate, Absent, RecordTypes
    <3>3. QED
      BY <2>9, <1>a, <3>1, <3>2 DEF FlushTruncate, held, ghosts, Absent
  <2>10. CASE Metrics(c)
    <3>1. step[d] \in Early /\ home[c] \in Sessions
      BY <2>0, <2>10 DEF Metrics, Goto, RecordTypes, AtHome, Steps
    <3>2. \A q \in Detections : payload'[q][d] = 0
      BY <2>10, <1>a, <1>b, <3>1 DEF Metrics, Absent, RecordTypes
    <3>3. QED
      BY <2>10, <1>a, <3>1, <3>2 DEF Metrics, files, held, ghosts, Absent
  <2>11. QED
    BY <1>9, <2>1, <2>2, <2>3, <2>4, <2>5, <2>6, <2>7, <2>8, <2>9, <2>10 DEF Record
<1>10. CASE Crash \/ \E c \in Detections : CrashInAppend(c)
  <2>1. Die
    BY <1>10 DEF Crash, CrashInAppend
  <2>2. step[d] \in Early
    BY <2>1 DEF Die, InProgress, RecordTypes
  <2>3. QED
    BY <1>a, <1>c, <2>1, <2>2 DEF Die, Absent
<1>11. QED
  BY <1>1, <1>2, <1>3, <1>4, <1>5, <1>6, <1>7, <1>8, <1>9, <1>10
  DEF Next, Locked, Record

\* While a call that overlaps nothing is in progress, the lock is free or held
\* by a start, and no other call is in progress.
LEMMA Alone ==
    ASSUME LifeInv, RecordTypes, AloneInv,
           NEW d \in Detections \ overlapped, d \in InProgress
    PROVE  /\ \A c \in Detections \ {d} : step[c] \in {"idle", "done"}
           /\ op \in {"none", "start"}
           /\ opStep \in {"idle", "metadata", "index", "refresh"}
           /\ opFor \in {None, d}
<1>1. /\ \A c \in Detections \ {d} : step[c] \in {"idle", "done"}
      /\ op \in {"none", "start"}
  BY DEF AloneInv
<1>2. opStep \in {"idle", "metadata", "index", "refresh"}
  BY <1>1 DEF LifeInv, LockInv
<1>3. opFor \in {None, d}
  BY <1>1 DEF RecordTypes
<1>4. QED
  BY <1>1, <1>2, <1>3

LEMMA AloneStep ==
    LifeInv /\ RecordTypes /\ AloneInv /\ [Next]_vars => AloneInv'
<1> SUFFICES ASSUME LifeInv, RecordTypes, AloneInv, [Next]_vars,
                    NEW d \in Detections, d \notin overlapped',
                    d \in InProgress'
             PROVE  /\ \A c \in Detections \ {d} : step'[c] \in {"idle", "done"}
                    /\ op' \in {"none", "start"}
  BY DEF AloneInv
<1> DEFINE Goal == /\ \A c \in Detections \ {d} : step'[c] \in {"idle", "done"}
                   /\ op' \in {"none", "start"}
<1>1. CASE \E c \in Detections : EnsureSession(c)
  <2> PICK c \in Detections : EnsureSession(c)
    BY <1>1
  <2>1. op' = "none"
    BY DEF EnsureSession, Free, held
  <2>2. \A q \in Detections \ {c} : step'[q] = step[q]
    BY DEF EnsureSession, Admit, Goto, RecordTypes
  <2>3. d \notin InProgress \cup {c} \/ InProgress = {}
    BY DEF EnsureSession, Begins
  <2>4. d = c
    BY <2>2, <2>3 DEF InProgress
  <2>5. InProgress = {}
    BY <2>3, <2>4
  <2>6. QED
    BY <2>1, <2>2, <2>4, <2>5 DEF InProgress
<1>2. ASSUME ~ \E c \in Detections : EnsureSession(c)
      PROVE  d \in InProgress /\ d \notin overlapped
  <2>1. d \in InProgress
    <3>1. CASE Refresh
      BY <3>1 DEF Refresh, Admit, RecordTypes, InProgress
    <3>2. CASE \E c \in Detections : Record(c)
      BY <1>2, <3>2 DEF Record, StartSession, JoinSession, GetCache, Install, Extend,
         Append, Flush, FlushReplace, FlushTruncate, Metrics, Admit, Goto, calls,
         RecordTypes, InProgress
    <3>3. CASE Crash \/ \E c \in Detections : CrashInAppend(c)
      BY <3>3 DEF Crash, CrashInAppend, Die, InProgress
    <3>4. CASE ~(\/ Refresh
                 \/ \E c \in Detections : Record(c)
                 \/ Crash
                 \/ \E c \in Detections : CrashInAppend(c))
      <4>1. step' = step
        BY <3>4 DEF Next, Locked, Restart, Tick, GetCurrentSession, StartSession,
           StopSession, FlushAll, WriteMetadata, WriteIndex, Dump, Replace, Truncate,
           Evict, vars, calls
      <4>2. QED
        BY <4>1 DEF InProgress
    <3>5. QED
      BY <3>1, <3>2, <3>3, <3>4
  <2>2. d \notin overlapped
    <3>1. CASE Locked
      BY <3>1 DEF Locked, WriteMetadata, WriteIndex, Refresh, Dump, Replace, Truncate,
         Evict, ghosts
    <3>2. CASE \E c \in Detections : Record(c)
      BY <1>2, <3>2 DEF Record, StartSession, JoinSession, GetCache, Install, Extend,
         Append, Flush, FlushReplace, FlushTruncate, Metrics, ghosts
    <3>3. CASE ~(Locked \/ \E c \in Detections : Record(c))
      BY <3>3 DEF Next, Restart, Tick, GetCurrentSession, StartSession, StopSession,
         FlushAll, Crash, CrashInAppend, Die, vars, ghosts
    <3>4. QED
      BY <3>1, <3>2, <3>3
  <2>3. QED
    BY <2>1, <2>2
<1>3. ASSUME ~ \E c \in Detections : EnsureSession(c)
      PROVE  Goal
  <2>0. /\ \A c \in Detections \ {d} : step[c] \in {"idle", "done"}
        /\ op \in {"none", "start"}
        /\ opStep \in {"idle", "metadata", "index", "refresh"}
        /\ opFor \in {None, d}
    BY <1>2, <1>3, Alone
  <2>1. CASE Refresh
    BY <2>0, <2>1 DEF Refresh, Release, Admit, RecordTypes
  <2>2. ASSUME NEW c \in Detections, Record(c) PROVE Goal
    <3>1. CASE StartSession(c)
      BY <2>0, <3>1 DEF StartSession, calls
    <3>2. CASE ~StartSession(c)
      <4>1. c = d
        BY <1>3, <2>0, <2>2, <3>2 DEF Record, JoinSession, GetCache, Install, Extend,
           Append, Flush, FlushReplace, FlushTruncate, Metrics
      <4>2. \A q \in Detections \ {c} : step'[q] = step[q]
        BY <1>3, <2>2, <3>2 DEF Record, JoinSession, GetCache, Install, Extend,
           Append, Flush, FlushReplace, FlushTruncate, Metrics, Admit, Goto, RecordTypes
      <4>3. op' = op
        BY <1>3, <2>2, <3>2 DEF Record, JoinSession, GetCache, Install, Extend,
           Append, Flush, FlushReplace, FlushTruncate, Metrics, held
      <4>4. QED
        BY <2>0, <4>1, <4>2, <4>3
    <3>3. QED
      BY <3>1, <3>2
  <2>3. CASE Crash \/ \E c \in Detections : CrashInAppend(c)
    BY <2>0, <2>3 DEF Crash, CrashInAppend, Die, RecordTypes, InProgress
  <2>4. CASE StopSession \/ FlushAll
    BY <1>2, <1>3, <2>4 DEF StopSession, FlushAll
  <2>5. CASE \/ Restart \/ Tick \/ GetCurrentSession \/ StartSession(None)
             \/ WriteMetadata \/ WriteIndex \/ UNCHANGED vars
    BY <2>0, <2>5 DEF Restart, Tick, GetCurrentSession, StartSession, WriteMetadata,
       WriteIndex, vars, held, calls
  <2>6. CASE Dump \/ Replace \/ Truncate \/ Evict
    BY <2>0, <2>6 DEF Dump, Replace, Truncate, Evict
  <2>7. QED
    BY <2>1, <2>2, <2>3, <2>4, <2>5, <2>6 DEF Next, Locked
<1>4. QED
  BY <1>1, <1>3

\* Overlaps are never forgotten, and who overlaps another is told at once.
LEMMA OverlapsStay == Next => overlapped \subseteq overlapped'
<1> SUFFICES ASSUME Next PROVE overlapped \subseteq overlapped'
  OBVIOUS
<1>1. CASE Locked
  BY <1>1 DEF Locked, WriteMetadata, WriteIndex, Refresh, Dump, Replace, Truncate,
     Evict, ghosts
<1>2. CASE \E c \in Detections : Record(c)
  BY <1>2 DEF Record, EnsureSession, Begins, StartSession, JoinSession, GetCache,
     Install, Extend, Append, Flush, FlushReplace, FlushTruncate, Metrics, ghosts
<1>3. CASE ~(Locked \/ \E c \in Detections : Record(c))
  BY <1>3 DEF Next, Restart, Tick, GetCurrentSession, StartSession, StopSession,
     FlushAll, Crash, CrashInAppend, Die, ghosts
<1>4. QED
  BY <1>1, <1>2, <1>3

\* What may happen beside a call that overlaps nothing: lists come into
\* memory, and nothing that the call works on changes.
LEMMA Beside ==
    ASSUME LifeInv, RecordTypes, AloneInv, [Next]_vars,
           NEW d \in Detections, d \in InProgress, d \notin overlapped',
           step'[d] \in {"extend", "append"}, ~Record(d)
    PROVE  /\ UNCHANGED <<snapshot, journal, torn, live, payload>>
           /\ step'[d] = step[d]
           /\ home'[d] = home[d]
           /\ \A s \in Sessions : cache[s] # None => cache'[s] = cache[s]
<1> DEFINE Goal == /\ UNCHANGED <<snapshot, journal, torn, live, payload>>
                   /\ step'[d] = step[d]
                   /\ home'[d] = home[d]
                   /\ \A s \in Sessions : cache[s] # None => cache'[s] = cache[s]
<1>0. d \notin overlapped
  BY OverlapsStay DEF vars, ghosts
<1>1. /\ \A c \in Detections \ {d} : step[c] \in {"idle", "done"}
      /\ op \in {"none", "start"}
      /\ opStep \in {"idle", "metadata", "index", "refresh"}
      /\ opFor \in {None, d}
  BY <1>0, Alone
<1>2. current \in Sessions \cup {None} /\ (opStep = "refresh" => target \in Sessions)
  BY DEF LifeInv, Types, LockInv, Operations
<1>3. CASE Refresh
  <2>1. \A s \in Sessions : cache[s] # None => cache'[s] = cache[s]
    BY <1>2, <1>3, LoadedGives DEF Refresh
  <2>2. step'[d] = step[d] /\ home'[d] = home[d]
    BY <1>3 DEF Refresh, Admit, RecordTypes
  <2>3. QED
    BY <1>3, <2>1, <2>2 DEF Refresh, files
<1>4. CASE GetCurrentSession
  BY <1>2, <1>4, LoadedGives DEF GetCurrentSession, files, calls
<1>5. CASE StopSession \/ FlushAll
  BY <1>5 DEF StopSession, FlushAll
<1>6. CASE Crash \/ \E c \in Detections : CrashInAppend(c)
  BY <1>6 DEF Crash, CrashInAppend, Die, RecordTypes
<1>7. CASE \/ Restart \/ Tick \/ StartSession(None) \/ UNCHANGED vars
  BY <1>7 DEF Restart, Tick, StartSession, vars, files, calls
<1>8. CASE WriteMetadata \/ WriteIndex
  BY <1>8 DEF WriteMetadata, WriteIndex, files, calls
<1>9. CASE Dump \/ Replace \/ Truncate \/ Evict
  BY <1>1, <1>9 DEF Dump, Replace, Truncate, Evict
<1>10. ASSUME NEW c \in Detections, Record(c) PROVE Goal
  <2>1. c # d
    BY <1>10 DEF Record
  <2>2. EnsureSession(c)
    BY <1>1, <1>10, <2>1, SessionAssumption DEF Record, StartSession, Asks,
       JoinSession, GetCache, Install, Extend, Append, Flush, FlushReplace,
       FlushTruncate, Metrics
  <2>3. QED
    BY <2>2 DEF EnsureSession, Begins
<1>11. QED
  BY <1>3, <1>4, <1>5, <1>6, <1>7, <1>8, <1>9, <1>10 DEF Next, Locked

LEMMA HoldsStep ==
    LifeInv /\ RecordTypes /\ ListInv /\ EarlyInv /\ AloneInv /\ HoldsInv /\ [Next]_vars
    => HoldsInv'
<1> SUFFICES ASSUME LifeInv, RecordTypes, ListInv, EarlyInv, AloneInv, HoldsInv,
                    [Next]_vars, NEW d \in Detections, d \notin overlapped'
             PROVE  /\ step'[d] = "extend" => d \in live'
                    /\ step'[d] = "append" =>
                          /\ cache'[home'[d]] # None
                          /\ cache'[home'[d]][d] = 1
                          /\ \A s \in Sessions : snapshot'[s][d] = 0 /\ journal'[s][d] = 0
  BY DEF HoldsInv
<1> DEFINE Goal == /\ step'[d] = "extend" => d \in live'
                   /\ step'[d] = "append" =>
                          /\ cache'[home'[d]] # None
                          /\ cache'[home'[d]][d] = 1
                          /\ \A s \in Sessions : snapshot'[s][d] = 0 /\ journal'[s][d] = 0
<1>0. d \notin overlapped
  BY OverlapsStay DEF vars, ghosts
<1>1. CASE GetCache(d) \/ Install(d)
  BY <1>1 DEF GetCache, Install, Goto, RecordTypes
<1>2. CASE Extend(d)
  <2>1. d \in live /\ home[d] \in Sessions /\ Absent(d)
    BY <1>0, <1>2 DEF Extend, HoldsInv, EarlyInv, Early, RecordTypes, AtHome, Steps
  <2>2. cache[home[d]] \in Lists /\ cache[home[d]][d] = 0
    BY <2>1 DEF ListInv, RecordTypes, Absent
  <2> DEFINE more == More(cache[home[d]], d)
  <2>3. more \in Lists /\ more[d] = 1
    BY <2>2, OneMore DEF Plus
  <2>4. cache' = [cache EXCEPT ![home[d]] = more] /\ step'[d] = "append"
    BY <1>2, <2>1 DEF Extend, Goto, RecordTypes
  <2>5. cache'[home[d]] = more
    <3> HIDE DEF more
    <3> QED BY <2>1, <2>4 DEF RecordTypes
  <2>6. cache'[home[d]] # None /\ cache'[home[d]][d] = 1
    <3> HIDE DEF more
    <3> QED BY <2>3, <2>5, NoneIsNoList
  <2>7. QED
    BY <1>2, <2>1, <2>4, <2>6 DEF Extend, Absent, files
<1>3. CASE \/ EnsureSession(d) \/ StartSession(d) \/ JoinSession(d) \/ Append(d)
           \/ Flush(d) \/ FlushReplace(d) \/ FlushTruncate(d) \/ Metrics(d)
  BY <1>3, SessionAssumption
  DEF EnsureSession, StartSession, JoinSession, Append, Flush, FlushReplace,
      FlushTruncate, Metrics, Admit, Goto, Asks, calls, RecordTypes
<1>4. CASE ~Record(d) /\ d \notin InProgress
  <2>1. step'[d] \notin {"extend", "append"}
    <3>1. step[d] \in {"idle", "done"}
      BY <1>4 DEF InProgress
    <3>2. CASE \E c \in Detections : Record(c)
      <4> PICK c \in Detections : Record(c)
        BY <3>2
      <4>1. c # d
        BY <1>4 DEF Record
      <4>2. step'[d] = step[d]
        BY <4>1 DEF Record, EnsureSession, StartSession, JoinSession, GetCache,
           Install, Extend, Append, Flush, FlushReplace, FlushTruncate, Metrics,
           Admit, Goto, calls, RecordTypes
      <4>3. QED
        BY <3>1, <4>2
    <3>3. CASE Locked
      BY <3>1, <3>3 DEF Locked, WriteMetadata, WriteIndex, Refresh, Admit, Dump,
         Replace, Truncate, Evict, calls, RecordTypes
    <3>4. CASE ~(Locked \/ \E c \in Detections : Record(c))
      BY <3>1, <3>4 DEF Next, Restart, Tick, GetCurrentSession, StartSession,
         StopSession, FlushAll, Crash, CrashInAppend, Die, vars, calls, RecordTypes
    <3>5. QED
      BY <3>2, <3>3, <3>4
  <2>2. QED
    BY <2>1
<1>5. ASSUME ~Record(d), d \in InProgress PROVE Goal
  <2>1. SUFFICES ASSUME step'[d] \in {"extend", "append"} PROVE Goal
    OBVIOUS
  <2>2. /\ UNCHANGED <<snapshot, journal, torn, live, payload>>
        /\ step'[d] = step[d]
        /\ home'[d] = home[d]
        /\ \A s \in Sessions : cache[s] # None => cache'[s] = cache[s]
    BY <1>5, <2>1, Beside
  <2>3. home[d] \in Sessions
    BY <2>1, <2>2 DEF RecordTypes, AtHome, Steps
  <2>4. QED
    BY <1>0, <2>2, <2>3 DEF HoldsInv
<1>6. QED
  BY <1>1, <1>2, <1>3, <1>4, <1>5 DEF Record

-----------------------------------------------------------------------------
(* What is kept.                                                           *)

\* A detection that is safe stays so, whatever is read, installed, written or
\* emptied, and by whomever.
LEMMA SafeStays ==
    ASSUME LifeInv, RecordTypes, ListInv, [Next]_vars, NEW d \in Detections, Safe(d)
    PROVE  Safe(d)'
<1>0. /\ current \in Sessions \cup {None}
      /\ opStep \in {"metadata", "index", "refresh", "evict"} => target \in Sessions
      /\ target \in Sessions \cup {None}
      /\ op = "none" <=> opStep = "idle"
  BY DEF LifeInv, Types, LockInv, Operations
<1>a. /\ home[d] \in Sessions
      /\ step[d] \notin Early \cup {"append"}
      /\ snapshot[home[d]][d] # 0 \/ journal[home[d]][d] # 0
      /\ cache[home[d]] # None => cache[home[d]][d] # 0
      /\ target = home[d] => /\ opStep = "replace" => dump[d] # 0
                             /\ opStep = "truncate" => snapshot[home[d]][d] # 0
      /\ \A c \in Detections : home[c] = home[d] =>
            /\ step[c] \in Carrying => payload[c][d] # 0
            /\ step[c] = "truncate" => snapshot[home[d]][d] # 0
  BY DEF Safe
<1>b. ReadFiles(home[d])[d] # 0
  BY <1>a, FilesGive
<1>c. ASSUME NEW s \in Sessions, Loaded(s)
      PROVE  cache'[home[d]] # None => cache'[home[d]][d] # 0
  BY <1>a, <1>b, <1>c, LoadedGives
<1> USE DEF Early, Carrying
<1>1. CASE \/ Restart \/ Tick \/ StopSession \/ FlushAll \/ WriteMetadata
           \/ WriteIndex \/ UNCHANGED vars
  BY <1>a, <1>1 DEF Restart, Tick, StopSession, FlushAll, WriteMetadata, WriteIndex,
     vars, files, held, calls, ghosts, Safe
<1>2. CASE GetCurrentSession
  <2>1. cache'[home[d]] # None => cache'[home[d]][d] # 0
    BY <1>0, <1>2, <1>c DEF GetCurrentSession
  <2>2. QED
    BY <1>2, <1>a, <2>1 DEF GetCurrentSession, files, held, calls, ghosts, Safe
<1>3. ASSUME NEW who \in Detections \cup {None}, StartSession(who)
      PROVE  Safe(d)'
  BY <1>a, <1>3 DEF StartSession, files, calls, ghosts, Safe
<1>4. CASE Refresh
  <2>1. cache'[home[d]] # None => cache'[home[d]][d] # 0
    BY <1>0, <1>4, <1>c DEF Refresh
  <2>2. /\ step'[d] = step[d] /\ home'[d] = home[d]
        /\ \A c \in Detections : step'[c] \in Carrying \cup {"truncate"} =>
              step'[c] = step[c] /\ home'[c] = home[c]
    BY <1>4, <1>a DEF Refresh, Admit, RecordTypes
  <2>3. opStep' \in {"idle", "dump"}
    BY <1>4 DEF Refresh, Release
  <2>4. QED
    BY <1>4, <1>a, <2>1, <2>2, <2>3 DEF Refresh, files, Safe
<1>5. CASE Dump
  BY <1>5, <1>a DEF Dump, ListInv, files, calls, ghosts, Safe
<1>6. CASE Replace
  BY <1>6, <1>a DEF Replace, RecordTypes, calls, ghosts, Safe
<1>7. CASE Truncate
  <2>1. opStep' \in {"evict", "idle", "dump"}
    BY <1>7 DEF Truncate, Release
  <2>2. journal'[home[d]] = journal[home[d]] \/ snapshot[home[d]][d] # 0
    BY <1>7, <1>a DEF Truncate, RecordTypes
  <2>3. QED
    BY <1>7, <1>a, <2>1, <2>2 DEF Truncate, calls, ghosts, Safe
<1>8. CASE Evict
  <2>1. cache'[home[d]] # None => cache'[home[d]] = cache[home[d]]
    BY <1>8, <1>a DEF Evict, RecordTypes
  <2>2. QED
    BY <1>8, <1>a, <2>1 DEF Evict, Release, files, ghosts, Safe
<1>9. ASSUME NEW c \in Detections, Record(c), ~StartSession(c)
      PROVE  Safe(d)'
  <2>0. step[c] \in AtHome => home[c] \in Sessions
    BY DEF RecordTypes
  <2>1. CASE EnsureSession(c) \/ JoinSession(c)
    <3>1. cache'[home[d]] # None => cache'[home[d]][d] # 0
      BY <1>0, <1>a, <1>c, <2>1 DEF EnsureSession, JoinSession
    <3>2. /\ step'[d] = step[d] /\ home'[d] = home[d]
          /\ \A q \in Detections : step'[q] \in Carrying \cup {"truncate"} =>
                step'[q] = step[q] /\ home'[q] = home[q]
      BY <2>1, <1>a DEF EnsureSession, JoinSession, Admit, Goto, RecordTypes
    <3>3. UNCHANGED <<snapshot, journal, opStep, target, dump, payload>>
      BY <2>1 DEF EnsureSession, JoinSession, files, held
    <3>4. QED
      BY <1>a, <3>1, <3>2, <3>3 DEF Safe
  <2>2. CASE GetCache(c) \/ Metrics(c)
    <3>1. /\ step'[d] \notin Early \cup {"append"}
          /\ \A q \in Detections : step'[q] \in Carrying \cup {"truncate"} =>
                \/ step'[q] = step[q] /\ payload'[q] = payload[q]
                \/ q = c /\ step'[q] # "truncate" /\ payload'[q] = ReadFiles(home[q])
      BY <2>2, <1>a DEF GetCache, Metrics, Goto, RecordTypes
    <3>2. UNCHANGED <<snapshot, journal, cache, opStep, target, dump, home>>
      BY <2>2 DEF GetCache, Metrics, files, held
    <3>3. QED
      BY <1>a, <1>b, <3>1, <3>2 DEF Safe
  <2>3. CASE Install(c)
    <3>1. /\ step'[d] \notin Early \cup {"append"}
          /\ \A q \in Detections : step'[q] \in Carrying \cup {"truncate"} =>
                step'[q] = step[q] /\ payload'[q] = payload[q]
      BY <2>3, <1>a DEF Install, Goto, RecordTypes
    <3>2. cache'[home[d]] # None => cache'[home[d]][d] # 0
      BY <2>3, <1>a DEF Install, RecordTypes
    <3>3. UNCHANGED <<snapshot, journal, opStep, target, dump, home>>
      BY <2>3 DEF Install, files, held
    <3>4. QED
      BY <1>a, <3>1, <3>2, <3>3 DEF Safe
  <2>4. CASE Extend(c)
    <3>1. c # d /\ home[c] \in Sessions
      BY <2>0, <2>4, <1>a DEF Extend, AtHome, Steps
    <3>2. ASSUME c \in live PROVE cache'[home[d]] # None => cache'[home[d]][d] # 0
      <4> DEFINE more == More(cache[home[c]], c)
      <4>1. cache[home[c]] \in Lists /\ cache[home[c]] # None
        BY <3>1, <3>2 DEF ListInv, RecordTypes
      <4>2. more[d] = cache[home[c]][d]
        BY <3>1, <4>1, OneMore
      <4>3. cache' = [cache EXCEPT ![home[c]] = more]
        BY <2>4, <3>2 DEF Extend
      <4>4. QED
        <5> HIDE DEF more
        <5> QED BY <1>a, <3>1, <4>1, <4>2, <4>3 DEF RecordTypes
    <3>3. cache'[home[d]] # None => cache'[home[d]][d] # 0
      BY <1>a, <2>4, <3>2 DEF Extend
    <3>4. /\ step'[d] \notin Early \cup {"append"}
          /\ \A q \in Detections : step'[q] \in Carrying \cup {"truncate"} =>
                step'[q] = step[q]
      BY <2>4, <3>1, <1>a DEF Extend, Goto, RecordTypes
    <3>5. UNCHANGED <<snapshot, journal, opStep, target, dump, home, payload>>
      BY <2>4 DEF Extend, files, held
    <3>6. QED
      BY <1>a, <3>3, <3>4, <3>5 DEF Safe
  <2>5. CASE Append(c)
    <3>1. c # d /\ home[c] \in Sessions
      BY <2>0, <2>5, <1>a DEF Append, AtHome, Steps
    <3>2. journal'[home[d]][d] = journal[home[d]][d]
      <4> DEFINE more == More(journal[home[c]], c)
      <4>1. journal[home[c]] \in Lists
        BY <3>1 DEF RecordTypes
      <4>2. more[d] = journal[home[c]][d]
        BY <3>1, <4>1, OneMore
      <4>3. journal' = journal \/ journal' = [journal EXCEPT ![home[c]] = more]
        BY <2>5 DEF Append
      <4>4. QED
        <5> HIDE DEF more
        <5> QED BY <1>a, <3>1, <4>2, <4>3 DEF RecordTypes
    <3>3. /\ step'[d] \notin Early \cup {"append"}
          /\ \A q \in Detections : step'[q] \in Carrying \cup {"truncate"} =>
                step'[q] = step[q]
      BY <2>5, <3>1, <1>a DEF Append, Goto, RecordTypes
    <3>4. UNCHANGED <<snapshot, cache, opStep, target, dump, home, payload>>
      BY <2>5 DEF Append, held
    <3>5. QED
      BY <1>a, <3>2, <3>3, <3>4 DEF Safe
  <2>6. CASE Flush(c)
    <3>1. /\ step'[d] \notin Early \cup {"append"}
          /\ \A q \in Detections : step'[q] \in Carrying \cup {"truncate"} =>
                \/ step'[q] = step[q] /\ payload'[q] = payload[q]
                \/ /\ q = c /\ step'[q] # "truncate"
                   /\ cache[home[q]] # None /\ payload'[q] = cache[home[q]]
      BY <2>6, <1>a DEF Flush, Goto, RecordTypes
    <3>2. UNCHANGED <<snapshot, journal, cache, opStep, target, dump, home>>
      BY <2>6 DEF Flush, files, held
    <3>3. QED
      BY <1>a, <3>1, <3>2 DEF Safe
  <2>7. CASE FlushReplace(c)
    <3>1. /\ snapshot'[home[d]] = snapshot[home[d]] \/ snapshot'[home[d]][d] # 0
          /\ home[c] = home[d] => snapshot'[home[d]][d] # 0
      BY <2>7, <1>a DEF FlushReplace, RecordTypes
    <3>2. /\ step'[d] \notin Early \cup {"append"}
          /\ \A q \in Detections :
                /\ step'[q] \in Carrying => step'[q] = step[q] /\ payload'[q] = payload[q]
                /\ step'[q] = "truncate" => step'[q] = step[q] \/ q = c
      BY <2>7, <1>a DEF FlushReplace, Goto, RecordTypes
    <3>3. UNCHANGED <<journal, cache, opStep, target, dump, home>>
      BY <2>7 DEF FlushReplace, held
    <3>4. QED
      BY <1>a, <3>1, <3>2, <3>3 DEF Safe
  <2>8. CASE FlushTruncate(c)
    <3>1. journal'[home[d]] = journal[home[d]] \/ snapshot[home[d]][d] # 0
      BY <2>8, <1>a DEF FlushTruncate, RecordTypes
    <3>2. /\ step'[d] \notin Early \cup {"append"}
          /\ \A q \in Detections : step'[q] \in Carrying \cup {"truncate"} =>
                step'[q] = step[q]
      BY <2>8, <1>a DEF FlushTruncate, Goto, RecordTypes
    <3>3. UNCHANGED <<snapshot, cache, opStep, target, dump, home, payload>>
      BY <2>8 DEF FlushTruncate, held
    <3>4. QED
      BY <1>a, <3>1, <3>2, <3>3 DEF Safe
  <2>9. QED
    BY <1>9, <2>1, <2>2, <2>3, <2>4, <2>5, <2>6, <2>7, <2>8 DEF Record
<1>10. CASE Crash \/ \E c \in Detections : CrashInAppend(c)
  <2>1. Die
    BY <1>10 DEF Crash, CrashInAppend
  <2>2. \A c \in Detections : step'[c] \in {"idle", "done"}
    BY <2>1 DEF Die, InProgress, RecordTypes
  <2>3. step'[d] = "done"
    BY <1>a, <2>1 DEF Die, InProgress, RecordTypes
  <2>4. /\ cache'[home[d]] = None /\ opStep' = "idle"
        /\ UNCHANGED <<snapshot, journal, home>>
    BY <1>a, <2>1 DEF Die
  <2>5. QED
    BY <1>a, <2>2, <2>3, <2>4 DEF Safe
<1>11. QED
  BY <1>1, <1>2, <1>3, <1>4, <1>5, <1>6, <1>7, <1>8, <1>9, <1>10
  DEF Next, Locked, Record

\* Only a call records its detection; a line that is glued stays lost.
LEMMA RecordedBy ==
    ASSUME [Next]_vars
    PROVE  /\ glued \subseteq glued'
           /\ \/ recorded' = recorded
              \/ \E c \in Detections : Append(c)
<1>1. CASE Locked
  BY <1>1 DEF Locked, WriteMetadata, WriteIndex, Refresh, Dump, Replace, Truncate,
     Evict, ghosts
<1>2. CASE \E c \in Detections : Append(c)
  BY <1>2 DEF Append
<1>3. CASE (\E c \in Detections : Record(c)) /\ ~ \E c \in Detections : Append(c)
  BY <1>3 DEF Record, EnsureSession, StartSession, JoinSession, GetCache, Install,
     Extend, Flush, FlushReplace, FlushTruncate, Metrics, ghosts
<1>4. CASE ~(Locked \/ \E c \in Detections : Record(c))
  BY <1>4 DEF Next, Restart, Tick, GetCurrentSession, StartSession, StopSession,
     FlushAll, Crash, CrashInAppend, Die, vars, ghosts
<1>5. QED
  BY <1>1, <1>2, <1>3, <1>4 DEF Record

LEMMA SafeStep ==
    LifeInv /\ RecordTypes /\ ListInv /\ AloneInv /\ HoldsInv /\ SafeInv /\ [Next]_vars
    => SafeInv'
<1> SUFFICES ASSUME LifeInv, RecordTypes, ListInv, AloneInv, HoldsInv, SafeInv,
                    [Next]_vars, NEW d \in recorded', d \notin overlapped',
                    d \notin glued'
             PROVE  Safe(d)'
  BY DEF SafeInv
<1>1. d \notin overlapped /\ d \notin glued
  BY OverlapsStay, RecordedBy DEF vars, ghosts
<1>2. CASE d \in recorded
  <2>1. d \in Detections /\ Safe(d)
    BY <1>1, <1>2 DEF SafeInv, RecordTypes
  <2>2. QED
    BY <2>1, SafeStays
<1>3. CASE d \notin recorded
  <2>1. d \in Detections /\ Append(d)
    BY <1>3, RecordedBy DEF Append
  <2>2. /\ \A c \in Detections \ {d} : step[c] \in {"idle", "done"}
        /\ opStep \in {"idle", "metadata", "index", "refresh"}
    <3>1. d \in InProgress
      BY <2>1 DEF Append, InProgress
    <3>2. QED
      BY <1>1, <2>1, <3>1, Alone
  <2>3. home[d] \in Sessions /\ cache[home[d]] # None /\ cache[home[d]][d] = 1
    BY <1>1, <2>1 DEF Append, HoldsInv, RecordTypes, AtHome, Steps
  <2>4. ~torn[home[d]]
    BY <1>1, <2>1 DEF Append
  <2>5. journal'[home[d]][d] # 0
    <3> DEFINE more == More(journal[home[d]], d)
    <3>1. journal[home[d]] \in Lists
      BY <2>3 DEF RecordTypes
    <3>2. more[d] # 0
      <4>1. journal[home[d]][d] \in Copies /\ 1 \in Copies
        BY <2>1, <3>1 DEF Lists, Copies
      <4>2. Plus(journal[home[d]][d], 1) # 0
        BY <4>1, PlusCopies
      <4>3. QED
        BY <2>1, <3>1, <4>2, OneMore
    <3>3. journal' = [journal EXCEPT ![home[d]] = more]
      BY <2>1, <2>4 DEF Append
    <3>4. QED
      <4> HIDE DEF more
      <4> QED BY <2>3, <3>2, <3>3 DEF RecordTypes
  <2>6. /\ step'[d] = "flush"
        /\ \A c \in Detections : step'[c] \notin Carrying \cup {"truncate"}
    BY <2>1, <2>2 DEF Append, Goto, RecordTypes, Carrying
  <2>7. UNCHANGED <<cache, opStep, target, home>>
    BY <2>1 DEF Append, held
  <2>8. QED
    BY <2>2, <2>3, <2>5, <2>6, <2>7 DEF Safe, Early
<1>4. QED
  BY <1>2, <1>3

\* A crash between the two writes of a compaction is remembered.
LEMMA StraddlesStay == Next => straddled \subseteq straddled'
<1> SUFFICES ASSUME Next PROVE straddled \subseteq straddled'
  OBVIOUS
<1>1. CASE Locked
  BY <1>1 DEF Locked, WriteMetadata, WriteIndex, Refresh, Dump, Replace, Truncate,
     Evict, ghosts
<1>2. CASE \E c \in Detections : Record(c)
  BY <1>2 DEF Record, EnsureSession, StartSession, JoinSession, GetCache,
     Install, Extend, Append, Flush, FlushReplace, FlushTruncate, Metrics, ghosts
<1>3. CASE ~(Locked \/ \E c \in Detections : Record(c))
  BY <1>3 DEF Next, Restart, Tick, GetCurrentSession, StartSession, StopSession,
     FlushAll, Crash, CrashInAppend, Die, ghosts
<1>4. QED
  BY <1>1, <1>2, <1>3

LEMMA OnceStep ==
    /\ LifeInv /\ RecordTypes /\ ListInv /\ EarlyInv /\ AloneInv /\ HoldsInv /\ OnceInv
    /\ [Next]_vars
    => OnceInv'
<1> SUFFICES ASSUME LifeInv, RecordTypes, ListInv, EarlyInv, AloneInv, HoldsInv,
                    OnceInv, [Next]_vars, NEW d \in Detections,
                    d \notin overlapped' \cup straddled'
             PROVE  /\ \A s \in Sessions : Once(d, s)'
                    /\ dump'[d] \in {0, 1}
                    /\ \A c \in Detections : payload'[c][d] \in {0, 1}
  BY DEF OnceInv
<1> DEFINE Goal == /\ \A s \in Sessions : Once(d, s)'
                   /\ dump'[d] \in {0, 1}
                   /\ \A c \in Detections : payload'[c][d] \in {0, 1}
<1>0. /\ current \in Sessions \cup {None}
      /\ opStep \in {"metadata", "index", "refresh", "evict"} => target \in Sessions
      /\ target \in Sessions \cup {None}
      /\ op = "none" <=> opStep = "idle"
      /\ op = "start" => opStep \in {"metadata", "index", "refresh"}
  BY DEF LifeInv, Types, LockInv, Operations
<1>a. d \notin overlapped
  BY OverlapsStay DEF vars, ghosts
<1>b. /\ \A s \in Sessions : Once(d, s)
      /\ dump[d] \in {0, 1}
      /\ \A c \in Detections : payload[c][d] \in {0, 1}
  BY <1>a, StraddlesStay DEF OnceInv, vars, ghosts
<1>c. \A s \in Sessions : cache[s] = None => ReadFiles(s)[d] \in {0, 1}
  BY <1>b, OnceRead DEF Once
<1>d. ASSUME NEW q \in Sessions, Loaded(q)
      PROVE  /\ \A s \in Sessions : cache'[s] # None => cache'[s][d] \in {0, 1}
             /\ \A s \in Sessions : cache'[s] = None => cache[s] = None
  BY <1>b, <1>c, <1>d, LoadedGives DEF Once
<1>e. NoRecords[d] = 0
  BY NoRecordsList
<1> USE DEF Writing
<1>1. CASE \/ Restart \/ Tick \/ StopSession \/ FlushAll \/ WriteMetadata
           \/ WriteIndex \/ UNCHANGED vars
  <2>1. UNCHANGED <<snapshot, journal, cache, dump, step, home, payload>>
    BY <1>1 DEF Restart, Tick, StopSession, FlushAll, WriteMetadata, WriteIndex,
       vars, files, held, calls
  <2>2. \/ opStep' = opStep /\ target' = target
        \/ opStep # "truncate" /\ opStep' \notin {"truncate", "evict"}
    BY <1>0, <1>1 DEF Restart, Tick, StopSession, FlushAll, WriteMetadata, WriteIndex,
       Free, vars, held
  <2>3. QED
    BY <1>b, <2>1, <2>2 DEF Once, Between
<1>2. CASE GetCurrentSession
  <2>1. /\ \A s \in Sessions : cache'[s] # None => cache'[s][d] \in {0, 1}
        /\ \A s \in Sessions : cache'[s] = None => cache[s] = None
    BY <1>0, <1>2, <1>d DEF GetCurrentSession
  <2>2. UNCHANGED <<snapshot, journal, opStep, target, dump, step, home, payload>>
    BY <1>2 DEF GetCurrentSession, files, held, calls
  <2>3. QED
    BY <1>b, <2>1, <2>2 DEF Once, Between
<1>3. ASSUME NEW who \in Detections \cup {None}, StartSession(who)
      PROVE  Goal
  <2>1. UNCHANGED <<snapshot, journal, cache, dump, step, home, payload>>
    BY <1>3 DEF StartSession, files, calls
  <2>2. opStep = "idle" /\ opStep' = "metadata"
    BY <1>0, <1>3 DEF StartSession, Free
  <2>3. QED
    BY <1>b, <2>1, <2>2 DEF Once, Between
<1>4. CASE Refresh
  <2>1. /\ \A s \in Sessions : cache'[s] # None => cache'[s][d] \in {0, 1}
        /\ \A s \in Sessions : cache'[s] = None => cache[s] = None
    BY <1>0, <1>4, <1>d DEF Refresh
  <2>2. \A c \in Detections :
           \/ step'[c] = step[c] /\ home'[c] = home[c]
           \/ step[c] \notin Writing /\ step'[c] \notin Writing
    BY <1>4 DEF Refresh, Admit, RecordTypes
  <2>3. opStep \notin {"truncate", "evict"} /\ opStep' \notin {"truncate", "evict"}
    BY <1>4 DEF Refresh, Release
  <2>4. UNCHANGED <<snapshot, journal, dump, payload>>
    BY <1>4 DEF Refresh, files
  <2>5. QED
    BY <1>b, <2>1, <2>2, <2>3, <2>4 DEF Once, Between
<1>5. CASE Dump
  <2>1. dump'[d] \in {0, 1}
    BY <1>5, <1>b DEF Dump, ListInv, Once
  <2>2. UNCHANGED <<snapshot, journal, cache, target, step, home, payload>>
    BY <1>5 DEF Dump, files, calls
  <2>3. opStep = "dump" /\ opStep' = "replace"
    BY <1>5 DEF Dump
  <2>4. QED
    BY <1>b, <2>1, <2>2, <2>3 DEF Once, Between
<1>6. CASE Replace
  <2>1. target \in Sessions /\ cache[target] # None
    BY <1>6 DEF Replace, ListInv
  <2>2. /\ snapshot'[target] = dump
        /\ \A s \in Sessions \ {target} : snapshot'[s] = snapshot[s]
    BY <1>6, <2>1 DEF Replace, RecordTypes
  <2>3. UNCHANGED <<journal, cache, target, step, home, payload>>
    BY <1>6 DEF Replace, calls
  <2>4. opStep = "replace" /\ opStep' = "truncate" /\ dump'[d] = 0
    BY <1>6, <1>e DEF Replace
  <2>5. QED
    BY <1>b, <2>1, <2>2, <2>3, <2>4 DEF Once, Between
<1>7. CASE Truncate
  <2>1. target \in Sessions /\ cache[target] # None
    BY <1>7 DEF Truncate, ListInv
  <2>2. /\ journal'[target][d] = 0
        /\ \A s \in Sessions \ {target} : journal'[s] = journal[s]
    BY <1>7, <1>e, <2>1 DEF Truncate, RecordTypes
  <2>3. UNCHANGED <<snapshot, cache, dump, step, home, payload>>
    BY <1>7 DEF Truncate, calls
  <2>4. /\ opStep = "truncate"
        /\ \/ opStep' \in {"idle", "dump"}
           \/ opStep' = "evict" /\ target' = target
    BY <1>7 DEF Truncate, Release
  <2>5. QED
    BY <1>b, <2>1, <2>2, <2>3, <2>4 DEF Once, Between
<1>8. CASE Evict
  <2>1. target \in Sessions
    BY <1>0, <1>8 DEF Evict
  <2>2. /\ cache'[target] = None
        /\ \A s \in Sessions \ {target} : cache'[s] = cache[s]
    BY <1>8, <2>1 DEF Evict, RecordTypes
  <2>3. UNCHANGED <<snapshot, journal, dump, step, home, payload>>
    BY <1>8 DEF Evict, files
  <2>4. opStep = "evict" /\ opStep' = "idle"
    BY <1>8 DEF Evict, Release
  <2>5. QED
    BY <1>b, <2>1, <2>2, <2>3, <2>4 DEF Once, Between
<1>9. ASSUME NEW c \in Detections, Record(c), ~StartSession(c)
      PROVE  Goal
  <2>0. step[c] \in AtHome => home[c] \in Sessions
    BY DEF RecordTypes
  <2>1. CASE EnsureSession(c) \/ JoinSession(c)
    <3>1. /\ \A s \in Sessions : cache'[s] # None => cache'[s][d] \in {0, 1}
          /\ \A s \in Sessions : cache'[s] = None => cache[s] = None
      BY <1>0, <1>b, <1>d, <2>1 DEF EnsureSession, JoinSession, Once
    <3>2. \A q \in Detections :
             \/ step'[q] = step[q] /\ home'[q] = home[q]
             \/ step[q] \notin Writing /\ step'[q] \notin Writing
      BY <2>1 DEF EnsureSession, JoinSession, Admit, Goto, RecordTypes
    <3>3. UNCHANGED <<snapshot, journal, opStep, target, dump, payload>>
      BY <2>1 DEF EnsureSession, JoinSession, files, held
    <3>4. QED
      BY <1>b, <3>1, <3>2, <3>3 DEF Once, Between
  <2>2. CASE GetCache(c) \/ Metrics(c)
    <3>1. home[c] \in Sessions
      BY <2>0, <2>2 DEF GetCache, Metrics, AtHome, Steps
    <3>2. \A q \in Detections : payload'[q][d] \in {0, 1}
      BY <1>b, <1>c, <2>2, <3>1 DEF GetCache, Metrics, RecordTypes
    <3>3. \A q \in Detections :
             \/ step'[q] = step[q]
             \/ step[q] \notin Writing /\ step'[q] \notin Writing
      BY <2>2 DEF GetCache, Metrics, Goto, RecordTypes
    <3>4. UNCHANGED <<snapshot, journal, cache, opStep, target, dump, home>>
      BY <2>2 DEF GetCache, Metrics, files, held
    <3>5. QED
      BY <1>b, <3>2, <3>3, <3>4 DEF Once, Between
  <2>3. CASE Install(c)
    <3>1. home[c] \in Sessions /\ payload[c] # None
      BY <2>0, <2>3, NoneIsNoList DEF Install, RecordTypes, AtHome, Steps
    <3>2. /\ cache'[home[c]] = payload[c]
          /\ \A s \in Sessions \ {home[c]} : cache'[s] = cache[s]
      BY <2>3, <3>1 DEF Install, RecordTypes
    <3>3. \A q \in Detections : payload'[q][d] \in {0, 1}
      BY <1>b, <1>e, <2>3 DEF Install, RecordTypes
    <3>4. \A q \in Detections :
             \/ step'[q] = step[q]
             \/ step[q] \notin Writing /\ step'[q] \notin Writing
      BY <2>3 DEF Install, Goto, RecordTypes
    <3>5. UNCHANGED <<snapshot, journal, opStep, target, dump, home>>
      BY <2>3 DEF Install, files, held
    <3>6. QED
      BY <1>b, <3>1, <3>2, <3>3, <3>4, <3>5 DEF Once, Between
  <2>4. CASE Extend(c)
    <3>1. home[c] \in Sessions
      BY <2>0, <2>4 DEF Extend, AtHome, Steps
    <3>2. /\ \A s \in Sessions : cache'[s] # None => cache'[s][d] \in {0, 1}
          /\ \A s \in Sessions : cache'[s] = None => cache[s] = None
      <4>1. CASE c \in live
        <5> DEFINE more == More(cache[home[c]], c)
        <5>1. cache[home[c]] \in Lists /\ cache[home[c]] # None
          BY <3>1, <4>1 DEF ListInv, RecordTypes
        <5>2. more[d] \in {0, 1} /\ more # None
          <6>1. c = d => cache[home[c]][d] = 0
            BY <2>4, <3>1, <5>1 DEF Extend, EarlyInv, Early, Absent
          <6>2. cache[home[c]][d] \in {0, 1}
            BY <1>b, <3>1, <5>1 DEF Once
          <6>3. QED
            BY <5>1, <6>1, <6>2, OneMore, NoneIsNoList DEF Plus
        <5>3. cache' = [cache EXCEPT ![home[c]] = more]
          BY <2>4, <4>1 DEF Extend
        <5>4. QED
          <6> HIDE DEF more
          <6> QED BY <1>b, <3>1, <5>1, <5>2, <5>3 DEF RecordTypes, Once
      <4>2. CASE c \notin live
        BY <1>b, <2>4, <4>2 DEF Extend, Once
      <4>3. QED
        BY <4>1, <4>2
    <3>3. \A q \in Detections :
             \/ step'[q] = step[q]
             \/ step[q] \notin Writing /\ step'[q] \notin Writing
      BY <2>4 DEF Extend, Goto, RecordTypes
    <3>4. UNCHANGED <<snapshot, journal, opStep, target, dump, home, payload>>
      BY <2>4 DEF Extend, files, held
    <3>5. QED
      BY <1>b, <3>2, <3>3, <3>4 DEF Once, Between
  <2>5. CASE Append(c)
    <3>1. home[c] \in Sessions
      BY <2>0, <2>5 DEF Append, AtHome, Steps
    <3> DEFINE more == More(journal[home[c]], c)
    <3>2. journal' = journal \/ journal' = [journal EXCEPT ![home[c]] = more]
      BY <2>5 DEF Append
    <3>3. journal[home[c]] \in Lists
      BY <3>1 DEF RecordTypes
    <3>4. \A q \in Detections :
             \/ step'[q] = step[q]
             \/ step[q] \notin Writing /\ step'[q] \notin Writing
      BY <2>5 DEF Append, Goto, RecordTypes
    <3>5. UNCHANGED <<snapshot, cache, opStep, target, dump, home, payload>>
      BY <2>5 DEF Append, held
    <3>6. CASE c # d
      <4>1. more[d] = journal[home[c]][d]
        BY <3>3, <3>6, OneMore
      <4>2. \A s \in Sessions : journal'[s][d] = journal[s][d]
        <5> HIDE DEF more
        <5> QED BY <3>1, <3>2, <4>1 DEF RecordTypes
      <4>3. QED
        BY <1>b, <3>4, <3>5, <4>2 DEF Once, Between
    <3>7. CASE c = d
      <4>1. opStep # "evict"
        <5>1. d \in InProgress
          BY <2>5, <3>7 DEF Append, InProgress
        <5>2. QED
          BY <1>a, <5>1, Alone
      <4>2. /\ cache[home[c]] # None
            /\ \A s \in Sessions : snapshot[s][d] = 0 /\ journal[s][d] = 0
        BY <1>a, <2>5, <3>7 DEF Append, HoldsInv
      <4>3. more[d] = 1
        BY <3>1, <3>3, <3>7, <4>2, OneMore DEF Plus
      <4>4. /\ journal'[home[c]][d] \in {0, 1}
            /\ \A s \in Sessions \ {home[c]} : journal'[s] = journal[s]
        <5> HIDE DEF more
        <5> QED BY <3>1, <3>2, <4>2, <4>3 DEF RecordTypes
      <4>5. QED
        BY <1>b, <3>1, <3>4, <3>5, <4>1, <4>2, <4>4 DEF Once, Between
    <3>8. QED
      BY <3>6, <3>7
  <2>6. CASE Flush(c)
    <3>1. home[c] \in Sessions
      BY <2>0, <2>6 DEF Flush, AtHome, Steps
    <3>2. \A q \in Detections : payload'[q][d] \in {0, 1}
      BY <1>b, <2>6, <3>1 DEF Flush, RecordTypes, Once
    <3>3. \A q \in Detections :
             \/ step'[q] = step[q]
             \/ /\ step[q] \notin {"truncate"} /\ step'[q] \notin {"truncate"}
                /\ step'[q] = "replace" => cache[home[q]] # None
      BY <2>6 DEF Flush, Goto, RecordTypes
    <3>4. UNCHANGED <<snapshot, journal, cache, opStep, target, dump, home>>
      BY <2>6 DEF Flush, files, held
    <3>5. QED
      BY <1>b, <3>2, <3>3, <3>4 DEF Once, Between
  <2>7. CASE FlushReplace(c)
    <3>1. home[c] \in Sessions
      BY <2>0, <2>7 DEF FlushReplace, AtHome, Steps
    <3>2. /\ snapshot'[home[c]] = payload[c]
          /\ \A s \in Sessions \ {home[c]} : snapshot'[s] = snapshot[s]
      BY <2>7, <3>1 DEF FlushReplace, RecordTypes
    <3>3. \A q \in Detections : payload'[q][d] \in {0, 1}
      BY <1>b, <1>e, <2>7 DEF FlushReplace, RecordTypes
    <3>4. /\ \A q \in Detections \ {c} : step'[q] = step[q]
          /\ step[c] = "replace" /\ step'[c] = "truncate"
      BY <2>7 DEF FlushReplace, Goto, RecordTypes
    <3>5. UNCHANGED <<journal, cache, opStep, target, dump, home>>
      BY <2>7 DEF FlushReplace, held
    <3>6. QED
      BY <1>b, <3>1, <3>2, <3>3, <3>4, <3>5 DEF Once, Between
  <2>8. CASE FlushTruncate(c)
    <3>1. home[c] \in Sessions
      BY <2>0, <2>8 DEF FlushTruncate, AtHome, Steps
    <3>2. /\ journal'[home[c]][d] = 0
          /\ \A s \in Sessions \ {home[c]} : journal'[s] = journal[s]
      BY <1>e, <2>8, <3>1 DEF FlushTruncate, RecordTypes
    <3>3. /\ \A q \in Detections \ {c} : step'[q] = step[q]
          /\ step[c] = "truncate" /\ step'[c] = "metrics"
      BY <2>8 DEF FlushTruncate, Goto, RecordTypes
    <3>4. UNCHANGED <<snapshot, cache, opStep, target, dump, home, payload>>
      BY <2>8 DEF FlushTruncate, held
    <3>5. QED
      BY <1>b, <3>1, <3>2, <3>3, <3>4 DEF Once, Between
  <2>9. QED
    BY <1>9, <2>1, <2>2, <2>3, <2>4, <2>5, <2>6, <2>7, <2>8 DEF Record
<1>10. CASE Crash \/ \E c \in Detections : CrashInAppend(c)
  <2>1. Die
    BY <1>10 DEF Crash, CrashInAppend
  <2>2. d \notin Straddling
    BY <2>1 DEF Die
  <2>3. \A s \in Sessions : snapshot[s][d] = 0 \/ journal[s][d] = 0
    BY <1>b, <2>2 DEF Straddling, Once, Between
  <2>4. /\ \A s \in Sessions : cache'[s] = None
        /\ \A c \in Detections : step'[c] \in {"idle", "done"}
        /\ opStep' = "idle"
        /\ UNCHANGED <<snapshot, journal>>
    BY <2>1 DEF Die, InProgress, RecordTypes
  <2>5. dump'[d] = 0 /\ \A c \in Detections : payload'[c][d] = 0
    BY <1>e, <2>1 DEF Die
  <2>6. QED
    BY <1>b, <2>3, <2>4, <2>5 DEF Once
<1>11. QED
  BY <1>1, <1>2, <1>3, <1>4, <1>5, <1>6, <1>7, <1>8, <1>9, <1>10
  DEF Next, Locked, Record

-----------------------------------------------------------------------------

\* The inductive invariant of the detections holds in every reachable state,
\* for any number of calls that interleave with each other, with stops and
\* with shutdowns, and wherever a crash falls.
THEOREM RecordInvariance == Spec => []IInv
<1>1. Init => IInv
  BY InitLife, InitRecords DEF IInv
<1>2. IInv /\ [Next]_vars => IInv'
  <2> SUFFICES ASSUME IInv, [Next]_vars PROVE IInv'
    OBVIOUS
  <2> USE DEF IInv, RecordInv
  <2>1. LifeInv'
    BY NextLife
  <2>2. RecordTypes'
    BY TypesStep
  <2>3. ListInv'
    BY <2>2, ListStep
  <2>4. EarlyInv' /\ AloneInv'
    BY EarlyStep, AloneStep
  <2>5. HoldsInv' /\ SafeInv' /\ OnceInv'
    BY HoldsStep, SafeStep, OnceStep
  <2>6. QED
    BY <2>1, <2>2, <2>3, <2>4, <2>5
<1>3. QED
  BY <1>1, <1>2, PTL DEF Spec

\* Every variable of the session store keeps its type: in particular a call
\* that is at work on a list has a mission, and what is in memory is a list.
THEOREM TypeCorrect == Spec => []TypeOK
<1>1. IInv => TypeOK
  BY DEF IInv, LifeInv, Types, RecordInv, RecordTypes, TypeOK
<1>2. QED
  BY <1>1, RecordInvariance, PTL

\* A detection whose call overlapped no other call, stop or shutdown, and was
\* not appended to a line that a crash cut short, is never lost from the files.
THEOREM Durability == Spec => []SequentialCallsAreDurable
<1>1. ASSUME IInv PROVE SequentialCallsAreDurable
  <2> SUFFICES ASSUME NEW d \in recorded \ (overlapped \cup glued) PROVE d \in Detections /\ Kept(d)
    BY DEF SequentialCallsAreDurable
  <2>1. d \in Detections /\ Safe(d)
    BY <1>1 DEF IInv, RecordInv, RecordTypes, SafeInv
  <2>2. RecordTypes
    BY <1>1 DEF IInv, RecordInv
  <2>3. ReadFiles(home[d])[d] \in Nat \ {0}
    BY <2>1, <2>2, FilesGive DEF Safe
  <2>4. QED
    BY <2>1, <2>3 DEF Safe, Kept
<1>2. QED
  BY <1>1, RecordInvariance, PTL

\* A detection whose call overlapped nothing is counted once by every list in
\* memory, unless the process died between the two writes of a compaction.
THEOREM SingleCount == Spec => []CountedOnce
<1>1. ASSUME IInv PROVE CountedOnce
  <2> SUFFICES ASSUME NEW s \in Sessions, cache[s] # None,
                      NEW d \in Detections \ (overlapped \cup straddled)
               PROVE  cache[s][d] <= 1
    BY DEF CountedOnce
  <2>1. cache[s][d] \in {0, 1}
    BY <1>1 DEF IInv, RecordInv, OnceInv, Once
  <2>2. QED
    BY <2>1
<1>2. QED
  BY <1>1, RecordInvariance, PTL

=============================================================================
