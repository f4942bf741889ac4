------------------------ MODULE MissionPipelineProofs ------------------------
(***************************************************************************)
(* Proofs about MissionPipeline, for any number of results, missions and   *)
(* kinds of events.                                                        *)
(***************************************************************************)
EXTENDS MissionPipeline, TLAPS

\* What a start-up would read: the current events over the history.
Brings == [e \in Detections |->
             IF currentEvents[e] # None THEN currentEvents[e] ELSE eventHistory[e]]

\* The keys index exactly the open events, and current ones are open.
IndexInv ==
    /\ \A e \in Open(events) : Key(e) \in Keys /\ active[Key(e)] = e
    /\ \A k \in Keys : active[k] # None => active[k] \in OpenUnder(events, k)
    /\ current \subseteq Open(events)

\* The files: what one of them closed is open nowhere, and a start-up would
\* find at most one open event for a key.
DiskInv ==
    /\ \A e \in Detections : currentEvents[e] # None => e \in Open(currentEvents)
    /\ \A e \in Open(Brings) : Key(e) \in Keys
    /\ \A e, f \in Open(Brings) : Key(e) = Key(f) => e = f
    /\ \A e \in Detections :
          eventHistory[e] # None /\ eventHistory[e].status = "RESOLVED" =>
              currentEvents[e] = None /\ e \notin Open(events)

\* How far the files are behind the memory at each step of _persist().
StepInv ==
    /\ up /\ evStep = "idle" => eventHistory = events
    /\ up /\ evStep # "current" =>
          \A e \in Detections :
              currentEvents[e] = IF e \in current THEN events[e] ELSE None
    /\ evStep = "current" =>
          \A e \in current : \A f \in Open(eventHistory) :
              Key(e) = Key(f) => e = f \/ f \in current
    /\ evStep = "idle" <=> holder = None
    /\ ~up => /\ evStep = "idle"
              /\ events = NoEvents
              /\ current = {}
              /\ active = NoKeys

TornInv ==
    /\ up => Open(events) = current \cup torn /\ current \cap torn = {}
    /\ ~up => torn = CutOff

\* A result that was not given to the events yet has none of its own.
FreshInv ==
    \A d \in Detections : step[d] \in {"idle", "store", "events"} =>
        /\ events[d] = None
        /\ currentEvents[d] = None
        /\ eventHistory[d] = None
        /\ d \notin torn

StoredInv ==
    /\ \A d \in Detections : step[d] = "events" => d \in stored
    /\ \A e \in Detections :
          /\ events[e] # None => events[e].related \subseteq stored
          /\ currentEvents[e] # None => currentEvents[e].related \subseteq stored
          /\ eventHistory[e] # None => eventHistory[e].related \subseteq stored

\* Missions are started in order, and a result no stop came across is at home
\* in the mission that runs.
WorldInv ==
    /\ running # None => running = started
    /\ \A d \in Detections :
          /\ step[d] # "idle" => mission[d] \in Missions /\ mission[d] <= started
          /\ step[d] = "idle" => filed[d] = None /\ home[d] = None
          /\ d \in InFlight \ cut => running = mission[d]
          /\ d \in InFlight => up
    /\ FiledTogether

\* A mission that was stopped does not run again.
Past(m) == m \in Missions /\ m <= started /\ running # m

RouteInv ==
    /\ ~up => route = "idle"
    /\ route = "idle" => stopping = None
    /\ route = "resolve" => stopping # None
    /\ stopping # None => IF route = "stop" THEN running = stopping ELSE Past(stopping)
    /\ route \in {"idle", "stop"} => ending = None
    /\ \A m \in closed \cup ({ending} \ {None}) : Past(m)

\* What remains open of a mission whose events were closed arrived late.
LateInv ==
    /\ \A e \in current :
          \/ mission[e] \in closed \ unseen
          \/ route \in {"clear", "erase"} /\ mission[e] = stopping
          => e \in late
    /\ \A e \in Detections :
          currentEvents[e] # None =>
          (\/ mission[e] \in closed \ unseen
           \/ route = "clear" /\ holder # "stop" /\ mission[e] = stopping
           \/ route = "erase" /\ mission[e] = stopping
           => e \in late)

IInv ==
    /\ TypeOK
    /\ IndexInv
    /\ DiskInv
    /\ StepInv
    /\ TornInv
    /\ FreshInv
    /\ StoredInv
    /\ WorldInv
    /\ RouteInv
    /\ LateInv

-----------------------------------------------------------------------------

LEMMA NoneIsNothing ==
    /\ None \notin Missions
    /\ None \notin Detections
    /\ None \notin Kinds
    /\ None \notin Event
    /\ None # 0
BY EventAssumption DEF Missions

\* A key of the table is a mission and a kind.
LEMMA KeyType ==
    ASSUME NEW d \in Detections, mission[d] \in Missions, kind[d] \in Kinds
    PROVE  Key(d) \in Keys
BY DEF Key, Keys

\* The stopping request and the mission that runs keep their types.
LEMMA LaunchType ==
    ASSUME TypeOK, Launch
    PROVE  /\ running' \in Missions
           /\ started' \in Missions
           /\ running' = started'
           /\ started' = started + 1
           /\ started \in Nat
<1>1. started \in Nat
  BY EventAssumption DEF TypeOK, Missions
<1> QED
  BY <1>1 DEF Launch

\* ensure_session() gives the mission that runs afterwards.
LEMMA EnsuredType ==
    ASSUME TypeOK, NEW m \in Missions, Ensured(m)
    PROVE  /\ running' = m
           /\ running' \in Missions
           /\ started' \in Missions \cup {0}
           /\ \/ running = m /\ started' = started
              \/ running = None /\ started' = started + 1 /\ m = started'
BY LaunchType, NoneIsNothing DEF Ensured, TypeOK

-----------------------------------------------------------------------------
(* Types.                                                                  *)

LEMMA InitIInv == Init => IInv
<1> SUFFICES ASSUME Init PROVE IInv
  OBVIOUS
<1> USE NoneIsNothing DEF Init, EvInit, Log!Init
<1>1. TypeOK
  BY DEF TypeOK, EvTypeOK, NoEvents, NoKeys, Holders, Steps
<1>2. IndexInv
  BY DEF IndexInv, Open, OpenUnder, NoEvents, NoKeys
<1>3. DiskInv
  BY DEF DiskInv, Open, Brings, NoEvents
<1>4. StepInv
  BY DEF StepInv, NoEvents, Open
<1>5. TornInv
  BY DEF TornInv, Open, NoEvents
<1>6. FreshInv
  BY DEF FreshInv, NoEvents
<1>7. StoredInv
  BY DEF StoredInv, NoEvents
<1>8. WorldInv
  BY DEF WorldInv, FiledTogether, InFlight
<1>9. RouteInv
  BY DEF RouteInv
<1>10. LateInv
  BY DEF LateInv, NoEvents
<1> QED
  BY <1>1, <1>2, <1>3, <1>4, <1>5, <1>6, <1>7, <1>8, <1>9, <1>10 DEF IInv

LEMMA RecordType ==
    ASSUME TypeOK, NEW d \in Detections, RecordDetection(d)
    PROVE  EvTypeOK'
<1> USE NoneIsNothing DEF RecordDetection, Take, evTags, evFiles, TypeOK, EvTypeOK
<1>1. CASE UpdateEvent(d)
  <2>1. Match(d) \in Detections => Joined(Match(d), d) \in Event
    BY <1>1 DEF Joined, Event, UpdateEvent
  <2>2. events' \in [Detections -> Event \cup {None}]
    BY <1>1, <2>1 DEF UpdateEvent
  <2> QED
    BY <1>1, <2>2 DEF UpdateEvent, Holders
<1>2. CASE CreateEvent(d)
  <2>1. [status |-> "NEW", related |-> {d}] \in Event
    BY DEF Event
  <2>2. events' \in [Detections -> Event \cup {None}]
    BY <1>2, <2>1 DEF CreateEvent
  <2>3. current' \in SUBSET Detections /\ active' \in [Keys -> Detections \cup {None}]
    BY <1>2 DEF CreateEvent
  <2>4. evStep' = "current" /\ holder' \in Holders
    BY DEF Holders
  <2> QED
    BY <2>2, <2>3, <2>4
<1> QED
  BY <1>1, <1>2

LEMMA ResolveType ==
    ASSUME TypeOK, NEW m \in Missions \cup {None}, ResolveSessionEvents(m)
    PROVE  EvTypeOK'
<1> USE DEF ResolveSessionEvents, Closing, Take, evTags, evFiles, TypeOK, EvTypeOK
<1>1. \A e \in Detections : events[e] # None =>
        [events[e] EXCEPT !.status = "RESOLVED"] \in Event
  BY DEF Event
<1>2. events' \in [Detections -> Event \cup {None}]
  BY <1>1
<1> QED
  BY <1>2 DEF Holders

LEMMA TypeStep == TypeOK /\ [Next]_vars => TypeOK'
<1> SUFFICES ASSUME TypeOK, [Next]_vars PROVE TypeOK'
  OBVIOUS
<1> USE DEF TypeOK, world, store, result, stop, ghosts, ends
<1>1. ASSUME NEW d \in Detections, ResultStep(d) PROVE TypeOK'
  <2>1. CASE Begin(d)
    BY <2>1, EnsuredType
       DEF Begin, Goto, Steps, EvTypeOK, evMemory, evFiles, evLock
  <2>2. CASE Store(d)
    BY <2>2 DEF Store, Goto, Steps, EvTypeOK, evVars, evTags, evMemory, evFiles,
                evLock, Log!Record
  <2>3. CASE RaiseEvent(d)
    BY <2>3, RecordType DEF RaiseEvent, Goto, Steps
  <2>4. CASE Acquire(d)
    BY <2>4, EnsuredType
       DEF Acquire, Goto, Steps, EvTypeOK, evVars, evTags, evMemory, evFiles, evLock
  <2>5. CASE ListDetection(d)
    BY <2>5, EnsuredType
       DEF ListDetection, Goto, Steps, EvTypeOK, evVars, evTags, evMemory, evFiles, evLock
  <2>6. CASE AppendManifest(d)
    BY <2>6 DEF AppendManifest, Goto, Steps, EvTypeOK, evVars, evTags, evMemory,
                evFiles, evLock
  <2> QED
    BY <1>1, <2>1, <2>2, <2>3, <2>4, <2>5, <2>6 DEF ResultStep
<1>2. CASE Request
  <2> USE DEF EvTypeOK, evVars, evTags, evMemory, evFiles, evLock
  <2>1. CASE StartRequest
    BY <2>1, LaunchType DEF StartRequest
  <2>2. CASE StopRequest
    BY <2>2 DEF StopRequest
  <2>3. CASE StopMission
    BY <2>3 DEF StopMission, InFlight
  <2>4. CASE ResolveEvents
    BY <2>4, ResolveType DEF ResolveEvents
  <2>5. CASE BeginClear \/ EraseDetections
    BY <2>5 DEF BeginClear, EraseDetections, Log!BeginErase, Log!Erase
  <2>6. CASE EndClear
    BY <2>6 DEF EndClear, Log!EndErase
  <2>7. CASE ClearRequest
    BY <2>7 DEF ClearRequest
  <2>8. CASE ClearEventsRequest
    BY <2>8 DEF ClearEventsRequest, ClearEvents, Take, NoEvents, NoKeys, Holders
  <2> QED
    BY <1>2, <2>1, <2>2, <2>3, <2>4, <2>5, <2>6, <2>7, <2>8 DEF Request
<1>3. CASE PersistEvents
  BY <1>3 DEF PersistEvents, WriteCurrentEvents, WriteEventHistory, EvTypeOK,
              evTags, evMemory, Holders
<1>4. CASE Crash
  BY <1>4 DEF Crash, LoseEvents, EvTypeOK, evTags, evFiles, NoEvents, NoKeys,
              Holders, Steps, CutOff, Open, Log!AbandonErase
<1>5. CASE Restart
  BY <1>5 DEF Restart, LoadEvents, Take, EvTypeOK, evTags, evFiles, Holders
<1>6. CASE UNCHANGED vars
  BY <1>6 DEF vars, EvTypeOK, evVars, evTags, evMemory, evFiles, evLock
<1> QED
  BY <1>1, <1>2, <1>3, <1>4, <1>5, <1>6 DEF Next

-----------------------------------------------------------------------------
(* The events: one lemma for each step that touches them.                  *)

EventInv == IndexInv /\ DiskInv /\ StepInv /\ TornInv

\* The event a detection is filed under has its key and is open.
LEMMA MatchIsOpen ==
    ASSUME IInv, NEW d \in Detections, Key(d) \in Keys, Match(d) # None
    PROVE  /\ Match(d) \in Detections
           /\ Match(d) \in Open(events)
           /\ Key(Match(d)) = Key(d)
BY DEF IInv, IndexInv, Match, OpenUnder, Open

\* Joining an event changes neither which events are open nor their keys.
LEMMA UpdateEvents ==
    ASSUME IInv, up, NEW d \in Detections, Key(d) \in Keys,
           Take(d), UpdateEvent(d), UNCHANGED <<evTags, evFiles, up, torn>>
    PROVE  EventInv'
<1> DEFINE e == Match(d)
<1> USE DEF IInv, TypeOK, EvTypeOK, Take, UpdateEvent, evTags, evFiles
<1>1. e \in Detections /\ e \in Open(events)
  BY MatchIsOpen
<1>2. events'[e] = Joined(e, d) /\ \A f \in Detections \ {e} : events'[f] = events[f]
  BY <1>1
<1>3. Open(events') = Open(events)
  BY <1>1, <1>2, NoneIsNothing DEF Open, Joined, Event
<1>4. \A f \in Detections : Key(f)' = Key(f)
  BY DEF Key
<1>5. IndexInv'
  <2>1. \A f \in Open(events') : Key(f)' \in Keys /\ active[Key(f)'] = f
    BY <1>3, <1>4 DEF IndexInv, Open
  <2>2. \A k \in Keys : active[k] # None =>
          active[k] \in {f \in Open(events') : Key(f)' = k}
    BY <1>3, <1>4 DEF IndexInv, OpenUnder, Open
  <2>3. current \subseteq Open(events')
    BY <1>3 DEF IndexInv
  <2> QED
    BY <2>1, <2>2, <2>3 DEF IndexInv, OpenUnder
<1>6. DiskInv'
  BY <1>3, <1>4 DEF DiskInv, Open, Brings
<1>7. StepInv'
  <2>1. \A f \in current : \A g \in Open(eventHistory) : Key(f) = Key(g) => f = g \/ g \in current
    <3>1. eventHistory = events
      BY DEF StepInv
    <3> QED
      BY <3>1 DEF IndexInv, Open
  <2>2. holder' # None
    BY NoneIsNothing
  <2> QED
    BY <2>1, <2>2, <1>4 DEF StepInv, Open
<1>8. TornInv'
  BY <1>3 DEF TornInv
<1> QED
  BY <1>5, <1>6, <1>7, <1>8 DEF EventInv

\* A new event is the only open one of its key.
LEMMA CreateEvents ==
    ASSUME IInv, up, NEW d \in Detections, Key(d) \in Keys, step[d] = "events",
           Take(d), CreateEvent(d), UNCHANGED <<evTags, evFiles, up, torn>>
    PROVE  EventInv'
<1> USE DEF IInv, TypeOK, EvTypeOK, Take, CreateEvent, evTags, evFiles
<1>1. /\ events[d] = None /\ currentEvents[d] = None /\ eventHistory[d] = None
      /\ d \notin torn
  BY DEF FreshInv
<1>2. /\ events'[d] # None /\ events'[d].status = "NEW"
      /\ \A f \in Detections \ {d} : events'[f] = events[f]
  BY NoneIsNothing DEF Event
<1>3. Open(events') = Open(events) \cup {d}
  BY <1>1, <1>2 DEF Open
<1>4. \A f \in Detections : Key(f)' = Key(f)
  BY DEF Key
<1>5. Match(d) = None
  BY MatchIsOpen DEF Open
<1>6. \A f \in Open(events) : Key(f) # Key(d)
  BY <1>5, NoneIsNothing DEF IndexInv, Match, Open
<1>7. /\ active'[Key(d)] = d
      /\ \A k \in Keys \ {Key(d)} : active'[k] = active[k]
  OBVIOUS
<1>8. IndexInv'
  <2>1. \A f \in Open(events') : Key(f)' \in Keys /\ active'[Key(f)'] = f
    BY <1>3, <1>4, <1>6, <1>7 DEF IndexInv, Open
  <2>2. \A k \in Keys : active'[k] # None =>
          active'[k] \in {f \in Open(events') : Key(f)' = k}
    BY <1>3, <1>4, <1>7 DEF IndexInv, OpenUnder, Open
  <2>3. current' \subseteq Open(events')
    BY <1>3 DEF IndexInv
  <2> QED
    BY <2>1, <2>2, <2>3 DEF IndexInv, OpenUnder
<1>9. DiskInv'
  BY <1>1, <1>3, <1>4 DEF DiskInv, Open, Brings
<1>10. StepInv'
  <2>1. eventHistory = events
    BY DEF StepInv
  <2>2. \A f \in current' : \A g \in Open(eventHistory) :
          Key(f) = Key(g) => f = g \/ g \in current'
    BY <2>1, <1>6 DEF IndexInv, Open
  <2>3. holder' # None
    BY NoneIsNothing
  <2> QED
    BY <2>2, <2>3, <1>4 DEF StepInv, Open
<1>11. TornInv'
  BY <1>1, <1>3 DEF TornInv
<1> QED
  BY <1>8, <1>9, <1>10, <1>11 DEF EventInv

\* Closing events opens none.
LEMMA ResolveEventsInv ==
    ASSUME IInv, up, NEW m \in Missions, ResolveSessionEvents(m),
           UNCHANGED <<up, torn>>
    PROVE  EventInv'
<1> USE DEF IInv, TypeOK, EvTypeOK, Take, ResolveSessionEvents, evTags, evFiles
<1>1. /\ Closing(m) \subseteq Open(events)
      /\ Closing(m) \subseteq current
      /\ \A e \in Closing(m) : events'[e] # None /\ events'[e].status = "RESOLVED"
      /\ \A e \in Detections \ Closing(m) : events'[e] = events[e]
  <2>1. Closing(m) \subseteq Open(events) /\ Closing(m) \subseteq current
    BY DEF Closing, IndexInv
  <2>2. \A e \in Closing(m) : events'[e] = [events[e] EXCEPT !.status = "RESOLVED"]
    BY <2>1
  <2>3. \A e \in Closing(m) : events[e] \in Event
    BY <2>1 DEF Open
  <2>4. \A e \in Closing(m) : events'[e] \in Event /\ events'[e].status = "RESOLVED"
    <3> SUFFICES ASSUME NEW e \in Closing(m)
                 PROVE  events'[e] \in Event /\ events'[e].status = "RESOLVED"
      OBVIOUS
    <3>1. events[e] \in Event /\ events'[e] = [events[e] EXCEPT !.status = "RESOLVED"]
      BY <2>2, <2>3
    <3>2. DOMAIN events[e] = {"status", "related"} /\ events[e].related \in SUBSET Detections
      BY <3>1 DEF Event
    <3> QED
      BY <3>1, <3>2 DEF Event
  <2> QED
    BY <2>1, <2>4, NoneIsNothing
<1>2. Open(events') = Open(events) \ Closing(m)
  BY <1>1 DEF Open
<1>3. current' = current \ Closing(m)
  BY <1>2 DEF IndexInv
<1>4. \A f \in Detections : Key(f)' = Key(f)
  BY DEF Key
<1>5. IndexInv'
  <2>1. \A f \in Open(events') : Key(f)' \in Keys /\ active'[Key(f)'] = f
    <3> SUFFICES ASSUME NEW f \in Open(events')
                 PROVE  Key(f) \in Keys /\ active'[Key(f)] = f
      BY <1>4 DEF Open
    <3>1. f \in Open(events) /\ f \notin Closing(m)
      BY <1>2
    <3>2. Key(f) \in Keys /\ active[Key(f)] = f
      BY <3>1 DEF IndexInv
    <3> QED
      BY <3>1, <3>2
  <2>2. \A k \in Keys : active'[k] # None =>
          active'[k] \in {f \in Open(events') : Key(f)' = k}
    BY <1>2, <1>4 DEF IndexInv, OpenUnder, Open
  <2>3. current' \subseteq Open(events')
    BY <1>2, <1>3 DEF IndexInv
  <2> QED
    BY <2>1, <2>2, <2>3 DEF IndexInv, OpenUnder
<1>6. DiskInv'
  <2>1. Open(events') \subseteq Open(events)
    BY <1>2
  <2> QED
    BY <2>1, <1>4 DEF DiskInv, Open, Brings
<1>7. StepInv'
  <2>1. eventHistory = events
    BY DEF StepInv
  <2>2. \A f \in current' : \A g \in Open(eventHistory) :
          Key(f) = Key(g) => f = g \/ g \in current'
    BY <2>1, <1>3 DEF IndexInv, Open
  <2>3. holder' # None
    BY EventAssumption, <1>3
  <2> QED
    BY <2>2, <2>3, <1>4 DEF StepInv, Open
<1>8. TornInv'
  BY <1>1, <1>2, <1>3 DEF TornInv
<1> QED
  BY <1>5, <1>6, <1>7, <1>8 DEF EventInv

LEMMA ClearEventsInv ==
    ASSUME IInv, up, ClearEvents, up' = up, torn' = {}
    PROVE  EventInv'
<1> USE DEF IInv, TypeOK, EvTypeOK, Take, ClearEvents, evTags, evFiles
<1>1. Open(events') = {}
  BY DEF Open, NoEvents
<1>2. \A f \in Detections : Key(f)' = Key(f)
  BY DEF Key
<1>3. IndexInv'
  BY <1>1 DEF IndexInv, NoKeys
<1>4. DiskInv'
  BY <1>1, <1>2 DEF DiskInv, Open, Brings
<1>5. StepInv'
  BY EventAssumption DEF StepInv
<1>6. TornInv'
  BY <1>1 DEF TornInv
<1> QED
  BY <1>3, <1>4, <1>5, <1>6 DEF EventInv

\* After the first write a start-up may find old and new events together.
LEMMA WriteCurrentInv ==
    ASSUME IInv, up, WriteCurrentEvents, UNCHANGED <<up, torn>>
    PROVE  EventInv'
<1> USE DEF IInv, TypeOK, EvTypeOK, WriteCurrentEvents, evTags, evMemory
<1>1. \A f \in Detections : Key(f)' = Key(f)
  BY DEF Key
<1>2. IndexInv'
  BY <1>1 DEF IndexInv, Open, OpenUnder
<1>3. \A e \in current : e \in Open(events) /\ events[e] # None
  BY DEF IndexInv, Open
<1>4. \A e \in Detections : Brings'[e] = IF e \in current THEN events[e] ELSE eventHistory[e]
  BY <1>3 DEF Brings
<1>5. \A e \in Open(Brings') : IF e \in current THEN e \in Open(events)
                                               ELSE e \in Open(eventHistory)
  BY <1>3, <1>4 DEF Open
<1>6. DiskInv'
  <2>1. \A e \in Detections : currentEvents'[e] # None => e \in Open(currentEvents')
    BY <1>3 DEF Open
  <2>2. \A e \in Open(eventHistory) \ current : Key(e) \in Keys
    <3>1. SUFFICES ASSUME NEW e \in Open(eventHistory) PROVE Key(e) \in Keys
      OBVIOUS
    <3>2. e \in Open(Brings)
      BY <3>1 DEF DiskInv, Open, Brings
    <3> QED
      BY <3>2 DEF DiskInv
  <2>3. \A e \in Open(Brings') : Key(e)' \in Keys
    BY <1>1, <1>5, <2>2 DEF IndexInv, Open
  <2>4. \A e, f \in Open(eventHistory) : Key(e) = Key(f) => e = f
    <3>1. \A e \in Open(eventHistory) : e \in Open(Brings)
      BY DEF DiskInv, Open, Brings
    <3> QED
      BY <3>1 DEF DiskInv
  <2>5. \A e, f \in Open(Brings') : Key(e)' = Key(f)' => e = f
    BY <1>1, <1>5, <2>4 DEF IndexInv, StepInv, Open
  <2>6. \A e \in Detections : eventHistory[e] # None /\ eventHistory[e].status = "RESOLVED" =>
          currentEvents'[e] = None /\ e \notin Open(events)
    BY <1>3 DEF DiskInv
  <2> QED
    BY <2>1, <2>3, <2>5, <2>6 DEF DiskInv
<1>7. StepInv'
  BY DEF StepInv
<1>8. TornInv'
  BY DEF TornInv, Open
<1> QED
  BY <1>2, <1>6, <1>7, <1>8 DEF EventInv

\* After the second one it finds what is in memory.
LEMMA WriteHistoryInv ==
    ASSUME IInv, up, WriteEventHistory, UNCHANGED <<up, torn>>
    PROVE  EventInv'
<1> USE DEF IInv, TypeOK, EvTypeOK, WriteEventHistory, evTags, evMemory
<1>1. \A f \in Detections : Key(f)' = Key(f)
  BY DEF Key
<1>2. IndexInv'
  BY <1>1 DEF IndexInv, Open, OpenUnder
<1>3. \A e \in Detections : currentEvents[e] = IF e \in current THEN events[e] ELSE None
  BY DEF StepInv
<1>4. \A e \in Detections : Brings'[e] = events[e]
  BY <1>3 DEF Brings
<1>5. Open(Brings') = Open(events)
  BY <1>4 DEF Open
<1>6. DiskInv'
  <2>1. \A e \in Detections : currentEvents'[e] # None => e \in Open(currentEvents')
    BY DEF DiskInv
  <2>2. \A e \in Open(Brings') : Key(e)' \in Keys
    BY <1>1, <1>5 DEF IndexInv, Open
  <2>3. \A e, f \in Open(Brings') : Key(e)' = Key(f)' => e = f
    BY <1>1, <1>5 DEF IndexInv, Open
  <2>4. \A e \in Detections : events[e] # None /\ events[e].status = "RESOLVED" =>
          currentEvents[e] = None /\ e \notin Open(events)
    BY <1>3 DEF IndexInv, Open
  <2> QED
    BY <2>1, <2>2, <2>3, <2>4 DEF DiskInv
<1>7. StepInv'
  BY <1>3, NoneIsNothing DEF StepInv
<1>8. TornInv'
  BY DEF TornInv, Open
<1> QED
  BY <1>2, <1>6, <1>7, <1>8 DEF EventInv

\* A crash keeps the files; what they disagree on is torn from then on.
LEMMA CrashInv ==
    ASSUME IInv, up' = FALSE, LoseEvents, torn' = CutOff
    PROVE  EventInv'
<1> USE DEF IInv, TypeOK, EvTypeOK, LoseEvents, evTags, evFiles
<1>1. Open(events') = {}
  BY DEF Open, NoEvents
<1>2. \A f \in Detections : Key(f)' = Key(f)
  BY DEF Key
<1>3. IndexInv'
  BY <1>1 DEF IndexInv, NoKeys
<1>4. DiskInv'
  BY <1>1, <1>2 DEF DiskInv, Open, Brings
<1>5. StepInv'
  BY DEF StepInv
<1>6. TornInv'
  BY DEF TornInv, CutOff, Open
<1> QED
  BY <1>3, <1>4, <1>5, <1>6 DEF EventInv

\* A start-up indexes what the files bring.
LEMMA LoadInv ==
    ASSUME IInv, ~up, up', LoadEvents, UNCHANGED torn
    PROVE  EventInv'
<1> USE DEF IInv, TypeOK, EvTypeOK, LoadEvents, Take, evTags, evFiles
<1>1. \A f \in Detections : Key(f)' = Key(f)
  BY DEF Key
<1>2. events' = Brings
  BY DEF Brings
<1>3. Open(events') = Open(Brings)
  BY <1>2
<1>4. /\ current' = Open(currentEvents)
      /\ Open(currentEvents) \subseteq Open(Brings)
      /\ Open(Brings) = Open(currentEvents) \cup CutOff
      /\ current' \cap CutOff = {}
  BY DEF DiskInv, Open, Brings, CutOff
<1>5. /\ \A k \in Keys : active'[k] \in Indexed(k)
      /\ active' \in [Keys -> Detections \cup {None}]
  OBVIOUS
<1>6. \A k \in Keys : active'[k] # None => active'[k] \in Open(Brings) /\ Key(active'[k]) = k
  <2> SUFFICES ASSUME NEW k \in Keys, active'[k] # None
               PROVE  active'[k] \in Open(Brings) /\ Key(active'[k]) = k
    OBVIOUS
  <2>1. CASE OpenUnder(currentEvents, k) # {}
    BY <2>1, <1>4, <1>5 DEF Indexed, OpenUnder
  <2>2. CASE OpenUnder(currentEvents, k) = {} /\ OpenUnder(eventHistory, k) # {}
    <3>1. active'[k] \in OpenUnder(eventHistory, k)
      BY <2>2, <1>5 DEF Indexed
    <3>2. \A e \in Open(eventHistory) : e \in Open(Brings)
      BY DEF DiskInv, Open, Brings
    <3> QED
      BY <3>1, <3>2 DEF OpenUnder
  <2>3. CASE OpenUnder(currentEvents, k) = {} /\ OpenUnder(eventHistory, k) = {}
    BY <2>3, <1>5 DEF Indexed
  <2> QED
    BY <2>1, <2>2, <2>3
<1>7. \A e \in Open(Brings) : active'[Key(e)] # None
  <2> SUFFICES ASSUME NEW e \in Open(Brings) PROVE active'[Key(e)] # None
    OBVIOUS
  <2>1. Key(e) \in Keys /\ e \in Detections
    BY DEF DiskInv, Open
  <2>2. e \in OpenUnder(currentEvents, Key(e)) \/ e \in OpenUnder(eventHistory, Key(e))
    BY DEF Open, OpenUnder, Brings
  <2>3. Indexed(Key(e)) \subseteq Detections
    BY <2>2 DEF Indexed, OpenUnder, Open
  <2> QED
    BY <2>1, <2>3, <1>5, NoneIsNothing
<1>8. IndexInv'
  <2>1. \A e \in Open(events') : Key(e)' \in Keys /\ active'[Key(e)'] = e
    <3> SUFFICES ASSUME NEW e \in Open(Brings)
                 PROVE  Key(e) \in Keys /\ active'[Key(e)] = e
      BY <1>1, <1>3 DEF Open
    <3>1. Key(e) \in Keys
      BY DEF DiskInv
    <3>2. active'[Key(e)] \in Open(Brings) /\ Key(active'[Key(e)]) = Key(e)
      BY <3>1, <1>6, <1>7
    <3> QED
      BY <3>1, <3>2 DEF DiskInv
  <2>2. \A k \in Keys : active'[k] # None =>
          active'[k] \in {f \in Open(events') : Key(f)' = k}
    BY <1>1, <1>3, <1>6 DEF Open
  <2>3. current' \subseteq Open(events')
    BY <1>3, <1>4
  <2> QED
    BY <2>1, <2>2, <2>3 DEF IndexInv, OpenUnder
<1>9. DiskInv'
  <2>1. \A e \in Detections : eventHistory[e] # None /\ eventHistory[e].status = "RESOLVED" =>
          currentEvents[e] = None /\ e \notin Open(events')
    BY <1>2 DEF DiskInv, Open, Brings
  <2> QED
    BY <2>1, <1>1 DEF DiskInv, Open, Brings
<1>10. StepInv'
  <2>1. \A f \in current' : \A g \in Open(eventHistory) :
          Key(f) = Key(g) => f = g \/ g \in current'
    <3>1. \A g \in Open(eventHistory) : g \in Open(Brings)
      BY DEF DiskInv, Open, Brings
    <3> QED
      BY <3>1, <1>4 DEF DiskInv
  <2>2. holder' # None
    BY EventAssumption
  <2> QED
    BY <1>1, <2>1, <2>2 DEF StepInv, Open
<1>11. TornInv'
  BY <1>3, <1>4 DEF TornInv
<1> QED
  BY <1>8, <1>9, <1>10, <1>11 DEF EventInv

\* The rest of the program leaves the events alone; a result that begins is
\* given its mission and kind before there is an event of its own.
LEMMA FrameInv ==
    ASSUME IInv, UNCHANGED <<evMemory, evFiles, evLock, up, torn>>,
           \A e \in Detections : Key(e)' = Key(e) \/ step[e] = "idle"
    PROVE  EventInv'
<1> USE DEF IInv, TypeOK, EvTypeOK, evMemory, evFiles, evLock
<1>1. \A e \in Open(events) \cup Open(Brings) \cup current \cup Open(eventHistory) :
        Key(e)' = Key(e)
  BY DEF FreshInv, IndexInv, Open, Brings
<1>2. Open(events') = Open(events) /\ Open(Brings') = Open(Brings)
  BY DEF Open, Brings
<1>3. IndexInv'
  <2>1. \A e \in Open(events') : Key(e)' \in Keys /\ active'[Key(e)'] = e
    BY <1>1, <1>2 DEF IndexInv
  <2>2. \A k \in Keys : active'[k] # None =>
          active'[k] \in {f \in Open(events') : Key(f)' = k}
    BY <1>1, <1>2 DEF IndexInv, OpenUnder, Open
  <2>3. current' \subseteq Open(events')
    BY <1>2 DEF IndexInv
  <2> QED
    BY <2>1, <2>2, <2>3 DEF IndexInv, OpenUnder, Open
<1>4. DiskInv'
  <2>1. /\ \A e \in Open(Brings') : Key(e)' \in Keys
        /\ \A e, f \in Open(Brings') : Key(e)' = Key(f)' => e = f
    BY <1>1, <1>2 DEF DiskInv
  <2> QED
    BY <2>1 DEF DiskInv, Open
<1>5. StepInv'
  BY <1>1 DEF StepInv, Open
<1>6. TornInv'
  BY <1>2 DEF TornInv, CutOff, Open
<1> QED
  BY <1>3, <1>4, <1>5, <1>6 DEF EventInv

\* A result that is given to the events has a key.
LEMMA RaiseKey ==
    ASSUME IInv, NEW d \in Detections, RaiseEvent(d)
    PROVE  Key(d) \in Keys /\ up
<1>1. d \in InFlight
  BY DEF RaiseEvent, InFlight
<1>2. mission[d] \in Missions /\ up
  BY <1>1 DEF RaiseEvent, IInv, WorldInv
<1>3. kind[d] \in Kinds
  BY DEF RaiseEvent, RecordDetection, IInv, TypeOK, EvTypeOK
<1> QED
  BY <1>2, <1>3, KeyType

LEMMA EventStep == IInv /\ [Next]_vars => EventInv'
<1> SUFFICES ASSUME IInv, [Next]_vars PROVE EventInv'
  OBVIOUS
<1> DEFINE Frame == /\ UNCHANGED <<evMemory, evFiles, evLock, up, torn>>
                    /\ \A e \in Detections : Key(e)' = Key(e) \/ step[e] = "idle"
<1>1. Frame => EventInv'
  BY FrameInv
<1>2. UNCHANGED <<evVars, up, torn>> => EventInv'
  BY <1>1 DEF evVars, evTags, evMemory, evFiles, evLock, Key
<1> USE DEF world, store, result, stop, ghosts, ends
<1>3. ASSUME NEW d \in Detections, ResultStep(d) PROVE EventInv'
  <2>1. CASE Begin(d)
    <3>1. step[d] = "idle" /\ mission \in [Detections -> Missions \cup {None}]
                          /\ kind \in [Detections -> Kinds \cup {None}]
      BY <2>1 DEF Begin, IInv, TypeOK, EvTypeOK
    <3>2. \A e \in Detections \ {d} : mission'[e] = mission[e] /\ kind'[e] = kind[e]
      BY <2>1, <3>1 DEF Begin
    <3>3. \A e \in Detections : Key(e)' = Key(e) \/ step[e] = "idle"
      BY <3>1, <3>2 DEF Key
    <3>4. UNCHANGED <<evMemory, evFiles, evLock, up, torn>>
      BY <2>1 DEF Begin
    <3> QED
      BY <1>1, <3>3, <3>4
  <2>2. CASE Store(d)
    BY <2>2, <1>2 DEF Store
  <2>3. CASE RaiseEvent(d)
    <3>1. Key(d) \in Keys /\ up
      BY <2>3, RaiseKey
    <3> QED
      BY <2>3, <3>1, UpdateEvents, CreateEvents DEF RaiseEvent, RecordDetection
  <2>4. CASE Acquire(d) \/ ListDetection(d) \/ AppendManifest(d)
    BY <2>4, <1>2 DEF Acquire, ListDetection, AppendManifest
  <2> QED
    BY <1>3, <2>1, <2>2, <2>3, <2>4 DEF ResultStep
<1>4. CASE Request
  <2>1. CASE StartRequest \/ StopRequest \/ StopMission \/ BeginClear \/ EraseDetections
             \/ EndClear \/ ClearRequest
    BY <2>1, <1>2 DEF StartRequest, StopRequest, StopMission, BeginClear,
                      EraseDetections, EndClear, ClearRequest
  <2>2. CASE ResolveEvents
    <3>1. stopping \in Missions /\ up
      BY <2>2 DEF ResolveEvents, IInv, TypeOK, RouteInv
    <3> QED
      BY <2>2, <3>1, ResolveEventsInv DEF ResolveEvents
  <2>3. CASE ClearEventsRequest
    BY <2>3, ClearEventsInv DEF ClearEventsRequest, Serving
  <2> QED
    BY <1>4, <2>1, <2>2, <2>3 DEF Request
<1>5. CASE PersistEvents
  <2>1. up
    BY <1>5 DEF PersistEvents, WriteCurrentEvents, WriteEventHistory, IInv, StepInv
  <2> QED
    BY <1>5, <2>1, WriteCurrentInv, WriteHistoryInv DEF PersistEvents
<1>6. CASE Crash
  BY <1>6, CrashInv DEF Crash
<1>7. CASE Restart
  BY <1>7, LoadInv DEF Restart
<1>8. CASE UNCHANGED vars
  BY <1>8, <1>2 DEF vars
<1> QED
  BY <1>3, <1>4, <1>5, <1>6, <1>7, <1>8 DEF Next

-----------------------------------------------------------------------------
(* What events refer to.                                                   *)

LEMMA FreshStep == IInv /\ [Next]_vars => FreshInv'
<1> SUFFICES ASSUME IInv, [Next]_vars,
                    NEW d \in Detections, step'[d] \in {"idle", "store", "events"}
             PROVE  /\ events'[d] = None
                    /\ currentEvents'[d] = None
                    /\ eventHistory'[d] = None
                    /\ d \notin torn'
  BY DEF FreshInv
<1> USE DEF IInv, TypeOK, EvTypeOK, world, store, result, stop, ghosts, ends,
            evVars, evTags, evMemory, evFiles, evLock
<1> DEFINE Fresh == /\ events[d] = None
                    /\ currentEvents[d] = None
                    /\ eventHistory[d] = None
                    /\ d \notin torn
<1>1. step[d] \in {"idle", "store", "events"} => Fresh
  BY DEF FreshInv
<1>2. ASSUME NEW c \in Detections, ResultStep(c) PROVE Fresh'
  <2>1. CASE RaiseEvent(c)
    <3>1. c # d /\ step[d] \in {"idle", "store", "events"}
      BY <2>1 DEF RaiseEvent, Goto
    <3>2. events'[d] = events[d]
      <4>1. CASE UpdateEvent(c)
        <5>1. Match(c) # d
          BY <4>1, <3>1, <1>1 DEF UpdateEvent
        <5> QED
          BY <4>1, <5>1 DEF UpdateEvent
      <4>2. CASE CreateEvent(c)
        BY <4>2, <3>1 DEF CreateEvent
      <4> QED
        BY <2>1, <4>1, <4>2 DEF RaiseEvent, RecordDetection
    <3> QED
      BY <2>1, <3>1, <3>2, <1>1 DEF RaiseEvent, RecordDetection
  <2>2. CASE Begin(c) \/ Store(c) \/ Acquire(c) \/ ListDetection(c) \/ AppendManifest(c)
    BY <2>2, <1>1 DEF Begin, Store, Acquire, ListDetection, AppendManifest, Goto
  <2> QED
    BY <1>2, <2>1, <2>2 DEF ResultStep
<1>3. CASE Request
  <2>1. step[d] \in {"idle", "store", "events"} /\ UNCHANGED evFiles
    BY <1>3 DEF Request, StartRequest, StopRequest, StopMission, BeginClear,
                EraseDetections, EndClear, ClearRequest, ClearEventsRequest, ClearEvents,
                ResolveEvents, ResolveSessionEvents
  <2>2. CASE ResolveEvents
    BY <2>1, <2>2, <1>1 DEF ResolveEvents, ResolveSessionEvents, Closing
  <2>3. CASE ClearEventsRequest
    BY <2>1, <2>3, <1>1 DEF ClearEventsRequest, ClearEvents, NoEvents
  <2>4. CASE StartRequest \/ StopRequest \/ StopMission \/ BeginClear \/ EraseDetections
             \/ EndClear \/ ClearRequest
    BY <2>1, <2>4, <1>1 DEF StartRequest, StopRequest, StopMission, BeginClear,
                      EraseDetections, EndClear, ClearRequest
  <2> QED
    BY <1>3, <2>2, <2>3, <2>4 DEF Request
<1>4. CASE PersistEvents
  BY <1>4, <1>1 DEF PersistEvents, WriteCurrentEvents, WriteEventHistory, IndexInv, Open
<1>5. CASE Crash
  <2>1. step[d] \in {"idle", "store", "events"}
    BY <1>5 DEF Crash
  <2> QED
    BY <2>1, <1>5, <1>1 DEF Crash, LoseEvents, NoEvents, CutOff, Open
<1>6. CASE Restart
  BY <1>6, <1>1 DEF Restart, LoadEvents
<1>7. CASE UNCHANGED vars
  BY <1>7, <1>1 DEF vars
<1> QED
  BY <1>2, <1>3, <1>4, <1>5, <1>6, <1>7 DEF Next

LEMMA StoredStep == IInv /\ [Next]_vars => StoredInv'
<1> SUFFICES ASSUME IInv, [Next]_vars PROVE StoredInv'
  OBVIOUS
<1> USE DEF IInv, TypeOK, EvTypeOK, world, store, result, stop, ghosts, ends,
            evVars, evTags, evMemory, evFiles, evLock
<1>1. stored \subseteq stored'
  BY DEF Next, ResultStep, Begin, Store, RaiseEvent, Acquire, ListDetection,
         AppendManifest, Request, StartRequest, StopRequest, StopMission, ResolveEvents,
         BeginClear, EraseDetections, EndClear, ClearRequest, ClearEventsRequest,
         PersistEvents, Crash, Restart, vars
<1>2. ASSUME NEW d \in Detections, ResultStep(d) PROVE StoredInv'
  <2>1. CASE RaiseEvent(d)
    <3>1. d \in stored
      BY <2>1 DEF RaiseEvent, StoredInv
    <3>2. \A e \in Detections : events'[e] # None => events'[e].related \subseteq stored
      <4>1. CASE UpdateEvent(d)
        <5>1. Match(d) \in Detections
          BY <2>1, <4>1, RaiseKey, MatchIsOpen DEF UpdateEvent
        <5>2. Joined(Match(d), d).related \subseteq stored
          BY <3>1, <4>1, <5>1 DEF UpdateEvent, StoredInv, Joined
        <5> QED
          BY <4>1, <5>1, <5>2 DEF UpdateEvent, StoredInv
      <4>2. CASE CreateEvent(d)
        BY <4>2, <3>1 DEF CreateEvent, StoredInv
      <4> QED
        BY <2>1, <4>1, <4>2 DEF RaiseEvent, RecordDetection
    <3> QED
      BY <2>1, <3>2 DEF RaiseEvent, RecordDetection, StoredInv, Goto
  <2>2. CASE Store(d)
    BY <2>2, <1>1 DEF Store, Goto, StoredInv
  <2>3. CASE Begin(d)
    BY <2>3 DEF Begin, Goto, StoredInv
  <2>4. CASE Acquire(d) \/ ListDetection(d) \/ AppendManifest(d)
    BY <2>4 DEF Acquire, ListDetection, AppendManifest, Goto, StoredInv
  <2> QED
    BY <1>2, <2>1, <2>2, <2>3, <2>4 DEF ResultStep
<1>3. CASE Request
  <2>1. CASE ResolveEvents
    <3>1. \A e \in Closing(stopping) : events[e] \in Event
      BY DEF Closing
    <3>2. \A e \in Closing(stopping) :
            [events[e] EXCEPT !.status = "RESOLVED"].related = events[e].related
      BY <3>1 DEF Event
    <3>3. \A e \in Detections : events'[e] # None => events'[e].related \subseteq stored
      BY <2>1, <3>2 DEF ResolveEvents, ResolveSessionEvents, StoredInv, Closing
    <3> QED
      BY <2>1, <3>3 DEF ResolveEvents, ResolveSessionEvents, StoredInv
  <2>2. CASE ClearEventsRequest
    BY <2>2 DEF ClearEventsRequest, ClearEvents, NoEvents, StoredInv
  <2>3. CASE StartRequest \/ StopRequest \/ StopMission \/ BeginClear \/ EraseDetections
             \/ EndClear \/ ClearRequest
    BY <2>3 DEF StartRequest, StopRequest, StopMission, BeginClear,
                EraseDetections, EndClear, ClearRequest, StoredInv
  <2> QED
    BY <1>3, <2>1, <2>2, <2>3 DEF Request
<1>4. CASE PersistEvents
  BY <1>4 DEF PersistEvents, WriteCurrentEvents, WriteEventHistory, StoredInv
<1>5. CASE Crash
  BY <1>5 DEF Crash, LoseEvents, NoEvents, StoredInv
<1>6. CASE Restart
  BY <1>6 DEF Restart, LoadEvents, StoredInv
<1>7. CASE UNCHANGED vars
  BY <1>7 DEF vars, StoredInv
<1> QED
  BY <1>2, <1>3, <1>4, <1>5, <1>6, <1>7 DEF Next

-----------------------------------------------------------------------------
(* Missions.                                                               *)

\* The mission a result is filed under runs; those that were stopped do not.
LEMMA EnsuredWorld ==
    ASSUME IInv, NEW m \in Missions, Ensured(m)
    PROVE  /\ m = running' /\ m = started'
           /\ started \in Nat /\ started' \in Nat /\ started <= started'
           /\ running # None => running' = running
           /\ \A k \in Missions : Past(k) => Past(k)'
<1>1. started \in Nat /\ Missions \subseteq Nat
  BY EventAssumption DEF IInv, TypeOK, Missions
<1>2. CASE running # None
  BY <1>1, <1>2 DEF Ensured, IInv, WorldInv, Past
<1>3. CASE running = None
  BY <1>1, <1>3, NoneIsNothing DEF Ensured, Launch, Past
<1> QED
  BY <1>2, <1>3

\* It is the one a result was recorded for, or a later one after a stop.
LEMMA StillHome ==
    ASSUME IInv, NEW m \in Missions, Ensured(m), NEW e \in Detections, step[e] # "idle"
    PROVE  /\ mission[e] \in Missions /\ mission[e] <= started' /\ mission[e] <= m
           /\ e \in InFlight \ cut => running' = mission[e] /\ m = mission[e]
<1>1. Missions \subseteq Nat /\ None \notin Missions
  BY EventAssumption, NoneIsNothing DEF Missions
<1>2. /\ m = running' /\ m = started' /\ started \in Nat /\ started' \in Nat
      /\ started <= started' /\ (running # None => running' = running)
  BY EnsuredWorld
<1>3. /\ mission[e] \in Missions /\ mission[e] <= started
      /\ e \in InFlight \ cut => running = mission[e]
  BY DEF IInv, WorldInv
<1>4. mission[e] <= started'
  <2>1. mission[e] \in Nat
    BY <1>1, <1>3
  <2> QED
    BY <2>1, <1>2, <1>3
<1>5. e \in InFlight \ cut => running' = mission[e]
  BY <1>1, <1>2, <1>3
<1> QED
  BY <1>2, <1>3, <1>4, <1>5

LEMMA WorldStep == IInv /\ [Next]_vars => WorldInv'
<1> SUFFICES ASSUME IInv, [Next]_vars PROVE WorldInv'
  OBVIOUS
<1> USE DEF IInv, TypeOK, EvTypeOK, world, store, result, stop, ghosts, ends
<1>1. started \in Nat /\ Missions \subseteq Nat /\ None \notin Missions
  BY EventAssumption, NoneIsNothing DEF Missions
<1>2. UNCHANGED <<mission, world, result, cut>> => WorldInv'
  BY DEF WorldInv, FiledTogether, InFlight
<1>3. ASSUME NEW d \in Detections, ResultStep(d) PROVE WorldInv'
  <2>1. CASE Begin(d)
    <3>1. PICK m \in Missions : Ensured(m) /\ mission' = [mission EXCEPT ![d] = m]
      BY <2>1 DEF Begin
    <3>2. /\ m = running' /\ m = started' /\ started' \in Nat /\ started <= started'
          /\ running # None => running' = running
      BY <3>1, EnsuredWorld
    <3>3. /\ mission'[d] = m /\ step'[d] = "store" /\ step[d] = "idle"
          /\ \A e \in Detections \ {d} : mission'[e] = mission[e] /\ step'[e] = step[e]
          /\ UNCHANGED <<filed, home, cut, up>>
          /\ up
      BY <2>1, <3>1 DEF Begin, Goto, Serving
    <3>4. running' # None => running' = started'
      BY <3>2
    <3>5. \A e \in Detections :
             /\ step'[e] # "idle" => mission'[e] \in Missions /\ mission'[e] <= started'
             /\ step'[e] = "idle" => filed'[e] = None /\ home'[e] = None
             /\ step'[e] \notin {"idle", "done"} /\ e \notin cut' => running' = mission'[e]
             /\ step'[e] \notin {"idle", "done"} => up'
      <4> SUFFICES ASSUME NEW e \in Detections
                   PROVE  /\ step'[e] # "idle" => mission'[e] \in Missions /\ mission'[e] <= started'
                          /\ step'[e] = "idle" => filed'[e] = None /\ home'[e] = None
                          /\ step'[e] \notin {"idle", "done"} /\ e \notin cut' => running' = mission'[e]
                          /\ step'[e] \notin {"idle", "done"} => up'
        OBVIOUS
      <4>1. CASE e = d
        BY <4>1, <1>1, <3>2, <3>3
      <4>2. CASE e # d
        <5>1. step[e] # "idle" => /\ mission[e] \in Missions /\ mission[e] <= started'
                                  /\ e \in InFlight \ cut => running' = mission[e]
          BY <3>1, StillHome
        <5> QED
          BY <4>2, <3>3, <5>1 DEF WorldInv, InFlight
      <4> QED
        BY <4>1, <4>2
    <3>6. FiledTogether'
      BY <1>1, <3>3 DEF WorldInv, FiledTogether
    <3> QED
      BY <3>4, <3>5, <3>6 DEF WorldInv, InFlight
  <2>2. CASE Store(d) \/ RaiseEvent(d) \/ AppendManifest(d)
    BY <2>2 DEF Store, RaiseEvent, RecordDetection, AppendManifest, Goto, evVars, evTags,
                WorldInv, FiledTogether, InFlight
  <2>3. CASE Acquire(d) \/ ListDetection(d)
    <3>1. PICK m \in Missions :
            /\ Ensured(m)
            /\ \/ filed' = [filed EXCEPT ![d] = m] /\ home' = home
               \/ home' = [home EXCEPT ![d] = m] /\ filed' = filed
      BY <2>3 DEF Acquire, ListDetection
    <3>2. /\ m = running' /\ m = started' /\ started' \in Nat /\ started <= started'
          /\ running # None => running' = running
      BY <3>1, EnsuredWorld
    <3>3. /\ d \in InFlight /\ step'[d] \notin {"idle", "done"}
          /\ \A e \in Detections \ {d} : step'[e] = step[e]
          /\ UNCHANGED <<mission, cut, up>>
      BY <2>3 DEF Acquire, ListDetection, Goto, InFlight, evVars, evTags
    <3>4. \A e \in Detections : step[e] # "idle" =>
            /\ mission[e] \in Missions /\ mission[e] <= started' /\ mission[e] <= m
            /\ e \in InFlight \ cut => running' = mission[e] /\ m = mission[e]
      BY <3>1, StillHome
    <3>5. m >= mission[d] /\ (m = mission[d] \/ d \in cut)
      BY <1>1, <3>3, <3>4 DEF InFlight
    <3>6. \A e \in Detections :
             /\ step'[e] # "idle" => mission'[e] \in Missions /\ mission'[e] <= started'
             /\ step'[e] = "idle" => filed'[e] = None /\ home'[e] = None
             /\ step'[e] \notin {"idle", "done"} /\ e \notin cut' => running' = mission'[e]
             /\ step'[e] \notin {"idle", "done"} => up'
      <4> SUFFICES ASSUME NEW e \in Detections
                   PROVE  /\ step'[e] # "idle" => mission[e] \in Missions /\ mission[e] <= started'
                          /\ step'[e] = "idle" => filed'[e] = None /\ home'[e] = None
                          /\ step'[e] \notin {"idle", "done"} /\ e \notin cut => running' = mission[e]
                          /\ step'[e] \notin {"idle", "done"} => up
        BY <3>3
      <4>1. CASE e = d
        BY <4>1, <3>3, <3>4 DEF WorldInv, InFlight
      <4>2. CASE e # d
        <5>1. step'[e] = step[e] /\ filed'[e] = filed[e] /\ home'[e] = home[e]
          BY <4>2, <3>1, <3>3
        <5> QED
          BY <5>1, <3>4 DEF WorldInv, InFlight
      <4> QED
        BY <4>1, <4>2
    <3>7. FiledTogether'
      BY <3>1, <3>3, <3>5 DEF WorldInv, FiledTogether
    <3> QED
      BY <3>2, <3>6, <3>7 DEF WorldInv, InFlight
  <2> QED
    BY <1>3, <2>1, <2>2, <2>3 DEF ResultStep
<1>4. CASE Request
  <2>1. CASE StartRequest
    <3>1. running = None /\ running' = started' /\ started' = started + 1
      BY <2>1 DEF StartRequest, Launch
    <3> QED
      <4>1. running' \in Missions /\ Ensured(running')
        BY <2>1, LaunchType DEF StartRequest, Ensured
      <4>2. \A e \in Detections : step[e] # "idle" =>
              /\ mission[e] \in Missions /\ mission[e] <= started'
              /\ e \in InFlight \ cut => running' = mission[e]
        BY <4>1, StillHome
      <4>3. UNCHANGED <<mission, step, filed, home, cut, up>>
        BY <2>1 DEF StartRequest, evVars, evTags
      <4> QED
        BY <3>1, <4>2, <4>3 DEF WorldInv, FiledTogether, InFlight
  <2>2. CASE StopMission
    <3>1. InFlight \subseteq cut'
      BY <2>2, <1>1 DEF StopMission, WorldInv, InFlight
    <3> QED
      BY <2>2, <3>1 DEF StopMission, evVars, evTags, WorldInv, FiledTogether, InFlight
  <2>3. CASE StopRequest \/ ResolveEvents \/ BeginClear \/ EraseDetections
             \/ EndClear \/ ClearRequest \/ ClearEventsRequest
    BY <2>3, <1>2 DEF StopRequest, BeginClear, EraseDetections, EndClear, ClearRequest,
                      ResolveEvents, ResolveSessionEvents, ClearEventsRequest, ClearEvents,
                      evVars, evTags
  <2> QED
    BY <1>4, <2>1, <2>2, <2>3 DEF Request
<1>5. CASE PersistEvents
  BY <1>5, <1>2 DEF PersistEvents, WriteCurrentEvents, WriteEventHistory, evTags
<1>6. CASE Crash
  BY <1>6 DEF Crash, LoseEvents, evTags, WorldInv, FiledTogether, InFlight
<1>7. CASE Restart
  BY <1>7 DEF Restart, LoadEvents, evTags, WorldInv, FiledTogether, InFlight
<1>8. CASE UNCHANGED vars
  BY <1>8, <1>2 DEF vars, evVars, evTags
<1> QED
  BY <1>3, <1>4, <1>5, <1>6, <1>7, <1>8 DEF Next

LEMMA RouteStep == IInv /\ [Next]_vars => RouteInv'
<1> SUFFICES ASSUME IInv, [Next]_vars PROVE RouteInv'
  OBVIOUS
<1> USE DEF IInv, TypeOK, world, store, result, stop, ghosts, ends
<1>1. started \in Nat /\ Missions \subseteq Nat /\ None \notin Missions
  BY EventAssumption, NoneIsNothing DEF Missions
<1>2. UNCHANGED <<world, stop, ends>> => RouteInv'
  BY DEF RouteInv, Past
<1>3. ASSUME NEW m \in Missions, Ensured(m), UNCHANGED <<up, stop, ends>>
      PROVE  RouteInv'
  BY <1>1, <1>3, EnsuredWorld DEF RouteInv
<1>4. ASSUME NEW d \in Detections, ResultStep(d) PROVE RouteInv'
  <2>1. CASE Begin(d) \/ Acquire(d) \/ ListDetection(d)
    BY <2>1, <1>3 DEF Begin, Acquire, ListDetection
  <2>2. CASE Store(d) \/ RaiseEvent(d) \/ AppendManifest(d)
    BY <2>2, <1>2 DEF Store, RaiseEvent, AppendManifest
  <2> QED
    BY <1>4, <2>1, <2>2 DEF ResultStep
<1>5. CASE Request
  <2>1. CASE StartRequest
    <3>1. running' \in Missions /\ Ensured(running')
      BY <2>1, LaunchType DEF StartRequest, Ensured
    <3> QED
      BY <2>1, <3>1, <1>3 DEF StartRequest
  <2>2. CASE StopRequest
    BY <2>2, <1>1 DEF StopRequest, Serving, RouteInv, Past
  <2>3. CASE StopMission
    BY <2>3, <1>1 DEF StopMission, RouteInv, WorldInv, Past
  <2>4. CASE ResolveEvents \/ BeginClear \/ ClearRequest
    BY <2>4 DEF ResolveEvents, BeginClear, ClearRequest, Serving, RouteInv, Past
  <2>5. CASE EraseDetections \/ ClearEventsRequest
    BY <2>5, <1>2 DEF EraseDetections, ClearEventsRequest
  <2>6. CASE EndClear
    BY <2>6 DEF EndClear, RouteInv, Past
  <2> QED
    BY <1>5, <2>1, <2>2, <2>3, <2>4, <2>5, <2>6 DEF Request
<1>6. CASE PersistEvents
  BY <1>6, <1>2 DEF PersistEvents
<1>7. CASE Crash
  BY <1>7 DEF Crash, RouteInv, Past
<1>8. CASE Restart
  BY <1>8 DEF Restart, RouteInv, Past
<1>9. CASE UNCHANGED vars
  BY <1>9, <1>2 DEF vars
<1> QED
  BY <1>4, <1>5, <1>6, <1>7, <1>8, <1>9 DEF Next

\* An event in memory or on disk is of some mission and began with a result.
LEMMA EventMission ==
    ASSUME IInv, NEW e \in Detections, e \in current \/ currentEvents[e] # None
    PROVE  mission[e] \in Missions /\ step[e] # "idle"
<1>1. Key(e) \in Keys
  BY DEF IInv, IndexInv, DiskInv, Open, Brings
<1>2. e \in current => events[e] # None
  BY DEF IInv, IndexInv, Open
<1> QED
  BY <1>1, <1>2 DEF IInv, FreshInv, Key, Keys

LEMMA LateStep == IInv /\ [Next]_vars => LateInv'
<1> SUFFICES ASSUME IInv, [Next]_vars PROVE LateInv'
  OBVIOUS
<1> USE DEF IInv, TypeOK, EvTypeOK, world, store, result, stop, ghosts, ends
<1>1. None \notin Missions
  BY NoneIsNothing
<1>2. \A e \in Detections : e \in current \/ currentEvents[e] # None =>
        mission[e] \in Missions /\ step[e] # "idle"
  BY EventMission
<1>3. \A e \in current : e \in Detections
  OBVIOUS
\* Steps that leave the events and the stop alone.
<1>4. ASSUME UNCHANGED <<current, currentEvents, route, stopping, closed, unseen, late>>,
             holder' = holder \/ route # "clear" \/ holder = None,
             \A e \in Detections : mission'[e] = mission[e] \/ step[e] = "idle"
      PROVE  LateInv'
  BY <1>1, <1>2, <1>3, <1>4, EventAssumption DEF LateInv
<1>5. ASSUME NEW d \in Detections, ResultStep(d) PROVE LateInv'
  <2>1. CASE Begin(d)
    <3>1. \A e \in Detections : mission'[e] = mission[e] \/ step[e] = "idle"
      BY <2>1 DEF Begin
    <3> QED
      BY <2>1, <3>1, <1>4 DEF Begin, evMemory, evFiles, evLock
  <2>2. CASE RaiseEvent(d)
    <3>1. /\ UNCHANGED <<mission, currentEvents, route, stopping, closed, unseen, running, started>>
          /\ holder = None
          /\ late' = IF running = mission[d] THEN late ELSE late \cup {d}
      BY <2>2 DEF RaiseEvent, RecordDetection, Take, evTags, evFiles, StepInv
    <3>2. mission[d] \in closed \ unseen => d \in late'
      BY <3>1 DEF RouteInv, Past
    <3>3. route \in {"clear", "erase"} /\ mission[d] = stopping => d \in late'
      <4>1. mission[d] # None
        BY <2>2, <1>1, RaiseKey DEF Key, Keys
      <4> QED
        BY <3>1, <4>1 DEF RouteInv, Past
    <3>4. current' \subseteq current \cup {d}
      BY <2>2 DEF RaiseEvent, RecordDetection, UpdateEvent, CreateEvent
    <3> QED
      BY <3>1, <3>2, <3>3, <3>4, EventAssumption DEF LateInv
  <2>3. CASE Store(d) \/ Acquire(d) \/ ListDetection(d) \/ AppendManifest(d)
    BY <2>3, <1>4 DEF Store, Acquire, ListDetection, AppendManifest, evVars, evTags,
                      evMemory, evFiles, evLock
  <2> QED
    BY <1>5, <2>1, <2>2, <2>3 DEF ResultStep
<1>6. CASE Request
  <2> USE DEF evVars, evTags, evMemory, evFiles, evLock
  <2>1. CASE StartRequest \/ EraseDetections
    BY <2>1, <1>4 DEF StartRequest, EraseDetections
  <2>2. CASE StopRequest
    BY <2>2 DEF StopRequest, LateInv
  <2>3. CASE StopMission
    BY <2>3, <1>1, <1>2, <1>3 DEF StopMission, LateInv
  <2>4. CASE ResolveEvents
    <3>1. /\ holder' = "stop" /\ route' = "clear" /\ holder = None
          /\ UNCHANGED <<mission, currentEvents, stopping, closed, unseen, late>>
      BY <2>4 DEF ResolveEvents, ResolveSessionEvents, Take, StepInv
    <3>2. \A e \in current' : e \in current /\ mission[e] # stopping
      <4> SUFFICES ASSUME NEW e \in current' PROVE e \in current /\ mission[e] # stopping
        OBVIOUS
      <4>1. e \in current /\ e \in Open(events')
        BY <2>4 DEF ResolveEvents, ResolveSessionEvents
      <4>2. events[e] \in Event
        BY <4>1 DEF IndexInv, Open
      <4>3. events'[e] = IF e \in Closing(stopping) THEN [events[e] EXCEPT !.status = "RESOLVED"]
                                                   ELSE events[e]
        BY <2>4, <4>1 DEF ResolveEvents, ResolveSessionEvents
      <4>4. [events[e] EXCEPT !.status = "RESOLVED"].status = "RESOLVED"
        BY <4>2 DEF Event
      <4>5. e \notin Closing(stopping)
        BY <4>1, <4>3, <4>4 DEF Open
      <4> QED
        BY <4>1, <4>5, <4>2, NoneIsNothing DEF Closing
    <3> QED
      BY <3>1, <3>2 DEF LateInv
  <2>5. CASE BeginClear
    BY <2>5 DEF BeginClear, LateInv
  <2>6. CASE EndClear
    BY <2>6, <1>1, <1>2, <1>3 DEF EndClear, LateInv
  <2>7. CASE ClearRequest
    BY <2>7, <1>1, <1>2, <1>3 DEF ClearRequest, RouteInv, LateInv
  <2>8. CASE ClearEventsRequest
    BY <2>8, EventAssumption DEF ClearEventsRequest, ClearEvents, Take, StepInv, LateInv
  <2> QED
    BY <1>6, <2>1, <2>2, <2>3, <2>4, <2>5, <2>6, <2>7, <2>8 DEF Request
<1>7. CASE PersistEvents
  <2>1. /\ UNCHANGED <<mission, current, route, stopping, closed, unseen, late>>
        /\ up
        /\ holder' = holder \/ holder' = None
    BY <1>7 DEF PersistEvents, WriteCurrentEvents, WriteEventHistory, evTags, evMemory, StepInv
  <2>2. \A e \in Detections : currentEvents'[e] # None => e \in current
    BY <1>7, <2>1 DEF PersistEvents, WriteCurrentEvents, WriteEventHistory, StepInv
  <2> QED
    BY <2>1, <2>2 DEF LateInv
<1>8. CASE Crash
  BY <1>8 DEF Crash, LoseEvents, evTags, evFiles, LateInv
<1>9. CASE Restart
  <2>1. \A e \in current' : e \in Detections /\ currentEvents[e] # None
    BY <1>9 DEF Restart, LoadEvents
  <2>2. /\ UNCHANGED <<mission, currentEvents, route, stopping, closed, unseen, late>>
        /\ route = "idle"
    BY <1>9 DEF Restart, LoadEvents, evTags, evFiles, RouteInv
  <2> QED
    BY <2>1, <2>2 DEF LateInv
<1>10. CASE UNCHANGED vars
  BY <1>10, <1>4 DEF vars, evVars, evTags, evMemory, evFiles, evLock
<1> QED
  BY <1>5, <1>6, <1>7, <1>8, <1>9, <1>10 DEF Next

-----------------------------------------------------------------------------

\* The inductive invariant: how the keys, the current events, the two files
\* and the missions hang together at every step of a result, a stop and a
\* write.
THEOREM Invariance == Spec => []IInv
<1>1. IInv /\ [Next]_vars => IInv'
  BY TypeStep, EventStep, FreshStep, StoredStep, WorldStep, RouteStep, LateStep
     DEF IInv, EventInv
<1> QED
  BY <1>1, InitIInv, PTL DEF Spec

\* Every variable keeps its type.
THEOREM TypeCorrect == Spec => []TypeOK
<1>1. IInv => TypeOK
  BY DEF IInv
<1> QED
  BY <1>1, Invariance, PTL

\* The event files refer to detections the detection history held.
THEOREM EventsAreStored == Spec => []EventsNameStoredDetections
<1>1. IInv => EventsNameStoredDetections
  BY DEF IInv, StoredInv, EventsNameStoredDetections
<1> QED
  BY <1>1, Invariance, PTL

\* A detection finds at most one open event to join, whatever was interrupted.
THEOREM UniqueOpenEvent == Spec => []OneOpenEventPerKey
<1>1. IInv => OneOpenEventPerKey
  BY DEF IInv, IndexInv, OneOpenEventPerKey, OpenUnder, Open
<1> QED
  BY <1>1, Invariance, PTL

\* While no operation is under way the current events are the open ones, and
\* those that a crash left to the history file alone.
THEOREM CurrentAreOpen == Spec => []CurrentEventsAreOpen
<1>1. IInv => CurrentEventsAreOpen
  BY DEF IInv, TornInv, CurrentEventsAreOpen
<1> QED
  BY <1>1, Invariance, PTL

\* What a stop leaves open of a mission it looked up arrived late or was cut off.
THEOREM StopCloses == Spec => []StopClosesEvents
<1>1. IInv => StopClosesEvents
  BY DEF IInv, TornInv, LateInv, StopClosesEvents
<1> QED
  BY <1>1, Invariance, PTL

\* The parts of a result go to one mission unless a stop came between.
THEOREM ResultsStayTogether == Spec => []FiledTogether
<1>1. IInv => FiledTogether
  BY DEF IInv, WorldInv
<1> QED
  BY <1>1, Invariance, PTL

\* What the history file closed stays closed.
THEOREM ClosedStayClosed == Spec => ClosedEventsStayClosed
<1>1. ASSUME IInv, [Next]_vars, NEW e \in Detections,
             eventHistory[e] # None, eventHistory[e].status = "RESOLVED"
      PROVE  e \notin Open(eventHistory')
  <2>1. eventHistory' = eventHistory \/ eventHistory' = events
    <3> USE DEF evVars, evTags, evMemory, evFiles
    <3>1. ASSUME NEW d \in Detections, ResultStep(d) PROVE eventHistory' = eventHistory
      BY <3>1 DEF ResultStep, Begin, Store, RaiseEvent, RecordDetection, Acquire,
                  ListDetection, AppendManifest
    <3>2. CASE Request
      BY <3>2 DEF Request, StartRequest, StopRequest, StopMission, ResolveEvents,
                  ResolveSessionEvents, BeginClear, EraseDetections, EndClear,
                  ClearRequest, ClearEventsRequest, ClearEvents
    <3>3. CASE PersistEvents
      BY <3>3 DEF PersistEvents, WriteCurrentEvents, WriteEventHistory
    <3>4. CASE Crash \/ Restart
      BY <3>4 DEF Crash, LoseEvents, Restart, LoadEvents
    <3>5. CASE UNCHANGED vars
      BY <3>5 DEF vars
    <3> QED
      BY <1>1, <3>1, <3>2, <3>3, <3>4, <3>5 DEF Next
  <2>2. e \notin Open(events) /\ e \notin Open(eventHistory)
    BY <1>1 DEF IInv, DiskInv, Open
  <2> QED
    BY <2>1, <2>2
<1>2. IInv /\ [Next]_vars =>
        [\A e \in Detections :
           eventHistory[e] # None /\ eventHistory[e].status = "RESOLVED" =>
               e \notin Open(eventHistory')]_vars
  BY <1>1
<1> QED
  BY <1>2, Invariance, PTL DEF ClosedEventsStayClosed, Spec
=============================================================================
