------------------------------ MODULE EventStore ------------------------------
(***************************************************************************)
(* EventManager (easy_dashboard/event_manager.py): the events that group   *)
(* the detections of one object in one mission, which of them are open,    *)
(* and the two files they are kept in.                                     *)
(*                                                                         *)
(* Every operation holds the manager's lock and ends in _persist(), whose  *)
(* writes are separate steps.  An event is named by the detection that     *)
(* created it.  The events.json of each mission, which _persist() writes   *)
(* last and no start-up reads, is left out.                                *)
(***************************************************************************)
EXTENDS Naturals

CONSTANTS Detections,  \* ids of detections, and of the events they create
          MaxMissions, \* bound: session ids there are
          Kinds,       \* event type and source, as the event key has them
          None

Event == [status : {"NEW", "ACTIVE", "RESOLVED"}, related : SUBSET Detections]

ASSUME EventAssumption ==
    /\ MaxMissions \in Nat
    /\ None \notin Nat \cup Kinds \cup Detections \cup Event
    /\ None \notin {"load", "stop", "clear"}

Missions == 1 .. MaxMissions   \* in the order they are given out

VARIABLES
    mission,       \* session_id of each detection
    kind,          \* its kind, None if its class raises no event
    \* the manager's memory
    events,        \* _records
    current,       \* _current_ids
    active,        \* _active_keys
    \* the files
    currentEvents, \* current_events.json
    eventHistory,  \* event_history.json
    \* the lock
    evStep,        \* the write _persist() does next
    holder         \* who holds the lock

evTags   == <<mission, kind>>
evMemory == <<events, current, active>>
evFiles  == <<currentEvents, eventHistory>>
evLock   == <<evStep, holder>>
evVars   == <<evTags, evMemory, evFiles, evLock>>

Keys == Missions \X Kinds
Holders == Detections \cup {None, "load", "stop", "clear"}

EvTypeOK ==
    /\ mission \in [Detections -> Missions \cup {None}]
    /\ kind \in [Detections -> Kinds \cup {None}]
    /\ events \in [Detections -> Event \cup {None}]
    /\ current \in SUBSET Detections
    /\ active \in [Keys -> Detections \cup {None}]
    /\ currentEvents \in [Detections -> Event \cup {None}]
    /\ eventHistory \in [Detections -> Event \cup {None}]
    /\ evStep \in {"idle", "current", "history"}
    /\ holder \in Holders

NoEvents == [e \in Detections |-> None]
NoKeys   == [k \in Keys |-> None]

Key(d) == <<mission[d], kind[d]>>

\* The open events of a table, and those of them that have key k.
Open(table) ==
    {e \in Detections : table[e] # None /\ table[e].status \in {"NEW", "ACTIVE"}}
OpenUnder(table, k) == {e \in Open(table) : Key(e) = k}

EvInit ==
    /\ mission = [d \in Detections |-> None]
    /\ kind = [d \in Detections |-> None]
    /\ events = NoEvents
    /\ current = {}
    /\ active = NoKeys
    /\ currentEvents = NoEvents
    /\ eventHistory = NoEvents
    /\ evStep = "idle"
    /\ holder = None

Take(who) ==
    /\ evStep = "idle"
    /\ evStep' = "current"
    /\ holder' = who

-----------------------------------------------------------------------------
(* Start-up: the history, then the current events over it.                 *)

\* Mutant: the events of the history file are not indexed.
Indexed_CurrentOnly(k) ==
    IF OpenUnder(currentEvents, k) # {} THEN OpenUnder(currentEvents, k)
                                        ELSE {None}

\* The event that the key is indexed under: a later entry overrides.
Indexed(k) ==
    CASE OpenUnder(currentEvents, k) # {} -> OpenUnder(currentEvents, k)
      [] OpenUnder(currentEvents, k) = {} /\ OpenUnder(eventHistory, k) # {} ->
            OpenUnder(eventHistory, k)
      [] OTHER -> {None}

LoadEvents ==
    /\ Take("load")
    /\ events' = [e \in Detections |->
                    IF currentEvents[e] # None THEN currentEvents[e]
                                               ELSE eventHistory[e]]
    /\ current' = {e \in Detections : currentEvents[e] # None}
    /\ active' \in {f \in [Keys -> Detections \cup {None}] :
                      \A k \in Keys : f[k] \in Indexed(k)}
    /\ UNCHANGED <<evTags, evFiles>>

-----------------------------------------------------------------------------
(* Operations.                                                             *)

\* Mutant: an updated event gets a status of its own.
Joined_Updated(e, d) ==
    [status |-> "UPDATED", related |-> events[e].related \cup {d}]

Joined(e, d) == [status |-> "ACTIVE", related |-> events[e].related \cup {d}]

\* The event that the key of d is indexed under.
Match(d) == active[Key(d)]

\* Further detections of an object update its event ...
UpdateEvent(d) ==
    /\ Match(d) # None
    /\ events[Match(d)] # None
    /\ events' = [events EXCEPT ![Match(d)] = Joined(Match(d), d)]
    /\ UNCHANGED <<current, active>>

\* ... that the first creates.
CreateEvent(d) ==
    /\ Match(d) # None => events[Match(d)] = None
    /\ events' = [events EXCEPT ![d] = [status |-> "NEW", related |-> {d}]]
    /\ current' = current \cup {d}
    /\ active' = [active EXCEPT ![Key(d)] = d]

RecordDetection(d) ==
    /\ Take(d)
    /\ kind[d] # None
    /\ UpdateEvent(d) \/ CreateEvent(d)
    /\ UNCHANGED <<evTags, evFiles>>

\* Mutant: an event that was never updated is not closed.
Closing_ActiveOnly(m) ==
    {e \in current : mission[e] = m /\ events[e] # None /\ events[e].status = "ACTIVE"}

\* The current events of mission m.
Closing(m) == {e \in current : mission[e] = m /\ events[e] # None}

\* Mutant: the key of a closed event is kept.
ResolveSessionEvents_KeepsKey(m) ==
    /\ Take("stop")
    /\ events' = [e \in Detections |->
                    IF e \in Closing(m) THEN [events[e] EXCEPT !.status = "RESOLVED"]
                                     ELSE events[e]]
    /\ current' = current \cap Open(events')
    /\ UNCHANGED <<active, evTags, evFiles>>

\* The current events of the mission are closed and their keys given up.
ResolveSessionEvents(m) ==
    /\ Take("stop")
    /\ events' = [e \in Detections |->
                    IF e \in Closing(m) THEN [events[e] EXCEPT !.status = "RESOLVED"]
                                     ELSE events[e]]
    /\ active' = [k \in Keys |-> IF active[k] \in Closing(m) THEN None ELSE active[k]]
    /\ current' = current \cap Open(events')
    /\ UNCHANGED <<evTags, evFiles>>

ClearEvents ==
    /\ Take("clear")
    /\ events' = NoEvents
    /\ current' = {}
    /\ active' = NoKeys
    /\ UNCHANGED <<evTags, evFiles>>

-----------------------------------------------------------------------------
(* _persist().                                                             *)

WriteCurrentEvents ==
    /\ evStep = "current"
    /\ currentEvents' = [e \in Detections |->
                           IF e \in current THEN events[e] ELSE None]
    /\ evStep' = "history"
    /\ UNCHANGED <<evTags, evMemory, eventHistory, holder>>

WriteEventHistory ==
    /\ evStep = "history"
    /\ eventHistory' = events
    /\ evStep' = "idle"
    /\ holder' = None
    /\ UNCHANGED <<evTags, evMemory, currentEvents>>

\* The process dies: the files stay.
LoseEvents ==
    /\ events' = NoEvents
    /\ current' = {}
    /\ active' = NoKeys
    /\ evStep' = "idle"
    /\ holder' = None
    /\ UNCHANGED <<evTags, evFiles>>
=============================================================================
