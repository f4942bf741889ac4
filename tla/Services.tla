------------------------------- MODULE Services -------------------------------
(***************************************************************************)
(* The services around the cameras and the model: accounts (Access), the     *)
(* archive (Captures), its exports (Exports), the dashboard's requests        *)
(* (Polling) and the sources (Sources).  They share no state that changes,   *)
(* so a behaviour is one of one of them.                                     *)
(***************************************************************************)
EXTENDS Access, Captures, Exports, Polling, Sources

CONSTANT Parts  \* which part moves, and the bounds on what happens in it

VARIABLE part

vars == <<part, accessVars, captureVars, exportVars, pollingVars, sourceVars>>

Init ==
  \E p \in Parts :
    /\ part = p.part
    /\ requests = p.requests /\ mishaps = p.mishaps
    /\ missions = p.missions /\ shots = p.shots /\ trouble = p.trouble
    /\ errands = p.errands /\ slips = p.slips
    /\ clicks = p.clicks /\ turns = p.turns
    /\ AccessInit /\ CapturesInit /\ ExportsInit /\ PollingInit /\ SourcesInit
    /\ part # "access" => ~HasAdmin(users)
    /\ part # "sources" => folder = {}

InAccess == part = "access" /\ AccessNext /\ UNCHANGED <<part, captureVars, exportVars, pollingVars, sourceVars>>
InCaptures == part = "captures" /\ CapturesNext /\ UNCHANGED <<part, accessVars, exportVars, pollingVars, sourceVars>>
InExports == part = "exports" /\ ExportsNext /\ UNCHANGED <<part, accessVars, captureVars, pollingVars, sourceVars>>
InPolling == part = "polling" /\ PollingNext /\ UNCHANGED <<part, accessVars, captureVars, exportVars, sourceVars>>
InSources == part = "sources" /\ SourcesNext /\ UNCHANGED <<part, accessVars, captureVars, exportVars, pollingVars>>

Next == InAccess \/ InCaptures \/ InExports \/ InPolling \/ InSources

\* Timers fire, and a request of the dashboard is answered or given up.  Time
\* passes, the keep-alive comes round, a selection under way runs on, and so
\* does the thread of the worker's loop.  Nobody has to ask for anything: not
\* for a page, nor a frame, nor a start of the loop.
Fairness ==
  /\ WF_pollingVars(part = "polling" /\ TimerFires)
  /\ \A i \in Ids :
       /\ WF_pollingVars(part = "polling" /\ Serve(i))
       /\ WF_pollingVars(part = "polling" /\ Receive(i))
       /\ WF_pollingVars(part = "polling" /\ ServeCall(i))
       /\ WF_pollingVars(part = "polling" /\ ReceiveList(i))
  /\ WF_sourceVars(part = "sources" /\ CacheOver)
  /\ WF_sourceVars(part = "sources" /\ RefreshDevices)
  /\ WF_sourceVars(part = "sources" /\ LoopLooks)
  /\ WF_sourceVars(part = "sources" /\ LoopAsks)
  /\ \A t \in Tabs :
       /\ WF_sourceVars(part = "sources" /\ Sync(t))
       /\ WF_sourceVars(part = "sources" /\ Configure(t))

Spec == Init /\ [][Next]_vars /\ Fairness

\* Each part's state is of its type.
TypeOK ==
  AccessTypeOK /\ CapturesTypeOK /\ ExportsTypeOK /\ PollingTypeOK /\ SourcesTypeOK

\* The archive is one that datasets come from (stores.py,
\* acquisition_manager.py): its index, its files, the missions' manifests and
\* the pairs of one sample agree.
ArchiveIsSound == IndexIsTrue /\ ManifestNamesFiles /\ PairsStayTogether
=============================================================================
