------------------------------ MODULE MCServices ------------------------------
EXTENDS Services

Still == [part |-> "none", requests |-> 0, mishaps |-> 0, missions |-> 0, shots |-> 0,
          trouble |-> 0, errands |-> 0, slips |-> 0, clicks |-> 0, turns |-> 0]

MCParts ==
  {[Still EXCEPT !.part = "access", !.requests = 2, !.mishaps = 2],
   [Still EXCEPT !.part = "captures", !.missions = 1, !.shots = 2, !.trouble = 1],
   [Still EXCEPT !.part = "captures", !.missions = 2, !.shots = 2],
   [Still EXCEPT !.part = "exports", !.errands = 4, !.slips = 1],
   [Still EXCEPT !.part = "polling", !.clicks = 5],
   [Still EXCEPT !.part = "sources", !.turns = 4]}
=============================================================================
