---------------------------- MODULE MCOrchestrator ----------------------------
EXTENDS Orchestrator

\* One camera at a time: the two share the orchestrator's jobs and nothing else.
Rgb(c, f, r) == [cameras |-> {"rgb"}, calls |-> c, faults |-> f, changes |-> 0,
                 restart |-> r, exit |-> 0]
Thermal(n, e) == [cameras |-> {"thermal"}, calls |-> 0, faults |-> 0, changes |-> n,
                  restart |-> 0, exit |-> e]
OneCameraEach == {Rgb(2, 0, 1), Rgb(2, 1, 0), Thermal(3, 0), Thermal(0, 1)}
OnlyThermal == {Thermal(3, 0)}
=============================================================================
