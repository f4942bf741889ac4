-------------------------- MODULE MCMissionPipeline --------------------------
(* MissionPipeline with interchangeable detections and one kind of event:  *)
(* results that overlap each other, a stop and a clear, over two missions, *)
(* and a crash anywhere.                                                   *)
EXTENDS MissionPipeline, TLC

Symmetry == Permutations(Detections)
=============================================================================
