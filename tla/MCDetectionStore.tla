-------------------------- MODULE MCDetectionStore --------------------------
(* DetectionStore on four interchangeable detections: enough for a run of  *)
(* two that replaces a run of two, and for compactions and crashes between *)
(* any of the writes of both.                                              *)
EXTENDS DetectionStore, TLC

Symmetry == Permutations(Detections)
=============================================================================
