---------------------------- MODULE MCSessionStore ----------------------------
(* SessionStore with interchangeable detections: calls that overlap each   *)
(* other, a stop and a shutdown, over two missions and any crash.          *)
EXTENDS SessionStore, TLC

Symmetry == Permutations(Detections)
=============================================================================
