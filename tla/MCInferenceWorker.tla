------------------------- MODULE MCInferenceWorker -------------------------
(* InferenceWorker with two HTTP threads, two thread objects and a run of  *)
(* two failures: two starts that race for the thread object, and a loop    *)
(* that outlives the stop that waited for it beside the next one.          *)
EXTENDS InferenceWorker
=============================================================================
