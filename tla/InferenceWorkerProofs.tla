------------------------ MODULE InferenceWorkerProofs ------------------------
(***************************************************************************)
(* Proofs about InferenceWorker, for any number of HTTP threads, thread    *)
(* objects and failures.                                                   *)
(***************************************************************************)
EXTENDS InferenceWorker, FiniteSetTheorems, TLAPS

\* TypeOK but for the bound on the failures, which FailInv gives.
Types ==
    /\ request \in [Requests -> RequestSteps]
    /\ asked \in [Requests -> Modes]
    /\ loop \in [Loops -> LoopSteps]
    /\ lock \in Requests \cup {None}
    /\ stopping \in BOOLEAN
    /\ running \in BOOLEAN
    /\ thread \in Loops \cup {None}
    /\ mode \in Modes
    /\ failures \in Nat
    /\ source \in Sources
    /\ frameError \in BOOLEAN
    /\ late \in [Loops -> Nat]
    /\ \A r \in Requests : request[r] = "launch" => thread \in Loops

\* A thread object that is stored but not started yet is kept for a request
\* that will start it.  RunningHasALoop alone is not inductive: the request
\* that fails to start the stored object must leave another one behind.
LaunchInv ==
    running => \/ \E t \in Loops : Alive(t)
               \/ \E r \in Requests : request[r] = "assign"
               \/ /\ thread \in Loops
                  /\ loop[thread] = "created"
                  /\ \E r \in Requests : request[r] = "launch"

\* A loop that began an inference after the stop request is on its way out.
LateInv ==
    \A t \in Loops : \/ late[t] = 0
                     \/ late[t] = 1 /\ stopping /\ loop[t] # "infer"

\* Loops past their last failure, or about to look at the count after one.
Spent == {t \in Loops : loop[t] \in {"failed", "exit", "dead"}}

\* A loop that fails when the count is at its limit does not fail again: it
\* looks at the count before anything else, and the count is set back only to
\* zero.
FailInv == failures <= MaxFailures + Cardinality(Spent)

IInv == Types /\ LaunchInv /\ LateInv /\ FailInv

\* The worker starts with no thread, no request and no failure.
LEMMA InitIInv == Init => IInv
<1> SUFFICES ASSUME Init PROVE IInv
  OBVIOUS
<1>1. Types
  BY DEF Init, Types, RequestSteps, LoopSteps, Modes, Sources
<1>2. LaunchInv
  BY DEF Init, LaunchInv
<1>3. LateInv
  BY DEF Init, LateInv
<1>4. FailInv
  <2>1. Spent = {}
    BY DEF Init, Spent
  <2>2. QED
    BY <2>1, FS_EmptySet, WorkerAssumption DEF Init, FailInv
<1>5. QED
  BY <1>1, <1>2, <1>3, <1>4 DEF IInv

-----------------------------------------------------------------------------

\* Every step keeps the types, and a request about to start a thread keeps
\* a thread object to start.
LEMMA TypesStep == Types /\ [Next]_vars => Types'
<1> SUFFICES ASSUME Types, [Next]_vars PROVE Types'
  OBVIOUS
<1> USE WorkerAssumption
    DEF Types, RequestSteps, LoopSteps, Modes, Sources, Goto, LoopGoto, LoopVars,
        Shared, input
<1>1. ASSUME NEW r \in Requests, NewRequest(r)
      PROVE  Types'
  <2>1. CASE RunFrame(r) \/ FetchFrame(r)
    <3>1. frameError' \in BOOLEAN
      BY <2>1 DEF RunFrame, FetchFrame, FrameRaises, FrameServed
    <3>2. request' \in [Requests -> RequestSteps]
      BY <2>1 DEF RunFrame, FetchFrame, Noted
    <3>3. \A q \in Requests : request'[q] = "launch" => request[q] = "launch"
      BY <2>1 DEF RunFrame, FetchFrame, Noted
    <3>4. UNCHANGED <<asked, LoopVars, Shared, source>>
      BY <2>1 DEF RunFrame, FetchFrame
    <3>5. QED
      BY <3>1, <3>2, <3>3, <3>4
  <2>2. QED
    BY <1>1, <2>1 DEF NewRequest, StartRequest, StopRequest, StatusRequest,
       RunImage, Noted
<1>2. ASSUME NEW r \in Requests, RequestStep(r)
      PROVE  Types'
  <2>1. CASE Validate(r)
    BY <2>1 DEF Validate
  <2>2. CASE Reject(r)
    BY <2>2 DEF Reject
  <2>3. CASE EnterRunning(r)
    BY <2>3 DEF EnterRunning
  <2>4. CASE EnterStopped(r)
    BY <2>4 DEF EnterStopped
  <2>5. CASE AssignThread(r)
    BY <2>5 DEF AssignThread, Unused
  <2>6. CASE LaunchThread(r)
    BY <2>6 DEF LaunchThread
  <2>7. CASE MarkStopped(r)
    BY <2>7 DEF MarkStopped
  <2>8. CASE Status(r)
    BY <2>8 DEF Status
  <2>9. QED
    BY <1>2, <2>1, <2>2, <2>3, <2>4, <2>5, <2>6, <2>7, <2>8 DEF RequestStep
<1>3. ASSUME NEW t \in Loops, LoopStep(t)
      PROVE  Types'
  <2>1. CASE Top(t)
    BY <2>1 DEF Top
  <2>2. CASE Infer(t)
    <3>1. loop' \in [Loops -> LoopSteps]
      BY <2>2 DEF Infer, Begins
    <3>2. late' \in [Loops -> Nat]
      BY <2>2 DEF Infer, Begins
    <3>3. frameError' \in BOOLEAN
      BY <2>2 DEF Infer, FrameRaises, FrameServed
    <3>4. failures' \in Nat
      BY <2>2 DEF Infer
    <3>5. UNCHANGED <<request, asked, Shared, source>>
      BY <2>2 DEF Infer
    <3>6. QED
      BY <3>1, <3>2, <3>3, <3>4, <3>5
  <2>3. CASE Record(t)
    BY <2>3 DEF Record
  <2>4. CASE Failed(t)
    BY <2>4 DEF Failed
  <2>5. CASE Wake(t)
    BY <2>5 DEF Wake
  <2>6. CASE Exit(t)
    BY <2>6 DEF Exit
  <2>7. QED
    BY <1>3, <2>1, <2>2, <2>3, <2>4, <2>5, <2>6 DEF LoopStep
<1>4. CASE SourceChanges \/ ResetProvider
  BY <1>4 DEF SourceChanges, ResetProvider
<1>5. CASE UNCHANGED vars
  BY <1>5 DEF vars
<1>6. QED
  BY <1>1, <1>2, <1>3, <1>4, <1>5 DEF Next

\* Every step keeps a loop, or a thread about to become one, behind
\* "running".
LEMMA LaunchStep == Types /\ LaunchInv /\ [Next]_vars => LaunchInv'
<1> SUFFICES ASSUME Types, LaunchInv, [Next]_vars, running'
             PROVE  LaunchInv'
  BY DEF LaunchInv
<1>0. Types'
  BY TypesStep
<1> USE WorkerAssumption
    DEF Types, Goto, LoopGoto, LoopVars, Shared, input, Alive, RequestSteps, LoopSteps
<1>1. ASSUME NEW r \in Requests, NewRequest(r)
      PROVE  LaunchInv'
  BY <1>1 DEF NewRequest, StartRequest, StopRequest, StatusRequest, RunFrame,
              RunImage, FetchFrame, Noted, LaunchInv
<1>2. ASSUME NEW r \in Requests, RequestStep(r)
      PROVE  LaunchInv'
  <2>1. CASE Validate(r)
    BY <2>1 DEF Validate, LaunchInv
  <2>2. CASE Reject(r) \/ MarkStopped(r)
    BY <2>2 DEF Reject, MarkStopped
  <2>3. CASE EnterRunning(r)
    BY <2>3 DEF EnterRunning, LaunchInv
  <2>4. CASE EnterStopped(r)
    <3>1. request'[r] = "assign"
      BY <2>4 DEF EnterStopped
    <3>2. QED
      BY <3>1 DEF LaunchInv
  <2>5. CASE AssignThread(r)
    <3>1. /\ thread' \in Loops
          /\ loop'[thread'] = "created"
          /\ request'[r] = "launch"
      BY <2>5 DEF AssignThread, Unused
    <3>2. QED
      BY <3>1 DEF LaunchInv
  <2>6. CASE LaunchThread(r)
    <3>0. thread \in Loops /\ thread' = thread
      BY <2>6 DEF LaunchThread
    <3>1. CASE loop[thread] = "created"
      <4>1. loop'[thread] = "top"
        BY <2>6, <3>0, <3>1 DEF LaunchThread
      <4>2. QED
        BY <3>0, <4>1 DEF LaunchInv
    <3>2. CASE loop[thread] # "created"
      <4>1. \/ \E t \in Loops : Alive(t)
            \/ \E q \in Requests : request[q] = "assign"
        BY <2>6, <3>2 DEF LaunchInv, LaunchThread
      <4>2. CASE \E t \in Loops : Alive(t)
        BY <2>6, <3>2, <4>2 DEF LaunchInv, LaunchThread
      <4>3. ASSUME NEW q \in Requests, request[q] = "assign"
            PROVE  request'[q] = "assign"
        BY <2>6, <3>2, <4>3 DEF LaunchThread
      <4>4. QED
        BY <4>1, <4>2, <4>3 DEF LaunchInv
    <3>3. QED
      BY <3>1, <3>2
  <2>7. CASE Status(r)
    BY <2>7 DEF Status, LaunchInv
  <2>8. QED
    BY <1>2, <2>1, <2>2, <2>3, <2>4, <2>5, <2>6, <2>7 DEF RequestStep
<1>3. ASSUME NEW t \in Loops, LoopStep(t)
      PROVE  LaunchInv'
  <2>1. CASE Exit(t)
    BY <2>1 DEF Exit
  <2>2. CASE Top(t) \/ Infer(t) \/ Record(t) \/ Failed(t) \/ Wake(t)
    <3>1. loop'[t] \notin {"unused", "created", "dead"}
      BY <2>2 DEF Top, Infer, Record, Failed, Wake
    <3>2. QED
      BY <3>1 DEF LaunchInv
  <2>3. QED
    BY <1>3, <2>1, <2>2 DEF LoopStep
<1>4. CASE SourceChanges \/ ResetProvider
  BY <1>4 DEF SourceChanges, ResetProvider, LaunchInv
<1>5. CASE UNCHANGED vars
  BY <1>5 DEF vars, LaunchInv
<1>6. QED
  BY <1>1, <1>2, <1>3, <1>4, <1>5 DEF Next

\* Every step keeps a loop that works past the stop request to one
\* inference.
LEMMA LateStep == Types /\ LateInv /\ [Next]_vars => LateInv'
<1> SUFFICES ASSUME Types, LateInv, [Next]_vars PROVE LateInv'
  OBVIOUS
<1> USE DEF Types, LateInv, Goto, LoopGoto, LoopVars, Shared, input
<1>1. ASSUME NEW r \in Requests, NewRequest(r)
      PROVE  LateInv'
  BY <1>1 DEF NewRequest, StartRequest, StopRequest, StatusRequest, RunFrame,
              RunImage, FetchFrame
<1>2. ASSUME NEW r \in Requests, RequestStep(r)
      PROVE  LateInv'
  <2>1. CASE \/ Validate(r) \/ Reject(r) \/ EnterRunning(r)
             \/ MarkStopped(r) \/ Status(r)
    BY <2>1 DEF Validate, Reject, EnterRunning, MarkStopped, Status
  <2>2. CASE EnterStopped(r)
    BY <2>2 DEF EnterStopped
  <2>3. CASE AssignThread(r)
    BY <2>3 DEF AssignThread, Unused
  <2>4. CASE LaunchThread(r)
    BY <2>4 DEF LaunchThread
  <2>5. QED
    BY <1>2, <2>1, <2>2, <2>3, <2>4 DEF RequestStep
<1>3. ASSUME NEW t \in Loops, LoopStep(t)
      PROVE  LateInv'
  <2>1. CASE Infer(t)
    <3>1. loop[t] = "infer" /\ loop'[t] # "infer" /\ stopping' = stopping
      BY <2>1 DEF Infer, Begins
    <3>2. late[t] = 0
      BY <3>1
    <3>3. late'[t] = IF stopping THEN 1 ELSE 0
      BY <2>1, <3>2 DEF Infer, Begins
    <3>4. \A u \in Loops \ {t} : late'[u] = late[u] /\ loop'[u] = loop[u]
      BY <2>1 DEF Infer, Begins
    <3>5. QED
      BY <3>1, <3>3, <3>4
  <2>2. CASE Top(t)
    BY <2>2 DEF Top
  <2>3. CASE Record(t) \/ Failed(t)
    BY <2>3 DEF Record, Failed
  <2>4. CASE Wake(t) \/ Exit(t)
    BY <2>4 DEF Wake, Exit
  <2>5. QED
    BY <1>3, <2>1, <2>2, <2>3, <2>4 DEF LoopStep
<1>4. CASE SourceChanges \/ ResetProvider
  BY <1>4 DEF SourceChanges, ResetProvider
<1>5. CASE UNCHANGED vars
  BY <1>5 DEF vars
<1>6. QED
  BY <1>1, <1>2, <1>3, <1>4, <1>5 DEF Next

\* A step that spends at most the one loop that fails keeps the bound.
LEMMA SpentGrows ==
    ASSUME Types, Types', Spent \subseteq Spent', FailInv,
           failures' <= failures
    PROVE  FailInv'
<1>1. IsFiniteSet(Spent') /\ IsFiniteSet(Spent)
  BY WorkerAssumption, FS_Subset DEF Spent
<1>2. Cardinality(Spent) <= Cardinality(Spent')
  BY <1>1, FS_Subset
<1>3. Cardinality(Spent) \in Nat /\ Cardinality(Spent') \in Nat
  BY <1>1, FS_CardinalityType
<1>4. QED
  BY <1>2, <1>3, WorkerAssumption DEF FailInv, Types

\* Every step keeps the bound on the failures.
LEMMA FailStep == Types /\ FailInv /\ [Next]_vars => FailInv'
<1> SUFFICES ASSUME Types, FailInv, [Next]_vars PROVE FailInv'
  OBVIOUS
<1>0. Types'
  BY TypesStep
<1> DEFINE Kept == Spent \subseteq Spent' /\ failures' <= failures
<1> USE DEF Types, Goto, LoopGoto, LoopVars, Shared, input
<1>1. ASSUME NEW r \in Requests, NewRequest(r)
      PROVE  Kept
  <2>1. UNCHANGED LoopVars
    BY <1>1 DEF NewRequest, StartRequest, StopRequest, StatusRequest, RunFrame,
       RunImage, FetchFrame
  <2>2. QED
    BY <2>1 DEF Spent
<1>2. ASSUME NEW r \in Requests, RequestStep(r)
      PROVE  Kept
  <2>1. CASE \/ Validate(r) \/ Reject(r) \/ EnterRunning(r)
             \/ EnterStopped(r) \/ MarkStopped(r) \/ Status(r)
    BY <2>1 DEF Validate, Reject, EnterRunning, EnterStopped, MarkStopped,
                Status, Spent
  <2>2. CASE AssignThread(r)
    BY <2>2 DEF AssignThread, Unused, Spent
  <2>3. CASE LaunchThread(r)
    BY <2>3 DEF LaunchThread, Spent
  <2>4. QED
    BY <1>2, <2>1, <2>2, <2>3 DEF RequestStep
<1>3. ASSUME NEW t \in Loops, Infer(t)
      PROVE  FailInv'
  <2>1. CASE failures' = failures
    <3>1. Spent \subseteq Spent'
      BY <1>3 DEF Infer, Spent
    <3>2. QED
      BY <1>0, <2>1, <3>1, SpentGrows
  <2>2. CASE failures' # failures
    <3>1. failures' = failures + 1 /\ loop[t] = "infer" /\ loop'[t] = "failed"
      BY <1>3, <2>2 DEF Infer
    <3>2. t \notin Spent /\ Spent' = Spent \cup {t}
      BY <1>3, <3>1 DEF Infer, Spent
    <3>3. IsFiniteSet(Spent)
      BY WorkerAssumption, FS_Subset DEF Spent
    <3>4. Cardinality(Spent') = Cardinality(Spent) + 1 /\ Cardinality(Spent) \in Nat
      BY <3>2, <3>3, FS_AddElement, FS_CardinalityType
    <3>5. QED
      BY <3>1, <3>4, WorkerAssumption DEF FailInv
  <2>3. QED
    BY <2>1, <2>2
<1>4. ASSUME NEW t \in Loops, Failed(t)
      PROVE  FailInv'
  <2>1. CASE loop'[t] = "exit"
    <3>1. Spent \subseteq Spent' /\ failures' = failures
      BY <1>4, <2>1 DEF Failed, Spent
    <3>2. QED
      BY <1>0, <3>1, SpentGrows
  <2>2. CASE loop'[t] # "exit"
    <3>1. failures' = failures /\ failures < MaxFailures
      BY <1>4, <2>2, WorkerAssumption DEF Failed
    <3>2. Cardinality(Spent') \in Nat
      BY WorkerAssumption, FS_Subset, FS_CardinalityType DEF Spent
    <3>3. QED
      BY <3>1, <3>2, WorkerAssumption DEF FailInv
  <2>3. QED
    BY <2>1, <2>2
<1>5. ASSUME NEW t \in Loops, Top(t) \/ Record(t) \/ Wake(t) \/ Exit(t)
      PROVE  Kept
  BY <1>5 DEF Top, Record, Wake, Exit, Spent
<1>6. CASE SourceChanges \/ ResetProvider
  BY <1>6, <1>0, SpentGrows DEF SourceChanges, ResetProvider, Spent
<1>7. CASE UNCHANGED vars
  BY <1>7, <1>0, SpentGrows DEF vars, Spent
<1>8. Kept => FailInv'
  BY <1>0, SpentGrows
<1>9. QED
  BY <1>1, <1>2, <1>3, <1>4, <1>5, <1>6, <1>7, <1>8 DEF Next, LoopStep

-----------------------------------------------------------------------------

\* The inductive invariant holds in every reachable state, for any number of
\* requests, thread objects and failures.
THEOREM Invariance == Spec => []IInv
<1>1. IInv /\ [Next]_vars => IInv'
  BY TypesStep, LaunchStep, LateStep, FailStep DEF IInv
<1>2. QED
  BY <1>1, InitIInv, PTL DEF Spec

\* Every variable has its type, and the count of failures its bound: beyond the
\* limit it grows only by loops that fail for the last time.
THEOREM TypeCorrect == Spec => []TypeOK
<1>1. IInv => TypeOK
  <2> SUFFICES ASSUME IInv PROVE failures \in 0 .. MaxFailures + Cardinality(Loops)
    BY DEF IInv, Types, TypeOK
  <2>1. Cardinality(Spent) <= Cardinality(Loops)
    BY WorkerAssumption, FS_Subset DEF Spent
  <2>2. Cardinality(Spent) \in Nat /\ Cardinality(Loops) \in Nat
    BY WorkerAssumption, FS_Subset, FS_CardinalityType DEF Spent
  <2>3. QED
    BY <2>1, <2>2, WorkerAssumption DEF IInv, Types, FailInv
<1>2. QED
  BY <1>1, Invariance, PTL

\* "running" always has a loop behind it, or a start() about to launch one,
\* however starts, stops and the exits of the loops interleave.
THEOREM RunningIsBacked == Spec => []RunningHasALoop
<1>1. IInv => RunningHasALoop
  BY DEF IInv, LaunchInv, RunningHasALoop, Spawning
<1>2. QED
  BY <1>1, Invariance, PTL

\* After a stop request each loop begins at most one inference more.
THEOREM StopIsPrompt == Spec => []StopBoundsWork
<1>1. IInv => StopBoundsWork
  BY DEF IInv, Types, LateInv, StopBoundsWork
<1>2. QED
  BY <1>1, Invariance, PTL
=============================================================================
