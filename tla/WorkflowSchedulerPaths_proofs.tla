-------------------- MODULE WorkflowSchedulerPaths_proofs --------------------
(***************************************************************************)
(* Which nodes a run reaches, for every plan: SkipsDeadPathsOnly, and      *)
(* where a run can stall.                                                  *)
(*                                                                         *)
(* A node that is not a root counts its live edges in activeInputs         *)
(* (ActiveInv), both when waves add to the counter and when a resume       *)
(* rebuilds it from the traces and the blackboard; executeWave answers     *)
(* "skipped" for exactly the nodes whose count is zero (SkipInv).  A live  *)
(* edge starts at a settled node and so stays live, and a node is settled  *)
(* only after its predecessors (PredInv of WorkflowScheduler_proofs), so a *)
(* dead one stays dead.                                                    *)
(*                                                                         *)
(* A node whose predecessors are settled is settled or ready (FrontierInv),*)
(* with one exception: the replay of a resume decrements counters, and a   *)
(* root has none to decrement.  In a plan without cycles a run that stops  *)
(* early has such a root.                                                  *)
(***************************************************************************)
EXTENDS WorkflowSchedulerEvents_proofs

LiveEdges(n) == {e \in Incoming(n) : LiveEdge(e)}
Dead(n) == Incoming(n) # {} /\ \A e \in Incoming(n) : ~ LiveEdge(e)
\* the statuses of a node that has been started
Ran == Status \ {"pending", "skipped", "canceled", "timed_out"}

ActiveInv ==
    phase # "returned" =>
        \A n \in Node \ Roots : activeInputs[n] = Cardinality(LiveEdges(n))

SkipInv ==
    phase = "wave" => \A n \in readyIDs : result[n] = "skipped" <=> isSkipped(n)

PathInv == ActiveInv /\ SkipInv /\ SkipsDeadPathsOnly

-----------------------------------------------------------------------------
(* Live and dead *)

\* The counter of a scheduler that runs decides whether a node is dead.
LEMMA SkippedIsDead ==
  ASSUME IInv, ActiveInv, phase # "returned", NEW n \in Node
  PROVE  isSkipped(n) <=> Dead(n)
<1>1. IsFiniteSet(Incoming(n)) /\ InDegree(n) \in Nat
  BY EdgesFinite DEF InDegree
<1>2. InDegree(n) > 0 <=> Incoming(n) # {}
  BY <1>1, FS_EmptySet DEF InDegree
<1>3. LiveEdges(n) \subseteq Incoming(n) BY DEF LiveEdges
<1>4. IsFiniteSet(LiveEdges(n)) BY <1>3, EdgesFinite
<1>5. Cardinality(LiveEdges(n)) = 0 <=> LiveEdges(n) = {} BY <1>4, FS_EmptySet
<1>6. Incoming(n) # {} => n \in Node \ Roots BY DEF Roots
<1>7. LiveEdges(n) = {} <=> \A e \in Incoming(n) : ~ LiveEdge(e) BY DEF LiveEdges
<1> QED BY <1>2, <1>5, <1>6, <1>7 DEF ActiveInv, isSkipped, Dead

\* What a step may do to the settled nodes: nothing.
SettledKept ==
    \A m \in SettledNodes : status'[m] = status[m] /\ branch'[m] = branch[m]

\* An edge that leaves a settled node is live for ever or never.
LEMMA LiveStays ==
  ASSUME SettledKept, NEW e, Source[e] \in SettledNodes
  PROVE  LiveEdge(e)' <=> LiveEdge(e)
BY DEF SettledKept, LiveEdge, EdgeActive

\* A live edge leaves a settled node.
LEMMA LiveIsSettled ==
  ASSUME NEW e \in Edge, LiveEdge(e)
  PROVE  Source[e] \in SettledNodes
BY PlanAssumption DEF LiveEdge, EdgeActive, SettledNodes, Settled

\* A step keeps SkipsDeadPathsOnly if it skips dead nodes behind settled
\* predecessors only and starts no dead one.
LEMMA PathsKept ==
  ASSUME IInv, SkipsDeadPathsOnly, SettledKept,
         \A n \in Node : status'[n] = "skipped" /\ status[n] # "skipped"
            => n \in readyIDs /\ Dead(n),
         \A n \in Node : status'[n] \in Ran /\ status[n] \notin Ran => ~ Dead(n)
  PROVE  SkipsDeadPathsOnly'
<1>1. ASSUME NEW n \in Node, status'[n] = "skipped" PROVE Dead(n)'
  <2>1. Dead(n) BY <1>1 DEF SkipsDeadPathsOnly, Dead
  <2>2. n \in SettledNodes \cup readyIDs BY <1>1 DEF SettledNodes, Settled
  <2>3. \A e \in Incoming(n) : Source[e] \in SettledNodes BY <2>2 DEF IInv, PredInv
  <2>4. \A e \in Incoming(n) : LiveEdge(e)' <=> LiveEdge(e) BY <2>3, LiveStays
  <2> QED BY <2>1, <2>4 DEF Dead
<1>2. ASSUME NEW n \in Node, status'[n] \in Ran PROVE ~ Dead(n)'
  <2>1. ~ Dead(n) BY <1>2 DEF SkipsDeadPathsOnly, Dead, Ran
  <2>2. CASE Incoming(n) = {} BY <2>2 DEF Dead
  <2>3. CASE Incoming(n) # {}
    <3>1. PICK e \in Incoming(n) : LiveEdge(e) BY <2>1, <2>3 DEF Dead
    <3>2. e \in Edge BY DEF Incoming
    <3>3. Source[e] \in SettledNodes BY <3>1, <3>2, LiveIsSettled
    <3>4. LiveEdge(e)' BY <3>1, <3>3, LiveStays
    <3> QED BY <3>4 DEF Dead
  <2> QED BY <2>2, <2>3
<1> QED BY <1>1, <1>2 DEF SkipsDeadPathsOnly, Dead, Ran

\* Two disjoint sets of incoming edges count together.
LEMMA CountBoth ==
  ASSUME NEW n \in Node, NEW A \in SUBSET Incoming(n), NEW B \in SUBSET Incoming(n),
         A \cap B = {}
  PROVE  Cardinality(A \cup B) = Cardinality(A) + Cardinality(B)
<1>1. IsFiniteSet(A) /\ IsFiniteSet(B) /\ Cardinality(A) \in Nat /\ Cardinality(B) \in Nat
  BY EdgesFinite
<1>2. Cardinality(A \cup B) = Cardinality(A) + Cardinality(B) - Cardinality(A \cap B)
  BY <1>1, FS_Union
<1>3. Cardinality(A \cap B) = 0 BY FS_EmptySet
<1> QED BY <1>1, <1>2, <1>3

-----------------------------------------------------------------------------
(* The steps *)

\* Nothing has run and nothing is live.
LEMMA InitPathInv == Init => PathInv
<1> SUFFICES ASSUME Init PROVE PathInv OBVIOUS
<1>1. \A e \in Edge : ~ LiveEdge(e)
  BY PlanAssumption DEF Init, LiveEdge, EdgeActive
<1>2. \A n \in Node : LiveEdges(n) = {} BY <1>1 DEF LiveEdges, Incoming
<1>3. ActiveInv BY <1>2, FS_EmptySet DEF ActiveInv, Init
<1>4. SkipInv BY DEF SkipInv, Init
<1>5. SkipsDeadPathsOnly BY DEF SkipsDeadPathsOnly, Init
<1> QED BY <1>3, <1>4, <1>5 DEF PathInv

\* A goroutine works for a node that has not reported yet, and never reports
\* that it was skipped.
LEMMA NodeStepUnreported ==
  ASSUME IInv, NEW n \in Node, NodeStep(n)
  PROVE  result[n] = "none" /\ result'[n] # "skipped"
<1> USE DEF IInv, TypeOK
<1>1. n \in slots => result[n] = "none" BY DEF SlotInv
<1>2. ASSUME NEW k, Attempt(n, k), result[n] = "none" PROVE result'[n] # "skipped"
  BY <1>2 DEF Attempt, Finish
<1>3. CASE AcquireSlot(n) BY <1>2, <1>3 DEF AcquireSlot, Waiting
<1>4. CASE CanceledWaiting(n) BY <1>4 DEF CanceledWaiting, Waiting, Finish
<1>5. CASE \E r \in {"ok", "unwritable"}, b \in Branch \cup {NoBranch} : ExecuteOk(n, r, b)
  BY <1>1, <1>5 DEF ExecuteOk, Executing, Finish
<1>6. CASE \E r \in Suspensions : ExecuteSuspend(n, r)
  BY <1>1, <1>6 DEF ExecuteSuspend, Executing, Finish, Suspensions
<1>7. CASE ExecuteError(n) BY <1>1, <1>7 DEF ExecuteError, Executing, Finish
<1>8. CASE ExecuteRetryable(n)
  BY <1>1, <1>8 DEF ExecuteRetryable, Executing
<1>9. CASE ContextError(n) BY <1>1, <1>9 DEF ContextError, Executing, BackingOff, Finish
<1>10. CASE NodeTimeout(n) BY <1>1, <1>10 DEF NodeTimeout, Executing, BackingOff, Finish
<1>11. CASE RetryAttempt(n) BY <1>1, <1>2, <1>11 DEF RetryAttempt, BackingOff
<1> QED BY <1>3, <1>4, <1>5, <1>6, <1>7, <1>8, <1>9, <1>10, <1>11 DEF NodeStep

\* A goroutine only runs for a node that is not dead.
LEMMA NodeStepPathInv ==
  ASSUME IInv, PathInv, NEW n \in Node, NodeStep(n)
  PROVE  PathInv'
<1>1. /\ phase = "wave" /\ n \in readyIDs /\ status'[n] \notin Settled
      /\ UNCHANGED nodeUnchanged
      /\ \A m \in Node : m # n => status'[m] = status[m] /\ result'[m] = result[m]
  BY NodeStepEffect
<1>2. result[n] = "none" /\ result'[n] # "skipped" BY NodeStepUnreported
<1>3. ~ isSkipped(n) BY <1>1, <1>2 DEF PathInv, SkipInv
<1>4. ~ Dead(n) BY <1>1, <1>3, SkippedIsDead DEF PathInv
<1>5. n \notin SettledNodes BY <1>1 DEF IInv, ReadyInv
<1>6. SettledKept
  BY <1>1, <1>5 DEF SettledKept, SettledNodes, nodeUnchanged, board
<1>7. SkipsDeadPathsOnly'
  <2>1. \A m \in Node : status'[m] = "skipped" /\ status[m] # "skipped" => m \in readyIDs /\ Dead(m)
    BY <1>1 DEF Settled
  <2>2. \A m \in Node : status'[m] \in Ran /\ status[m] \notin Ran => ~ Dead(m)
    BY <1>1, <1>4
  <2> QED BY <1>6, <2>1, <2>2, PathsKept DEF PathInv
<1>8. ASSUME NEW e \in Edge PROVE LiveEdge(e)' <=> LiveEdge(e)
  <2>1. Source[e] \in Node BY PlanAssumption
  <2>2. status'[Source[e]] = "success" <=> status[Source[e]] = "success"
    BY <1>1, <1>5, <2>1 DEF SettledNodes, Settled
  <2>3. branch' = branch BY <1>1 DEF nodeUnchanged, board
  <2> QED BY <2>2, <2>3 DEF LiveEdge, EdgeActive
<1>9. ActiveInv'
  <2>1. \A m \in Node : LiveEdges(m)' = LiveEdges(m)
    BY <1>8 DEF LiveEdges, Incoming
  <2> QED BY <1>1, <2>1 DEF PathInv, ActiveInv, nodeUnchanged, counters
<1>10. SkipInv'
  <2>1. readyIDs' = readyIDs /\ readyIDs \subseteq Node /\ activeInputs' = activeInputs
    BY <1>1 DEF nodeUnchanged, counters, IInv, TypeOK
  <2>2. \A m \in Node : isSkipped(m)' <=> isSkipped(m) BY <2>1 DEF isSkipped
  <2> QED BY <1>1, <1>2, <1>3, <2>1, <2>2 DEF PathInv, SkipInv
<1> QED BY <1>7, <1>9, <1>10 DEF PathInv

\* A wave answers "skipped" for the dead nodes and nothing else.
LEMMA StartWavePathInv == IInv /\ PathInv /\ StartWave => PathInv'
<1> SUFFICES ASSUME IInv, PathInv, StartWave PROVE PathInv' OBVIOUS
<1> USE DEF StartWave
<1>1. \A e : LiveEdge(e)' <=> LiveEdge(e) BY DEF LiveEdge, EdgeActive, board
<1>2. \A n \in Node : LiveEdges(n)' = LiveEdges(n) BY <1>1 DEF LiveEdges
<1>3. ActiveInv' BY <1>2 DEF PathInv, ActiveInv, counters
<1>4. SkipInv'
  <2>1. \A m \in Node : isSkipped(m)' <=> isSkipped(m) BY DEF isSkipped, counters
  <2> QED BY <2>1 DEF SkipInv, IInv, TypeOK
<1>5. SkipsDeadPathsOnly' BY <1>1 DEF PathInv, SkipsDeadPathsOnly
<1> QED BY <1>3, <1>4, <1>5 DEF PathInv

\* Recording a wave skips its dead nodes and settles no other dead node.
LEMMA RecordWavePaths ==
  ASSUME IInv, PathInv, WaveDone, RecordWave
  PROVE  SkipsDeadPathsOnly'
<1> USE DEF IInv, TypeOK
<1>1. SettledKept BY RecordWaveEffect DEF SettledKept
<1>2. \A n \in readyIDs : result[n] = "skipped" <=> Dead(n)
  BY SkippedIsDead DEF PathInv, SkipInv, WaveDone
<1>3. \A n \in Node : status'[n] # status[n]
         => n \in readyIDs /\ status'[n] = RecordedStatus(result[n])
  BY DEF RecordWave, recordResult
<1>4. \A r \in Results \ {"none"} : RecordedStatus(r) = "skipped" <=> r = "skipped"
  BY DEF RecordedStatus, Results, Suspensions
<1>5. \A n \in readyIDs : result[n] \in Results \ {"none"} BY DEF WaveDone
<1>6. \A n \in Node : status'[n] = "skipped" /\ status[n] # "skipped" => n \in readyIDs /\ Dead(n)
  BY <1>2, <1>3, <1>4, <1>5
<1>7. "skipped" \notin Ran BY DEF Ran
<1>8. \A n \in Node : status'[n] \in Ran /\ status[n] \notin Ran => ~ Dead(n)
  BY <1>2, <1>3, <1>4, <1>5, <1>7
<1> QED BY <1>1, <1>6, <1>8, PathsKept DEF PathInv

\* The next wave: the live edges grow by the active edges of the wave's
\* executed nodes, which is what advanceDownstream adds to the counters.
LEMMA AdvanceWaveActive ==
  ASSUME IInv, EventInv, PathInv, AdvanceWave
  PROVE  ActiveInv'
<1> DEFINE X == {m \in readyIDs : result[m] # "skipped"}
<1>1. /\ WaveDone /\ RecordWave /\ phase = "wave"
      /\ activeInputs' = AdvanceActive(activeInputs, readyIDs, X, output)
  BY DEF AdvanceWave, WaveDone
<1>2. /\ Succeeded' = Succeeded \cup Applied /\ Applied \cap SettledNodes = {}
  BY <1>1, RecordedSuccesses
<1>3. readyIDs \cap SettledNodes = {} BY <1>1 DEF IInv, ReadyInv
<1>4. X = Applied
  BY DEF AdvanceWave, Stopping, NoError, Applied
<1>5. \A m \in Node : branch'[m] = IF m \in Applied THEN output[m] ELSE branch[m]
  BY <1>1 DEF RecordWave, ApplyDeltas
<1> HIDE DEF X
<1> SUFFICES ASSUME NEW n \in Node \ Roots
             PROVE  activeInputs'[n] = Cardinality(LiveEdges(n)')
  BY DEF ActiveInv
<1> DEFINE A == ActiveResolved(n, readyIDs, X, output)
<1>6. ASSUME NEW e \in Incoming(n)
      PROVE  /\ LiveEdge(e)' <=> LiveEdge(e) \/ e \in A
             /\ ~ (LiveEdge(e) /\ e \in A)
  <2> DEFINE m == Source[e]
  <2>1. e \in Edge /\ m \in Node BY PlanAssumption DEF Incoming
  <2>2. /\ status'[m] = "success" <=> m \in Succeeded \cup Applied
        /\ status[m] = "success" <=> m \in Succeeded
    BY <1>2, <2>1 DEF Succeeded
  <2>3. e \in A <=> m \in readyIDs /\ EdgeActive(e, m \in X, output[m])
    BY DEF ActiveResolved, Resolved
  <2>4. m \in Succeeded => m \notin readyIDs /\ m \notin Applied
    BY <1>2, <1>3 DEF Succeeded, SettledNodes, Settled
  <2>5. m \in Applied => m \in readyIDs BY DEF Applied
  <2> HIDE DEF A
  <2> QED BY <1>4, <1>5, <2>1, <2>2, <2>3, <2>4, <2>5 DEF LiveEdge, EdgeActive
<1>7. LiveEdges(n)' = LiveEdges(n) \cup A /\ LiveEdges(n) \cap A = {}
      /\ A \subseteq Incoming(n) /\ LiveEdges(n) \subseteq Incoming(n)
  <2>1. A \subseteq Incoming(n) BY DEF ActiveResolved, Resolved
  <2> HIDE DEF A
  <2> QED BY <1>6, <2>1 DEF LiveEdges
<1>8. activeInputs'[n] = activeInputs[n] + Cardinality(A)
  BY <1>1 DEF AdvanceActive
<1>9. activeInputs[n] = Cardinality(LiveEdges(n)) BY <1>1 DEF PathInv, ActiveInv
<1>10. Cardinality(LiveEdges(n) \cup A) = Cardinality(LiveEdges(n)) + Cardinality(A)
  BY <1>7, CountBoth
<1> QED BY <1>7, <1>8, <1>9, <1>10

\* A resume counts the live edges of the settled nodes from the traces and
\* the blackboard, then those of the injected node.
LEMMA ResumeActive ==
  ASSUME IInv, PathInv, Resume
  PROVE  ActiveInv'
<1> DEFINE I == IF checkpoint.retry THEN {} ELSE checkpoint.node
           act0 == [n \in Node |-> 0]
           act1 == AdvanceActive(act0, SettledNodes, Succeeded, branch)
<1>1. I \in SUBSET Node /\ I \cap SettledNodes = {}
  BY DEF IInv, TypeOK, ReadyInv
<1>2. /\ status' = [n \in Node |-> IF n \in I THEN "success" ELSE status[n]]
      /\ activeInputs' = AdvanceActive(act1, I, I, branch)
      /\ branch' = branch
  BY DEF Resume, RestoredTraces
<1> HIDE DEF I
<1> SUFFICES ASSUME NEW n \in Node
             PROVE  activeInputs'[n] = Cardinality(LiveEdges(n)')
  BY DEF ActiveInv
<1> DEFINE A == ActiveResolved(n, SettledNodes, Succeeded, branch)
           B == ActiveResolved(n, I, I, branch)
<1>3. A \subseteq Incoming(n) /\ B \subseteq Incoming(n)
  BY DEF ActiveResolved, Resolved
<1>4. ASSUME NEW e \in Incoming(n)
      PROVE  /\ LiveEdge(e)' <=> e \in A \/ e \in B
             /\ ~ (e \in A /\ e \in B)
  <2> DEFINE m == Source[e]
  <2>1. e \in Edge /\ m \in Node BY PlanAssumption DEF Incoming
  <2>2. status'[m] = "success" <=> m \in Succeeded \/ m \in I
    BY <1>2, <2>1 DEF Succeeded
  <2>3. e \in A <=> m \in SettledNodes /\ EdgeActive(e, m \in Succeeded, branch[m])
    BY DEF ActiveResolved, Resolved
  <2>4. e \in B <=> m \in I /\ EdgeActive(e, m \in I, branch[m])
    BY DEF ActiveResolved, Resolved
  <2>5. (m \in Succeeded => m \in SettledNodes) /\ ~ (m \in I /\ m \in SettledNodes)
    BY <1>1 DEF Succeeded, SettledNodes, Settled
  <2> HIDE DEF A, B
  <2> QED BY <1>2, <2>1, <2>2, <2>3, <2>4, <2>5 DEF LiveEdge, EdgeActive
<1>5. LiveEdges(n)' = A \cup B /\ A \cap B = {}
  <2> HIDE DEF A, B
  <2> QED BY <1>3, <1>4 DEF LiveEdges
<1>6. activeInputs'[n] = act1[n] + Cardinality(B) BY <1>2 DEF AdvanceActive
<1>7. act1[n] = 0 + Cardinality(A) BY DEF AdvanceActive
<1>8. Cardinality(A) \in Nat BY <1>3, EdgesFinite
<1>9. Cardinality(A \cup B) = Cardinality(A) + Cardinality(B) BY <1>3, <1>5, CountBoth
<1> HIDE DEF A, B, act1
<1> QED BY <1>5, <1>6, <1>7, <1>8, <1>9

\* The injected node was started before it suspended, so a resume lets no
\* dead node run.
LEMMA ResumePaths ==
  ASSUME IInv, EventInv, PathInv, Resume
  PROVE  SkipsDeadPathsOnly'
<1> DEFINE I == IF checkpoint.retry THEN {} ELSE checkpoint.node
<1>1. I \cap SettledNodes = {} /\ I \subseteq checkpoint.node
  BY DEF IInv, ReadyInv
<1>2. /\ status' = [n \in Node |-> IF n \in I THEN "success" ELSE status[n]]
      /\ branch' = branch
  BY DEF Resume, RestoredTraces
<1> HIDE DEF I
<1>3. SettledKept BY <1>1, <1>2 DEF SettledKept, SettledNodes
<1>4. "suspended" \in Ran /\ \A n \in checkpoint.node : status[n] = "suspended"
  BY DEF Ran, Status, EventInv, CheckpointInv
<1>5. \A n \in Node : status'[n] = "skipped" /\ status[n] # "skipped" => n \in readyIDs /\ Dead(n)
  BY <1>2
<1>6. \A n \in Node : status'[n] \in Ran /\ status[n] \notin Ran => ~ Dead(n)
  BY <1>1, <1>2, <1>4
<1> QED BY <1>3, <1>5, <1>6, PathsKept DEF PathInv

\* Every step preserves the invariant of the paths.
LEMMA StepPathInv == IInv /\ EventInv /\ PathInv /\ [Next]_vars => PathInv'
<1> SUFFICES ASSUME IInv, EventInv, PathInv, [Next]_vars PROVE PathInv' OBVIOUS
<1>1. CASE StartWave BY <1>1, StartWavePathInv
<1>2. CASE CommitHookFails \/ StopWave
  <2>1. WaveDone /\ RecordWave /\ phase' = "returned"
    BY <1>2 DEF CommitHookFails, StopWave, Return
  <2>2. SkipsDeadPathsOnly' BY <2>1, RecordWavePaths
  <2> QED BY <2>1, <2>2 DEF PathInv, ActiveInv, SkipInv
<1>3. CASE AdvanceWave
  <2>1. WaveDone /\ RecordWave /\ phase' = "prepared" BY <1>3 DEF AdvanceWave
  <2>2. SkipsDeadPathsOnly' BY <2>1, RecordWavePaths
  <2>3. ActiveInv' BY <1>3, AdvanceWaveActive
  <2> QED BY <2>1, <2>2, <2>3 DEF PathInv, SkipInv
<1>4. CASE ReturnPrepared
  <2>1. phase' = "returned" /\ UNCHANGED <<status, branch>>
    BY <1>4 DEF ReturnPrepared, Return, board
  <2>2. SkipsDeadPathsOnly'
    BY <2>1 DEF PathInv, SkipsDeadPathsOnly, LiveEdge
  <2> QED BY <2>1, <2>2 DEF PathInv, ActiveInv, SkipInv
<1>5. CASE \E n \in Node : NodeStep(n) BY <1>5, NodeStepPathInv
<1>6. CASE (\E e \in {"canceled", "timed_out"} : ContextDone(e)) \/ UNCHANGED vars
  <2>1. UNCHANGED <<status, branch, phase, readyIDs, result, activeInputs>>
    BY <1>6 DEF ContextDone, vars, board, counters
  <2>2. SkipsDeadPathsOnly' BY <2>1 DEF PathInv, SkipsDeadPathsOnly, LiveEdge
  <2>3. ActiveInv' BY <2>1 DEF PathInv, ActiveInv, LiveEdges, LiveEdge
  <2>4. SkipInv' BY <2>1 DEF PathInv, SkipInv, isSkipped
  <2> QED BY <2>2, <2>3, <2>4 DEF PathInv
<1>7. CASE Resume
  <2>1. phase' = "prepared" BY <1>7 DEF Resume
  <2> QED BY <1>7, <2>1, ResumeActive, ResumePaths DEF PathInv, SkipInv
<1> QED BY <1>1, <1>2, <1>3, <1>4, <1>5, <1>6, <1>7 DEF Next, Coordinate

\* The invariant of the paths holds in every run of the scheduler.
THEOREM PathInvariant == Spec => []PathInv
BY InitPathInv, StepPathInv, InductiveInvariant, EventInvariant, PTL DEF Spec

\* For every plan and any number of resumes, a node is skipped only if no live
\* edge reaches it, and a node no live edge reaches is never started.
THEOREM OnlyDeadPathsSkipped == Spec => []SkipsDeadPathsOnly
<1>1. PathInv => SkipsDeadPathsOnly BY DEF PathInv
<1> QED BY <1>1, PathInvariant, PTL

-----------------------------------------------------------------------------
(* Stalls *)

PredsSettled(n) == \A e \in Incoming(n) : Source[e] \in SettledNodes

FrontierInv ==
    phase # "returned" =>
        \A n \in Node \ SettledNodes :
            PredsSettled(n) => n \in readyIDs \/ (n \in Roots /\ resumes > 0)

\* The next wave holds every node the current one was the last to block.
LEMMA AdvanceWaveFrontier ==
  ASSUME IInv, FrontierInv, AdvanceWave
  PROVE  FrontierInv'
<1> DEFINE S == SettledNodes
           R == readyIDs
           T == S \cup R
<1>1. WaveDone /\ RecordWave /\ phase = "wave" /\ resumes' = resumes
  BY DEF AdvanceWave, WaveDone, RecordWave
<1>2. \A n \in readyIDs : NoError(n) BY DEF AdvanceWave, Stopping
<1>3. SettledNodes' = T /\ S \cap R = {}
  BY <1>1, <1>2, RecordWaveEffect DEF IInv, ReadyInv
<1> SUFFICES ASSUME NEW n \in Node \ SettledNodes', PredsSettled(n)'
             PROVE  n \in readyIDs' \/ (n \in Roots /\ resumes' > 0)
  BY DEF FrontierInv
<1>4. Unresolved(n, T) = {} BY <1>3 DEF Unresolved, PredsSettled
<1>5. /\ Cardinality(Unresolved(n, S)) - Cardinality(Resolved(n, R)) = 0
      /\ Cardinality(Unresolved(n, S)) \in Nat /\ Cardinality(Resolved(n, R)) \in Nat
  <2>1. n \in Node OBVIOUS
  <2>2. /\ Cardinality(Unresolved(n, S)) - Cardinality(Resolved(n, R)) = Cardinality(Unresolved(n, T))
        /\ Cardinality(Unresolved(n, S)) \in Nat /\ Cardinality(Resolved(n, R)) \in Nat
    BY <1>3, <2>1, CountAfter
  <2>3. Cardinality(Unresolved(n, T)) = 0 BY <1>4, FS_EmptySet
  <2> HIDE DEF S, R, T
  <2> QED BY <2>2, <2>3
<1>6. inDegrees[n] = Cardinality(Unresolved(n, S)) BY <1>1 DEF IInv, CounterInv
<1>7. CASE inDegrees[n] > 0
  BY <1>5, <1>6, <1>7 DEF AdvanceWave, HitsZero
<1>8. CASE inDegrees[n] <= 0
  <2>1. PredsSettled(n) BY <1>6, <1>8, NoneUnresolved DEF PredsSettled
  <2>2. n \in readyIDs \/ (n \in Roots /\ resumes > 0)
    BY <1>1, <1>3, <2>1 DEF FrontierInv
  <2> QED BY <1>1, <1>3, <2>2
<1> QED BY <1>5, <1>6, <1>7, <1>8

\* The replay of a resume finds every unblocked node that has predecessors.
LEMMA ResumeFrontier ==
  ASSUME IInv, Resume
  PROVE  FrontierInv'
<1> DEFINE S == SettledNodes
           I == IF checkpoint.retry THEN {} ELSE checkpoint.node
           T == S \cup I
           deg0 == [n \in Node |-> InDegree(n)]
           deg1 == AdvanceDegrees(deg0, S)
<1>1. I \in SUBSET Node /\ S \cap I = {} /\ resumes \in Nat
  BY DEF IInv, TypeOK, ReadyInv
<1>2. /\ status' = [n \in Node |-> IF n \in I THEN "success" ELSE status[n]]
      /\ (HitsZero(deg0, S) \cup HitsZero(deg1, I)) \ (S \cup I) \subseteq readyIDs'
      /\ resumes' = resumes + 1
  BY DEF Resume, RestoredTraces
<1>3. SettledNodes' = T BY <1>1, <1>2 DEF SettledNodes, Settled
<1> SUFFICES ASSUME NEW n \in Node \ SettledNodes', PredsSettled(n)', n \notin Roots
             PROVE  n \in readyIDs'
  BY <1>1, <1>2 DEF FrontierInv
<1>4. Unresolved(n, T) = {} BY <1>3 DEF Unresolved, PredsSettled
<1>5. deg0[n] = Cardinality(Unresolved(n, {})) /\ deg0[n] \in Nat /\ deg0[n] > 0
  <2>1. Unresolved(n, {}) = Incoming(n) BY DEF Unresolved
  <2>2. Incoming(n) # {} BY DEF Roots
  <2>3. IsFiniteSet(Incoming(n)) /\ Cardinality(Incoming(n)) \in Nat BY EdgesFinite
  <2>4. Cardinality(Incoming(n)) # 0 BY <2>2, <2>3, FS_EmptySet
  <2> QED BY <2>1, <2>3, <2>4 DEF InDegree
<1>6. deg1[n] = deg0[n] - Cardinality(Resolved(n, S)) BY DEF AdvanceDegrees
<1>7. /\ Cardinality(Unresolved(n, {})) - Cardinality(Resolved(n, S)) = Cardinality(Unresolved(n, S))
      /\ Cardinality(Unresolved(n, S)) \in Nat /\ Cardinality(Resolved(n, S)) \in Nat
  <2>1. {} \cup S = S /\ {} \cap S = {} OBVIOUS
  <2> QED BY <2>1, CountAfter
<1>8. /\ Cardinality(Unresolved(n, S)) - Cardinality(Resolved(n, I)) = 0
      /\ Cardinality(Resolved(n, I)) \in Nat
  <2>1. n \in Node OBVIOUS
  <2>2. /\ Cardinality(Unresolved(n, S)) - Cardinality(Resolved(n, I)) = Cardinality(Unresolved(n, T))
        /\ Cardinality(Resolved(n, I)) \in Nat
    BY <1>1, <2>1, CountAfter
  <2>3. Cardinality(Unresolved(n, T)) = 0 BY <1>4, FS_EmptySet
  <2> HIDE DEF S, I, T
  <2> QED BY <2>2, <2>3
<1> HIDE DEF deg0, deg1, I
<1>9. CASE deg1[n] > 0
  <2>1. n \in HitsZero(deg1, I) BY <1>5, <1>6, <1>7, <1>8, <1>9 DEF HitsZero
  <2> QED BY <1>2, <1>3, <2>1
<1>10. CASE deg1[n] <= 0
  <2>1. deg0[n] <= Cardinality(Resolved(n, S)) BY <1>5, <1>6, <1>7, <1>10
  <2>2. n \in HitsZero(deg0, S) BY <1>5, <2>1 DEF HitsZero
  <2> QED BY <1>2, <1>3, <2>2
<1> QED BY <1>5, <1>6, <1>7, <1>9, <1>10

\* Every step preserves the frontier.
LEMMA StepFrontierInv == IInv /\ FrontierInv /\ [Next]_vars => FrontierInv'
<1> SUFFICES ASSUME IInv, FrontierInv, [Next]_vars PROVE FrontierInv' OBVIOUS
<1>1. ASSUME SettledNodes' = SettledNodes, UNCHANGED <<readyIDs, resumes>>,
             phase' # "returned" => phase # "returned"
      PROVE  FrontierInv'
  BY <1>1 DEF FrontierInv, PredsSettled
<1>2. CASE StartWave
  BY <1>1, <1>2 DEF StartWave, SettledNodes
<1>3. CASE CommitHookFails \/ StopWave \/ ReturnPrepared
  <2>1. phase' = "returned" BY <1>3 DEF CommitHookFails, StopWave, ReturnPrepared, Return
  <2> QED BY <2>1 DEF FrontierInv
<1>4. CASE AdvanceWave BY <1>4, AdvanceWaveFrontier
<1>5. CASE \E n \in Node : NodeStep(n)
  <2> PICK n \in Node : NodeStep(n) BY <1>5
  <2>1. SettledNodes' = SettledNodes
    BY NodeStepEffect DEF SettledNodes, Settled, IInv, ReadyInv
  <2> QED BY <1>1, <2>1, NodeStepEffect DEF nodeUnchanged
<1>6. CASE (\E e \in {"canceled", "timed_out"} : ContextDone(e)) \/ UNCHANGED vars
  BY <1>1, <1>6 DEF ContextDone, vars, SettledNodes
<1>7. CASE Resume BY <1>7, ResumeFrontier
<1> QED BY <1>2, <1>3, <1>4, <1>5, <1>6, <1>7 DEF Next, Coordinate

\* A node with settled predecessors is settled or ready, or a root that a
\* resume has passed over.
THEOREM FrontierInvariant == Spec => []FrontierInv
<1>1. Init => FrontierInv
  <2> SUFFICES ASSUME Init, NEW n \in Node, PredsSettled(n) PROVE n \in readyIDs
    BY DEF FrontierInv
  <2>1. SettledNodes = {} BY DEF Init, SettledNodes, Settled
  <2>2. Incoming(n) = {} BY <2>1 DEF PredsSettled
  <2> QED BY <2>2 DEF Init, Roots
<1> QED BY <1>1, StepFrontierInv, InductiveInvariant, PTL DEF Spec

\* In a plan without cycles, what stops an unfinished run short of its end is
\* a root that no resume put back.
LEMMA UnfinishedHasRoot ==
  ASSUME Acyclic, IInv, FrontierInv, phase = "prepared", readyIDs = {}, Stalled
  PROVE  resumes > 0 /\ \E x \in Roots : status[x] \notin Settled
<1> DEFINE U == Node \ SettledNodes
<1>1. U # {} /\ U \in SUBSET Node BY DEF Stalled, SettledNodes
<1>2. PICK n \in U : \A e \in Incoming(n) : Source[e] \notin U
  BY <1>1 DEF Acyclic
<1>3. \A e \in Incoming(n) : Source[e] \in Node BY PlanAssumption DEF Incoming
<1>4. PredsSettled(n) BY <1>2, <1>3 DEF PredsSettled
<1>5. n \in Roots /\ resumes > 0 BY <1>4 DEF FrontierInv
<1> QED BY <1>5 DEF SettledNodes

StallInv ==
    /\ phase # "returned" => outcome = "none"
    /\ outcome = "stalled" => resumes > 0 /\ \E x \in Roots : status[x] \notin Settled

\* A run of an acyclic plan fails its stall check only after a resume, and
\* with a root that neither succeeded nor was skipped: the first run never
\* stalls, and no inner node is ever forgotten.
THEOREM StallsOnlyAtRoots == Acyclic => (Spec => []StallInv)
<1>1. Init => StallInv BY DEF Init, StallInv
<1>2. ASSUME Acyclic, IInv, FrontierInv, StallInv, [Next]_vars PROVE StallInv'
  <2>1. CASE ReturnPrepared
    <3>1. /\ phase = "prepared" /\ readyIDs = {} /\ UNCHANGED <<status, resumes>>
          /\ phase' = "returned" /\ outcome' = IF Stalled THEN "stalled" ELSE "success"
      BY <2>1 DEF ReturnPrepared, Return
    <3> QED BY <1>2, <3>1, UnfinishedHasRoot DEF StallInv
  <2>2. CASE CommitHookFails \/ StopWave
    <3>1. phase' = "returned" /\ outcome' # "stalled"
      BY <1>2, <2>2 DEF CommitHookFails, StopWave, Return, IInv, TypeOK
    <3> QED BY <3>1 DEF StallInv
  <2>3. CASE StartWave \/ AdvanceWave
    <3>1. phase # "returned" /\ outcome' = outcome
      BY <2>3 DEF StartWave, AdvanceWave, WaveDone
    <3> QED BY <1>2, <3>1 DEF StallInv
  <2>4. CASE \E n \in Node : NodeStep(n)
    <3>1. phase # "returned" /\ outcome' = outcome
      BY <1>2, <2>4, NodeStepEffect DEF nodeUnchanged
    <3> QED BY <1>2, <3>1 DEF StallInv
  <2>5. CASE (\E e \in {"canceled", "timed_out"} : ContextDone(e)) \/ UNCHANGED vars
    BY <1>2, <2>5 DEF ContextDone, vars, StallInv
  <2>6. CASE Resume
    BY <2>6 DEF Resume, StallInv
  <2> QED BY <1>2, <2>1, <2>2, <2>3, <2>4, <2>5, <2>6 DEF Next, Coordinate
<1>3. Acyclic /\ IInv /\ FrontierInv /\ StallInv /\ [Next]_vars => StallInv' BY <1>2
<1>4. ASSUME Acyclic PROVE Spec => []StallInv
  <2>1. IInv /\ FrontierInv /\ StallInv /\ [Next]_vars => StallInv' BY <1>4, <1>3
  <2> QED BY <1>1, <2>1, InductiveInvariant, FrontierInvariant, PTL DEF Spec
<1> QED BY <1>4

-----------------------------------------------------------------------------
(* Plans with one root *)

OneRoot == \E x \in Node : Roots = {x}

RootInv ==
    /\ phase # "returned" => outcome = "none" /\ Roots \subseteq SettledNodes \cup readyIDs
    /\ outcome = "suspended" => checkpoint.node # {}
    /\ NeverStalls

\* Nodes that depend on each other only start at a root.
LEMMA ClosedHasRoot ==
  ASSUME Acyclic, NEW T \in SUBSET Node, T # {},
         \A n \in T : \A e \in Incoming(n) : Source[e] \in T
  PROVE  \E x \in Roots : x \in T
<1>1. PICK n \in T : \A e \in Incoming(n) : Source[e] \notin T BY DEF Acyclic
<1>2. Incoming(n) = {} BY <1>1
<1> QED BY <1>2 DEF Roots

\* With one root, a run that suspends before the root is settled suspended at
\* the root, and a resume that does not settle it puts it back.
LEMMA ResumeRoot ==
  ASSUME Acyclic, OneRoot, IInv, RootInv, Resume
  PROVE  Roots \subseteq SettledNodes' \cup readyIDs'
<1> DEFINE S == SettledNodes
           current == checkpoint.node
           I == IF checkpoint.retry THEN {} ELSE current
           deg0 == [n \in Node |-> InDegree(n)]
           deg1 == AdvanceDegrees(deg0, S)
           deg2 == AdvanceDegrees(deg1, I)
           retried == {n \in current : checkpoint.retry /\ deg2[n] = 0}
<1>1. I \in SUBSET Node /\ S \cap I = {} /\ S \in SUBSET Node /\ current \in SUBSET Node
  BY DEF IInv, TypeOK, ReadyInv, SettledNodes
<1>2. /\ status' = [n \in Node |-> IF n \in I THEN "success" ELSE status[n]]
      /\ retried \ (S \cup I) \subseteq readyIDs'
      /\ outcome = "suspended"
  BY DEF Resume, RestoredTraces
<1>3. SettledNodes' = S \cup I BY <1>1, <1>2 DEF SettledNodes, Settled
<1> SUFFICES ASSUME NEW x \in Roots, x \notin S \cup I PROVE x \in readyIDs'
  BY <1>3
<1>4. Roots = {x} BY DEF OneRoot
<1>5. \A n \in S \cup current : \A e \in Incoming(n) : Source[e] \in S
  BY DEF IInv, PredInv
<1>6. S \cup I = {}
  <2>1. \A n \in S \cup I : \A e \in Incoming(n) : Source[e] \in S \cup I
    BY <1>5
  <2>2. S \cup I \in SUBSET Node BY <1>1
  <2> HIDE DEF S, I
  <2> QED BY <1>4, <2>1, <2>2, ClosedHasRoot
<1>7. PICK n \in current : TRUE BY <1>2 DEF RootInv
<1>8. n = x /\ checkpoint.retry
  <2>1. Incoming(n) = {} BY <1>5, <1>6
  <2>2. n \in Roots BY <1>1, <2>1 DEF Roots
  <2> QED BY <1>4, <1>6, <1>7, <2>2
<1>9. deg2[x] = 0
  <2>1. x \in Node /\ Incoming(x) = {} BY DEF Roots
  <2>2. Resolved(x, S) = {} /\ Resolved(x, I) = {} BY <2>1 DEF Resolved
  <2>3. Cardinality({}) = 0 BY FS_EmptySet
  <2>4. deg0[x] = 0 BY <2>1, <2>3 DEF InDegree
  <2>5. deg1[x] = deg0[x] - Cardinality(Resolved(x, S)) BY <2>1 DEF AdvanceDegrees
  <2>6. deg2[x] = deg1[x] - Cardinality(Resolved(x, I)) BY <2>1 DEF AdvanceDegrees
  <2> HIDE DEF deg0, deg1, deg2
  <2> QED BY <2>2, <2>3, <2>4, <2>5, <2>6
<1>10. x \in retried
  <2> HIDE DEF deg2
  <2> QED BY <1>7, <1>8, <1>9
<1> HIDE DEF retried, I, S
<1> QED BY <1>2, <1>10

\* Every step keeps the root of such a plan in hand.
LEMMA StepRootInv ==
  ASSUME Acyclic, OneRoot, IInv, FrontierInv, RootInv, [Next]_vars
  PROVE  RootInv'
<1>1. CASE ReturnPrepared
  <2>1. /\ phase = "prepared" /\ readyIDs = {}
        /\ phase' = "returned" /\ outcome' = IF Stalled THEN "stalled" ELSE "success"
    BY <1>1 DEF ReturnPrepared, Return
  <2>2. ~ Stalled
    <3>1. Roots \subseteq SettledNodes BY <2>1 DEF RootInv
    <3> QED BY <2>1, <3>1, UnfinishedHasRoot DEF SettledNodes
  <2> QED BY <2>1, <2>2 DEF RootInv, NeverStalls
<1>2. CASE CommitHookFails \/ StopWave
  <2>1. phase' = "returned" /\ outcome' # "stalled"
    BY <1>2 DEF CommitHookFails, StopWave, Return, IInv, TypeOK
  <2>2. outcome' = "suspended" => checkpoint'.node # {}
    BY <1>2 DEF CommitHookFails, StopWave, Return, IInv, TypeOK
  <2> QED BY <2>1, <2>2 DEF RootInv, NeverStalls
<1>3. CASE AdvanceWave
  <2>1. /\ WaveDone /\ RecordWave /\ phase = "wave" /\ outcome' = outcome
        /\ checkpoint' = checkpoint /\ \A n \in readyIDs : NoError(n)
    BY <1>3 DEF AdvanceWave, WaveDone, Stopping
  <2>2. SettledNodes \cup readyIDs \subseteq SettledNodes'
    BY <2>1, RecordWaveEffect
  <2> QED BY <2>1, <2>2 DEF RootInv, NeverStalls
<1>4. ASSUME UNCHANGED <<readyIDs, outcome, checkpoint>>, SettledNodes' = SettledNodes,
             phase' # "returned" => phase # "returned"
      PROVE  RootInv'
  BY <1>4 DEF RootInv, NeverStalls
<1>5. CASE StartWave BY <1>4, <1>5 DEF StartWave, SettledNodes
<1>6. CASE \E n \in Node : NodeStep(n)
  <2> PICK n \in Node : NodeStep(n) BY <1>6
  <2>1. SettledNodes' = SettledNodes
    BY NodeStepEffect DEF SettledNodes, Settled, IInv, ReadyInv
  <2> QED BY <1>4, <2>1, NodeStepEffect DEF nodeUnchanged
<1>7. CASE (\E e \in {"canceled", "timed_out"} : ContextDone(e)) \/ UNCHANGED vars
  BY <1>4, <1>7 DEF ContextDone, vars, SettledNodes
<1>8. CASE Resume
  <2>1. phase' = "prepared" /\ outcome' = "none" BY <1>8 DEF Resume
  <2> QED BY <1>8, <2>1, ResumeRoot DEF RootInv, NeverStalls
<1> QED BY <1>1, <1>2, <1>3, <1>5, <1>6, <1>7, <1>8 DEF Next, Coordinate

\* A plan without cycles that starts at one root never fails the stall check,
\* however its nodes suspend, fail or are cancelled and however often it is
\* resumed.  (Two roots can stall: the run scheduler_roots.)
THEOREM OneRootNeverStalls == Acyclic /\ OneRoot => (Spec => []NeverStalls)
<1>1. Init => RootInv BY DEF Init, RootInv, NeverStalls
<1>2. RootInv => NeverStalls BY DEF RootInv
<1>3. ASSUME Acyclic, OneRoot PROVE Spec => []NeverStalls
  <2>1. IInv /\ FrontierInv /\ RootInv /\ [Next]_vars => RootInv' BY <1>3, StepRootInv
  <2> QED BY <1>1, <1>2, <2>1, InductiveInvariant, FrontierInvariant, PTL DEF Spec
<1> QED BY <1>3
=============================================================================
