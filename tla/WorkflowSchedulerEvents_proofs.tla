------------------- MODULE WorkflowSchedulerEvents_proofs -------------------
(***************************************************************************)
(* The blackboard's event stream, for every plan: EventsReplayable and     *)
(* DeclarationOrder.                                                       *)
(*                                                                         *)
(* The sequence numbers of the nodes that have an event are distinct       *)
(* (DistinctInv) and as many as 2..version has members (CountInv), so they *)
(* are exactly 2..version: no gap is a matter of counting, and no          *)
(* induction over the stream is needed.  Within a wave a number is the     *)
(* node's rank in declaration order, which grows with the order            *)
(* (RankGrows).  That exactly the successful nodes have an event needs to  *)
(* know that a node which returned outputs or suspended is still running   *)
(* in its trace (ReturnedInv), so that recording it is never refused, and  *)
(* that a checkpoint names one suspended node (CheckpointInv), so that a   *)
(* resume adds one event and markNodeSuccess accepts it.                   *)
(***************************************************************************)
EXTENDS WorkflowScheduler_proofs

AppliedNodes == {n \in Node : sequence[n] # 0}

CountInv ==
    /\ version > 0
    /\ AppliedNodes = Succeeded
    /\ Cardinality(AppliedNodes) = version - 1

DistinctInv ==
    /\ \A n \in AppliedNodes : sequence[n] \in 2..version
    /\ \A m, n \in AppliedNodes : sequence[m] = sequence[n] => m = n

DependencyInv ==
    \A e \in Edge : Source[e] \in AppliedNodes /\ Target[e] \in AppliedNodes
        => sequence[Source[e]] < sequence[Target[e]]

ReturnedInv ==
    phase = "wave" =>
        \A n \in readyIDs : result[n] \in {"ok"} \cup Suspensions => status[n] = "running"

CheckpointInv ==
    /\ \A m, n \in checkpoint.node : m = n
    /\ \A n \in checkpoint.node : status[n] = "suspended"

EventInv == CountInv /\ DistinctInv /\ DependencyInv /\ ReturnedInv /\ CheckpointInv

-----------------------------------------------------------------------------
(* Ranks *)

Rank(n, S) == Cardinality({m \in S : NodeOrder[m] <= NodeOrder[n]})

\* A rank is a position: it lies between one and the size of the set.
LEMMA RankBounds ==
  ASSUME NEW S \in SUBSET Node, NEW n \in S
  PROVE  IsFiniteSet(S) /\ Cardinality(S) \in Nat /\ Rank(n, S) \in 1..Cardinality(S)
<1> DEFINE B == {m \in S : NodeOrder[m] <= NodeOrder[n]}
<1>1. IsFiniteSet(S) BY FS_Subset, PlanAssumption
<1>2. IsFiniteSet(B) /\ Cardinality(B) <= Cardinality(S) BY <1>1, FS_Subset
<1>3. n \in B BY PlanAssumption
<1>4. Cardinality(B) \in Nat /\ Cardinality(B) # 0 /\ Cardinality(S) \in Nat
  BY <1>1, <1>2, <1>3, FS_CardinalityType, FS_EmptySet
<1> QED BY <1>1, <1>2, <1>4 DEF Rank

\* A node declared later has the higher rank.
LEMMA RankGrows ==
  ASSUME NEW S \in SUBSET Node, NEW m \in S, NEW n \in S, NodeOrder[m] < NodeOrder[n]
  PROVE  Rank(m, S) < Rank(n, S)
<1> DEFINE A == {k \in S : NodeOrder[k] <= NodeOrder[m]}
           B == {k \in S : NodeOrder[k] <= NodeOrder[n]}
<1>0. \A k \in S : NodeOrder[k] \in Nat BY PlanAssumption
<1>1. A \subseteq B /\ n \in B /\ n \notin A
  BY <1>0
<1>2. IsFiniteSet(S) BY RankBounds
<1>3. IsFiniteSet(B) BY <1>2, FS_Subset
<1>4. Cardinality(A) <= Cardinality(B) /\ (Cardinality(B) = Cardinality(A) => B = A)
      /\ IsFiniteSet(A)
  BY <1>1, <1>3, FS_Subset
<1>5. Cardinality(A) \in Nat /\ Cardinality(B) \in Nat
  BY <1>3, <1>4, FS_CardinalityType
<1> QED BY <1>1, <1>4, <1>5 DEF Rank

\* Two nodes of a set never share a rank.
LEMMA RankDistinct ==
  ASSUME NEW S \in SUBSET Node, NEW m \in S, NEW n \in S, Rank(m, S) = Rank(n, S)
  PROVE  m = n
<1>1. Rank(m, S) \in 1..Cardinality(S) /\ Cardinality(S) \in Nat BY RankBounds
<1>2. ~ NodeOrder[m] < NodeOrder[n] /\ ~ NodeOrder[n] < NodeOrder[m]
  BY <1>1, RankGrows
<1>3. NodeOrder[m] \in Nat /\ NodeOrder[n] \in Nat BY PlanAssumption
<1> QED BY <1>2, <1>3, PlanAssumption

-----------------------------------------------------------------------------
(* New events *)

\* Numbering the nodes of a set T above the version keeps the stream exact:
\* one event for each of them, no number twice, none after the new version.
LEMMA Numbered ==
  ASSUME IInv, CountInv, DistinctInv, NEW T \in SUBSET Node, T \cap Succeeded = {},
         \A n \in T : sequence'[n] \in version + 1 .. version + Cardinality(T),
         \A m, n \in T : sequence'[m] = sequence'[n] => m = n,
         \A n \in Node \ T : sequence'[n] = sequence[n],
         version' = version + Cardinality(T),
         Succeeded' = Succeeded \cup T
  PROVE  CountInv' /\ DistinctInv'
<1>1. version \in Nat /\ sequence \in [Node -> Nat] BY DEF IInv, TypeOK
<1>2. IsFiniteSet(T) /\ Cardinality(T) \in Nat
  BY FS_Subset, FS_CardinalityType, PlanAssumption
<1>3. AppliedNodes' = AppliedNodes \cup T
  <2>1. \A n \in T : sequence'[n] # 0 BY <1>1, <1>2
  <2> QED BY <2>1 DEF AppliedNodes
<1>4. AppliedNodes \cap T = {} /\ AppliedNodes \in SUBSET Node
  BY DEF CountInv, AppliedNodes
<1>5. IsFiniteSet(AppliedNodes) BY <1>4, FS_Subset, PlanAssumption
<1>6. Cardinality(AppliedNodes \cup T) = Cardinality(AppliedNodes) + Cardinality(T)
  <2>1. Cardinality(AppliedNodes \cup T)
          = Cardinality(AppliedNodes) + Cardinality(T) - Cardinality(AppliedNodes \cap T)
    BY <1>2, <1>5, FS_Union
  <2>2. Cardinality(AppliedNodes \cap T) = 0 BY <1>4, FS_EmptySet
  <2>3. Cardinality(AppliedNodes) \in Nat BY <1>5, FS_CardinalityType
  <2> QED BY <1>2, <2>1, <2>2, <2>3
<1>7. CountInv'
  BY <1>1, <1>2, <1>3, <1>6 DEF CountInv
<1>8. \A n \in AppliedNodes : sequence'[n] = sequence[n] /\ sequence'[n] \in 2..version
  BY <1>4 DEF DistinctInv
<1>9. \A n \in AppliedNodes' : sequence'[n] \in 2..version'
  BY <1>1, <1>2, <1>3, <1>8 DEF CountInv
<1>10. ASSUME NEW m \in AppliedNodes', NEW n \in AppliedNodes', sequence'[m] = sequence'[n]
       PROVE  m = n
  <2>1. \A k \in T : sequence'[k] > version BY <1>1, <1>2
  <2>2. CASE m \in T /\ n \in T BY <1>10, <2>2
  <2>3. CASE m \in AppliedNodes /\ n \in AppliedNodes
    BY <1>8, <1>10, <2>3 DEF DistinctInv
  <2>4. CASE (m \in T /\ n \in AppliedNodes) \/ (m \in AppliedNodes /\ n \in T)
    BY <1>1, <1>8, <1>10, <2>1, <2>4
  <2> QED BY <1>3, <2>2, <2>3, <2>4
<1> QED BY <1>7, <1>9, <1>10 DEF DistinctInv

\* A new event comes after those of the nodes it depends on, and no node that
\* depends on it has one: the predecessors of T were settled before.
LEMMA NumberedAfter ==
  ASSUME IInv, CountInv, DistinctInv, DependencyInv, NEW T \in SUBSET Node,
         T \cap SettledNodes = {},
         \A n \in T : \A e \in Incoming(n) : Source[e] \in SettledNodes,
         \A n \in T : sequence'[n] \in version + 1 .. version + Cardinality(T),
         \A n \in Node \ T : sequence'[n] = sequence[n]
  PROVE  DependencyInv'
<1>1. version \in Nat /\ sequence \in [Node -> Nat] BY DEF IInv, TypeOK
<1>2. IsFiniteSet(T) /\ Cardinality(T) \in Nat
  BY FS_Subset, FS_CardinalityType, PlanAssumption
<1>3. AppliedNodes' \subseteq AppliedNodes \cup T
  BY DEF AppliedNodes
<1>4. AppliedNodes \subseteq SettledNodes
  BY DEF CountInv, Succeeded, SettledNodes, Settled
<1> SUFFICES ASSUME NEW e \in Edge, Source[e] \in AppliedNodes', Target[e] \in AppliedNodes'
             PROVE  sequence'[Source[e]] < sequence'[Target[e]]
  BY DEF DependencyInv
<1>5. e \in Incoming(Target[e]) BY DEF Incoming
<1>6. Source[e] \in SettledNodes
  BY <1>3, <1>4, <1>5 DEF IInv, PredInv
<1>7. Source[e] \in AppliedNodes /\ sequence'[Source[e]] = sequence[Source[e]]
  BY <1>3, <1>6 DEF AppliedNodes
<1>8. CASE Target[e] \in T
  <2>1. sequence[Source[e]] \in 2..version BY <1>7 DEF DistinctInv
  <2>2. sequence'[Target[e]] \in version + 1 .. version + Cardinality(T) BY <1>8
  <2> QED BY <1>1, <1>2, <1>7, <2>1, <2>2
<1>9. CASE Target[e] \notin T
  BY <1>3, <1>7, <1>9 DEF DependencyInv, AppliedNodes
<1> QED BY <1>8, <1>9

-----------------------------------------------------------------------------
(* The steps *)

\* Before the first wave the stream holds the inputs only.
LEMMA InitEventInv == Init => EventInv
<1> SUFFICES ASSUME Init PROVE EventInv OBVIOUS
<1>1. AppliedNodes = {} /\ Succeeded = {} BY DEF Init, AppliedNodes, Succeeded
<1>2. Cardinality({}) = 0 BY FS_EmptySet
<1> QED
  BY <1>1, <1>2 DEF Init, EventInv, CountInv, DistinctInv, DependencyInv, ReturnedInv, CheckpointInv

\* A step that leaves traces, events and the checkpoint's node alone.
LEMMA QuietStep ==
  ASSUME EventInv, UNCHANGED board, Succeeded' = Succeeded
  PROVE  CountInv' /\ DistinctInv' /\ DependencyInv'
<1>1. AppliedNodes' = AppliedNodes BY DEF AppliedNodes, board
<1> QED BY <1>1 DEF EventInv, CountInv, DistinctInv, DependencyInv, board

\* A goroutine reports outputs or a suspension only while its trace says
\* running, and that trace does not change before the wave ends.
LEMMA NodeStepReturned ==
  ASSUME IInv, ReturnedInv, NEW n \in Node, NodeStep(n)
  PROVE  ReturnedInv'
<1> USE DEF IInv, TypeOK
<1>1. /\ phase = "wave" /\ UNCHANGED nodeUnchanged
      /\ \A m \in Node : m # n => status'[m] = status[m] /\ result'[m] = result[m]
  BY NodeStepEffect
<1>2. n \in slots => result[n] = "none" BY DEF SlotInv
<1> USE DEF Suspensions
<1> SUFFICES result'[n] \in {"ok"} \cup Suspensions => status'[n] = "running"
  BY <1>1 DEF ReturnedInv, nodeUnchanged
<1>3. ASSUME NEW k, Attempt(n, k), result[n] = "none"
      PROVE  result'[n] \notin {"ok"} \cup Suspensions
  BY <1>3 DEF Attempt, Finish
<1>4. CASE AcquireSlot(n) BY <1>3, <1>4 DEF AcquireSlot, Waiting
<1>5. CASE CanceledWaiting(n) BY <1>5 DEF CanceledWaiting, Finish
<1>6. CASE \E r \in {"ok", "unwritable"}, b \in Branch \cup {NoBranch} : ExecuteOk(n, r, b)
  BY <1>6 DEF ExecuteOk, Executing, Finish
<1>7. CASE \E r \in Suspensions : ExecuteSuspend(n, r)
  BY <1>7 DEF ExecuteSuspend, Executing, Finish
<1>8. CASE ExecuteError(n) BY <1>8 DEF ExecuteError, Finish
<1>9. CASE ExecuteRetryable(n)
  BY <1>2, <1>9 DEF ExecuteRetryable, Executing
<1>10. CASE ContextError(n) BY <1>10 DEF ContextError, Finish
<1>11. CASE NodeTimeout(n) BY <1>11 DEF NodeTimeout, Finish
<1>12. CASE RetryAttempt(n) BY <1>2, <1>3, <1>12 DEF RetryAttempt, BackingOff
<1> QED BY <1>4, <1>5, <1>6, <1>7, <1>8, <1>9, <1>10, <1>11, <1>12 DEF NodeStep

\* No step of a goroutine touches the stream.
LEMMA NodeStepEventInv ==
  ASSUME IInv, EventInv, NEW n \in Node, NodeStep(n)
  PROVE  EventInv'
<1>1. Succeeded' = Succeeded /\ UNCHANGED <<board, checkpoint>>
  BY NodeStepEffect DEF Succeeded, SettledNodes, Settled, IInv, ReadyInv, nodeUnchanged
<1>2. ReturnedInv' BY NodeStepReturned DEF EventInv
<1>3. checkpoint.node = {} BY NodeStepEffect DEF IInv, ReadyInv
<1> QED BY <1>1, <1>2, <1>3, QuietStep DEF EventInv, CheckpointInv

\* Exactly the nodes with outputs become successes when a wave is recorded.
LEMMA RecordedSuccesses ==
  ASSUME IInv, EventInv, WaveDone, RecordWave
  PROVE  /\ Succeeded' = Succeeded \cup Applied
         /\ Applied \cap SettledNodes = {} /\ Applied \in SUBSET Node
         /\ Applied \subseteq readyIDs
<1> USE DEF IInv, TypeOK
<1>1. readyIDs \cap SettledNodes = {} BY DEF ReadyInv, WaveDone
<1>2. RecordedStatus("ok") = "success" BY Zenon DEF RecordedStatus, Suspensions
<1>3. "success" \in nodeStateTransitions["running"]
  BY DEF nodeStateTransitions, Status
<1>4. ASSUME NEW n \in Applied PROVE status'[n] = "success"
  <2>1. n \in readyIDs /\ n \in Node /\ result[n] = "ok" BY DEF Applied
  <2>2. status[n] = "running" BY <2>1 DEF EventInv, ReturnedInv, WaveDone
  <2>3. recordResult(n) = "success"
    BY <1>2, <1>3, <2>1, <2>2 DEF recordResult, validateNodeStateTransition
  <2> QED BY <2>1, <2>3 DEF RecordWave
<1>5. ASSUME NEW n \in readyIDs, status'[n] = "success" PROVE n \in Applied
  <2>1. status[n] # "success" BY <1>1 DEF SettledNodes, Settled
  <2>2. RecordedStatus(result[n]) = "success"
    BY <1>5, <2>1 DEF RecordWave, recordResult
  <2>3. result[n] = "ok"
    BY <2>2 DEF RecordedStatus, Results, Suspensions, WaveDone
  <2> QED BY <2>3 DEF Applied
<1>6. \A n \in Node \ readyIDs : status'[n] = status[n] BY DEF RecordWave
<1>7. Succeeded \cap readyIDs = {}
  BY <1>1 DEF Succeeded, SettledNodes, Settled
<1>8. Applied \subseteq readyIDs BY DEF Applied
<1> QED BY <1>1, <1>4, <1>5, <1>6, <1>7, <1>8 DEF Succeeded

\* A node that suspended is recorded as suspended.
LEMMA RecordedSuspension ==
  ASSUME IInv, EventInv, WaveDone, RecordWave, NEW n \in readyIDs, result[n] \in Suspensions
  PROVE  status'[n] = "suspended"
<1>1. n \in Node /\ status[n] = "running"
  BY DEF IInv, TypeOK, EventInv, ReturnedInv, WaveDone
<1>2. RecordedStatus(result[n]) = "suspended" BY DEF RecordedStatus, Suspensions
<1>3. "suspended" \in nodeStateTransitions["running"]
  BY DEF nodeStateTransitions, Status
<1>4. recordResult(n) = "suspended"
  BY <1>1, <1>2, <1>3 DEF recordResult, validateNodeStateTransition
<1> QED BY <1>1, <1>4 DEF RecordWave

\* applyResultDelta in declaration order numbers the wave's successes with
\* the next versions.
LEMMA RecordWaveNumbers ==
  ASSUME IInv, WaveDone, RecordWave
  PROVE  /\ version' = version + Cardinality(Applied)
         /\ \A n \in Applied : /\ sequence'[n] = version + Rank(n, Applied)
                                /\ Rank(n, Applied) \in 1..Cardinality(Applied)
         /\ \A n \in Node \ Applied : sequence'[n] = sequence[n]
         /\ Applied \in SUBSET Node /\ Cardinality(Applied) \in Nat
<1>1. Applied \in SUBSET Node BY DEF Applied, IInv, TypeOK
<1>2. \A n \in Applied : Rank(n, Applied) \in 1..Cardinality(Applied)
  BY <1>1, RankBounds
<1>3. IsFiniteSet(Applied) BY <1>1, FS_Subset, PlanAssumption
<1>4. Cardinality(Applied) \in Nat BY <1>3, FS_CardinalityType
<1>5. /\ version' = version + Cardinality(Applied)
      /\ sequence' = [n \in Node |-> IF n \in Applied THEN version + Rank(n, Applied)
                                                      ELSE sequence[n]]
  BY DEF RecordWave, ApplyDeltas, Rank
<1> QED BY <1>1, <1>2, <1>4, <1>5

\* So recording a wave keeps the stream exact.
LEMMA RecordWaveEventInv ==
  ASSUME IInv, EventInv, WaveDone, RecordWave
  PROVE  CountInv' /\ DistinctInv' /\ DependencyInv'
<1>1. version \in Nat BY DEF IInv, TypeOK
<1>2. /\ Applied \in SUBSET Node /\ Cardinality(Applied) \in Nat
      /\ version' = version + Cardinality(Applied)
      /\ \A n \in Node \ Applied : sequence'[n] = sequence[n]
  BY RecordWaveNumbers
<1>3. \A n \in Applied : sequence'[n] \in version + 1 .. version + Cardinality(Applied)
  <2> TAKE n \in Applied
  <2>1. /\ sequence'[n] = version + Rank(n, Applied)
        /\ Rank(n, Applied) \in 1..Cardinality(Applied)
    BY RecordWaveNumbers
  <2> QED BY <1>1, <1>2, <2>1
<1>4. ASSUME NEW m \in Applied, NEW n \in Applied, sequence'[m] = sequence'[n] PROVE m = n
  <2>1. /\ sequence'[n] = version + Rank(n, Applied) /\ Rank(n, Applied) \in 1..Cardinality(Applied)
        /\ sequence'[m] = version + Rank(m, Applied) /\ Rank(m, Applied) \in 1..Cardinality(Applied)
    BY RecordWaveNumbers
  <2>2. Rank(m, Applied) = Rank(n, Applied) BY <1>1, <1>2, <1>4, <2>1
  <2> QED BY <1>2, <2>2, RankDistinct
<1>5. /\ Succeeded' = Succeeded \cup Applied /\ Applied \cap SettledNodes = {}
      /\ Applied \subseteq readyIDs
  BY RecordedSuccesses
<1>6. Applied \cap Succeeded = {} BY <1>5 DEF Succeeded, SettledNodes, Settled
<1>7. \A n \in Applied : \A e \in Incoming(n) : Source[e] \in SettledNodes
  BY <1>5 DEF IInv, PredInv
<1>8. CountInv' /\ DistinctInv'
  BY <1>2, <1>3, <1>4, <1>5, <1>6, Numbered DEF EventInv
<1>9. DependencyInv'
  BY <1>2, <1>3, <1>5, <1>7, NumberedAfter DEF EventInv
<1> QED BY <1>8, <1>9

\* A resume adds the event of the one injected node, or none.
LEMMA ResumeEventInv == IInv /\ EventInv /\ Resume => EventInv'
<1> SUFFICES ASSUME IInv, EventInv, Resume PROVE EventInv' OBVIOUS
<1> DEFINE I == IF checkpoint.retry THEN {} ELSE checkpoint.node
<1>1. I \in SUBSET Node /\ I \cap SettledNodes = {} /\ version \in Nat
  BY DEF IInv, TypeOK, ReadyInv
<1>2. \A m, n \in I : m = n BY DEF EventInv, CheckpointInv
<1>3. /\ status' = [n \in Node |-> IF n \in I THEN "success" ELSE status[n]]
      /\ sequence' = [n \in Node |-> IF n \in I THEN version + 1 ELSE sequence[n]]
      /\ version' = version + Cardinality(I)
      /\ phase' = "prepared" /\ checkpoint'.node = {}
  BY DEF Resume, NoCheckpoint, RestoredTraces
<1>4. \A n \in I : \A e \in Incoming(n) : Source[e] \in SettledNodes
  BY DEF IInv, PredInv
<1>5. I = {} \/ Cardinality(I) = 1
  <2>1. ASSUME NEW n \in I PROVE Cardinality(I) = 1
    <3>1. I = {n} BY <1>2
    <3> QED BY <3>1, FS_Singleton
  <2> QED BY <2>1
<1> HIDE DEF I
<1>6. \A n \in I : sequence'[n] \in version + 1 .. version + Cardinality(I)
  BY <1>1, <1>3, <1>5
<1>7. \A n \in Node \ I : sequence'[n] = sequence[n] BY <1>3
<1>8. Succeeded' = Succeeded \cup I /\ I \cap Succeeded = {}
  BY <1>1, <1>3 DEF Succeeded, SettledNodes, Settled
<1>9. CountInv' /\ DistinctInv'
  BY <1>1, <1>2, <1>3, <1>6, <1>7, <1>8, Numbered DEF EventInv
<1>10. DependencyInv'
  BY <1>1, <1>4, <1>6, <1>7, NumberedAfter DEF EventInv
<1>11. ReturnedInv' /\ CheckpointInv'
  BY <1>3 DEF ReturnedInv, CheckpointInv
<1> QED BY <1>9, <1>10, <1>11 DEF EventInv

\* Every step preserves the stream's invariant.
LEMMA StepEventInv == IInv /\ EventInv /\ [Next]_vars => EventInv'
<1> SUFFICES ASSUME IInv, EventInv, [Next]_vars PROVE EventInv' OBVIOUS
<1>1. CASE StartWave
  <2>1. Succeeded' = Succeeded /\ UNCHANGED <<board, checkpoint>>
    BY <1>1 DEF StartWave, Succeeded
  <2>2. ReturnedInv'
    <3>1. \A n \in Node : result'[n] \in {"skipped", "none"} BY <1>1 DEF StartWave
    <3>2. readyIDs' \subseteq Node BY <1>1 DEF StartWave, IInv, TypeOK
    <3> QED BY <3>1, <3>2 DEF ReturnedInv, Suspensions
  <2>3. CheckpointInv'
    BY <1>1 DEF StartWave, EventInv, CheckpointInv
  <2> QED BY <2>1, <2>2, <2>3, QuietStep DEF EventInv
<1>2. CASE CommitHookFails \/ StopWave \/ AdvanceWave
  <2>1. WaveDone /\ RecordWave
    BY <1>2 DEF CommitHookFails, StopWave, AdvanceWave
  <2>2. CountInv' /\ DistinctInv' /\ DependencyInv'
    BY <2>1, RecordWaveEventInv
  <2>3. phase' # "wave"
    BY <1>2 DEF CommitHookFails, StopWave, AdvanceWave, Return
  <2>4. CheckpointInv'
    <3>1. CASE checkpoint'.node = {} BY <3>1 DEF CheckpointInv
    <3>2. ASSUME NEW n \in Stopping, result[n] \in Suspensions, checkpoint'.node = {n}
          PROVE  CheckpointInv'
      <4>1. n \in readyIDs BY DEF Stopping
      <4>2. status'[n] = "suspended" BY <2>1, <3>2, <4>1, RecordedSuspension
      <4> QED BY <3>2, <4>2 DEF CheckpointInv
    <3>3. CASE AdvanceWave
      BY <3>1, <3>3 DEF AdvanceWave, WaveDone, IInv, ReadyInv
    <3> QED BY <1>2, <3>1, <3>2, <3>3 DEF CommitHookFails, StopWave, Return, NoCheckpoint
  <2> QED BY <2>2, <2>3, <2>4 DEF EventInv, ReturnedInv
<1>3. CASE ReturnPrepared
  <2>1. Succeeded' = Succeeded /\ UNCHANGED board
    BY <1>3 DEF ReturnPrepared, Succeeded
  <2>2. ReturnedInv' /\ CheckpointInv'
    BY <1>3 DEF ReturnPrepared, Return, NoCheckpoint, ReturnedInv, CheckpointInv
  <2> QED BY <2>1, <2>2, QuietStep DEF EventInv
<1>4. CASE \E n \in Node : NodeStep(n) BY <1>4, NodeStepEventInv
<1>5. CASE (\E e \in {"canceled", "timed_out"} : ContextDone(e)) \/ UNCHANGED vars
  <2>1. UNCHANGED <<status, board, checkpoint, phase, readyIDs, result>>
    BY <1>5 DEF ContextDone, vars
  <2>2. Succeeded' = Succeeded BY <2>1 DEF Succeeded
  <2>3. ReturnedInv' /\ CheckpointInv' BY <2>1 DEF ReturnedInv, CheckpointInv, EventInv
  <2> QED BY <2>1, <2>2, <2>3, QuietStep DEF EventInv
<1>6. CASE Resume BY <1>6, ResumeEventInv
<1> QED BY <1>1, <1>2, <1>3, <1>4, <1>5, <1>6 DEF Next, Coordinate

-----------------------------------------------------------------------------
(* The theorems *)

\* The event stream's invariant holds in every run of the scheduler.
THEOREM EventInvariant == Spec => []EventInv
BY InitEventInv, StepEventInv, InductiveInvariant, PTL DEF Spec

\* The event stream can always be replayed: for every plan and any number of
\* waves and resumes the sequence numbers are exactly 2..version, exactly the
\* successful nodes have one, and it follows those of the predecessors.
THEOREM EventsAlwaysReplayable == Spec => []EventsReplayable
<1>1. ASSUME IInv, EventInv PROVE EventsReplayable
  <2>1. AppliedNodes \in SUBSET Node /\ version \in Nat BY <1>1 DEF AppliedNodes, IInv, TypeOK
  <2>2. {sequence[n] : n \in AppliedNodes} = 2..version
    <3> DEFINE f == [n \in AppliedNodes |-> sequence[n]]
    <3>1. f \in Injection(AppliedNodes, 2..version)
      <4>1. f \in [AppliedNodes -> 2..version] BY <1>1 DEF EventInv, DistinctInv
      <4>2. \A m, n \in AppliedNodes : f[m] = f[n] => m = n
        BY <1>1 DEF EventInv, DistinctInv
      <4> QED BY <4>1, <4>2 DEF Injection, IsInjective
    <3>2. IsFiniteSet(2..version) /\ Cardinality(2..version) = version - 1
      BY <1>1, <2>1, FS_Interval DEF EventInv, CountInv
    <3>3. Cardinality(AppliedNodes) = Cardinality(2..version)
      BY <1>1, <3>2 DEF EventInv, CountInv
    <3>4. f \in Surjection(AppliedNodes, 2..version)
      BY <3>1, <3>2, <3>3, FS_Injection
    <3>5. \A v \in 2..version : \E n \in AppliedNodes : f[n] = v
      BY <3>4 DEF Surjection
    <3>6. \A n \in AppliedNodes : sequence[n] \in 2..version
      BY <1>1 DEF EventInv, DistinctInv
    <3> QED BY <3>5, <3>6
  <2>3. /\ Cardinality(AppliedNodes) = version - 1 /\ AppliedNodes = Succeeded
    BY <1>1 DEF EventInv, CountInv
  <2>4. \A e \in Edge : {Source[e], Target[e]} \subseteq AppliedNodes
              => sequence[Source[e]] < sequence[Target[e]]
    BY <1>1 DEF EventInv, DependencyInv
  <2> QED BY <2>2, <2>3, <2>4 DEF EventsReplayable, AppliedNodes
<1> QED BY <1>1, InductiveInvariant, EventInvariant, PTL

\* Whatever order the goroutines of a wave finish in, their events follow the
\* declaration order, and a resume never adds two events at once.
THEOREM DeclarationOrderKept == Spec => DeclarationOrder
<1> DEFINE Ordered == \A m, n \in Node :
         (/\ sequence[m] = 0 /\ sequence'[m] # 0
          /\ sequence[n] = 0 /\ sequence'[n] # 0
          /\ NodeOrder[m] < NodeOrder[n]) => sequence'[m] < sequence'[n]
<1>1. ASSUME IInv, EventInv, [Next]_vars PROVE [Ordered]_vars
  <2> SUFFICES ASSUME NEW m \in Node, NEW n \in Node, Next,
                      sequence[m] = 0, sequence'[m] # 0, sequence[n] = 0, sequence'[n] # 0,
                      NodeOrder[m] < NodeOrder[n]
               PROVE  sequence'[m] < sequence'[n]
    BY <1>1
  <2>1. CASE CommitHookFails \/ StopWave \/ AdvanceWave
    <3>1. WaveDone /\ RecordWave
      BY <2>1 DEF CommitHookFails, StopWave, AdvanceWave
    <3>2. m \in Applied /\ n \in Applied /\ Applied \in SUBSET Node
      BY <1>1, <3>1, RecordWaveNumbers
    <3>3. /\ sequence'[n] = version + Rank(n, Applied) /\ Rank(n, Applied) \in 1..Cardinality(Applied)
          /\ sequence'[m] = version + Rank(m, Applied) /\ Rank(m, Applied) \in 1..Cardinality(Applied)
          /\ Cardinality(Applied) \in Nat
      BY <1>1, <3>1, <3>2, RecordWaveNumbers
    <3>4. Rank(m, Applied) < Rank(n, Applied) BY <3>2, RankGrows
    <3>5. version \in Nat BY <1>1 DEF IInv, TypeOK
    <3> QED BY <3>3, <3>4, <3>5
  <2>2. CASE Resume
    <3>1. m \in checkpoint.node /\ n \in checkpoint.node
      BY <2>2 DEF Resume
    <3>2. m = n BY <1>1, <3>1 DEF EventInv, CheckpointInv
    <3>3. NodeOrder[m] \in Nat BY PlanAssumption
    <3> QED BY <3>2, <3>3
  <2>3. CASE ~ (CommitHookFails \/ StopWave \/ AdvanceWave) /\ ~ Resume
    <3>1. sequence' = sequence
      <4>1. CASE \E k \in Node : NodeStep(k)
        BY <1>1, <4>1, NodeStepEffect DEF nodeUnchanged, board
      <4>2. CASE StartWave \/ ReturnPrepared \/ \E e \in {"canceled", "timed_out"} : ContextDone(e)
        BY <4>2 DEF StartWave, ReturnPrepared, ContextDone, board
      <4> QED BY <2>3, <4>1, <4>2 DEF Next, Coordinate
    <3> QED BY <3>1
  <2> QED BY <2>1, <2>2, <2>3
<1> QED BY <1>1, InductiveInvariant, EventInvariant, PTL DEF Spec, DeclarationOrder
=============================================================================
