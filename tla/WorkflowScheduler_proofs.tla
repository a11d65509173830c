---------------------- MODULE WorkflowScheduler_proofs ----------------------
(***************************************************************************)
(* Proofs about WorkflowScheduler, for every plan, retry policy, semaphore *)
(* size and budget.                                                        *)
(*                                                                         *)
(* The argument: inDegrees[n] is the number of incoming edges of n whose   *)
(* source is not settled (CounterInv), both when waves decrement it and    *)
(* when a resume rebuilds it; so a node reaches zero, and the ready set,   *)
(* only when all its predecessors are settled (PredInv).                   *)
(***************************************************************************)
EXTENDS WorkflowScheduler, FiniteSetTheorems, TLAPS

\* Incoming edges of n whose source is not in S.
Unresolved(n, S) == {e \in Incoming(n) : Source[e] \notin S}

CounterInv ==
    phase # "returned" =>
        \A n \in Node : inDegrees[n] = Cardinality(Unresolved(n, SettledNodes))

PredInv ==
    \A n \in SettledNodes \cup readyIDs \cup checkpoint.node :
        \A e \in Incoming(n) : Source[e] \in SettledNodes

ReadyInv ==
    /\ phase # "returned" => readyIDs \cap SettledNodes = {}
    /\ checkpoint.node \cap SettledNodes = {}
    /\ phase # "returned" => checkpoint.node = {}

SlotInv ==
    /\ slots \subseteq readyIDs
    /\ phase # "wave" => slots = {}
    /\ \A n \in slots : result[n] = "none" /\ status[n] \in {"running", "retrying"}

BoardInv ==
    /\ \A n \in Succeeded : sequence[n] \in 1..version
    /\ phase = "wave" => view = version

IInv == TypeOK /\ CounterInv /\ PredInv /\ ReadyInv /\ SlotInv /\ BoardInv

-----------------------------------------------------------------------------
(* Counting edges *)

\* Every set of incoming edges is finite, so its cardinality is a number.
LEMMA EdgesFinite ==
  ASSUME NEW n \in Node, NEW S \in SUBSET Incoming(n)
  PROVE  IsFiniteSet(S) /\ Cardinality(S) \in Nat
<1>1. IsFiniteSet(Edge) BY PlanAssumption
<1>2. S \in SUBSET Edge BY DEF Incoming
<1>3. IsFiniteSet(S) BY <1>1, <1>2, FS_Subset
<1> QED BY <1>3, FS_CardinalityType

\* Decrementing by the edges that leave T turns the count of edges not
\* resolved by S into the count of edges not resolved by S and T.
LEMMA CountAfter ==
  ASSUME NEW n \in Node, NEW S, NEW T, S \cap T = {}
  PROVE  /\ Cardinality(Unresolved(n, S)) - Cardinality(Resolved(n, T))
              = Cardinality(Unresolved(n, S \cup T))
         /\ Cardinality(Unresolved(n, S \cup T)) \in Nat
         /\ Cardinality(Unresolved(n, S)) \in Nat
         /\ Cardinality(Resolved(n, T)) \in Nat
<1> DEFINE U == Unresolved(n, S)
           R == Resolved(n, T)
<1>1. U \subseteq Incoming(n) /\ R \subseteq Incoming(n)
  BY DEF Unresolved, Resolved
<1>2. IsFiniteSet(U) /\ Cardinality(U) \in Nat /\ Cardinality(R) \in Nat
  BY <1>1, EdgesFinite
<1>3. U \ R = Unresolved(n, S \cup T) /\ U \cap R = R
  BY DEF Unresolved, Resolved
<1>4. Unresolved(n, S \cup T) \subseteq Incoming(n)
  BY DEF Unresolved
<1>5. Cardinality(U \ R) = Cardinality(U) - Cardinality(U \cap R)
  BY <1>2, FS_Difference
<1> QED BY <1>2, <1>3, <1>4, <1>5, EdgesFinite

\* A counter that reaches zero leaves no unresolved edge.
LEMMA NoneUnresolved ==
  ASSUME NEW n \in Node, NEW S, Cardinality(Unresolved(n, S)) <= 0
  PROVE  \A e \in Incoming(n) : Source[e] \in S
<1>1. Unresolved(n, S) \subseteq Incoming(n) BY DEF Unresolved
<1>2. IsFiniteSet(Unresolved(n, S)) /\ Cardinality(Unresolved(n, S)) \in Nat
  BY <1>1, EdgesFinite
<1>3. Cardinality(Unresolved(n, S)) = 0 BY <1>2
<1>4. Unresolved(n, S) = {} BY <1>2, <1>3, FS_EmptySet
<1> QED BY <1>4 DEF Unresolved

\* A positive counter has an unresolved edge.
LEMMA SomeUnresolved ==
  ASSUME NEW n \in Node, NEW S, Cardinality(Unresolved(n, S)) > 0
  PROVE  \E e \in Incoming(n) : Source[e] \notin S
<1>1. Unresolved(n, S) # {} BY FS_EmptySet
<1> QED BY <1>1 DEF Unresolved

\* Counters stay integers.
LEMMA AdvanceTypes ==
  ASSUME NEW f \in [Node -> Int], NEW S, NEW X, NEW b
  PROVE  AdvanceDegrees(f, S) \in [Node -> Int] /\ AdvanceActive(f, S, X, b) \in [Node -> Int]
<1>1. ASSUME NEW n \in Node
      PROVE  /\ Cardinality(Resolved(n, S)) \in Nat
             /\ Cardinality(ActiveResolved(n, S, X, b)) \in Nat
  <2>1. Resolved(n, S) \subseteq Incoming(n) BY DEF Resolved
  <2>2. ActiveResolved(n, S, X, b) \subseteq Incoming(n)
    BY DEF ActiveResolved, Resolved
  <2> QED BY <2>1, <2>2, EdgesFinite
<1> QED BY <1>1 DEF AdvanceDegrees, AdvanceActive

-----------------------------------------------------------------------------
(* The initial state *)

\* Execute starts with the compiled in-degrees and the roots.
LEMMA InitIInv == Init => IInv
<1> SUFFICES ASSUME Init PROVE IInv OBVIOUS
<1> USE PlanAssumption
<1>1. \A n \in Node : InDegree(n) \in Nat
  BY EdgesFinite DEF InDegree
<1>2. SettledNodes = {} /\ Succeeded = {}
  BY DEF Init, SettledNodes, Succeeded, Settled
<1>3. TypeOK
  BY <1>1 DEF Init, TypeOK, Status, Results, Roots
<1>4. CounterInv
  <2>1. \A n \in Node : Unresolved(n, {}) = Incoming(n) BY DEF Unresolved
  <2> QED BY <1>2, <2>1 DEF CounterInv, Init, InDegree
<1>5. PredInv /\ ReadyInv
  BY <1>2 DEF PredInv, ReadyInv, Init, Roots
<1>6. SlotInv /\ BoardInv
  BY <1>2 DEF SlotInv, BoardInv, Init
<1> QED BY <1>3, <1>4, <1>5, <1>6 DEF IInv

-----------------------------------------------------------------------------
(* Steps of the node goroutines *)

\* A goroutine changes only the trace of its own unsettled node.
LEMMA NodeStepEffect ==
  ASSUME IInv, NEW n \in Node, NodeStep(n)
  PROVE  /\ UNCHANGED nodeUnchanged
         /\ phase = "wave" /\ n \in readyIDs
         /\ status' \in [Node -> Status] /\ attempt' \in [Node -> Nat]
         /\ slots' \subseteq slots \cup {n} /\ result' \in [Node -> Results]
         /\ output' \in [Node -> Branch \cup {NoBranch}] /\ steps' \in Nat
         /\ \A m \in Node : m # n => /\ status'[m] = status[m] /\ result'[m] = result[m]
                                     /\ attempt'[m] = attempt[m]
         /\ status'[n] \notin Settled
         /\ n \in slots' => result'[n] = "none" /\ status'[n] \in {"running", "retrying"}
<1> USE DEF IInv, TypeOK, SlotInv, ReadyInv
<1>1. n \in slots => n \in readyIDs /\ phase = "wave" OBVIOUS
<1>2. n \in readyIDs /\ phase = "wave" => status[n] \notin Settled
  BY DEF SettledNodes
<1>3. ASSUME NEW k \in Nat, Attempt(n, k), n \in readyIDs, phase = "wave", result[n] = "none"
      PROVE  /\ status' \in [Node -> Status] /\ attempt' \in [Node -> Nat]
             /\ slots' \subseteq slots \cup {n} /\ result' \in [Node -> Results]
             /\ steps' \in Nat
             /\ \A m \in Node : m # n => /\ status'[m] = status[m] /\ result'[m] = result[m]
                                         /\ attempt'[m] = attempt[m]
             /\ status'[n] \notin Settled
             /\ n \in slots' => result'[n] = "none" /\ status'[n] \in {"running", "retrying"}
  BY <1>2, <1>3 DEF Attempt, Finish, Status, Settled, Results
<1>4. CASE AcquireSlot(n)
  BY <1>3, <1>4 DEF AcquireSlot, Waiting
<1>5. CASE CanceledWaiting(n)
  BY <1>2, <1>5 DEF CanceledWaiting, Waiting, Finish, Results
<1>6. CASE \E r \in {"ok", "unwritable"}, b \in Branch \cup {NoBranch} : ExecuteOk(n, r, b)
  BY <1>1, <1>2, <1>6 DEF ExecuteOk, Executing, Finish, Results
<1>7. CASE \E r \in Suspensions : ExecuteSuspend(n, r)
  BY <1>1, <1>2, <1>7 DEF ExecuteSuspend, Executing, Finish, Results, Suspensions
<1>8. CASE ExecuteError(n)
  BY <1>1, <1>2, <1>8 DEF ExecuteError, Executing, Finish, Results
<1>9. CASE ExecuteRetryable(n)
  BY <1>1, <1>2, <1>9 DEF ExecuteRetryable, Executing, Settled, Status
<1>10. CASE ContextError(n)
  BY <1>1, <1>2, <1>10 DEF ContextError, Executing, BackingOff, Finish, Results
<1>11. CASE NodeTimeout(n)
  BY <1>1, <1>2, <1>11 DEF NodeTimeout, Executing, BackingOff, Finish, Results
<1>12. CASE RetryAttempt(n)
  <2>1. n \in slots /\ attempt[n] + 1 \in Nat BY <1>12 DEF RetryAttempt, BackingOff
  <2> QED BY <1>1, <1>3, <1>12, <2>1 DEF RetryAttempt
<1> QED BY <1>4, <1>5, <1>6, <1>7, <1>8, <1>9, <1>10, <1>11, <1>12 DEF NodeStep

\* No step of a node's goroutine disturbs the invariant.
LEMMA NodeStepIInv ==
  ASSUME IInv, NEW n \in Node, NodeStep(n)
  PROVE  IInv'
<1>1. SettledNodes' = SettledNodes /\ Succeeded' = Succeeded
  BY NodeStepEffect DEF SettledNodes, Succeeded, Settled, IInv, ReadyInv
<1>2. TypeOK'
  BY NodeStepEffect DEF TypeOK, IInv, nodeUnchanged, counters, board, SlotInv
<1>3. CounterInv'
  BY <1>1, NodeStepEffect DEF CounterInv, IInv, nodeUnchanged, counters
<1>4. PredInv' /\ ReadyInv'
  BY <1>1, NodeStepEffect DEF PredInv, ReadyInv, IInv, nodeUnchanged
<1>5. SlotInv'
  BY NodeStepEffect DEF SlotInv, IInv, nodeUnchanged, TypeOK
<1>6. BoardInv'
  BY <1>1, NodeStepEffect DEF BoardInv, IInv, nodeUnchanged, board
<1> QED BY <1>2, <1>3, <1>4, <1>5, <1>6 DEF IInv

-----------------------------------------------------------------------------
(* Steps of the coordinator *)

\* A wave reads the version all settled outputs are in.
LEMMA StartWaveIInv == IInv /\ StartWave => IInv'
<1> SUFFICES ASSUME IInv, StartWave PROVE IInv' OBVIOUS
<1> USE DEF StartWave
<1>1. SettledNodes' = SettledNodes /\ Succeeded' = Succeeded
  BY DEF SettledNodes, Succeeded
<1>2. TypeOK' BY DEF IInv, TypeOK, Results, counters, board
<1>3. CounterInv' BY <1>1 DEF CounterInv, IInv, counters
<1>4. PredInv' /\ ReadyInv' BY <1>1 DEF PredInv, ReadyInv, IInv
<1>5. SlotInv' /\ BoardInv' BY <1>1 DEF SlotInv, BoardInv, IInv, board
<1> QED BY <1>2, <1>3, <1>4, <1>5 DEF IInv

\* What recording a finished wave does: settled nodes stay, nodes of the wave
\* that succeed get an event no later than the new version, and the
\* goroutines are gone.
LEMMA RecordWaveEffect ==
  ASSUME IInv, WaveDone, RecordWave
  PROVE  /\ status' \in [Node -> Status]
         /\ branch' \in [Node -> Branch \cup {NoBranch}]
         /\ sequence' \in [Node -> Nat] /\ version' \in Nat /\ version <= version'
         /\ SettledNodes \subseteq SettledNodes'
         /\ SettledNodes' \subseteq SettledNodes \cup readyIDs
         /\ \A n \in readyIDs : NoError(n) => n \in SettledNodes'
         /\ \A n \in readyIDs : result[n] \in Suspensions => n \notin SettledNodes'
         /\ \A n \in SettledNodes : /\ status'[n] = status[n]
                                     /\ sequence'[n] = sequence[n] /\ branch'[n] = branch[n]
         /\ \A n \in Succeeded' : sequence'[n] \in 1..version'
         /\ slots = {}
<1> USE DEF IInv, TypeOK
<1>1. readyIDs \cap SettledNodes = {} BY DEF ReadyInv, WaveDone
<1>2. slots = {}
  BY DEF SlotInv, WaveDone
<1>3. \A r \in Results \ {"none"} : RecordedStatus(r) \in Status
  BY DEF Results, RecordedStatus, Status, Suspensions
<1>4. \A n \in readyIDs : recordResult(n) \in Status
  BY <1>3 DEF recordResult, WaveDone
<1>5. status' \in [Node -> Status]
  BY <1>4 DEF RecordWave
<1>6. /\ IsFiniteSet(Applied) /\ Cardinality(Applied) \in Nat
  <2>1. Applied \in SUBSET Node BY DEF Applied
  <2>2. IsFiniteSet(Applied) BY <2>1, FS_Subset, PlanAssumption
  <2> QED BY <2>2, FS_CardinalityType
<1>7. ASSUME NEW n \in Applied
      PROVE  Cardinality({m \in Applied : NodeOrder[m] <= NodeOrder[n]}) \in 1..Cardinality(Applied)
  <2> DEFINE B == {m \in Applied : NodeOrder[m] <= NodeOrder[n]}
  <2>1. IsFiniteSet(B) /\ Cardinality(B) <= Cardinality(Applied)
    BY <1>6, FS_Subset
  <2>2. n \in B BY PlanAssumption DEF Applied
  <2>3. Cardinality(B) \in Nat /\ Cardinality(B) # 0
    BY <2>1, <2>2, FS_CardinalityType, FS_EmptySet
  <2> QED BY <1>6, <2>1, <2>3
<1>8. version' \in Nat /\ version <= version' /\ version' = version + Cardinality(Applied)
  BY <1>6 DEF RecordWave, ApplyDeltas
<1>9. \A n \in Node : sequence'[n] =
            IF n \in Applied
            THEN version + Cardinality({m \in Applied : NodeOrder[m] <= NodeOrder[n]})
            ELSE sequence[n]
  BY DEF RecordWave, ApplyDeltas
<1>10. \A n \in Applied : sequence'[n] \in 1..version' /\ sequence'[n] \in Nat
  <2> TAKE n \in Applied
  <2>1. n \in Node BY DEF Applied
  <2>2. PICK c \in 1..Cardinality(Applied) : sequence'[n] = version + c
    BY <1>7, <1>9, <2>1
  <2> QED BY <1>6, <1>8, <2>2
<1>11. sequence' \in [Node -> Nat]
  <2>1. \A n \in Node : sequence'[n] \in Nat BY <1>9, <1>10
  <2> QED BY <2>1 DEF RecordWave, ApplyDeltas
<1>12. branch' \in [Node -> Branch \cup {NoBranch}]
  BY DEF RecordWave, ApplyDeltas
<1>13. \A n \in SettledNodes : /\ n \notin readyIDs /\ status'[n] = status[n]
                               /\ sequence'[n] = sequence[n] /\ branch'[n] = branch[n]
  BY <1>1, <1>9 DEF RecordWave, SettledNodes, Applied, ApplyDeltas
<1>14. SettledNodes \subseteq SettledNodes'
  BY <1>13 DEF SettledNodes
<1>15. SettledNodes' \subseteq SettledNodes \cup readyIDs
  BY DEF SettledNodes, RecordWave
<1>16. ASSUME NEW n \in readyIDs, NoError(n) PROVE n \in SettledNodes'
  <2>1. RecordedStatus("ok") = "success" /\ RecordedStatus("skipped") = "skipped"
    BY Zenon DEF RecordedStatus, Suspensions
  <2>2. RecordedStatus(result[n]) \in Settled
    BY <1>16, <2>1 DEF NoError, Settled
  <2> QED BY <1>16, <2>2 DEF NoError, recordResult, RecordWave, SettledNodes
<1>17. ASSUME NEW n \in readyIDs, result[n] \in Suspensions PROVE n \notin SettledNodes'
  <2>1. status[n] \notin Settled BY <1>1 DEF SettledNodes
  <2>2. RecordedStatus(result[n]) = "suspended"
    BY <1>17 DEF RecordedStatus, Suspensions
  <2> QED BY <2>1, <2>2 DEF recordResult, RecordWave, SettledNodes, Settled
<1>18. ASSUME NEW n \in Succeeded' PROVE sequence'[n] \in 1..version'
  <2>1. n \in Node /\ status'[n] = "success" BY DEF Succeeded
  <2>2. CASE n \in readyIDs
    <3>1. status[n] # "success" BY <1>1, <2>2 DEF SettledNodes, Settled
    <3>2. RecordedStatus(result[n]) = "success"
      BY <2>1, <2>2, <3>1 DEF RecordWave, recordResult
    <3>3. result[n] = "ok"
      BY <2>1, <2>2, <3>2 DEF RecordedStatus, Results, Suspensions, WaveDone
    <3> QED BY <1>10, <2>2, <3>3 DEF Applied
  <2>3. CASE n \notin readyIDs
    <3>1. n \in Succeeded /\ sequence'[n] = sequence[n]
      BY <1>9, <2>1, <2>3 DEF RecordWave, Succeeded, Applied
    <3>2. sequence[n] \in 1..version BY <3>1 DEF BoardInv
    <3> QED BY <1>8, <3>1, <3>2
  <2> QED BY <2>2, <2>3
<1> QED
  BY <1>2, <1>5, <1>8, <1>11, <1>12, <1>13, <1>14, <1>15, <1>16, <1>17, <1>18

\* A wave that ends in a return: the counters no longer matter, the node the
\* checkpoint names is not settled and has its predecessors settled.
LEMMA ReturnIInv ==
  ASSUME IInv, WaveDone, RecordWave, UNCHANGED <<counters, readyIDs>>,
         NEW o \in {"suspended", "failed", "canceled", "timed_out"},
         NEW c \in [node : SUBSET Node, retry : BOOLEAN],
         \A n \in c.node : n \in readyIDs /\ result[n] \in Suspensions,
         Return(o, c)
  PROVE  IInv'
<1> USE RecordWaveEffect DEF Return
<1>1. TypeOK'
  BY DEF IInv, TypeOK, RecordWave, counters
<1>2. CounterInv' BY DEF CounterInv
<1>3. PredInv'
  BY DEF PredInv, IInv
<1>4. ReadyInv'
  BY DEF ReadyInv, IInv
<1>5. SlotInv' /\ BoardInv'
  BY DEF SlotInv, BoardInv, RecordWave
<1> QED BY <1>1, <1>2, <1>3, <1>4, <1>5 DEF IInv

\* A failing commit hook ends the run with the wave recorded.
LEMMA CommitHookFailsIInv == IInv /\ CommitHookFails => IInv'
<1> SUFFICES ASSUME IInv, CommitHookFails PROVE IInv' OBVIOUS
<1>1. NoCheckpoint \in [node : SUBSET Node, retry : BOOLEAN] /\ NoCheckpoint.node = {}
  BY DEF NoCheckpoint
<1> QED BY <1>1, ReturnIInv DEF CommitHookFails

\* A suspension, an error or a done context ends the run likewise.
LEMMA StopWaveIInv == IInv /\ StopWave => IInv'
<1> SUFFICES ASSUME IInv, StopWave PROVE IInv' OBVIOUS
<1>1. NoCheckpoint \in [node : SUBSET Node, retry : BOOLEAN] /\ NoCheckpoint.node = {}
  BY DEF NoCheckpoint
<1>2. CASE Stopping = {} /\ ctxErr # "none" /\ Return(ctxErr, NoCheckpoint)
  <2>1. ctxErr \in {"canceled", "timed_out"} BY <1>2 DEF IInv, TypeOK
  <2> QED BY <1>1, <1>2, <2>1, ReturnIInv DEF StopWave
<1>3. CASE Return("failed", NoCheckpoint)
  BY <1>1, <1>3, ReturnIInv DEF StopWave
<1>4. ASSUME NEW n \in Stopping, result[n] \in Suspensions,
             Return("suspended", [node |-> {n}, retry |-> result[n] = "approval"])
      PROVE  IInv'
  <2> DEFINE c == [node |-> {n}, retry |-> result[n] = "approval"]
  <2>1. n \in readyIDs /\ n \in Node
    BY DEF Stopping, IInv, TypeOK
  <2>2. c \in [node : SUBSET Node, retry : BOOLEAN] /\ c.node = {n}
    BY <2>1
  <2>3. \A m \in c.node : m \in readyIDs /\ result[m] \in Suspensions
    BY <1>4, <2>1, <2>2
  <2> HIDE DEF c
  <2> QED BY <1>4, <2>2, <2>3, ReturnIInv DEF StopWave, c
<1> QED BY <1>2, <1>3, <1>4 DEF StopWave

\* The next wave: the settled nodes grow by exactly the wave, the counters
\* drop by its outgoing edges, and what reaches zero becomes ready.
LEMMA AdvanceWaveIInv == IInv /\ AdvanceWave => IInv'
<1> SUFFICES ASSUME IInv, AdvanceWave PROVE IInv' OBVIOUS
<1> DEFINE S == SettledNodes
           R == readyIDs
           T == S \cup R
<1>1. WaveDone /\ RecordWave /\ phase = "wave" /\ phase' = "prepared"
  BY DEF AdvanceWave, WaveDone
<1>2. \A n \in readyIDs : NoError(n)
  BY DEF AdvanceWave, Stopping
<1>3. SettledNodes' = S \cup R /\ S \cap R = {}
  BY <1>1, <1>2, RecordWaveEffect DEF IInv, ReadyInv
<1>4. \A n \in Node : inDegrees[n] = Cardinality(Unresolved(n, S))
  BY <1>1 DEF IInv, CounterInv
<1>5. \A n \in Node : /\ inDegrees'[n] = Cardinality(Unresolved(n, T))
                       /\ inDegrees[n] \in Nat
                       /\ Cardinality(Resolved(n, R)) \in Nat
                       /\ inDegrees'[n] = inDegrees[n] - Cardinality(Resolved(n, R))
  <2> TAKE n \in Node
  <2>1. inDegrees'[n] = inDegrees[n] - Cardinality(Resolved(n, R))
    BY DEF AdvanceWave, AdvanceDegrees
  <2>2. /\ Cardinality(Unresolved(n, S)) - Cardinality(Resolved(n, R))
              = Cardinality(Unresolved(n, T))
        /\ Cardinality(Unresolved(n, S)) \in Nat /\ Cardinality(Resolved(n, R)) \in Nat
    BY <1>3, CountAfter
  <2> HIDE DEF S, R, T
  <2> QED BY <1>4, <2>1, <2>2
<1>6. ASSUME NEW n \in readyIDs'
      PROVE  /\ n \in Node
             /\ \A e \in Incoming(n) : Source[e] \in S \cup R
             /\ n \notin S \cup R
  <2>1. n \in Node /\ inDegrees[n] > 0 /\ inDegrees[n] <= Cardinality(Resolved(n, R))
    BY DEF AdvanceWave, HitsZero
  <2>2. Cardinality(Unresolved(n, T)) <= 0
    <3> HIDE DEF S, R, T
    <3> QED BY <1>5, <2>1
  <2>3. \A e \in Incoming(n) : Source[e] \in S \cup R
    BY <2>1, <2>2, NoneUnresolved
  <2>4. \E e \in Incoming(n) : Source[e] \notin S
    BY <1>4, <2>1, SomeUnresolved
  <2>5. n \notin S \cup R
    BY <2>4 DEF IInv, PredInv
  <2> QED BY <2>1, <2>3, <2>5
<1>7. TypeOK'
  <2>1. inDegrees' \in [Node -> Int] /\ activeInputs' \in [Node -> Int]
    BY AdvanceTypes DEF AdvanceWave, IInv, TypeOK
  <2> QED BY <1>1, <1>6, <2>1, RecordWaveEffect DEF IInv, TypeOK, RecordWave, AdvanceWave
<1>8. CounterInv'
  BY <1>3, <1>5 DEF CounterInv
<1>9. checkpoint' = checkpoint /\ checkpoint.node = {}
  BY <1>1 DEF AdvanceWave, IInv, ReadyInv
<1>10. PredInv'
  BY <1>3, <1>6, <1>9 DEF PredInv, IInv
<1>11. ReadyInv'
  BY <1>3, <1>6, <1>9 DEF ReadyInv
<1>12. SlotInv' /\ BoardInv'
  BY <1>1, RecordWaveEffect DEF SlotInv, BoardInv, RecordWave
<1> QED BY <1>7, <1>8, <1>10, <1>11, <1>12 DEF IInv

\* The final check only returns.
LEMMA ReturnPreparedIInv == IInv /\ ReturnPrepared => IInv'
<1> SUFFICES ASSUME IInv, ReturnPrepared PROVE IInv' OBVIOUS
<1> USE DEF ReturnPrepared, Return, NoCheckpoint
<1>1. SettledNodes' = SettledNodes /\ Succeeded' = Succeeded
  BY DEF SettledNodes, Succeeded
<1>2. TypeOK' BY DEF IInv, TypeOK, counters, board
<1>3. CounterInv' BY DEF CounterInv
<1>4. PredInv' /\ ReadyInv' BY <1>1 DEF PredInv, ReadyInv, IInv
<1>5. SlotInv' /\ BoardInv' BY <1>1 DEF SlotInv, BoardInv, IInv, board
<1> QED BY <1>2, <1>3, <1>4, <1>5 DEF IInv

\* Cancelling touches neither traces nor counters.
LEMMA ContextDoneIInv ==
  ASSUME IInv, NEW e \in {"canceled", "timed_out"}, ContextDone(e)
  PROVE  IInv'
<1> USE DEF ContextDone
<1>1. SettledNodes' = SettledNodes /\ Succeeded' = Succeeded
  BY DEF SettledNodes, Succeeded
<1>2. TypeOK' BY DEF IInv, TypeOK, counters, board
<1>3. CounterInv' BY <1>1 DEF CounterInv, IInv, counters
<1>4. PredInv' /\ ReadyInv' BY <1>1 DEF PredInv, ReadyInv, IInv
<1>5. SlotInv' /\ BoardInv' BY <1>1 DEF SlotInv, BoardInv, IInv, board
<1> QED BY <1>2, <1>3, <1>4, <1>5 DEF IInv

\* A resume rebuilds the counters from the settled traces and the injected
\* node, and finds the same relation between counters and settled nodes.
LEMMA ResumeIInv == IInv /\ Resume => IInv'
<1> SUFFICES ASSUME IInv, Resume PROVE IInv' OBVIOUS
<1> DEFINE S == SettledNodes
           current == checkpoint.node
           I == IF checkpoint.retry THEN {} ELSE current
           T == S \cup I
           deg0 == [n \in Node |-> InDegree(n)]
           deg1 == AdvanceDegrees(deg0, S)
           deg2 == AdvanceDegrees(deg1, I)
           act1 == AdvanceActive([n \in Node |-> 0], S, Succeeded, branch)
           retried == {n \in current : checkpoint.retry /\ deg2[n] = 0}
<1>1. I \subseteq Node /\ current \subseteq Node /\ S \cap I = {} /\ S \subseteq Node
  BY DEF IInv, TypeOK, ReadyInv, SettledNodes
<1>2. /\ status' = [n \in Node |-> IF n \in I THEN "success" ELSE status[n]]
      /\ sequence' = [n \in Node |-> IF n \in I THEN version + 1 ELSE sequence[n]]
      /\ version' = version + Cardinality(I)
      /\ inDegrees' = deg2
      /\ activeInputs' = AdvanceActive(act1, I, I, branch)
      /\ readyIDs' = (HitsZero(deg0, S) \cup HitsZero(deg1, I) \cup retried) \ (S \cup I)
      /\ phase' = "prepared" /\ checkpoint'.node = {} /\ slots' = {}
  BY DEF Resume, NoCheckpoint, RestoredTraces
<1>3. \A n \in Node : /\ deg0[n] = Cardinality(Unresolved(n, {})) /\ deg0[n] \in Nat
  <2>1. \A n \in Node : Unresolved(n, {}) = Incoming(n) BY DEF Unresolved
  <2> QED BY <2>1, EdgesFinite DEF InDegree
<1>4. \A n \in Node : /\ deg1[n] = Cardinality(Unresolved(n, S)) /\ deg1[n] \in Nat
                       /\ deg1[n] = deg0[n] - Cardinality(Resolved(n, S))
                       /\ Cardinality(Resolved(n, S)) \in Nat
  <2> TAKE n \in Node
  <2>1. deg1[n] = deg0[n] - Cardinality(Resolved(n, S)) BY DEF AdvanceDegrees
  <2>2. {} \cup S = S /\ {} \cap S = {} OBVIOUS
  <2>3. /\ Cardinality(Unresolved(n, {})) - Cardinality(Resolved(n, S))
              = Cardinality(Unresolved(n, S))
        /\ Cardinality(Unresolved(n, S)) \in Nat /\ Cardinality(Resolved(n, S)) \in Nat
    BY <2>2, CountAfter
  <2> HIDE DEF deg1, deg0
  <2> QED BY <1>3, <2>1, <2>3
<1>5. \A n \in Node : /\ deg2[n] = Cardinality(Unresolved(n, T)) /\ deg2[n] \in Nat
                       /\ deg2[n] = deg1[n] - Cardinality(Resolved(n, I))
                       /\ Cardinality(Resolved(n, I)) \in Nat
  <2> TAKE n \in Node
  <2>1. deg2[n] = deg1[n] - Cardinality(Resolved(n, I)) BY DEF AdvanceDegrees
  <2>3. /\ Cardinality(Unresolved(n, S)) - Cardinality(Resolved(n, I))
              = Cardinality(Unresolved(n, T))
        /\ Cardinality(Unresolved(n, T)) \in Nat /\ Cardinality(Resolved(n, I)) \in Nat
    BY <1>1, CountAfter
  <2> HIDE DEF deg2, deg1, I, T
  <2> QED BY <1>4, <2>1, <2>3
<1>6. SettledNodes' = S \cup I
  BY <1>1, <1>2 DEF SettledNodes, Settled
<1>7. ASSUME NEW n \in readyIDs'
      PROVE  n \in Node /\ n \notin S \cup I /\ \A e \in Incoming(n) : Source[e] \in S \cup I
  <2>1. n \in HitsZero(deg0, S) \/ n \in HitsZero(deg1, I) \/ n \in retried
    BY <1>2
  <2>2. n \in Node
    BY <1>1, <2>1 DEF HitsZero
  <2>3. n \notin S \cup I BY <1>2
  <2>4. CASE n \in HitsZero(deg0, S)
    <3>1. deg0[n] <= Cardinality(Resolved(n, S)) BY <2>4 DEF HitsZero
    <3>2. Cardinality(Unresolved(n, S)) <= 0
      <4> HIDE DEF deg0, deg1
      <4> QED BY <1>3, <1>4, <2>2, <3>1
    <3> QED BY <2>2, <2>3, <3>2, NoneUnresolved
  <2>5. CASE n \in HitsZero(deg1, I)
    <3>1. deg1[n] <= Cardinality(Resolved(n, I)) BY <2>5 DEF HitsZero
    <3>2. Cardinality(Unresolved(n, T)) <= 0
      <4> HIDE DEF deg1, deg2, I, T
      <4> QED BY <1>4, <1>5, <2>2, <3>1
    <3> QED BY <2>2, <2>3, <3>2, NoneUnresolved
  <2>6. CASE n \in retried
    <3>1. deg2[n] = 0 BY <2>6
    <3>2. Cardinality(Unresolved(n, T)) <= 0
      <4> HIDE DEF deg1, deg2, I, T, retried
      <4> QED BY <1>5, <2>2, <3>1
    <3> QED BY <2>2, <2>3, <3>2, NoneUnresolved
  <2> QED BY <2>1, <2>4, <2>5, <2>6
<1>8. IsFiniteSet(I) /\ Cardinality(I) \in Nat
  BY <1>1, FS_Subset, FS_CardinalityType, PlanAssumption
<1>9. \A n \in I : version + 1 \in 1..version'
  <2>1. \A n \in I : Cardinality(I) # 0 BY <1>8, FS_EmptySet
  <2> QED BY <1>2, <1>8, <2>1 DEF IInv, TypeOK
<1>10. TypeOK'
  <2>1. deg0 \in [Node -> Int] BY <1>3
  <2>2. deg2 \in [Node -> Int] BY <2>1, AdvanceTypes
  <2>3. AdvanceActive(act1, I, I, branch) \in [Node -> Int]
    BY AdvanceTypes
  <2>4. status' \in [Node -> Status] BY <1>2 DEF IInv, TypeOK, Status
  <2>5. sequence' \in [Node -> Nat] /\ version' \in Nat
    BY <1>2, <1>8 DEF IInv, TypeOK
  <2>6. readyIDs' \subseteq Node BY <1>7
  <2> QED BY <1>2, <2>2, <2>3, <2>4, <2>5, <2>6
         DEF IInv, TypeOK, Resume, NoCheckpoint, Results
<1>11. CounterInv'
  BY <1>2, <1>5, <1>6 DEF CounterInv
<1>12. \A n \in I : \A e \in Incoming(n) : Source[e] \in S
  BY DEF IInv, PredInv
<1>13. PredInv'
  <2>1. \A n \in S : \A e \in Incoming(n) : Source[e] \in S BY DEF IInv, PredInv
  <2> HIDE DEF S, I
  <2> QED BY <1>2, <1>6, <1>7, <1>12, <2>1 DEF PredInv
<1>14. ReadyInv'
  BY <1>2, <1>6, <1>7 DEF ReadyInv
<1>15. SlotInv'
  BY <1>2 DEF SlotInv
<1>16. BoardInv'
  <2>1. ASSUME NEW n \in Succeeded' PROVE sequence'[n] \in 1..version'
    <3>1. n \in Node /\ status'[n] = "success" BY DEF Succeeded
    <3>2. CASE n \in I
      BY <1>2, <1>9, <3>1, <3>2
    <3>3. CASE n \notin I
      <4>1. n \in Succeeded /\ sequence'[n] = sequence[n]
        BY <1>2, <3>1, <3>3 DEF Succeeded
      <4>2. sequence[n] \in 1..version BY <4>1 DEF IInv, BoardInv
      <4>3. version \in Nat BY DEF IInv, TypeOK
      <4> QED BY <1>2, <1>8, <4>1, <4>2, <4>3
    <3> QED BY <3>2, <3>3
  <2> QED BY <1>2, <2>1 DEF BoardInv
<1> QED BY <1>10, <1>11, <1>13, <1>14, <1>15, <1>16 DEF IInv

-----------------------------------------------------------------------------
(* The theorems *)

\* Every step preserves the invariant.
LEMMA StepIInv == IInv /\ [Next]_vars => IInv'
<1> SUFFICES ASSUME IInv, [Next]_vars PROVE IInv' OBVIOUS
<1>1. CASE Coordinate
  BY <1>1, StartWaveIInv, CommitHookFailsIInv, StopWaveIInv, AdvanceWaveIInv,
     ReturnPreparedIInv DEF Coordinate
<1>2. CASE \E n \in Node : NodeStep(n) BY <1>2, NodeStepIInv
<1>3. CASE \E e \in {"canceled", "timed_out"} : ContextDone(e)
  BY <1>3, ContextDoneIInv
<1>4. CASE Resume BY <1>4, ResumeIInv
<1>5. CASE UNCHANGED vars
  BY <1>5 DEF vars, counters, board, IInv, TypeOK, CounterInv, PredInv, ReadyInv,
     SlotInv, BoardInv, SettledNodes, Succeeded
<1> QED BY <1>1, <1>2, <1>3, <1>4, <1>5 DEF Next

\* The strengthening behind every result below: the counters of the current
\* scheduler count the unsettled predecessors, before and after any resume.
THEOREM InductiveInvariant == Spec => []IInv
BY InitIInv, StepIInv, PTL DEF Spec

\* Type correctness of the scheduler for every plan.
THEOREM TypeCorrect == Spec => []TypeOK
<1>1. IInv => TypeOK BY DEF IInv
<1> QED BY <1>1, InductiveInvariant, PTL

\* executeWave never hands a handler a view in which a predecessor is
\* undecided or its output is missing, for every plan, any number of resumes.
THEOREM InputsAlwaysVisible == Spec => []InputsVisible
<1>1. IInv => InputsVisible
  <2> SUFFICES ASSUME IInv, NEW n \in slots, NEW e \in Incoming(n)
               PROVE  \/ status[Source[e]] = "skipped"
                      \/ status[Source[e]] = "success" /\ sequence[Source[e]] \in 1..view
    BY DEF InputsVisible
  <2>1. n \in readyIDs /\ view = version BY DEF IInv, SlotInv, BoardInv
  <2>2. Source[e] \in SettledNodes BY <2>1 DEF IInv, PredInv
  <2> QED BY <2>1, <2>2 DEF SettledNodes, Settled, Succeeded, IInv, BoardInv
<1> QED BY <1>1, InductiveInvariant, PTL

\* A settled node keeps its trace and its blackboard event for ever: no wave
\* and no resume executes it again.
THEOREM SettledStaysFinal == Spec => SettledIsFinal
<1> DEFINE Keeps == \A n \in Node : status[n] \in Settled =>
                      /\ status'[n] = status[n] /\ attempt'[n] = attempt[n]
                      /\ sequence'[n] = sequence[n] /\ branch'[n] = branch[n]
                      /\ n \notin slots'
<1>1. ASSUME IInv, IInv', [Next]_vars PROVE [Keeps]_vars
  <2> SUFFICES ASSUME NEW m \in Node, status[m] \in Settled, Next
               PROVE  /\ status'[m] = status[m] /\ attempt'[m] = attempt[m]
                      /\ sequence'[m] = sequence[m] /\ branch'[m] = branch[m]
    <3>1. \A n \in Node : status'[n] \in Settled => n \notin slots'
      BY <1>1 DEF IInv, SlotInv, Settled
    <3> QED BY <1>1, <3>1
  <2>1. m \in SettledNodes BY DEF SettledNodes
  <2>2. CASE \E n \in Node : NodeStep(n)
    <3> PICK n \in Node : NodeStep(n) BY <2>2
    <3>1. n \notin SettledNodes
      BY <1>1, NodeStepEffect DEF IInv, ReadyInv
    <3> QED BY <1>1, <2>1, <3>1, NodeStepEffect DEF nodeUnchanged, board
  <2>3. CASE CommitHookFails \/ StopWave \/ AdvanceWave
    <3>1. WaveDone /\ RecordWave
      BY <2>3 DEF CommitHookFails, StopWave, AdvanceWave
    <3> QED BY <1>1, <2>1, <3>1, RecordWaveEffect DEF RecordWave
  <2>4. CASE StartWave \/ ReturnPrepared \/ \E e \in {"canceled", "timed_out"} : ContextDone(e)
    BY <2>4 DEF StartWave, ReturnPrepared, ContextDone, board
  <2>5. CASE Resume
    <3>1. m \notin checkpoint.node BY <1>1, <2>1 DEF IInv, ReadyInv
    <3> QED BY <2>5, <3>1 DEF Resume, RestoredTraces
  <2> QED BY <2>2, <2>3, <2>4, <2>5 DEF Next, Coordinate
<1> QED BY <1>1, InductiveInvariant, PTL DEF Spec, SettledIsFinal
=============================================================================
