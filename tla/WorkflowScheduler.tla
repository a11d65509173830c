------------------------- MODULE WorkflowScheduler -------------------------
(***************************************************************************)
(* The wave scheduler of the agent workflow engine                         *)
(* (internal/module/agent/workflow/engine): Execute and                    *)
(* ExecuteFromCheckpoint run a compiled DAG in topological waves.  The     *)
(* ready nodes of a wave run in goroutines bounded by a semaphore and read *)
(* one immutable blackboard generation; the coordinator waits for all of   *)
(* them, sorts the results, applies them to the blackboard, records the    *)
(* traces, and then either returns (suspension, error, cancelled context)  *)
(* or advances the in-degree counters to find the next wave.  A suspended  *)
(* run is resumed from its checkpoint by a new Scheduler, which replays    *)
(* the counters from the traces.                                           *)
(*                                                                         *)
(* A node's delta and the declared state writes that follow it are one     *)
(* blackboard event here; the payload of an output is only the "_branch"   *)
(* a router chooses.                                                       *)
(***************************************************************************)
EXTENDS Integers, FiniteSets

CONSTANTS
    Node,               \* nodes of the compiled plan
    Edge,               \* edge identities (parallel edges are distinct)
    Source, Target,     \* [Edge -> Node]
    SourceHandle,       \* [Edge -> Branch]
    NodeType,           \* [Node -> {"router", "wait", "tool"}]
    NodeOrder,          \* [Node -> Nat], declaration order, injective
    Branch,             \* branch names a router may choose
    NoBranch,           \* the empty handle, and "no _branch in the output"
    MaxAttempts,        \* [Node -> Nat \ {0}], normalised retry policy
    MaxParallelNodes,   \* 0: no limit
    MaxSteps,           \* node execution budget, 0: no limit
    MaxResumes          \* bound on the number of resumes explored

ASSUME PlanAssumption ==
    /\ IsFiniteSet(Node) /\ IsFiniteSet(Edge)
    /\ Source \in [Edge -> Node] /\ Target \in [Edge -> Node]
    /\ NoBranch \notin Branch
    /\ SourceHandle \in [Edge -> Branch \cup {NoBranch}]
    /\ NodeType \in [Node -> {"router", "wait", "tool"}]
    /\ NodeOrder \in [Node -> Nat]
    /\ \A m, n \in Node : NodeOrder[m] = NodeOrder[n] => m = n
    /\ MaxAttempts \in [Node -> Nat \ {0}]
    /\ MaxParallelNodes \in Nat /\ MaxSteps \in Nat /\ MaxResumes \in Nat

VARIABLES
    status,         \* trace status of every node
    attempt,        \* trace attempt of every node
    inDegrees,      \* currentInDegree: unresolved incoming edges
    activeInputs,   \* live incoming edges seen so far
    readyIDs,       \* the current wave
    phase,          \* "prepared", "wave", "returned"
    slots,          \* nodes holding the wave's semaphore
    result,         \* what each node of the wave returned, "none" if pending
    output,         \* "_branch" in the returned outputs
    branch,         \* "_branch" of the node's blackboard namespace
    sequence,       \* blackboard event sequence of the node's delta, 0: none
    version,        \* blackboard version
    view,           \* blackboard version the wave reads
    ctxErr,         \* ctx.Err(): "none", "canceled", "timed_out"
    steps,          \* budget: node executions admitted
    outcome,        \* what the scheduler returned
    checkpoint,     \* CurrentNodeID and RetryCurrentNode of the suspension
    resumes         \* resumes so far (bounded by MaxResumes)

counters == <<inDegrees, activeInputs>>
board == <<branch, sequence, version>>
vars == <<status, attempt, counters, readyIDs, phase, slots, result, output,
          board, view, ctxErr, steps, outcome, checkpoint, resumes>>

-----------------------------------------------------------------------------
(* Node state machine (node_state.go) *)

Status == {"pending", "running", "retrying", "success", "failed", "skipped",
           "suspended", "canceled", "timed_out"}

nodeStateTransitions ==
    [s \in Status |->
       CASE s = "pending"   -> {"running", "skipped", "canceled", "timed_out"}
         [] s = "running"   -> {"retrying", "success", "failed", "suspended",
                                "canceled", "timed_out"}
         [] s = "retrying"  -> {"running", "failed", "canceled", "timed_out"}
         [] s = "suspended" -> {"running", "success", "canceled"}
         [] OTHER           -> {}]

validateNodeStateTransition(current, next) ==
    current = next \/ next \in nodeStateTransitions[current]

\* Traces a checkpoint treats as terminal.
Settled == {"success", "skipped"}

-----------------------------------------------------------------------------
(* The compiled plan (ir/compiler.go) *)

Incoming(n) == {e \in Edge : Target[e] = n}
InDegree(n) == Cardinality(Incoming(n))
Roots == {n \in Node : Incoming(n) = {}}

\* What deterministicTopologicalOrder accepts: plans in which every non-empty set
\* of nodes has one that depends on none of the set.
Acyclic ==
    \A S \in (SUBSET Node) \ {{}} : \E n \in S : \A e \in Incoming(n) : Source[e] \notin S

\* advanceDownstream: is edge e active, given the "_branch" of its source?
EdgeActive(e, executed, b) ==
    /\ executed
    /\ ~ (/\ NodeType[Source[e]] = "router"
          /\ b # NoBranch
          /\ SourceHandle[e] # b)

\* One advanceDownstream per node of S on top of the counters deg and act.
Resolved(n, S) == {e \in Incoming(n) : Source[e] \in S}
ActiveResolved(n, S, executed, b) ==
    {e \in Resolved(n, S) : EdgeActive(e, Source[e] \in executed, b[Source[e]])}

AdvanceDegrees(deg, S) ==
    [n \in Node |-> deg[n] - Cardinality(Resolved(n, S))]
AdvanceActive(act, S, executed, b) ==
    [n \in Node |-> act[n] + Cardinality(ActiveResolved(n, S, executed, b))]
\* faults: a node becomes ready with its first resolved input; parallel edges
\* from one source are counted once
HitsZeroEarly(deg, S) == {n \in Node : deg[n] > 0 /\ Resolved(n, S) # {}}
HitsZeroPerSource(deg, S) ==
    {n \in Node : /\ deg[n] > 0
                  /\ deg[n] <= Cardinality({Source[e] : e \in Resolved(n, S)})}
\* nodes whose counter is decremented to exactly zero on the way
HitsZero(deg, S) ==
    {n \in Node : deg[n] > 0 /\ deg[n] <= Cardinality(Resolved(n, S))}

-----------------------------------------------------------------------------
Results == {"none", "ok", "unwritable", "skipped", "error", "wait", "approval",
            "canceled", "timed_out"}
Suspensions == {"wait", "approval"}

\* Execute: the initial inputs are event 1, roots get one active input.
Init ==
    /\ status = [n \in Node |-> "pending"]
    /\ attempt = [n \in Node |-> 0]
    /\ inDegrees = [n \in Node |-> InDegree(n)]
    /\ activeInputs = [n \in Node |-> IF n \in Roots THEN 1 ELSE 0]
    /\ readyIDs = Roots
    /\ phase = "prepared"
    /\ slots = {}
    /\ result = [n \in Node |-> "none"]
    /\ output = [n \in Node |-> NoBranch]
    /\ branch = [n \in Node |-> NoBranch]
    /\ sequence = [n \in Node |-> 0]
    /\ version = 1
    /\ view = 0
    /\ ctxErr = "none"
    /\ steps = 0
    /\ outcome = "none"
    /\ checkpoint = [node |-> {}, retry |-> FALSE]
    /\ resumes = 0

-----------------------------------------------------------------------------
(* One wave: executeWave and the node goroutines *)

\* fault: a join runs only if all its inputs are live
isSkippedUnlessAllLive(n) == activeInputs[n] < InDegree(n)
isSkipped(n) == activeInputs[n] = 0 /\ InDegree(n) > 0

\* executeWave: take the view, answer the skipped nodes, start the others.
StartWave ==
    /\ phase = "prepared" /\ readyIDs # {}
    /\ phase' = "wave"
    /\ view' = version
    /\ result' = [n \in Node |-> IF n \in readyIDs /\ isSkipped(n)
                                 THEN "skipped" ELSE "none"]
    /\ output' = [n \in Node |-> NoBranch]
    /\ UNCHANGED <<status, attempt, counters, readyIDs, slots, board, ctxErr,
                   steps, outcome, checkpoint, resumes>>

Parallelism ==
    IF MaxParallelNodes = 0 \/ MaxParallelNodes > Cardinality(readyIDs)
    THEN Cardinality(readyIDs) ELSE MaxParallelNodes

Waiting(n) ==
    phase = "wave" /\ n \in readyIDs /\ result[n] = "none" /\ n \notin slots
Executing(n) == n \in slots /\ status[n] = "running"
BackingOff(n) == n \in slots /\ status[n] = "retrying"

\* fault: the slot is not released
FinishKeepingSlot(n, r) ==
    /\ result' = [result EXCEPT ![n] = r]
    /\ slots' = slots \cup {n}
\* The goroutine of n leaves executeNode with r and frees its slot.
Finish(n, r) ==
    /\ result' = [result EXCEPT ![n] = r]
    /\ slots' = slots \ {n}

\* One turn of executeNode's loop: markNodeAttempt, then AdmitStep.
Attempt(n, k) ==
    IF ~ validateNodeStateTransition(status[n], "running")
    THEN /\ Finish(n, "error")
         /\ UNCHANGED <<status, attempt, steps>>
    ELSE /\ status' = [status EXCEPT ![n] = "running"]
         /\ attempt' = [attempt EXCEPT ![n] = k]
         /\ IF MaxSteps > 0 /\ steps >= MaxSteps
            THEN Finish(n, "error") /\ UNCHANGED steps
            ELSE /\ steps' = steps + 1
                 /\ slots' = slots \cup {n}
                 /\ UNCHANGED result

nodeUnchanged == <<counters, readyIDs, phase, board, view, ctxErr, outcome,
                   checkpoint, resumes>>

\* The goroutine gets the semaphore and makes its first attempt.
AcquireSlot(n) ==
    /\ Waiting(n)
    /\ Cardinality(slots) < Parallelism
    /\ Attempt(n, 1)
    /\ UNCHANGED <<nodeUnchanged, output>>

\* ctx.Done() wins the select on the semaphore.
CanceledWaiting(n) ==
    /\ Waiting(n) /\ ctxErr # "none"
    /\ Finish(n, ctxErr)
    /\ UNCHANGED <<nodeUnchanged, output, status, attempt, steps>>

\* The handler returns outputs: a router with its branch, a tool with or
\* without the fields its declared state writes need.
ExecuteOk(n, r, b) ==
    /\ Executing(n)
    /\ \/ NodeType[n] = "router" /\ r = "ok" /\ b \in Branch
       \/ NodeType[n] = "tool" /\ r \in {"ok", "unwritable"} /\ b = NoBranch
    /\ Finish(n, r)
    /\ output' = [output EXCEPT ![n] = b]
    /\ UNCHANGED <<nodeUnchanged, status, attempt, steps>>

\* The handler suspends: a wait node always, a tool that needs an approval.
ExecuteSuspend(n, r) ==
    /\ Executing(n) /\ ctxErr = "none"
    /\ \/ NodeType[n] = "wait" /\ r = "wait"
       \/ NodeType[n] = "tool" /\ r = "approval"
    /\ Finish(n, r)
    /\ UNCHANGED <<nodeUnchanged, output, status, attempt, steps>>

\* The handler fails for good: not retryable, attempts exhausted or a panic.
ExecuteError(n) ==
    /\ Executing(n) /\ NodeType[n] = "tool" /\ ctxErr = "none"
    /\ Finish(n, "error")
    /\ UNCHANGED <<nodeUnchanged, output, status, attempt, steps>>

\* A retryable error with attempts left: markNodeRetrying, then the backoff.
ExecuteRetryable(n) ==
    /\ Executing(n) /\ NodeType[n] = "tool" /\ ctxErr = "none"
    /\ attempt[n] < MaxAttempts[n]
    /\ status' = [status EXCEPT ![n] = "retrying"]
    /\ UNCHANGED <<nodeUnchanged, output, attempt, steps, slots, result>>

\* An error of any kind (a suspension too) under a done context, and a
\* backoff the context interrupts, come back as the context's error.
ContextError(n) ==
    /\ (Executing(n) /\ NodeType[n] # "router") \/ BackingOff(n)
    /\ ctxErr # "none"
    /\ Finish(n, ctxErr)
    /\ UNCHANGED <<nodeUnchanged, output, status, attempt, steps>>

\* The node's own timeout_sec expires while it executes or backs off.
NodeTimeout(n) ==
    /\ NodeType[n] = "tool" /\ (Executing(n) \/ BackingOff(n))
    /\ Finish(n, "timed_out")
    /\ UNCHANGED <<nodeUnchanged, output, status, attempt, steps>>

RetryAttempt(n) ==
    /\ BackingOff(n)
    /\ Attempt(n, attempt[n] + 1)
    /\ UNCHANGED <<nodeUnchanged, output>>

\* The run is cancelled, or the budget's timeout expires.
ContextDone(e) ==
    /\ phase # "returned" /\ ctxErr = "none"
    /\ ctxErr' = e
    /\ UNCHANGED <<status, attempt, counters, readyIDs, phase, slots, result,
                   output, board, view, steps, outcome, checkpoint, resumes>>

-----------------------------------------------------------------------------
(* After the wave: executePrepared *)

\* recordResult: the trace status a result asks for.
RecordedStatus(r) ==
    CASE r = "skipped"                   -> "skipped"
      [] r = "ok"                        -> "success"
      [] r \in Suspensions               -> "suspended"
      [] r \in {"canceled", "timed_out"} -> r
      [] r \in {"error", "unwritable"}   -> "failed"

\* fault: the trace stores the handler's result unnormalised
recordResultRaw(n) == IF result[n] = "ok" THEN "success" ELSE result[n]
recordResult(n) ==
    LET next == RecordedStatus(result[n])
    IN  IF validateNodeStateTransition(status[n], next) THEN next ELSE status[n]

\* applyResultDelta for the successful results, in declaration order.
Applied == {n \in readyIDs : result[n] = "ok"}
\* fault: one version per wave
ApplyDeltasAtOnce ==
    /\ branch' = [n \in Node |-> IF n \in Applied THEN output[n] ELSE branch[n]]
    /\ sequence' = [n \in Node |-> IF n \in Applied THEN version + 1 ELSE sequence[n]]
    /\ version' = IF Applied = {} THEN version ELSE version + 1
\* fault: the results are not sorted (here: last declared first)
ApplyDeltasUnsorted ==
    /\ branch' = [n \in Node |-> IF n \in Applied THEN output[n] ELSE branch[n]]
    /\ sequence' =
         [n \in Node |->
            IF n \in Applied
            THEN version + Cardinality({m \in Applied : NodeOrder[m] >= NodeOrder[n]})
            ELSE sequence[n]]
    /\ version' = version + Cardinality(Applied)
ApplyDeltas ==
    /\ branch' = [n \in Node |-> IF n \in Applied THEN output[n] ELSE branch[n]]
    /\ sequence' =
         [n \in Node |->
            IF n \in Applied
            THEN version + Cardinality({m \in Applied : NodeOrder[m] <= NodeOrder[n]})
            ELSE sequence[n]]
    /\ version' = version + Cardinality(Applied)

\* selectWaveError: the results that stop the run.  A trace that refuses the
\* transition is an error too; an error equal to the context's is passed over.
NoError(n) == /\ result[n] \in {"ok", "skipped"}
              /\ validateNodeStateTransition(status[n], RecordedStatus(result[n]))
Stopping ==
    {n \in readyIDs : ~ NoError(n) /\ ~ (ctxErr # "none" /\ result[n] = ctxErr)}
Return(o, c) ==
    /\ phase' = "returned" /\ outcome' = o /\ checkpoint' = c
NoCheckpoint == [node |-> {}, retry |-> FALSE]

WaveDone == phase = "wave" /\ \A n \in readyIDs : result[n] # "none"

\* All results are in: apply and record them.
RecordWave ==
    /\ ApplyDeltas
    /\ status' = [n \in Node |-> IF n \in readyIDs THEN recordResult(n) ELSE status[n]]
    /\ UNCHANGED <<attempt, slots, result, output, view, ctxErr, steps, resumes>>

\* The state commit hook runs if the version advanced, and fails.
CommitHookFails ==
    /\ WaveDone /\ Applied # {}
    /\ RecordWave
    /\ Return("failed", NoCheckpoint)
    /\ UNCHANGED <<counters, readyIDs>>

\* The first stopping result decides: a suspension or a failure; without one
\* a done context does.
StopWave ==
    /\ WaveDone
    /\ RecordWave
    /\ \/ /\ Stopping = {} /\ ctxErr # "none"
          /\ Return(ctxErr, NoCheckpoint)
       \/ \E n \in Stopping :
            /\ \A m \in Stopping : NodeOrder[n] <= NodeOrder[m]
            /\ \/ /\ result[n] \in Suspensions
                  /\ Return("suspended", [node |-> {n}, retry |-> result[n] = "approval"])
               \/ /\ result[n] \notin Suspensions
                  /\ Return("failed", NoCheckpoint)
    /\ UNCHANGED <<counters, readyIDs>>

\* No error: advanceDownstream for every result, then the next wave.
AdvanceWave ==
    /\ WaveDone
    /\ Stopping = {} /\ ctxErr = "none"
    /\ RecordWave
    /\ inDegrees' = AdvanceDegrees(inDegrees, readyIDs)
    /\ activeInputs' = AdvanceActive(activeInputs, readyIDs,
                         {n \in readyIDs : result[n] # "skipped"}, output)
    /\ readyIDs' = HitsZero(inDegrees, readyIDs)
    /\ phase' = "prepared"
    /\ UNCHANGED <<outcome, checkpoint>>

\* Nothing is ready any more: success, or the stall check fails.
Stalled == \E n \in Node : status[n] \notin Settled
ReturnPrepared ==
    /\ phase = "prepared" /\ readyIDs = {}
    /\ Return(IF Stalled THEN "stalled" ELSE "success", NoCheckpoint)
    /\ UNCHANGED <<status, attempt, counters, readyIDs, slots, result, output,
                   board, view, ctxErr, steps, resumes>>

-----------------------------------------------------------------------------
(* ExecuteFromCheckpoint on a new Scheduler *)

SettledNodes == {n \in Node : status[n] \in Settled}
Succeeded == {n \in Node : status[n] = "success"}

\* fault: the new scheduler starts with fresh traces
RestoredTracesFresh(injected) ==
    [n \in Node |-> IF n \in injected THEN "success" ELSE "pending"]
\* The traces of the checkpoint, with markNodeSuccess for the injected node.
RestoredTraces(injected) ==
    [n \in Node |-> IF n \in injected THEN "success" ELSE status[n]]

\* Replay the settled nodes; then either inject the resume inputs as the
\* output of the suspended node, or put that node back in the ready set.
\* (Only wait nodes are injected, so the inputs never choose a branch, and a
\* suspended trace may become a success: the guard of markNodeSuccess holds.)
Resume ==
    /\ phase = "returned" /\ outcome = "suspended" /\ resumes < MaxResumes
    /\ LET current == checkpoint.node
           injected == IF checkpoint.retry THEN {} ELSE current
           deg0 == [n \in Node |-> InDegree(n)]
           deg1 == AdvanceDegrees(deg0, SettledNodes)
           deg2 == AdvanceDegrees(deg1, injected)
           act1 == AdvanceActive([n \in Node |-> 0], SettledNodes, Succeeded, branch)
           retried == {n \in current : checkpoint.retry /\ deg2[n] = 0}
       IN  /\ status' = RestoredTraces(injected)
           /\ sequence' = [n \in Node |-> IF n \in injected THEN version + 1
                                          ELSE sequence[n]]
           /\ version' = version + Cardinality(injected)
           /\ inDegrees' = deg2
           /\ activeInputs' = AdvanceActive(act1, injected, injected, branch)
           /\ readyIDs' = (HitsZero(deg0, SettledNodes) \cup HitsZero(deg1, injected)
                             \cup retried) \ (SettledNodes \cup injected)
    /\ phase' = "prepared" /\ outcome' = "none" /\ checkpoint' = NoCheckpoint
    /\ ctxErr' = "none"
    /\ slots' = {}
    /\ result' = [n \in Node |-> "none"]
    /\ resumes' = resumes + 1
    /\ UNCHANGED <<attempt, output, branch, view, steps>>

-----------------------------------------------------------------------------
NodeStep(n) ==
    \/ AcquireSlot(n)
    \/ CanceledWaiting(n)
    \/ \E r \in {"ok", "unwritable"}, b \in Branch \cup {NoBranch} : ExecuteOk(n, r, b)
    \/ \E r \in Suspensions : ExecuteSuspend(n, r)
    \/ ExecuteError(n)
    \/ ExecuteRetryable(n)
    \/ ContextError(n)
    \/ NodeTimeout(n)
    \/ RetryAttempt(n)

Coordinate ==
    StartWave \/ CommitHookFails \/ StopWave \/ AdvanceWave \/ ReturnPrepared

Next ==
    \/ Coordinate
    \/ \E n \in Node : NodeStep(n)
    \/ \E e \in {"canceled", "timed_out"} : ContextDone(e)
    \/ Resume

\* Go schedules every runnable goroutine, and handlers return (they have a
\* context and timeouts); cancelling and resuming are up to the user.
Fairness == WF_vars(Coordinate) /\ \A n \in Node : WF_vars(NodeStep(n))

Spec == Init /\ [][Next]_vars
FairSpec == Spec /\ Fairness

-----------------------------------------------------------------------------
(* Properties *)

\* Traces hold declared node statuses only, whatever the handlers return, and
\* counters, blackboard and checkpoint keep their shape over waves and resumes.
TypeOK ==
    /\ status \in [Node -> Status]
    /\ attempt \in [Node -> Nat]
    /\ inDegrees \in [Node -> Int]
    /\ activeInputs \in [Node -> Int]
    /\ readyIDs \subseteq Node
    /\ phase \in {"prepared", "wave", "returned"}
    /\ slots \subseteq Node
    /\ result \in [Node -> Results]
    /\ output \in [Node -> Branch \cup {NoBranch}]
    /\ branch \in [Node -> Branch \cup {NoBranch}]
    /\ sequence \in [Node -> Nat]
    /\ version \in Nat /\ view \in Nat /\ steps \in Nat /\ resumes \in Nat
    /\ ctxErr \in {"none", "canceled", "timed_out"}
    /\ outcome \in {"none", "success", "suspended", "failed", "canceled",
                    "timed_out", "stalled"}
    /\ checkpoint \in [node : SUBSET Node, retry : BOOLEAN]

\* While a handler runs, every predecessor is settled, and the generation the
\* wave reads holds the output of each predecessor that succeeded: neither the
\* counters nor their replay on resume may start a node early.
InputsVisible ==
    \A n \in slots : \A e \in Incoming(n) :
        LET m == Source[e]
        IN  \/ status[m] = "skipped"
            \/ status[m] = "success" /\ sequence[m] \in 1..view

\* A node is skipped exactly when no incoming edge is live: a join behind a
\* router runs if one branch reaches it, also when activeInputs was rebuilt
\* from the blackboard after a resume.
LiveEdge(e) == EdgeActive(e, status[Source[e]] = "success", branch[Source[e]])
SkipsDeadPathsOnly ==
    \A n \in Node :
        LET dead == Incoming(n) # {} /\ \A e \in Incoming(n) : ~ LiveEdge(e)
        IN  /\ status[n] = "skipped" => dead
            /\ status[n] \in Status \ {"pending", "skipped", "canceled", "timed_out"}
                 => ~ dead

\* The event stream can be replayed: sequence numbers have no gap and no
\* duplicate, exactly the successful nodes have one, and an event never comes
\* before the event of a node it depends on.
EventsReplayable ==
    LET applied == {n \in Node : sequence[n] # 0}
    IN  /\ {sequence[n] : n \in applied} = 2..version
        /\ Cardinality(applied) = version - 1
        /\ applied = Succeeded
        /\ \A e \in Edge : {Source[e], Target[e]} \subseteq applied
              => sequence[Source[e]] < sequence[Target[e]]

\* The sequence numbers of one wave follow the declaration order, whatever
\* order the goroutines finished in.
DeclarationOrder ==
    [][\A m, n \in Node :
         (/\ sequence[m] = 0 /\ sequence'[m] # 0
          /\ sequence[n] = 0 /\ sequence'[n] # 0
          /\ NodeOrder[m] < NodeOrder[n]) => sequence'[m] < sequence'[n]]_vars

\* A settled node is never executed, recorded or applied again, neither in a
\* later wave nor by a resumed run.
SettledIsFinal ==
    [][\A n \in Node : status[n] \in Settled =>
         /\ status'[n] = status[n] /\ attempt'[n] = attempt[n]
         /\ sequence'[n] = sequence[n] /\ branch'[n] = branch[n]
         /\ n \notin slots']_vars

\* The run never ends with nodes nobody will execute: a plan whose nodes all
\* succeed or suspend completes through its resumes.
NeverStalls == outcome # "stalled"

\* Every started wave, however its handlers end, leads to a return; with the
\* semaphore smaller than the wave too.
EventuallyReturns == phase = "wave" ~> phase = "returned"
=============================================================================
