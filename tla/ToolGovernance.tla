--------------------------- MODULE ToolGovernance ---------------------------
(***************************************************************************)
(* One governed tool of the agent service: Executor.execute                *)
(* (agent/workflow/tool/executor.go) with the three stores it talks to.    *)
(*                                                                         *)
(*  - the approval a human gives for one invocation (PersistentApprovalGate*)
(*    and the approval collection of repository/tool_governance.go);       *)
(*  - the idempotency record of a key, which a call claims under a lease   *)
(*    and in which the result is committed (PersistentToolResultStore and  *)
(*    the execution collection), with large results in an object store;    *)
(*  - the circuit breaker of the tool, in the memory of the process.       *)
(*                                                                         *)
(* Every access to a store is a step of its own and may fail: a context    *)
(* that was canceled, or a database that is away, makes the write fail and *)
(* the executor goes on (failIdempotency and releaseApproval only log).    *)
(* The process may die between any two steps.  Time is not counted: an     *)
(* approval, a lease or the open period of the breaker may run out at any  *)
(* moment, because a call may take any time between two of its steps.      *)
(***************************************************************************)
EXTENDS Naturals, FiniteSets

CONSTANTS
    Callers,        \* concurrent calls of Execute
    Keys,           \* idempotency keys: one execution record each
    Digests,        \* digests of the inputs a call may come with
    Values,         \* results a handler may compute from one input
    Large,          \* those that are archived in the object store
    NeedsApproval,  \* spec.RequiresApproval()
    NeedsKey,       \* spec.Idempotency.Required
    MaxAttempts,    \* policy.MaxAttempts after normalisation
    Threshold,      \* FailureThreshold of the breaker
    MaxCalls        \* bound: calls one caller makes

ASSUME GovernanceAssumption ==
    /\ Large \subseteq Values
    /\ NeedsApproval \in BOOLEAN /\ NeedsKey \in BOOLEAN
    /\ MaxAttempts \in Nat \ {0} /\ Threshold \in Nat \ {0} /\ MaxCalls \in Nat

VARIABLES
    approval,   \* approval[k][d]: the request of one invocation
    exec,       \* exec[k]: the execution record of a key
    objects,    \* the archived results, by key and content
    breaker,    \* circuitEntry of the tool
    call,       \* call[c]: the activation record of Executor.execute
    answers     \* history: the results returned to callers

vars == <<approval, exec, objects, breaker, call, answers>>

(* A claim writes a fresh attempt id; a caller and the number of its call  *)
(* stand for it.  NoAttempt is the empty id.                               *)
Attempts == Callers \X Nat
NoAttempt == <<>>
Outputs == Digests \X Values
NoOutput == <<>>
Archived(out) == out[2] \in Large

Approvals == [status : {"none", "pending", "approved", "rejected", "executing",
                        "consumed", "expired"},
              attempt : Attempts \cup {NoAttempt},
              decision : {"none", "approved", "rejected"},  \* what the user decided
              leased : BOOLEAN,      \* execution_lease_until > now
              live : BOOLEAN]        \* expires_at > now
Executions == [status : {"none", "executing", "succeeded", "failed"},
               digest : Digests \cup {NoOutput},
               attempt : Attempts \cup {NoAttempt},
               leased : BOOLEAN,     \* lease_until > now
               out : Outputs \cup {NoOutput}]
Breakers == [state : {"closed", "open", "half_open"}, failures : 0 .. Threshold,
             probing : BOOLEAN,      \* halfOpenInFlight
             cooled : BOOLEAN]       \* now - openedAt >= openTimeout
Places == {"idle", "authorize", "request", "claim", "reclaim", "load", "allow",
           "run", "backoff", "archive", "complete", "discard", "fail",
           "release", "finish"}
Calls == [pc : Places, n : Nat, key : Keys, digest : Digests,
          tries : 1 .. MaxAttempts, out : Outputs \cup {NoOutput},
          late : BOOLEAN]     \* its execution lease has run out

Attempt(c) == <<c, call[c].n>>
At(c, pc) == call[c].pc = pc
Goto(c, pc) == call' = [call EXCEPT ![c].pc = pc]
(* The locals of a call that ended are gone.                               *)
Idle(r) == [r EXCEPT !.pc = "idle", !.tries = 1, !.out = NoOutput, !.late = FALSE]
Return(c) == call' = [call EXCEPT ![c] = Idle(call[c])]

Requested(status) == [status |-> status, attempt |-> NoAttempt, decision |-> "none",
                      leased |-> FALSE, live |-> TRUE]

Unclaimed(status, digest) == [status |-> status, digest |-> digest,
                              attempt |-> NoAttempt, leased |-> FALSE, out |-> NoOutput]

Closed == [state |-> "closed", failures |-> 0, probing |-> FALSE, cooled |-> FALSE]

(* Earlier calls may have asked for the approval, or failed with the key.  *)
Init ==
    /\ approval \in [Keys -> [Digests -> {Requested("none"), Requested("pending")}]]
    /\ exec \in [Keys -> {Unclaimed("none", NoOutput)} \cup
                        {Unclaimed("failed", d) : d \in Digests}]
    /\ objects = {}
    /\ breaker = Closed
    /\ call \in [Callers -> [pc : {"idle"}, n : {0}, key : Keys, digest : Digests,
                             tries : {1}, out : {NoOutput}, late : {FALSE}]]
    /\ answers = {}

-----------------------------------------------------------------------------
(* The circuit breaker                                                     *)

Admits(b) == \/ b.state = "closed"
             \/ b.state = "open" /\ b.cooled
             \/ b.state = "half_open" /\ ~b.probing

AfterAllow(b) == IF b.state = "closed" THEN b
                 ELSE [b EXCEPT !.state = "half_open", !.probing = TRUE]

(* failures is only compared with the threshold: it is counted up to it.   *)
AfterFailure(b) ==
    LET failures == IF b.failures = Threshold THEN Threshold ELSE b.failures + 1 IN
    IF b.state = "half_open" \/ failures >= Threshold
    THEN [state |-> "open", failures |-> failures, probing |-> FALSE, cooled |-> FALSE]
    ELSE [b EXCEPT !.failures = failures]

-----------------------------------------------------------------------------
(* A call, from the request to its answer                                  *)

(* Identity, schema and guardrail checks have passed.                      *)
Execute(c, k, d) ==
    /\ At(c, "idle") /\ call[c].n < MaxCalls
    /\ call' = [call EXCEPT ![c] =
          [pc |-> IF NeedsApproval THEN "authorize" ELSE
                  IF NeedsKey THEN "claim" ELSE "allow",
           n |-> call[c].n + 1, key |-> k, digest |-> d, tries |-> 1,
           out |-> NoOutput, late |-> FALSE]]
    /\ UNCHANGED <<approval, exec, objects, breaker, answers>>

(* fault: the filter does not ask for the status.                          *)
ClaimableInAnyStatus(a) == a.live /\ a.status # "none" /\ (a.status = "executing" => ~a.leased)

(* ClaimApprovedToolApproval: an approved request, or one whose claimer    *)
(* outlived its lease.                                                     *)
Claimable(a) == a.live /\ (a.status = "approved" \/ (a.status = "executing" /\ ~a.leased))

Authorize(c) ==
    /\ At(c, "authorize")
    /\ LET a == approval[call[c].key][call[c].digest] IN
       \/ /\ Claimable(a)
          /\ approval' = [approval EXCEPT ![call[c].key][call[c].digest] =
                [a EXCEPT !.status = "executing", !.attempt = Attempt(c), !.leased = TRUE]]
          /\ Goto(c, IF NeedsKey THEN "claim" ELSE "allow")
       \/ ~Claimable(a) /\ Goto(c, "request") /\ UNCHANGED approval
       \/ Return(c) /\ UNCHANGED approval
    /\ UNCHANGED <<exec, objects, breaker, answers>>

(* CreateOrGetToolApproval: the call ends with approval_required either way*)
Request(c) ==
    /\ At(c, "request")
    /\ \/ /\ approval[call[c].key][call[c].digest].status = "none"
          /\ approval' = [approval EXCEPT ![call[c].key][call[c].digest] =
                Requested("pending")]
       \/ UNCHANGED approval
    /\ Return(c)
    /\ UNCHANGED <<exec, objects, breaker, answers>>

(* DecideToolApproval                                                      *)
Decide(k, d, decision) ==
    /\ approval[k][d].status = "pending" /\ approval[k][d].live
    /\ approval' = [approval EXCEPT ![k][d].status = decision, ![k][d].decision = decision]
    /\ UNCHANGED <<exec, objects, breaker, call, answers>>

(* fault: the stored digest is not compared.                               *)
SameInputUnchecked(e, c) == TRUE

(* The InputDigest of the record is that of the call.                      *)
SameInput(e, c) == e.digest = call[c].digest

Reclaimable(e) == e.status = "failed" \/ (e.status = "executing" /\ ~e.leased)
Claimed(e, c) == [e EXCEPT !.status = "executing", !.attempt = Attempt(c), !.leased = TRUE]

(* ClaimToolExecution up to its read: the insert wins, or the record that  *)
(* is there decides.  The approval is released before an error returns.    *)
Claim(c) ==
    /\ At(c, "claim")
    /\ LET k == call[c].key  e == exec[k] IN
       \/ /\ e.status = "none"
          /\ exec' = [exec EXCEPT ![k] = [Claimed(e, c) EXCEPT !.digest = call[c].digest]]
          /\ Goto(c, "allow")
       \/ /\ e.status # "none" /\ ~SameInput(e, c)
          /\ Goto(c, "release") /\ UNCHANGED exec
       \/ /\ e.status = "succeeded" /\ SameInput(e, c)
          /\ call' = [call EXCEPT ![c].out = e.out,
                                  ![c].pc = IF Archived(e.out) THEN "load" ELSE "finish"]
          /\ UNCHANGED exec
       \/ /\ e.status = "executing" /\ e.leased /\ SameInput(e, c)
          /\ Goto(c, "release") /\ UNCHANGED exec
       \/ /\ Reclaimable(e) /\ SameInput(e, c)
          /\ Goto(c, "reclaim") /\ UNCHANGED exec
       \/ Goto(c, "release") /\ UNCHANGED exec
    /\ UNCHANGED <<approval, objects, breaker, answers>>

(* fault: the update trusts the read and filters by the id only.           *)
ReclaimUnconditionally(c) ==
    /\ At(c, "reclaim")
    /\ exec' = [exec EXCEPT ![call[c].key] = Claimed(@, c)]
    /\ Goto(c, "allow")
    /\ UNCHANGED <<approval, objects, breaker, answers>>

(* The conditional update of ClaimToolExecution, after the read above.     *)
Reclaim(c) ==
    /\ At(c, "reclaim")
    /\ LET k == call[c].key  e == exec[k] IN
       \/ /\ Reclaimable(e)
          /\ exec' = [exec EXCEPT ![k] = Claimed(e, c)]
          /\ Goto(c, "allow")
       \/ Goto(c, "release") /\ UNCHANGED exec
    /\ UNCHANGED <<approval, objects, breaker, answers>>

(* PersistentToolResultStore.Claim reads the archived result of a replay.  *)
Load(c) ==
    /\ At(c, "load")
    /\ \/ <<call[c].key, call[c].out>> \in objects /\ Goto(c, "finish")
       \/ Goto(c, "release")
    /\ UNCHANGED <<approval, exec, objects, breaker, answers>>

Allow(c) ==
    /\ At(c, "allow")
    /\ IF Admits(breaker)
       THEN breaker' = AfterAllow(breaker) /\ Goto(c, "run")
       ELSE Goto(c, "fail") /\ UNCHANGED breaker
    /\ UNCHANGED <<approval, exec, objects, answers>>

(* The handler returns a result.                                           *)
Succeed(c, v) ==
    /\ At(c, "run")
    /\ call' = [call EXCEPT ![c].pc = "archive", ![c].out = <<call[c].digest, v>>]
    /\ UNCHANGED <<approval, exec, objects, breaker, answers>>

(* The handler suspends: the call ends without a retry, and the breaker is *)
(* not told.                                                               *)
Suspend(c) ==
    /\ At(c, "run")
    /\ Goto(c, "fail")
    /\ UNCHANGED <<approval, exec, objects, breaker, answers>>

(* fault: one attempt more than the policy gives.                          *)
FailRetryablyOnceMore(c) ==
    /\ At(c, "run") /\ call[c].tries <= MaxAttempts
    /\ Goto(c, "backoff")
    /\ UNCHANGED <<approval, exec, objects, breaker, answers>>

(* The handler fails retryably before its last attempt.                    *)
FailRetryably(c) ==
    /\ At(c, "run") /\ call[c].tries < MaxAttempts
    /\ Goto(c, "backoff")
    /\ UNCHANGED <<approval, exec, objects, breaker, answers>>

(* A failure that is not retried; a cancellation does not count for the    *)
(* breaker (breakerFailure).                                               *)
FailFinally(c) ==
    /\ At(c, "run")
    /\ breaker' = AfterFailure(breaker) \/ UNCHANGED breaker
    /\ Goto(c, "fail")
    /\ UNCHANGED <<approval, exec, objects, answers>>

Backoff(c) ==
    /\ At(c, "backoff")
    /\ \/ call' = [call EXCEPT ![c].pc = "run", ![c].tries = @ + 1]
       \/ Goto(c, "fail")
    /\ UNCHANGED <<approval, exec, objects, breaker, answers>>

(* buildResultSnapshot and Archive: a result that is too large, or that the*)
(* object store does not take, fails the call without the breaker.         *)
Archive(c) ==
    /\ At(c, "archive")
    /\ \/ /\ objects' = objects \cup (IF NeedsKey /\ Archived(call[c].out)
                                      THEN {<<call[c].key, call[c].out>>} ELSE {})
          /\ breaker' = Closed
          /\ Goto(c, IF NeedsKey THEN "complete" ELSE "finish")
       \/ Goto(c, "fail") /\ UNCHANGED <<objects, breaker>>
    /\ UNCHANGED <<approval, exec, answers>>

Owns(c) == LET e == exec[call[c].key] IN e.status = "executing" /\ e.attempt = Attempt(c)

(* fault: a result that could not be committed is returned all the same.   *)
CompleteLogsError(c) ==
    /\ At(c, "complete")
    /\ IF Owns(c)
       THEN exec' = [exec EXCEPT ![call[c].key].status = "succeeded",
                                 ![call[c].key].leased = FALSE,
                                 ![call[c].key].out = call[c].out]
       ELSE UNCHANGED exec
    /\ Goto(c, "finish")
    /\ UNCHANGED <<approval, objects, breaker, answers>>

(* CompleteToolExecution.  When it fails, the archived result is discarded *)
Complete(c) ==
    /\ At(c, "complete")
    /\ \/ /\ Owns(c)
          /\ exec' = [exec EXCEPT ![call[c].key].status = "succeeded",
                                  ![call[c].key].leased = FALSE,
                                  ![call[c].key].out = call[c].out]
          /\ Goto(c, "finish")
       \/ /\ Goto(c, IF Archived(call[c].out) THEN "discard" ELSE "release")
          /\ UNCHANGED exec
    /\ UNCHANGED <<approval, objects, breaker, answers>>

Discard(c) ==
    /\ At(c, "discard")
    /\ \/ objects' = objects \ {<<call[c].key, call[c].out>>}
       \/ UNCHANGED objects
    /\ Goto(c, "release")
    /\ UNCHANGED <<approval, exec, breaker, answers>>

(* failIdempotency: an error is logged and the call goes on.               *)
Fail(c) ==
    /\ At(c, "fail")
    /\ \/ /\ NeedsKey /\ Owns(c)
          /\ exec' = [exec EXCEPT ![call[c].key].status = "failed",
                                  ![call[c].key].leased = FALSE]
       \/ UNCHANGED exec
    /\ Goto(c, "release")
    /\ UNCHANGED <<approval, objects, breaker, answers>>

Granted(c) == LET a == approval[call[c].key][call[c].digest] IN
              a.status = "executing" /\ a.attempt = Attempt(c)

Settle(c, status) ==
    LET a == approval[call[c].key][call[c].digest] IN
    approval' = [approval EXCEPT ![call[c].key][call[c].digest] =
        [a EXCEPT !.status = status, !.attempt = NoAttempt, !.leased = FALSE]]

(* releaseApproval: ReleaseToolApproval matches the attempt; an error is   *)
(* logged.  The call ends with an error.                                   *)
Release(c) ==
    /\ At(c, "release")
    /\ \/ Granted(c) /\ Settle(c, "approved")
       \/ UNCHANGED approval
    /\ Return(c)
    /\ UNCHANGED <<exec, objects, breaker, answers>>

(* completeApproval, whose error is logged, and the answer.                *)
Finish(c) ==
    /\ At(c, "finish")
    /\ \/ Granted(c) /\ Settle(c, "consumed")
       \/ UNCHANGED approval
    /\ answers' = answers \cup {[key |-> call[c].key, digest |-> call[c].digest,
                                 out |-> call[c].out]}
    /\ Return(c)
    /\ UNCHANGED <<exec, objects, breaker>>

-----------------------------------------------------------------------------
(* Time, the reconciler and the fault                                      *)

ApprovalExpires(k, d) ==
    /\ approval[k][d].status # "none" /\ approval[k][d].live
    /\ approval' = [approval EXCEPT ![k][d].live = FALSE]
    /\ UNCHANGED <<exec, objects, breaker, call, answers>>

ApprovalLeaseExpires(k, d) ==
    /\ approval[k][d].leased
    /\ approval' = [approval EXCEPT ![k][d].leased = FALSE]
    /\ UNCHANGED <<exec, objects, breaker, call, answers>>

ExecutionLeaseExpires(k) ==
    /\ exec[k].leased
    /\ exec' = [exec EXCEPT ![k].leased = FALSE]
    /\ call' = [c \in Callers |->
          IF Attempt(c) = exec[k].attempt /\ ~At(c, "idle")
          THEN [call[c] EXCEPT !.late = TRUE] ELSE call[c]]
    /\ UNCHANGED <<approval, objects, breaker, answers>>

OpenPeriodEnds ==
    /\ breaker.state = "open" /\ ~breaker.cooled
    /\ breaker' = [breaker EXCEPT !.cooled = TRUE]
    /\ UNCHANGED <<approval, exec, objects, call, answers>>

(* ReconcileToolGovernance, document by document as UpdateMany works: the  *)
(* expired requests, the leases that ran out, the executions without one.  *)
ReconcileApproval(k, d) ==
    /\ LET a == approval[k][d] IN
       \/ /\ a.status \in {"pending", "approved"} /\ ~a.live
          /\ approval' = [approval EXCEPT ![k][d].status = "expired"]
       \/ /\ a.status = "executing" /\ ~a.leased
          /\ approval' = [approval EXCEPT ![k][d] =
                [a EXCEPT !.status = IF a.live THEN "approved" ELSE "expired",
                          !.attempt = NoAttempt]]
    /\ UNCHANGED <<exec, objects, breaker, call, answers>>

ReconcileExecution(k) ==
    /\ exec[k].status = "executing" /\ ~exec[k].leased
    /\ exec' = [exec EXCEPT ![k].status = "failed", ![k].attempt = NoAttempt]
    /\ UNCHANGED <<approval, objects, breaker, call, answers>>

(* The process dies: the calls and the breaker are gone.                   *)
Crash ==
    /\ \E c \in Callers : ~At(c, "idle")
    /\ call' = [c \in Callers |-> Idle(call[c])]
    /\ breaker' = Closed
    /\ UNCHANGED <<approval, exec, objects, answers>>

-----------------------------------------------------------------------------
CallStep(c) ==
    \/ Authorize(c) \/ Request(c) \/ Claim(c) \/ Reclaim(c) \/ Load(c)
    \/ Allow(c) \/ (\E v \in Values : Succeed(c, v)) \/ Suspend(c)
    \/ FailRetryably(c) \/ FailFinally(c) \/ Backoff(c) \/ Archive(c)
    \/ Complete(c) \/ Discard(c) \/ Fail(c) \/ Release(c) \/ Finish(c)

Next ==
    \/ \E c \in Callers, k \in Keys, d \in Digests : Execute(c, k, d)
    \/ \E c \in Callers : CallStep(c)
    \/ \E k \in Keys, d \in Digests : \/ ApprovalExpires(k, d)
                                      \/ \E s \in {"approved", "rejected"} : Decide(k, d, s)
                                      \/ ApprovalLeaseExpires(k, d)
                                      \/ ReconcileApproval(k, d)
    \/ \E k \in Keys : ExecutionLeaseExpires(k) \/ ReconcileExecution(k)
    \/ OpenPeriodEnds
    \/ Crash

Spec == Init /\ [][Next]_vars

-----------------------------------------------------------------------------
(* Properties                                                              *)

TypeOK ==
    /\ approval \in [Keys -> [Digests -> Approvals]]
    /\ exec \in [Keys -> Executions]
    /\ objects \subseteq Keys \X Outputs
    /\ breaker \in Breakers
    /\ call \in [Callers -> Calls]
    /\ answers \subseteq [key : Keys, digest : Digests, out : Outputs]

InHandler == {"run", "backoff", "archive"}

(* Two calls that come with one key never return different results, and    *)
(* none returns the result of an input that is not its own: the attempt    *)
(* that lost its lease is refused by CompleteToolExecution and reports an  *)
(* error although its handler succeeded.                                   *)
AnswersAgree ==
    NeedsKey => /\ \A a, b \in answers : a.key = b.key => a.out = b.out
                /\ \A a \in answers : a.out[1] = a.digest

(* Two handlers run for one key at the same time only when one of them has *)
(* outlived its execution lease (one timeout and one backoff, however many *)
(* attempts the policy gives).                                             *)
OneHandlerPerLease ==
    NeedsKey => \A c1, c2 \in Callers :
        /\ call[c1].pc \in InHandler /\ call[c2].pc \in InHandler
        /\ call[c1].key = call[c2].key
        /\ ~call[c1].late /\ ~call[c2].late
        => c1 = c2

(* An approval is used up only by a result: a consumed approval belongs to *)
(* a key whose execution succeeded with that input, although the two are   *)
(* written one after the other and both leases may run out in between.     *)
ConsumedIsDone ==
    NeedsKey => \A k \in Keys, d \in Digests :
        approval[k][d].status = "consumed" =>
            exec[k].status = "succeeded" /\ exec[k].digest = d

(* No handler runs for an invocation nobody approved or somebody rejected, *)
(* whatever leases, releases and reconciliations the request went through. *)
RunsOnlyApproved ==
    NeedsApproval => \A c \in Callers :
        call[c].pc \in InHandler =>
            approval[call[c].key][call[c].digest].decision = "approved"

(* A result that was committed can be replayed: the object its record names*)
(* is in the store.                                                        *)
CommittedIsReplayable ==
    \A k \in Keys : exec[k].status = "succeeded" /\ Archived(exec[k].out) =>
                       <<k, exec[k].out>> \in objects

=============================================================================
