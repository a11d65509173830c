---------------------------- MODULE WorkflowRun ----------------------------
(***************************************************************************)
(* One workflow run of the agent platform as its Mongo records see it: the *)
(* run record (service/workflow_service.go, repository/                    *)
(* workflow_run_control.go), the compensation journal (service/ and        *)
(* repository/workflow_compensation.go) and the tool approvals the run     *)
(* waits for (service/tool_approval.go, repository/tool_governance.go).    *)
(*                                                                         *)
(* Several drivers act on the run at once: the request that executes it,   *)
(* requests that resume it or retry its compensations, and the background  *)
(* reconciler.  Every action is one database operation and the local code  *)
(* around it, so a driver works with what it read earlier.  A driver may   *)
(* crash between two operations.  What the DAG does is the subject of      *)
(* WorkflowScheduler; here an execution is one step with an outcome.       *)
(* The journal's sequence is 1..Tasks; approval 0 is the one of the        *)
(* workflow's own approval-gated node, approval s that of compensation s.  *)
(***************************************************************************)
EXTENDS Integers, FiniteSets

CONSTANTS
    Driver,         \* goroutines acting on the run
    NoDriver,       \* attempt_id of a record nobody has claimed
    Tasks,          \* nodes that declare a compensation
    NeedsApproval,  \* approvals the tools ask for, a subset of 0..Tasks
    Waits,          \* BOOLEAN: the workflow has a wait node
    MaxTokens,      \* bound on the resume tokens issued
    MaxCrashes      \* bound on the crashes explored

ASSUME RunAssumption ==
    /\ IsFiniteSet(Driver) /\ NoDriver \notin Driver
    /\ Tasks \in Nat /\ NeedsApproval \subseteq 0..Tasks
    /\ Waits \in BOOLEAN
    /\ MaxTokens \in Nat /\ MaxCrashes \in Nat

VARIABLES
    run,        \* the run record: status, token, approval, checkpoint
    succeeded,  \* nodes with a compensation that have succeeded
    journal,    \* compensation records: status, attempt, lease
    approval,   \* status of every approval request
    rejecting,  \* what a decided rejection has still to end: record, run, none
    reconciled, \* expired approvals the governance reconciler has handled
    effects,    \* compensations whose effect has happened
    local,      \* per driver: where it is and what it read
    tokens,     \* resume tokens issued so far
    crashes     \* crashes so far

vars == <<run, succeeded, journal, approval, rejecting, reconciled, effects,
          local, tokens, crashes>>

Seq == 1..Tasks
ApprovalID == 0..Tasks
NoApproval == -1

RunStatus == {"running", "suspended", "success", "failed", "rejected",
              "compensating", "compensated", "compensation_failed",
              "canceling", "canceled"}
RecordStatus == {"none", "planned", "executing", "suspended", "succeeded", "failed"}
ApprovalStatus == {"none", "pending", "approved", "rejected", "expired", "consumed"}

\* A compensation record without an owner, and a run record with its
\* suspension fields cleared.
Unclaimed(s) == [status |-> s, attempt |-> NoDriver, lease |-> FALSE]
Cleared(s) == [status |-> s, token |-> 0, approval |-> NoApproval, checkpoint |-> "none"]

Idle == [pc |-> "idle", seen |-> "none", result |-> "none", approval |-> NoApproval,
         token |-> 0, retryFailed |-> FALSE, policy |-> FALSE, seq |-> 0]
\* The states a driver goes to: with a result, resuming with a token, driving
\* the compensations (of a run read as seen), with the record s selected.
Got(l, pc, result) == [l EXCEPT !.pc = pc, !.result = result]
Resuming(pc, token, a) == [Idle EXCEPT !.pc = pc, !.token = token, !.approval = a]
Drive(pc, seen, a, retry, policy) ==
    [Idle EXCEPT !.pc = pc, !.seen = seen, !.approval = a, !.retryFailed = retry,
                 !.policy = policy]
Selected(l, s, result) == [l EXCEPT !.pc = "claim", !.seq = s, !.result = result]
Goto(d, l) == local' = [local EXCEPT ![d] = l]
Leave(d) == Goto(d, Idle)
At(d, pc) == local[d].pc = pc

Init ==
    /\ run = Cleared("running")
    /\ succeeded = 0
    /\ journal = [s \in Seq |-> Unclaimed("none")]
    /\ approval = [k \in ApprovalID |-> "none"]
    /\ rejecting = [k \in ApprovalID |-> "none"]
    /\ reconciled = {} /\ effects = {}
    /\ tokens = 0 /\ crashes = 0
    /\ \E d \in Driver :
         local = [e \in Driver |-> IF e = d THEN Got(Idle, "executing", "none") ELSE Idle]

-----------------------------------------------------------------------------
(* The executing request: runWorkflowRevision and ResumeWorkflowRun *)

\* The scheduler returns, its approved tool having been executed or not.  A
\* cancellation the watcher has seen replaces whatever it returned.
Execute(d, r) ==
    /\ At(d, "executing")
    /\ LET consumed == [approval EXCEPT ![0] = IF @ = "approved" THEN "consumed" ELSE @]
       IN  \/ /\ r \in {"success", "wait"} /\ approval[0] \in {"none", "approved", "consumed"}
              /\ approval' = consumed
           \/ /\ r \in {"approval", "wait"} /\ 0 \in NeedsApproval /\ approval[0] \in {"none", "pending"}
              /\ approval' = [approval EXCEPT ![0] = "pending"]
           \/ /\ r = "failed" \/ (r = "canceled" /\ run.status = "canceling")
              /\ approval' \in {approval, consumed}
    /\ r = "wait" => Waits /\ tokens < MaxTokens
    /\ succeeded' \in succeeded..Tasks
    /\ Goto(d, Got(local[d], IF r \in {"failed", "canceled"} THEN "plan" ELSE "commit", r))
    /\ UNCHANGED <<run, journal, rejecting, reconciled, effects, tokens, crashes>>

\* attachWorkflowCompensationPlan: an ordered bulk write of the records that
\* are missing.  If it fails, the first k may be there; the run goes on.
PersistPlan(d) ==
    /\ At(d, "plan")
    /\ \E k \in 0..succeeded :
         journal' = [s \in Seq |-> IF s <= k /\ journal[s].status = "none"
                                   THEN Unclaimed("planned") ELSE journal[s]]
    /\ Goto(d, Got(local[d], "commit", local[d].result))
    /\ UNCHANGED <<run, succeeded, approval, rejecting, reconciled, effects, tokens, crashes>>

\* What finishWorkflowRun and suspendWorkflowRun ask for.  A suspension
\* without an approval keeps the approval_request_id of the run's copy.
Desired(d) ==
    CASE local[d].result = "approval" ->
           [status |-> "suspended", token |-> tokens + 1, approval |-> 0,
            checkpoint |-> "retry"]
      [] local[d].result = "wait" ->
           [status |-> "suspended", token |-> tokens + 1,
            approval |-> local[d].approval, checkpoint |-> "wait"]
      [] local[d].result = "refused" -> Cleared("failed")
      [] OTHER -> Cleared(local[d].result)

\* fault: the commit overwrites a cancellation request
CommitRunBlind(d) ==
    /\ At(d, "commit")
    /\ run' = IF run.status \in {"running", "canceling"} THEN Desired(d) ELSE run
    /\ tokens' = IF run'.token > tokens THEN run'.token ELSE tokens
    /\ IF local[d].result \in {"failed", "canceled"}
       THEN Goto(d, Drive("mark", run'.status, NoApproval, FALSE, FALSE))
       ELSE Leave(d)
    /\ UNCHANGED <<succeeded, journal, approval, rejecting, reconciled, effects, crashes>>
\* commitWorkflowRunExecutionState: a persisted cancellation wins, a run that
\* is no longer executing is left alone.  Failures go on to the compensations.
CommitRun(d) ==
    /\ At(d, "commit")
    /\ \/ run.status = "canceling" /\ run' = Cleared("canceled")
       \/ run.status = "running" /\ run' = Desired(d)
       \/ run.status \notin {"canceling", "running"} /\ UNCHANGED run
    /\ tokens' = IF run'.token > tokens THEN run'.token ELSE tokens
    /\ IF local[d].result \in {"failed", "canceled"}
       THEN Goto(d, Drive("mark", run'.status, NoApproval, FALSE, FALSE))
       ELSE Leave(d)
    /\ UNCHANGED <<succeeded, journal, approval, rejecting, reconciled, effects, crashes>>

\* The commit fails, or loses its race five times.
CommitFails(d) ==
    /\ At(d, "commit")
    /\ Leave(d)
    /\ UNCHANGED <<run, succeeded, journal, approval, rejecting, reconciled, effects,
                   tokens, crashes>>

\* requestWorkflowRunCancellation
RequestCancel ==
    /\ run.status = "running"
    /\ run' = [run EXCEPT !.status = "canceling"]
    /\ UNCHANGED <<succeeded, journal, approval, rejecting, reconciled, effects, local,
                   tokens, crashes>>

-----------------------------------------------------------------------------
(* Resuming: tokens, grants and the claim *)

RecoverableCompensation == {"failed", "compensating", "compensation_failed"}

\* ResumeWorkflowRun reads the run: a suspended one needs a token and, if it
\* waits for an approval, the approved request; a recoverable one is driven.
ResumeWorkflowRun(d, t) ==
    /\ At(d, "idle")
    /\ \/ /\ run.status = "suspended" /\ t # 0
          /\ run.approval # NoApproval => approval[run.approval] = "approved"
          /\ Goto(d, Resuming(IF run.checkpoint = "compensation"
                              THEN "claimCompensation" ELSE "claimWorkflow",
                              t, run.approval))
       \/ /\ run.status \in RecoverableCompensation
          /\ Goto(d, Drive("mark", run.status, NoApproval, TRUE, FALSE))
    /\ UNCHANGED <<run, succeeded, journal, approval, rejecting, reconciled, effects,
                   tokens, crashes>>

\* The nodes or the budget cannot be built: finishWorkflowRun without a claim.
RefuseResume(d) ==
    /\ At(d, "claimWorkflow")
    /\ Goto(d, Got(Idle, "commit", "refused"))
    /\ UNCHANGED <<run, succeeded, journal, approval, rejecting, reconciled, effects,
                   tokens, crashes>>

\* fault: the claim does not compare the token and the status
ResumeMatchesApproval(d) ==
    local[d].approval # NoApproval => run.approval = local[d].approval
ResumeMatches(d) ==
    /\ run.status = "suspended" /\ run.token = local[d].token
    /\ local[d].approval # NoApproval => run.approval = local[d].approval

\* ClaimWorkflowRunResume: the approval and the checkpoint stay in the record.
\* A grant past its expiry does not match any more.
ClaimWorkflowRunResume(d) ==
    /\ At(d, "claimWorkflow") \/ At(d, "claimCompensation")
    /\ \/ /\ ResumeMatches(d)
          /\ run' = [status |-> "running", token |-> 0, approval |-> run.approval,
                     checkpoint |-> run.checkpoint]
          /\ \/ /\ At(d, "claimWorkflow")
                /\ Goto(d, Resuming("executing", 0, run.approval))
             \/ /\ At(d, "claimCompensation")
                /\ Goto(d, Drive("mark", "running", run.approval, FALSE, FALSE))
       \/ Leave(d) /\ UNCHANGED run
    /\ UNCHANGED <<succeeded, journal, approval, rejecting, reconciled, effects, tokens,
                   crashes>>

\* IssueWorkflowResumeGrant rotates the token of an approved suspension.
IssueWorkflowResumeGrant ==
    /\ run.status = "suspended" /\ tokens < MaxTokens
    /\ run.approval # NoApproval /\ approval[run.approval] = "approved"
    /\ tokens' = tokens + 1
    /\ run' = [run EXCEPT !.token = tokens']
    /\ UNCHANGED <<succeeded, journal, approval, rejecting, reconciled, effects, local,
                   crashes>>

-----------------------------------------------------------------------------
(* Approvals *)

approvalUnchanged == <<succeeded, effects, local, tokens, crashes>>

\* DecideToolApproval: the decision is stored first ...
Decide(k, decision) ==
    /\ approval[k] = "pending"
    /\ approval' = [approval EXCEPT ![k] = decision]
    /\ rejecting' = [rejecting EXCEPT ![k] = CASE decision = "approved" -> "none"
                                               [] k \in Seq -> "record"
                                               [] OTHER -> "run"]
    /\ UNCHANGED <<approvalUnchanged, run, journal, reconciled>>

\* ... a rejection then ends the suspended record of a compensation ...
RejectCompensation(k) ==
    /\ rejecting[k] = "record"
    /\ rejecting' = [rejecting EXCEPT ![k] = "run"]
    /\ journal' = IF journal[k].status = "suspended"
                  THEN [journal EXCEPT ![k] = Unclaimed("failed")] ELSE journal
    /\ UNCHANGED <<approvalUnchanged, run, approval, reconciled>>

\* ... and the suspended run; that there is none is not an error.
RejectRun(k) ==
    /\ rejecting[k] = "run"
    /\ rejecting' = [rejecting EXCEPT ![k] = "none"]
    /\ run' = IF run.status = "suspended" /\ run.approval = k
              THEN [Cleared("rejected") EXCEPT !.approval = k] ELSE run
    /\ UNCHANGED <<approvalUnchanged, journal, approval, reconciled>>

\* ReconcileToolGovernance: approvals past their deadline expire ...
ExpireApproval(k) ==
    /\ approval[k] \in {"pending", "approved"}
    /\ approval' = [approval EXCEPT ![k] = "expired"]
    /\ UNCHANGED <<approvalUnchanged, run, journal, rejecting, reconciled>>

\* ... and the run suspended on them fails, until they are marked as handled.
FailExpiredRun(k) ==
    /\ approval[k] = "expired" /\ k \notin reconciled
    /\ reconciled' \in {reconciled, reconciled \cup {k}}
    /\ run' = IF run.status = "suspended" /\ run.approval = k
              THEN [Cleared("failed") EXCEPT !.approval = k] ELSE run
    /\ UNCHANGED <<approvalUnchanged, approval, journal, rejecting>>

-----------------------------------------------------------------------------
(* Driving the compensations: driveWorkflowCompensationsWithPolicy *)

\* faults: failed records count as finished; the journal is read last record
\* first; an executing record can be claimed while its lease is valid
UnfinishedWithoutFailed ==
    {s \in Seq : journal[s].status \notin {"none", "succeeded", "failed"}}
Unfinished == {s \in Seq : journal[s].status \notin {"none", "succeeded"}}
IsNextReversed(s) == s \in Unfinished /\ \A t \in Unfinished : t <= s
IsNext(s) == s \in Unfinished /\ \A t \in Unfinished : s <= t
LeaseExpiredAlways(s) == journal[s].status = "executing"
LeaseExpired(s) == journal[s].status = "executing" /\ ~ journal[s].lease

driveUnchanged == <<succeeded, rejecting, reconciled, crashes>>

\* RetryWorkflowCompensation
RetryWorkflowCompensation(d) ==
    /\ At(d, "idle") /\ run.status \in RecoverableCompensation
    /\ \E s \in Seq : /\ IsNext(s)
                      /\ journal[s].status \in {"planned", "failed"} \/ LeaseExpired(s)
    /\ Goto(d, Drive("mark", run.status, NoApproval, TRUE, FALSE))
    /\ UNCHANGED <<driveUnchanged, run, journal, approval, effects, tokens>>

\* The background reconciler picks up an expired lease.
Reconcile(d) ==
    /\ At(d, "idle") /\ run.status \in {"failed", "compensating"}
    /\ \E s \in Seq : IsNext(s) /\ LeaseExpired(s)
    /\ Goto(d, Drive("mark", run.status, NoApproval, FALSE, TRUE))
    /\ UNCHANGED <<driveUnchanged, run, journal, approval, effects, tokens>>

\* markWorkflowRunCompensating writes the driver's copy without a condition.
MarkCompensating(d) ==
    /\ At(d, "mark")
    /\ IF \A s \in Seq : journal[s].status = "none"
       THEN Leave(d) /\ UNCHANGED run
       ELSE /\ run' = IF local[d].seen = "compensating" THEN run ELSE Cleared("compensating")
            /\ Goto(d, Drive("next", "none", local[d].approval, local[d].retryFailed,
                             local[d].policy))
    /\ UNCHANGED <<driveUnchanged, journal, approval, effects, tokens>>

\* nextWorkflowCompensation and the checks before the claim; the reconciler's
\* policy defers tools that are unavailable or need an approval.
Select(d, s, unavailable) ==
    /\ IsNext(s)
    /\ \/ /\ journal[s].status = "failed" /\ ~ local[d].retryFailed
          /\ Goto(d, Got(Idle, "failRun", "none"))
       \/ /\ \/ journal[s].status = "suspended" /\ local[d].approval # s
             \/ journal[s].status = "executing" /\ journal[s].lease
          /\ Leave(d)
       \/ /\ \/ journal[s].status = "planned" \/ LeaseExpired(s)
             \/ journal[s].status = "failed" /\ local[d].retryFailed
             \/ journal[s].status = "suspended" /\ local[d].approval = s
          /\ Goto(d, Selected(local[d], s,
                        IF local[d].policy /\ (unavailable \/ s \in NeedsApproval)
                        THEN "deferred" ELSE "none"))

SelectCompensation(d) ==
    /\ At(d, "next")
    /\ \/ Unfinished = {} /\ Goto(d, Got(Idle, "completeRun", "none"))
       \/ \E s \in Seq, unavailable \in BOOLEAN : Select(d, s, unavailable)
    /\ UNCHANGED <<driveUnchanged, run, journal, approval, effects, tokens>>

\* fault: the claim does not accept an expired lease
ClaimableUnclaimed(d, s) ==
    \/ journal[s].status = "planned"
    \/ /\ local[d].result # "deferred"
       /\ \/ journal[s].status = "failed" /\ local[d].retryFailed
          \/ journal[s].status = "suspended" /\ local[d].approval = s
\* claimWorkflowCompensation; a deferred claim only takes planned records and
\* expired leases, and is failed at once.
Claimable(d, s) ==
    \/ journal[s].status = "planned" \/ LeaseExpired(s)
    \/ /\ local[d].result # "deferred"
       /\ \/ journal[s].status = "failed" /\ local[d].retryFailed
          \/ journal[s].status = "suspended" /\ local[d].approval = s

ClaimCompensation(d) ==
    /\ At(d, "claim")
    /\ LET s == local[d].seq
       IN  IF Claimable(d, s)
           THEN /\ journal' = [journal EXCEPT ![s] =
                     [status |-> "executing", attempt |-> d, lease |-> TRUE]]
                /\ Goto(d, IF local[d].result = "deferred"
                           THEN Got(local[d], "settle", "error")
                           ELSE Got(local[d], "tool", "none"))
           ELSE Leave(d) /\ UNCHANGED journal
    /\ UNCHANGED <<driveUnchanged, run, approval, effects, tokens>>

LeaseExpires(s) ==
    /\ journal[s].status = "executing" /\ journal[s].lease
    /\ journal' = [journal EXCEPT ![s].lease = FALSE]
    /\ UNCHANGED <<driveUnchanged, run, approval, effects, local, tokens>>

\* executeWorkflowCompensation through the tool executor: the idempotency key
\* makes the effect of a repeated call the same one; a failed call may or may
\* not have had it.
ExecuteCompensation(d, r) ==
    /\ At(d, "tool")
    /\ LET s == local[d].seq
           gated == s \in NeedsApproval
           granted == ~ gated \/ approval[s] = "approved"
       IN  \/ /\ r = "pending" /\ gated /\ approval[s] \in {"none", "pending"}
              /\ approval' = [approval EXCEPT ![s] = "pending"]
              /\ UNCHANGED effects
           \/ /\ r = "ok" /\ granted
              /\ effects' = effects \cup {s}
              /\ approval' = [approval EXCEPT ![s] = IF gated THEN "consumed" ELSE @]
           \/ /\ r = "error"
              /\ effects' \in {effects, IF granted THEN effects \cup {s} ELSE effects}
              /\ UNCHANGED approval
    /\ Goto(d, Got(local[d], "settle", r))
    /\ UNCHANGED <<driveUnchanged, run, journal, tokens>>

\* Complete-, Suspend- and FailWorkflowCompensation, for the attempt's owner.
OwnsAttempt(d, s) == journal[s].status = "executing" /\ journal[s].attempt = d
\* fault: the tool's result is stored as the record's status
SettlementRaw(r) == IF r = "ok" THEN "succeeded" ELSE r
Settlement(r) ==
    CASE r = "ok" -> "succeeded" [] r = "pending" -> "suspended" [] r = "error" -> "failed"

SettleCompensation(d) ==
    /\ At(d, "settle")
    /\ LET s == local[d].seq
           r == local[d].result
       IN  IF OwnsAttempt(d, s)
           THEN /\ journal' = [journal EXCEPT ![s] = Unclaimed(Settlement(r))]
                /\ \/ r = "ok" /\ Goto(d, Drive("next", "none", NoApproval, FALSE, local[d].policy))
                   \/ r = "pending" /\ Goto(d, Got(local[d], "suspendRun", "none"))
                   \/ r = "error" /\ Goto(d, Got(Idle, "failRun", "none"))
           ELSE Leave(d) /\ UNCHANGED journal
    /\ UNCHANGED <<driveUnchanged, run, approval, effects, tokens>>

\* The last write of a drive: complete-, fail- or suspendWorkflowCompensationRun.
FinishCompensationRun(d) ==
    /\ \/ At(d, "completeRun") /\ run' = Cleared("compensated") /\ UNCHANGED tokens
       \/ At(d, "failRun") /\ run' = Cleared("compensation_failed") /\ UNCHANGED tokens
       \/ /\ At(d, "suspendRun")
          /\ tokens' = tokens + 1
          /\ run' = [status |-> "suspended", token |-> tokens', approval |-> local[d].seq,
                     checkpoint |-> "compensation"]
    /\ Leave(d)
    /\ UNCHANGED <<driveUnchanged, journal, approval, effects>>

\* The process dies (or a database call of the driver fails).
Crash(d) ==
    /\ ~ At(d, "idle") /\ crashes < MaxCrashes
    /\ crashes' = crashes + 1
    /\ Leave(d)
    /\ UNCHANGED <<run, succeeded, journal, approval, rejecting, reconciled, effects, tokens>>

-----------------------------------------------------------------------------
ExecutionResult == {"success", "failed", "canceled", "wait", "approval"}

\* The steps of a driver that has started.
Step(d) ==
    \/ \E r \in ExecutionResult : Execute(d, r)
    \/ PersistPlan(d) \/ CommitRun(d) \/ CommitFails(d)
    \/ RefuseResume(d) \/ ClaimWorkflowRunResume(d)
    \/ MarkCompensating(d) \/ SelectCompensation(d) \/ ClaimCompensation(d)
    \/ \E r \in {"ok", "pending", "error"} : ExecuteCompensation(d, r)
    \/ SettleCompensation(d) \/ FinishCompensationRun(d)

Start(d) ==
    \/ \E t \in 0..tokens : ResumeWorkflowRun(d, t)
    \/ RetryWorkflowCompensation(d)
    \/ Reconcile(d)

Govern ==
    \/ RequestCancel \/ IssueWorkflowResumeGrant
    \/ \E k \in ApprovalID :
         \/ \E decision \in {"approved", "rejected"} : Decide(k, decision)
         \/ RejectCompensation(k) \/ RejectRun(k)
         \/ ExpireApproval(k) \/ FailExpiredRun(k)
    \/ \E s \in Seq : LeaseExpires(s)

Next ==
    \/ \E d \in Driver : Step(d) \/ Start(d) \/ Crash(d)
    \/ Govern

\* A driver that has started goes on, leases run out, and the reconciler
\* scans periodically.  Users owe the system nothing.
Fairness ==
    /\ \A d \in Driver : WF_vars(Step(d))
    /\ \A s \in Seq : WF_vars(LeaseExpires(s))
    /\ WF_vars(\E d \in Driver : Reconcile(d))

Spec == Init /\ [][Next]_vars
FairSpec == Spec /\ Fairness

-----------------------------------------------------------------------------
(* Properties *)

PC == {"idle", "executing", "plan", "commit", "claimWorkflow", "claimCompensation",
       "mark", "next", "claim", "tool", "settle", "failRun", "suspendRun", "completeRun"}
Result == ExecutionResult \cup {"none", "refused", "deferred", "ok", "pending", "error"}

Run == [status : RunStatus, token : Nat, approval : ApprovalID \cup {NoApproval},
        checkpoint : {"none", "retry", "wait", "compensation"}]
Record == [status : RecordStatus, attempt : Driver \cup {NoDriver}, lease : BOOLEAN]
Local == [pc : PC, seen : RunStatus \cup {"none"}, result : Result,
          approval : ApprovalID \cup {NoApproval}, token : Nat,
          retryFailed : BOOLEAN, policy : BOOLEAN, seq : 0..Tasks]

\* The run record, the journal, the approvals and the drivers' copies have the
\* statuses the repository package declares.
TypeOK ==
    /\ run \in Run
    /\ succeeded \in 0..Tasks
    /\ journal \in [Seq -> Record]
    /\ approval \in [ApprovalID -> ApprovalStatus]
    /\ rejecting \in [ApprovalID -> {"none", "record", "run"}]
    /\ reconciled \subseteq ApprovalID
    /\ effects \subseteq Seq
    /\ local \in [Driver -> Local]
    /\ tokens \in Nat /\ crashes \in Nat

Executing(d) ==
    \/ local[d].pc \in {"executing", "plan"}
    \/ At(d, "commit") /\ local[d].result # "refused"

\* A run has one execution at a time, whatever resumes race: a token is
\* accepted once, and only while the run is suspended.
SingleExecution == \A d, e \in Driver : Executing(d) /\ Executing(e) => d = e

\* Compensations happen in journal order: a record leaves "planned", and its
\* effect happens, only after every earlier record has succeeded; late answers
\* of attempts that lost their lease do not change that.
StrictOrder ==
    \A s \in Seq : (journal[s].status \notin {"none", "planned"} \/ s \in effects)
        => \A t \in 1..(s - 1) : journal[t].status = "succeeded" /\ t \in effects

\* "compensated" is never claimed too early: every record of the journal has
\* had its effect; and a run that is a "success" has no journal.
OutcomeIsTrue ==
    /\ run.status = "compensated" =>
         effects # {} /\ \A s \in Seq : journal[s].status # "none" => s \in effects
    /\ run.status = "success" => \A s \in Seq : journal[s].status = "none"

\* "compensated" says that all compensations are done: every node that
\* succeeded, not only the ones whose record could be written.
CompensatedIsComplete == run.status = "compensated" => effects = 1..succeeded

\* A valid lease protects its record: only the driver holding it settles it.
LeaseHolds ==
    [][\A s \in Seq : journal[s].status = "executing" /\ journal[s].lease =>
         \/ journal'[s].status = "executing" /\ journal'[s].attempt = journal[s].attempt
         \/ local[journal[s].attempt].pc = "settle"]_vars

Quiet == (\A k \in ApprovalID : rejecting[k] = "none") /\ \A d \in Driver : At(d, "idle")

\* A run suspended at a wait node waits for its token only: no approval that
\* can no longer be given stands in the way.
WaitIsResumable ==
    run.status = "suspended" /\ run.checkpoint = "wait" /\ run.approval # NoApproval
        => approval[run.approval] = "approved"

\* A compensation suspended for an approval can continue: the run is
\* suspended on the same approval.
SuspendedCompensationResumable ==
    Quiet => \A s \in Seq : journal[s].status = "suspended" /\ approval[s] = "approved" =>
        run.status = "suspended" /\ run.approval = s /\ run.checkpoint = "compensation"

\* A cancelled run whose nodes succeeded goes on to its compensations.
CancelCompensates ==
    Quiet /\ run.status = "canceled" => succeeded = 0

\* A persisted cancellation of an execution is never lost to the outcome it
\* races with: the run becomes "canceled", whatever the commit wanted.
CancelConverges ==
    [][run.status = "canceling" /\ run.checkpoint # "compensation"
         => run'.status \in {"canceling", "canceled"}]_vars

\* Crash recovery: a compensation whose claimer died is taken over by the
\* reconciler, unless the run has left the states it scans for.
AbandonedIsReclaimed ==
    \A s \in Seq :
        LeaseExpired(s) /\ IsNext(s) /\ run.status \in {"failed", "compensating"}
          ~> ~ LeaseExpired(s) \/ run.status \notin {"failed", "compensating"}
=============================================================================
