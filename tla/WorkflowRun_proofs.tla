------------------------- MODULE WorkflowRun_proofs -------------------------
(***************************************************************************)
(* Proofs about WorkflowRun, for any number of drivers, compensations,     *)
(* approvals, tokens and crashes.                                          *)
(*                                                                         *)
(* The argument.  A token is issued once, so a request that read the run   *)
(* before its compensations can no longer claim it afterwards: one         *)
(* execution at a time (ExecInv).  The journal is written by an execution, *)
(* before any driver works on it, and by none after that (PlanInv); it has *)
(* no gaps, and a driver that goes for a record has seen every earlier one *)
(* succeed, which is final (OrderInv).  A driver of the compensations      *)
(* exists only once the run has left its main phase, to which it never     *)
(* returns (PhaseInv).  The conjuncts are mutually dependent: PhaseInv     *)
(* needs PlanInv to see that no commit suspends the run at a workflow node *)
(* any more, and PlanInv needs ExecInv to see that nobody else executes    *)
(* while the plan is written.                                              *)
(*                                                                         *)
(* The lemmas ...Moves describe one action's effect on the driver's own    *)
(* state; StatusSteps, RunSteps and LocalSteps sum up what any step does   *)
(* to the journal, to the run record and to one driver, and the invariants *)
(* follow from these three.                                                *)
(***************************************************************************)
EXTENDS WorkflowRun, TLAPS

NoJournal == \A s \in Seq : journal[s].status = "none"
Before(s) == \A t \in 1..(s - 1) : journal[t].status = "succeeded" /\ t \in effects
MainPhase ==
    run.status \in {"running", "canceling", "suspended"} /\ run.checkpoint # "compensation"
Driving(d) == local[d].pc \in {"next", "claim", "tool", "settle", "failRun", "suspendRun",
                               "completeRun"}

ResultOK(l) ==
    /\ l.pc = "plan" => l.result \in {"failed", "canceled"}
    /\ l.pc = "commit" => l.result \in ExecutionResult \cup {"refused"}
    /\ l.pc = "settle" => l.result \in {"ok", "pending", "error"}
    /\ l.pc \in {"claim", "tool", "settle"} => l.seq \in Seq
ResultInv == \A d \in Driver : ResultOK(local[d])

ExecInv ==
    /\ SingleExecution
    /\ run.token <= tokens
    /\ \A d \in Driver : Executing(d) /\ run.status = "suspended"
                           => run.checkpoint = "compensation"
    /\ \A d \in Driver : At(d, "claimWorkflow") =>
         /\ local[d].token \in 1..tokens
         /\ run.token = local[d].token => run.checkpoint # "compensation"
    /\ \A d \in Driver : At(d, "claimCompensation") =>
         /\ local[d].token \in 1..tokens
         /\ run.token = local[d].token => run.checkpoint = "compensation"

Gapless ==
    \A s \in Seq : journal[s].status # "none" =>
        \A t \in 1..(s - 1) : journal[t].status # "none"

\* An execution that has not failed yet, or has not written its plan.
Forward(d) ==
    \/ local[d].pc \in {"executing", "plan"}
    \/ At(d, "commit") /\ local[d].result \in {"success", "wait", "approval"}

PlanInv ==
    /\ \A d \in Driver : Forward(d) => NoJournal
    /\ \A d \in Driver : Driving(d) => ~ NoJournal
    /\ run.checkpoint = "compensation" => ~ NoJournal
    /\ run.status = "suspended" /\ run.checkpoint # "compensation" => NoJournal

OrderInv ==
    /\ Gapless
    /\ StrictOrder
    /\ \A s \in Seq : journal[s].status = "succeeded" => s \in effects
    /\ \A d \in Driver : local[d].pc \in {"claim", "tool", "settle"} =>
         local[d].seq \in Seq /\ journal[local[d].seq].status # "none" /\ Before(local[d].seq)
    /\ \A d \in Driver : At(d, "settle") /\ local[d].result = "ok" => local[d].seq \in effects

PhaseInv ==
    /\ \A d \in Driver : At(d, "mark") \/ Driving(d) => ~ MainPhase
    /\ \A d \in Driver : At(d, "completeRun") => Unfinished = {}
    /\ run.status = "compensated" => Unfinished = {} /\ ~ NoJournal
    /\ run.status = "success" => NoJournal /\ \A d \in Driver : ~ Executing(d)

IInv == TypeOK /\ ResultInv /\ ExecInv /\ PlanInv /\ OrderInv /\ PhaseInv

-----------------------------------------------------------------------------
(* Type correctness *)

\* Values of the right type that the actions write.
LEMMA Writes ==
  /\ Idle \in Local
  /\ \A st \in RunStatus : Cleared(st) \in Run
  /\ \A st \in RecordStatus : Unclaimed(st) \in Record
BY RunAssumption DEF Idle, Local, Cleared, Run, PC, Result, ExecutionResult, NoApproval,
   RunStatus, ApprovalID, Unclaimed, Record

\* The records the actions build, field by field.
LEMMA GotFields ==
  ASSUME NEW l \in Local, NEW p \in PC, NEW r \in Result
  PROVE  /\ Got(l, p, r) \in Local
         /\ Got(l, p, r).pc = p
         /\ Got(l, p, r).result = r
         /\ Got(l, p, r).seen = l.seen
         /\ Got(l, p, r).approval = l.approval
         /\ Got(l, p, r).token = l.token
         /\ Got(l, p, r).retryFailed = l.retryFailed
         /\ Got(l, p, r).policy = l.policy
         /\ Got(l, p, r).seq = l.seq
BY DEF Got, Local

\* The state of a request that resumes with a token.
LEMMA ResumingFields ==
  ASSUME NEW p \in PC, NEW t \in Nat, NEW a \in ApprovalID \cup {NoApproval}
  PROVE  /\ Resuming(p, t, a) \in Local
         /\ Resuming(p, t, a).pc = p
         /\ Resuming(p, t, a).token = t
         /\ Resuming(p, t, a).approval = a
         /\ Resuming(p, t, a).result = "none"
BY Writes DEF Resuming, Local, Idle

\* The state of a driver of the compensations.
LEMMA DriveFields ==
  ASSUME NEW p \in PC, NEW s \in RunStatus \cup {"none"},
         NEW a \in ApprovalID \cup {NoApproval}, NEW b \in BOOLEAN, NEW c \in BOOLEAN
  PROVE  /\ Drive(p, s, a, b, c) \in Local
         /\ Drive(p, s, a, b, c).pc = p
         /\ Drive(p, s, a, b, c).seen = s
         /\ Drive(p, s, a, b, c).approval = a
         /\ Drive(p, s, a, b, c).retryFailed = b
         /\ Drive(p, s, a, b, c).policy = c
BY Writes DEF Drive, Local, Idle

\* A drive starts at markWorkflowRunCompensating.
LEMMA MarkFields ==
  ASSUME NEW s \in RunStatus, NEW a \in ApprovalID \cup {NoApproval},
         NEW b \in BOOLEAN, NEW c \in BOOLEAN
  PROVE  Drive("mark", s, a, b, c) \in Local /\ Drive("mark", s, a, b, c).pc = "mark"
<1>1. "mark" \in PC /\ s \in RunStatus \cup {"none"} BY DEF PC
<1> QED BY <1>1, DriveFields

\* A drive goes on with nextWorkflowCompensation.
LEMMA NextFields ==
  ASSUME NEW a \in ApprovalID \cup {NoApproval}, NEW b \in BOOLEAN, NEW c \in BOOLEAN
  PROVE  Drive("next", "none", a, b, c) \in Local /\ Drive("next", "none", a, b, c).pc = "next"
<1>1. "next" \in PC /\ "none" \in RunStatus \cup {"none"} BY DEF PC
<1> QED BY <1>1, DriveFields

\* The state of a driver that has selected a record.
LEMMA SelectedFields ==
  ASSUME NEW l \in Local, NEW s \in Seq, NEW r \in Result
  PROVE  /\ Selected(l, s, r) \in Local
         /\ Selected(l, s, r).pc = "claim"
         /\ Selected(l, s, r).seq = s
         /\ Selected(l, s, r).result = r
         /\ Selected(l, s, r).approval = l.approval
         /\ Selected(l, s, r).retryFailed = l.retryFailed
         /\ Selected(l, s, r).policy = l.policy
<1>1. "claim" \in PC /\ s \in 0..Tasks BY RunAssumption DEF PC, Seq
<1> QED BY <1>1, Zenon DEF Selected, Local

\* Writing one driver's state keeps the type of local and the other drivers.
Moves(d) == local' \in [Driver -> Local] /\ \A e \in Driver \ {d} : local'[e] = local[e]

\* A driver's step changes that driver's state only.
LEMMA GotoMoves ==
  ASSUME TypeOK, NEW d \in Driver, NEW l \in Local, Goto(d, l)
  PROVE  Moves(d) /\ local'[d] = l
BY DEF Goto, Moves, TypeOK

\* A driver that returns is idle.
LEMMA LeaveMoves ==
  ASSUME TypeOK, NEW d \in Driver, Leave(d)
  PROVE  Moves(d) /\ local'[d].pc = "idle"
<1>1. Moves(d) /\ local'[d] = Idle BY GotoMoves, Writes DEF Leave
<1> QED BY <1>1 DEF Idle

-----------------------------------------------------------------------------
(* What each action of a driver does to its own state *)

\* The scheduler's return leads to the plan or to the commit.
LEMMA ExecuteMoves ==
  ASSUME TypeOK, NEW d \in Driver, NEW r \in ExecutionResult, Execute(d, r)
  PROVE  /\ Moves(d) /\ local'[d].result = r
         /\ local'[d].pc = IF r \in {"failed", "canceled"} THEN "plan" ELSE "commit"
<1> DEFINE p == IF r \in {"failed", "canceled"} THEN "plan" ELSE "commit"
<1>1. local[d] \in Local /\ p \in PC /\ r \in Result BY DEF TypeOK, PC, Result
<1>2. Goto(d, Got(local[d], p, r)) BY DEF Execute
<1> HIDE DEF p
<1>3. Moves(d) /\ local'[d] = Got(local[d], p, r) BY <1>1, <1>2, GotFields, GotoMoves
<1> QED BY <1>1, <1>3, GotFields DEF p

\* The plan leads to the commit, with the same result.
LEMMA PersistPlanMoves ==
  ASSUME TypeOK, NEW d \in Driver, PersistPlan(d)
  PROVE  Moves(d) /\ local'[d].pc = "commit" /\ local'[d].result = local[d].result
<1>1. local[d] \in Local /\ local[d].result \in Result /\ "commit" \in PC
  BY DEF TypeOK, PC, Local
<1>2. Goto(d, Got(local[d], "commit", local[d].result)) BY DEF PersistPlan
<1>3. Moves(d) /\ local'[d] = Got(local[d], "commit", local[d].result)
  BY <1>1, <1>2, GotFields, GotoMoves
<1> QED BY <1>1, <1>3, GotFields

\* A committed failure goes on to the compensations.
LEMMA CommitRunMoves ==
  ASSUME TypeOK, NEW d \in Driver, CommitRun(d), run' \in Run
  PROVE  /\ Moves(d)
         /\ local'[d].pc = IF local[d].result \in {"failed", "canceled"} THEN "mark" ELSE "idle"
<1> DEFINE l == Drive("mark", run'.status, NoApproval, FALSE, FALSE)
<1>1. l \in Local /\ l.pc = "mark"
  <2>1. run'.status \in RunStatus BY DEF Run
  <2> QED BY <2>1, MarkFields, Zenon
<1>2. IF local[d].result \in {"failed", "canceled"} THEN Goto(d, l) ELSE Leave(d)
  BY DEF CommitRun
<1> HIDE DEF l
<1> QED BY <1>1, <1>2, GotoMoves, LeaveMoves

\* What a resume request has seen when it goes on.
LEMMA ResumeWorkflowRunMoves ==
  ASSUME TypeOK, NEW d \in Driver, NEW t \in 0..tokens, ResumeWorkflowRun(d, t)
  PROVE  /\ Moves(d)
         /\ \/ /\ run.status = "suspended" /\ t # 0 /\ local'[d].token = t
               /\ local'[d].pc = IF run.checkpoint = "compensation"
                                 THEN "claimCompensation" ELSE "claimWorkflow"
            \/ run.status \in RecoverableCompensation /\ local'[d].pc = "mark"
<1>1. CASE run.status = "suspended" /\ t # 0
  <2> DEFINE p == IF run.checkpoint = "compensation"
                  THEN "claimCompensation" ELSE "claimWorkflow"
  <2>1. p \in PC /\ t \in Nat /\ run.approval \in ApprovalID \cup {NoApproval}
    BY DEF PC, TypeOK, Run
  <2>2. Goto(d, Resuming(p, t, run.approval))
    BY <1>1 DEF ResumeWorkflowRun, RecoverableCompensation
  <2> HIDE DEF p
  <2>3. Moves(d) /\ local'[d] = Resuming(p, t, run.approval)
    BY <2>1, <2>2, ResumingFields, GotoMoves
  <2> QED BY <1>1, <2>1, <2>3, ResumingFields DEF p
<1>2. CASE ~ (run.status = "suspended" /\ t # 0)
  <2>1. run.status \in RunStatus BY DEF TypeOK, Run
  <2>2. /\ run.status \in RecoverableCompensation
        /\ Goto(d, Drive("mark", run.status, NoApproval, TRUE, FALSE))
    BY <1>2 DEF ResumeWorkflowRun
  <2>3. Moves(d) /\ local'[d] = Drive("mark", run.status, NoApproval, TRUE, FALSE)
    BY <2>1, <2>2, MarkFields, GotoMoves, Zenon
  <2> QED BY <2>1, <2>2, <2>3, MarkFields, Zenon
<1> QED BY <1>1, <1>2

\* A retry and the reconciler start a drive of a recoverable run.
LEMMA StartDriveMoves ==
  ASSUME TypeOK, NEW d \in Driver, RetryWorkflowCompensation(d) \/ Reconcile(d)
  PROVE  Moves(d) /\ local'[d].pc = "mark" /\ run.status \in RecoverableCompensation
<1>1. PICK b \in BOOLEAN, c \in BOOLEAN :
        Goto(d, Drive("mark", run.status, NoApproval, b, c))
  BY DEF RetryWorkflowCompensation, Reconcile
<1>2. run.status \in RunStatus BY DEF TypeOK, Run
<1>3. Moves(d) /\ local'[d] = Drive("mark", run.status, NoApproval, b, c)
  BY <1>1, <1>2, MarkFields, GotoMoves, Zenon
<1>4. run.status \in RecoverableCompensation
  BY DEF RetryWorkflowCompensation, Reconcile, RecoverableCompensation
<1>5. Drive("mark", run.status, NoApproval, b, c).pc = "mark" BY <1>2, MarkFields, Zenon
<1> QED BY <1>3, <1>4, <1>5, Zenon

\* A refused resume commits without a claim.
LEMMA RefuseResumeMoves ==
  ASSUME TypeOK, NEW d \in Driver, RefuseResume(d)
  PROVE  Moves(d) /\ local'[d].pc = "commit" /\ local'[d].result = "refused"
<1>1. Idle \in Local /\ "commit" \in PC /\ "refused" \in Result
  BY Writes DEF PC, Result
<1>2. Goto(d, Got(Idle, "commit", "refused")) BY DEF RefuseResume
<1>3. Moves(d) /\ local'[d] = Got(Idle, "commit", "refused")
  BY <1>1, <1>2, GotFields, GotoMoves
<1> QED BY <1>1, <1>3, GotFields

Claimed == [status |-> "running", token |-> 0, approval |-> run.approval,
            checkpoint |-> run.checkpoint]

\* The claim wins with the run's own token, or changes nothing.
LEMMA ClaimWorkflowRunResumeMoves ==
  ASSUME TypeOK, NEW d \in Driver, ClaimWorkflowRunResume(d)
  PROVE  /\ Moves(d)
         /\ \/ local'[d].pc = "idle" /\ UNCHANGED run
            \/ /\ ResumeMatches(d) /\ run' = Claimed
               /\ \/ At(d, "claimWorkflow") /\ local'[d].pc = "executing"
                  \/ At(d, "claimCompensation") /\ local'[d].pc = "mark"
<1>0. run.approval \in ApprovalID \cup {NoApproval} /\ "executing" \in PC /\ "mark" \in PC
      /\ "running" \in RunStatus /\ 0 \in Nat
  BY DEF TypeOK, Run, PC, RunStatus
<1>1. CASE Leave(d) /\ UNCHANGED run BY <1>1, LeaveMoves
<1>2. CASE /\ ResumeMatches(d) /\ run' = Claimed
           /\ At(d, "claimWorkflow") /\ Goto(d, Resuming("executing", 0, run.approval))
  <2>1. Moves(d) /\ local'[d] = Resuming("executing", 0, run.approval)
    BY <1>0, <1>2, ResumingFields, GotoMoves
  <2>2. Resuming("executing", 0, run.approval).pc = "executing" BY <1>0, ResumingFields
  <2> QED BY <1>2, <2>1, <2>2, Zenon
<1>3. CASE /\ ResumeMatches(d) /\ run' = Claimed
           /\ At(d, "claimCompensation")
           /\ Goto(d, Drive("mark", "running", run.approval, FALSE, FALSE))
  <2>1. Moves(d) /\ local'[d] = Drive("mark", "running", run.approval, FALSE, FALSE)
    BY <1>0, <1>3, MarkFields, GotoMoves, Zenon
  <2>2. Drive("mark", "running", run.approval, FALSE, FALSE).pc = "mark"
    BY <1>0, MarkFields, Zenon
  <2> QED BY <1>3, <2>1, <2>2, Zenon
<1> QED BY <1>1, <1>2, <1>3, Zenon DEF ClaimWorkflowRunResume, Claimed

\* A drive goes on only if there is a journal.
LEMMA MarkCompensatingMoves ==
  ASSUME TypeOK, NEW d \in Driver, MarkCompensating(d)
  PROVE  /\ Moves(d)
         /\ \/ NoJournal /\ local'[d].pc = "idle" /\ UNCHANGED run
            \/ /\ ~ NoJournal /\ local'[d].pc = "next"
               /\ run' = run \/ run' = Cleared("compensating")
<1>1. CASE NoJournal
  <2>1. Leave(d) /\ UNCHANGED run BY <1>1 DEF MarkCompensating, NoJournal
  <2> QED BY <1>1, <2>1, LeaveMoves
<1>2. CASE ~ NoJournal
  <2> DEFINE l == Drive("next", "none", local[d].approval, local[d].retryFailed,
                        local[d].policy)
  <2>1. Goto(d, l) /\ (run' = run \/ run' = Cleared("compensating"))
    BY <1>2, Zenon DEF MarkCompensating, NoJournal
  <2>2. l \in Local /\ l.pc = "next"
    <3>1. /\ local[d].approval \in ApprovalID \cup {NoApproval}
          /\ local[d].retryFailed \in BOOLEAN
          /\ local[d].policy \in BOOLEAN
      BY DEF TypeOK, Local
    <3> QED BY <3>1, NextFields, Zenon
  <2> HIDE DEF l
  <2>3. Moves(d) /\ local'[d] = l BY <2>1, <2>2, GotoMoves
  <2> QED BY <1>2, <2>1, <2>2, <2>3
<1> QED BY <1>1, <1>2

\* The three ways a selection goes.
LEMMA SelectCompensationMoves ==
  ASSUME TypeOK, NEW d \in Driver, SelectCompensation(d)
  PROVE  /\ Moves(d)
         /\ \/ local'[d].pc \in {"idle", "failRun"}
            \/ local'[d].pc = "completeRun" /\ Unfinished = {}
            \/ /\ local'[d].pc = "claim" /\ local'[d].seq \in Seq /\ IsNext(local'[d].seq)
               /\ local'[d].result \in {"none", "deferred"}
<1>0. /\ Idle \in Local /\ "failRun" \in PC /\ "completeRun" \in PC /\ "none" \in Result
      /\ local[d] \in Local
  BY Writes DEF PC, Result, TypeOK
<1>1. CASE Unfinished = {} /\ Goto(d, Got(Idle, "completeRun", "none"))
  <2>1. Moves(d) /\ local'[d] = Got(Idle, "completeRun", "none")
    BY <1>0, <1>1, GotFields, GotoMoves
  <2> QED BY <1>0, <1>1, <2>1, GotFields
<1>2. ASSUME NEW s \in Seq, NEW u \in BOOLEAN, Select(d, s, u)
      PROVE  /\ Moves(d)
             /\ \/ local'[d].pc \in {"idle", "failRun"}
                \/ /\ local'[d].pc = "claim" /\ local'[d].seq = s /\ IsNext(s)
                   /\ local'[d].result \in {"none", "deferred"}
  <2>1. CASE Goto(d, Got(Idle, "failRun", "none"))
    <3>1. Moves(d) /\ local'[d] = Got(Idle, "failRun", "none")
      BY <1>0, <2>1, GotFields, GotoMoves
    <3> QED BY <1>0, <3>1, GotFields
  <2>2. CASE Leave(d) BY <2>2, LeaveMoves
  <2>3. ASSUME NEW r \in {"none", "deferred"}, Goto(d, Selected(local[d], s, r))
        PROVE  /\ Moves(d) /\ local'[d].pc = "claim" /\ local'[d].seq = s
               /\ local'[d].result = r
    <3>1. r \in Result BY DEF Result
    <3>2. Moves(d) /\ local'[d] = Selected(local[d], s, r)
      BY <1>0, <2>3, <3>1, SelectedFields, GotoMoves
    <3> QED BY <1>0, <3>1, <3>2, SelectedFields
  <2>4. \/ Goto(d, Got(Idle, "failRun", "none"))
        \/ Leave(d)
        \/ \E r \in {"none", "deferred"} : Goto(d, Selected(local[d], s, r))
    BY <1>2, Zenon DEF Select
  <2>5. IsNext(s) BY <1>2, Zenon DEF Select
  <2> QED BY <2>1, <2>2, <2>3, <2>4, <2>5
<1>3. \/ Unfinished = {} /\ Goto(d, Got(Idle, "completeRun", "none"))
      \/ \E s \in Seq, u \in BOOLEAN : Select(d, s, u)
  BY Zenon DEF SelectCompensation
<1>4. CASE \E s \in Seq, u \in BOOLEAN : Select(d, s, u)
  <2>1. PICK s \in Seq, u \in BOOLEAN : Select(d, s, u) BY <1>4
  <2> QED BY <1>2, <2>1
<1> QED BY <1>1, <1>3, <1>4

\* A claim takes the selected record, or changes nothing.
LEMMA ClaimCompensationMoves ==
  ASSUME TypeOK, NEW d \in Driver, ClaimCompensation(d)
  PROVE  /\ Moves(d)
         /\ \/ local'[d].pc = "idle" /\ UNCHANGED journal
            \/ /\ Claimable(d, local[d].seq)
               /\ journal' = [journal EXCEPT ![local[d].seq] =
                    [status |-> "executing", attempt |-> d, lease |-> TRUE]]
               /\ local'[d].seq = local[d].seq
               /\ \/ local'[d].pc = "settle" /\ local'[d].result = "error"
                  \/ local'[d].pc = "tool"
<1> DEFINE s == local[d].seq
<1>0. /\ local[d] \in Local /\ "settle" \in PC /\ "tool" \in PC
      /\ "error" \in Result /\ "none" \in Result
  BY DEF TypeOK, PC, Result
<1>1. CASE ~ Claimable(d, s)
  <2>1. Leave(d) /\ UNCHANGED journal BY <1>1, Zenon DEF ClaimCompensation
  <2> QED BY <2>1, LeaveMoves
<1>2. CASE Claimable(d, s)
  <2>1. journal' = [journal EXCEPT ![s] = [status |-> "executing", attempt |-> d, lease |-> TRUE]]
    BY <1>2, Zenon DEF ClaimCompensation
  <2>2. Goto(d, Got(local[d], "settle", "error")) \/ Goto(d, Got(local[d], "tool", "none"))
    BY <1>2, Zenon DEF ClaimCompensation
  <2>3. CASE Goto(d, Got(local[d], "settle", "error"))
    <3>1. Moves(d) /\ local'[d] = Got(local[d], "settle", "error")
      BY <1>0, <2>3, GotFields, GotoMoves
    <3> QED BY <1>0, <1>2, <2>1, <3>1, GotFields
  <2>4. CASE Goto(d, Got(local[d], "tool", "none"))
    <3>1. Moves(d) /\ local'[d] = Got(local[d], "tool", "none")
      BY <1>0, <2>4, GotFields, GotoMoves
    <3> QED BY <1>0, <1>2, <2>1, <3>1, GotFields
  <2> QED BY <2>2, <2>3, <2>4
<1> QED BY <1>1, <1>2

\* The tool's answer leads to the settlement.
LEMMA ExecuteCompensationMoves ==
  ASSUME TypeOK, NEW d \in Driver, NEW r \in {"ok", "pending", "error"},
         ExecuteCompensation(d, r)
  PROVE  /\ Moves(d) /\ local'[d].pc = "settle"
         /\ local'[d].result = r /\ local'[d].seq = local[d].seq
<1>1. local[d] \in Local /\ "settle" \in PC /\ r \in Result BY DEF TypeOK, PC, Result
<1>2. Goto(d, Got(local[d], "settle", r)) BY Zenon DEF ExecuteCompensation
<1>3. Moves(d) /\ local'[d] = Got(local[d], "settle", r) BY <1>1, <1>2, GotFields, GotoMoves
<1> QED BY <1>1, <1>3, GotFields

\* The owner's settlement is stored, any other is dropped.
LEMMA SettleCompensationMoves ==
  ASSUME TypeOK, NEW d \in Driver, SettleCompensation(d)
  PROVE  /\ Moves(d)
         /\ \/ local'[d].pc = "idle" /\ UNCHANGED journal
            \/ /\ OwnsAttempt(d, local[d].seq)
               /\ journal' = [journal EXCEPT ![local[d].seq] =
                                Unclaimed(Settlement(local[d].result))]
               /\ \/ local[d].result = "ok" /\ local'[d].pc = "next"
                  \/ local[d].result = "pending" /\ local'[d].pc = "suspendRun"
                  \/ local[d].result = "error" /\ local'[d].pc = "failRun"
<1> DEFINE s == local[d].seq
           r == local[d].result
<1>0. /\ local[d] \in Local /\ Idle \in Local /\ "suspendRun" \in PC /\ "failRun" \in PC
      /\ "none" \in Result /\ local[d].policy \in BOOLEAN
      /\ NoApproval \in ApprovalID \cup {NoApproval}
  BY Writes DEF TypeOK, PC, Result, Local
<1>1. CASE ~ OwnsAttempt(d, s)
  <2>1. Leave(d) /\ UNCHANGED journal BY <1>1, Zenon DEF SettleCompensation
  <2> QED BY <2>1, LeaveMoves
<1>2. CASE OwnsAttempt(d, s)
  <2>1. journal' = [journal EXCEPT ![s] = Unclaimed(Settlement(r))]
    BY <1>2, Zenon DEF SettleCompensation
  <2>2. \/ r = "ok" /\ Goto(d, Drive("next", "none", NoApproval, FALSE, local[d].policy))
        \/ r = "pending" /\ Goto(d, Got(local[d], "suspendRun", "none"))
        \/ r = "error" /\ Goto(d, Got(Idle, "failRun", "none"))
    BY <1>2, Zenon DEF SettleCompensation
  <2>3. CASE r = "ok" /\ Goto(d, Drive("next", "none", NoApproval, FALSE, local[d].policy))
    <3> DEFINE l == Drive("next", "none", NoApproval, FALSE, local[d].policy)
    <3>1. l \in Local /\ l.pc = "next" BY <1>0, NextFields, Zenon
    <3> HIDE DEF l
    <3>2. Moves(d) /\ local'[d] = l BY <2>3, <3>1, GotoMoves, Zenon DEF l
    <3> QED BY <1>2, <2>1, <2>3, <3>1, <3>2
  <2>4. CASE r = "pending" /\ Goto(d, Got(local[d], "suspendRun", "none"))
    <3>1. Moves(d) /\ local'[d] = Got(local[d], "suspendRun", "none")
      BY <1>0, <2>4, GotFields, GotoMoves
    <3> QED BY <1>0, <1>2, <2>1, <2>4, <3>1, GotFields
  <2>5. CASE r = "error" /\ Goto(d, Got(Idle, "failRun", "none"))
    <3>1. Moves(d) /\ local'[d] = Got(Idle, "failRun", "none")
      BY <1>0, <2>5, GotFields, GotoMoves
    <3> QED BY <1>0, <1>2, <2>1, <2>5, <3>1, GotFields
  <2> QED BY <2>2, <2>3, <2>4, <2>5
<1> QED BY <1>1, <1>2

-----------------------------------------------------------------------------
(* Type correctness *)

\* What a commit writes is a run record.
LEMMA CommitRunType ==
  ASSUME TypeOK, ResultInv, NEW d \in Driver, CommitRun(d)
  PROVE  run' \in Run /\ tokens' \in Nat
<1>1. Desired(d) \in Run
  <2>1. local[d] \in Local BY DEF TypeOK
  <2>2. CASE local[d].result \in {"approval", "wait"}
    <3>1. 0 \in ApprovalID /\ local[d].approval \in ApprovalID \cup {NoApproval}
      BY <2>1, RunAssumption DEF ApprovalID, Local
    <3> QED BY <2>2, <3>1 DEF Desired, Run, RunStatus, TypeOK
  <2>3. CASE local[d].result = "refused"
    <3>1. Desired(d) = Cleared("failed") BY <2>3 DEF Desired
    <3> QED BY <3>1, Writes DEF RunStatus
  <2>4. CASE local[d].result \notin {"approval", "wait", "refused"}
    <3>1. Desired(d) = Cleared(local[d].result) BY <2>4 DEF Desired
    <3>2. local[d].result \in RunStatus
      BY <2>4 DEF CommitRun, At, ResultInv, ResultOK, ExecutionResult, RunStatus
    <3> QED BY <3>1, <3>2, Writes
  <2> QED BY <2>2, <2>3, <2>4
<1>2. "canceled" \in RunStatus BY DEF RunStatus
<1>3. run' \in Run BY <1>1, <1>2, Writes DEF CommitRun, TypeOK
<1> QED BY <1>3 DEF CommitRun, TypeOK, Run

\* A driver's step keeps the types.
LEMMA StepType ==
  ASSUME TypeOK, ResultInv, NEW d \in Driver, Step(d) \/ Start(d) \/ Crash(d)
  PROVE  TypeOK'
<1> USE RunAssumption DEF TypeOK, Moves
<1>1. ASSUME NEW r \in ExecutionResult, Execute(d, r) PROVE TypeOK'
  <2>1. approval' \in [ApprovalID -> ApprovalStatus]
    BY <1>1 DEF Execute, ApprovalStatus
  <2> QED BY <1>1, <2>1, ExecuteMoves DEF Execute
<1>2. ASSUME PersistPlan(d) PROVE TypeOK'
  <2>1. Unclaimed("planned") \in Record BY Writes DEF RecordStatus
  <2>2. journal' \in [Seq -> Record] BY <1>2, <2>1 DEF PersistPlan
  <2> QED BY <1>2, <2>2, PersistPlanMoves DEF PersistPlan
<1>3. ASSUME CommitRun(d) PROVE TypeOK'
  BY <1>3, CommitRunType, CommitRunMoves DEF CommitRun
<1>4. ASSUME CommitFails(d) \/ Crash(d) PROVE TypeOK'
  BY <1>4, LeaveMoves DEF CommitFails, Crash
<1>5. ASSUME NEW t \in 0..tokens, ResumeWorkflowRun(d, t) PROVE TypeOK'
  BY <1>5, ResumeWorkflowRunMoves DEF ResumeWorkflowRun
<1>6. ASSUME RetryWorkflowCompensation(d) \/ Reconcile(d) PROVE TypeOK'
  BY <1>6, StartDriveMoves DEF RetryWorkflowCompensation, Reconcile, driveUnchanged
<1>7. ASSUME RefuseResume(d) PROVE TypeOK'
  BY <1>7, RefuseResumeMoves DEF RefuseResume
<1>8. ASSUME ClaimWorkflowRunResume(d) PROVE TypeOK'
  <2>1. Claimed \in Run BY DEF Claimed, Run, RunStatus
  <2> QED BY <1>8, <2>1, ClaimWorkflowRunResumeMoves DEF ClaimWorkflowRunResume
<1>9. ASSUME MarkCompensating(d) PROVE TypeOK'
  <2>1. Cleared("compensating") \in Run BY Writes DEF RunStatus
  <2> QED BY <1>9, <2>1, MarkCompensatingMoves DEF MarkCompensating, driveUnchanged
<1>10. ASSUME SelectCompensation(d) PROVE TypeOK'
  BY <1>10, SelectCompensationMoves DEF SelectCompensation, driveUnchanged
<1>11. ASSUME ClaimCompensation(d) PROVE TypeOK'
  <2>1. [status |-> "executing", attempt |-> d, lease |-> TRUE] \in Record
    BY DEF Record, RecordStatus
  <2>2. journal' \in [Seq -> Record] BY <1>11, <2>1, ClaimCompensationMoves
  <2> QED BY <1>11, <2>2, ClaimCompensationMoves DEF ClaimCompensation, driveUnchanged
<1>12. ASSUME NEW r \in {"ok", "pending", "error"}, ExecuteCompensation(d, r) PROVE TypeOK'
  <2>1. approval' \in [ApprovalID -> ApprovalStatus]
    BY <1>12 DEF ExecuteCompensation, ApprovalStatus
  <2>2. local[d].seq \in Seq BY <1>12, Zenon DEF ExecuteCompensation, ResultInv, ResultOK, At
  <2>3. effects' \subseteq Seq BY <1>12, <2>2 DEF ExecuteCompensation
  <2> QED BY <1>12, <2>1, <2>3, ExecuteCompensationMoves DEF ExecuteCompensation, driveUnchanged
<1>13. ASSUME SettleCompensation(d) PROVE TypeOK'
  <2>1. CASE UNCHANGED journal
    BY <1>13, <2>1, SettleCompensationMoves DEF SettleCompensation, driveUnchanged
  <2>2. CASE journal' = [journal EXCEPT ![local[d].seq] = Unclaimed(Settlement(local[d].result))]
    <3>1. Settlement(local[d].result) \in RecordStatus
      BY <1>13 DEF SettleCompensation, ResultInv, ResultOK, At, Settlement, RecordStatus
    <3>2. Unclaimed(Settlement(local[d].result)) \in Record BY <3>1, Writes
    <3>3. journal' \in [Seq -> Record] BY <2>2, <3>2
    <3> QED BY <1>13, <3>3, SettleCompensationMoves DEF SettleCompensation, driveUnchanged
  <2> QED BY <1>13, <2>1, <2>2, SettleCompensationMoves
<1>14. ASSUME FinishCompensationRun(d) PROVE TypeOK'
  <2>1. Cleared("compensated") \in Run /\ Cleared("compensation_failed") \in Run
    BY Writes DEF RunStatus
  <2>2. run' \in Run /\ tokens' \in Nat
    BY <1>14, <2>1 DEF FinishCompensationRun, Run, RunStatus, Local, ApprovalID
  <2>3. Leave(d) BY <1>14 DEF FinishCompensationRun
  <2> QED BY <1>14, <2>2, <2>3, LeaveMoves DEF FinishCompensationRun, driveUnchanged
<1> QED BY <1>1, <1>2, <1>3, <1>4, <1>5, <1>6, <1>7, <1>8, <1>9, <1>10, <1>11, <1>12, <1>13,
      <1>14 DEF Step, Start

\* Users, deadlines and the governance reconciler keep the types.
LEMMA GovernType ==
  ASSUME TypeOK, Govern
  PROVE  TypeOK' /\ UNCHANGED <<local, effects>>
<1> USE RunAssumption DEF TypeOK, approvalUnchanged, driveUnchanged
<1>1. CASE RequestCancel BY <1>1 DEF RequestCancel, Run, RunStatus
<1>2. CASE IssueWorkflowResumeGrant BY <1>2 DEF IssueWorkflowResumeGrant, Run
<1>3. ASSUME NEW k \in ApprovalID, NEW dec \in {"approved", "rejected"}, Decide(k, dec)
      PROVE  TypeOK' /\ UNCHANGED <<local, effects>>
  <2>1. rejecting' \in [ApprovalID -> {"none", "record", "run"}] BY <1>3 DEF Decide
  <2>2. approval' \in [ApprovalID -> ApprovalStatus] BY <1>3 DEF Decide, ApprovalStatus
  <2> QED BY <1>3, <2>1, <2>2 DEF Decide
<1>4. ASSUME NEW k \in ApprovalID, RejectCompensation(k)
      PROVE  TypeOK' /\ UNCHANGED <<local, effects>>
  <2>1. Unclaimed("failed") \in Record BY Writes DEF RecordStatus
  <2> QED BY <1>4, <2>1 DEF RejectCompensation
<1>5. ASSUME NEW k \in ApprovalID, RejectRun(k) \/ FailExpiredRun(k)
      PROVE  TypeOK' /\ UNCHANGED <<local, effects>>
  <2>1. /\ [Cleared("rejected") EXCEPT !.approval = k] \in Run
        /\ [Cleared("failed") EXCEPT !.approval = k] \in Run
    BY DEF Cleared, Run, RunStatus
  <2> QED BY <1>5, <2>1, Zenon DEF RejectRun, FailExpiredRun
<1>6. ASSUME NEW k \in ApprovalID, ExpireApproval(k)
      PROVE  TypeOK' /\ UNCHANGED <<local, effects>>
  BY <1>6 DEF ExpireApproval, ApprovalStatus
<1>7. ASSUME NEW s \in Seq, LeaseExpires(s)
      PROVE  TypeOK' /\ UNCHANGED <<local, effects>>
  BY <1>7 DEF LeaseExpires, Record
<1> QED BY <1>1, <1>2, <1>3, <1>4, <1>5, <1>6, <1>7 DEF Govern

\* Every step keeps the types.
LEMMA TypeStep ==
  ASSUME TypeOK, ResultInv, [Next]_vars
  PROVE  TypeOK'
<1>1. CASE UNCHANGED vars BY <1>1 DEF TypeOK, vars
<1>2. CASE Next BY <1>2, StepType, GovernType DEF Next
<1> QED BY <1>1, <1>2

\* A driver that commits or settles has a result of the right kind.
LEMMA ResultStep ==
  ASSUME TypeOK, ResultInv, [Next]_vars
  PROVE  ResultInv'
<1>0. ASSUME NEW d \in Driver, Moves(d), ResultOK(local'[d]) PROVE ResultInv'
  BY <1>0 DEF ResultInv, Moves
<1>1. ASSUME UNCHANGED local PROVE ResultInv' BY <1>1 DEF ResultInv
<1>2. ASSUME NEW d \in Driver, Step(d) \/ Start(d) \/ Crash(d)
      PROVE  ResultInv'
  <2> USE DEF ResultOK
  <2>a. ResultOK(local[d]) BY DEF ResultInv
  <2>1. ASSUME NEW r \in ExecutionResult, Execute(d, r) PROVE ResultInv'
    BY <1>0, <2>1, ExecuteMoves
  <2>2. ASSUME PersistPlan(d) PROVE ResultInv'
    <3>1. local[d].pc = "plan" BY <2>2 DEF PersistPlan, At
    <3> QED BY <1>0, <2>a, <2>2, <3>1, PersistPlanMoves DEF ExecutionResult
  <2>3. ASSUME CommitRun(d) PROVE ResultInv'
    BY <1>0, <2>3, CommitRunType, CommitRunMoves
  <2>4. ASSUME CommitFails(d) \/ Crash(d) \/ FinishCompensationRun(d) PROVE ResultInv'
    BY <1>0, <2>4, LeaveMoves DEF CommitFails, Crash, FinishCompensationRun
  <2>5. ASSUME NEW t \in 0..tokens, ResumeWorkflowRun(d, t) PROVE ResultInv'
    BY <1>0, <2>5, ResumeWorkflowRunMoves
  <2>6. ASSUME RetryWorkflowCompensation(d) \/ Reconcile(d) PROVE ResultInv'
    BY <1>0, <2>6, StartDriveMoves
  <2>7. ASSUME RefuseResume(d) PROVE ResultInv' BY <1>0, <2>7, RefuseResumeMoves
  <2>8. ASSUME ClaimWorkflowRunResume(d) PROVE ResultInv'
    BY <1>0, <2>8, ClaimWorkflowRunResumeMoves
  <2>9. ASSUME MarkCompensating(d) PROVE ResultInv'
    BY <1>0, <2>9, MarkCompensatingMoves
  <2>10. ASSUME SelectCompensation(d) PROVE ResultInv'
    BY <1>0, <2>10, SelectCompensationMoves
  <2>11. ASSUME ClaimCompensation(d) PROVE ResultInv'
    <3>1. local[d].pc = "claim" BY <2>11 DEF ClaimCompensation, At
    <3> QED BY <1>0, <2>a, <2>11, <3>1, ClaimCompensationMoves
  <2>12. ASSUME NEW r \in {"ok", "pending", "error"}, ExecuteCompensation(d, r)
         PROVE  ResultInv'
    <3>1. local[d].pc = "tool" BY <2>12, Zenon DEF ExecuteCompensation, At
    <3> QED BY <1>0, <2>a, <2>12, <3>1, ExecuteCompensationMoves
  <2>13. ASSUME SettleCompensation(d) PROVE ResultInv'
    BY <1>0, <2>13, SettleCompensationMoves
  <2> QED BY <1>2, <2>1, <2>2, <2>3, <2>4, <2>5, <2>6, <2>7, <2>8, <2>9, <2>10, <2>11,
        <2>12, <2>13 DEF Step, Start
<1> QED BY <1>1, <1>2, GovernType DEF Next, vars

-----------------------------------------------------------------------------
(* Tokens and executions *)

\* A cleared run has no token and no checkpoint.
LEMMA ClearedFields ==
  ASSUME NEW s
  PROVE  Cleared(s).status = s /\ Cleared(s).token = 0 /\ Cleared(s).checkpoint = "none"
BY DEF Cleared

\* What a commit writes.
LEMMA CommitRunWrites ==
  ASSUME TypeOK, ResultInv, run.token <= tokens, NEW d \in Driver, CommitRun(d)
  PROVE  \/ UNCHANGED <<run, tokens>> /\ run.status \notin {"running", "canceling"}
         \/ run.status = "canceling" /\ tokens' = tokens /\ run' = Cleared("canceled")
         \/ /\ run.status = "running" /\ tokens' = tokens
            /\ \/ run' = Cleared("canceled")
               \/ run' = Cleared("failed")
               \/ run' = Cleared("success") /\ local[d].result = "success"
         \/ /\ run.status = "running" /\ local[d].result \in {"approval", "wait"}
            /\ tokens' = tokens + 1
            /\ run'.status = "suspended" /\ run'.token = tokens + 1
            /\ run'.checkpoint # "compensation"
<1>0. tokens \in Nat /\ run.token \in Nat BY DEF TypeOK, Run
<1>1. tokens' = IF run'.token > tokens THEN run'.token ELSE tokens BY DEF CommitRun
<1>2. local[d].result \in {"success", "failed", "canceled", "wait", "approval", "refused"}
  BY DEF CommitRun, At, ResultInv, ResultOK, ExecutionResult
<1>3. CASE run.status = "canceling" /\ run' = Cleared("canceled")
  BY <1>0, <1>1, <1>3, ClearedFields
<1>4. CASE run.status = "running" /\ run' = Desired(d)
  <2>1. CASE local[d].result \in {"approval", "wait"}
    <3>1. Desired(d).status = "suspended" /\ Desired(d).token = tokens + 1
          /\ Desired(d).checkpoint # "compensation"
      BY <2>1 DEF Desired
    <3> QED BY <1>0, <1>1, <1>4, <2>1, <3>1
  <2>2. CASE local[d].result = "refused"
    <3>1. Desired(d) = Cleared("failed") BY <2>2 DEF Desired
    <3> QED BY <1>0, <1>1, <1>4, <3>1, ClearedFields
  <2>3. CASE local[d].result \notin {"approval", "wait", "refused"}
    <3>1. Desired(d) = Cleared(local[d].result) BY <2>3 DEF Desired
    <3> QED BY <1>0, <1>1, <1>2, <1>4, <2>3, <3>1, ClearedFields
  <2> QED BY <2>1, <2>2, <2>3
<1>5. ASSUME run.status \notin {"canceling", "running"}, UNCHANGED run, run.token <= tokens
      PROVE  UNCHANGED <<run, tokens>>
  BY <1>0, <1>1, <1>5
<1> QED BY <1>3, <1>4, <1>5 DEF CommitRun

\* What users, deadlines and the governance reconciler write to the run.
LEMMA GovernWrites ==
  ASSUME TypeOK, Govern
  PROVE  \/ UNCHANGED <<run, tokens>>
         \/ /\ run.status = "running" /\ run'.status = "canceling" /\ tokens' = tokens
            /\ run'.token = run.token /\ run'.checkpoint = run.checkpoint
         \/ /\ run.status = "suspended" /\ run'.status = "suspended"
            /\ tokens' = tokens + 1 /\ run'.token = tokens'
            /\ run'.checkpoint = run.checkpoint
         \/ /\ run.status = "suspended" /\ run'.status \in {"rejected", "failed"}
            /\ tokens' = tokens /\ run'.token = 0 /\ run'.checkpoint = "none"
<1> USE DEF TypeOK, approvalUnchanged, driveUnchanged
<1>1. CASE RequestCancel BY <1>1 DEF RequestCancel, Run
<1>2. CASE IssueWorkflowResumeGrant BY <1>2 DEF IssueWorkflowResumeGrant, Run
<1>3. ASSUME NEW k \in ApprovalID, RejectRun(k) \/ FailExpiredRun(k)
      PROVE  \/ UNCHANGED <<run, tokens>>
             \/ /\ run.status = "suspended" /\ run'.status \in {"rejected", "failed"}
                /\ tokens' = tokens /\ run'.token = 0 /\ run'.checkpoint = "none"
  <2> DEFINE R(st) == [Cleared(st) EXCEPT !.approval = k]
  <2>1. \A st : R(st).status = st /\ R(st).token = 0 /\ R(st).checkpoint = "none"
    BY DEF Cleared
  <2>2. /\ tokens' = tokens
        /\ \/ run' = run
           \/ run.status = "suspended" /\ run' = R("rejected")
           \/ run.status = "suspended" /\ run' = R("failed")
    BY <1>3, Zenon DEF RejectRun, FailExpiredRun
  <2> HIDE DEF R
  <2> QED BY <2>1, <2>2
<1>4. ASSUME NEW k \in ApprovalID, NEW dec \in {"approved", "rejected"}, Decide(k, dec)
      PROVE  UNCHANGED <<run, tokens>>
  BY <1>4, Zenon DEF Decide
<1>5. ASSUME NEW k \in ApprovalID, RejectCompensation(k) \/ ExpireApproval(k)
      PROVE  UNCHANGED <<run, tokens>>
  BY <1>5, Zenon DEF RejectCompensation, ExpireApproval
<1>6. ASSUME NEW s \in Seq, LeaseExpires(s) PROVE UNCHANGED <<run, tokens>>
  BY <1>6, Zenon DEF LeaseExpires
<1> QED BY <1>1, <1>2, <1>3, <1>4, <1>5, <1>6 DEF Govern

\* Nobody claims the run for an execution while another one goes on.
LEMMA ExecStep ==
  ASSUME TypeOK, ResultInv, ExecInv, [Next]_vars
  PROVE  ExecInv'
<1> USE DEF ExecInv, SingleExecution, Executing, At
<1>t. /\ tokens \in Nat /\ run.token \in Nat /\ run.token <= tokens
      /\ \A d \in Driver : local[d].token \in Nat
  BY DEF TypeOK, Run, Local
<1>0. ASSUME NEW d \in Driver, Moves(d), tokens' = tokens,
             local'[d].pc \notin {"executing", "plan", "commit", "claimWorkflow",
                                 "claimCompensation"},
             UNCHANGED run \/ (run'.token = 0 /\ run'.status # "suspended")
      PROVE  ExecInv'
  BY <1>0, <1>t DEF Moves
<1>1. ASSUME NEW d \in Driver, Step(d) \/ Start(d) \/ Crash(d) PROVE ExecInv'
  <2>1. ASSUME NEW r \in ExecutionResult, Execute(d, r) PROVE ExecInv'
    <3>1. UNCHANGED <<run, tokens>> /\ local[d].pc = "executing"
      BY <2>1, Zenon DEF Execute
    <3> QED BY <2>1, <3>1, ExecuteMoves DEF Moves
  <2>2. ASSUME PersistPlan(d) PROVE ExecInv'
    <3>1. UNCHANGED <<run, tokens>> /\ local[d].pc = "plan"
      BY <2>2, Zenon DEF PersistPlan
    <3> QED BY <2>2, <3>1, PersistPlanMoves DEF Moves
  <2>3. ASSUME CommitRun(d) PROVE ExecInv'
    <3>1. Moves(d) /\ local'[d].pc \in {"mark", "idle"}
      BY <2>3, CommitRunType, CommitRunMoves
    <3>2. local[d].pc = "commit" BY <2>3 DEF CommitRun
    <3>3. CASE UNCHANGED <<run, tokens>> BY <1>0, <3>1, <3>3
    <3>4. CASE /\ tokens' = tokens
               /\ run' \in {Cleared("canceled"), Cleared("failed"), Cleared("success")}
      BY <1>0, <3>1, <3>4, ClearedFields
    <3>5. CASE /\ local[d].result \in {"approval", "wait"} /\ tokens' = tokens + 1
               /\ run'.status = "suspended" /\ run'.token = tokens + 1
               /\ run'.checkpoint # "compensation"
      BY <1>t, <3>1, <3>2, <3>5 DEF Moves
    <3> QED BY <1>t, <2>3, <3>3, <3>4, <3>5, CommitRunWrites
  <2>4. ASSUME CommitFails(d) \/ Crash(d) PROVE ExecInv'
    BY <1>0, <2>4, LeaveMoves DEF CommitFails, Crash
  <2>5. ASSUME NEW t \in 0..tokens, ResumeWorkflowRun(d, t) PROVE ExecInv'
    <3>1. UNCHANGED <<run, tokens>> BY <2>5, Zenon DEF ResumeWorkflowRun
    <3> QED BY <1>t, <2>5, <3>1, ResumeWorkflowRunMoves DEF Moves
  <2>6. ASSUME RetryWorkflowCompensation(d) \/ Reconcile(d) PROVE ExecInv'
    <3>1. UNCHANGED <<run, tokens>> BY <2>6, Zenon DEF RetryWorkflowCompensation, Reconcile
    <3> QED BY <1>0, <2>6, <3>1, StartDriveMoves
  <2>7. ASSUME RefuseResume(d) PROVE ExecInv'
    <3>1. UNCHANGED <<run, tokens>> BY <2>7, Zenon DEF RefuseResume
    <3> QED BY <2>7, <3>1, RefuseResumeMoves DEF Moves
  <2>8. ASSUME ClaimWorkflowRunResume(d) PROVE ExecInv'
    <3>1. tokens' = tokens BY <2>8, Zenon DEF ClaimWorkflowRunResume
    <3>2. Claimed.status = "running" /\ Claimed.token = 0 BY DEF Claimed
    <3>3. CASE local'[d].pc = "idle" /\ UNCHANGED run
      BY <1>0, <2>8, <3>1, <3>3, ClaimWorkflowRunResumeMoves
    <3>4. CASE run' = Claimed /\ At(d, "claimCompensation") /\ local'[d].pc = "mark"
      BY <1>0, <2>8, <3>1, <3>2, <3>4, ClaimWorkflowRunResumeMoves
    <3>5. CASE /\ ResumeMatches(d) /\ run' = Claimed
               /\ At(d, "claimWorkflow") /\ local'[d].pc = "executing"
      <4>1. run.status = "suspended" /\ run.token = local[d].token BY <3>5 DEF ResumeMatches
      <4>2. \A e \in Driver : ~ Executing(e) BY <3>5, <4>1
      <4>3. Moves(d) BY <2>8, ClaimWorkflowRunResumeMoves
      <4> QED BY <1>t, <3>1, <3>2, <3>5, <4>2, <4>3 DEF Moves
    <3> QED BY <2>8, <3>3, <3>4, <3>5, ClaimWorkflowRunResumeMoves
  <2>9. ASSUME MarkCompensating(d) PROVE ExecInv'
    <3>1. tokens' = tokens BY <2>9, Zenon DEF MarkCompensating
    <3> QED BY <1>0, <2>9, <3>1, MarkCompensatingMoves, ClearedFields
  <2>10. ASSUME SelectCompensation(d) PROVE ExecInv'
    <3>1. UNCHANGED <<run, tokens>> BY <2>10, Zenon DEF SelectCompensation
    <3> QED BY <1>0, <2>10, <3>1, SelectCompensationMoves
  <2>11. ASSUME ClaimCompensation(d) PROVE ExecInv'
    <3>1. UNCHANGED <<run, tokens>> BY <2>11, Zenon DEF ClaimCompensation
    <3> QED BY <1>0, <2>11, <3>1, ClaimCompensationMoves
  <2>12. ASSUME NEW r \in {"ok", "pending", "error"}, ExecuteCompensation(d, r) PROVE ExecInv'
    <3>1. UNCHANGED <<run, tokens>> BY <2>12, Zenon DEF ExecuteCompensation
    <3> QED BY <1>0, <2>12, <3>1, ExecuteCompensationMoves
  <2>13. ASSUME SettleCompensation(d) PROVE ExecInv'
    <3>1. UNCHANGED <<run, tokens>> BY <2>13, Zenon DEF SettleCompensation
    <3> QED BY <1>0, <2>13, <3>1, SettleCompensationMoves
  <2>14. ASSUME FinishCompensationRun(d) PROVE ExecInv'
    <3>1. Moves(d) /\ local'[d].pc = "idle" BY <2>14, LeaveMoves DEF FinishCompensationRun
    <3>2. CASE At(d, "suspendRun")
      <4>1. /\ tokens' = tokens + 1 /\ run'.status = "suspended" /\ run'.token = tokens + 1
            /\ run'.checkpoint = "compensation"
        BY <2>14, <3>2 DEF FinishCompensationRun
      <4> QED BY <1>t, <3>1, <4>1 DEF Moves
    <3>3. CASE ~ At(d, "suspendRun")
      <4>1. tokens' = tokens /\ run' \in {Cleared("compensated"), Cleared("compensation_failed")}
        BY <2>14, <3>3 DEF FinishCompensationRun
      <4> QED BY <1>0, <3>1, <4>1, ClearedFields
    <3> QED BY <3>2, <3>3
  <2> QED BY <1>1, <2>1, <2>2, <2>3, <2>4, <2>5, <2>6, <2>7, <2>8, <2>9, <2>10, <2>11,
        <2>12, <2>13, <2>14 DEF Step, Start
<1>2. ASSUME Govern PROVE ExecInv' BY <1>t, <1>2, GovernType, GovernWrites
<1>3. ASSUME UNCHANGED vars PROVE ExecInv' BY <1>3 DEF vars
<1> QED BY <1>1, <1>2, <1>3 DEF Next

-----------------------------------------------------------------------------
(* What a step does to the journal and to the effects *)

SameStatus(s) == journal'[s].status = journal[s].status
\* The execution writes the first k missing records.
StatusPlanned(d) ==
    /\ PersistPlan(d) /\ UNCHANGED effects
    /\ \E k \in 0..Tasks : \A s \in Seq :
         IF s <= k /\ journal[s].status = "none"
         THEN journal'[s].status = "planned" ELSE SameStatus(s)
\* One record is rejected, claimed or settled.
StatusMoved(s) ==
    /\ UNCHANGED effects
    /\ \A t \in Seq \ {s} : SameStatus(t)
    /\ journal[s].status \notin {"none", "succeeded"}
    /\ \/ journal[s].status = "suspended" /\ journal'[s].status = "failed"
       \/ /\ \E d \in Driver : At(d, "claim") /\ local[d].seq = s
          /\ journal'[s].status = "executing"
       \/ /\ journal[s].status = "executing" /\ journal'[s].status \in {"suspended", "failed"}
       \/ /\ journal[s].status = "executing" /\ journal'[s].status = "succeeded"
          /\ \E d \in Driver : At(d, "settle") /\ local[d].seq = s /\ local[d].result = "ok"
\* A tool has had its effect.
StatusEffect(d) ==
    /\ At(d, "tool") /\ \A s \in Seq : SameStatus(s)
    /\ effects \subseteq effects' /\ effects' \subseteq effects \cup {local[d].seq}

\* Three actions of a driver write the journal.
LEMMA DriverKeeps ==
  ASSUME NEW d \in Driver, Step(d) \/ Start(d) \/ Crash(d),
         ~ PersistPlan(d), ~ ClaimCompensation(d), ~ SettleCompensation(d)
  PROVE  UNCHANGED journal
BY Zenon DEF Step, Start, Crash, Execute, CommitRun, CommitFails, RefuseResume,
   ClaimWorkflowRunResume, MarkCompensating, SelectCompensation, ExecuteCompensation,
   FinishCompensationRun, ResumeWorkflowRun, RetryWorkflowCompensation, Reconcile

\* Only the tool call has an effect.
LEMMA DriverKeepsEffects ==
  ASSUME NEW d \in Driver, Step(d) \/ Start(d) \/ Crash(d),
         ~ (\E r \in {"ok", "pending", "error"} : ExecuteCompensation(d, r))
  PROVE  UNCHANGED effects
BY Zenon DEF Step, Start, Crash, Execute, PersistPlan, CommitRun, CommitFails, RefuseResume,
   ClaimWorkflowRunResume, MarkCompensating, SelectCompensation, ClaimCompensation,
   SettleCompensation, FinishCompensationRun, ResumeWorkflowRun, RetryWorkflowCompensation,
   Reconcile

\* Of the users' actions, a rejection and a lapsing lease write the journal.
LEMMA GovernKeeps ==
  ASSUME Govern
  PROVE  \/ UNCHANGED journal
         \/ \E k \in ApprovalID : RejectCompensation(k)
         \/ \E s \in Seq : LeaseExpires(s)
BY Zenon DEF Govern, RequestCancel, IssueWorkflowResumeGrant, Decide, RejectRun,
   ExpireApproval, FailExpiredRun

\* All the ways a step changes the journal's statuses and the effects.
LEMMA StatusSteps ==
  ASSUME TypeOK, ResultInv, [Next]_vars
  PROVE  \/ UNCHANGED effects /\ \A s \in Seq : SameStatus(s)
         \/ \E d \in Driver : StatusPlanned(d)
         \/ \E s \in Seq : StatusMoved(s)
         \/ \E d \in Driver : StatusEffect(d)
<1> USE DEF SameStatus
<1>t. journal \in [Seq -> Record] /\ succeeded \in 0..Tasks BY DEF TypeOK
<1>1. ASSUME NEW d \in Driver, PersistPlan(d) PROVE StatusPlanned(d)
  <2>1. PICK k \in 0..succeeded :
          journal' = [s \in Seq |-> IF s <= k /\ journal[s].status = "none"
                                    THEN Unclaimed("planned") ELSE journal[s]]
    BY <1>1 DEF PersistPlan
  <2>2. k \in 0..Tasks BY <1>t, RunAssumption
  <2>3. Unclaimed("planned").status = "planned" BY DEF Unclaimed
  <2>4. UNCHANGED effects BY <1>1, Zenon DEF PersistPlan
  <2> QED BY <1>1, <2>1, <2>2, <2>3, <2>4 DEF StatusPlanned
<1>2. ASSUME NEW d \in Driver, ClaimCompensation(d)
      PROVE  UNCHANGED <<journal, effects>> \/ \E s \in Seq : StatusMoved(s)
  <2>1. At(d, "claim") /\ UNCHANGED effects BY <1>2, Zenon DEF ClaimCompensation, driveUnchanged
  <2>2. local[d].seq \in Seq BY <2>1 DEF ResultInv, ResultOK, At
  <2>3. CASE UNCHANGED journal BY <2>1, <2>3
  <2>4. CASE /\ Claimable(d, local[d].seq)
             /\ journal' = [journal EXCEPT ![local[d].seq] =
                    [status |-> "executing", attempt |-> d, lease |-> TRUE]]
    <3>1. journal[local[d].seq].status \in {"planned", "executing", "failed", "suspended"}
      BY <2>4, Zenon DEF Claimable, LeaseExpired
    <3>2. StatusMoved(local[d].seq) BY <1>t, <2>1, <2>2, <2>4, <3>1 DEF StatusMoved
    <3> QED BY <2>2, <3>2
  <2> QED BY <1>2, <2>3, <2>4, ClaimCompensationMoves
<1>3. ASSUME NEW d \in Driver, SettleCompensation(d)
      PROVE  UNCHANGED <<journal, effects>> \/ \E s \in Seq : StatusMoved(s)
  <2>1. At(d, "settle") /\ UNCHANGED effects BY <1>3, Zenon DEF SettleCompensation, driveUnchanged
  <2>2. local[d].seq \in Seq BY <2>1 DEF ResultInv, ResultOK, At
  <2>3. CASE UNCHANGED journal BY <2>1, <2>3
  <2>4. CASE /\ OwnsAttempt(d, local[d].seq)
             /\ journal' = [journal EXCEPT ![local[d].seq] =
                              Unclaimed(Settlement(local[d].result))]
    <3>1. journal'[local[d].seq].status = Settlement(local[d].result)
      BY <1>t, <2>2, <2>4 DEF Unclaimed
    <3>2. \/ local[d].result = "ok" /\ Settlement(local[d].result) = "succeeded"
          \/ Settlement(local[d].result) \in {"suspended", "failed"}
      BY <2>1 DEF ResultInv, ResultOK, At, Settlement
    <3>3. StatusMoved(local[d].seq)
      BY <1>t, <2>1, <2>2, <2>4, <3>1, <3>2 DEF StatusMoved, OwnsAttempt
    <3> QED BY <2>2, <3>3
  <2> QED BY <1>3, <2>3, <2>4, SettleCompensationMoves
<1>4. ASSUME NEW d \in Driver, NEW r \in {"ok", "pending", "error"}, ExecuteCompensation(d, r)
      PROVE  StatusEffect(d)
  <2>1. At(d, "tool") /\ UNCHANGED journal BY <1>4, Zenon DEF ExecuteCompensation
  <2>2. \/ effects' = effects
        \/ effects' = effects \cup {local[d].seq}
    BY <1>4, Zenon DEF ExecuteCompensation
  <2> QED BY <2>1, <2>2 DEF StatusEffect
<1>5. ASSUME NEW k \in ApprovalID, RejectCompensation(k), ~ UNCHANGED journal
      PROVE  k \in Seq /\ StatusMoved(k)
  <2>1. /\ journal[k].status = "suspended" /\ UNCHANGED effects
        /\ journal' = [journal EXCEPT ![k] = Unclaimed("failed")]
    BY <1>5, Zenon DEF RejectCompensation, approvalUnchanged
  <2>2. k \in Seq BY <1>t, <1>5, <2>1
  <2> QED BY <1>t, <2>1, <2>2 DEF StatusMoved, Unclaimed
<1>6. ASSUME NEW s \in Seq, LeaseExpires(s)
      PROVE  UNCHANGED effects /\ \A t \in Seq : SameStatus(t)
  BY <1>t, <1>6 DEF LeaseExpires, Record
<1>7. ASSUME NEW d \in Driver, Step(d) \/ Start(d) \/ Crash(d)
      PROVE  \/ UNCHANGED <<journal, effects>>
             \/ StatusPlanned(d) \/ StatusEffect(d) \/ \E s \in Seq : StatusMoved(s)
  BY <1>1, <1>2, <1>3, <1>4, <1>7, DriverKeeps, DriverKeepsEffects
<1>8. CASE Govern BY <1>5, <1>6, <1>8, GovernKeeps, GovernType
<1>9. CASE UNCHANGED vars BY <1>9 DEF vars
<1> QED BY <1>7, <1>8, <1>9 DEF Next

-----------------------------------------------------------------------------
(* The order of the compensations *)

\* How a driver comes to be working on a record.
LEMMA SeqSteps ==
  ASSUME TypeOK, ResultInv, [Next]_vars, NEW e \in Driver,
         local'[e].pc \in {"claim", "tool", "settle"}
  PROVE  \/ local'[e] = local[e]
         \/ /\ local[e].pc \in {"claim", "tool"} /\ local'[e].seq = local[e].seq
            /\ At(e, "settle")' /\ local'[e].result = "ok" => local'[e].seq \in effects'
         \/ /\ UNCHANGED <<journal, effects>> /\ local'[e].pc = "claim"
            /\ local'[e].seq \in Seq /\ IsNext(local'[e].seq)
<1> DEFINE Goal == \/ local'[e] = local[e]
                   \/ /\ local[e].pc \in {"claim", "tool"} /\ local'[e].seq = local[e].seq
                      /\ At(e, "settle")' /\ local'[e].result = "ok" => local'[e].seq \in effects'
                   \/ /\ UNCHANGED <<journal, effects>> /\ local'[e].pc = "claim"
                      /\ local'[e].seq \in Seq /\ IsNext(local'[e].seq)
<1>0. ASSUME NEW d \in Driver, Moves(d),
             d = e => local'[d].pc \notin {"claim", "tool", "settle"}
      PROVE  Goal
  BY <1>0 DEF Moves
<1>1. ASSUME NEW d \in Driver, Step(d) \/ Start(d) \/ Crash(d) PROVE Goal
  <2>1. ASSUME NEW r \in ExecutionResult, Execute(d, r) PROVE Goal
    BY <1>0, <2>1, ExecuteMoves
  <2>2. ASSUME PersistPlan(d) PROVE Goal BY <1>0, <2>2, PersistPlanMoves
  <2>3. ASSUME CommitRun(d) PROVE Goal BY <1>0, <2>3, CommitRunType, CommitRunMoves
  <2>4. ASSUME CommitFails(d) \/ Crash(d) \/ FinishCompensationRun(d) PROVE Goal
    BY <1>0, <2>4, LeaveMoves DEF CommitFails, Crash, FinishCompensationRun
  <2>5. ASSUME NEW t \in 0..tokens, ResumeWorkflowRun(d, t) PROVE Goal
    BY <1>0, <2>5, ResumeWorkflowRunMoves
  <2>6. ASSUME RetryWorkflowCompensation(d) \/ Reconcile(d) PROVE Goal
    BY <1>0, <2>6, StartDriveMoves
  <2>7. ASSUME RefuseResume(d) PROVE Goal BY <1>0, <2>7, RefuseResumeMoves
  <2>8. ASSUME ClaimWorkflowRunResume(d) PROVE Goal
    BY <1>0, <2>8, ClaimWorkflowRunResumeMoves
  <2>9. ASSUME MarkCompensating(d) PROVE Goal BY <1>0, <2>9, MarkCompensatingMoves
  <2>10. ASSUME SelectCompensation(d) PROVE Goal
    <3>1. UNCHANGED <<journal, effects>> BY <2>10, Zenon DEF SelectCompensation
    <3> QED BY <1>0, <2>10, <3>1, SelectCompensationMoves DEF Moves
  <2>11. ASSUME ClaimCompensation(d) PROVE Goal
    <3>1. local[d].pc = "claim" BY <2>11 DEF ClaimCompensation, At
    <3> QED BY <1>0, <2>11, <3>1, ClaimCompensationMoves DEF Moves, At
  <2>12. ASSUME NEW r \in {"ok", "pending", "error"}, ExecuteCompensation(d, r) PROVE Goal
    <3>1. local[d].pc = "tool" BY <2>12, Zenon DEF ExecuteCompensation, At
    <3>2. r = "ok" => local[d].seq \in effects'
      <4>1. r = "ok" => effects' = effects \cup {local[d].seq}
        BY <2>12, Zenon DEF ExecuteCompensation
      <4> QED BY <4>1
    <3> QED BY <1>0, <2>12, <3>1, <3>2, ExecuteCompensationMoves DEF Moves
  <2>13. ASSUME SettleCompensation(d) PROVE Goal
    BY <1>0, <2>13, SettleCompensationMoves
  <2> QED BY <1>1, <2>1, <2>2, <2>3, <2>4, <2>5, <2>6, <2>7, <2>8, <2>9, <2>10, <2>11,
        <2>12, <2>13 DEF Step, Start
<1> QED BY <1>1, GovernType DEF Next, vars

\* Success and effects are final; a record is never deleted.
LEMMA Stable ==
  ASSUME TypeOK, ResultInv, [Next]_vars
  PROVE  /\ effects \subseteq effects'
         /\ \A s \in Seq : /\ journal[s].status = "succeeded" => journal'[s].status = "succeeded"
                           /\ journal[s].status # "none" => journal'[s].status # "none"
BY StatusSteps DEF SameStatus, StatusPlanned, StatusMoved, StatusEffect

\* The journal has no gaps, and nobody overtakes an unfinished record.
LEMMA OrderStep ==
  ASSUME TypeOK, ResultInv, OrderInv, [Next]_vars
  PROVE  OrderInv'
<1> USE DEF OrderInv
<1>t. Tasks \in Nat /\ effects \subseteq Seq /\ Seq = 1..Tasks
  BY RunAssumption DEF TypeOK, Seq
<1>b. ASSUME NEW s \in Seq, Before(s) PROVE Before(s)'
  BY <1>b, <1>t, Stable DEF Before
<1>1. Gapless'
  <2>1. CASE \E d \in Driver : StatusPlanned(d)
    BY <1>t, <2>1 DEF StatusPlanned, SameStatus, Gapless
  <2>2. CASE \A s \in Seq : SameStatus(s) BY <1>t, <2>2 DEF SameStatus, Gapless
  <2>3. CASE \E s \in Seq : StatusMoved(s)
    <3>1. \A s \in Seq : journal'[s].status = "none" <=> journal[s].status = "none"
      BY <2>3 DEF StatusMoved, SameStatus
    <3> QED BY <1>t, <3>1 DEF Gapless
  <2> QED BY <2>1, <2>2, <2>3, StatusSteps DEF StatusEffect
<1>2. StrictOrder'
  <2> SUFFICES ASSUME NEW s \in Seq,
                      journal'[s].status \notin {"none", "planned"} \/ s \in effects'
               PROVE  Before(s)'
    BY DEF StrictOrder, Before
  <2>1. CASE journal[s].status \notin {"none", "planned"} \/ s \in effects
    BY <1>b, <2>1 DEF StrictOrder, Before
  <2>2. CASE ~ (journal[s].status \notin {"none", "planned"} \/ s \in effects)
    <3>1. \E d \in Driver : local[d].pc \in {"claim", "tool"} /\ local[d].seq = s
      BY <2>2, StatusSteps DEF SameStatus, StatusPlanned, StatusMoved, StatusEffect, At
    <3> QED BY <1>b, <3>1
  <2> QED BY <2>1, <2>2
<1>3. (\A s \in Seq : journal[s].status = "succeeded" => s \in effects)'
  BY StatusSteps, Stable DEF SameStatus, StatusPlanned, StatusMoved, StatusEffect
<1>4. ASSUME NEW e \in Driver, local'[e].pc \in {"claim", "tool", "settle"}
      PROVE  \E s \in Seq :
               /\ s = local'[e].seq /\ journal'[s].status # "none" /\ Before(s)'
               /\ local'[e].pc = "settle" /\ local'[e].result = "ok" => s \in effects'
  <2>1. CASE local'[e] = local[e]
    BY <1>b, <1>4, <2>1, Stable DEF At
  <2>2. CASE /\ local[e].pc \in {"claim", "tool"} /\ local'[e].seq = local[e].seq
             /\ At(e, "settle")' /\ local'[e].result = "ok" => local'[e].seq \in effects'
    BY <1>b, <2>2, Stable DEF At
  <2>3. CASE /\ UNCHANGED <<journal, effects>> /\ local'[e].pc = "claim"
             /\ local'[e].seq \in Seq /\ IsNext(local'[e].seq)
    <3>1. \A s \in Seq : IsNext(s) => journal[s].status # "none" /\ Before(s)
      BY <1>t DEF IsNext, Unfinished, Gapless, Before
    <3>2. PICK s \in Seq : s = local'[e].seq BY <2>3
    <3>3. journal'[s].status # "none" /\ Before(s)' BY <1>b, <2>3, <3>1, <3>2
    <3> QED BY <2>3, <3>2, <3>3
  <2> QED BY <1>4, <2>1, <2>2, <2>3, SeqSteps
<1>5. \A e \in Driver : (local[e].pc \in {"claim", "tool", "settle"} =>
        local[e].seq \in Seq /\ journal[local[e].seq].status # "none" /\ Before(local[e].seq))'
  BY <1>4 DEF Before
<1>6. \A e \in Driver : (At(e, "settle") /\ local[e].result = "ok" => local[e].seq \in effects)'
  BY <1>4 DEF At
<1> QED BY <1>1, <1>2, <1>3, <1>5, <1>6

-----------------------------------------------------------------------------
(* The phases of a run *)

\* The ways a step writes the status and the checkpoint of the run.
RunBecomes(st, cp) == run'.status = st /\ run'.checkpoint = cp

Committed(d) ==
    /\ At(d, "commit") /\ local'[d].pc \in {"idle", "mark"}
    /\ \/ run.status = "canceling" /\ RunBecomes("canceled", "none")
       \/ run.status = "running" /\ \E st \in {"canceled", "failed"} : RunBecomes(st, "none")
       \/ /\ run.status = "running" /\ local[d].result = "success"
          /\ RunBecomes("success", "none")
       \/ /\ run.status = "running" /\ local[d].result \in {"wait", "approval"}
          /\ run'.status = "suspended" /\ run'.checkpoint # "compensation"

Driven(d) ==
    \/ At(d, "mark") /\ ~ NoJournal /\ RunBecomes("compensating", "none")
    \/ At(d, "completeRun") /\ RunBecomes("compensated", "none")
    \/ At(d, "failRun") /\ RunBecomes("compensation_failed", "none")
    \/ At(d, "suspendRun") /\ RunBecomes("suspended", "compensation")

Governed ==
    \/ run.status = "running" /\ RunBecomes("canceling", run.checkpoint)
    \/ run.status = "suspended" /\ \E st \in {"rejected", "failed"} : RunBecomes(st, "none")

\* All the ways a step changes the run record's status and checkpoint.
LEMMA RunSteps ==
  ASSUME TypeOK, ResultInv, ExecInv, [Next]_vars
  PROVE  \/ RunBecomes(run.status, run.checkpoint)
         \/ run.status = "suspended" /\ RunBecomes("running", run.checkpoint)
         \/ Governed
         \/ \E d \in Driver : Committed(d) \/ Driven(d)
<1> USE DEF RunBecomes
<1>1. ASSUME NEW d \in Driver, CommitRun(d)
      PROVE  RunBecomes(run.status, run.checkpoint) \/ Committed(d)
  <2>1. At(d, "commit") BY <1>1 DEF CommitRun
  <2>2. local'[d].pc \in {"idle", "mark"} BY <1>1, CommitRunType, CommitRunMoves
  <2>3. run.token <= tokens BY DEF ExecInv
  <2> QED BY <1>1, <2>1, <2>2, <2>3, CommitRunWrites, ClearedFields DEF Committed
<1>2. ASSUME NEW d \in Driver, MarkCompensating(d)
      PROVE  RunBecomes(run.status, run.checkpoint) \/ Driven(d)
  <2>1. At(d, "mark") BY <1>2 DEF MarkCompensating
  <2> QED BY <1>2, <2>1, MarkCompensatingMoves, ClearedFields DEF Driven
<1>3. ASSUME NEW d \in Driver, FinishCompensationRun(d) PROVE Driven(d)
  <2>1. \/ At(d, "completeRun") /\ run' = Cleared("compensated")
        \/ At(d, "failRun") /\ run' = Cleared("compensation_failed")
        \/ At(d, "suspendRun") /\ run'.status = "suspended" /\ run'.checkpoint = "compensation"
    BY <1>3 DEF FinishCompensationRun
  <2> QED BY <2>1, ClearedFields DEF Driven
<1>4. ASSUME NEW d \in Driver, ClaimWorkflowRunResume(d)
      PROVE  \/ RunBecomes(run.status, run.checkpoint)
             \/ run.status = "suspended" /\ RunBecomes("running", run.checkpoint)
  BY <1>4, ClaimWorkflowRunResumeMoves DEF ResumeMatches, Claimed
<1>5. ASSUME NEW d \in Driver, Step(d) \/ Start(d) \/ Crash(d),
             ~ CommitRun(d), ~ MarkCompensating(d), ~ FinishCompensationRun(d),
             ~ ClaimWorkflowRunResume(d)
      PROVE  UNCHANGED run
  BY <1>5, Zenon DEF Step, Start, Crash, Execute, PersistPlan, CommitFails, RefuseResume,
     SelectCompensation, ClaimCompensation, ExecuteCompensation, SettleCompensation,
     ResumeWorkflowRun, RetryWorkflowCompensation, Reconcile
<1>6. CASE Govern BY <1>6, GovernWrites DEF Governed
<1>7. CASE UNCHANGED vars BY <1>7 DEF vars
<1> QED BY <1>1, <1>2, <1>3, <1>4, <1>5, <1>6, <1>7 DEF Next

\* How a driver comes to execute the run, and to drive its compensations.
Entering(e) ==
    \/ At(e, "executing") /\ local'[e].pc \in {"plan", "commit"}
    \/ /\ At(e, "plan") /\ local'[e].pc = "commit"
       /\ local'[e].result \in {"failed", "canceled"}
    \/ /\ At(e, "claimWorkflow") /\ ResumeMatches(e) /\ run' = Claimed
       /\ local'[e].pc = "executing"

Marking(e) ==
    /\ local'[e].pc = "mark"
    /\ \/ CommitRun(e) /\ local[e].result \in {"failed", "canceled"}
       \/ run.status \in RecoverableCompensation /\ UNCHANGED run
       \/ At(e, "claimCompensation") /\ ResumeMatches(e) /\ run' = Claimed

OnDrive(e) ==
    \/ At(e, "mark") /\ ~ NoJournal /\ local'[e].pc = "next"
    \/ /\ Driving(e) /\ Driving(e)'
       /\ local'[e].pc = "completeRun" => Unfinished = {} /\ UNCHANGED journal

\* All the ways a step changes one driver's place in the code.
LEMMA LocalSteps ==
  ASSUME TypeOK, ResultInv, [Next]_vars, NEW e \in Driver
  PROVE  \/ local'[e] = local[e]
         \/ local'[e].pc \in {"idle", "claimWorkflow", "claimCompensation"}
         \/ local'[e].pc = "commit" /\ local'[e].result = "refused"
         \/ Entering(e) \/ Marking(e) \/ OnDrive(e)
<1> USE DEF Entering, Marking, OnDrive, Driving, At
<1> DEFINE Goal(d) == \/ local'[d] = local[d]
                      \/ local'[d].pc \in {"idle", "claimWorkflow", "claimCompensation"}
                      \/ local'[d].pc = "commit" /\ local'[d].result = "refused"
                      \/ Entering(d) \/ Marking(d) \/ OnDrive(d)
<1>1. ASSUME NEW d \in Driver, Step(d) \/ Start(d) \/ Crash(d) PROVE Moves(d) /\ Goal(d)
  <2>1. ASSUME NEW r \in ExecutionResult, Execute(d, r) PROVE Moves(d) /\ Goal(d)
    <3>1. local[d].pc = "executing" BY <2>1, Zenon DEF Execute
    <3> QED BY <2>1, <3>1, ExecuteMoves
  <2>2. ASSUME PersistPlan(d) PROVE Moves(d) /\ Goal(d)
    <3>1. local[d].pc = "plan" BY <2>2, Zenon DEF PersistPlan
    <3>2. local[d].result \in {"failed", "canceled"} BY <3>1 DEF ResultInv, ResultOK
    <3> QED BY <2>2, <3>1, <3>2, PersistPlanMoves
  <2>3. ASSUME CommitRun(d) PROVE Moves(d) /\ Goal(d)
    BY <2>3, CommitRunType, CommitRunMoves
  <2>4. ASSUME CommitFails(d) \/ Crash(d) \/ FinishCompensationRun(d) PROVE Moves(d) /\ Goal(d)
    BY <2>4, LeaveMoves DEF CommitFails, Crash, FinishCompensationRun
  <2>5. ASSUME NEW t \in 0..tokens, ResumeWorkflowRun(d, t) PROVE Moves(d) /\ Goal(d)
    <3>1. UNCHANGED run BY <2>5, Zenon DEF ResumeWorkflowRun
    <3> QED BY <2>5, <3>1, ResumeWorkflowRunMoves
  <2>6. ASSUME RetryWorkflowCompensation(d) \/ Reconcile(d) PROVE Moves(d) /\ Goal(d)
    <3>1. UNCHANGED run BY <2>6, Zenon DEF RetryWorkflowCompensation, Reconcile
    <3> QED BY <2>6, <3>1, StartDriveMoves
  <2>7. ASSUME RefuseResume(d) PROVE Moves(d) /\ Goal(d) BY <2>7, RefuseResumeMoves
  <2>8. ASSUME ClaimWorkflowRunResume(d) PROVE Moves(d) /\ Goal(d)
    BY <2>8, ClaimWorkflowRunResumeMoves
  <2>9. ASSUME MarkCompensating(d) PROVE Moves(d) /\ Goal(d)
    <3>1. local[d].pc = "mark" BY <2>9, Zenon DEF MarkCompensating
    <3> QED BY <2>9, <3>1, MarkCompensatingMoves
  <2>10. ASSUME SelectCompensation(d) PROVE Moves(d) /\ Goal(d)
    <3>1. local[d].pc = "next" /\ UNCHANGED journal BY <2>10, Zenon DEF SelectCompensation
    <3> QED BY <2>10, <3>1, SelectCompensationMoves
  <2>11. ASSUME ClaimCompensation(d) PROVE Moves(d) /\ Goal(d)
    <3>1. local[d].pc = "claim" BY <2>11, Zenon DEF ClaimCompensation
    <3> QED BY <2>11, <3>1, ClaimCompensationMoves
  <2>12. ASSUME NEW r \in {"ok", "pending", "error"}, ExecuteCompensation(d, r)
         PROVE  Moves(d) /\ Goal(d)
    <3>1. local[d].pc = "tool" BY <2>12, Zenon DEF ExecuteCompensation
    <3> QED BY <2>12, <3>1, ExecuteCompensationMoves
  <2>13. ASSUME SettleCompensation(d) PROVE Moves(d) /\ Goal(d)
    <3>1. local[d].pc = "settle" BY <2>13, Zenon DEF SettleCompensation
    <3> QED BY <2>13, <3>1, SettleCompensationMoves
  <2> HIDE DEF Goal
  <2> QED BY <1>1, <2>1, <2>2, <2>3, <2>4, <2>5, <2>6, <2>7, <2>8, <2>9, <2>10, <2>11,
        <2>12, <2>13 DEF Step, Start
<1>2. ASSUME NEW d \in Driver, Moves(d), Goal(d) PROVE Goal(e)
  <2>1. CASE d = e BY <1>2, <2>1
  <2>2. CASE d # e BY <1>2, <2>2 DEF Moves
  <2> QED BY <2>1, <2>2
<1>3. ASSUME UNCHANGED local PROVE Goal(e) BY <1>3
<1> HIDE DEF Goal
<1>4. Goal(e) BY <1>1, <1>2, <1>3, GovernType DEF Next, vars
<1> QED BY <1>4 DEF Goal

\* Only the execution creates records, and only once.
LEMMA JournalAppears ==
  ASSUME TypeOK, ResultInv, [Next]_vars
  PROVE  /\ ~ NoJournal => ~ NoJournal'
         /\ NoJournal => NoJournal' \/ \E d \in Driver : PersistPlan(d)
<1>1. ~ NoJournal => ~ NoJournal' BY Stable DEF NoJournal
<1>2. NoJournal => NoJournal' \/ \E d \in Driver : PersistPlan(d)
  BY StatusSteps DEF NoJournal, StatusPlanned, StatusMoved, StatusEffect, SameStatus
<1> QED BY <1>1, <1>2

\* The journal is written before it is driven, and never again.
LEMMA PlanStep ==
  ASSUME TypeOK, ResultInv, ExecInv, PlanInv, [Next]_vars
  PROVE  PlanInv'
<1> USE DEF PlanInv
<1>p. ASSUME NEW d \in Driver, PersistPlan(d)
      PROVE  Executing(d) /\ At(d, "plan") /\ Moves(d) /\ ~ Forward(d)' /\ UNCHANGED run
  <2>1. At(d, "plan") /\ UNCHANGED run BY <1>p, Zenon DEF PersistPlan
  <2>2. local[d].result \in {"failed", "canceled"} BY <2>1 DEF ResultInv, ResultOK, At
  <2> QED BY <1>p, <2>1, <2>2, PersistPlanMoves DEF Executing, Forward, At
<1>f. \A d \in Driver : Forward(d) => Executing(d) BY DEF Forward, Executing
<1>m. ASSUME NEW e \in Driver, At(e, "claimWorkflow"), ResumeMatches(e)
      PROVE  run.status = "suspended" /\ run.checkpoint # "compensation"
  BY <1>m DEF ExecInv, ResumeMatches
<1>1. ASSUME NEW e \in Driver, Forward(e)' PROVE NoJournal'
  <2>1. Forward(e) \/ (At(e, "claimWorkflow") /\ ResumeMatches(e))
    BY <1>1, LocalSteps DEF Entering, Marking, OnDrive, Forward, Driving, At
  <2>2. NoJournal BY <1>m, <2>1
  <2>3. ASSUME NEW d \in Driver, PersistPlan(d) PROVE FALSE
    <3>1. Executing(d) /\ At(d, "plan") /\ ~ Forward(d)' BY <1>p, <2>3
    <3>2. ~ (At(e, "claimWorkflow") /\ ResumeMatches(e)) BY <1>m, <3>1 DEF ExecInv
    <3>3. d = e BY <1>f, <2>1, <3>1, <3>2 DEF ExecInv, SingleExecution
    <3> QED BY <1>1, <3>1, <3>3
  <2> QED BY <2>2, <2>3, JournalAppears
<1>2. ASSUME NEW e \in Driver, Driving(e)' PROVE ~ NoJournal'
  <2>1. Driving(e) \/ ~ NoJournal
    BY <1>2, LocalSteps DEF Entering, Marking, OnDrive, Driving, At
  <2> QED BY <2>1, JournalAppears
<1>3. ASSUME run'.checkpoint = "compensation" PROVE ~ NoJournal'
  <2>1. run.checkpoint = "compensation" \/ \E d \in Driver : At(d, "suspendRun")
    BY <1>3, RunSteps DEF Committed, Driven, Governed, RunBecomes
  <2> QED BY <2>1, JournalAppears DEF Driving, At
<1>4. ASSUME run'.status = "suspended", run'.checkpoint # "compensation" PROVE NoJournal'
  <2>1. \/ run.status = "suspended" /\ run.checkpoint # "compensation"
        \/ \E d \in Driver : /\ At(d, "commit") /\ run.status = "running"
                             /\ local[d].result \in {"wait", "approval"}
    BY <1>4, RunSteps DEF Committed, Driven, Governed, RunBecomes
  <2>2. NoJournal BY <2>1 DEF Forward
  <2>3. ASSUME NEW d \in Driver, PersistPlan(d) PROVE FALSE
    <3>1. Executing(d) /\ At(d, "plan") /\ UNCHANGED run BY <1>p, <2>3
    <3> QED BY <1>4, <3>1 DEF ExecInv
  <2> QED BY <2>2, <2>3, JournalAppears
<1> QED BY <1>1, <1>2, <1>3, <1>4

\* A run does not return from its compensations to its main phase.
LEMMA PhaseStep ==
  ASSUME TypeOK, ResultInv, ExecInv, PlanInv, PhaseInv, [Next]_vars
  PROVE  PhaseInv'
<1> USE DEF PhaseInv
<1>f. ASSUME NEW d \in Driver, PersistPlan(d) PROVE Executing(d) /\ NoJournal
  BY <1>f DEF PersistPlan, PlanInv, Forward, Executing, At
<1>m. ~ MainPhase => ~ MainPhase'
  <2>1. ASSUME NEW d \in Driver, Committed(d), ~ MainPhase PROVE ~ MainPhase'
    <3>1. ~ (At(d, "commit") /\ local[d].result \in {"wait", "approval"} /\ run.status = "running")
      BY <2>1 DEF MainPhase, PlanInv, Forward
    <3> QED BY <2>1, <3>1 DEF Committed, RunBecomes, MainPhase
  <2> QED BY <2>1, RunSteps DEF Driven, Governed, RunBecomes, MainPhase
<1>u. ASSUME Unfinished = {}, ~ NoJournal PROVE (Unfinished = {})'
  <2>1. \A s \in Seq : ~ StatusMoved(s) BY <1>u DEF StatusMoved, Unfinished
  <2>2. \A d \in Driver : ~ StatusPlanned(d) BY <1>f, <1>u DEF StatusPlanned
  <2>3. \A s \in Seq : SameStatus(s) BY <2>1, <2>2, StatusSteps DEF StatusEffect
  <2> QED BY <1>u, <2>3 DEF Unfinished, SameStatus
<1>1. ASSUME NEW e \in Driver, (At(e, "mark") \/ Driving(e))' PROVE ~ MainPhase'
  <2>1. CASE At(e, "mark") \/ Driving(e) BY <1>m, <2>1
  <2>2. CASE Marking(e)
    <3>1. CASE CommitRun(e) /\ local[e].result \in {"failed", "canceled"}
      <4>1. At(e, "commit") /\ Executing(e) BY <3>1 DEF CommitRun, Executing
      <4>2. run.token <= tokens BY DEF ExecInv
      <4>3. run.status = "suspended" => run.checkpoint = "compensation" BY <4>1 DEF ExecInv
      <4> QED BY <3>1, <4>2, <4>3, CommitRunWrites, ClearedFields DEF MainPhase
    <3>2. CASE run.status \in RecoverableCompensation /\ UNCHANGED run
      BY <3>2 DEF RecoverableCompensation, MainPhase
    <3>3. CASE At(e, "claimCompensation") /\ ResumeMatches(e) /\ run' = Claimed
      <4>1. run.checkpoint = "compensation" BY <3>3 DEF ExecInv, ResumeMatches
      <4> QED BY <3>3, <4>1 DEF Claimed, MainPhase
    <3> QED BY <2>2, <3>1, <3>2, <3>3 DEF Marking
  <2> QED BY <1>1, <2>1, <2>2, LocalSteps DEF Entering, OnDrive, Driving, At
<1>2. ASSUME NEW e \in Driver, At(e, "completeRun")' PROVE (Unfinished = {})'
  <2>1. CASE local'[e] = local[e]
    <3>1. At(e, "completeRun") BY <1>2, <2>1 DEF At
    <3>2. Unfinished = {} /\ ~ NoJournal BY <3>1 DEF PlanInv, Driving, At
    <3> QED BY <1>u, <3>2
  <2>2. CASE OnDrive(e) BY <1>2, <2>2 DEF OnDrive, At, Unfinished
  <2> QED BY <1>2, <2>1, <2>2, LocalSteps DEF Entering, Marking, At
<1>3. ASSUME run'.status = "compensated" PROVE (Unfinished = {})' /\ ~ NoJournal'
  <2>1. run.status = "compensated" \/ \E d \in Driver : At(d, "completeRun")
    BY <1>3, RunSteps DEF Committed, Driven, Governed, RunBecomes
  <2>2. Unfinished = {} /\ ~ NoJournal BY <2>1 DEF PlanInv, Driving, At
  <2> QED BY <1>u, <2>2, JournalAppears
<1>4. ASSUME run'.status = "success" PROVE NoJournal' /\ \A e \in Driver : ~ Executing(e)'
  <2>0. ASSUME NEW e \in Driver, Executing(e)'
        PROVE  Executing(e) \/ run.status = "suspended"
    BY <2>0, LocalSteps DEF Entering, Marking, OnDrive, Driving, Executing, ResumeMatches, At
  <2>1. CASE run.status = "success"
    BY <1>f, <2>0, <2>1, JournalAppears
  <2>2. CASE run.status # "success"
    <3>1. PICK d \in Driver : /\ At(d, "commit") /\ local[d].result = "success"
                              /\ local'[d].pc \in {"idle", "mark"} /\ run.status = "running"
      BY <1>4, <2>2, RunSteps DEF Committed, Driven, Governed, RunBecomes
    <3>2. NoJournal /\ Executing(d) /\ ~ Executing(d)'
      BY <3>1 DEF PlanInv, Forward, Executing, At
    <3>3. \A e \in Driver : Executing(e) => e = d
      BY <3>2 DEF ExecInv, SingleExecution
    <3>4. \A e \in Driver : ~ PersistPlan(e)
      BY <1>f, <3>1, <3>3 DEF PersistPlan, At
    <3> QED BY <2>0, <3>1, <3>2, <3>3, <3>4, JournalAppears
  <2> QED BY <2>1, <2>2
<1> QED BY <1>1, <1>2, <1>3, <1>4

-----------------------------------------------------------------------------
(* The theorems *)

\* A new run has one execution and no journal.
LEMMA InitInv ==
  ASSUME Init
  PROVE  IInv
<1> USE RunAssumption
<1>1. PICK d \in Driver :
        local = [e \in Driver |-> IF e = d THEN Got(Idle, "executing", "none") ELSE Idle]
  BY DEF Init
<1>2. Got(Idle, "executing", "none") \in Local /\ Got(Idle, "executing", "none").pc = "executing"
  <2>1. "executing" \in PC /\ "none" \in Result BY DEF PC, Result
  <2> QED BY <2>1, Writes, GotFields
<1>3. local \in [Driver -> Local] BY <1>1, <1>2, Writes
<1>4. \A e \in Driver : local[e].pc = IF e = d THEN "executing" ELSE "idle"
  BY <1>1, <1>2 DEF Idle
<1>5. run \in Run /\ run.status = "running" /\ run.token = 0 /\ run.checkpoint = "none"
  BY Writes, ClearedFields DEF Init, RunStatus
<1>6. journal \in [Seq -> Record] /\ \A s \in Seq : journal[s].status = "none"
  BY Writes DEF Init, RecordStatus, Unclaimed
<1>7. TypeOK BY <1>3, <1>5, <1>6 DEF Init, TypeOK, ApprovalStatus
<1>8. ResultInv BY <1>4 DEF ResultInv, ResultOK
<1>9. ExecInv BY <1>4, <1>5 DEF Init, ExecInv, SingleExecution, Executing, At
<1>10. PlanInv BY <1>4, <1>5, <1>6 DEF PlanInv, Driving, NoJournal
<1>11. OrderInv BY <1>4, <1>6 DEF Init, OrderInv, Gapless, StrictOrder, At
<1>12. PhaseInv BY <1>4, <1>5, <1>6 DEF PhaseInv, Driving, At
<1> QED BY <1>7, <1>8, <1>9, <1>10, <1>11, <1>12 DEF IInv

\* The inductive invariant, for any number of concurrent drivers: requests,
\* resumes, retries and reconcilers of one workflow run.
THEOREM InductiveInvariant == Spec => []IInv
<1>1. Init => IInv BY InitInv
<1>2. IInv /\ [Next]_vars => IInv'
  BY TypeStep, ResultStep, ExecStep, PlanStep, OrderStep, PhaseStep DEF IInv
<1> QED BY <1>1, <1>2, PTL DEF Spec

\* Every record the actions write has the shape the code stores.
THEOREM TypeCorrect == Spec => []TypeOK
<1>1. IInv => TypeOK BY DEF IInv
<1> QED BY <1>1, InductiveInvariant, PTL

\* However many requests resume the run at once, with current or stale
\* tokens, ClaimWorkflowRunResume lets one of them execute it.
THEOREM OneExecution == Spec => []SingleExecution
<1>1. IInv => SingleExecution BY DEF IInv, ExecInv
<1> QED BY <1>1, InductiveInvariant, PTL

\* Compensations take effect in the order of the journal, whatever drivers
\* race for them, whoever crashes and whichever leases run out.
THEOREM CompensationOrder == Spec => []StrictOrder
<1>1. IInv => StrictOrder BY DEF IInv, OrderInv
<1> QED BY <1>1, InductiveInvariant, PTL

\* completeWorkflowCompensationRun reports "compensated" only when every
\* record of the journal has had its effect, and a successful run has none.
THEOREM TrueOutcome == Spec => []OutcomeIsTrue
<1>1. IInv => OutcomeIsTrue
  BY DEF IInv, PhaseInv, OrderInv, OutcomeIsTrue, NoJournal, Unfinished
<1> QED BY <1>1, InductiveInvariant, PTL

\* A cancellation stored while the workflow executes ends in "canceled": no
\* commit, resume, decision or compensation driver overwrites it.
THEOREM CancellationWins == Spec => CancelConverges
<1>1. ASSUME IInv, [Next]_vars, run.status = "canceling", run.checkpoint # "compensation"
      PROVE  run'.status \in {"canceling", "canceled"}
  <2>1. MainPhase BY <1>1 DEF MainPhase
  <2>2. \A d \in Driver : ~ At(d, "mark") /\ ~ Driving(d) BY <1>1, <2>1 DEF IInv, PhaseInv
  <2>3. \A d \in Driver : ~ Driven(d) BY <2>2 DEF Driven, Driving, At
  <2> QED BY <1>1, <2>3, RunSteps DEF IInv, Committed, Governed, RunBecomes
<1>2. IInv /\ [Next]_vars =>
        [run.status = "canceling" /\ run.checkpoint # "compensation"
           => run'.status \in {"canceling", "canceled"}]_vars
  BY <1>1
<1> QED BY <1>2, InductiveInvariant, PTL DEF Spec, CancelConverges

\* While the lease of an attempt is valid, only the driver that claimed it
\* changes the record: claims, rejections and late settlements do not.
THEOREM LeaseProtects == Spec => LeaseHolds
<1> DEFINE Held(s) == journal[s].status = "executing" /\ journal[s].lease =>
             \/ journal'[s].status = "executing" /\ journal'[s].attempt = journal[s].attempt
             \/ local[journal[s].attempt].pc = "settle"
<1>1. ASSUME IInv, Next, NEW s \in Seq PROVE Held(s)
  <2>t. journal \in [Seq -> Record] /\ TypeOK /\ ResultInv BY <1>1 DEF IInv, TypeOK
  <2>1. ASSUME UNCHANGED journal PROVE Held(s) BY <2>1
  <2>2. ASSUME NEW d \in Driver, PersistPlan(d) PROVE Held(s)
    <3>1. journal[s].status # "none" => journal'[s] = journal[s] BY <2>2 DEF PersistPlan
    <3> QED BY <3>1
  <2>3. ASSUME NEW d \in Driver, ClaimCompensation(d) PROVE Held(s)
    <3>1. journal[local[d].seq].status = "executing" /\ journal[local[d].seq].lease
            => ~ Claimable(d, local[d].seq)
      BY Zenon DEF Claimable, LeaseExpired
    <3>2. \/ UNCHANGED journal
          \/ /\ Claimable(d, local[d].seq)
             /\ \A t \in Seq \ {local[d].seq} : journal'[t] = journal[t]
      BY <2>t, <2>3, ClaimCompensationMoves
    <3> QED BY <2>1, <3>1, <3>2
  <2>4. ASSUME NEW d \in Driver, SettleCompensation(d) PROVE Held(s)
    <3>1. local[d].pc = "settle" BY <2>4, Zenon DEF SettleCompensation, At
    <3>2. \/ UNCHANGED journal
          \/ /\ journal[local[d].seq].attempt = d
             /\ \A t \in Seq \ {local[d].seq} : journal'[t] = journal[t]
      BY <2>t, <2>4, SettleCompensationMoves DEF OwnsAttempt
    <3> QED BY <2>1, <3>1, <3>2
  <2>5. ASSUME NEW k \in ApprovalID, RejectCompensation(k) PROVE Held(s)
    <3>1. journal[s].status # "suspended" => journal'[s] = journal[s]
      BY <2>t, <2>5 DEF RejectCompensation
    <3> QED BY <3>1
  <2>6. ASSUME NEW t \in Seq, LeaseExpires(t) PROVE Held(s)
    BY <2>t, <2>6 DEF LeaseExpires, Record
  <2> HIDE DEF Held
  <2>7. ASSUME Govern PROVE Held(s) BY <2>1, <2>5, <2>6, <2>7, GovernKeeps
  <2>8. ASSUME NEW d \in Driver, Step(d) \/ Start(d) \/ Crash(d) PROVE Held(s)
    BY <2>1, <2>2, <2>3, <2>4, <2>8, DriverKeeps
  <2> QED BY <1>1, <2>7, <2>8 DEF Next
<1>2. IInv /\ [Next]_vars => [\A s \in Seq : Held(s)]_vars BY <1>1
<1> QED BY <1>2, InductiveInvariant, PTL DEF Spec, LeaseHolds
=============================================================================
