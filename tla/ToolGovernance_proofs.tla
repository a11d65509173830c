------------------------ MODULE ToolGovernance_proofs ------------------------
(***************************************************************************)
(* Proofs about the governed tool, for any number of callers, keys, inputs *)
(* and calls, whatever stores fail, leases run out or processes die.       *)
(*                                                                         *)
(* The invariant IInv ties a call to the record of its key.  While its     *)
(* lease lasts the record is its own, so one handler runs; when the lease  *)
(* was outlived, the attempt written in the record decides whether the     *)
(* call may still commit, and an attempt that is written there came with   *)
(* the record's digest (CallOK).  A committed record is final and holds    *)
(* the result of its own input (ExecInv, FinalKept), and an answer is the  *)
(* result of the record (AnswerInv).  An approval that is used was decided *)
(* by a user and is never asked for again (ApprovalInv, GrantInv).         *)
(*                                                                         *)
(* First come the effects of the steps on one record at a time, then what  *)
(* they keep, part by part (Kept), and the theorems.                       *)
(***************************************************************************)
EXTENDS ToolGovernance, TLAPS

(* Attempt ids of callers are pairs, and name the caller.                  *)
LEMMA AttemptPairs ==
  /\ \A b, c, m, n : <<b, m>> = <<c, n>> <=> b = c /\ m = n
  /\ \A c, n : <<c, n>> # NoAttempt
BY DEF NoAttempt

-----------------------------------------------------------------------------
(* What a step does to the call that takes it                              *)

Moves(c) ==
    /\ call' \in [Callers -> Calls]
    /\ \A b \in Callers \ {c} : call'[b] = call[b]

Keeps(c) ==
    /\ call'[c].n = call[c].n /\ call'[c].key = call[c].key
    /\ call'[c].digest = call[c].digest

(* Nothing but the place changes.                                          *)
Walks(c) ==
    /\ Moves(c) /\ Keeps(c)
    /\ call'[c].tries = call[c].tries /\ call'[c].out = call[c].out
    /\ call'[c].late = call[c].late

(* A call whose record is replaced is the only one that moves.             *)
LEMMA SetMoves ==
  ASSUME TypeOK, NEW c \in Callers, NEW r \in Calls, call' = [call EXCEPT ![c] = r]
  PROVE  Moves(c) /\ call'[c] = r
BY DEF Moves, TypeOK

(* Goto changes the place only.                                            *)
LEMMA GotoWalks ==
  ASSUME TypeOK, NEW c \in Callers, NEW pc \in Places, Goto(c, pc)
  PROVE  Walks(c) /\ call'[c].pc = pc
<1> DEFINE r == [call[c] EXCEPT !.pc = pc]
<1>1. call[c] \in Calls
  BY DEF TypeOK
<1>2. call' = [call EXCEPT ![c] = r]
  BY DEF Goto
<1>3. /\ r \in Calls /\ r.pc = pc /\ r.n = call[c].n /\ r.key = call[c].key
      /\ r.digest = call[c].digest /\ r.tries = call[c].tries /\ r.out = call[c].out
      /\ r.late = call[c].late
  BY <1>1 DEF Calls
<1> HIDE DEF r
<1> QED BY <1>2, <1>3, SetMoves DEF Walks, Keeps

(* A result is taken to the place where it is used.                        *)
Takes(c, pc, out) == call' = [call EXCEPT ![c].pc = pc, ![c].out = out]

(* Nothing but place and result changes.                                   *)
LEMMA OutMoves ==
  ASSUME TypeOK, NEW c \in Callers, NEW pc \in Places, NEW out \in Outputs \cup {NoOutput},
         Takes(c, pc, out)
  PROVE  /\ Moves(c) /\ Keeps(c) /\ call'[c].pc = pc /\ call'[c].out = out
         /\ call'[c].tries = call[c].tries
         /\ call'[c].late = call[c].late
<1> DEFINE r == [call[c] EXCEPT !.pc = pc, !.out = out]
<1>1. call[c] \in Calls
  BY DEF TypeOK
<1>2. call' = [call EXCEPT ![c] = r]
  BY DEF TypeOK, Takes
<1>3. /\ r \in Calls /\ r.pc = pc /\ r.n = call[c].n /\ r.key = call[c].key
      /\ r.digest = call[c].digest /\ r.tries = call[c].tries /\ r.out = out
      /\ r.late = call[c].late
  BY <1>1 DEF Calls
<1> HIDE DEF r
<1> QED BY <1>2, <1>3, SetMoves DEF Keeps

(* The handler is tried again.                                             *)
Tries(c, pc, tries) == call' = [call EXCEPT ![c].pc = pc, ![c].tries = tries]

(* Nothing but place and number of tries changes.                          *)
LEMMA TriesMoves ==
  ASSUME TypeOK, NEW c \in Callers, NEW pc \in Places, NEW tries \in 1 .. MaxAttempts,
         Tries(c, pc, tries)
  PROVE  /\ Moves(c) /\ Keeps(c) /\ call'[c].pc = pc /\ call'[c].tries = tries
         /\ call'[c].out = call[c].out
         /\ call'[c].late = call[c].late
<1> DEFINE r == [call[c] EXCEPT !.pc = pc, !.tries = tries]
<1>1. call[c] \in Calls
  BY DEF TypeOK
<1>2. call' = [call EXCEPT ![c] = r]
  BY DEF TypeOK, Tries
<1>3. /\ r \in Calls /\ r.pc = pc /\ r.n = call[c].n /\ r.key = call[c].key
      /\ r.digest = call[c].digest /\ r.tries = tries /\ r.out = call[c].out
      /\ r.late = call[c].late
  BY <1>1 DEF Calls
<1> HIDE DEF r
<1> QED BY <1>2, <1>3, SetMoves DEF Keeps

(* The records of calls, with their locals replaced                        *)
Reset(r, pc, t, out, l) ==
    [r EXCEPT !.pc = pc, !.tries = t, !.out = out, !.late = l]

(* Key, digest and number are no locals.                                   *)
LEMMA ResetFields ==
  ASSUME NEW r \in Calls, NEW pc \in Places, NEW t \in 1 .. MaxAttempts,
         NEW out \in Outputs \cup {NoOutput}, NEW l \in BOOLEAN
  PROVE  /\ Reset(r, pc, t, out, l) \in Calls
         /\ Reset(r, pc, t, out, l).pc = pc
         /\ Reset(r, pc, t, out, l).n = r.n
         /\ Reset(r, pc, t, out, l).key = r.key
         /\ Reset(r, pc, t, out, l).digest = r.digest
BY DEF Reset, Calls

(* The record of a call that ended                                         *)
LEMMA IdleFields ==
  ASSUME NEW r \in Calls
  PROVE  /\ Idle(r) \in Calls /\ Idle(r).pc = "idle" /\ Idle(r).n = r.n
         /\ Idle(r).key = r.key /\ Idle(r).digest = r.digest
<1>1. 1 \in 1 .. MaxAttempts
  BY GovernanceAssumption
<1>2. "idle" \in Places
  BY DEF Places
<1>3. Idle(r) = Reset(r, "idle", 1, NoOutput, FALSE)
  BY DEF Idle, Reset
<1>4. NoOutput \in Outputs \cup {NoOutput} /\ FALSE \in BOOLEAN
  OBVIOUS
<1>5. ASSUME NEW l \in BOOLEAN, NEW t \in 1 .. MaxAttempts, NEW pc \in Places
      PROVE  /\ Reset(r, pc, t, NoOutput, l) \in Calls
             /\ Reset(r, pc, t, NoOutput, l).pc = pc
             /\ Reset(r, pc, t, NoOutput, l).n = r.n
             /\ Reset(r, pc, t, NoOutput, l).key = r.key
             /\ Reset(r, pc, t, NoOutput, l).digest = r.digest
  BY <1>4, ResetFields
<1>6. /\ Reset(r, "idle", 1, NoOutput, FALSE) \in Calls
      /\ Reset(r, "idle", 1, NoOutput, FALSE).pc = "idle"
      /\ Reset(r, "idle", 1, NoOutput, FALSE).n = r.n
      /\ Reset(r, "idle", 1, NoOutput, FALSE).key = r.key
      /\ Reset(r, "idle", 1, NoOutput, FALSE).digest = r.digest
  BY <1>1, <1>2, <1>4, <1>5
<1> QED BY <1>3, <1>6

(* A call that ended is idle.                                              *)
LEMMA ReturnMoves ==
  ASSUME TypeOK, NEW c \in Callers, Return(c)
  PROVE  Moves(c) /\ Keeps(c) /\ call'[c].pc = "idle"
<1>1. call[c] \in Calls
  BY DEF TypeOK
<1> DEFINE r == Idle(call[c])
<1>2. /\ r \in Calls /\ r.pc = "idle" /\ r.n = call[c].n
      /\ r.key = call[c].key /\ r.digest = call[c].digest
  BY <1>1, IdleFields
<1>3. call' = [call EXCEPT ![c] = r]
  BY DEF Return
<1> HIDE DEF r
<1> QED BY <1>2, <1>3, SetMoves DEF Keeps

(* A new call has a number no call had before.                             *)
LEMMA ExecuteMoves ==
  ASSUME TypeOK, NEW c \in Callers, NEW k \in Keys, NEW d \in Digests, Execute(c, k, d)
  PROVE  /\ Moves(c) /\ call[c].pc = "idle" /\ call'[c].n = call[c].n + 1
         /\ call'[c].pc \in {"authorize", "claim", "allow"}
         /\ NeedsApproval => call'[c].pc = "authorize"
         /\ NeedsKey => call'[c].pc # "allow"
         /\ UNCHANGED <<approval, exec, objects, breaker, answers>>
<1> DEFINE pc == IF NeedsApproval THEN "authorize" ELSE IF NeedsKey THEN "claim" ELSE "allow"
           n == call[c].n + 1
           r == [pc |-> pc, n |-> n, key |-> k, digest |-> d, tries |-> 1,
                 out |-> NoOutput, late |-> FALSE]
<1>1. /\ pc \in Places /\ pc \in {"authorize", "claim", "allow"}
      /\ NeedsApproval => pc = "authorize"
      /\ NeedsKey => pc # "allow"
  BY DEF Places
<1>2. n \in Nat /\ 1 \in 1 .. MaxAttempts
  BY GovernanceAssumption DEF TypeOK, Calls
<1>3. /\ call' = [call EXCEPT ![c] = r] /\ call[c].pc = "idle"
      /\ UNCHANGED <<approval, exec, objects, breaker, answers>>
  BY DEF Execute, At
<1> HIDE DEF pc, n
<1>4. r \in Calls /\ r.pc = pc /\ r.n = n
  BY <1>1, <1>2 DEF Calls
<1> HIDE DEF r
<1>5. Moves(c) /\ call'[c] = r
  BY <1>3, <1>4, SetMoves
<1> QED BY <1>1, <1>3, <1>4, <1>5 DEF n

-----------------------------------------------------------------------------
(* What a step does to the execution record                                *)

ExecStatuses == {"none", "executing", "succeeded", "failed"}

Writes(k, st, dg, at, out) ==
    /\ exec' \in [Keys -> Executions]
    /\ exec'[k].status = st /\ exec'[k].digest = dg /\ exec'[k].attempt = at
    /\ exec'[k].out = out
    /\ \A j \in Keys \ {k} : exec'[j] = exec[j]

(* A record of the right type is written.                                  *)
LEMMA WritesExec ==
  ASSUME TypeOK, NEW k \in Keys, NEW e \in Executions, exec' = [exec EXCEPT ![k] = e]
  PROVE  Writes(k, e.status, e.digest, e.attempt, e.out) /\ exec'[k] = e
BY DEF Writes, TypeOK

(* The fields of a record                                                  *)
LEMMA ExecFields ==
  ASSUME TypeOK, NEW k \in Keys
  PROVE  /\ exec[k] \in Executions /\ exec[k].status \in ExecStatuses
         /\ exec[k].digest \in Digests \cup {NoOutput}
         /\ exec[k].attempt \in Attempts \cup {NoAttempt} /\ exec[k].leased \in BOOLEAN
         /\ exec[k].out \in Outputs \cup {NoOutput}
<1>1. exec[k] \in Executions
  BY DEF TypeOK
<1>2. /\ exec[k].status \in ExecStatuses
      /\ exec[k].digest \in Digests \cup {NoOutput}
      /\ exec[k].attempt \in Attempts \cup {NoAttempt} /\ exec[k].leased \in BOOLEAN
      /\ exec[k].out \in Outputs \cup {NoOutput}
  BY <1>1 DEF Executions, ExecStatuses
<1> QED BY <1>1, <1>2

(* The locals of a call                                                    *)
LEMMA CallFields ==
  ASSUME TypeOK, NEW c \in Callers
  PROVE  /\ call[c] \in Calls /\ call[c].pc \in Places /\ call[c].n \in Nat
         /\ call[c].key \in Keys /\ call[c].digest \in Digests
         /\ call[c].tries \in 1 .. MaxAttempts /\ call[c].out \in Outputs \cup {NoOutput}
         /\ call[c].late \in BOOLEAN
         /\ Attempt(c) \in Attempts
<1>1. call[c] \in Calls
  BY DEF TypeOK
<1>2. /\ call[c].pc \in Places /\ call[c].n \in Nat
      /\ call[c].key \in Keys /\ call[c].digest \in Digests
      /\ call[c].tries \in 1 .. MaxAttempts /\ call[c].out \in Outputs \cup {NoOutput}
      /\ call[c].late \in BOOLEAN
  BY <1>1 DEF Calls
<1> QED BY <1>1, <1>2 DEF Attempt, Attempts

(* The first claim writes the digest too.                                  *)
LEMMA DigestFields ==
  ASSUME NEW e \in Executions, NEW d \in Digests
  PROVE  LET o == [e EXCEPT !.digest = d] IN
         /\ o \in Executions /\ o.status = e.status /\ o.digest = d /\ o.attempt = e.attempt
         /\ o.leased = e.leased /\ o.out = e.out
BY DEF Executions

Ends(e, st, l, out) == [e EXCEPT !.status = st, !.leased = l, !.out = out]
(* An attempt ends with a result, or without one.                          *)
LEMMA OutcomeFields ==
  ASSUME NEW e \in Executions, NEW st \in ExecStatuses, NEW l \in BOOLEAN,
         NEW out \in Outputs \cup {NoOutput}
  PROVE  /\ Ends(e, st, l, out) \in Executions /\ Ends(e, st, l, out).status = st
         /\ Ends(e, st, l, out).digest = e.digest /\ Ends(e, st, l, out).attempt = e.attempt
         /\ Ends(e, st, l, out).out = out
BY DEF Executions, ExecStatuses, Ends

Ended(e, st, out) == Ends(e, st, FALSE, out)
(* The same, with the lease given up                                       *)
LEMMA EndFields ==
  ASSUME NEW e \in Executions, NEW st \in ExecStatuses, NEW out \in Outputs \cup {NoOutput}
  PROVE  /\ Ended(e, st, out) \in Executions /\ Ended(e, st, out).status = st
         /\ Ended(e, st, out).digest = e.digest
         /\ Ended(e, st, out).attempt = e.attempt /\ Ended(e, st, out).out = out
<1>1. ASSUME NEW l \in BOOLEAN
      PROVE  /\ Ends(e, st, l, out) \in Executions /\ Ends(e, st, l, out).status = st
             /\ Ends(e, st, l, out).digest = e.digest
             /\ Ends(e, st, l, out).attempt = e.attempt /\ Ends(e, st, l, out).out = out
  BY OutcomeFields
<1>2. FALSE \in BOOLEAN
  OBVIOUS
<1> QED BY <1>1, <1>2 DEF Ended

(* A claim is one of these records.                                        *)
LEMMA ClaimedFields ==
  ASSUME TypeOK, NEW c \in Callers, NEW e \in Executions
  PROVE  LET o == Claimed(e, c) IN
         /\ o \in Executions /\ o.status = "executing" /\ o.digest = e.digest
         /\ o.attempt = Attempt(c) /\ o.leased /\ o.out = e.out
<1>1. Attempt(c) \in Attempts \cup {NoAttempt} /\ "executing" \in ExecStatuses
  BY CallFields DEF ExecStatuses
<1> QED BY <1>1 DEF Claimed, Executions, ExecStatuses

(* ClaimToolExecution up to its read                                       *)
LEMMA ClaimSteps ==
  ASSUME TypeOK, NEW c \in Callers, Claim(c)
  PROVE  /\ UNCHANGED <<approval, objects, breaker, answers>>
         /\ call[c].pc = "claim" /\ Moves(c) /\ Keeps(c) /\ call'[c].late = call[c].late
         /\ \/ /\ exec[call[c].key].status = "none" /\ call'[c].pc = "allow"
               /\ Writes(call[c].key, "executing", call[c].digest, Attempt(c), exec[call[c].key].out)
               /\ exec'[call[c].key].leased
            \/ UNCHANGED exec /\ call'[c].pc = "release"
            \/ /\ UNCHANGED exec /\ call'[c].pc \in {"load", "finish"}
               /\ exec[call[c].key].status = "succeeded" /\ exec[call[c].key].digest = call[c].digest
               /\ call'[c].out = exec[call[c].key].out
            \/ /\ UNCHANGED exec /\ call'[c].pc = "reclaim"
               /\ exec[call[c].key].status # "none" /\ exec[call[c].key].digest = call[c].digest
<1> DEFINE k == call[c].key
           e == exec[k]
<1>0. /\ {"allow", "release", "load", "finish", "reclaim"} \subseteq Places
      /\ k \in Keys /\ call[c].digest \in Digests /\ Attempt(c) \in Attempts
      /\ e.out \in Outputs \cup {NoOutput} /\ TRUE \in BOOLEAN /\ "executing" \in ExecStatuses
  BY CallFields, ExecFields DEF Places, ExecStatuses
<1>1. /\ call[c].pc = "claim" /\ UNCHANGED <<approval, objects, breaker, answers>>
  BY DEF Claim, At
<1>2. CASE /\ e.status = "none" /\ Goto(c, "allow")
           /\ exec' = [exec EXCEPT ![k] = [Claimed(e, c) EXCEPT !.digest = call[c].digest]]
  <2> DEFINE o == Claimed(e, c)
             q == [o EXCEPT !.digest = call[c].digest]
  <2>1. /\ o \in Executions /\ o.status = "executing" /\ o.attempt = Attempt(c)
        /\ o.leased /\ o.out = e.out
    BY <1>0, ExecFields, ClaimedFields
  <2> HIDE DEF o
  <2>2. /\ q \in Executions /\ q.status = "executing" /\ q.attempt = Attempt(c)
        /\ q.leased /\ q.out = e.out /\ q.digest = call[c].digest
    BY <1>0, <2>1, DigestFields
  <2>3. exec' = [exec EXCEPT ![k] = q]
    BY <1>2 DEF o
  <2> HIDE DEF q
  <2>4. Writes(k, q.status, q.digest, q.attempt, q.out) /\ exec'[k] = q
    BY <1>0, <2>2, <2>3, WritesExec
  <2>5. Writes(k, "executing", call[c].digest, Attempt(c), e.out)
    BY <2>2, <2>4
  <2>6. exec'[k].leased
    BY <2>2, <2>4
  <2>7. Walks(c) /\ call'[c].pc = "allow"
    BY <1>0, <1>2, GotoWalks
  <2> QED BY <1>1, <1>2, <2>5, <2>6, <2>7 DEF Walks
<1>3. CASE Goto(c, "release") /\ UNCHANGED exec
  BY <1>0, <1>1, <1>3, GotoWalks DEF Walks
<1>4. CASE /\ e.status = "succeeded" /\ SameInput(e, c) /\ UNCHANGED exec
           /\ call' = [call EXCEPT ![c].out = e.out,
                                   ![c].pc = IF Archived(e.out) THEN "load" ELSE "finish"]
  <2> DEFINE pc == IF Archived(e.out) THEN "load" ELSE "finish"
  <2>1. Takes(c, pc, e.out) /\ pc \in Places /\ pc \in {"load", "finish"}
    BY <1>0, <1>4 DEF TypeOK, Calls, Takes
  <2> HIDE DEF pc
  <2>2. Moves(c) /\ Keeps(c) /\ call'[c].pc = pc /\ call'[c].out = e.out /\ call'[c].late = call[c].late
    BY <1>0, <2>1, OutMoves
  <2> QED BY <1>1, <1>4, <2>1, <2>2 DEF SameInput
<1>5. CASE /\ Reclaimable(e) /\ SameInput(e, c) /\ Goto(c, "reclaim") /\ UNCHANGED exec
  BY <1>0, <1>1, <1>5, GotoWalks DEF Walks, Reclaimable, SameInput
<1> QED BY <1>2, <1>3, <1>4, <1>5 DEF Claim

(* The conditional update of the claim                                     *)
LEMMA ReclaimSteps ==
  ASSUME TypeOK, NEW c \in Callers, Reclaim(c)
  PROVE  /\ UNCHANGED <<approval, objects, breaker, answers>>
         /\ call[c].pc = "reclaim" /\ Walks(c)
         /\ \/ /\ Reclaimable(exec[call[c].key]) /\ call'[c].pc = "allow"
               /\ Writes(call[c].key, "executing", exec[call[c].key].digest, Attempt(c), exec[call[c].key].out)
               /\ exec'[call[c].key].leased
            \/ UNCHANGED exec /\ call'[c].pc = "release"
<1> DEFINE k == call[c].key
           e == exec[k]
<1>0. /\ {"allow", "release"} \subseteq Places
      /\ k \in Keys /\ Attempt(c) \in Attempts /\ e.digest \in Digests \cup {NoOutput}
      /\ e.out \in Outputs \cup {NoOutput} /\ TRUE \in BOOLEAN /\ "executing" \in ExecStatuses
  BY CallFields, ExecFields DEF Places, ExecStatuses
<1>1. /\ call[c].pc = "reclaim" /\ UNCHANGED <<approval, objects, breaker, answers>>
  BY DEF Reclaim, At
<1>2. CASE Reclaimable(e) /\ Goto(c, "allow") /\ exec' = [exec EXCEPT ![k] = Claimed(e, c)]
  <2> DEFINE o == Claimed(e, c)
  <2>1. /\ o \in Executions /\ o.status = "executing" /\ o.attempt = Attempt(c)
        /\ o.digest = e.digest /\ o.leased /\ o.out = e.out
    BY <1>0, ExecFields, ClaimedFields
  <2> HIDE DEF o
  <2>2. Writes(k, o.status, o.digest, o.attempt, o.out) /\ exec'[k] = o
    BY <1>0, <1>2, <2>1, WritesExec DEF o
  <2>3. Writes(k, "executing", e.digest, Attempt(c), e.out)
    BY <2>1, <2>2
  <2>4. exec'[k].leased
    BY <2>1, <2>2
  <2> QED BY <1>0, <1>1, <1>2, <2>3, <2>4, GotoWalks
<1>3. CASE Goto(c, "release") /\ UNCHANGED exec
  BY <1>0, <1>1, <1>3, GotoWalks
<1> QED BY <1>2, <1>3 DEF Reclaim

(* CompleteToolExecution                                                   *)
LEMMA CompleteSteps ==
  ASSUME TypeOK, NEW c \in Callers, Complete(c)
  PROVE  /\ UNCHANGED <<approval, objects, breaker, answers>>
         /\ call[c].pc = "complete" /\ Walks(c)
         /\ \/ /\ Owns(c) /\ call'[c].pc = "finish"
               /\ Writes(call[c].key, "succeeded", exec[call[c].key].digest,
                         exec[call[c].key].attempt, call[c].out)
            \/ UNCHANGED exec /\ call'[c].pc \in {"discard", "release"}
<1> DEFINE k == call[c].key
           e == exec[k]
<1>0. /\ {"finish", "discard", "release"} \subseteq Places
      /\ k \in Keys /\ e.attempt \in Attempts \cup {NoAttempt} /\ e.digest \in Digests \cup {NoOutput}
      /\ call[c].out \in Outputs \cup {NoOutput} /\ FALSE \in BOOLEAN /\ "succeeded" \in ExecStatuses
  BY CallFields, ExecFields DEF Places, ExecStatuses
<1>1. /\ call[c].pc = "complete" /\ UNCHANGED <<approval, objects, breaker, answers>>
  BY DEF Complete, At
<1>2. CASE /\ Owns(c) /\ Goto(c, "finish")
           /\ exec' = [exec EXCEPT ![k].status = "succeeded", ![k].leased = FALSE, ![k].out = call[c].out]
  <2> DEFINE o == Ended(e, "succeeded", call[c].out)
  <2>1. /\ o \in Executions /\ o.status = "succeeded" /\ o.attempt = e.attempt
        /\ o.digest = e.digest /\ o.out = call[c].out
    BY <1>0, ExecFields, EndFields
  <2>2. exec' = [exec EXCEPT ![k] = o]
    BY <1>0, <1>2 DEF TypeOK, Ended, Ends
  <2> HIDE DEF o
  <2>3. Writes(k, o.status, o.digest, o.attempt, o.out)
    BY <1>0, <2>1, <2>2, WritesExec
  <2>4. Writes(k, "succeeded", e.digest, e.attempt, call[c].out)
    BY <2>1, <2>3
  <2> QED BY <1>0, <1>1, <1>2, <2>4, GotoWalks
<1>3. CASE UNCHANGED exec /\ Goto(c, IF Archived(call[c].out) THEN "discard" ELSE "release")
  BY <1>0, <1>1, <1>3, GotoWalks
<1> QED BY <1>2, <1>3 DEF Complete

(* failIdempotency                                                         *)
LEMMA FailSteps ==
  ASSUME TypeOK, NEW c \in Callers, Fail(c)
  PROVE  /\ UNCHANGED <<approval, objects, breaker, answers>>
         /\ call[c].pc = "fail" /\ Walks(c) /\ call'[c].pc = "release"
         /\ \/ /\ Owns(c)
               /\ Writes(call[c].key, "failed", exec[call[c].key].digest,
                         exec[call[c].key].attempt, exec[call[c].key].out)
            \/ UNCHANGED exec
<1> DEFINE k == call[c].key
           e == exec[k]
<1>0. /\ "release" \in Places
      /\ k \in Keys /\ e.attempt \in Attempts \cup {NoAttempt} /\ e.digest \in Digests \cup {NoOutput}
      /\ e.out \in Outputs \cup {NoOutput} /\ FALSE \in BOOLEAN /\ "failed" \in ExecStatuses
  BY CallFields, ExecFields DEF Places, ExecStatuses
<1>1. /\ call[c].pc = "fail" /\ UNCHANGED <<approval, objects, breaker, answers>> /\ Goto(c, "release")
  BY DEF Fail, At
<1>2. CASE Owns(c) /\ exec' = [exec EXCEPT ![k].status = "failed", ![k].leased = FALSE]
  <2> DEFINE o == Ended(e, "failed", e.out)
  <2>1. /\ o \in Executions /\ o.status = "failed" /\ o.attempt = e.attempt
        /\ o.digest = e.digest /\ o.out = e.out
    BY <1>0, ExecFields, EndFields
  <2>2. exec' = [exec EXCEPT ![k] = o]
    <3>1. exec[k] \in Executions /\ exec \in [Keys -> Executions]
      BY <1>0, ExecFields DEF TypeOK
    <3> QED BY <1>0, <1>2, <3>1 DEF Ended, Ends, Executions
  <2> HIDE DEF o
  <2>3. Writes(k, o.status, o.digest, o.attempt, o.out)
    BY <1>0, <2>1, <2>2, WritesExec
  <2>4. Writes(k, "failed", e.digest, e.attempt, e.out)
    BY <2>1, <2>3
  <2> QED BY <1>0, <1>1, <1>2, <2>4, GotoWalks
<1>3. CASE UNCHANGED exec
  BY <1>0, <1>1, <1>3, GotoWalks
<1> QED BY <1>2, <1>3 DEF Fail

(* The lease of an execution runs out.                                     *)
LEMMA LeaseSteps ==
  ASSUME TypeOK, NEW k \in Keys, ExecutionLeaseExpires(k)
  PROVE  /\ UNCHANGED <<approval, objects, breaker, answers>>
         /\ Writes(k, exec[k].status, exec[k].digest, exec[k].attempt, exec[k].out)
         /\ call' \in [Callers -> Calls]
         /\ \A c \in Callers :
               /\ call'[c].pc = call[c].pc /\ Keeps(c) /\ call'[c].tries = call[c].tries
               /\ call'[c].out = call[c].out
               /\ call'[c].late = call[c].late \/ call'[c].late = TRUE
               /\ Attempt(c) = exec[k].attempt /\ call[c].pc # "idle" => call'[c].late
<1>0. /\ exec[k].status \in ExecStatuses /\ exec[k].digest \in Digests \cup {NoOutput}
      /\ exec[k].attempt \in Attempts \cup {NoAttempt} /\ FALSE \in BOOLEAN
      /\ exec[k].out \in Outputs \cup {NoOutput} /\ exec[k] \in Executions
  BY ExecFields
<1>1. /\ UNCHANGED <<approval, objects, breaker, answers>>
      /\ exec' = [exec EXCEPT ![k].leased = FALSE]
      /\ call' = [c \in Callers |->
            IF Attempt(c) = exec[k].attempt /\ ~At(c, "idle")
            THEN [call[c] EXCEPT !.late = TRUE] ELSE call[c]]
  BY DEF ExecutionLeaseExpires
<1>2. Writes(k, exec[k].status, exec[k].digest, exec[k].attempt, exec[k].out)
  <2> DEFINE o == [exec[k] EXCEPT !.leased = FALSE]
  <2>1. exec' = [exec EXCEPT ![k] = o]
    BY <1>1
  <2>2. /\ o \in Executions /\ o.status = exec[k].status /\ o.attempt = exec[k].attempt
        /\ o.digest = exec[k].digest /\ ~o.leased /\ o.out = exec[k].out
    BY <1>0 DEF Executions
  <2> HIDE DEF o
  <2> QED BY <2>1, <2>2, WritesExec
<1>3. ASSUME NEW c \in Callers
      PROVE  /\ call'[c] \in Calls /\ call'[c].pc = call[c].pc /\ Keeps(c)
             /\ call'[c].tries = call[c].tries
             /\ call'[c].out = call[c].out
             /\ call'[c].late = call[c].late \/ call'[c].late = TRUE
             /\ Attempt(c) = exec[k].attempt /\ call[c].pc # "idle" => call'[c].late
  <2>0. call[c] \in Calls
    BY CallFields
  <2>1. CASE call'[c] = call[c] /\ ~(Attempt(c) = exec[k].attempt /\ ~At(c, "idle"))
    BY <2>0, <2>1 DEF Keeps, At
  <2>2. CASE call'[c] = [call[c] EXCEPT !.late = TRUE]
    BY <2>0, <2>2 DEF Keeps, Calls
  <2> QED BY <1>1, <2>1, <2>2
<1>4. call' \in [Callers -> Calls]
  BY <1>1, <1>3
<1> QED BY <1>1, <1>2, <1>3, <1>4

(* The reconciler fails an execution whose lease ran out.                  *)
LEMMA ReconcileExecutionSteps ==
  ASSUME TypeOK, NEW k \in Keys, ReconcileExecution(k)
  PROVE  /\ UNCHANGED <<approval, objects, breaker, answers, call>>
         /\ exec[k].status = "executing" /\ ~exec[k].leased
         /\ Writes(k, "failed", exec[k].digest, NoAttempt, exec[k].out)
<1>0. /\ "failed" \in ExecStatuses /\ exec[k].digest \in Digests \cup {NoOutput}
      /\ NoAttempt \in Attempts \cup {NoAttempt} /\ exec[k].leased \in BOOLEAN
      /\ exec[k].out \in Outputs \cup {NoOutput} /\ exec[k] \in Executions
  BY ExecFields DEF ExecStatuses
<1>1. /\ UNCHANGED <<approval, objects, breaker, answers, call>>
      /\ exec[k].status = "executing" /\ ~exec[k].leased
      /\ exec' = [exec EXCEPT ![k].status = "failed", ![k].attempt = NoAttempt]
  BY DEF ReconcileExecution
<1> DEFINE o == [exec[k] EXCEPT !.status = "failed", !.attempt = NoAttempt]
<1>2. exec' = [exec EXCEPT ![k] = o]
  BY <1>1 DEF TypeOK
<1>3. /\ o \in Executions /\ o.status = "failed" /\ o.attempt = NoAttempt
      /\ o.digest = exec[k].digest /\ o.leased = exec[k].leased /\ o.out = exec[k].out
  BY <1>0 DEF Executions
<1> HIDE DEF o
<1> QED BY <1>1, <1>2, <1>3, WritesExec

-----------------------------------------------------------------------------
(* What a step does to an approval                                         *)

ApprovalStatuses == {"none", "pending", "approved", "rejected", "executing", "consumed", "expired"}
Decisions == {"none", "approved", "rejected"}

Sets(k, d, st, dec) ==
    /\ approval' \in [Keys -> [Digests -> Approvals]]
    /\ approval'[k][d].status = st /\ approval'[k][d].decision = dec
    /\ \A j \in Keys, f \in Digests : j # k \/ f # d => approval'[j][f] = approval[j][f]

(* An approval of the right type is written.                               *)
LEMMA SetsApproval ==
  ASSUME TypeOK, NEW k \in Keys, NEW d \in Digests, NEW a \in Approvals,
         approval' = [approval EXCEPT ![k][d] = a]
  PROVE  Sets(k, d, a.status, a.decision)
BY DEF Sets, TypeOK

(* The fields of an approval                                               *)
LEMMA ApprovalFields ==
  ASSUME TypeOK, NEW k \in Keys, NEW d \in Digests
  PROVE  /\ approval[k][d] \in Approvals /\ approval[k][d].status \in ApprovalStatuses
         /\ approval[k][d].decision \in Decisions
<1>1. approval[k][d] \in Approvals
  BY DEF TypeOK
<1> QED BY <1>1 DEF Approvals, ApprovalStatuses, Decisions

(* The ways in which the steps change an approval                          *)
Taken(a, st, at) == [a EXCEPT !.status = st, !.attempt = at, !.leased = TRUE]
Freed(a, st) == [a EXCEPT !.status = st, !.attempt = NoAttempt, !.leased = FALSE]
Recovered(a, st) == [a EXCEPT !.status = st, !.attempt = NoAttempt]
Marked(a, st) == [a EXCEPT !.status = st]
Decided(a, st) == [a EXCEPT !.status = st, !.decision = st]
Outlived(a) == [a EXCEPT !.live = FALSE]
Unleased(a) == [a EXCEPT !.leased = FALSE]

(* Only a decision changes the decision.                                   *)
LEMMA TakenFields ==
  ASSUME NEW a \in Approvals, NEW st \in ApprovalStatuses, NEW at \in Attempts
  PROVE  /\ Taken(a, st, at) \in Approvals /\ Taken(a, st, at).status = st
         /\ Taken(a, st, at).decision = a.decision
BY DEF Approvals, ApprovalStatuses, Taken

(* The same, for an approval that is given back or used up                 *)
LEMMA FreedFields ==
  ASSUME NEW a \in Approvals, NEW st \in ApprovalStatuses
  PROVE  /\ Freed(a, st) \in Approvals /\ Freed(a, st).status = st
         /\ Freed(a, st).decision = a.decision
BY DEF Approvals, ApprovalStatuses, Freed

(* The same, for the reconciler's two updates                              *)
LEMMA RecoveredFields ==
  ASSUME NEW a \in Approvals, NEW st \in ApprovalStatuses
  PROVE  /\ Recovered(a, st) \in Approvals /\ Recovered(a, st).status = st
         /\ Recovered(a, st).decision = a.decision
         /\ Marked(a, st) \in Approvals /\ Marked(a, st).status = st
         /\ Marked(a, st).decision = a.decision
BY DEF Approvals, ApprovalStatuses, Recovered, Marked

(* A decision is kept with the status.                                     *)
LEMMA DecidedFields ==
  ASSUME NEW a \in Approvals, NEW st \in {"approved", "rejected"}
  PROVE  /\ Decided(a, st) \in Approvals /\ Decided(a, st).status = st
         /\ Decided(a, st).decision = st
BY DEF Approvals, Decided

(* Time changes neither status nor decision.                               *)
LEMMA TimeFields ==
  ASSUME NEW a \in Approvals
  PROVE  /\ Outlived(a) \in Approvals /\ Outlived(a).status = a.status
         /\ Outlived(a).decision = a.decision
         /\ Unleased(a) \in Approvals /\ Unleased(a).status = a.status
         /\ Unleased(a).decision = a.decision
BY DEF Approvals, Outlived, Unleased

(* A new request is pending and not decided.                               *)
LEMMA RequestedFields ==
  /\ Requested("pending") \in Approvals /\ Requested("pending").status = "pending"
  /\ Requested("pending").decision = "none"
  /\ Requested("none") \in Approvals /\ Requested("none").status = "none"
  /\ Requested("none").decision = "none"
BY DEF Requested, Approvals

-----------------------------------------------------------------------------
(* The inductive invariant                                                 *)

Record(c) == exec[call[c].key]
Grant(c) == approval[call[c].key][call[c].digest]

WithResult == {"load", "archive", "complete", "discard", "finish"}
Working == {"allow", "run", "backoff", "archive", "complete", "fail"}
Settling == {"load", "finish"}

(* What a call knows about the record of its key: the result it carries is *)
(* that of its input, a replay or a committed result is the record's, and  *)
(* as long as the lease has not run out the record is its own.             *)
CallOK(c) ==
    /\ call[c].pc \in WithResult => call[c].out \in Outputs /\ call[c].out[1] = call[c].digest
    /\ call[c].pc = "backoff" => call[c].tries < MaxAttempts
    /\ call[c].pc = "reclaim" => Record(c).status # "none" /\ Record(c).digest = call[c].digest
    /\ NeedsKey /\ call[c].pc \in Settling =>
          /\ Record(c).status = "succeeded" /\ Record(c).digest = call[c].digest
          /\ Record(c).out = call[c].out
    /\ NeedsKey /\ call[c].pc \in Working /\ ~call[c].late =>
          Record(c).status = "executing" /\ Record(c).attempt = Attempt(c) /\ Record(c).leased
    /\ call[c].pc # "idle" /\ Record(c).attempt = Attempt(c) => Record(c).digest = call[c].digest
CallInv == \A c \in Callers : CallOK(c)

(* A committed result is that of the record's input, and an attempt id was *)
(* drawn by a call that has begun.                                         *)
ExecInv ==
    \A k \in Keys :
        /\ exec[k].status = "succeeded" => exec[k].out \in Outputs /\ exec[k].out[1] = exec[k].digest
        /\ \A c \in Callers, m \in Nat : exec[k].attempt = <<c, m>> => m <= call[c].n

(* An answer is the result of the record.                                  *)
AnswerInv ==
    NeedsKey => \A a \in answers :
        /\ exec[a.key].status = "succeeded" /\ exec[a.key].out = a.out
        /\ exec[a.key].digest = a.digest

(* An approval in use was given by a user, and is not asked for again.     *)
ApprovalInv ==
    \A k \in Keys, d \in Digests :
        /\ approval[k][d].status \in {"approved", "executing", "consumed"} =>
              approval[k][d].decision = "approved"
        /\ approval[k][d].decision = "approved" => approval[k][d].status \notin {"none", "pending"}

(* A call that got past the approval has one.                              *)
GrantInv ==
    NeedsApproval => \A c \in Callers :
        call[c].pc \notin {"idle", "authorize", "request"} => Grant(c).decision = "approved"

IInv == /\ TypeOK /\ CallInv /\ ExecInv /\ AnswerInv /\ ConsumedIsDone
        /\ ApprovalInv /\ GrantInv

-----------------------------------------------------------------------------
(* The approvals                                                           *)

DecisionsKept ==
    \A k \in Keys, d \in Digests :
        approval[k][d].decision = "approved" => approval'[k][d].decision = "approved"
ConsumedKept ==
    \A k \in Keys, d \in Digests :
        approval'[k][d].status = "consumed" => approval[k][d].status = "consumed"
ApprovalsKept ==
    approval' \in [Keys -> [Digests -> Approvals]] /\ ApprovalInv' /\ DecisionsKept

(* What is enough for an update of one approval                            *)
LEMMA SetsKeep ==
  ASSUME TypeOK, ApprovalInv, NEW k \in Keys, NEW d \in Digests, NEW st, NEW dec,
         Sets(k, d, st, dec),
         st \in {"approved", "executing", "consumed"} => dec = "approved",
         dec = "approved" => st \notin {"none", "pending"},
         approval[k][d].decision = "approved" => dec = "approved"
  PROVE  /\ ApprovalsKept
         /\ st # "consumed" \/ approval[k][d].status = "consumed" => ConsumedKept
         /\ \A j \in Keys, f \in Digests :
               approval'[j][f].status = "consumed" =>
                  approval[j][f].status = "consumed" \/ (j = k /\ f = d)
<1>1. approval' \in [Keys -> [Digests -> Approvals]]
  BY DEF Sets
<1>2. ApprovalInv'
  <2> SUFFICES ASSUME NEW j \in Keys, NEW f \in Digests
               PROVE  /\ approval'[j][f].status \in {"approved", "executing", "consumed"} =>
                            approval'[j][f].decision = "approved"
                      /\ approval'[j][f].decision = "approved" =>
                            approval'[j][f].status \notin {"none", "pending"}
    BY DEF ApprovalInv
  <2>1. CASE j = k /\ f = d
    BY <2>1 DEF Sets
  <2>2. CASE j # k \/ f # d
    BY <2>2 DEF Sets, ApprovalInv
  <2> QED BY <2>1, <2>2
<1>3. DecisionsKept
  BY DEF Sets, DecisionsKept
<1>4. /\ st # "consumed" \/ approval[k][d].status = "consumed" => ConsumedKept
      /\ \A j \in Keys, f \in Digests :
               approval'[j][f].status = "consumed" =>
                  approval[j][f].status = "consumed" \/ (j = k /\ f = d)
  BY DEF Sets, ConsumedKept
<1> QED BY <1>1, <1>2, <1>3, <1>4 DEF ApprovalsKept

(* A step that leaves the approvals alone                                  *)
LEMMA SameApprovals ==
  ASSUME TypeOK, ApprovalInv, approval' = approval
  PROVE  ApprovalsKept /\ ConsumedKept
BY DEF ApprovalsKept, ConsumedKept, DecisionsKept, ApprovalInv, TypeOK

(* ClaimApprovedToolApproval takes a request that was approved.            *)
LEMMA AuthorizeApprovals ==
  ASSUME TypeOK, ApprovalInv, NEW c \in Callers, Authorize(c)
  PROVE  /\ ApprovalsKept /\ ConsumedKept
         /\ \/ Goto(c, IF NeedsKey THEN "claim" ELSE "allow") /\ Grant(c).decision = "approved"
            \/ Goto(c, "request")
            \/ Return(c)
<1> DEFINE k == call[c].key
           d == call[c].digest
           a == approval[k][d]
<1>0. /\ k \in Keys /\ d \in Digests /\ a \in Approvals /\ Attempt(c) \in Attempts
      /\ "executing" \in ApprovalStatuses
  BY CallFields, ApprovalFields DEF ApprovalStatuses
<1>1. CASE /\ Claimable(a)
           /\ approval' = [approval EXCEPT ![k][d] = Taken(a, "executing", Attempt(c))]
           /\ Goto(c, IF NeedsKey THEN "claim" ELSE "allow")
  <2> DEFINE b == Taken(a, "executing", Attempt(c))
  <2>1. b \in Approvals /\ b.status = "executing" /\ b.decision = a.decision
    BY <1>0, TakenFields
  <2>2. a.decision = "approved"
    BY <1>0, <1>1 DEF Claimable, ApprovalInv
  <2> HIDE DEF b
  <2>3. Sets(k, d, b.status, b.decision)
    BY <1>0, <1>1, <2>1, SetsApproval DEF b
  <2>4. Sets(k, d, "executing", "approved")
    BY <2>1, <2>2, <2>3
  <2>5. ApprovalsKept /\ ConsumedKept
    BY <1>0, <2>4, SetsKeep
  <2> QED BY <1>1, <2>2, <2>5 DEF Grant
<1>2. CASE UNCHANGED approval /\ (Goto(c, "request") \/ Return(c))
  BY <1>2, SameApprovals
<1> QED BY <1>1, <1>2 DEF Authorize, Taken

(* CreateOrGetToolApproval creates a request that was not there.           *)
LEMMA RequestApprovals ==
  ASSUME TypeOK, ApprovalInv, NEW c \in Callers, Request(c)
  PROVE  ApprovalsKept /\ ConsumedKept
<1> DEFINE k == call[c].key
           d == call[c].digest
           a == approval[k][d]
<1>0. k \in Keys /\ d \in Digests /\ a \in Approvals
  BY CallFields, ApprovalFields
<1>1. CASE a.status = "none" /\ approval' = [approval EXCEPT ![k][d] = Requested("pending")]
  <2>1. a.decision # "approved"
    BY <1>0, <1>1 DEF ApprovalInv
  <2> DEFINE b == Requested("pending")
  <2>2. b \in Approvals /\ b.status = "pending" /\ b.decision = "none"
    BY RequestedFields
  <2> HIDE DEF b
  <2>3. Sets(k, d, b.status, b.decision)
    BY <1>0, <1>1, <2>2, SetsApproval DEF b
  <2>4. Sets(k, d, "pending", "none")
    BY <2>2, <2>3
  <2> QED BY <1>0, <2>1, <2>4, SetsKeep
<1>2. CASE UNCHANGED approval
  BY <1>2, SameApprovals
<1> QED BY <1>1, <1>2 DEF Request

(* DecideToolApproval decides a pending request.                           *)
LEMMA DecideApprovals ==
  ASSUME TypeOK, ApprovalInv, NEW k \in Keys, NEW d \in Digests,
         NEW st \in {"approved", "rejected"}, Decide(k, d, st)
  PROVE  ApprovalsKept /\ ConsumedKept
<1> DEFINE a == approval[k][d]
           b == Decided(a, st)
<1>0. a \in Approvals
  BY ApprovalFields
<1>1. a.status = "pending" /\ approval' = [approval EXCEPT ![k][d] = b]
  BY <1>0 DEF Decide, Decided, TypeOK
<1>2. b \in Approvals /\ b.status = st /\ b.decision = st
  BY <1>0, DecidedFields
<1>3. a.decision # "approved"
  BY <1>1 DEF ApprovalInv
<1> HIDE DEF b
<1>4. Sets(k, d, b.status, b.decision)
  BY <1>1, <1>2, SetsApproval
<1>5. Sets(k, d, st, st)
  BY <1>2, <1>4
<1> QED BY <1>3, <1>5, SetsKeep

(* ReleaseToolApproval and the consumption end the hold of an approval.    *)
LEMMA SettleApprovals ==
  ASSUME TypeOK, ApprovalInv, NEW c \in Callers, NEW st \in {"approved", "consumed"},
         Granted(c), Settle(c, st)
  PROVE  /\ ApprovalsKept
         /\ st = "approved" => ConsumedKept
         /\ \A j \in Keys, f \in Digests :
               approval'[j][f].status = "consumed" =>
                  approval[j][f].status = "consumed" \/ (j = call[c].key /\ f = call[c].digest)
<1> DEFINE k == call[c].key
           d == call[c].digest
           a == approval[k][d]
           b == Freed(a, st)
<1>0. k \in Keys /\ d \in Digests /\ a \in Approvals /\ st \in ApprovalStatuses
  BY CallFields, ApprovalFields DEF ApprovalStatuses
<1>1. a.status = "executing" /\ approval' = [approval EXCEPT ![k][d] = b]
  BY DEF Granted, Settle, Freed
<1>2. b \in Approvals /\ b.status = st /\ b.decision = a.decision
  BY <1>0, FreedFields
<1>3. a.decision = "approved"
  BY <1>0, <1>1 DEF ApprovalInv
<1> HIDE DEF b
<1>4. Sets(k, d, b.status, b.decision)
  BY <1>0, <1>1, <1>2, SetsApproval
<1>5. Sets(k, d, st, "approved")
  BY <1>2, <1>3, <1>4
<1> QED BY <1>0, <1>3, <1>5, SetsKeep

(* Time and the reconciler                                                 *)
LEMMA TimeApprovals ==
  ASSUME TypeOK, ApprovalInv, NEW k \in Keys, NEW d \in Digests,
         ApprovalExpires(k, d) \/ ApprovalLeaseExpires(k, d) \/ ReconcileApproval(k, d)
  PROVE  ApprovalsKept /\ ConsumedKept
<1> DEFINE a == approval[k][d]
<1>0. a \in Approvals /\ {"approved", "expired"} \subseteq ApprovalStatuses
  BY ApprovalFields DEF ApprovalStatuses
<1>1. ASSUME NEW b \in Approvals, approval' = [approval EXCEPT ![k][d] = b],
             b.decision = a.decision,
             b.status = a.status \/ b.status = "expired" \/ (b.status = "approved" /\ a.status = "executing")
      PROVE  ApprovalsKept /\ ConsumedKept
  <2>1. Sets(k, d, b.status, b.decision)
    BY <1>1, SetsApproval
  <2>2. /\ b.status \in {"approved", "executing", "consumed"} => b.decision = "approved"
        /\ b.decision = "approved" => b.status \notin {"none", "pending"}
        /\ b.status # "consumed" \/ a.status = "consumed"
    BY <1>1 DEF ApprovalInv
  <2> QED BY <1>1, <2>1, <2>2, SetsKeep
<1>2. CASE approval' = [approval EXCEPT ![k][d] = Outlived(a)]
  <2>1. Outlived(a) \in Approvals /\ Outlived(a).status = a.status /\ Outlived(a).decision = a.decision
    BY <1>0, TimeFields
  <2> QED BY <1>1, <1>2, <2>1
<1>3. CASE approval' = [approval EXCEPT ![k][d] = Unleased(a)]
  <2>1. Unleased(a) \in Approvals /\ Unleased(a).status = a.status /\ Unleased(a).decision = a.decision
    BY <1>0, TimeFields
  <2> QED BY <1>1, <1>3, <2>1
<1>4. CASE approval' = [approval EXCEPT ![k][d] = Marked(a, "expired")]
  <2>1. /\ Marked(a, "expired") \in Approvals /\ Marked(a, "expired").status = "expired"
        /\ Marked(a, "expired").decision = a.decision
    BY <1>0, RecoveredFields
  <2> QED BY <1>1, <1>4, <2>1
<1>5. ASSUME NEW st \in {"approved", "expired"}, a.status = "executing",
             approval' = [approval EXCEPT ![k][d] = Recovered(a, st)]
      PROVE  ApprovalsKept /\ ConsumedKept
  <2>1. /\ Recovered(a, st) \in Approvals /\ Recovered(a, st).status = st
        /\ Recovered(a, st).decision = a.decision
    BY <1>0, RecoveredFields
  <2> QED BY <1>1, <1>5, <2>1
<1>6. CASE ApprovalExpires(k, d)
  BY <1>0, <1>2, <1>6 DEF ApprovalExpires, Outlived, TypeOK
<1>7. CASE ApprovalLeaseExpires(k, d)
  BY <1>0, <1>3, <1>7 DEF ApprovalLeaseExpires, Unleased, TypeOK
<1>8. CASE ReconcileApproval(k, d)
  <2>1. CASE approval' = [approval EXCEPT ![k][d].status = "expired"]
    BY <1>0, <1>4, <2>1 DEF Marked, TypeOK
  <2>2. CASE /\ a.status = "executing"
             /\ approval' = [approval EXCEPT ![k][d] =
                   [a EXCEPT !.status = IF a.live THEN "approved" ELSE "expired", !.attempt = NoAttempt]]
    <3> DEFINE st == IF a.live THEN "approved" ELSE "expired"
    <3>1. st \in {"approved", "expired"} /\ approval' = [approval EXCEPT ![k][d] = Recovered(a, st)]
      BY <2>2 DEF Recovered
    <3> HIDE DEF st
    <3> QED BY <1>5, <2>2, <3>1
  <2> QED BY <1>8, <2>1, <2>2 DEF ReconcileApproval
<1> QED BY <1>6, <1>7, <1>8

-----------------------------------------------------------------------------
(* The steps of a call that write no execution record                      *)

Plain(c) ==
    /\ Moves(c) /\ Keeps(c)
    /\ call'[c].pc \in Working => call'[c].late = call[c].late
    /\ call'[c].pc = "backoff" => call'[c].tries < MaxAttempts
    /\ call'[c].pc # "idle" => call[c].pc # "idle"
    /\ \/ call'[c].pc \in {"idle", "request", "release"}
       \/ call[c].pc = "authorize" /\ call'[c].pc = IF NeedsKey THEN "claim" ELSE "allow"
       \/ call[c].pc \in {"allow", "run", "backoff", "archive"} /\ call'[c].pc \in {"run", "backoff", "fail"}
       \/ call[c].pc = "run" /\ call'[c].pc = "archive" /\ \E v \in Values : call'[c].out = <<call[c].digest, v>>
       \/ call[c].pc = "archive" /\ call'[c].pc = "complete" /\ call'[c].out = call[c].out
       \/ call[c].pc = "archive" /\ call'[c].pc = "finish" /\ call'[c].out = call[c].out /\ ~NeedsKey
       \/ call[c].pc = "load" /\ call'[c].pc = "finish" /\ call'[c].out = call[c].out
       \/ call[c].pc = "complete" /\ call'[c].pc = "discard" /\ call'[c].out = call[c].out

(* Going to a place that needs nothing, or is reached from the right one   *)
LEMMA GotoPlain ==
  ASSUME TypeOK, NEW c \in Callers, NEW pc \in Places, Goto(c, pc), call[c].pc # "idle",
         pc = "backoff" => call[c].tries < MaxAttempts,
         \/ pc \in {"request", "release"}
         \/ call[c].pc = "authorize" /\ pc = IF NeedsKey THEN "claim" ELSE "allow"
         \/ call[c].pc \in {"allow", "run", "backoff", "archive"} /\ pc \in {"run", "backoff", "fail"}
         \/ call[c].pc = "archive" /\ pc = IF NeedsKey THEN "complete" ELSE "finish"
         \/ call[c].pc = "load" /\ pc = "finish"
         \/ call[c].pc = "complete" /\ pc = "discard"
  PROVE  Plain(c) /\ call'[c].pc = pc
<1>1. Walks(c) /\ call'[c].pc = pc
  BY GotoWalks
<1>2. CASE NeedsKey
  BY <1>1, <1>2 DEF Walks, Plain
<1>3. CASE ~NeedsKey
  BY <1>1, <1>3 DEF Walks, Plain
<1> QED BY <1>1, <1>2, <1>3 DEF Walks

(* Ending                                                                  *)
LEMMA ReturnPlain ==
  ASSUME TypeOK, NEW c \in Callers, Return(c)
  PROVE  Plain(c) /\ call'[c].pc = "idle"
<1>1. Moves(c) /\ Keeps(c) /\ call'[c].pc = "idle"
  BY ReturnMoves
<1> QED BY <1>1 DEF Plain, Working

(* Every place is a place.                                                 *)
LEMMA AllPlaces ==
  /\ {"request", "claim", "allow", "release", "finish", "fail", "run"} \subseteq Places
  /\ {"archive", "backoff", "complete", "discard", "reclaim", "load"} \subseteq Places
BY DEF Places

(* The steps before the record is claimed                                  *)
LEMMA EarlySteps ==
  ASSUME TypeOK, ApprovalInv, NEW c \in Callers, Authorize(c) \/ Request(c) \/ Load(c)
  PROVE  /\ Plain(c) /\ UNCHANGED <<exec, objects, breaker, answers>>
         /\ call[c].pc \in {"authorize", "request", "load"}
         /\ call'[c].pc \in {"idle", "claim", "allow", "request", "finish", "release"}
         /\ ApprovalsKept /\ ConsumedKept
         /\ call[c].pc \in {"authorize", "request"} /\ call'[c].pc \notin {"idle", "request"} =>
               Grant(c).decision = "approved"
<1>0. {"request", "claim", "allow", "release", "finish"} \subseteq Places
  BY AllPlaces
<1>1. CASE Authorize(c)
  <2>1. call[c].pc = "authorize" /\ UNCHANGED <<exec, objects, breaker, answers>>
    BY <1>1 DEF Authorize, At
  <2>2. ApprovalsKept /\ ConsumedKept
    BY <1>1, AuthorizeApprovals
  <2>3. CASE Goto(c, IF NeedsKey THEN "claim" ELSE "allow") /\ Grant(c).decision = "approved"
    <3> DEFINE pc == IF NeedsKey THEN "claim" ELSE "allow"
    <3>1. pc \in Places /\ pc \in {"claim", "allow"}
      BY <1>0
    <3>2. Plain(c) /\ call'[c].pc = pc
      BY <2>1, <2>3, <3>1, GotoPlain
    <3> QED BY <2>1, <2>2, <2>3, <3>1, <3>2
  <2>4. CASE Goto(c, "request")
    BY <1>0, <2>1, <2>2, <2>4, GotoPlain
  <2>5. CASE Return(c)
    BY <2>1, <2>2, <2>5, ReturnPlain
  <2> QED BY <1>1, <2>3, <2>4, <2>5, AuthorizeApprovals
<1>2. CASE Request(c)
  BY <1>2, RequestApprovals, ReturnPlain DEF Request, At
<1>3. CASE Load(c)
  <2>1. /\ call[c].pc = "load" /\ UNCHANGED <<exec, objects, breaker, answers, approval>>
        /\ Goto(c, "finish") \/ Goto(c, "release")
    BY <1>3 DEF Load, At
  <2>2. ApprovalsKept /\ ConsumedKept
    BY <2>1, SameApprovals
  <2> QED BY <1>0, <2>1, <2>2, GotoPlain
<1> QED BY <1>1, <1>2, <1>3

(* The steps that touch neither a record nor the breaker                   *)
LEMMA QuietSteps ==
  ASSUME TypeOK, NEW c \in Callers,
         (\E v \in Values : Succeed(c, v)) \/ FailRetryably(c) \/ Discard(c)
  PROVE  /\ Plain(c) /\ UNCHANGED <<approval, exec, breaker, answers>>
         /\ objects' \subseteq Keys \X Outputs
         /\ call[c].pc \notin {"idle", "authorize", "request"}
         /\ \/ call[c].pc = "run" /\ call'[c].pc \in {"archive", "backoff"}
            \/ call[c].pc = "discard" /\ call'[c].pc = "release"
<1>0. {"archive", "backoff", "release"} \subseteq Places /\ objects \subseteq Keys \X Outputs
  BY AllPlaces DEF TypeOK
<1>1. ASSUME NEW v \in Values, Succeed(c, v)
      PROVE  /\ Plain(c) /\ call[c].pc = "run" /\ call'[c].pc = "archive"
             /\ UNCHANGED <<approval, exec, breaker, answers, objects>>
  <2> DEFINE out == <<call[c].digest, v>>
  <2>1. call[c].pc = "run" /\ UNCHANGED <<approval, exec, breaker, answers, objects>>
    BY <1>1 DEF Succeed, At
  <2>2. Takes(c, "archive", out)
    BY <1>1 DEF Succeed, Takes
  <2>3. out \in Outputs \cup {NoOutput}
    BY CallFields DEF Outputs
  <2>4. out = <<call[c].digest, v>>
    OBVIOUS
  <2> HIDE DEF out
  <2>5. /\ Moves(c) /\ Keeps(c) /\ call'[c].pc = "archive" /\ call'[c].out = out
        /\ call'[c].late = call[c].late
    BY <1>0, <2>2, <2>3, OutMoves
  <2> QED BY <2>1, <2>4, <2>5 DEF Plain
<1>2. CASE FailRetryably(c)
  BY <1>0, <1>2, GotoPlain DEF FailRetryably, At
<1>3. CASE Discard(c)
  BY <1>0, <1>3, GotoPlain DEF Discard, At
<1> QED BY <1>0, <1>1, <1>2, <1>3

-----------------------------------------------------------------------------
(* The breaker                                                             *)

BreakerKept == breaker' \in Breakers

(* A failure leaves a breaker.                                             *)
LEMMA FailureFields ==
  ASSUME NEW b \in Breakers
  PROVE  AfterFailure(b) \in Breakers
<1> USE GovernanceAssumption
<1> DEFINE failures == IF b.failures = Threshold THEN Threshold ELSE b.failures + 1
<1>1. failures \in 0 .. Threshold
  BY DEF Breakers
<1>2. CASE b.state = "half_open" \/ failures >= Threshold
  <2>1. AfterFailure(b) = [state |-> "open", failures |-> failures, probing |-> FALSE, cooled |-> FALSE]
    BY <1>2 DEF AfterFailure
  <2> HIDE DEF failures
  <2> QED BY <1>1, <2>1 DEF Breakers
<1>3. CASE ~(b.state = "half_open" \/ failures >= Threshold)
  <2>1. AfterFailure(b) = [b EXCEPT !.failures = failures]
    BY <1>3 DEF AfterFailure
  <2> HIDE DEF failures
  <2> QED BY <1>1, <2>1 DEF Breakers
<1> QED BY <1>2, <1>3

(* The closed breaker                                                      *)
LEMMA ClosedFields == Closed \in Breakers
BY GovernanceAssumption DEF Closed, Breakers

(* Admission takes the slot, unless the breaker is closed.                 *)
LEMMA AllowFields ==
  ASSUME NEW b \in Breakers
  PROVE  AfterAllow(b) \in Breakers
BY DEF AfterAllow, Breakers

(* The breaker is left alone.                                              *)
LEMMA QuietKeeps ==
  ASSUME TypeOK, UNCHANGED breaker
  PROVE  BreakerKept
BY DEF BreakerKept, TypeOK

(* The steps that ask or tell the breaker                                  *)
LEMMA BreakerSteps ==
  ASSUME TypeOK, CallInv, NEW c \in Callers,
         Allow(c) \/ Suspend(c) \/ FailFinally(c) \/ Backoff(c) \/ Archive(c)
  PROVE  /\ Plain(c) /\ UNCHANGED <<approval, exec, answers>>
         /\ objects' \subseteq Keys \X Outputs
         /\ call[c].pc \notin {"idle", "authorize", "request"}
         /\ BreakerKept
<1>0. /\ {"fail", "run", "complete", "finish"} \subseteq Places /\ objects \subseteq Keys \X Outputs
      /\ breaker \in Breakers
  BY AllPlaces DEF TypeOK
<1>1. ASSUME Goto(c, "fail"), call[c].pc \in {"allow", "run", "backoff", "archive"}
      PROVE  Plain(c) /\ Moves(c) /\ call'[c].pc = "fail"
  BY <1>0, <1>1, GotoPlain DEF Plain
<1>2. CASE Allow(c)
  <2>1. call[c].pc = "allow" /\ UNCHANGED <<approval, exec, answers, objects>>
    BY <1>2 DEF Allow, At
  <2>2. CASE Goto(c, "fail") /\ UNCHANGED breaker
    BY <1>0, <1>1, <2>1, <2>2, QuietKeeps
  <2>3. CASE breaker' = AfterAllow(breaker) /\ Goto(c, "run")
    <3>1. Plain(c)
      BY <1>0, <2>1, <2>3, GotoPlain
    <3>2. BreakerKept
      BY <1>0, <2>3, AllowFields DEF BreakerKept
    <3> QED BY <1>0, <2>1, <3>1, <3>2
  <2> QED BY <1>2, <2>2, <2>3 DEF Allow
<1>3. CASE Suspend(c)
  <2>1. /\ call[c].pc = "run" /\ UNCHANGED <<approval, exec, answers, objects, breaker>>
        /\ Goto(c, "fail")
    BY <1>3 DEF Suspend, At
  <2> QED BY <1>0, <1>1, <2>1, QuietKeeps
<1>4. CASE FailFinally(c)
  <2>1. /\ call[c].pc = "run" /\ UNCHANGED <<approval, exec, answers, objects>>
        /\ Goto(c, "fail") /\ (breaker' = breaker \/ breaker' = AfterFailure(breaker))
    BY <1>4 DEF FailFinally, At
  <2>2. BreakerKept
    BY <1>0, <2>1, FailureFields DEF BreakerKept
  <2> QED BY <1>0, <1>1, <2>1, <2>2
<1>5. CASE Backoff(c)
  <2>1. /\ call[c].pc = "backoff" /\ UNCHANGED <<approval, exec, answers, objects>>
        /\ BreakerKept
    BY <1>0, <1>5, QuietKeeps DEF Backoff, At
  <2>2. CASE Goto(c, "fail")
    BY <1>0, <1>1, <2>1, <2>2
  <2>3. CASE call' = [call EXCEPT ![c].pc = "run", ![c].tries = call[c].tries + 1]
    <3>1. Tries(c, "run", call[c].tries + 1)
      BY <2>3 DEF Tries
    <3>2. call[c].tries + 1 \in 1 .. MaxAttempts
      BY <2>1, CallFields, GovernanceAssumption DEF CallInv, CallOK
    <3>3. /\ Moves(c) /\ Keeps(c) /\ call'[c].pc = "run"
          /\ call'[c].late = call[c].late
      BY <1>0, <3>1, <3>2, TriesMoves
    <3>4. Plain(c)
      BY <2>1, <3>3 DEF Plain
    <3> QED BY <1>0, <2>1, <3>4
  <2>4. call' = [call EXCEPT ![c].pc = "run", ![c].tries = @ + 1] =>
        call' = [call EXCEPT ![c].pc = "run", ![c].tries = call[c].tries + 1]
    BY DEF TypeOK, Calls
  <2> QED BY <1>5, <2>2, <2>3, <2>4 DEF Backoff
<1>6. CASE Archive(c)
  <2>1. call[c].pc = "archive" /\ UNCHANGED <<approval, exec, answers>>
    BY <1>6 DEF Archive, At
  <2>2. CASE Goto(c, "fail") /\ UNCHANGED <<objects, breaker>>
    BY <1>0, <1>1, <2>1, <2>2, QuietKeeps
  <2>3. CASE /\ objects' = objects \cup (IF NeedsKey /\ Archived(call[c].out)
                                         THEN {<<call[c].key, call[c].out>>} ELSE {})
             /\ breaker' = Closed
             /\ Goto(c, IF NeedsKey THEN "complete" ELSE "finish")
    <3>1. call[c].out \in Outputs /\ call[c].key \in Keys
      BY <2>1, CallFields DEF CallInv, CallOK, WithResult
    <3>2. objects' \subseteq Keys \X Outputs
      BY <1>0, <2>3, <3>1
    <3> DEFINE pc == IF NeedsKey THEN "complete" ELSE "finish"
    <3>3. pc \in Places /\ pc # "backoff"
      BY <1>0
    <3>4. Plain(c)
      BY <2>1, <2>3, <3>3, GotoPlain
    <3> QED BY <2>1, <2>3, <3>2, <3>4, ClosedFields DEF BreakerKept
  <2> QED BY <1>6, <2>2, <2>3 DEF Archive
<1> QED BY <1>2, <1>3, <1>4, <1>5, <1>6

-----------------------------------------------------------------------------
(* The execution records                                                   *)

(* A record keeps its digest once it is there, and its result once it has  *)
(* succeeded.                                                              *)
FinalKept ==
    \A k \in Keys :
        /\ exec[k].status # "none" => exec'[k].status # "none" /\ exec'[k].digest = exec[k].digest
        /\ exec[k].status = "succeeded" => exec'[k].status = "succeeded" /\ exec'[k].out = exec[k].out
RecordsKept == exec' \in [Keys -> Executions] /\ CallInv' /\ ExecInv' /\ FinalKept

(* The record under a live lease stays with its call.                      *)
Spared(b) ==
    Record(b).status = "executing" /\ Record(b).leased /\ Record(b).attempt = Attempt(b) =>
        /\ exec'[call[b].key].status = "executing" /\ exec'[call[b].key].leased
        /\ exec'[call[b].key].attempt = Attempt(b)
(* A record that names the call did so before.                             *)
Named(b) ==
    exec'[call[b].key].attempt = Attempt(b) =>
        /\ Record(b).attempt = Attempt(b)
        /\ exec'[call[b].key].digest = Record(b).digest

(* What is enough for a call that stays where it is                        *)
LEMMA CallStays ==
  ASSUME TypeOK, NEW b \in Callers, CallOK(b), FinalKept,
         Keeps(b), call'[b].pc = call[b].pc, call'[b].tries = call[b].tries,
         call'[b].out = call[b].out, ~call'[b].late => ~call[b].late,
         call[b].pc # "idle" /\ ~call'[b].late => Spared(b),
         call[b].pc # "idle" => Named(b)
  PROVE  CallOK(b)'
<1>1. call[b].key \in Keys
  BY CallFields
<1>2. /\ call'[b].key = call[b].key /\ call'[b].digest = call[b].digest
      /\ Attempt(b)' = Attempt(b)
  BY DEF Keeps, Attempt
<1>3. /\ Record(b).status # "none" =>
            exec'[call[b].key].status # "none" /\ exec'[call[b].key].digest = Record(b).digest
      /\ Record(b).status = "succeeded" =>
            exec'[call[b].key].status = "succeeded" /\ exec'[call[b].key].out = Record(b).out
  BY <1>1 DEF FinalKept, Record
<1>4. Record(b)' = exec'[call[b].key]
  BY <1>2 DEF Record
<1>5. /\ (call[b].pc \in WithResult => call[b].out \in Outputs /\ call[b].out[1] = call[b].digest)'
      /\ (call[b].pc = "backoff" => call[b].tries < MaxAttempts)'
  BY <1>2 DEF CallOK
<1>6. (call[b].pc = "reclaim" => Record(b).status # "none" /\ Record(b).digest = call[b].digest)'
  BY <1>2, <1>3, <1>4 DEF CallOK
<1>7. (NeedsKey /\ call[b].pc \in Settling =>
          /\ Record(b).status = "succeeded" /\ Record(b).digest = call[b].digest
          /\ Record(b).out = call[b].out)'
  BY <1>2, <1>3, <1>4 DEF CallOK
<1>8. (NeedsKey /\ call[b].pc \in Working /\ ~call[b].late =>
          Record(b).status = "executing" /\ Record(b).attempt = Attempt(b) /\ Record(b).leased)'
  BY <1>2, <1>4 DEF CallOK, Spared, Working
<1>9. (call[b].pc # "idle" /\ Record(b).attempt = Attempt(b) => Record(b).digest = call[b].digest)'
  BY <1>2, <1>4 DEF CallOK, Named
<1> QED BY <1>5, <1>6, <1>7, <1>8, <1>9 DEF CallOK

(* The same, for a call another one leaves alone                           *)
LEMMA OtherStays ==
  ASSUME TypeOK, NEW b \in Callers, CallOK(b), FinalKept, call'[b] = call[b],
         Spared(b), call[b].pc # "idle" => Named(b)
  PROVE  CallOK(b)'
<1>1. Keeps(b) /\ call'[b].pc = call[b].pc /\ call'[b].tries = call[b].tries
      /\ call'[b].out = call[b].out /\ (~call'[b].late => ~call[b].late)
  BY DEF Keeps
<1> QED BY <1>1, CallStays

(* What is enough for a record that is written                             *)
LEMMA WritesKeep ==
  ASSUME TypeOK, ExecInv, NEW k \in Keys, NEW st, NEW dg, NEW at, NEW out,
         Writes(k, st, dg, at, out),
         st = "succeeded" => out \in Outputs /\ out[1] = dg,
         \A c \in Callers, m \in Nat : at = <<c, m>> => m <= call'[c].n,
         \A c \in Callers : call'[c].n = call[c].n
  PROVE  ExecInv'
<1> SUFFICES ASSUME NEW j \in Keys
             PROVE  /\ exec'[j].status = "succeeded" =>
                          exec'[j].out \in Outputs /\ exec'[j].out[1] = exec'[j].digest
                    /\ \A c \in Callers, m \in Nat : exec'[j].attempt = <<c, m>> => m <= call'[c].n
  BY DEF ExecInv
<1>1. CASE j = k
  BY <1>1 DEF Writes
<1>2. CASE j # k
  BY <1>2 DEF Writes, ExecInv
<1> QED BY <1>1, <1>2

(* A step of a call that writes no record                                  *)
LEMMA PlainRecords ==
  ASSUME TypeOK, CallInv, ExecInv, NEW c \in Callers, Plain(c), exec' = exec
  PROVE  RecordsKept
<1>1. exec' \in [Keys -> Executions] /\ FinalKept
  BY DEF TypeOK, FinalKept
<1>2. ExecInv'
  BY DEF ExecInv, Plain, Moves, Keeps
<1>3. ASSUME NEW b \in Callers, b # c PROVE CallOK(b)'
  <2>1. call'[b] = call[b] /\ CallOK(b) /\ Spared(b) /\ Named(b)
    BY <1>3 DEF Plain, Moves, CallInv, Spared, Named, Record
  <2> QED BY <1>1, <2>1, OtherStays
<1>4. CallOK(c)'
  <2>1. /\ CallOK(c) /\ Keeps(c) /\ Attempt(c)' = Attempt(c) /\ Record(c)' = Record(c)
        /\ call'[c].digest = call[c].digest
    BY DEF CallInv, Plain, Keeps, Attempt, Record
  <2>2. /\ call'[c].pc \in Working => call'[c].late = call[c].late
        /\ call'[c].pc = "backoff" => call'[c].tries < MaxAttempts
    BY DEF Plain
  <2>3. CASE call'[c].pc \in {"idle", "request", "release"}
    <3>1. call'[c].pc \notin WithResult /\ call'[c].pc \notin Settling /\ call'[c].pc \notin Working
          /\ call'[c].pc # "reclaim" /\ call'[c].pc # "backoff"
      BY <2>3 DEF WithResult, Settling, Working
    <3>2. call'[c].pc # "idle" => call[c].pc # "idle"
      BY DEF Plain
    <3> QED BY <2>1, <2>2, <3>1, <3>2 DEF CallOK
  <2>4. CASE call[c].pc = "authorize" /\ call'[c].pc = IF NeedsKey THEN "claim" ELSE "allow"
    <3>1. call'[c].pc \notin WithResult /\ call'[c].pc \notin Settling
          /\ (NeedsKey => call'[c].pc \notin Working)
          /\ call'[c].pc # "reclaim" /\ call'[c].pc # "backoff"
      BY <2>4 DEF WithResult, Settling, Working
    <3> QED BY <2>1, <2>2, <2>4, <3>1 DEF CallOK
  <2>5. CASE call[c].pc \in {"allow", "run", "backoff", "archive"} /\ call'[c].pc \in {"run", "backoff", "fail"}
    <3>1. call'[c].pc \notin WithResult /\ call'[c].pc \notin Settling
          /\ call[c].pc \in Working /\ call'[c].pc \in Working
          /\ call'[c].pc # "reclaim" /\ call[c].pc # "idle"
      BY <2>5 DEF WithResult, Settling, Working
    <3> QED BY <2>1, <2>2, <3>1 DEF CallOK
  <2>6. CASE call[c].pc = "run" /\ call'[c].pc = "archive" /\ \E v \in Values : call'[c].out = <<call[c].digest, v>>
    <3>1. call'[c].pc \notin Settling /\ call[c].pc \in Working /\ call'[c].pc \in Working
      BY <2>6 DEF Settling, Working
    <3>2. call'[c].out \in Outputs /\ call'[c].out[1] = call[c].digest
      BY <2>6, CallFields DEF Outputs
    <3> QED BY <2>1, <2>2, <2>6, <3>1, <3>2 DEF CallOK
  <2>7. CASE call[c].pc = "archive" /\ call'[c].pc = "complete" /\ call'[c].out = call[c].out
    <3>1. /\ call'[c].pc \notin Settling /\ call[c].pc \in Working /\ call'[c].pc \in Working
          /\ call[c].pc \in WithResult
      BY <2>7 DEF Settling, Working, WithResult
    <3> QED BY <2>1, <2>2, <2>7, <3>1 DEF CallOK
  <2>8. CASE call[c].pc = "archive" /\ call'[c].pc = "finish" /\ call'[c].out = call[c].out /\ ~NeedsKey
    <3>1. call'[c].pc \notin Working /\ call[c].pc \in WithResult
      BY <2>8 DEF Working, WithResult
    <3> QED BY <2>1, <2>8, <3>1 DEF CallOK
  <2>9. CASE call[c].pc = "load" /\ call'[c].pc = "finish" /\ call'[c].out = call[c].out
    <3>1. call'[c].pc \notin Working /\ call[c].pc \in WithResult /\ call[c].pc \in Settling
      BY <2>9 DEF Working, WithResult, Settling
    <3> QED BY <2>1, <2>9, <3>1 DEF CallOK
  <2>10. CASE call[c].pc = "complete" /\ call'[c].pc = "discard" /\ call'[c].out = call[c].out
    <3>1. call'[c].pc \notin Working /\ call'[c].pc \notin Settling /\ call[c].pc \in WithResult
      BY <2>10 DEF Working, WithResult, Settling
    <3> QED BY <2>1, <2>10, <3>1 DEF CallOK
  <2> QED BY <2>3, <2>4, <2>5, <2>6, <2>7, <2>8, <2>9, <2>10 DEF Plain
<1> QED BY <1>1, <1>2, <1>3, <1>4 DEF RecordsKept, CallInv

(* The attempts of two calls differ.                                       *)
LEMMA AttemptsDiffer ==
  ASSUME NEW b \in Callers, NEW c \in Callers, b # c
  PROVE  Attempt(b) # Attempt(c) /\ Attempt(b) # NoAttempt
BY AttemptPairs DEF Attempt

(* A record that one call writes and that no other call holds              *)
LEMMA OthersStay ==
  ASSUME TypeOK, CallInv, FinalKept, NEW c \in Callers, Moves(c),
         NEW st, NEW dg, NEW at, NEW out, Writes(call[c].key, st, dg, at, out),
         \/ at = Attempt(c)
         \/ at = Record(c).attempt /\ dg = Record(c).digest,
         \A b \in Callers \ {c} :
             ~(Record(c).status = "executing" /\ Record(c).leased /\ Record(c).attempt = Attempt(b)),
         NEW b \in Callers, b # c
  PROVE  CallOK(b)'
<1>1. call'[b] = call[b] /\ CallOK(b) /\ call[b].key \in Keys
  BY CallFields DEF Moves, CallInv
<1>2. CASE call[b].key = call[c].key
  <2>1. Record(b) = Record(c)
    BY <1>2 DEF Record
  <2>2. /\ exec'[call[b].key].attempt = at /\ exec'[call[b].key].digest = dg
    BY <1>2 DEF Writes
  <2>3. Spared(b)
    BY <2>1 DEF Spared
  <2>4. Named(b)
    BY <2>1, <2>2, AttemptsDiffer DEF Named
  <2> QED BY <1>1, <2>3, <2>4, OtherStays
<1>3. CASE call[b].key # call[c].key
  <2>1. exec'[call[b].key] = exec[call[b].key]
    BY <1>1, <1>3 DEF Writes
  <2>2. Spared(b) /\ Named(b)
    BY <2>1 DEF Spared, Named, Record
  <2> QED BY <1>1, <2>2, OtherStays
<1> QED BY <1>2, <1>3

(* The attempt a call writes is its own.                                   *)
LEMMA OwnAttempt ==
  ASSUME TypeOK, NEW c \in Callers, Moves(c), Keeps(c)
  PROVE  /\ \A b \in Callers, m \in Nat : Attempt(c) = <<b, m>> => m <= call'[b].n
         /\ \A b \in Callers : call'[b].n = call[b].n
<1>1. \A b \in Callers : call'[b].n = call[b].n /\ call[b].n \in Nat
  BY CallFields DEF Moves, Keeps
<1>2. ASSUME NEW b \in Callers, NEW m \in Nat, Attempt(c) = <<b, m>>
      PROVE  m <= call'[b].n
  <2>1. b = c /\ m = call[c].n
    BY <1>2, AttemptPairs DEF Attempt
  <2> QED BY <1>1, <2>1
<1> QED BY <1>1, <1>2

(* ClaimToolExecution up to its read                                       *)
LEMMA ClaimRecords ==
  ASSUME TypeOK, CallInv, ExecInv, NEW c \in Callers, Claim(c)
  PROVE  RecordsKept
<1> DEFINE k == call[c].key
<1>0. /\ call[c].pc = "claim" /\ Moves(c) /\ Keeps(c) /\ call'[c].late = call[c].late
      /\ k \in Keys /\ CallOK(c) /\ Attempt(c)' = Attempt(c)
      /\ call'[c].key = call[c].key /\ call'[c].digest = call[c].digest
  BY ClaimSteps, CallFields DEF CallInv, Keeps, Attempt
<1>1. CASE /\ exec[k].status = "none" /\ call'[c].pc = "allow"
           /\ Writes(k, "executing", call[c].digest, Attempt(c), exec[k].out)
           /\ exec'[k].leased
  <2>1. exec' \in [Keys -> Executions]
    BY <1>1 DEF Writes
  <2>2. FinalKept
    BY <1>0, <1>1 DEF Writes, FinalKept
  <2>3. ExecInv'
    BY <1>0, <1>1, OwnAttempt, WritesKeep
  <2>4. ASSUME NEW b \in Callers, b # c PROVE CallOK(b)'
    BY <1>0, <1>1, <2>2, <2>4, OthersStay DEF Record
  <2>5. CallOK(c)'
    <3>1. /\ Record(c)'.status = "executing" /\ Record(c)'.attempt = Attempt(c)
          /\ Record(c)'.digest = call[c].digest
      BY <1>0, <1>1 DEF Record, Writes
    <3>2. Record(c)'.leased
      BY <1>0, <1>1 DEF Record
    <3> QED BY <1>0, <1>1, <3>1, <3>2 DEF CallOK, WithResult, Settling
  <2> QED BY <2>1, <2>2, <2>3, <2>4, <2>5 DEF RecordsKept, CallInv
<1>2. CASE exec' = exec /\ call'[c].pc = "release"
  <2>1. Plain(c)
    BY <1>0, <1>2 DEF Plain, Working
  <2> QED BY <1>2, <2>1, PlainRecords
<1>3. ASSUME exec' = exec, CallOK(c)'
      PROVE  RecordsKept
  <2>1. exec' \in [Keys -> Executions] /\ FinalKept
    BY <1>3 DEF TypeOK, FinalKept
  <2>2. ExecInv'
    BY <1>0, <1>3 DEF ExecInv, Moves, Keeps
  <2>3. ASSUME NEW b \in Callers, b # c PROVE CallOK(b)'
    <3>1. call'[b] = call[b] /\ CallOK(b) /\ Spared(b) /\ Named(b)
      BY <1>0, <1>3, <2>3 DEF Moves, CallInv, Spared, Named, Record
    <3> QED BY <2>1, <3>1, OtherStays
  <2> QED BY <1>3, <2>1, <2>2, <2>3 DEF RecordsKept, CallInv
<1>4. CASE /\ exec' = exec /\ call'[c].pc \in {"load", "finish"}
           /\ exec[k].status = "succeeded" /\ exec[k].digest = call[c].digest
           /\ call'[c].out = exec[k].out
  <2>1. Record(c)' = exec[k] /\ exec[k].out \in Outputs /\ exec[k].out[1] = exec[k].digest
    BY <1>0, <1>4 DEF Record, ExecInv
  <2>2. CallOK(c)'
    BY <1>0, <1>4, <2>1 DEF CallOK, Working
  <2> QED BY <1>3, <1>4, <2>2
<1>5. CASE /\ exec' = exec /\ call'[c].pc = "reclaim"
           /\ exec[k].status # "none" /\ exec[k].digest = call[c].digest
  <2>1. Record(c)' = exec[k]
    BY <1>0, <1>5 DEF Record
  <2>2. CallOK(c)'
    BY <1>0, <1>5, <2>1 DEF CallOK, Working, WithResult, Settling
  <2> QED BY <1>3, <1>5, <2>2
<1> QED BY <1>1, <1>2, <1>4, <1>5, ClaimSteps

(* The conditional update of the claim                                     *)
LEMMA ReclaimRecords ==
  ASSUME TypeOK, CallInv, ExecInv, NEW c \in Callers, Reclaim(c)
  PROVE  RecordsKept
<1> DEFINE k == call[c].key
<1>0. /\ call[c].pc = "reclaim" /\ Moves(c) /\ Keeps(c) /\ call'[c].late = call[c].late
      /\ k \in Keys /\ CallOK(c) /\ Attempt(c)' = Attempt(c)
      /\ call'[c].key = call[c].key /\ call'[c].digest = call[c].digest
  BY ReclaimSteps, CallFields DEF CallInv, Walks, Keeps, Attempt
<1>1. CASE /\ Reclaimable(exec[k]) /\ call'[c].pc = "allow"
           /\ Writes(k, "executing", exec[k].digest, Attempt(c), exec[k].out)
           /\ exec'[k].leased
  <2>0. exec[k].status # "succeeded" /\ ~(exec[k].status = "executing" /\ exec[k].leased)
    BY <1>1 DEF Reclaimable
  <2>1. exec' \in [Keys -> Executions]
    BY <1>1 DEF Writes
  <2>2. FinalKept
    BY <1>0, <1>1, <2>0 DEF Writes, FinalKept
  <2>3. ExecInv'
    BY <1>0, <1>1, OwnAttempt, WritesKeep
  <2>4. ASSUME NEW b \in Callers, b # c PROVE CallOK(b)'
    BY <1>0, <1>1, <2>0, <2>2, <2>4, OthersStay DEF Record
  <2>5. CallOK(c)'
    <3>1. /\ Record(c)'.status = "executing" /\ Record(c)'.attempt = Attempt(c)
          /\ Record(c)'.digest = exec[k].digest
      BY <1>0, <1>1 DEF Record, Writes
    <3>2. Record(c)'.leased
      BY <1>0, <1>1 DEF Record
    <3>3. exec[k].digest = call[c].digest
      BY <1>0 DEF CallOK, Record
    <3> QED BY <1>0, <1>1, <3>1, <3>2, <3>3 DEF CallOK, WithResult, Settling
  <2> QED BY <2>1, <2>2, <2>3, <2>4, <2>5 DEF RecordsKept, CallInv
<1>2. CASE exec' = exec /\ call'[c].pc = "release"
  <2>1. Plain(c)
    BY <1>0, <1>2 DEF Plain, Working
  <2> QED BY <1>2, <2>1, PlainRecords
<1> QED BY <1>1, <1>2, ReclaimSteps

(* CompleteToolExecution                                                   *)
LEMMA CompleteRecords ==
  ASSUME TypeOK, CallInv, ExecInv, NEW c \in Callers, Complete(c)
  PROVE  RecordsKept
<1> DEFINE k == call[c].key
<1>0. /\ call[c].pc = "complete" /\ Walks(c) /\ Moves(c) /\ Keeps(c)
      /\ k \in Keys /\ CallOK(c) /\ Attempt(c)' = Attempt(c)
      /\ call'[c].key = call[c].key /\ call'[c].digest = call[c].digest /\ call'[c].out = call[c].out
  BY CompleteSteps, CallFields DEF CallInv, Walks, Keeps, Attempt
<1>1. CASE /\ Owns(c) /\ call'[c].pc = "finish"
           /\ Writes(k, "succeeded", exec[k].digest, exec[k].attempt, call[c].out)
  <2>0. /\ exec[k].status = "executing" /\ exec[k].attempt = Attempt(c)
        /\ exec[k].digest = call[c].digest
        /\ call[c].out \in Outputs /\ call[c].out[1] = call[c].digest
    BY <1>0, <1>1 DEF Owns, CallOK, Record, WithResult
  <2>1. exec' \in [Keys -> Executions]
    BY <1>1 DEF Writes
  <2>2. FinalKept
    BY <1>0, <1>1, <2>0 DEF Writes, FinalKept
  <2>3. Writes(k, "succeeded", exec[k].digest, Attempt(c), call[c].out)
    BY <1>1, <2>0
  <2>4. ExecInv'
    BY <1>0, <2>0, <2>3, OwnAttempt, WritesKeep
  <2>5. \A b \in Callers \ {c} : Record(c).attempt # Attempt(b)
    BY <2>0, AttemptsDiffer DEF Record
  <2>6. ASSUME NEW b \in Callers, b # c PROVE CallOK(b)'
    BY <1>0, <2>2, <2>3, <2>5, <2>6, OthersStay
  <2>7. CallOK(c)'
    <3>1. /\ Record(c)'.status = "succeeded" /\ Record(c)'.digest = call[c].digest
          /\ Record(c)'.out = call[c].out
      BY <1>0, <2>0, <2>3 DEF Record, Writes
    <3> QED BY <1>0, <1>1, <2>0, <3>1 DEF CallOK, Working
  <2> QED BY <2>1, <2>2, <2>4, <2>6, <2>7 DEF RecordsKept, CallInv
<1>2. CASE exec' = exec /\ call'[c].pc \in {"discard", "release"}
  <2>1. Plain(c)
    BY <1>0, <1>2 DEF Plain, Working
  <2> QED BY <1>2, <2>1, PlainRecords
<1> QED BY <1>1, <1>2, CompleteSteps

(* failIdempotency                                                         *)
LEMMA FailRecords ==
  ASSUME TypeOK, CallInv, ExecInv, NEW c \in Callers, Fail(c)
  PROVE  RecordsKept
<1> DEFINE k == call[c].key
<1>0. /\ call[c].pc = "fail" /\ Walks(c) /\ Moves(c) /\ Keeps(c) /\ call'[c].pc = "release"
      /\ k \in Keys /\ CallOK(c) /\ Attempt(c)' = Attempt(c)
      /\ call'[c].key = call[c].key /\ call'[c].digest = call[c].digest
  BY FailSteps, CallFields DEF CallInv, Walks, Keeps, Attempt
<1>1. CASE Owns(c) /\ Writes(k, "failed", exec[k].digest, exec[k].attempt, exec[k].out)
  <2>0. /\ exec[k].status = "executing" /\ exec[k].attempt = Attempt(c)
        /\ exec[k].digest = call[c].digest
    BY <1>0, <1>1 DEF Owns, CallOK, Record
  <2>1. exec' \in [Keys -> Executions]
    BY <1>1 DEF Writes
  <2>2. FinalKept
    BY <1>0, <1>1, <2>0 DEF Writes, FinalKept
  <2>3. Writes(k, "failed", exec[k].digest, Attempt(c), exec[k].out)
    BY <1>1, <2>0
  <2>4. ExecInv'
    BY <1>0, <2>3, OwnAttempt, WritesKeep
  <2>5. \A b \in Callers \ {c} : Record(c).attempt # Attempt(b)
    BY <2>0, AttemptsDiffer DEF Record
  <2>6. ASSUME NEW b \in Callers, b # c PROVE CallOK(b)'
    BY <1>0, <2>2, <2>3, <2>5, <2>6, OthersStay
  <2>7. CallOK(c)'
    <3>1. Record(c)'.digest = call[c].digest
      BY <1>0, <2>0, <2>3 DEF Record, Writes
    <3> QED BY <1>0, <3>1 DEF CallOK, Working, WithResult, Settling
  <2> QED BY <2>1, <2>2, <2>4, <2>6, <2>7 DEF RecordsKept, CallInv
<1>2. CASE exec' = exec
  <2>1. Plain(c)
    BY <1>0 DEF Plain, Working
  <2> QED BY <1>2, <2>1, PlainRecords
<1> QED BY <1>1, <1>2, FailSteps

(* The lease of an execution runs out: its call is late.                   *)
LEMMA LeaseRecords ==
  ASSUME TypeOK, CallInv, ExecInv, NEW k \in Keys, ExecutionLeaseExpires(k)
  PROVE  RecordsKept
<1>1. /\ Writes(k, exec[k].status, exec[k].digest, exec[k].attempt, exec[k].out)
      /\ \A c \in Callers :
            /\ call'[c].pc = call[c].pc /\ Keeps(c) /\ call'[c].tries = call[c].tries
            /\ call'[c].out = call[c].out /\ (~call'[c].late => ~call[c].late)
            /\ Attempt(c) = exec[k].attempt /\ call[c].pc # "idle" => call'[c].late
  BY LeaseSteps
<1>2. exec' \in [Keys -> Executions] /\ FinalKept
  BY <1>1 DEF Writes, FinalKept
<1>3. ExecInv'
  <2>1. \A c \in Callers : call'[c].n = call[c].n
    BY <1>1 DEF Keeps
  <2>2. /\ exec[k].status = "succeeded" => exec[k].out \in Outputs /\ exec[k].out[1] = exec[k].digest
        /\ \A c \in Callers, m \in Nat : exec[k].attempt = <<c, m>> => m <= call'[c].n
    BY <2>1 DEF ExecInv
  <2> QED BY <1>1, <2>1, <2>2, WritesKeep
<1>4. ASSUME NEW b \in Callers PROVE CallOK(b)'
  <2>1. CallOK(b) /\ call[b].key \in Keys
    BY CallFields DEF CallInv
  <2>2. Named(b)
    BY <1>1, <2>1 DEF Named, Record, Writes
  <2>3. call[b].pc # "idle" /\ ~call'[b].late => Spared(b)
    <3>1. CASE call[b].key = k
      BY <1>1, <3>1 DEF Spared, Record
    <3>2. CASE call[b].key # k
      <4>1. exec'[call[b].key] = exec[call[b].key]
        BY <1>1, <2>1, <3>2 DEF Writes
      <4> QED BY <4>1 DEF Spared, Record
    <3> QED BY <3>1, <3>2
  <2> QED BY <1>1, <1>2, <2>1, <2>2, <2>3, CallStays
<1> QED BY <1>2, <1>3, <1>4 DEF RecordsKept, CallInv

(* The reconciler takes a record from nobody whose lease is live.          *)
LEMMA ReconcileRecords ==
  ASSUME TypeOK, CallInv, ExecInv, NEW k \in Keys, ReconcileExecution(k)
  PROVE  RecordsKept
<1>1. /\ call' = call /\ exec[k].status = "executing" /\ ~exec[k].leased
      /\ Writes(k, "failed", exec[k].digest, NoAttempt, exec[k].out)
  BY ReconcileExecutionSteps
<1>2. exec' \in [Keys -> Executions] /\ FinalKept
  BY <1>1 DEF Writes, FinalKept
<1>3. ExecInv'
  <2>1. \A c \in Callers, m \in Nat : NoAttempt # <<c, m>>
    BY AttemptPairs
  <2> QED BY <1>1, <2>1, WritesKeep
<1>4. ASSUME NEW b \in Callers PROVE CallOK(b)'
  <2>0. Attempt(b) # NoAttempt
    BY AttemptPairs DEF Attempt
  <2>1. call'[b] = call[b] /\ CallOK(b) /\ call[b].key \in Keys
    BY <1>1, CallFields DEF CallInv
  <2>2. CASE call[b].key = k
    <3>1. exec'[call[b].key].attempt = NoAttempt
      BY <1>1, <2>2 DEF Writes
    <3>2. Named(b)
      BY <2>0, <3>1 DEF Named
    <3>3. Spared(b)
      BY <1>1, <2>2 DEF Spared, Record
    <3> QED BY <1>2, <2>1, <3>2, <3>3, OtherStays
  <2>3. CASE call[b].key # k
    <3>1. exec'[call[b].key] = exec[call[b].key]
      BY <1>1, <2>1, <2>3 DEF Writes
    <3>2. Named(b) /\ Spared(b)
      BY <3>1 DEF Named, Spared, Record
    <3> QED BY <1>2, <2>1, <3>2, OtherStays
  <2> QED BY <2>2, <2>3
<1> QED BY <1>2, <1>3, <1>4 DEF RecordsKept, CallInv

(* A new call has an attempt no record names.                              *)
LEMMA ExecuteRecords ==
  ASSUME TypeOK, CallInv, ExecInv, NEW c \in Callers, NEW k \in Keys, NEW d \in Digests,
         Execute(c, k, d)
  PROVE  RecordsKept
<1>1. /\ Moves(c) /\ call'[c].n = call[c].n + 1
      /\ call'[c].pc \in {"authorize", "claim", "allow"}
      /\ NeedsKey => call'[c].pc # "allow"
      /\ exec' = exec /\ call[c].n \in Nat /\ call'[c].key \in Keys
  BY ExecuteMoves, CallFields DEF Moves, Calls
<1>2. exec' \in [Keys -> Executions] /\ FinalKept
  BY <1>1 DEF TypeOK, FinalKept
<1>3. ExecInv'
  <2>1. \A b \in Callers : call[b].n \in Nat /\ call'[b].n \in Nat /\ call[b].n <= call'[b].n
    BY <1>1, CallFields DEF Moves, Calls
  <2> SUFFICES ASSUME NEW j \in Keys
               PROVE  /\ exec[j].status = "succeeded" =>
                            exec[j].out \in Outputs /\ exec[j].out[1] = exec[j].digest
                      /\ \A b \in Callers, m \in Nat : exec[j].attempt = <<b, m>> => m <= call'[b].n
    BY <1>1 DEF ExecInv
  <2>2. ASSUME NEW b \in Callers, NEW m \in Nat, exec[j].attempt = <<b, m>> PROVE m <= call'[b].n
    <3>1. m <= call[b].n
      BY <2>2 DEF ExecInv
    <3> QED BY <2>1, <3>1
  <2> QED BY <2>2 DEF ExecInv
<1>4. ASSUME NEW b \in Callers, b # c PROVE CallOK(b)'
  <2>1. call'[b] = call[b] /\ CallOK(b) /\ Spared(b) /\ Named(b)
    BY <1>1, <1>4 DEF Moves, CallInv, Spared, Named, Record
  <2> QED BY <1>2, <2>1, OtherStays
<1>5. CallOK(c)'
  <2>1. Attempt(c)' = <<c, call[c].n + 1>>
    BY <1>1 DEF Attempt
  <2>2. exec[call'[c].key].attempt # <<c, call[c].n + 1>>
    <3>1. exec[call'[c].key].attempt = <<c, call[c].n + 1>> => call[c].n + 1 <= call[c].n
      BY <1>1 DEF ExecInv
    <3> QED BY <1>1, <3>1
  <2>3. Record(c)'.attempt # Attempt(c)'
    BY <1>1, <2>1, <2>2 DEF Record
  <2> QED BY <1>1, <2>3 DEF CallOK, WithResult, Settling, Working
<1> QED BY <1>2, <1>3, <1>4, <1>5 DEF RecordsKept, CallInv

(* After a crash there are the records and no calls.                       *)
LEMMA CrashSteps ==
  ASSUME TypeOK, Crash
  PROVE  /\ call' \in [Callers -> Calls]
         /\ \A c \in Callers : call'[c].pc = "idle" /\ call'[c].n = call[c].n
         /\ UNCHANGED <<approval, exec, objects, answers>> /\ BreakerKept
<1>1. /\ call' = [c \in Callers |-> Idle(call[c])] /\ breaker' = Closed
      /\ UNCHANGED <<approval, exec, objects, answers>>
  BY DEF Crash
<1>2. ASSUME NEW c \in Callers
      PROVE  call'[c] \in Calls /\ call'[c].pc = "idle" /\ call'[c].n = call[c].n
  BY <1>1, CallFields, IdleFields
<1>3. BreakerKept
  BY <1>1, ClosedFields DEF BreakerKept
<1> QED BY <1>1, <1>2, <1>3

(* The records are as they were.                                           *)
LEMMA CrashRecords ==
  ASSUME TypeOK, CallInv, ExecInv, Crash
  PROVE  RecordsKept
<1>1. /\ exec' = exec /\ \A c \in Callers : call'[c].pc = "idle" /\ call'[c].n = call[c].n
  BY CrashSteps
<1>2. exec' \in [Keys -> Executions] /\ FinalKept
  BY <1>1 DEF TypeOK, FinalKept
<1>3. ExecInv'
  BY <1>1 DEF ExecInv
<1>4. ASSUME NEW b \in Callers PROVE CallOK(b)'
  BY <1>1 DEF CallOK, WithResult, Settling, Working
<1> QED BY <1>2, <1>3, <1>4 DEF RecordsKept, CallInv

-----------------------------------------------------------------------------
(* One step                                                                *)

Outside == {"idle", "authorize", "request"}

(* Who gets past the approval has one.                                     *)
Entered ==
    NeedsApproval => \A c \in Callers :
        call'[c].pc \notin Outside =>
            /\ call'[c].key = call[c].key /\ call'[c].digest = call[c].digest
            /\ call[c].pc \notin Outside \/ Grant(c).decision = "approved"
AnswersKept ==
    /\ answers' \subseteq [key : Keys, digest : Digests, out : Outputs]
    /\ AnswerInv' /\ ConsumedIsDone'
Kept ==
    /\ call' \in [Callers -> Calls] /\ objects' \subseteq Keys \X Outputs
    /\ RecordsKept /\ ApprovalsKept /\ BreakerKept /\ Entered /\ AnswersKept

(* The parts make the invariant.                                           *)
LEMMA KeptIsEnough ==
  ASSUME IInv, Kept
  PROVE  IInv'
<1>1. TypeOK'
  BY DEF Kept, RecordsKept, ApprovalsKept, BreakerKept, AnswersKept, TypeOK
<1>2. GrantInv'
  <2> SUFFICES ASSUME NeedsApproval, NEW c \in Callers, call'[c].pc \notin Outside
               PROVE  Grant(c)'.decision = "approved"
    BY DEF GrantInv, Outside
  <2>1. /\ call'[c].key = call[c].key /\ call'[c].digest = call[c].digest
        /\ call[c].pc \notin Outside \/ Grant(c).decision = "approved"
    BY DEF Kept, Entered
  <2>2. Grant(c).decision = "approved"
    BY <2>1 DEF IInv, GrantInv, Outside
  <2>3. call[c].key \in Keys /\ call[c].digest \in Digests
    BY CallFields DEF IInv
  <2> QED BY <2>1, <2>2, <2>3 DEF Grant, Kept, ApprovalsKept, DecisionsKept
<1> QED BY <1>1, <1>2 DEF IInv, Kept, RecordsKept, ApprovalsKept, BreakerKept, AnswersKept

(* Answers and consumed approvals rest on records that are final.          *)
LEMMA AnswersStay ==
  ASSUME TypeOK, AnswerInv, ConsumedIsDone, FinalKept, ConsumedKept, answers' = answers
  PROVE  AnswersKept
<1>1. answers' \subseteq [key : Keys, digest : Digests, out : Outputs]
  BY DEF TypeOK
<1>2. AnswerInv'
  BY <1>1 DEF AnswerInv, FinalKept
<1>3. ConsumedIsDone'
  BY DEF ConsumedIsDone, FinalKept, ConsumedKept
<1> QED BY <1>1, <1>2, <1>3 DEF AnswersKept

(* A step of a call that is past the approval stays past it.               *)
LEMMA StaysEntered ==
  ASSUME TypeOK, NEW c \in Callers, Moves(c), Keeps(c),
         \/ call[c].pc \notin Outside
         \/ call'[c].pc \in Outside
         \/ Grant(c).decision = "approved"
  PROVE  Entered
BY DEF Entered, Moves, Keeps

(* The calls as they were                                                  *)
LEMMA CallsStay ==
  ASSUME TypeOK, call' = call
  PROVE  call' \in [Callers -> Calls] /\ Entered
BY DEF TypeOK, Entered

(* Steps of a call that change records, places and the breaker only        *)
LEMMA RecordKept ==
  ASSUME IInv, NEW c \in Callers,
         Moves(c), Keeps(c), call[c].pc \notin Outside, RecordsKept, BreakerKept,
         UNCHANGED <<approval, answers>>, objects' \subseteq Keys \X Outputs
  PROVE  Kept
<1>0. TypeOK /\ ApprovalInv /\ AnswerInv /\ ConsumedIsDone /\ FinalKept
  BY DEF IInv, RecordsKept
<1>1. ApprovalsKept /\ ConsumedKept
  BY <1>0, SameApprovals
<1>2. AnswersKept
  BY <1>0, <1>1, AnswersStay
<1>3. Entered
  BY <1>0, StaysEntered
<1>4. call' \in [Callers -> Calls]
  BY DEF Moves
<1> QED BY <1>1, <1>2, <1>3, <1>4 DEF Kept

(* completeApproval and the answer: the result is that of the record.      *)
LEMMA FinishKept ==
  ASSUME IInv, NEW c \in Callers, Finish(c)
  PROVE  Kept
<1>0. TypeOK /\ CallInv /\ ExecInv /\ AnswerInv /\ ConsumedIsDone /\ ApprovalInv
  BY DEF IInv
<1> DEFINE k == call[c].key
           d == call[c].digest
           ans == [key |-> k, digest |-> d, out |-> call[c].out]
<1>1. /\ call[c].pc = "finish" /\ Return(c) /\ UNCHANGED <<exec, objects, breaker>>
      /\ answers' = answers \cup {ans}
      /\ (Granted(c) /\ Settle(c, "consumed")) \/ UNCHANGED approval
  BY DEF Finish, At
<1>2. k \in Keys /\ d \in Digests /\ CallOK(c)
  BY <1>0, CallFields DEF CallInv
<1>3. Plain(c) /\ Moves(c) /\ Keeps(c) /\ call'[c].pc = "idle"
  BY <1>0, <1>1, ReturnPlain DEF Plain
<1>4. RecordsKept /\ FinalKept
  BY <1>0, <1>1, <1>3, PlainRecords DEF RecordsKept
<1>5. BreakerKept
  BY <1>0, <1>1, QuietKeeps
<1>6. Entered
  BY <1>0, <1>3, StaysEntered DEF Outside
<1>7. /\ ApprovalsKept
      /\ \A j \in Keys, f \in Digests :
            approval'[j][f].status = "consumed" =>
               approval[j][f].status = "consumed" \/ (j = k /\ f = d)
  <2>1. CASE UNCHANGED approval
    BY <1>0, <2>1, SameApprovals
  <2>2. CASE Granted(c) /\ Settle(c, "consumed")
    BY <1>0, <2>2, SettleApprovals
  <2> QED BY <1>1, <2>1, <2>2
<1>8. NeedsKey =>
         exec[k].status = "succeeded" /\ exec[k].digest = d /\ exec[k].out = call[c].out
  BY <1>1, <1>2 DEF CallOK, Settling, Record
<1>9. call[c].out \in Outputs
  BY <1>1, <1>2 DEF CallOK, WithResult
<1>10. AnswersKept
  <2>1. answers' \subseteq [key : Keys, digest : Digests, out : Outputs]
    BY <1>0, <1>1, <1>2, <1>9 DEF TypeOK
  <2>2. AnswerInv'
    <3> SUFFICES ASSUME NeedsKey, NEW a \in answers'
                 PROVE  /\ exec[a.key].status = "succeeded" /\ exec[a.key].out = a.out
                        /\ exec[a.key].digest = a.digest
      BY <1>1 DEF AnswerInv
    <3>1. CASE a \in answers
      BY <1>0, <3>1 DEF AnswerInv
    <3>2. CASE a = ans
      BY <1>8, <3>2
    <3> QED BY <1>1, <3>1, <3>2
  <2>3. ConsumedIsDone'
    <3> SUFFICES ASSUME NeedsKey, NEW j \in Keys, NEW f \in Digests, approval'[j][f].status = "consumed"
                 PROVE  exec[j].status = "succeeded" /\ exec[j].digest = f
      BY <1>1 DEF ConsumedIsDone
    <3>1. CASE approval[j][f].status = "consumed"
      BY <1>0, <3>1 DEF ConsumedIsDone
    <3>2. CASE j = k /\ f = d
      BY <1>8, <3>2
    <3> QED BY <1>7, <3>1, <3>2
  <2> QED BY <2>1, <2>2, <2>3 DEF AnswersKept
<1>11. call' \in [Callers -> Calls] /\ objects' \subseteq Keys \X Outputs
  BY <1>0, <1>1, <1>3 DEF Moves, TypeOK
<1> QED BY <1>4, <1>5, <1>6, <1>7, <1>10, <1>11 DEF Kept

(* The steps of a call                                                     *)
LEMMA CallStepKept ==
  ASSUME IInv, NEW c \in Callers, CallStep(c)
  PROVE  Kept
<1>0. /\ TypeOK /\ CallInv /\ ExecInv /\ AnswerInv /\ ConsumedIsDone /\ ApprovalInv
      /\ objects \subseteq Keys \X Outputs
  BY DEF IInv, TypeOK
<1>1. CASE Authorize(c) \/ Request(c) \/ Load(c)
  <2>1. /\ Plain(c) /\ UNCHANGED <<exec, objects, breaker, answers>>
        /\ call[c].pc \in {"authorize", "request", "load"}
        /\ ApprovalsKept /\ ConsumedKept
        /\ call[c].pc \in {"authorize", "request"} /\ call'[c].pc \notin {"idle", "request"} =>
              Grant(c).decision = "approved"
    BY <1>0, <1>1, EarlySteps
  <2>2. Moves(c) /\ Keeps(c) /\ call' \in [Callers -> Calls]
    BY <2>1 DEF Plain, Moves
  <2>3. RecordsKept /\ FinalKept
    BY <1>0, <2>1, PlainRecords DEF RecordsKept
  <2>4. BreakerKept
    BY <1>0, <2>1, QuietKeeps
  <2>5. Entered
    BY <1>0, <2>1, <2>2, StaysEntered DEF Outside
  <2>6. AnswersKept
    BY <1>0, <2>1, <2>3, AnswersStay
  <2> QED BY <1>0, <2>1, <2>2, <2>3, <2>4, <2>5, <2>6 DEF Kept
<1>2. ASSUME Moves(c), Keeps(c), RecordsKept, call[c].pc \notin InHandler \cup Outside,
             UNCHANGED <<approval, objects, breaker, answers>>
      PROVE  Kept
  <2>1. BreakerKept
    BY <1>0, <1>2, QuietKeeps
  <2> QED BY <1>0, <1>2, <2>1, RecordKept
<1>3. CASE Claim(c)
  <2>1. RecordsKept
    BY <1>0, <1>3, ClaimRecords
  <2> QED BY <1>0, <1>2, <1>3, <2>1, ClaimSteps DEF InHandler, Outside
<1>4. CASE Reclaim(c)
  <2>1. RecordsKept
    BY <1>0, <1>4, ReclaimRecords
  <2> QED BY <1>0, <1>2, <1>4, <2>1, ReclaimSteps DEF InHandler, Outside, Walks
<1>5. CASE Complete(c)
  <2>1. RecordsKept
    BY <1>0, <1>5, CompleteRecords
  <2> QED BY <1>0, <1>2, <1>5, <2>1, CompleteSteps DEF InHandler, Outside, Walks
<1>6. CASE Fail(c)
  <2>1. RecordsKept
    BY <1>0, <1>6, FailRecords
  <2> QED BY <1>0, <1>2, <1>6, <2>1, FailSteps DEF InHandler, Outside, Walks
<1>7. CASE (\E v \in Values : Succeed(c, v)) \/ FailRetryably(c) \/ Discard(c)
  <2>1. /\ Plain(c) /\ UNCHANGED <<approval, exec, breaker, answers>>
        /\ objects' \subseteq Keys \X Outputs
        /\ call[c].pc \notin Outside
        /\ call[c].pc \in InHandler => call'[c].pc \in InHandler
    BY <1>0, <1>7, QuietSteps DEF Outside, InHandler
  <2>2. Moves(c) /\ Keeps(c) /\ RecordsKept
    BY <1>0, <2>1, PlainRecords DEF Plain
  <2>3. BreakerKept
    BY <1>0, <2>1, QuietKeeps
  <2> QED BY <2>1, <2>2, <2>3, RecordKept
<1>8. CASE Allow(c) \/ Suspend(c) \/ FailFinally(c) \/ Backoff(c) \/ Archive(c)
  <2>1. /\ Plain(c) /\ UNCHANGED <<approval, exec, answers>>
        /\ objects' \subseteq Keys \X Outputs
        /\ call[c].pc \notin Outside /\ BreakerKept
    BY <1>0, <1>8, BreakerSteps DEF Outside
  <2>2. Moves(c) /\ Keeps(c) /\ RecordsKept
    BY <1>0, <2>1, PlainRecords DEF Plain
  <2> QED BY <2>1, <2>2, RecordKept
<1>9. CASE Release(c)
  <2>1. /\ call[c].pc = "release" /\ Return(c) /\ UNCHANGED <<exec, objects, breaker, answers>>
        /\ (Granted(c) /\ Settle(c, "approved")) \/ UNCHANGED approval
    BY <1>9 DEF Release, At
  <2>2. Plain(c) /\ Moves(c) /\ Keeps(c) /\ call'[c].pc = "idle" /\ call' \in [Callers -> Calls]
    BY <1>0, <2>1, ReturnPlain DEF Plain, Moves
  <2>3. RecordsKept /\ FinalKept
    BY <1>0, <2>1, <2>2, PlainRecords DEF RecordsKept
  <2>4. ApprovalsKept /\ ConsumedKept
    BY <1>0, <2>1, SameApprovals, SettleApprovals
  <2>5. BreakerKept
    BY <1>0, <2>1, QuietKeeps
  <2>6. Entered
    BY <1>0, <2>2, StaysEntered DEF Outside
  <2>7. AnswersKept
    BY <1>0, <2>1, <2>3, <2>4, AnswersStay
  <2> QED BY <1>0, <2>1, <2>2, <2>3, <2>4, <2>5, <2>6, <2>7 DEF Kept
<1>10. CASE Finish(c)
  BY <1>10, FinishKept
<1> QED BY <1>1, <1>3, <1>4, <1>5, <1>6, <1>7, <1>8, <1>9, <1>10 DEF CallStep

(* Users, time, the reconciler and the crash                               *)
LEMMA WorldKept ==
  ASSUME IInv,
         \/ \E c \in Callers, k \in Keys, d \in Digests : Execute(c, k, d)
         \/ \E k \in Keys, d \in Digests : \/ ApprovalExpires(k, d)
                                           \/ \E s \in {"approved", "rejected"} : Decide(k, d, s)
                                           \/ ApprovalLeaseExpires(k, d)
                                           \/ ReconcileApproval(k, d)
         \/ \E k \in Keys : ExecutionLeaseExpires(k) \/ ReconcileExecution(k)
         \/ OpenPeriodEnds
         \/ Crash
         \/ UNCHANGED vars
  PROVE  Kept
<1>0. /\ TypeOK /\ CallInv /\ ExecInv /\ AnswerInv /\ ConsumedIsDone /\ ApprovalInv
      /\ objects \subseteq Keys \X Outputs
  BY DEF IInv, TypeOK
<1>1. ASSUME approval' = approval, answers' = answers, FinalKept
      PROVE  ApprovalsKept /\ AnswersKept
  BY <1>0, <1>1, SameApprovals, AnswersStay
<1>2. ASSUME call' = call, exec' = exec
      PROVE  call' \in [Callers -> Calls] /\ Entered /\ RecordsKept /\ FinalKept
  <2>1. call' \in [Callers -> Calls] /\ Entered
    BY <1>0, <1>2, CallsStay
  <2>2. exec' \in [Keys -> Executions] /\ FinalKept
    BY <1>0, <1>2 DEF TypeOK, FinalKept
  <2>3. CallInv' /\ ExecInv'
    BY <1>0, <1>2 DEF CallInv, CallOK, Record, Attempt, ExecInv
  <2> QED BY <2>1, <2>2, <2>3 DEF RecordsKept
<1>3. ASSUME UNCHANGED breaker
      PROVE  BreakerKept
  BY <1>0, <1>3, QuietKeeps
<1>4. ASSUME NEW c \in Callers, NEW k \in Keys, NEW d \in Digests, Execute(c, k, d)
      PROVE  Kept
  <2>1. /\ Moves(c) /\ call[c].pc = "idle" /\ (NeedsApproval => call'[c].pc = "authorize")
        /\ UNCHANGED <<approval, exec, objects, breaker, answers>>
    BY <1>0, <1>4, ExecuteMoves
  <2>2. RecordsKept /\ FinalKept
    BY <1>0, <1>4, ExecuteRecords DEF RecordsKept
  <2>3. ApprovalsKept /\ AnswersKept
    BY <1>1, <2>1, <2>2
  <2>4. BreakerKept
    BY <1>0, <2>1, QuietKeeps
  <2>5. Entered
    BY <2>1 DEF Entered, Outside, Moves
  <2>6. call' \in [Callers -> Calls]
    BY <2>1 DEF Moves
  <2> QED BY <1>0, <2>1, <2>2, <2>3, <2>4, <2>5, <2>6 DEF Kept
<1>5. ASSUME ApprovalsKept, ConsumedKept, UNCHANGED <<exec, objects, breaker, call, answers>>
      PROVE  Kept
  <2>1. AnswersKept
    BY <1>0, <1>2, <1>5, AnswersStay
  <2> QED BY <1>0, <1>2, <1>3, <1>5, <2>1 DEF Kept
<1>6. ASSUME NEW k \in Keys, NEW d \in Digests,
             ApprovalExpires(k, d) \/ ApprovalLeaseExpires(k, d) \/ ReconcileApproval(k, d)
      PROVE  Kept
  <2>1. UNCHANGED <<exec, objects, breaker, call, answers>>
    BY <1>6 DEF ApprovalExpires, ApprovalLeaseExpires, ReconcileApproval
  <2> QED BY <1>0, <1>5, <1>6, <2>1, TimeApprovals
<1>7. ASSUME NEW k \in Keys, NEW d \in Digests, NEW s \in {"approved", "rejected"}, Decide(k, d, s)
      PROVE  Kept
  <2>1. UNCHANGED <<exec, objects, breaker, call, answers>>
    BY <1>7 DEF Decide
  <2> QED BY <1>0, <1>5, <1>7, <2>1, DecideApprovals
<1>8. ASSUME NEW k \in Keys, ExecutionLeaseExpires(k) PROVE Kept
  <2>1. /\ UNCHANGED <<approval, objects, breaker, answers>>
        /\ call' \in [Callers -> Calls]
        /\ \A c \in Callers : call'[c].pc = call[c].pc /\ Keeps(c)
    BY <1>0, <1>8, LeaseSteps
  <2>2. RecordsKept /\ FinalKept
    BY <1>0, <1>8, LeaseRecords DEF RecordsKept
  <2>3. BreakerKept
    BY <1>0, <2>1, QuietKeeps
  <2>4. Entered
    BY <2>1 DEF Entered, Keeps
  <2> QED BY <1>0, <1>1, <2>1, <2>2, <2>3, <2>4 DEF Kept
<1>9. ASSUME NEW k \in Keys, ReconcileExecution(k) PROVE Kept
  <2>1. UNCHANGED <<approval, objects, breaker, answers, call>>
    BY <1>9 DEF ReconcileExecution
  <2>2. RecordsKept /\ FinalKept
    BY <1>0, <1>9, ReconcileRecords DEF RecordsKept
  <2>3. call' \in [Callers -> Calls] /\ Entered
    BY <1>0, <2>1, CallsStay
  <2> QED BY <1>0, <1>1, <1>3, <2>1, <2>2, <2>3 DEF Kept
<1>10. CASE OpenPeriodEnds
  <2>1. /\ breaker.state = "open" /\ breaker' = [breaker EXCEPT !.cooled = TRUE]
        /\ UNCHANGED <<approval, exec, objects, call, answers>>
    BY <1>10 DEF OpenPeriodEnds
  <2>2. breaker \in Breakers
    BY <1>0 DEF TypeOK
  <2>3. BreakerKept
    BY <2>1, <2>2 DEF Breakers, BreakerKept
  <2> QED BY <1>0, <1>1, <1>2, <2>1, <2>3 DEF Kept
<1>11. CASE Crash
  <2>1. /\ call' \in [Callers -> Calls] /\ (\A c \in Callers : call'[c].pc = "idle")
        /\ UNCHANGED <<approval, exec, objects, answers>> /\ BreakerKept
    BY <1>0, <1>11, CrashSteps
  <2>2. RecordsKept /\ FinalKept
    BY <1>0, <1>11, CrashRecords DEF RecordsKept
  <2>3. Entered
    BY <2>1 DEF Entered, Outside
  <2> QED BY <1>0, <1>1, <2>1, <2>2, <2>3 DEF Kept
<1>12. CASE UNCHANGED vars
  <2>1. UNCHANGED <<approval, exec, objects, breaker, call, answers>>
    BY <1>12 DEF vars
  <2> QED BY <1>0, <1>1, <1>2, <1>3, <2>1 DEF Kept
<1> QED BY <1>4, <1>6, <1>7, <1>8, <1>9, <1>10, <1>11, <1>12

(* The invariant holds initially.                                          *)
LEMMA InitInv == Init => IInv
<1> SUFFICES ASSUME Init PROVE IInv
  OBVIOUS
<1>1. \A k \in Keys, d \in Digests :
         /\ approval[k][d] \in Approvals /\ approval[k][d].status \in {"none", "pending"}
         /\ approval[k][d].decision = "none"
  <2>1. \A k \in Keys, d \in Digests :
           approval[k][d] = Requested("none") \/ approval[k][d] = Requested("pending")
    BY DEF Init
  <2> QED BY <2>1, RequestedFields
<1>2. ASSUME NEW k \in Keys
      PROVE  /\ exec[k] \in Executions /\ exec[k].status # "succeeded"
             /\ exec[k].attempt = NoAttempt
  <2>1. exec[k] = Unclaimed("none", NoOutput) \/ \E d \in Digests : exec[k] = Unclaimed("failed", d)
    BY DEF Init
  <2>2. ASSUME NEW st \in {"none", "failed"}, NEW d \in Digests \cup {NoOutput}
        PROVE  /\ Unclaimed(st, d) \in Executions /\ Unclaimed(st, d).status = st
               /\ Unclaimed(st, d).attempt = NoAttempt
    BY DEF Unclaimed, Executions
  <2> QED BY <2>1, <2>2
<1>3. ASSUME NEW c \in Callers
      PROVE  call[c] \in Calls /\ call[c].pc = "idle"
  <2>1. call[c] \in [pc : {"idle"}, n : {0}, key : Keys, digest : Digests, tries : {1},
                     out : {NoOutput}, late : {FALSE}]
    BY DEF Init
  <2>2. 1 \in 1 .. MaxAttempts /\ "idle" \in Places /\ {FALSE} \subseteq BOOLEAN
    BY GovernanceAssumption DEF Places
  <2>3. ASSUME NEW B, B \subseteq BOOLEAN,
               call[c] \in [pc : {"idle"}, n : {0}, key : Keys, digest : Digests, tries : {1},
                            out : {NoOutput}, late : B]
        PROVE  call[c] \in Calls /\ call[c].pc = "idle"
    BY <2>2, <2>3 DEF Calls
  <2> QED BY <2>1, <2>2, <2>3
<1>4. breaker = Closed /\ answers = {} /\ objects = {}
  BY DEF Init
<1>5. TypeOK
  <2>1. approval \in [Keys -> [Digests -> Approvals]]
    BY <1>1 DEF Init
  <2>2. exec \in [Keys -> Executions] /\ call \in [Callers -> Calls]
    BY <1>2, <1>3 DEF Init
  <2> QED BY <1>4, <2>1, <2>2, ClosedFields DEF TypeOK
<1>6. CallInv
  BY <1>3 DEF CallInv, CallOK, WithResult, Settling, Working
<1>7. ExecInv
  BY <1>2, AttemptPairs DEF ExecInv
<1>8. AnswerInv
  BY <1>4 DEF AnswerInv
<1>9. ConsumedIsDone /\ ApprovalInv
  BY <1>1 DEF ConsumedIsDone, ApprovalInv
<1>10. GrantInv
  BY <1>3 DEF GrantInv
<1> QED BY <1>5, <1>6, <1>7, <1>8, <1>9, <1>10 DEF IInv

(* Every step keeps the invariant.                                         *)
LEMMA NextInv == IInv /\ [Next]_vars => IInv'
<1> SUFFICES ASSUME IInv, [Next]_vars PROVE IInv'
  OBVIOUS
<1>1. CASE \E c \in Callers : CallStep(c)
  BY <1>1, CallStepKept, KeptIsEnough
<1>2. CASE ~\E c \in Callers : CallStep(c)
  <2>1. Kept
    BY <1>2, WorldKept DEF Next
  <2> QED BY <2>1, KeptIsEnough
<1> QED BY <1>1, <1>2

-----------------------------------------------------------------------------
(* The invariant of the governed tool, for any number of callers, keys,    *)
(* inputs and calls, whatever fails, expires or crashes in between.        *)
THEOREM InductiveInvariant == Spec => []IInv
BY InitInv, NextInv, PTL DEF Spec

(* The records of approvals, executions, breaker and calls keep their      *)
(* shape; the tries of a call never exceed the policy.                     *)
THEOREM TypeCorrect == Spec => []TypeOK
<1>1. IInv => TypeOK
  BY DEF IInv
<1> QED BY <1>1, InductiveInvariant, PTL

(* All calls with one key get one answer, which is that of their input:    *)
(* CompleteToolExecution refuses the attempt that was superseded.          *)
THEOREM OneAnswer == Spec => []AnswersAgree
<1>1. IInv => AnswersAgree
  <2> SUFFICES ASSUME IInv, NeedsKey
               PROVE  /\ \A a, b \in answers : a.key = b.key => a.out = b.out
                      /\ \A a \in answers : a.out[1] = a.digest
    BY DEF AnswersAgree
  <2>1. \A a \in answers : /\ exec[a.key].status = "succeeded" /\ exec[a.key].out = a.out
                           /\ exec[a.key].digest = a.digest /\ a.key \in Keys
    BY DEF IInv, AnswerInv, TypeOK
  <2>2. \A a \in answers : exec[a.key].out[1] = exec[a.key].digest
    BY <2>1 DEF IInv, ExecInv
  <2> QED BY <2>1, <2>2
<1> QED BY <1>1, InductiveInvariant, PTL

(* As long as no lease is outlived, one handler runs for a key.            *)
THEOREM LeasedHandlerIsAlone == Spec => []OneHandlerPerLease
<1>1. IInv => OneHandlerPerLease
  <2> SUFFICES ASSUME IInv, NeedsKey, NEW c1 \in Callers, NEW c2 \in Callers,
                      call[c1].pc \in InHandler, call[c2].pc \in InHandler,
                      call[c1].key = call[c2].key, ~call[c1].late, ~call[c2].late
               PROVE  c1 = c2
    BY DEF OneHandlerPerLease
  <2>1. call[c1].pc \in Working /\ call[c2].pc \in Working
    BY DEF InHandler, Working
  <2>2. Record(c1).attempt = Attempt(c1) /\ Record(c2).attempt = Attempt(c2)
    BY <2>1 DEF IInv, CallInv, CallOK
  <2>3. Attempt(c1) = Attempt(c2)
    BY <2>2 DEF Record
  <2> QED BY <2>3, AttemptsDiffer
<1> QED BY <1>1, InductiveInvariant, PTL

(* A consumed approval belongs to an execution that succeeded.             *)
THEOREM ApprovalIsUsedByResult == Spec => []ConsumedIsDone
<1>1. IInv => ConsumedIsDone
  BY DEF IInv
<1> QED BY <1>1, InductiveInvariant, PTL

(* No handler runs without an approval, whatever the leases did.           *)
THEOREM HandlersAreApproved == Spec => []RunsOnlyApproved
<1>1. IInv => RunsOnlyApproved
  BY DEF IInv, GrantInv, RunsOnlyApproved, InHandler, Grant
<1> QED BY <1>1, InductiveInvariant, PTL
=============================================================================
