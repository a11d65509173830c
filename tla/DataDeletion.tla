---------------------------- MODULE DataDeletion ----------------------------
(***************************************************************************)
(* Deletion of one user's data (agent/deletion, the data_deletion_* files  *)
(* of agent/repository and agent/service).  A request is inspected by a    *)
(* preflight and, once enabled, executed stage by stage: a fence against   *)
(* further writes, the deletion of each store, a verification of all       *)
(* stores, and the end.  Workers claim a stage under a lease and commit it *)
(* with a compare-and-swap on the request's revision; a legal hold may     *)
(* arrive whenever no lease is live.  Some writers of the user's data pin  *)
(* the subject while they write; the others ask at most whether there is a *)
(* fence before they write, and the fence does not wait for them.          *)
(*                                                                         *)
(* Every claim draws a fresh token, and one expiry ends all leases that    *)
(* were written with it (the subject's and the stage's end at the same     *)
(* time).  Time is not counted: a lease may run out at any moment.  The    *)
(* count of writes in flight is kept as the set of writes it counts.       *)
(***************************************************************************)
EXTENDS Naturals

CONSTANTS
    Requests, NoRequest,
    Stores,         \* how many stores there are, in the order of their stages
    External,       \* those outside Mongo, deleted under an operation journal
    Workers,
    Writes,         \* writes of the user's data
    Pinned,         \* those that pin the subject, all in Mongo
    Old             \* data from the time before the fence

ASSUME DeletionAssumption ==
    /\ Stores \in Nat
    /\ External \subseteq 1 .. Stores
    /\ NoRequest \notin Requests
    /\ Pinned \subseteq Writes /\ Old \notin Writes

Store == 1 .. Stores
Last == Stores + 3      \* fence, one stage per store, verification, end

VARIABLES
    subject,    \* the user's retention subject
    request,    \* request[r]: the deletion request with its checkpoint
    op,         \* op[r][s]: the operation record of a store's deletion
    data,       \* data[s]: the user's data in the store, by who wrote it
    write,      \* write[p]: how far a write is
    claims,     \* the token drawn last
    expired,    \* the tokens whose leases have run out
    worker      \* worker[w]: the preflight or stage it executes

vars == <<subject, request, op, data, write, claims, expired, worker>>

Live(k) == k # 0 /\ k \notin expired

NewRequest == [status |-> "none", supported |-> FALSE, lease |-> 0, done |-> 0,
               running |-> 0, started |-> FALSE, revision |-> 0]
NoOperation == [status |-> "none", by |-> 0, live |-> FALSE]
Resting == [pc |-> "idle", request |-> NoRequest, token |-> 0, revision |-> 0,
            stage |-> 1, gov |-> 0, seen |-> 0, ok |-> FALSE]

Init ==
    /\ subject = [hold |-> "none", revision |-> 1, token |-> 0, fence |-> NoRequest,
                  active |-> {}]
    /\ request = [r \in Requests |-> NewRequest]
    /\ op = [r \in Requests |-> [s \in Store |-> NoOperation]]
    /\ data = [s \in Store |-> {Old}]
    /\ write = [p \in Writes |-> "new"]
    /\ claims = 0 /\ expired = {}
    /\ worker = [w \in Workers |-> Resting]

At(w, pc) == worker[w].pc = pc
Token(w) == worker[w].token
Mine(w) == request[worker[w].request]
Goto(w, pc) == worker' = [worker EXCEPT ![w].pc = pc]

(* An error ends the stage: it will be recorded as failed.                 *)
Fails(w) == worker' = [worker EXCEPT ![w].pc = "complete", ![w].ok = FALSE]
(* The stage's work is done while its lease is live (completedAt).         *)
Succeeds(w) == /\ Live(Token(w))
               /\ worker' = [worker EXCEPT ![w].pc = "complete", ![w].ok = TRUE]

-----------------------------------------------------------------------------
(* The request and its preflight                                           *)

Active(r) == request[r].status \notin {"none", "cancelled", "completed"}

CreateRequest(r) ==
    /\ request[r].status = "none" /\ \A q \in Requests : ~Active(q)
    /\ request' = [request EXCEPT ![r].status = "requested", ![r].revision = 1]
    /\ UNCHANGED <<subject, op, data, write, claims, expired, worker>>

(* CancelDataDeletionRequest                                               *)
CancelRequest(r) ==
    /\ Active(r)
    /\ request[r].status = "preflight_running" => ~Live(request[r].lease)
    /\ ~Live(request[r].running)
    /\ request' = [request EXCEPT ![r].status = "cancelled", ![r].supported = FALSE,
                                  ![r].lease = 0, ![r].revision = @ + 1]
    /\ UNCHANGED <<subject, op, data, write, claims, expired, worker>>

(* Nothing in the repository sets execution_supported: an operator would.  *)
EnableExecution(r) ==
    /\ request[r].status = "preview_ready" /\ ~request[r].supported
    /\ request' = [request EXCEPT ![r].supported = TRUE, ![r].revision = @ + 1]
    /\ UNCHANGED <<subject, op, data, write, claims, expired, worker>>

Draws(w, r, pc, stage) ==
    /\ claims' = claims + 1
    /\ worker' = [worker EXCEPT ![w] = [Resting EXCEPT
          !.pc = pc, !.request = r, !.token = claims + 1,
          !.revision = request[r].revision, !.stage = stage]]

(* fault: a request whose execution has begun is inspected again.          *)
ClaimPreflightAnyTime(w, r) ==
    /\ At(w, "idle")
    /\ request[r].status \in {"requested", "blocked", "preview_ready"}
    /\ ~Live(request[r].lease) /\ ~Live(request[r].running)
    /\ Draws(w, r, "preflight", 1)
    /\ request' = [request EXCEPT ![r].status = "preflight_running", ![r].lease = claims + 1,
                                  ![r].revision = @ + 1]
    /\ UNCHANGED <<subject, op, data, write, expired>>

(* ClaimDataDeletionPreflight: blocked stands for the two blocked states   *)
(* and the failed one.  The status of a running preflight is not among     *)
(* those it takes, whatever its lease.                                     *)
ClaimPreflight(w, r) ==
    /\ At(w, "idle")
    /\ request[r].status \in {"requested", "blocked", "preview_ready"}
    /\ ~Live(request[r].lease) /\ ~Live(request[r].running) /\ ~request[r].started
    /\ Draws(w, r, "preflight", 1)
    /\ request' = [request EXCEPT ![r].status = "preflight_running", ![r].lease = claims + 1,
                                  ![r].revision = @ + 1]
    /\ UNCHANGED <<subject, op, data, write, expired>>

(* AcquireDataRetentionSubjectLease                                        *)
Leasable == subject.hold # "active" /\ ~Live(subject.token)
LeaseSubject(k) == subject' = [subject EXCEPT !.hold = "none", !.token = k]

(* The subject's lease and the inventory; ok: both were had.               *)
Inspect(w) ==
    /\ At(w, "preflight")
    /\ \/ /\ Leasable /\ LeaseSubject(Token(w))
          /\ \E ok \in BOOLEAN :
                worker' = [worker EXCEPT ![w].pc = "preview", ![w].ok = ok]
       \/ /\ worker' = [worker EXCEPT ![w].pc = "preview", ![w].ok = FALSE]
          /\ UNCHANGED subject
    /\ UNCHANGED <<request, op, data, write, claims, expired>>

(* CompleteDataDeletionPreflight: a new protocol with an empty checkpoint. *)
FinishPreflight(w) ==
    LET r == worker[w].request IN
    /\ At(w, "preview")
    /\ IF request[r].status = "preflight_running" /\ request[r].lease = Token(w)
       THEN request' = [request EXCEPT ![r] = [NewRequest EXCEPT
               !.status = IF worker[w].ok THEN "preview_ready" ELSE "blocked",
               !.revision = request[r].revision + 1]]
       ELSE UNCHANGED request
    /\ Goto(w, "release")
    /\ UNCHANGED <<subject, op, data, write, claims, expired>>

-----------------------------------------------------------------------------
(* A stage, from its claim to its receipt                                  *)

Executable(r) == request[r].status = "preview_ready" /\ request[r].supported

(* RunRequest and ClaimExecutionStage, to the subject's lease.  A stage    *)
(* that runs under a live lease is busy.                                   *)
ReadRequest(w, r) ==
    /\ At(w, "idle")
    /\ Executable(r) /\ ~Live(request[r].running)
    /\ Draws(w, r, "acquire", request[r].done + 1)
    /\ UNCHANGED <<subject, request, op, data, write, expired>>

AcquireSubject(w) ==
    /\ At(w, "acquire")
    /\ Leasable /\ LeaseSubject(Token(w)) /\ Goto(w, "claim")
    /\ UNCHANGED <<request, op, data, write, claims, expired>>

(* CompareAndSwapDataDeletionCheckpoint                                    *)
Unchanged(w) == Executable(worker[w].request) /\ Mine(w).revision = worker[w].revision

ClaimStage(w) ==
    /\ At(w, "claim")
    /\ IF Unchanged(w)
       THEN /\ request' = [request EXCEPT ![worker[w].request] =
                  [Mine(w) EXCEPT !.running = Token(w), !.started = TRUE, !.revision = @ + 1]]
            /\ worker' = [worker EXCEPT ![w].revision = @ + 1,
                  ![w].pc = IF worker[w].stage = Last THEN "act" ELSE "govern"]
       ELSE Goto(w, "release") /\ UNCHANGED request
    /\ UNCHANGED <<subject, op, data, write, claims, expired>>

(* IssueGovernanceDecision, valid while the stage's lease is               *)
Govern(w) ==
    /\ At(w, "govern")
    /\ \/ /\ Live(Token(w)) /\ subject.hold # "active"
          /\ worker' = [worker EXCEPT ![w].pc = "act", ![w].gov = subject.revision]
       \/ Fails(w)
    /\ UNCHANGED <<subject, request, op, data, write, claims, expired>>

(* recheckGovernance: no hold, and none came and went.                     *)
Current(w) == subject.hold # "active" /\ subject.revision = worker[w].gov

(* fault: the fence does not wait for the writes in flight.                *)
EnforceFenceAtOnce(w) ==
    /\ At(w, "act") /\ worker[w].stage = 1
    /\ \/ /\ Current(w)
          /\ subject.fence \in {NoRequest, worker[w].request}
          /\ subject' = [subject EXCEPT !.fence = worker[w].request]
          /\ Succeeds(w)
       \/ Fails(w) /\ UNCHANGED subject
    /\ UNCHANGED <<request, op, data, write, claims, expired>>

EnforceFence(w) ==
    /\ At(w, "act") /\ worker[w].stage = 1
    /\ \/ /\ Current(w) /\ subject.active = {}
          /\ subject.fence \in {NoRequest, worker[w].request}
          /\ subject' = [subject EXCEPT !.fence = worker[w].request]
          /\ Succeeds(w) \/ Fails(w)
       \/ Fails(w) /\ UNCHANGED subject
    /\ UNCHANGED <<request, op, data, write, claims, expired>>

Target(w) == worker[w].stage - 1
Operation(w) == op[worker[w].request][Target(w)]
Records(w, status) ==
    op' = [op EXCEPT ![worker[w].request][Target(w)] =
              [status |-> status, by |-> Token(w), live |-> status = "running"]]

(* The transaction of a Mongo store, whose reply may be lost.  An          *)
(* operation that was completed earlier is replayed.                       *)
DeleteOwned(w) ==
    /\ At(w, "act") /\ Target(w) \in Store \ External
    /\ \/ /\ Current(w)
          /\ IF Operation(w).status = "completed" THEN UNCHANGED <<op, data>>
             ELSE Records(w, "completed") /\ data' = [data EXCEPT ![Target(w)] = {}]
          /\ Goto(w, "observe") \/ Fails(w)
       \/ Fails(w) /\ UNCHANGED <<op, data>>
    /\ UNCHANGED <<subject, request, write, claims, expired>>

(* The journal of an external store: its lease ends with the stage's or    *)
(* before.                                                                 *)
Held(o) == o.status = "running" /\ o.live /\ Live(o.by)

ClaimOperation(w) ==
    /\ At(w, "act") /\ Target(w) \in External
    /\ \/ /\ Current(w) /\ Operation(w).status = "completed"
          /\ Goto(w, "observe") /\ UNCHANGED op
       \/ /\ Current(w) /\ Operation(w).status # "completed" /\ ~Held(Operation(w))
          /\ Records(w, "running") /\ Goto(w, "destroy")
       \/ Fails(w) /\ UNCHANGED op
    /\ UNCHANGED <<subject, request, data, write, claims, expired>>

(* DeleteSubject of the external resource, which compares nothing any more,*)
(* and the time taken after it: ok when the operation's lease was live.    *)
Destroy(w) ==
    /\ At(w, "destroy")
    /\ \/ /\ data' = [data EXCEPT ![Target(w)] = {}]
          /\ \/ worker' = [worker EXCEPT ![w].pc = "record", ![w].ok = Held(Operation(w))]
             \/ Fails(w)
       \/ Fails(w) /\ UNCHANGED data
    /\ UNCHANGED <<subject, request, op, write, claims, expired>>

(* The count after it, and the journal's Complete, which compares the token*)
(* and the time taken before.                                              *)
RecordOperation(w) ==
    /\ At(w, "record")
    /\ \/ /\ data[Target(w)] = {} /\ worker[w].ok
          /\ Operation(w).status = "running" /\ Operation(w).by = Token(w)
          /\ Records(w, "completed")
          /\ Goto(w, "observe") \/ Fails(w)
       \/ Fails(w) /\ UNCHANGED op
    /\ UNCHANGED <<subject, request, data, write, claims, expired>>

(* Observe and VerifyAdapterResult.  The receipt's time is held against the*)
(* decision of this attempt: the receipt of an earlier attempt is refused. *)
Observe(w) ==
    /\ At(w, "observe")
    /\ \/ data[Target(w)] = {} /\ Operation(w).by = Token(w) /\ Succeeds(w)
       \/ Fails(w)
    /\ UNCHANGED <<subject, request, op, data, write, claims, expired>>

(* executeCrossStoreVerification: a decision and a look at each store      *)
VerifyStore(w) ==
    LET s == worker[w].seen + 1 IN
    /\ At(w, "act") /\ worker[w].stage = Last - 1
    /\ \/ /\ s < Stores /\ data[s] = {}
          /\ worker' = [worker EXCEPT ![w].pc = "govern", ![w].seen = s]
       \/ (s \in Store => data[s] = {}) /\ s >= Stores /\ Succeeds(w)
       \/ Fails(w)
    /\ UNCHANGED <<subject, request, op, data, write, claims, expired>>

Finalize(w) ==
    /\ At(w, "act") /\ worker[w].stage = Last
    /\ Succeeds(w) \/ Fails(w)
    /\ UNCHANGED <<subject, request, op, data, write, claims, expired>>

(* fault: the last stage does not complete the request.                    *)
CommittedOpen(w, q) == [q EXCEPT !.done = worker[w].stage, !.running = 0, !.revision = @ + 1]

(* The checkpoint when the stage succeeded                                 *)
Committed(w, q) ==
    [q EXCEPT !.done = worker[w].stage, !.running = 0, !.revision = @ + 1,
              !.status = IF worker[w].stage = Last THEN "completed" ELSE @,
              !.supported = worker[w].stage # Last]

(* CompleteExecutionStage: the stage must still run with this token.  What *)
(* comes too late changes nothing, and leaves the subject's lease or not.  *)
CompleteStage(w) ==
    /\ At(w, "complete")
    /\ IF Unchanged(w) /\ Mine(w).running = Token(w) /\ (worker[w].ok \/ Live(Token(w)))
       THEN /\ request' = [request EXCEPT ![worker[w].request] =
                  IF worker[w].ok THEN Committed(w, Mine(w))
                  ELSE [Mine(w) EXCEPT !.running = 0, !.revision = @ + 1]]
            /\ Goto(w, "release")
       ELSE UNCHANGED request /\ (Goto(w, "release") \/ worker' = [worker EXCEPT ![w] = Resting])
    /\ UNCHANGED <<subject, op, data, write, claims, expired>>

(* ReleaseDataRetentionSubjectLease                                        *)
ReleaseSubject(w) ==
    /\ At(w, "release")
    /\ subject' = [subject EXCEPT !.token = IF @ = Token(w) THEN 0 ELSE @]
    /\ worker' = [worker EXCEPT ![w] = Resting]
    /\ UNCHANGED <<request, op, data, write, claims, expired>>

(* The call ends: an error, its context is canceled, or the process dies.  *)
Leave(w) ==
    /\ ~At(w, "idle")
    /\ worker' = [worker EXCEPT ![w] = Resting]
    /\ UNCHANGED <<subject, request, op, data, write, claims, expired>>

-----------------------------------------------------------------------------
(* Legal holds                                                             *)

(* fault: a hold does not wait for the lease.                              *)
ApplyHoldAnyTime ==
    /\ subject' = [subject EXCEPT !.hold = "active", !.token = 0, !.revision = @ + 1]
    /\ UNCHANGED <<request, op, data, write, claims, expired, worker>>

ApplyHold ==
    /\ ~Live(subject.token)
    /\ subject' = [subject EXCEPT !.hold = "active", !.token = 0, !.revision = @ + 1]
    /\ UNCHANGED <<request, op, data, write, claims, expired, worker>>

ReleaseHold ==
    /\ subject.hold # "none"
    /\ subject' = [subject EXCEPT !.hold = "none", !.revision = @ + 1]
    /\ UNCHANGED <<request, op, data, write, claims, expired, worker>>

(* hold_until passes: the hold no longer counts, the record says held.     *)
HoldLapses ==
    /\ subject.hold = "active"
    /\ subject' = [subject EXCEPT !.hold = "lapsed"]
    /\ UNCHANGED <<request, op, data, write, claims, expired, worker>>

-----------------------------------------------------------------------------
(* Writers: withSubjectWriteLease                                          *)

(* AcquireSubjectWrite                                                     *)
PinWrite(p) ==
    /\ p \in Pinned /\ write[p] = "new" /\ subject.fence = NoRequest
    /\ subject' = [subject EXCEPT !.active = @ \cup {p}]
    /\ write' = [write EXCEPT ![p] = "pinned"]
    /\ UNCHANGED <<request, op, data, claims, expired, worker>>

(* The write is confirmed, or proved not to have matched.                  *)
PerformWrite(p) ==
    /\ write[p] = "pinned"
    /\ write' = [write EXCEPT ![p] = "confirmed"]
    /\ \/ \E s \in Store \ External : data' = [data EXCEPT ![s] = @ \cup {p}]
       \/ UNCHANGED data
    /\ UNCHANGED <<subject, request, op, claims, expired, worker>>

(* The reply is lost: the count stays, the write may land at any time.     *)
LoseReply(p) ==
    /\ write[p] = "pinned"
    /\ write' = [write EXCEPT ![p] = "unsure"]
    /\ UNCHANGED <<subject, request, op, data, claims, expired, worker>>

LandWrite(p) ==
    /\ write[p] = "unsure"
    /\ write' = [write EXCEPT ![p] = "over"]
    /\ \E s \in Store \ External : data' = [data EXCEPT ![s] = @ \cup {p}]
    /\ UNCHANGED <<subject, request, op, claims, expired, worker>>

(* ReleaseSubjectWrite, which may fail                                     *)
UnpinWrite(p) ==
    /\ write[p] = "confirmed"
    /\ write' = [write EXCEPT ![p] = "over"]
    /\ subject' = [subject EXCEPT !.active = @ \ {p}] \/ UNCHANGED subject
    /\ UNCHANGED <<request, op, data, claims, expired, worker>>

(* A writer that does not pin: tool approvals, tool executions, execution  *)
(* traces, objects and vectors.  One that asked (AuthorizeSubjectWrite) may*)
(* have asked long before, so that it, too, may land at any time.          *)
LandLoose(p) ==
    /\ p \notin Pinned /\ write[p] = "new"
    /\ write' = [write EXCEPT ![p] = "over"]
    /\ \E s \in Store :
          data' = [data EXCEPT ![s] = @ \cup {IF subject.fence = NoRequest THEN Old ELSE p}]
    /\ UNCHANGED <<subject, request, op, claims, expired, worker>>

-----------------------------------------------------------------------------
(* A lease that somebody may still look at runs out.                       *)
Expire(k) ==
    /\ Live(k)
    /\ \/ subject.token = k
       \/ \E r \in Requests : request[r].lease = k \/ request[r].running = k
       \/ \E w \in Workers : Token(w) = k
    /\ expired' = expired \cup {k}
    /\ UNCHANGED <<subject, request, op, data, write, claims, worker>>

OperationLapses(r, s) ==
    /\ Held(op[r][s])
    /\ op' = [op EXCEPT ![r][s].live = FALSE]
    /\ UNCHANGED <<subject, request, data, write, claims, expired, worker>>

Stage(w) ==
    \/ AcquireSubject(w) \/ ClaimStage(w) \/ Govern(w) \/ EnforceFence(w)
    \/ DeleteOwned(w) \/ ClaimOperation(w) \/ Destroy(w) \/ RecordOperation(w)
    \/ Observe(w) \/ VerifyStore(w) \/ Finalize(w) \/ CompleteStage(w)

Next ==
    \/ \E r \in Requests : CreateRequest(r) \/ CancelRequest(r) \/ EnableExecution(r)
    \/ \E w \in Workers, r \in Requests : ClaimPreflight(w, r) \/ ReadRequest(w, r)
    \/ \E w \in Workers : Inspect(w) \/ FinishPreflight(w) \/ Stage(w)
                          \/ ReleaseSubject(w) \/ Leave(w)
    \/ ApplyHold \/ ReleaseHold \/ HoldLapses
    \/ \E p \in Writes : PinWrite(p) \/ PerformWrite(p) \/ LoseReply(p)
                         \/ LandWrite(p) \/ UnpinWrite(p) \/ LandLoose(p)
    \/ \E k \in 1 .. claims : Expire(k)
    \/ \E r \in Requests, s \in Store : OperationLapses(r, s)

Spec == Init /\ [][Next]_vars

-----------------------------------------------------------------------------
(* Properties                                                              *)

TypeOK ==
    /\ subject \in [hold : {"none", "active", "lapsed"}, revision : Nat, token : Nat,
                    fence : Requests \cup {NoRequest}, active : SUBSET Writes]
    /\ request \in [Requests -> [
          status : {"none", "requested", "preflight_running", "blocked", "preview_ready",
                    "cancelled", "completed"},
          supported : BOOLEAN, lease : Nat, done : 0 .. Last, running : Nat,
          started : BOOLEAN, revision : Nat]]
    /\ op \in [Requests -> [Store -> [status : {"none", "running", "completed"},
                                      by : Nat, live : BOOLEAN]]]
    /\ data \in [Store -> SUBSET (Writes \cup {Old})]
    /\ write \in [Writes -> {"new", "pinned", "confirmed", "unsure", "over"}]
    /\ claims \in Nat /\ expired \subseteq 1 .. claims
    /\ worker \in [Workers -> [
          pc : {"idle", "preflight", "preview", "acquire", "claim", "govern", "act",
                "destroy", "record", "observe", "complete", "release"},
          request : Requests \cup {NoRequest}, token : Nat, revision : Nat,
          stage : 1 .. Last, gov : Nat, seen : 0 .. Stores, ok : BOOLEAN]]

(* Nothing but writes that did not pin the subject and came after the fence*)
Erased(s) == data[s] \subseteq Writes \ Pinned

(* A store whose deletion is on record has lost all it held when the fence *)
(* came, and no pinned write brings data back: neither one that was in     *)
(* flight then, nor one whose reply was lost and that lands late, nor one  *)
(* after a cancellation.  What is in it again is from writers that do not  *)
(* pin the subject (the writers of the external stores are all such) and   *)
(* that wrote behind the fence.                                            *)
ErasedStaysErased ==
    \A r \in Requests, s \in Store : request[r].done > s => Erased(s)

(* No data is deleted under a legal hold, except in an external store by a *)
(* worker that has outlived its lease (DeleteSubject compares nothing): a  *)
(* hold is taken only when no lease is live, and Mongo deletions compare   *)
(* the hold's revision in their transaction.                               *)
HoldRespected ==
    [][\A s \in Store : ~(data[s] \subseteq data'[s]) /\ subject.hold = "active" =>
          \E w \in Workers : At(w, "destroy") /\ Target(w) = s /\ ~Live(Token(w))]_vars

(* Once a stage has been claimed the checkpoint is kept: no preflight, late*)
(* or repeated, puts the request's progress back.                          *)
ProgressKept ==
    [][\A r \in Requests : request[r].started =>
          request'[r].started /\ request'[r].done >= request[r].done]_vars
=============================================================================
