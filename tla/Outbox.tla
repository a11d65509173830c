------------------------------- MODULE Outbox -------------------------------
(***************************************************************************)
(* The transactional outbox that consumers share                           *)
(* (tweet/repository/outbox_repo.go and the two extra updates of           *)
(* follow/projection/store.go).  A worker claims a row under a lease, and  *)
(* completes, fails, yields or interrupts it only while the row still      *)
(* carries its lease; leases that ran out are released by any worker.      *)
(*                                                                         *)
(* A claim writes a fresh lease token.  A worker claims again only after   *)
(* it is done with its claim, so the worker stands for owner and token.    *)
(* Time is not counted: a lease may run out at any moment, and a failed    *)
(* row may be claimed again at once (its backoff has passed).              *)
(***************************************************************************)
EXTENDS Naturals

CONSTANTS
    Tasks, Workers,
    NoWorker,       \* the empty lease owner
    MaxRetries      \* max_retries of a row

ASSUME OutboxAssumption == MaxRetries \in Nat \ {0} /\ NoWorker \notin Workers

VARIABLE rows

Rows == [status : {"absent", "pending", "processing", "success", "failed"},
         retries : 0 .. MaxRetries,
         owner : Workers \cup {NoWorker},
         leased : BOOLEAN]      \* lease_until > now

NoRow == [status |-> "absent", retries |-> 0, owner |-> NoWorker, leased |-> FALSE]
NewRow == [NoRow EXCEPT !.status = "pending"]

(* The row without its lease.                                              *)
Released(r, status, retries) ==
    [status |-> status, retries |-> retries, owner |-> NoWorker, leased |-> FALSE]

(* claimableOutboxTasksQuery                                               *)
Claimable(r) == r.status \in {"pending", "failed"} /\ r.retries < MaxRetries

(* activeOutboxClaimQuery, SQLStore.active                                 *)
Holds(t, w) == rows[t].status = "processing" /\ rows[t].owner = w /\ rows[t].leased

Create(T) ==
    /\ \A t \in T : rows[t] = NoRow
    /\ rows' = [t \in Tasks |-> IF t \in T THEN NewRow ELSE rows[t]]

(* fault: a claim does not look at the status.                             *)
ClaimAny(t, w) ==
    /\ rows[t].status # "absent" /\ rows[t].retries < MaxRetries
    /\ rows' = [rows EXCEPT ![t] = [status |-> "processing", retries |-> @.retries + 1,
                                    owner |-> w, leased |-> TRUE]]

Claim(t, w) ==
    /\ Claimable(rows[t])
    /\ rows' = [rows EXCEPT ![t] = [status |-> "processing", retries |-> @.retries + 1,
                                    owner |-> w, leased |-> TRUE]]

(* Advance with done.  (CompleteClaim, of the other task types, leaves the *)
(* retries as they are, which nothing reads any more.)                     *)
Complete(t, w) ==
    /\ Holds(t, w)
    /\ rows' = [rows EXCEPT ![t] = Released(@, "success", 0)]

(* Advance without done: the page is over, the task goes on later.         *)
Yield(t, w) ==
    /\ Holds(t, w)
    /\ rows' = [rows EXCEPT ![t] = Released(@, "pending", 0)]

(* Interrupt: the worker shuts down and gives its attempt back.            *)
Interrupt(t, w) ==
    /\ Holds(t, w)
    /\ rows' = [rows EXCEPT ![t] = Released(@, "pending", @.retries - 1)]

(* FailClaim: terminal exactly when the attempts are used up.              *)
FailClaim(t, w) ==
    /\ Holds(t, w)
    /\ rows' = [rows EXCEPT ![t] = Released(@, "failed", @.retries)]

LeaseExpires(t) ==
    /\ rows[t].leased
    /\ rows' = [rows EXCEPT ![t].leased = FALSE]

(* RecoverExpiredClaims, row by row                                        *)
RecoverExpired(t) ==
    /\ rows[t].status = "processing" /\ ~rows[t].leased
    /\ rows' = [rows EXCEPT ![t] = Released(@, "failed", @.retries)]

Exhausted(r) == r.status = "failed" /\ r.retries = MaxRetries

RowStep ==
    \/ \E T \in SUBSET Tasks : Create(T)
    \/ \E t \in Tasks, w \in Workers :
          \/ Claim(t, w) \/ Complete(t, w) \/ Yield(t, w)
          \/ Interrupt(t, w) \/ FailClaim(t, w)
    \/ \E t \in Tasks : LeaseExpires(t) \/ RecoverExpired(t)

-----------------------------------------------------------------------------
(* The ledger a reader of the table sees.                                  *)
Entry(r) ==
    CASE r.status = "absent" -> [state |-> "absent"]
      [] r.status = "processing" -> [state |-> "held", by |-> r.owner]
      [] r.status = "success" -> [state |-> "done"]
      [] Exhausted(r) -> [state |-> "buried"]
      [] OTHER -> [state |-> "open"]

Ledger == INSTANCE TaskLedger WITH ledger <- [t \in Tasks |-> Entry(rows[t])]

(* The outbox keeps the promise of the ledger: however claims, late        *)
(* completions, expiries and recoveries interleave, a task has one holder, *)
(* only the holder finishes it, and what is done stays done.               *)
KeepsLedger == Ledger!LedgerSpec
=============================================================================
