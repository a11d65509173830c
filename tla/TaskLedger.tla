----------------------------- MODULE TaskLedger -----------------------------
(***************************************************************************)
(* What the outbox promises the workers that share it: a task is open,     *)
(* held by one worker, done or buried.  It moves from open to held, only   *)
(* its holder finishes it, a hold that is given up or runs out puts it     *)
(* back, and a task that is done stays done.  How claims, leases, tokens   *)
(* and retry counters bring this about is not said here.                   *)
(***************************************************************************)
CONSTANTS Tasks, Workers

VARIABLES ledger    \* ledger[t]: the state of the task and, when held, by whom

Absent == [state |-> "absent"]
Open == [state |-> "open"]
Held(w) == [state |-> "held", by |-> w]
Done == [state |-> "done"]
Buried == [state |-> "buried"]
Entries == {Absent, Open, Done, Buried} \cup {Held(w) : w \in Workers}

LedgerInit == ledger = [t \in Tasks |-> Absent]

Enter(T) ==
    /\ \A t \in T : ledger[t] = Absent
    /\ ledger' = [t \in Tasks |-> IF t \in T THEN Open ELSE ledger[t]]
Take(t, w) == ledger[t] = Open /\ ledger' = [ledger EXCEPT ![t] = Held(w)]
Finish(t, w) == ledger[t] = Held(w) /\ ledger' = [ledger EXCEPT ![t] = Done]
GiveUp(t, w) ==
    /\ ledger[t] = Held(w)
    /\ \E e \in {Open, Buried} : ledger' = [ledger EXCEPT ![t] = e]

LedgerNext ==
    \/ \E T \in SUBSET Tasks : Enter(T)
    \/ \E t \in Tasks, w \in Workers : Take(t, w) \/ Finish(t, w) \/ GiveUp(t, w)

LedgerSpec == LedgerInit /\ [][LedgerNext]_ledger
=============================================================================
