----------------------- MODULE FollowProjection_proofs -----------------------
(***************************************************************************)
(* The outbox under the follow projection implements the ledger, for any   *)
(* number of followers, changes, workers and faults.                       *)
(*                                                                         *)
(* Two invariants are needed.  A row in processing names a worker (RowsInv)*)
(* so that whoever recovers it takes it from somebody; and a worker that   *)
(* is busy has a task of the table (WorkInv), so that the row it completes *)
(* or gives back is one the ledger knows.  Every step of the projection is *)
(* then a step of the table or leaves it alone (StepsAreRowSteps), and     *)
(* every step of the table is one of the ledger or a stutter               *)
(* (RowStepsAreLedgerSteps).                                               *)
(*                                                                         *)
(* The second part proves the types and bounds, and prepares what          *)
(* FollowProjectionCache_proofs says of Redis.  The actions have many      *)
(* branches that do the same to the state that matters, so that every step *)
(* is first put into a class (StepClasses): a calm one, in which workers   *)
(* only give up or start and rows are only released or claimed (Calm), a   *)
(* change (Change), a command that arrives from a worker without the lock  *)
(* or from one that has given up (Lost), or a worker's progress through    *)
(* its page (Progress, with one class per stage).  The invariant Base says *)
(* that state is well typed, that nothing is known of events that have not *)
(* happened, that epochs are given out once, and that the holder of the    *)
(* lock works with the author's row as it is and, once it has begun, is    *)
(* the only one that Redis listens to (LockInv).                           *)
(***************************************************************************)
EXTENDS FollowProjection, FiniteSetTheorems, SequenceTheorems, TLAPS

RowsInv ==
    /\ rows \in [Tasks -> Rows]
    /\ \A t \in Tasks : rows[t].status = "processing" =>
                           rows[t].owner \in Workers /\ rows[t].retries > 0

WorkInv ==
    /\ DOMAIN worker = Workers
    /\ \A w \in Workers : /\ {"pc", "task"} \subseteq DOMAIN worker[w]
                          /\ worker[w].pc # "idle" => worker[w].task \in Tasks

TableInv == RowsInv /\ WorkInv

(* A step of the table keeps its rows well formed.                         *)
LEMMA RowStepKeepsRows == RowsInv /\ (RowStep \/ UNCHANGED rows) => RowsInv'
<1> SUFFICES ASSUME RowsInv, RowStep PROVE RowsInv'
  BY DEF RowsInv
<1> USE OutboxAssumption DEF RowsInv, Rows
<1>1. ASSUME NEW T \in SUBSET Tasks, Create(T) PROVE RowsInv'
  BY <1>1 DEF Create, NewRow, NoRow
<1>2. ASSUME NEW t \in Tasks, NEW w \in Workers, Claim(t, w) PROVE RowsInv'
  BY <1>2 DEF Claim, Claimable
<1>3. ASSUME NEW t \in Tasks, NEW w \in Workers, Complete(t, w) PROVE RowsInv'
  BY <1>3 DEF Complete, Released
<1>4. ASSUME NEW t \in Tasks, NEW w \in Workers, Yield(t, w) PROVE RowsInv'
  BY <1>4 DEF Yield, Released
<1>5. ASSUME NEW t \in Tasks, NEW w \in Workers, Interrupt(t, w) PROVE RowsInv'
  BY <1>5 DEF Interrupt, Released, Holds
<1>6. ASSUME NEW t \in Tasks, NEW w \in Workers, FailClaim(t, w) PROVE RowsInv'
  BY <1>6 DEF FailClaim, Released
<1>7. ASSUME NEW t \in Tasks, LeaseExpires(t) PROVE RowsInv'
  BY <1>7 DEF LeaseExpires
<1>8. ASSUME NEW t \in Tasks, RecoverExpired(t) PROVE RowsInv'
  BY <1>8 DEF RecoverExpired, Released
<1> QED BY <1>1, <1>2, <1>3, <1>4, <1>5, <1>6, <1>7, <1>8 DEF RowStep

(* The ledger's entry of a row, case by case                               *)
LEMMA EntryCases ==
  ASSUME NEW r
  PROVE  /\ r.status = "absent" => Entry(r) = Ledger!Absent
         /\ r.status = "processing" => Entry(r) = Ledger!Held(r.owner)
         /\ r.status = "success" => Entry(r) = Ledger!Done
         /\ r.status \in {"pending", "failed"} =>
               Entry(r) = IF Exhausted(r) THEN Ledger!Buried ELSE Ledger!Open
BY DEF Entry, Exhausted, Ledger!Absent, Ledger!Held, Ledger!Done, Ledger!Buried, Ledger!Open

(* A step of the table is a step of the ledger, or none.                   *)
LEMMA RowStepsAreLedgerSteps ==
  ASSUME RowsInv, RowsInv', RowStep
  PROVE  Ledger!LedgerNext \/ UNCHANGED [t \in Tasks |-> Entry(rows[t])]
<1> DEFINE Seen == [t \in Tasks |-> Entry(rows[t])]
<1> USE OutboxAssumption DEF RowsInv, Rows
<1>1. ASSUME NEW T \in SUBSET Tasks, Create(T) PROVE Ledger!Enter(T)
  <2>1. \A t \in T : Entry(rows[t]) = Ledger!Absent
    BY <1>1, EntryCases DEF Create, NoRow
  <2>2. ASSUME NEW t \in T PROVE Entry(rows'[t]) = Ledger!Open
    BY <1>1, EntryCases DEF Create, NewRow, NoRow, Exhausted
  <2>3. \A t \in Tasks : Entry(rows'[t]) = IF t \in T THEN Ledger!Open ELSE Entry(rows[t])
    BY <1>1, <2>2 DEF Create
  <2> QED BY <2>1, <2>3 DEF Ledger!Enter
<1>2. ASSUME NEW t \in Tasks, NEW w \in Workers, Claim(t, w) PROVE Ledger!Take(t, w)
  <2>1. Entry(rows[t]) = Ledger!Open
    BY <1>2, EntryCases DEF Claim, Claimable, Exhausted
  <2>2. Entry(rows'[t]) = Ledger!Held(w) /\ \A u \in Tasks \ {t} : rows'[u] = rows[u]
    BY <1>2, EntryCases DEF Claim
  <2> QED BY <2>1, <2>2 DEF Ledger!Take
<1>3. ASSUME NEW t \in Tasks, NEW w \in Workers, Complete(t, w) PROVE Ledger!Finish(t, w)
  <2>1. Entry(rows[t]) = Ledger!Held(w)
    BY <1>3, EntryCases DEF Complete, Holds
  <2>2. Entry(rows'[t]) = Ledger!Done /\ \A u \in Tasks \ {t} : rows'[u] = rows[u]
    BY <1>3, EntryCases DEF Complete, Released
  <2> QED BY <2>1, <2>2 DEF Ledger!Finish
<1>4. ASSUME NEW t \in Tasks, NEW w \in Workers,
             rows[t].status = "processing", rows[t].owner = w,
             NEW s \in {"pending", "failed"}, NEW n \in 0 .. MaxRetries,
             rows' = [rows EXCEPT ![t] = Released(rows[t], s, n)]
      PROVE  Ledger!GiveUp(t, w)
  <2>1. Entry(rows[t]) = Ledger!Held(w)
    BY <1>4, EntryCases
  <2>2. rows'[t].status \in {"pending", "failed"} /\ \A u \in Tasks \ {t} : rows'[u] = rows[u]
    BY <1>4 DEF Released
  <2>3. PICK e \in {Ledger!Open, Ledger!Buried} : Entry(rows'[t]) = e
    BY <2>2, EntryCases
  <2> QED BY <2>1, <2>2, <2>3 DEF Ledger!GiveUp
<1>5. ASSUME NEW t \in Tasks, NEW w \in Workers,
             Yield(t, w) \/ Interrupt(t, w) \/ FailClaim(t, w)
      PROVE  Ledger!GiveUp(t, w)
  BY <1>4, <1>5 DEF Yield, Interrupt, FailClaim, Holds
<1>6. ASSUME NEW t \in Tasks, RecoverExpired(t) PROVE Ledger!GiveUp(t, rows[t].owner)
  BY <1>4, <1>6 DEF RecoverExpired
<1>7. ASSUME NEW t \in Tasks, LeaseExpires(t) PROVE UNCHANGED Seen
  <2>1. ASSUME NEW u \in Tasks PROVE Entry(rows'[u]) = Entry(rows[u])
    <3>1. /\ rows'[u].status = rows[u].status /\ rows'[u].owner = rows[u].owner
          /\ rows'[u].retries = rows[u].retries
      BY <1>7 DEF LeaseExpires
    <3> QED BY <3>1 DEF Entry, Exhausted
  <2> QED BY <2>1
<1> QED BY <1>1, <1>2, <1>3, <1>5, <1>6, <1>7 DEF RowStep, RecoverExpired, Ledger!LedgerNext

-----------------------------------------------------------------------------
(* The worker w has gone on with its task or put it down; the others stay. *)
Moved(w) ==
    /\ DOMAIN worker' = Workers
    /\ \A v \in Workers \ {w} : worker'[v] = worker[v]
    /\ {"pc", "task"} \subseteq DOMAIN worker'[w]
    /\ worker'[w].pc # "idle" => worker'[w].task \in Tasks

(* The three ways in which a step ends leave the worker well formed.       *)
LEMMA EndsMove ==
  ASSUME WorkInv, NEW w \in Workers, worker[w].task \in Tasks
  PROVE  /\ Abort(w) => Moved(w)
         /\ Rest(w) => Moved(w)
         /\ \A pc : To(w, pc) => Moved(w)
<1>1. ASSUME NEW r, {"pc", "task"} \subseteq DOMAIN r, r.pc # "idle" => r.task \in Tasks,
             worker' = [worker EXCEPT ![w] = r]
      PROVE  Moved(w)
  BY <1>1 DEF WorkInv, Moved
<1>2. Abort(w) => Moved(w)
  <2> DEFINE r == [Resting EXCEPT !.pc = "failed", !.task = worker[w].task]
  <2>1. {"pc", "task"} \subseteq DOMAIN r /\ r.task = worker[w].task
    BY DEF Resting
  <2> QED BY <1>1, <2>1 DEF Abort
<1>3. Rest(w) => Moved(w)
  <2>1. {"pc", "task"} \subseteq DOMAIN Resting /\ Resting.pc = "idle"
    BY DEF Resting
  <2> QED BY <1>1, <2>1 DEF Rest
<1>4. ASSUME NEW pc, To(w, pc) PROVE Moved(w)
  <2> DEFINE r == [worker[w] EXCEPT !.pc = pc]
  <2>1. {"pc", "task"} \subseteq DOMAIN r /\ r.task = worker[w].task
    BY DEF WorkInv
  <2>2. worker' = [worker EXCEPT ![w] = r]
    BY <1>4 DEF To
  <2> HIDE DEF r
  <2> QED BY <1>1, <2>1, <2>2
<1> QED BY <1>2, <1>3, <1>4

(* A worker that moves has a task of the table while it is busy.          *)
LEMMA MovedKeepsWork ==
  ASSUME WorkInv, NEW w \in Workers, Moved(w) PROVE WorkInv'
BY DEF WorkInv, Moved

(* A page's steps change the table as the outbox allows.                   *)
LEMMA PageStepsAreRowSteps ==
  ASSUME TableInv, NEW w \in Workers, Step(w)
  PROVE  (RowStep \/ UNCHANGED rows) /\ Moved(w)
<1> DEFINE t == worker[w].task
<1>1. t \in Tasks
  BY DEF TableInv, WorkInv, Step, Enter, Decide, BeginAuthor, BeginPair, Mark, WriteTweets,
         Recheck, AdvancePair, Save, AdvanceAuthor, GiveBack
<1>2. /\ Abort(w) => Moved(w)
      /\ Rest(w) => Moved(w)
      /\ \A pc : To(w, pc) => Moved(w)
  BY <1>1, EndsMove DEF TableInv
<1>3. ASSUME NEW r, {"pc", "task"} \subseteq DOMAIN r, r.task = t,
             worker' = [worker EXCEPT ![w] = r]
      PROVE  Moved(w)
  BY <1>1, <1>3 DEF TableInv, WorkInv, Moved
<1>4. Complete(t, w) \/ Yield(t, w) \/ Interrupt(t, w) \/ FailClaim(t, w) => RowStep
  BY <1>1 DEF RowStep
<1>d. {"pc", "task"} \subseteq DOMAIN worker[w]
  BY DEF TableInv, WorkInv
<1> HIDE DEF t
<1>5. CASE Enter(w)
  BY <1>2, <1>3, <1>5, <1>d DEF Enter, t
<1>6. CASE Decide(w)
  BY <1>2, <1>3, <1>4, <1>6, <1>d DEF Decide, t
<1>7. CASE BeginAuthor(w)
  BY <1>2, <1>3, <1>7, <1>d DEF BeginAuthor, Send, OnLockedConnection, t
<1>8. CASE BeginPair(w)
  BY <1>2, <1>3, <1>8, <1>d DEF BeginPair, Send, OnLockedConnection, t
<1>9. CASE Mark(w)
  BY <1>2, <1>3, <1>9, <1>d DEF Mark, Send, OnLockedConnection, t
<1>10. CASE WriteTweets(w)
  BY <1>2, <1>10 DEF WriteTweets, Send
<1>11. CASE Recheck(w)
  BY <1>2, <1>3, <1>11, <1>d DEF Recheck, OnLockedConnection, t
<1>12. CASE AdvancePair(w)
  BY <1>2, <1>4, <1>12 DEF AdvancePair, t
<1>13. CASE Save(w)
  BY <1>2, <1>13 DEF Save
<1>14. CASE AdvanceAuthor(w)
  BY <1>2, <1>4, <1>14 DEF AdvanceAuthor, t
<1>15. CASE GiveBack(w)
  BY <1>2, <1>4, <1>15 DEF GiveBack, t
<1> QED BY <1>5, <1>6, <1>7, <1>8, <1>9, <1>10, <1>11, <1>12, <1>13, <1>14, <1>15 DEF Step

(* Every step of the projection changes the table as the outbox allows, or *)
(* leaves it alone.                                                        *)
LEMMA StepsAreRowSteps ==
  ASSUME TableInv, [Next]_vars
  PROVE  (RowStep \/ UNCHANGED rows) /\ WorkInv'
<1> USE DEF TableInv
<1>1. ASSUME UNCHANGED worker PROVE WorkInv'
  BY <1>1 DEF WorkInv
<1>2. CASE UNCHANGED vars
  BY <1>1, <1>2 DEF vars
<1>3. ASSUME NEW f \in Followers, Change(f) PROVE UNCHANGED rows /\ WorkInv'
  BY <1>1, <1>3 DEF Change
<1>4. ASSUME NEW e \in Events, Handle(e) \/ RouteFailure(e)
      PROVE  (RowStep \/ UNCHANGED rows) /\ WorkInv'
  <2>1. {e} \X {"author", "pair"} \in SUBSET Tasks
    BY ProjectionAssumption
  <2>2. Handle(e) => RowStep \/ UNCHANGED rows
    BY <2>1 DEF Handle, RowStep
  <2> QED BY <1>1, <1>4, <2>2 DEF Handle, RouteFailure
<1>5. ASSUME NEW w \in Workers, Step(w) PROVE (RowStep \/ UNCHANGED rows) /\ WorkInv'
  BY <1>5, PageStepsAreRowSteps, MovedKeepsWork
<1>6. ASSUME NEW w \in Workers, Stumble(w) \/ TimeOut(w) PROVE UNCHANGED rows /\ WorkInv'
  <2>1. worker[w].task \in Tasks
    BY <1>6 DEF WorkInv, Stumble, TimeOut, Executes, Sends
  <2> QED BY <1>6, <2>1, EndsMove, MovedKeepsWork DEF Stumble, TimeOut
<1>7. ASSUME NEW w \in Workers, LoseLock(w) PROVE UNCHANGED rows /\ WorkInv'
  BY <1>1, <1>7 DEF LoseLock
<1>8. ASSUME NEW w \in Workers, NEW t \in Tasks, ClaimTask(w, t) PROVE RowStep /\ WorkInv'
  <2>1. Moved(w)
    BY <1>8 DEF ClaimTask, Moved, WorkInv, Resting
  <2> QED BY <1>8, <2>1, MovedKeepsWork DEF ClaimTask, RowStep
<1>9. ASSUME NEW t \in Tasks, Lapse(t) \/ Recover(t) PROVE RowStep /\ WorkInv'
  BY <1>1, <1>9 DEF Lapse, Recover, RowStep
<1>10. CASE Land
  BY <1>1, <1>10 DEF Land
<1>11. ASSUME NEW f \in Followers, NEW k \in 0 .. Capacity - 1, Evict(f, k) PROVE UNCHANGED rows /\ WorkInv'
  BY <1>1, <1>11 DEF Evict
<1> QED BY <1>2, <1>3, <1>4, <1>5, <1>6, <1>7, <1>8, <1>9, <1>10, <1>11 DEF Next

(* The rows stay well formed and busy workers have a task.                 *)
THEOREM TableInvariant == Spec => []TableInv
<1>1. Init => TableInv
  BY OutboxAssumption DEF Init, TableInv, RowsInv, WorkInv, Rows, NoRow, Resting
<1>2. TableInv /\ [Next]_vars => TableInv'
  BY StepsAreRowSteps, RowStepKeepsRows DEF TableInv
<1> QED BY <1>1, <1>2, PTL DEF Spec

(* The outbox under the projection implements the ledger: one holder per   *)
(* task, only the holder finishes it, and what is done stays done, however *)
(* claims, late completions, expired leases and recoveries interleave.     *)
THEOREM ImplementsLedger == Spec => KeepsLedger
<1>1. Init => Ledger!LedgerInit
  BY EntryCases DEF Init, NoRow, Ledger!LedgerInit
<1>2. TableInv /\ TableInv' /\ [Next]_vars =>
        Ledger!LedgerNext \/ UNCHANGED [t \in Tasks |-> Entry(rows[t])]
  BY StepsAreRowSteps, RowStepsAreLedgerSteps DEF TableInv
<1>3. TableInv /\ TableInv' /\ [Next]_vars =>
        [Ledger!LedgerNext]_([t \in Tasks |-> Entry(rows[t])])
  BY <1>2
<1> QED BY <1>1, <1>3, TableInvariant, PTL DEF Spec, KeepsLedger, Ledger!LedgerSpec

-----------------------------------------------------------------------------
(* A set of naturals that is not empty has a least element, a bounded one  *)
(* a greatest.                                                             *)
LEMMA LeastNatural ==
  ASSUME NEW S \in SUBSET Nat, S # {} PROVE Min(S) \in S /\ \A y \in S : Min(S) <= y
<1> DEFINE R == {ss \in Nat \X Nat : ss[1] < ss[2]}
<1>1. IsWellFoundedOn(R, Nat)
  BY NatLessThanWellFounded DEF OpToRel
<1>2. \E x \in S : \A y \in S : ~(<<y, x>> \in R)
  <2> HIDE DEF R
  <2> QED BY <1>1, WFMin
<1>3. \E x \in S : \A y \in S : x <= y
  <2>1. PICK x \in S : \A y \in S : <<y, x>> \notin R
    BY <1>2
  <2>2. ASSUME NEW y \in S PROVE x <= y
    <3>1. x \in Nat /\ y \in Nat /\ <<y, x>> \notin R
      BY <2>1
    <3>2. y < x => <<y, x>> \in R
      BY <3>1
    <3> QED BY <3>1, <3>2
  <2> QED BY <2>2
<1> QED BY <1>3 DEF Min

LEMMA GreatestNatural ==
  ASSUME NEW n \in Nat, NEW S \in SUBSET (0 .. n), S # {}
  PROVE  Max(S) \in S /\ \A y \in S : y <= Max(S)
<1> DEFINE T == {n - x : x \in S}
<1>1. T \in SUBSET Nat /\ T # {}
  <2>1. \A x \in S : n - x \in Nat
    OBVIOUS
  <2>2. PICK x \in S : TRUE
    OBVIOUS
  <2>3. n - x \in T
    OBVIOUS
  <2> QED BY <2>1, <2>3
<1>2. PICK m \in T : \A y \in T : m <= y
  BY <1>1, LeastNatural
<1>3. PICK x \in S : m = n - x
  BY <1>2
<1>4. \A y \in S : x >= y
  BY <1>2, <1>3
<1> QED BY <1>4 DEF Max

(* Below and Page are intervals.  A page of a list with items below the    *)
(* cursor is its newest PageSize ones; there are more exactly when it does *)
(* not start with the first.                                               *)
LEMMA PageIsInterval ==
  ASSUME NEW last \in Nat, NEW cursor \in Nat, Below(last, cursor) # {}
  PROVE  LET top == IF cursor = 0 THEN last ELSE cursor - 1
             from == IF top > PageSize THEN top - PageSize + 1 ELSE 1
         IN /\ top \in Nat \ {0} /\ from \in 1 .. top
            /\ Below(last, cursor) = 1 .. top
            /\ Page(last, cursor) = from .. top
            /\ More(last, cursor) <=> from > 1
            /\ Min(Page(last, cursor)) = from
            /\ Cardinality(Page(last, cursor)) <= PageSize
<1> DEFINE top == IF cursor = 0 THEN last ELSE cursor - 1
           from == IF top > PageSize THEN top - PageSize + 1 ELSE 1
<1>p. PageSize \in Nat \ {0}
  BY ProjectionAssumption
<1>1. Below(last, cursor) = 1 .. top /\ top \in Nat \ {0}
  BY DEF Below
<1>2. from \in 1 .. top /\ (from > 1 => from = top - PageSize + 1)
  BY <1>1, <1>p
<1> HIDE DEF top
<1>3. ASSUME NEW i \in 1 .. top PROVE Cardinality({j \in 1 .. top : j > i}) = top - i
  <2> DEFINE J == {j \in 1 .. top : j > i}
  <2>1. J = (i + 1) .. top
    BY <1>1
  <2>2. Cardinality((i + 1) .. top) = IF i + 1 > top THEN 0 ELSE top - (i + 1) + 1
    <3>1. i + 1 \in Int /\ top \in Int
      BY <1>1
    <3> QED BY <3>1, FS_Interval
  <2> HIDE DEF J
  <2>3. Cardinality(J) = top - i
    BY <1>1, <2>1, <2>2
  <2> QED BY <2>3 DEF J
<1>4. Page(last, cursor) = {i \in 1 .. top : top - i < PageSize}
  BY <1>1, <1>3 DEF Page
<1>5. Page(last, cursor) = from .. top
  BY <1>1, <1>p, <1>4
<1>6. More(last, cursor) <=> from > 1
  BY <1>1, <1>2, <1>5 DEF More
<1>7. Min(from .. top) = from
  <2>1. from .. top \in SUBSET Nat /\ from \in from .. top
    BY <1>1, <1>2
  <2>2. Min(from .. top) \in from .. top /\ Min(from .. top) <= from
    BY <2>1, LeastNatural
  <2> QED BY <1>1, <1>2, <2>2
<1>8. Cardinality(from .. top) <= PageSize
  <2>1. Cardinality(from .. top) = IF from > top THEN 0 ELSE top - from + 1
    BY <1>1, <1>2, FS_Interval
  <2> QED BY <1>1, <1>2, <1>p, <2>1
<1> QED BY <1>1, <1>2, <1>5, <1>6, <1>7, <1>8 DEF top

(* Nothing below the cursor is an empty page and the end.                  *)
LEMMA EmptyPage ==
  ASSUME NEW last \in Nat, NEW cursor \in Nat, Below(last, cursor) = {}
  PROVE  Page(last, cursor) = {} /\ ~More(last, cursor) /\ Cardinality(Page(last, cursor)) <= PageSize
<1>1. Page(last, cursor) = {}
  BY DEF Page
<1> QED BY <1>1, FS_EmptySet, ProjectionAssumption DEF More

(* The facts about pages that the proofs below use.                        *)
LEMMA PageFacts ==
  ASSUME NEW last \in Nat, NEW cursor \in Nat
  PROVE  /\ Page(last, cursor) \subseteq Below(last, cursor)
         /\ Below(last, cursor) \subseteq Nat \ {0}
         /\ Cardinality(Page(last, cursor)) <= PageSize
         /\ IsFiniteSet(Page(last, cursor))
         /\ Page(last, cursor) = {} => Below(last, cursor) = {}
         /\ ~More(last, cursor) => Page(last, cursor) = Below(last, cursor)
         /\ More(last, cursor) =>
               /\ Min(Page(last, cursor)) \in Page(last, cursor)
               /\ Min(Page(last, cursor)) > 1
               /\ \A i \in Below(last, cursor) : i \in Page(last, cursor) <=> i >= Min(Page(last, cursor))
<1>1. CASE Below(last, cursor) = {}
  BY <1>1, EmptyPage, FS_EmptySet
<1>2. CASE Below(last, cursor) # {}
  <2> DEFINE top == IF cursor = 0 THEN last ELSE cursor - 1
             from == IF top > PageSize THEN top - PageSize + 1 ELSE 1
  <2>1. /\ top \in Nat \ {0} /\ from \in 1 .. top
        /\ Below(last, cursor) = 1 .. top
        /\ Page(last, cursor) = from .. top
        /\ More(last, cursor) <=> from > 1
        /\ Min(Page(last, cursor)) = from
        /\ Cardinality(Page(last, cursor)) <= PageSize
    BY <1>2, PageIsInterval
  <2> HIDE DEF top, from
  <2>2. IsFiniteSet(from .. top)
    BY <2>1, FS_Interval
  <2> QED BY <2>1, <2>2
<1> QED BY <1>1, <1>2

-----------------------------------------------------------------------------
Relations == [follower : Followers, live : BOOLEAN]
Entries == [follower : Followers, on : BOOLEAN]
Facts == [generation : Nat, active : BOOLEAN]
Checkpoints == [cursor : 0 .. Tweets, generation : Nat, initialized : BOOLEAN]
Authors == [started : BOOLEAN, epoch : Nat, celebrity : BOOLEAN, cursor : Nat, complete : BOOLEAN]
Timelines == SUBSET (Followers \X (1 .. Tweets))
(* No timeline holds more than it has room for.                            *)
Roomy(timeline) == Newest(timeline, Followers, Capacity) = timeline
Caches == {r \in [fence : Nat, celebrity : BOOLEAN, marked : SUBSET Followers,
                  timeline : Timelines, evicted : Timelines] : Roomy(r.timeline)}
Stages == {"idle", "failed"} \cup Executes
WorkerStates ==
    [pc : Stages, task : Tasks \cup {<<>>}, epoch : Nat, celebrity : BOOLEAN, p : Checkpoints,
     fact : Facts, todo : Seq(Entries), page : SUBSET Nat, more : BOOLEAN, changed : BOOLEAN]

TypeInv ==
    /\ relations \in Seq(Relations)
    /\ log \in Seq(Followers) /\ Len(log) <= MaxChanges
    /\ author \in Authors
    /\ checkpoint \in [Events -> Checkpoints]
    /\ lock \in Workers \cup {NoWorker}
    /\ redis \in Caches
    /\ late \in Commands /\ (late.kind = "none" => late = NoCommand)
    /\ worker \in [Workers -> WorkerStates]

(* What the types do not say: the author's cursor and the pages lie within *)
(* the table, and a page that says that there are more starts behind the   *)
(* first row.                                                              *)
BoundInv ==
    /\ author.cursor \in 0 .. Len(relations) /\ author.cursor # 1
    /\ \A w \in Workers :
          /\ worker[w].page \subseteq 1 .. Len(relations)
          /\ Cardinality(worker[w].page) <= PageSize
          /\ worker[w].more => Min(worker[w].page) \in worker[w].page /\ Min(worker[w].page) > 1

(* The rows of the page, newest first: every row has its place, every      *)
(* place a row, and what it says of the row's follower is up to date.      *)
LEMMA MarksFacts ==
  ASSUME relations \in Seq(Relations), NEW last \in 0 .. Len(relations), NEW cursor \in 0 .. Len(relations),
         Below(last, cursor) # {}, NEW celebrity \in BOOLEAN
  PROVE  LET page == Page(last, cursor)
             marks == Marks(page, celebrity)
         IN /\ marks \in Seq(Entries) /\ marks # <<>>
            /\ \A k \in DOMAIN marks :
                  /\ \E i \in page : marks[k].follower = relations[i].follower
                  /\ marks[k].on = (celebrity /\ Following(marks[k].follower))
            /\ \A i \in page : \E k \in DOMAIN marks : marks[k].follower = relations[i].follower
<1> DEFINE page == Page(last, cursor)
           marks == Marks(page, celebrity)
           top == IF cursor = 0 THEN last ELSE cursor - 1
           from == IF top > PageSize THEN top - PageSize + 1 ELSE 1
           Row(k) == CHOOSE i \in page : Cardinality({j \in page : j >= i}) = k
<1>l. Len(relations) \in Nat /\ DOMAIN relations = 1 .. Len(relations)
      /\ \A i \in DOMAIN relations : relations[i] \in Relations
  OBVIOUS
<1>1. /\ top \in Nat \ {0} /\ from \in 1 .. top /\ page = from .. top
  BY <1>l, PageIsInterval
<1>2. top <= Len(relations)
  BY <1>l
<1> HIDE DEF top, from, page
<1>3. Cardinality(page) = top - from + 1
  <2>1. from \in Int /\ top \in Int
    BY <1>1
  <2>2. Cardinality(from .. top) = IF from > top THEN 0 ELSE top - from + 1
    BY <2>1, FS_Interval
  <2> QED BY <1>1, <2>2
<1>4. ASSUME NEW i \in page PROVE Cardinality({j \in page : j >= i}) = top - i + 1
  <2> DEFINE J == {j \in page : j >= i}
  <2>1. J = i .. top /\ i \in Int /\ top \in Int /\ i <= top
    BY <1>1
  <2>2. Cardinality(i .. top) = IF i > top THEN 0 ELSE top - i + 1
    BY <2>1, FS_Interval
  <2> HIDE DEF J
  <2>3. Cardinality(J) = top - i + 1
    BY <2>1, <2>2
  <2> QED BY <2>3 DEF J
<1>5. ASSUME NEW k \in 1 .. Cardinality(page) PROVE Row(k) \in page /\ Row(k) = top - k + 1
  <2>1. top - k + 1 \in page
    BY <1>1, <1>3
  <2>2. Cardinality({j \in page : j >= top - k + 1}) = k
    <3> DEFINE i == top - k + 1
    <3>1. i \in page /\ top - i + 1 = k
      BY <1>1, <1>3, <2>1
    <3> HIDE DEF i
    <3>2. Cardinality({j \in page : j >= i}) = k
      BY <1>4, <3>1
    <3> QED BY <3>2 DEF i
  <2>3. Row(k) \in page /\ Cardinality({j \in page : j >= Row(k)}) = k
    <3>1. \E i \in page : Cardinality({j \in page : j >= i}) = k
      BY <2>1, <2>2
    <3> QED BY <3>1
  <2>4. Cardinality({j \in page : j >= Row(k)}) = top - Row(k) + 1
    BY <1>4, <2>3
  <2> HIDE DEF Row
  <2> QED BY <1>1, <1>3, <2>3, <2>4
<1> HIDE DEF Row
<1>6. marks = [k \in 1 .. Cardinality(page) |->
                 [follower |-> relations[Row(k)].follower,
                  on |-> celebrity /\ Following(relations[Row(k)].follower)]]
  BY DEF Marks, Row
<1>7. page \subseteq DOMAIN relations
  BY <1>1, <1>2, <1>l
<1>8. Cardinality(page) \in Nat /\ Cardinality(page) > 0
  BY <1>1, <1>3
<1> HIDE DEF marks
<1>9. \A k \in 1 .. Cardinality(page) : marks[k] \in Entries
  BY <1>5, <1>6, <1>7, <1>l DEF Entries, Relations, Following
<1>10. marks \in Seq(Entries) /\ DOMAIN marks = 1 .. Cardinality(page) /\ marks # <<>>
  <2>1. DOMAIN marks = 1 .. Cardinality(page)
    BY <1>6
  <2>2. marks \in Seq(Entries)
    <3>1. marks = [k \in 1 .. Cardinality(page) |-> marks[k]]
      BY <1>6
    <3> QED BY <1>8, <1>9, <3>1, IsASeq
  <2>3. 1 \in DOMAIN marks
    BY <1>8, <2>1
  <2>4. <<>> \in Seq(Entries) /\ DOMAIN <<>> = {}
    BY EmptySeq
  <2> QED BY <2>1, <2>2, <2>3, <2>4
<1>11. \A k \in DOMAIN marks :
                  /\ \E i \in page : marks[k].follower = relations[i].follower
                  /\ marks[k].on = (celebrity /\ Following(marks[k].follower))
  BY <1>5, <1>6, <1>10
<1>12. ASSUME NEW i \in page PROVE \E k \in DOMAIN marks : marks[k].follower = relations[i].follower
  <2>1. top - i + 1 \in 1 .. Cardinality(page)
    BY <1>1, <1>3
  <2>2. Row(top - i + 1) = i
    <3>1. Row(top - i + 1) = top - (top - i + 1) + 1
      BY <1>5, <2>1
    <3> QED BY <1>1, <3>1
  <2> QED BY <1>6, <1>10, <2>1, <2>2
<1> QED BY <1>10, <1>11, <1>12 DEF marks, page

-----------------------------------------------------------------------------
Past == {"mark", "tweets", "recheck", "save", "advance"}
Busy == Past \cup {"begin"}

(* A worker at rest, about to start or about to give its claim back        *)
Quiet(r) ==
    /\ r.pc \in {"idle", "lock", "failed"}
    /\ r.epoch = 0 /\ r.page = {} /\ ~r.more

(* What a worker's stage says of its task and of what it is about to send  *)
Staged(w) ==
    /\ worker[w].pc # "idle" => worker[w].task \in Tasks /\ rows[worker[w].task].status # "absent"
    /\ worker[w].pc = "mark" => worker[w].todo # <<>>
    /\ worker[w].pc = "save" => worker[w].todo = <<>> /\ Kind(worker[w].task) = "author"
    /\ worker[w].pc \in {"tweets", "recheck"} => Kind(worker[w].task) = "pair"
    /\ worker[w].pc = "mark" /\ Kind(worker[w].task) = "pair" =>
          /\ Len(worker[w].todo) = 1
          /\ worker[w].todo[1].follower = Follower(worker[w].task)
          /\ worker[w].todo[1].on = (worker[w].celebrity /\ worker[w].fact.active)

StageInv == \A w \in Workers : Staged(w)

(* Nothing is known of an event that has not happened.                     *)
KnownInv ==
    /\ \A t \in Tasks : rows[t].status # "absent" => t[1] <= Len(log)
    /\ \A e \in Events : e > Len(log) => ~checkpoint[e].initialized

-----------------------------------------------------------------------------
(* The other workers stay as they are.                                     *)
Only(w) == \A v \in Workers : v # w => worker'[v] = worker[v]

(* No row succeeds, appears for an event to come, or changes hands unless  *)
(* its worker is at the lock.                                              *)
RowsCalm ==
    \A t \in Tasks :
        /\ Succeeded(t)' => Succeeded(t)
        /\ rows[t].status # "absent" => rows'[t].status # "absent"
        /\ rows'[t].status # "absent" => rows[t].status # "absent" \/ t[1] <= Len(log)
        /\ \A v \in Workers : Holds(t, v)' => Holds(t, v) \/ worker'[v].pc = "lock"

(* Workers stay or become quiet, and the lock is at most given back.       *)
WorkersCalm ==
    /\ worker' \in [Workers -> WorkerStates]
    /\ lock' \in {lock, NoWorker} /\ late' \in {late, NoCommand}
    /\ \A v \in Workers :
          \/ worker'[v] = worker[v]
          \/ /\ Quiet(worker'[v]) /\ lock' # v
             /\ worker'[v].pc # "idle" => worker'[v].task \in Tasks /\ rows'[worker'[v].task].status # "absent"

(* What Redis was told stays, wherever it is.                              *)
CacheCalm ==
    /\ redis' \in Caches /\ Written' = Written
    /\ redis'.fence = redis.fence /\ redis'.celebrity = redis.celebrity
    /\ redis'.marked = redis.marked

(* Nothing happens to what the author or Redis know.                       *)
Calm == WorkersCalm /\ RowsCalm /\ CacheCalm /\ UNCHANGED <<relations, log, author, checkpoint>>

(* A command arrives that nobody with the lock sent.                       *)
Lost(c) ==
    /\ WorkersCalm /\ UNCHANGED <<rows, relations, log, author, checkpoint>>
    /\ c \in Commands /\ c.kind # "none" /\ Accepted(c) /\ redis' = Applied(c)
    /\ c = late \/ \E w \in Workers : lock # w /\ worker[w].pc \in Sends /\ c = Command(w)

(* A command is given up on its way.                                       *)
TimedOut(w) ==
    /\ worker' \in [Workers -> WorkerStates]
    /\ UNCHANGED <<rows, relations, log, author, checkpoint, redis>>
    /\ worker[w].pc \in Sends /\ late = NoCommand /\ late' = Command(w) /\ late' \in Commands
    /\ late'.kind # "none"
    /\ Only(w) /\ Quiet(worker'[w]) /\ worker'[w].task = worker[w].task
    /\ lock' \in {lock, NoWorker} /\ lock' # w

Frame == UNCHANGED <<rows, relations, log, checkpoint, late>> /\ worker' \in [Workers -> WorkerStates]

(* The stages of a page, each with what the step reads and writes.         *)
EnterGo(w) ==
    /\ Frame /\ Only(w) /\ UNCHANGED <<author, redis>>
    /\ lock = NoWorker /\ lock' = w
    /\ worker[w].pc = "lock" /\ worker'[w].pc = "decide"
    /\ worker'[w].task = worker[w].task /\ worker'[w].epoch = worker[w].epoch
    /\ worker'[w].page = worker[w].page /\ worker'[w].more = worker[w].more
    /\ worker'[w].celebrity =
          DecideCelebrity(IF author.started \/ Kind(worker[w].task) = "pair"
                          THEN author.celebrity ELSE redis.celebrity, FollowerCount)

DecideGo(w) ==
    /\ Frame /\ Only(w) /\ UNCHANGED <<lock, redis>>
    /\ lock = w
    /\ worker[w].pc = "decide" /\ worker'[w].pc = "begin"
    /\ worker'[w].task = worker[w].task /\ worker'[w].epoch = author.epoch + 1
    /\ worker'[w].page = worker[w].page /\ worker'[w].more = worker[w].more
    /\ worker'[w].celebrity = worker[w].celebrity
    /\ author' \in Authors /\ author'.started /\ author'.epoch = author.epoch + 1
    /\ author'.celebrity = worker[w].celebrity
    /\ author.started /\ worker[w].celebrity = author.celebrity =>
          author'.cursor = author.cursor /\ author'.complete = author.complete
    /\ ~(author.started /\ worker[w].celebrity = author.celebrity) =>
          author'.cursor = 0 /\ ~author'.complete

BeginGo(w) ==
    /\ Frame /\ Only(w) /\ UNCHANGED <<author, lock>>
    /\ lock = w /\ worker[w].pc = "begin" /\ worker[w].epoch >= redis.fence
    /\ redis' \in Caches /\ redis'.fence = worker[w].epoch /\ redis'.celebrity = worker[w].celebrity
    /\ redis'.marked = redis.marked /\ Written' = Written
    /\ worker'[w].task = worker[w].task /\ worker'[w].epoch = worker[w].epoch
    /\ worker'[w].celebrity = worker[w].celebrity
    /\ \/ /\ Kind(worker[w].task) = "author" /\ author.complete
          /\ worker'[w].pc = "advance"
          /\ worker'[w].page = worker[w].page /\ worker'[w].more = worker[w].more
       \/ /\ Kind(worker[w].task) = "author" /\ ~author.complete
          /\ worker'[w].pc = "mark"
          /\ Below(Len(relations), author.cursor) # {}
          /\ worker'[w].page = Page(Len(relations), author.cursor)
          /\ worker'[w].more = More(Len(relations), author.cursor)
          /\ worker'[w].todo = Marks(worker'[w].page, worker[w].celebrity)
       \/ /\ Kind(worker[w].task) = "pair"
          /\ worker'[w].pc = "mark"
          /\ worker'[w].page = worker[w].page /\ worker'[w].more = worker[w].more
          /\ worker'[w].fact = ReadPair(Follower(worker[w].task))
          /\ worker'[w].p = Resumed(checkpoint[worker[w].task[1]], worker'[w].fact)
          /\ worker'[w].todo = <<[follower |-> Follower(worker[w].task),
                                  on |-> worker[w].celebrity /\ worker'[w].fact.active]>>

(* The page goes on with what it has read.                                 *)
SamePage(w) ==
    /\ worker'[w].task = worker[w].task /\ worker'[w].epoch = worker[w].epoch
    /\ worker'[w].celebrity = worker[w].celebrity
    /\ worker'[w].p = worker[w].p /\ worker'[w].fact = worker[w].fact
    /\ worker'[w].page = worker[w].page /\ worker'[w].more = worker[w].more

MarkGo(w) ==
    /\ Frame /\ Only(w) /\ SamePage(w) /\ UNCHANGED <<author, lock>>
    /\ worker[w].pc = "mark" /\ worker[w].epoch = redis.fence
    /\ redis' \in Caches /\ redis'.fence = redis.fence /\ redis'.celebrity = redis.celebrity
    /\ Written' = Written
    /\ redis'.marked = IF worker[w].todo[1].on THEN redis.marked \cup {worker[w].todo[1].follower}
                                              ELSE redis.marked \ {worker[w].todo[1].follower}
    /\ worker'[w].todo = Tail(worker[w].todo)
    /\ \/ Tail(worker[w].todo) # <<>> /\ worker'[w].pc = "mark"
       \/ /\ Tail(worker[w].todo) = <<>> /\ lock = w
          /\ worker'[w].pc = IF Kind(worker[w].task) = "author" THEN "save" ELSE "tweets"

WriteGo(w) ==
    /\ Frame /\ Only(w) /\ SamePage(w) /\ UNCHANGED <<author, lock>>
    /\ worker[w].pc = "tweets" /\ worker'[w].pc = "recheck" /\ worker[w].epoch = redis.fence
    /\ redis' \in Caches /\ redis'.fence = redis.fence /\ redis'.celebrity = redis.celebrity
    /\ redis'.marked = redis.marked
    /\ LET entries == {Follower(worker[w].task)} \X Page(Tweets, worker[w].p.cursor)
       IN Written' = IF worker[w].fact.active THEN Written \cup entries ELSE Written \ entries

RecheckGo(w) ==
    /\ Frame /\ Only(w) /\ SamePage(w) /\ UNCHANGED <<author, lock, redis>>
    /\ lock = w /\ worker[w].pc = "recheck" /\ worker'[w].pc = "advance"

SaveGo(w) ==
    /\ Frame /\ Only(w) /\ SamePage(w) /\ UNCHANGED <<lock, redis>>
    /\ lock = w /\ worker[w].pc = "save" /\ worker'[w].pc = "advance"
    /\ author' \in Authors /\ author'.started = author.started /\ author'.epoch = author.epoch
    /\ author'.celebrity = author.celebrity
    /\ author'.cursor = Next0(worker[w].page, worker[w].more)
    /\ author'.complete = ~worker[w].more

(* The holder of the lock and of the claim lets go of both.                *)
AdvanceGo(w) ==
    /\ worker' \in [Workers -> WorkerStates]
    /\ UNCHANGED <<relations, log, author, redis, late>> /\ Only(w)
    /\ lock = w /\ lock' = NoWorker /\ worker[w].pc = "advance"
    /\ Quiet(worker'[w]) /\ worker'[w].pc = "idle"
    /\ Holds(worker[w].task, w)
    /\ \A t \in Tasks : t # worker[w].task => rows'[t] = rows[t]
    /\ rows'[worker[w].task].status \in {"pending", "success"}
    /\ \/ /\ Kind(worker[w].task) = "author" /\ author.complete
          /\ UNCHANGED checkpoint
       \/ LET e == worker[w].task[1]
              more == More(Tweets, worker[w].p.cursor)
          IN /\ Kind(worker[w].task) = "pair"
             /\ rows'[worker[w].task].status = "success" => ~worker[w].changed /\ ~more
             /\ checkpoint' \in [Events -> Checkpoints]
             /\ \A d \in Events : d # e => checkpoint'[d] = checkpoint[d]
             /\ checkpoint'[e].initialized => ~worker[w].changed
             /\ ~worker[w].changed =>
                   checkpoint'[e] = [worker[w].p EXCEPT !.cursor =
                                        Next0(Page(Tweets, worker[w].p.cursor), more)]

Progress(w) ==
    \/ TimedOut(w) \/ EnterGo(w) \/ DecideGo(w) \/ BeginGo(w) \/ MarkGo(w) \/ WriteGo(w)
    \/ RecheckGo(w) \/ SaveGo(w) \/ AdvanceGo(w)

-----------------------------------------------------------------------------
(* A task is an event and a kind.                                          *)
LEMMA TaskFacts ==
  ASSUME NEW t \in Tasks
  PROVE  t[1] \in 1 .. MaxChanges /\ Kind(t) \in {"author", "pair"} /\ t[1] \in Events /\ t[1] \in Nat \ {0}
BY ProjectionAssumption DEF Events, Kind

(* A task with a row is of an event that has happened.                     *)
LEMMA FollowerType ==
  ASSUME TypeInv, KnownInv, NEW t \in Tasks, rows[t].status # "absent"
  PROVE  t[1] \in 1 .. Len(log) /\ Follower(t) \in Followers
BY TaskFacts DEF TypeInv, KnownInv, Follower

(* A worker at rest is well formed.                                        *)
LEMMA RestingType ==
  /\ Resting \in WorkerStates /\ Resting.pc = "idle" /\ Resting.task = <<>> /\ Resting.todo = <<>>
  /\ Resting.epoch = 0 /\ Resting.page = {} /\ Resting.more = FALSE
<1>1. NewCheckpoint \in Checkpoints /\ NoFact \in Facts
  BY ProjectionAssumption DEF NewCheckpoint, NoFact, Checkpoints, Facts
<1>2. <<>> \in Seq(Entries) /\ {} \in SUBSET Nat /\ "idle" \in Stages /\ <<>> \in Tasks \cup {<<>>}
  BY DEF Stages
<1> QED BY <1>1, <1>2 DEF Resting, WorkerStates

(* The two ways in which an execution ends.                                *)
LEMMA EndsAreQuiet ==
  ASSUME TypeInv, NEW w \in Workers, worker[w].task \in Tasks, Abort(w) \/ Rest(w)
  PROVE  /\ worker' \in [Workers -> WorkerStates] /\ Only(w) /\ Quiet(worker'[w])
         /\ lock' \in {lock, NoWorker} /\ lock' # w
         /\ Abort(w) => worker'[w].pc = "failed" /\ worker'[w].task = worker[w].task
         /\ Rest(w) => worker'[w].pc = "idle"
<1>w. lock' \in {lock, NoWorker} /\ lock' # w
  BY OutboxAssumption DEF Abort, Rest, Unlock
<1>0. ASSUME NEW r \in WorkerStates, worker' = [worker EXCEPT ![w] = r]
      PROVE  worker' \in [Workers -> WorkerStates] /\ Only(w) /\ worker'[w] = r
  BY <1>0 DEF TypeInv, Only
<1>1. CASE Abort(w)
  <2> DEFINE r == [Resting EXCEPT !.pc = "failed", !.task = worker[w].task]
  <2>1. r \in WorkerStates /\ r.pc = "failed" /\ r.task = worker[w].task
        /\ r.epoch = 0 /\ r.page = {} /\ ~r.more
    <3>1. "failed" \in Stages /\ worker[w].task \in Tasks \cup {<<>>}
      BY DEF Stages
    <3> QED BY <3>1, RestingType DEF WorkerStates
  <2>2. worker' = [worker EXCEPT ![w] = r]
    BY <1>1 DEF Abort
  <2> HIDE DEF r
  <2>3. worker' \in [Workers -> WorkerStates] /\ Only(w) /\ worker'[w] = r
    BY <1>0, <2>1, <2>2
  <2>4. r.pc # "idle"
    BY <2>1
  <2>5. ~Rest(w)
    <3>1. Rest(w) => worker'[w] = Resting
      BY DEF Rest, TypeInv
    <3> QED BY <2>3, <2>4, <3>1, RestingType
  <2> QED BY <1>w, <2>1, <2>3, <2>5 DEF Quiet
<1>2. CASE Rest(w) /\ ~Abort(w)
  <2>1. worker' \in [Workers -> WorkerStates] /\ Only(w) /\ worker'[w] = Resting
    BY <1>0, <1>2, RestingType DEF Rest
  <2> QED BY <1>w, <1>2, <2>1, RestingType DEF Quiet
<1> QED BY <1>1, <1>2

(* The command of a worker carries its epoch and what its stage sends.     *)
LEMMA CommandFacts ==
  ASSUME TypeInv, StageInv, KnownInv, NEW w \in Workers, worker[w].pc \in Sends
  PROVE  /\ Command(w) \in Commands /\ Command(w).kind = worker[w].pc
         /\ Command(w).epoch = worker[w].epoch
         /\ worker[w].pc = "begin" => Command(w).on = worker[w].celebrity
         /\ worker[w].pc = "mark" =>
               /\ Command(w).follower = {worker[w].todo[1].follower}
               /\ Command(w).on = worker[w].todo[1].on
               /\ worker[w].todo[1] \in Entries
         /\ worker[w].pc = "tweets" =>
               /\ Command(w).follower = {Follower(worker[w].task)}
               /\ Command(w).page = Page(Tweets, worker[w].p.cursor)
               /\ Command(w).on = worker[w].fact.active
<1>1. worker[w] \in WorkerStates /\ worker[w].epoch \in Nat /\ worker[w].celebrity \in BOOLEAN
      /\ worker[w].fact.active \in BOOLEAN /\ worker[w].p.cursor \in 0 .. Tweets
      /\ worker[w].todo \in Seq(Entries)
  BY DEF TypeInv, WorkerStates, Facts, Checkpoints
<1>2. CASE worker[w].pc = "begin"
  <2>1. Command(w) = [kind |-> "begin", epoch |-> worker[w].epoch, follower |-> {}, page |-> {},
                      on |-> worker[w].celebrity]
    BY <1>2 DEF Command, NoCommand
  <2> QED BY <1>1, <1>2, <2>1 DEF Commands
<1>3. CASE worker[w].pc = "mark"
  <2>1. Command(w) = [kind |-> "mark", epoch |-> worker[w].epoch,
                      follower |-> {worker[w].todo[1].follower}, page |-> {}, on |-> worker[w].todo[1].on]
    BY <1>3 DEF Command, NoCommand
  <2>2. worker[w].todo[1] \in Entries
    BY <1>1, <1>3 DEF StageInv, Staged
  <2>3. worker[w].todo[1].follower \in Followers /\ worker[w].todo[1].on \in BOOLEAN
    BY <2>2 DEF Entries
  <2> QED BY <1>1, <1>3, <2>1, <2>2, <2>3 DEF Commands
<1>4. CASE worker[w].pc = "tweets"
  <2>1. Command(w) = [kind |-> "tweets", epoch |-> worker[w].epoch, follower |-> {Follower(worker[w].task)},
                      page |-> Page(Tweets, worker[w].p.cursor), on |-> worker[w].fact.active]
    BY <1>4 DEF Command
  <2>2. Follower(worker[w].task) \in Followers
    BY <1>4, FollowerType DEF StageInv, Staged
  <2>3. Page(Tweets, worker[w].p.cursor) \in SUBSET (1 .. Tweets)
    BY <1>1, ProjectionAssumption DEF Page, Below
  <2> QED BY <1>1, <1>4, <2>1, <2>2, <2>3 DEF Commands
<1> QED BY <1>2, <1>3, <1>4 DEF Sends

(* The entries newer than e in the same timeline                           *)
Above(S, e) == {d \in S : d[1] = e[1] /\ d[2] > e[2]}

(* They are finitely many, and fewer in a part of the timeline.            *)
LEMMA AboveFacts ==
  ASSUME NEW S \in Timelines, NEW R \in SUBSET S, NEW e \in S
  PROVE  /\ Above(R, e) \subseteq Above(S, e)
         /\ Cardinality(Above(S, e)) \in Nat /\ Cardinality(Above(R, e)) \in Nat
         /\ Cardinality(Above(R, e)) <= Cardinality(Above(S, e))
<1>1. IsFiniteSet({e[1]} \X (1 .. Tweets))
  <2>1. IsFiniteSet(1 .. Tweets)
    BY ProjectionAssumption, FS_Interval
  <2>2. IsFiniteSet({e[1]})
    BY FS_Singleton
  <2> QED BY <2>1, <2>2, FS_Product
<1>2. Above(S, e) \in SUBSET ({e[1]} \X (1 .. Tweets)) /\ Above(R, e) \in SUBSET Above(S, e)
  BY DEF Above, Timelines
<1>3. IsFiniteSet(Above(S, e))
  BY <1>1, <1>2, FS_Subset
<1>4. IsFiniteSet(Above(R, e)) /\ Cardinality(Above(R, e)) <= Cardinality(Above(S, e))
  BY <1>2, <1>3, FS_Subset
<1> QED BY <1>2, <1>3, <1>4, FS_CardinalityType

(* A timeline that is trimmed is a part of what it was and has room.       *)
LEMMA NewestFacts ==
  ASSUME NEW S \in Timelines, NEW F \in SUBSET Followers, NEW k \in 0 .. Capacity,
         \A e \in S : e[1] \notin F => Cardinality(Above(S, e)) < Capacity
  PROVE  Newest(S, F, k) \in SUBSET S /\ Roomy(Newest(S, F, k))
<1> DEFINE R == Newest(S, F, k)
<1>1. R \in SUBSET S
  BY DEF Newest
<1>2. ASSUME NEW e \in R PROVE Cardinality(Above(R, e)) < Capacity
  <2>1. e \in S /\ (e[1] \in F => Cardinality(Above(S, e)) < k)
    BY <1>2 DEF Newest, Above
  <2>2. Cardinality(Above(S, e)) \in Nat /\ Cardinality(Above(R, e)) \in Nat
        /\ Cardinality(Above(R, e)) <= Cardinality(Above(S, e))
    BY <1>1, <2>1, AboveFacts
  <2>3. Cardinality(Above(S, e)) < Capacity
    BY <2>1, <2>2, ProjectionAssumption
  <2> QED BY <2>2, <2>3, ProjectionAssumption
<1> HIDE DEF R
<1>3. Roomy(R)
  BY <1>2 DEF Roomy, Newest, Above
<1> QED BY <1>1, <1>3 DEF R

(* Every entry of a timeline with room has fewer than Capacity above it.   *)
LEMMA RoomyFacts ==
  ASSUME NEW S \in Timelines, Roomy(S), NEW e \in S
  PROVE  Cardinality(Above(S, e)) < Capacity
<1>1. e \in Newest(S, Followers, Capacity) /\ e[1] \in Followers
  BY DEF Roomy, Timelines
<1> QED BY <1>1 DEF Newest, Above

(* What was written, in a cache                                            *)
AllOf(r) == r.timeline \cup r.evicted

(* What a command does to Redis                                            *)
LEMMA AppliedFacts ==
  ASSUME TypeInv, NEW c \in Commands, c.kind # "none"
  PROVE  /\ Applied(c) \in Caches
         /\ c.kind = "begin" =>
               /\ Applied(c).fence = c.epoch /\ Applied(c).celebrity = c.on
               /\ Applied(c).marked = redis.marked /\ AllOf(Applied(c)) = Written
         /\ c.kind # "begin" => Applied(c).fence = redis.fence /\ Applied(c).celebrity = redis.celebrity
         /\ c.kind = "mark" =>
               /\ AllOf(Applied(c)) = Written
               /\ Applied(c).marked = IF c.on THEN redis.marked \cup c.follower ELSE redis.marked \ c.follower
         /\ c.kind = "tweets" =>
               /\ Applied(c).marked = redis.marked
               /\ AllOf(Applied(c)) = IF c.on THEN Written \cup (c.follower \X c.page)
                                              ELSE Written \ (c.follower \X c.page)
<1>1. /\ redis \in Caches /\ c.epoch \in Nat /\ c.on \in BOOLEAN /\ c.follower \in SUBSET Followers
      /\ c.page \in SUBSET (1 .. Tweets) /\ c.kind \in {"begin", "mark", "tweets"}
  BY DEF TypeInv, Commands
<1>r. /\ Written = AllOf(redis) /\ redis.timeline \in Timelines /\ redis.evicted \in Timelines
      /\ Roomy(redis.timeline)
  BY <1>1 DEF Written, AllOf, Caches
<1>2. CASE c.kind = "begin"
  <2>1. Applied(c) = [redis EXCEPT !.fence = c.epoch, !.celebrity = c.on]
    BY <1>2 DEF Applied
  <2>2. Applied(c).timeline = redis.timeline /\ Applied(c).evicted = redis.evicted
    BY <1>1, <2>1 DEF Caches
  <2> QED BY <1>1, <1>r, <1>2, <2>1, <2>2 DEF Caches, AllOf
<1>3. CASE c.kind = "mark"
  <2> DEFINE marked == IF c.on THEN redis.marked \cup c.follower ELSE redis.marked \ c.follower
  <2>1. Applied(c) = [redis EXCEPT !.marked = marked]
    BY <1>3 DEF Applied
  <2>2. marked \in SUBSET Followers
    BY <1>1 DEF Caches
  <2> HIDE DEF marked
  <2>3. /\ Applied(c) \in Caches /\ Applied(c).marked = marked /\ Applied(c).timeline = redis.timeline
        /\ Applied(c).evicted = redis.evicted
        /\ Applied(c).fence = redis.fence /\ Applied(c).celebrity = redis.celebrity
    BY <1>1, <2>1, <2>2 DEF Caches
  <2> QED BY <1>3, <1>r, <2>3 DEF marked, AllOf
<1>4. CASE c.kind = "tweets"
  <2> DEFINE entries == c.follower \X c.page
             put(S) == IF c.on THEN S \cup entries ELSE S \ entries
             kept == Newest(put(redis.timeline), c.follower, Capacity)
             gone == put(Written) \ kept
  <2>1. Applied(c) = [redis EXCEPT !.timeline = kept, !.evicted = gone]
    BY <1>4 DEF Applied
  <2>2. put(redis.timeline) \in Timelines /\ put(Written) \in Timelines
        /\ put(redis.timeline) \subseteq put(Written)
    BY <1>1, <1>r DEF Timelines, AllOf
  <2>3. ASSUME NEW e \in put(redis.timeline), e[1] \notin c.follower
        PROVE  Cardinality(Above(put(redis.timeline), e)) < Capacity
    <3>1. \A d \in entries : d[1] \in c.follower
      OBVIOUS
    <3>2. e \in redis.timeline /\ Above(put(redis.timeline), e) = Above(redis.timeline, e)
      BY <2>3, <3>1 DEF Above
    <3> QED BY <1>r, <3>2, RoomyFacts
  <2>4. kept \in SUBSET put(redis.timeline) /\ Roomy(kept)
    <3> DEFINE S == put(redis.timeline)
    <3>1. S \in Timelines /\ \A e \in S : e[1] \notin c.follower => Cardinality(Above(S, e)) < Capacity
      BY <2>2, <2>3
    <3>2. Capacity \in 0 .. Capacity
      BY ProjectionAssumption
    <3>3. kept = Newest(S, c.follower, Capacity)
      OBVIOUS
    <3> HIDE DEF S, kept, put
    <3>4. Newest(S, c.follower, Capacity) \in SUBSET S /\ Roomy(Newest(S, c.follower, Capacity))
      BY <1>1, <3>1, <3>2, NewestFacts
    <3>5. kept \in SUBSET S /\ Roomy(kept)
      BY <3>3, <3>4
    <3> QED BY <3>5 DEF S
  <2>5. kept \in Timelines /\ gone \in Timelines /\ kept \cup gone = put(Written)
    BY <2>2, <2>4 DEF Timelines
  <2>6. put(Written) = IF c.on THEN Written \cup (c.follower \X c.page) ELSE Written \ (c.follower \X c.page)
    OBVIOUS
  <2> HIDE DEF kept, gone, put
  <2>7. /\ Applied(c) \in Caches /\ Applied(c).timeline = kept /\ Applied(c).evicted = gone
        /\ Applied(c).marked = redis.marked
        /\ Applied(c).fence = redis.fence /\ Applied(c).celebrity = redis.celebrity
    BY <1>1, <2>1, <2>4, <2>5 DEF Caches
  <2> QED BY <1>4, <2>5, <2>6, <2>7 DEF AllOf
<1> QED BY <1>1, <1>2, <1>3, <1>4

-----------------------------------------------------------------------------
(* The messages and the receipts                                           *)
IngressInv ==
    /\ messages \in Seq({"queued", "acked", "dead"}) /\ Len(messages) = Len(log)
    /\ receipts \in Seq(Nat)
    /\ \A i \in DOMAIN receipts : receipts[i] \in 1 .. Len(log)
    /\ \A i, j \in DOMAIN receipts : receipts[i] = receipts[j] => i = j
    /\ faults \in 0 .. MaxFaults

(* A follower has a row exactly when it has an event.                      *)
RelInv ==
    /\ \A e \in DOMAIN log : \E i \in DOMAIN relations : relations[i].follower = log[e]
    /\ \A i \in DOMAIN relations : \E e \in DOMAIN log : log[e] = relations[i].follower

(* Epochs are given out once.                                              *)
EpochInv ==
    /\ redis.fence <= author.epoch /\ late.epoch <= author.epoch
    /\ late.kind # "none" => late.epoch > 0
    /\ \A w \in Workers :
          /\ worker[w].epoch <= author.epoch
          /\ worker[w].pc \in Busy => worker[w].epoch > 0
          /\ late.epoch # 0 => late.epoch # worker[w].epoch
          /\ \A v \in Workers : v # w /\ worker[v].epoch # 0 => worker[v].epoch # worker[w].epoch

(* The holder of the lock works with the author's row as it is, and once   *)
(* it has begun, Redis takes commands from nobody else.                    *)
LockInv ==
    \A w \in Workers : lock = w =>
        /\ worker[w].pc \in Busy \cup {"decide"}
        /\ worker[w].pc \in Busy => /\ worker[w].epoch = author.epoch
                                    /\ worker[w].celebrity = author.celebrity /\ author.started
        /\ worker[w].pc \in Past => redis.fence = author.epoch

Base == TableInv /\ TypeInv /\ BoundInv /\ StageInv /\ KnownInv /\ RelInv /\ IngressInv /\ EpochInv /\ LockInv

(* Redis is left alone.                                                    *)
LEMMA CacheStaysCalm ==
  ASSUME Base, UNCHANGED redis PROVE CacheCalm
BY DEF CacheCalm, Written, Base, TypeInv

(* Other entries push out some of the author's.                            *)
LEMMA EvictIsCalm ==
  ASSUME Base, NEW f \in Followers, NEW k \in 0 .. Capacity - 1, Evict(f, k) PROVE CacheCalm
<1> DEFINE kept == Newest(redis.timeline, {f}, k)
           gone == Written \ kept
<1>1. /\ redis \in Caches /\ redis.timeline \in Timelines /\ redis.evicted \in Timelines
      /\ Roomy(redis.timeline)
  BY DEF Base, TypeInv, Caches
<1>2. redis' = [redis EXCEPT !.timeline = kept, !.evicted = gone]
  BY DEF Evict
<1>3. k \in 0 .. Capacity /\ {f} \in SUBSET Followers
  BY ProjectionAssumption
<1>4. kept \in SUBSET redis.timeline /\ Roomy(kept)
  BY <1>1, <1>3, NewestFacts, RoomyFacts
<1>5. kept \in Timelines /\ gone \in Timelines /\ kept \cup gone = Written
  BY <1>1, <1>4 DEF Timelines, Written
<1> HIDE DEF kept, gone
<1>6. /\ redis' \in Caches /\ redis'.timeline = kept /\ redis'.evicted = gone
      /\ redis'.fence = redis.fence /\ redis'.celebrity = redis.celebrity /\ redis'.marked = redis.marked
  BY <1>1, <1>2, <1>4, <1>5 DEF Caches
<1>7. Written' = kept \cup gone
  BY <1>6 DEF Written
<1> QED BY <1>5, <1>6, <1>7 DEF CacheCalm

(* Rows that are given back or run out, and leases that are recovered      *)
LEMMA RowsStayCalm ==
  ASSUME RowsInv, NEW t \in Tasks, NEW w \in Workers,
         \/ UNCHANGED rows \/ Yield(t, w) \/ Interrupt(t, w) \/ FailClaim(t, w)
         \/ LeaseExpires(t) \/ RecoverExpired(t)
  PROVE  RowsCalm
<1>1. CASE UNCHANGED rows
  BY <1>1 DEF RowsCalm, Succeeded, Holds
<1>2. ASSUME NEW s \in {"pending", "failed"}, NEW n, rows[t].status = "processing",
             rows' = [rows EXCEPT ![t] = Released(rows[t], s, n)]
      PROVE  RowsCalm
  BY <1>2 DEF RowsInv, RowsCalm, Succeeded, Holds, Released
<1>3. CASE LeaseExpires(t)
  <2>1. \A u \in Tasks : rows'[u].status = rows[u].status /\ rows'[u].owner = rows[u].owner
                         /\ (rows'[u].leased => rows[u].leased)
    BY <1>3 DEF RowsInv, Rows, LeaseExpires
  <2> QED BY <2>1 DEF RowsCalm, Succeeded, Holds
<1>4. CASE Yield(t, w) \/ Interrupt(t, w) \/ FailClaim(t, w) \/ RecoverExpired(t)
  BY <1>2, <1>4 DEF Yield, Interrupt, FailClaim, RecoverExpired, Holds
<1> QED BY <1>1, <1>3, <1>4

(* A worker's failure, yield or rest that leaves the rest alone            *)
LEMMA EndsAreCalm ==
  ASSUME Base, NEW w \in Workers, worker[w].pc # "idle", Abort(w) \/ Rest(w), RowsCalm,
         UNCHANGED <<relations, log, author, checkpoint, redis, late>>
  PROVE  Calm
<1>1. worker[w].task \in Tasks /\ rows[worker[w].task].status # "absent"
  BY DEF Base, StageInv, Staged
<1>2. /\ worker' \in [Workers -> WorkerStates] /\ Only(w) /\ Quiet(worker'[w])
      /\ lock' \in {lock, NoWorker} /\ lock' # w
      /\ worker'[w].pc # "idle" => worker'[w].task = worker[w].task
  BY <1>1, EndsAreQuiet DEF Base
<1>3. rows'[worker[w].task].status # "absent"
  BY <1>1 DEF RowsCalm
<1>4. WorkersCalm
  BY <1>1, <1>2, <1>3 DEF WorkersCalm, Only
<1> QED BY <1>4, CacheStaysCalm DEF Calm

(* The fact says whether the follower follows.                             *)
LEMMA ReadPairType ==
  ASSUME TypeInv, NEW f PROVE ReadPair(f) \in Facts /\ ReadPair(f).active = Following(f)
<1>1. RowsOf(f) # {} => Max(RowsOf(f)) \in Nat
  <2>1. RowsOf(f) \in SUBSET (0 .. Len(relations)) /\ Len(relations) \in Nat
    BY DEF TypeInv, RowsOf
  <2>2. ASSUME RowsOf(f) # {} PROVE Max(RowsOf(f)) \in RowsOf(f)
    BY <2>1, <2>2, GreatestNatural
  <2> QED BY <2>1, <2>2
<1>2. Following(f) \in BOOLEAN
  BY DEF Following
<1> QED BY <1>1, <1>2 DEF ReadPair, Facts

(* There is something to scan when an author task runs.                    *)
LEMMA SomethingBelow ==
  ASSUME Base, NEW w \in Workers, worker[w].pc # "idle"
  PROVE  Below(Len(relations), author.cursor) # {} /\ Len(relations) \in Nat
<1>1. worker[w].task[1] \in 1 .. Len(log)
  BY FollowerType DEF Base, StageInv, Staged
<1>2. 1 \in DOMAIN log
  BY <1>1 DEF Base, TypeInv
<1>3. PICK i \in DOMAIN relations : relations[i].follower = log[1]
  BY <1>2 DEF Base, RelInv
<1>4. Len(relations) \in Nat /\ Len(relations) >= 1
  BY <1>3 DEF Base, TypeInv
<1>5. author.cursor \in Nat /\ author.cursor # 1
  BY DEF Base, TypeInv, Authors, BoundInv
<1>6. 1 \in Below(Len(relations), author.cursor)
  BY <1>4, <1>5 DEF Below
<1> QED BY <1>4, <1>6

(* The classes of the stages: an action is its class or calm.              *)
LEMMA EnterClass ==
  ASSUME Base, NEW w \in Workers, Enter(w) PROVE Calm \/ EnterGo(w)
<1> DEFINE t == worker[w].task
           desired == DecideCelebrity(IF author.started \/ Kind(t) = "pair"
                                      THEN author.celebrity ELSE redis.celebrity, FollowerCount)
<1>1. CASE Abort(w)
  BY <1>1, RowsStayCalm, EndsAreCalm DEF Enter, Base, TableInv, store, StageInv, Staged
<1>2. CASE lock' = w /\ worker' = [worker EXCEPT ![w] = [@ EXCEPT !.pc = "decide", !.celebrity = desired]]
  <2>1. desired \in BOOLEAN
    BY DEF DecideCelebrity
  <2> HIDE DEF desired
  <2>2. worker \in [Workers -> WorkerStates] /\ worker[w] \in WorkerStates /\ "decide" \in Stages
    BY DEF Base, TypeInv, Stages, Executes
  <2> DEFINE r == [worker[w] EXCEPT !.pc = "decide", !.celebrity = desired]
  <2>3. /\ r \in WorkerStates /\ r.pc = "decide" /\ r.celebrity = desired /\ r.task = t
        /\ r.epoch = worker[w].epoch /\ r.page = worker[w].page /\ r.more = worker[w].more
    BY <2>1, <2>2 DEF WorkerStates
  <2>4. worker' = [worker EXCEPT ![w] = r]
    BY <1>2
  <2> HIDE DEF r
  <2>5. worker' \in [Workers -> WorkerStates] /\ Only(w) /\ worker'[w] = r
    BY <2>2, <2>3, <2>4 DEF Only
  <2> QED BY <1>2, <2>3, <2>5 DEF Enter, EnterGo, Frame, store, ingress, desired
<1> QED BY <1>1, <1>2 DEF Enter

(* The decision, a yield or an error                                       *)
LEMMA DecideClass ==
  ASSUME Base, NEW w \in Workers, Decide(w) PROVE Calm \/ DecideGo(w)
<1> DEFINE t == worker[w].task
           settled == author.started /\ worker[w].celebrity = author.celebrity
<1>0. t \in Tasks /\ worker[w].pc = "decide"
  BY DEF Decide, Base, StageInv, Staged
<1>1. CASE Abort(w) /\ UNCHANGED <<rows, author>>
  BY <1>0, <1>1, RowsStayCalm, EndsAreCalm DEF Decide, Base, TableInv
<1>2. CASE Yield(t, w) /\ Rest(w) /\ UNCHANGED author
  BY <1>0, <1>2, RowsStayCalm, EndsAreCalm DEF Decide, Base, TableInv
<1>3. CASE /\ lock = w
           /\ author' = [started |-> TRUE, epoch |-> author.epoch + 1,
                         celebrity |-> worker[w].celebrity,
                         cursor |-> IF settled THEN author.cursor ELSE 0,
                         complete |-> settled /\ author.complete]
           /\ worker' = [worker EXCEPT ![w] = [@ EXCEPT !.pc = "begin", !.epoch = author'.epoch]]
           /\ UNCHANGED <<rows, lock>>
  <2>1. /\ worker \in [Workers -> WorkerStates] /\ worker[w] \in WorkerStates /\ "begin" \in Stages
        /\ author \in Authors /\ author.epoch \in Nat /\ worker[w].celebrity \in BOOLEAN
    BY DEF Base, TypeInv, Stages, Executes, Sends, Authors, WorkerStates
  <2>2. /\ author' \in Authors /\ author'.started /\ author'.epoch = author.epoch + 1
        /\ author'.celebrity = worker[w].celebrity
        /\ settled => author'.cursor = author.cursor /\ author'.complete = author.complete
        /\ ~settled => author'.cursor = 0 /\ ~author'.complete
    BY <1>3, <2>1 DEF Authors
  <2> DEFINE n == author'.epoch
             r == [worker[w] EXCEPT !.pc = "begin", !.epoch = n]
  <2>n. n \in Nat
    BY <2>1, <2>2
  <2> HIDE DEF n
  <2>3. /\ r \in WorkerStates /\ r.pc = "begin" /\ r.epoch = n /\ r.task = t
        /\ r.celebrity = worker[w].celebrity /\ r.page = worker[w].page /\ r.more = worker[w].more
    BY <2>1, <2>n DEF WorkerStates
  <2>4. worker' = [worker EXCEPT ![w] = r]
    BY <1>3 DEF n
  <2> HIDE DEF r
  <2>5. worker' \in [Workers -> WorkerStates] /\ Only(w) /\ worker'[w] = r
    BY <2>1, <2>3, <2>4 DEF Only
  <2> QED BY <1>0, <1>3, <2>2, <2>3, <2>5 DEF Decide, DecideGo, Frame, n
<1> QED BY <1>1, <1>2, <1>3 DEF Decide

(* A command that is sent is rejected, written by a worker that is gone,   *)
(* or written by one that goes on.                                         *)
LEMMA BeginClass ==
  ASSUME Base, NEW w \in Workers, BeginAuthor(w) \/ BeginPair(w)
  PROVE  Calm \/ Lost(Command(w)) \/ BeginGo(w)
<1> DEFINE t == worker[w].task
<1>0. /\ t \in Tasks /\ rows[t].status # "absent" /\ worker[w].pc = "begin"
      /\ UNCHANGED <<rows, relations, log, author, checkpoint, late>>
  BY DEF BeginAuthor, BeginPair, Send, store, Base, StageInv, Staged
<1>1. CASE Abort(w) /\ UNCHANGED redis
  BY <1>0, <1>1, RowsStayCalm, EndsAreCalm DEF Base, TableInv
<1>c. /\ Command(w) \in Commands /\ Command(w).kind = "begin" /\ Command(w).epoch = worker[w].epoch
      /\ Command(w).on = worker[w].celebrity
  BY <1>0, CommandFacts DEF Base, Sends
<1>2. CASE Abort(w) /\ lock # w /\ Accepted(Command(w)) /\ redis' = Applied(Command(w))
  <2>1. WorkersCalm
    <3>1. RowsCalm
      BY <1>0, RowsStayCalm DEF Base, TableInv
    <3>2. /\ worker' \in [Workers -> WorkerStates] /\ Only(w) /\ Quiet(worker'[w])
          /\ lock' \in {lock, NoWorker} /\ lock' # w
          /\ worker'[w].task = worker[w].task
      BY <1>0, <1>2, EndsAreQuiet DEF Base
    <3> QED BY <1>0, <3>2 DEF WorkersCalm, Only
  <2> QED BY <1>0, <1>2, <1>c, <2>1 DEF Lost, Sends
<1>3. CASE /\ lock = w /\ UNCHANGED lock /\ Accepted(Command(w)) /\ redis' = Applied(Command(w))
           /\ ~Abort(w)
  <2>1. /\ worker[w].epoch >= redis.fence
        /\ redis' \in Caches /\ redis'.fence = worker[w].epoch /\ redis'.celebrity = worker[w].celebrity
        /\ redis'.marked = redis.marked /\ Written' = Written
    BY <1>3, <1>c, AppliedFacts DEF Base, Accepted, Written, AllOf
  <2>2. worker \in [Workers -> WorkerStates] /\ worker[w] \in WorkerStates
        /\ {"mark", "advance"} \subseteq Stages /\ worker[w].celebrity \in BOOLEAN
    BY DEF Base, TypeInv, Stages, Executes, Sends, WorkerStates
  <2>0. ASSUME NEW r \in WorkerStates, worker' = [worker EXCEPT ![w] = r]
        PROVE  worker' \in [Workers -> WorkerStates] /\ Only(w) /\ worker'[w] = r
    BY <2>0, <2>2 DEF Only
  <2>3. CASE BeginAuthor(w) /\ author.complete
    <3> DEFINE r == [worker[w] EXCEPT !.pc = "advance"]
    <3>1. /\ r \in WorkerStates /\ r.pc = "advance" /\ r.epoch = worker[w].epoch /\ r.task = t
          /\ r.celebrity = worker[w].celebrity /\ r.page = worker[w].page /\ r.more = worker[w].more
      BY <2>2 DEF WorkerStates
    <3>2. worker' = [worker EXCEPT ![w] = r] /\ Kind(t) = "author"
      BY <1>3, <2>3 DEF BeginAuthor, Send, OnLockedConnection, To
    <3> HIDE DEF r
    <3>3. worker' \in [Workers -> WorkerStates] /\ Only(w) /\ worker'[w] = r
      BY <2>0, <3>1, <3>2
    <3> QED BY <1>0, <1>3, <2>1, <2>3, <3>1, <3>2, <3>3 DEF BeginGo, Frame
  <2>4. CASE BeginAuthor(w) /\ ~author.complete
    <3> DEFINE page == Page(Len(relations), author.cursor)
               more == More(Len(relations), author.cursor)
               todo == Marks(page, worker[w].celebrity)
               r == [worker[w] EXCEPT !.pc = "mark", !.page = page, !.more = more, !.todo = todo]
    <3>0. worker' = [worker EXCEPT ![w] = r] /\ Kind(t) = "author"
      BY <1>3, <2>4 DEF BeginAuthor, Send, OnLockedConnection
    <3>1. /\ Len(relations) \in 0 .. Len(relations) /\ author.cursor \in 0 .. Len(relations)
          /\ relations \in Seq(Relations) /\ Below(Len(relations), author.cursor) # {}
      BY <1>0, SomethingBelow DEF Base, TypeInv, BoundInv
    <3>2. todo \in Seq(Entries) /\ page \in SUBSET Nat /\ more \in BOOLEAN
      <4>1. todo \in Seq(Entries)
        BY <2>2, <3>1, MarksFacts
      <4>2. page \in SUBSET Nat
        BY <3>1, PageFacts
      <4> QED BY <4>1, <4>2 DEF More
    <3> HIDE DEF page, more, todo
    <3>3. /\ r \in WorkerStates /\ r.pc = "mark" /\ r.epoch = worker[w].epoch /\ r.task = t
          /\ r.celebrity = worker[w].celebrity /\ r.page = page /\ r.more = more /\ r.todo = todo
      BY <2>2, <3>2 DEF WorkerStates
    <3> HIDE DEF r
    <3>4. worker' \in [Workers -> WorkerStates] /\ Only(w) /\ worker'[w] = r
      BY <2>0, <3>0, <3>3
    <3> QED BY <1>0, <1>3, <2>1, <2>4, <3>0, <3>1, <3>3, <3>4 DEF BeginGo, Frame, page, more, todo
  <2>5. CASE BeginPair(w)
    <3> DEFINE fact == ReadPair(Follower(t))
               p == Resumed(checkpoint[t[1]], fact)
               todo == <<[follower |-> Follower(t), on |-> worker[w].celebrity /\ fact.active]>>
               r == [worker[w] EXCEPT !.pc = "mark", !.fact = fact, !.p = p, !.todo = todo]
    <3>0. worker' = [worker EXCEPT ![w] = r] /\ Kind(t) = "pair"
      BY <1>3, <2>5 DEF BeginPair, Send, OnLockedConnection
    <3>1. fact \in Facts
      BY ReadPairType DEF Base
    <3>2. Follower(t) \in Followers /\ checkpoint[t[1]] \in Checkpoints
      BY <1>0, FollowerType, TaskFacts DEF Base, TypeInv
    <3> HIDE DEF fact
    <3>3. p \in Checkpoints
      BY <3>1, <3>2, ProjectionAssumption DEF Resumed, Checkpoints, Facts
    <3>4. todo \in Seq(Entries)
      BY <2>2, <3>1, <3>2 DEF Entries, Facts
    <3> HIDE DEF p, todo
    <3>5. /\ r \in WorkerStates /\ r.pc = "mark" /\ r.epoch = worker[w].epoch /\ r.task = t
          /\ r.celebrity = worker[w].celebrity /\ r.page = worker[w].page /\ r.more = worker[w].more
          /\ r.fact = fact /\ r.p = p /\ r.todo = todo
      BY <2>2, <3>1, <3>3, <3>4 DEF WorkerStates
    <3> HIDE DEF r
    <3>6. worker' \in [Workers -> WorkerStates] /\ Only(w) /\ worker'[w] = r
      BY <2>0, <3>0, <3>5
    <3> QED BY <1>0, <1>3, <2>1, <3>0, <3>5, <3>6 DEF BeginGo, Frame, p, fact, todo
  <2> QED BY <2>3, <2>4, <2>5
<1>4. \/ Abort(w) /\ UNCHANGED redis
      \/ Abort(w) /\ lock # w /\ Accepted(Command(w)) /\ redis' = Applied(Command(w))
      \/ lock = w /\ UNCHANGED lock /\ Accepted(Command(w)) /\ redis' = Applied(Command(w))
  BY DEF BeginAuthor, BeginPair, Send, OnLockedConnection
<1>5. lock = w /\ UNCHANGED lock => ~Abort(w)
  BY OutboxAssumption DEF Abort, Unlock
<1> QED BY <1>1, <1>2, <1>3, <1>4, <1>5

(* A mark is taken, is taken and the lock is gone, or is rejected.         *)
LEMMA MarkClass ==
  ASSUME Base, NEW w \in Workers, Mark(w)
  PROVE  Calm \/ Lost(Command(w)) \/ MarkGo(w)
<1> DEFINE t == worker[w].task
           todo == Tail(worker[w].todo)
<1>0. /\ t \in Tasks /\ rows[t].status # "absent" /\ worker[w].pc = "mark"
      /\ UNCHANGED <<rows, relations, log, author, checkpoint, late>>
  BY DEF Mark, Send, store, Base, StageInv, Staged
<1>1. CASE Abort(w) /\ UNCHANGED redis
  BY <1>0, <1>1, RowsStayCalm, EndsAreCalm DEF Base, TableInv
<1>c. /\ Command(w) \in Commands /\ Command(w).kind = "mark" /\ Command(w).epoch = worker[w].epoch
      /\ Command(w).follower = {worker[w].todo[1].follower} /\ Command(w).on = worker[w].todo[1].on
  BY <1>0, CommandFacts DEF Base, Sends
<1>2. CASE Abort(w) /\ lock # w /\ Accepted(Command(w)) /\ redis' = Applied(Command(w))
  <2>1. WorkersCalm
    <3>1. /\ worker' \in [Workers -> WorkerStates] /\ Only(w) /\ Quiet(worker'[w])
          /\ lock' \in {lock, NoWorker} /\ lock' # w
          /\ worker'[w].task = worker[w].task
      BY <1>0, <1>2, EndsAreQuiet DEF Base
    <3> QED BY <1>0, <3>1 DEF WorkersCalm, Only
  <2> QED BY <1>0, <1>2, <1>c, <2>1 DEF Lost, Sends
<1>3. ASSUME UNCHANGED lock, Accepted(Command(w)), redis' = Applied(Command(w)),
             NEW pc \in {"mark", "save", "tweets"},
             worker' = [worker EXCEPT ![w] = [@ EXCEPT !.pc = pc, !.todo = todo]],
             \/ todo # <<>> /\ pc = "mark"
             \/ /\ todo = <<>> /\ lock = w
                /\ pc = IF Kind(worker[w].task) = "author" THEN "save" ELSE "tweets"
      PROVE  MarkGo(w)
  <2>1. /\ worker[w].epoch = redis.fence
        /\ redis' \in Caches /\ redis'.fence = redis.fence /\ redis'.celebrity = redis.celebrity
        /\ Written' = Written
        /\ redis'.marked = IF worker[w].todo[1].on THEN redis.marked \cup {worker[w].todo[1].follower}
                                                   ELSE redis.marked \ {worker[w].todo[1].follower}
    BY <1>3, <1>c, AppliedFacts DEF Base, Accepted, Written, AllOf
  <2>2. /\ worker \in [Workers -> WorkerStates] /\ worker[w] \in WorkerStates /\ pc \in Stages
        /\ worker[w].todo \in Seq(Entries) /\ worker[w].todo # <<>>
    BY <1>0 DEF Base, TypeInv, Stages, Executes, Sends, WorkerStates, StageInv, Staged
  <2>3. todo \in Seq(Entries)
    BY <2>2
  <2> HIDE DEF todo
  <2> DEFINE r == [worker[w] EXCEPT !.pc = pc, !.todo = todo]
  <2>4. /\ r \in WorkerStates /\ r.pc = pc /\ r.todo = todo /\ r.epoch = worker[w].epoch /\ r.task = t
        /\ r.celebrity = worker[w].celebrity /\ r.page = worker[w].page /\ r.more = worker[w].more
        /\ r.p = worker[w].p /\ r.fact = worker[w].fact
    BY <2>2, <2>3 DEF WorkerStates
  <2>5. worker' = [worker EXCEPT ![w] = r]
    BY <1>3
  <2> HIDE DEF r
  <2>6. worker' \in [Workers -> WorkerStates] /\ Only(w) /\ worker'[w] = r
    BY <2>2, <2>4, <2>5 DEF Only
  <2> QED BY <1>0, <1>3, <2>1, <2>4, <2>6 DEF MarkGo, SamePage, Frame, todo
<1> QED BY <1>1, <1>2, <1>3 DEF Mark, Send, OnLockedConnection

(* Tweets are taken or rejected.                                           *)
LEMMA WriteClass ==
  ASSUME Base, NEW w \in Workers, WriteTweets(w) PROVE Calm \/ WriteGo(w)
<1> DEFINE t == worker[w].task
<1>0. /\ t \in Tasks /\ rows[t].status # "absent" /\ worker[w].pc = "tweets"
      /\ UNCHANGED <<rows, relations, log, author, checkpoint, late>>
  BY DEF WriteTweets, Send, store, Base, StageInv, Staged
<1>1. CASE Abort(w) /\ UNCHANGED redis
  BY <1>0, <1>1, RowsStayCalm, EndsAreCalm DEF Base, TableInv
<1>2. CASE Accepted(Command(w)) /\ redis' = Applied(Command(w)) /\ To(w, "recheck") /\ UNCHANGED lock
  <2>c. /\ Command(w) \in Commands /\ Command(w).kind = "tweets" /\ Command(w).epoch = worker[w].epoch
        /\ Command(w).follower = {Follower(t)} /\ Command(w).page = Page(Tweets, worker[w].p.cursor)
        /\ Command(w).on = worker[w].fact.active
    BY <1>0, CommandFacts DEF Base, Sends
  <2>1. /\ worker[w].epoch = redis.fence
        /\ redis' \in Caches /\ redis'.fence = redis.fence /\ redis'.celebrity = redis.celebrity
        /\ redis'.marked = redis.marked
        /\ Written' = IF worker[w].fact.active
                      THEN Written \cup ({Follower(t)} \X Page(Tweets, worker[w].p.cursor))
                      ELSE Written \ ({Follower(t)} \X Page(Tweets, worker[w].p.cursor))
    BY <1>2, <2>c, AppliedFacts DEF Base, Accepted, Written, AllOf
  <2>2. worker \in [Workers -> WorkerStates] /\ worker[w] \in WorkerStates /\ "recheck" \in Stages
    BY DEF Base, TypeInv, Stages, Executes
  <2> DEFINE r == [worker[w] EXCEPT !.pc = "recheck"]
  <2>4. /\ r \in WorkerStates /\ r.pc = "recheck" /\ r.epoch = worker[w].epoch /\ r.task = t
        /\ r.celebrity = worker[w].celebrity /\ r.page = worker[w].page /\ r.more = worker[w].more
        /\ r.p = worker[w].p /\ r.fact = worker[w].fact
    BY <2>2 DEF WorkerStates
  <2>5. worker' = [worker EXCEPT ![w] = r]
    BY <1>2 DEF To
  <2> HIDE DEF r
  <2>6. worker' \in [Workers -> WorkerStates] /\ Only(w) /\ worker'[w] = r
    BY <2>2, <2>4, <2>5 DEF Only
  <2> QED BY <1>0, <1>2, <2>1, <2>4, <2>6 DEF WriteGo, SamePage, Frame
<1> QED BY <1>1, <1>2 DEF WriteTweets, Send

(* The relation is read again, or the lock is gone.                        *)
LEMMA RecheckClass ==
  ASSUME Base, NEW w \in Workers, Recheck(w) PROVE Calm \/ RecheckGo(w)
<1> DEFINE t == worker[w].task
           changed == ReadPair(Follower(t)) # worker[w].fact
<1>0. /\ t \in Tasks /\ worker[w].pc = "recheck"
      /\ UNCHANGED <<rows, relations, log, author, checkpoint, redis, late>>
  BY DEF Recheck, store, Base, StageInv, Staged
<1>1. CASE Abort(w)
  BY <1>0, <1>1, RowsStayCalm, EndsAreCalm DEF Base, TableInv
<1>2. CASE /\ lock = w /\ UNCHANGED lock
           /\ worker' = [worker EXCEPT ![w] = [@ EXCEPT !.pc = "advance", !.changed = changed]]
  <2>1. changed \in BOOLEAN
    OBVIOUS
  <2> HIDE DEF changed
  <2>2. worker \in [Workers -> WorkerStates] /\ worker[w] \in WorkerStates /\ "advance" \in Stages
    BY DEF Base, TypeInv, Stages, Executes
  <2> DEFINE r == [worker[w] EXCEPT !.pc = "advance", !.changed = changed]
  <2>4. /\ r \in WorkerStates /\ r.pc = "advance" /\ r.epoch = worker[w].epoch /\ r.task = t
        /\ r.celebrity = worker[w].celebrity /\ r.page = worker[w].page /\ r.more = worker[w].more
        /\ r.p = worker[w].p /\ r.fact = worker[w].fact
    BY <2>1, <2>2 DEF WorkerStates
  <2>5. worker' = [worker EXCEPT ![w] = r]
    BY <1>2
  <2> HIDE DEF r
  <2>6. worker' \in [Workers -> WorkerStates] /\ Only(w) /\ worker'[w] = r
    BY <2>2, <2>4, <2>5 DEF Only
  <2> QED BY <1>0, <1>2, <2>4, <2>6 DEF RecheckGo, SamePage, Frame
<1> QED BY <1>1, <1>2 DEF Recheck, OnLockedConnection

(* The author's row is saved, or the lock is gone.                         *)
LEMMA SaveClass ==
  ASSUME Base, NEW w \in Workers, Save(w) PROVE Calm \/ SaveGo(w)
<1> DEFINE t == worker[w].task
           cursor == Next0(worker[w].page, worker[w].more)
<1>0. /\ t \in Tasks /\ worker[w].pc = "save"
      /\ UNCHANGED <<rows, relations, log, checkpoint, redis, late>>
  BY DEF Save, Base, StageInv, Staged
<1>1. CASE Abort(w) /\ UNCHANGED author
  BY <1>0, <1>1, RowsStayCalm, EndsAreCalm DEF Base, TableInv
<1>2. CASE /\ lock = w /\ To(w, "advance") /\ UNCHANGED lock
           /\ author' = [author EXCEPT !.cursor = cursor, !.complete = ~worker[w].more]
  <2>1. /\ worker \in [Workers -> WorkerStates] /\ worker[w] \in WorkerStates /\ "advance" \in Stages
        /\ author \in Authors /\ worker[w].more \in BOOLEAN /\ worker[w].page \in SUBSET Nat
    BY DEF Base, TypeInv, Stages, Executes, WorkerStates
  <2>2. cursor \in Nat
    BY <2>1 DEF Next0, Base, BoundInv
  <2>3. (~worker[w].more) \in BOOLEAN
    OBVIOUS
  <2> HIDE DEF cursor
  <2>a. /\ author' \in Authors /\ author'.started = author.started /\ author'.epoch = author.epoch
        /\ author'.celebrity = author.celebrity
        /\ author'.cursor = cursor /\ author'.complete = ~worker[w].more
    BY <1>2, <2>1, <2>2, <2>3 DEF Authors
  <2> DEFINE r == [worker[w] EXCEPT !.pc = "advance"]
  <2>4. /\ r \in WorkerStates /\ r.pc = "advance" /\ r.epoch = worker[w].epoch /\ r.task = t
        /\ r.celebrity = worker[w].celebrity /\ r.page = worker[w].page /\ r.more = worker[w].more
        /\ r.p = worker[w].p /\ r.fact = worker[w].fact
    BY <2>1 DEF WorkerStates
  <2>5. worker' = [worker EXCEPT ![w] = r]
    BY <1>2 DEF To
  <2> HIDE DEF r
  <2>6. worker' \in [Workers -> WorkerStates] /\ Only(w) /\ worker'[w] = r
    BY <2>1, <2>4, <2>5 DEF Only
  <2> QED BY <1>0, <1>2, <2>4, <2>6, <2>a DEF SaveGo, SamePage, Frame, cursor
<1> QED BY <1>1, <1>2 DEF Save

(* A pair advances with its checkpoint, or claim or lock is gone.          *)
LEMMA AdvancePairClass ==
  ASSUME Base, NEW w \in Workers, AdvancePair(w) PROVE Calm \/ AdvanceGo(w)
<1> DEFINE t == worker[w].task
           p == worker[w].p
           more == More(Tweets, p.cursor)
           over == [p EXCEPT !.cursor = 0, !.initialized = FALSE]
           next == [p EXCEPT !.cursor = Next0(Page(Tweets, p.cursor), more)]
<1>0. /\ t \in Tasks /\ worker[w].pc = "advance" /\ Kind(t) = "pair"
      /\ UNCHANGED <<relations, log, author, redis, late>>
  BY DEF AdvancePair, Base, StageInv, Staged
<1>1. CASE Abort(w) /\ UNCHANGED <<rows, checkpoint>>
  BY <1>0, <1>1, RowsStayCalm, EndsAreCalm DEF Base, TableInv
<1>2. CASE /\ lock = w /\ Holds(t, w) /\ Rest(w)
           /\ IF worker[w].changed \/ more THEN Yield(t, w) ELSE Complete(t, w)
           /\ checkpoint' = [checkpoint EXCEPT ![t[1]] = IF worker[w].changed THEN over ELSE next]
  <2>1. p \in Checkpoints /\ checkpoint \in [Events -> Checkpoints] /\ t[1] \in Events
        /\ worker[w].changed \in BOOLEAN
    BY <1>0, TaskFacts DEF Base, TypeInv, WorkerStates
  <2>2. over \in Checkpoints /\ ~over.initialized
    <3>0. 0 \in 0 .. Tweets
      BY ProjectionAssumption
    <3>1. ASSUME NEW b \in BOOLEAN
          PROVE  LET q == [p EXCEPT !.cursor = 0, !.initialized = b]
                 IN q \in Checkpoints /\ q.initialized = b
      <4> HIDE DEF p
      <4> QED BY <2>1, <3>0 DEF Checkpoints
    <3> QED BY <3>1, Zenon
  <2>3. next \in Checkpoints
    <3>1. Next0(Page(Tweets, p.cursor), more) \in 0 .. Tweets
      <4>1. p.cursor \in 0 .. Tweets /\ Tweets \in Nat
        BY <2>1, ProjectionAssumption DEF Checkpoints
      <4>2. Below(Tweets, p.cursor) \subseteq 0 .. Tweets
        BY <4>1 DEF Below
      <4>3. more => Min(Page(Tweets, p.cursor)) \in Below(Tweets, p.cursor)
        BY <4>1, PageFacts
      <4> QED BY <4>1, <4>2, <4>3 DEF Next0
    <3> QED BY <2>1, <3>1 DEF Checkpoints
  <2> HIDE DEF over, next
  <2>4. /\ checkpoint' \in [Events -> Checkpoints]
        /\ \A d \in Events : d # t[1] => checkpoint'[d] = checkpoint[d]
        /\ checkpoint'[t[1]].initialized => ~worker[w].changed
        /\ ~worker[w].changed => checkpoint'[t[1]] = next
    BY <1>2, <2>1, <2>2, <2>3
  <2>5. /\ worker' \in [Workers -> WorkerStates] /\ Only(w) /\ Quiet(worker'[w])
        /\ worker'[w].pc = "idle"
    BY <1>0, <1>2, EndsAreQuiet DEF Base
  <2>6. lock' = NoWorker
    BY <1>2 DEF Rest, Unlock
  <2>7. /\ \A u \in Tasks : u # t => rows'[u] = rows[u]
        /\ rows'[t].status = IF worker[w].changed \/ more THEN "pending" ELSE "success"
    BY <1>0, <1>2 DEF Base, TableInv, RowsInv, Yield, Complete, Released
  <2>8. rows'[t].status \in {"pending", "success"}
        /\ (rows'[t].status = "success" => ~worker[w].changed /\ ~more)
    BY <2>7
  <2> QED BY <1>0, <1>2, <2>4, <2>5, <2>6, <2>7, <2>8 DEF AdvanceGo, next
<1> QED BY <1>1, <1>2 DEF AdvancePair

(* An author task succeeds, yields, or has lost its claim or lock.         *)
LEMMA AdvanceAuthorClass ==
  ASSUME Base, NEW w \in Workers, AdvanceAuthor(w) PROVE Calm \/ AdvanceGo(w)
<1> DEFINE t == worker[w].task
<1>0. /\ t \in Tasks /\ worker[w].pc = "advance" /\ Kind(t) = "author"
      /\ UNCHANGED <<relations, log, author, checkpoint, redis, late>>
  BY DEF AdvanceAuthor, store, Base, StageInv, Staged
<1>1. CASE Abort(w) /\ UNCHANGED rows
  BY <1>0, <1>1, RowsStayCalm, EndsAreCalm DEF Base, TableInv
<1>2. CASE Yield(t, w) /\ Rest(w)
  BY <1>0, <1>2, RowsStayCalm, EndsAreCalm DEF Base, TableInv
<1>3. CASE lock = w /\ author.complete /\ Complete(t, w) /\ Rest(w)
  <2>1. /\ worker' \in [Workers -> WorkerStates] /\ Only(w) /\ Quiet(worker'[w])
        /\ worker'[w].pc = "idle"
    BY <1>0, <1>3, EndsAreQuiet DEF Base
  <2>2. lock' = NoWorker
    BY <1>3 DEF Rest, Unlock
  <2>3. (\A u \in Tasks : u # t => rows'[u] = rows[u]) /\ rows'[t].status = "success" /\ Holds(t, w)
    BY <1>0, <1>3 DEF Base, TableInv, RowsInv, Complete, Released
  <2> QED BY <1>0, <1>3, <2>1, <2>2, <2>3 DEF AdvanceGo
<1> QED BY <1>1, <1>2, <1>3 DEF AdvanceAuthor

(* The steps outside the pages                                             *)
LEMMA ClaimClass ==
  ASSUME Base, NEW w \in Workers, NEW t \in Tasks, ClaimTask(w, t) PROVE Calm
<1> DEFINE r == [Resting EXCEPT !.pc = "lock", !.task = t]
<1>1. r \in WorkerStates /\ r.pc = "lock" /\ r.task = t /\ r.epoch = 0 /\ r.page = {} /\ ~r.more
  <2>1. "lock" \in Stages /\ t \in Tasks \cup {<<>>}
    BY DEF Stages, Executes
  <2> QED BY <2>1, RestingType DEF WorkerStates
<1>2. worker' = [worker EXCEPT ![w] = r]
  BY DEF ClaimTask
<1> HIDE DEF r
<1>3. worker' \in [Workers -> WorkerStates] /\ Only(w) /\ worker'[w] = r
  BY <1>1, <1>2 DEF Base, TypeInv, Only
<1>4. lock # w
  BY DEF ClaimTask, Base, LockInv, Busy, Past
<1>5. /\ rows'[t].status = "processing" /\ rows'[t].owner = w /\ rows[t].status \in {"pending", "failed"}
      /\ \A u \in Tasks : u # t => rows'[u] = rows[u]
  BY DEF ClaimTask, Claim, Claimable, Base, TableInv, RowsInv
<1>6. RowsCalm
  BY <1>1, <1>3, <1>5 DEF RowsCalm, Succeeded, Holds
<1>7. WorkersCalm
  BY <1>1, <1>3, <1>4, <1>5 DEF WorkersCalm, Only, Quiet, ClaimTask
<1> QED BY <1>6, <1>7, CacheStaysCalm DEF Calm, ClaimTask, store

(* A step that leaves the projection's state alone                         *)
LEMMA OutsideClass ==
  ASSUME Base, UNCHANGED <<relations, log, author, checkpoint, redis, worker>>,
         late' \in {late, NoCommand}, lock' \in {lock, NoWorker}, RowsCalm
  PROVE  Calm
BY CacheStaysCalm DEF Calm, WorkersCalm, Base, TypeInv

(* A message is registered.                                                *)
LEMMA HandleClass ==
  ASSUME Base, NEW e \in Events, Handle(e) PROVE Calm
<1>1. e <= Len(log)
  BY DEF Handle, Base, IngressInv
<1>2. CASE UNCHANGED rows
  <2>1. RowsCalm
    BY <1>2 DEF RowsCalm, Succeeded, Holds
  <2> QED BY <2>1, OutsideClass DEF Handle, store
<1>3. CASE Create({e} \X {"author", "pair"})
  <2>1. \A t \in Tasks : \/ rows'[t] = rows[t]
                         \/ t[1] = e /\ rows'[t].status = "pending" /\ rows[t].status = "absent"
    BY <1>3 DEF Create, NewRow, NoRow
  <2>2. RowsCalm
    BY <1>1, <2>1 DEF RowsCalm, Succeeded, Holds
  <2> QED BY <2>2, OutsideClass DEF Handle, store
<1> QED BY <1>2, <1>3 DEF Handle

(* A command is given up.                                                  *)
LEMMA TimeOutClass ==
  ASSUME Base, NEW w \in Workers, TimeOut(w) PROVE TimedOut(w)
<1>1. worker[w].task \in Tasks
  BY DEF TimeOut, Base, StageInv, Staged, Sends
<1>2. /\ worker' \in [Workers -> WorkerStates] /\ Only(w) /\ Quiet(worker'[w])
      /\ lock' \in {lock, NoWorker} /\ lock' # w /\ worker'[w].task = worker[w].task
  BY <1>1, EndsAreQuiet DEF TimeOut, Base
<1>3. Command(w) \in Commands /\ Command(w).kind # "none"
  BY CommandFacts DEF TimeOut, Base, Sends
<1> QED BY <1>2, <1>3 DEF TimeOut, TimedOut, store

(* A command that was given up arrives.                                    *)
LEMMA LandClass ==
  ASSUME Base, Land PROVE Calm \/ Lost(late)
<1>1. RowsCalm /\ UNCHANGED <<rows, relations, log, author, checkpoint, lock, worker>>
  BY DEF Land, store, RowsCalm, Succeeded, Holds
<1>2. CASE UNCHANGED redis
  BY <1>1, <1>2, OutsideClass DEF Land
<1>3. CASE Accepted(late) /\ redis' = Applied(late) /\ late.kind # "none"
  <2>1. WorkersCalm
    BY <1>1 DEF WorkersCalm, Land, Base, TypeInv
  <2> QED BY <1>1, <1>3, <2>1 DEF Lost, Base, TypeInv
<1>4. late \in Commands /\ late.kind # "none"
  BY DEF Base, TypeInv, Land
<1> QED BY <1>2, <1>3, <1>4 DEF Land

(* Every step is one of these.                                             *)
LEMMA StepClasses ==
  ASSUME Base, [Next]_vars
  PROVE  \/ Calm
         \/ \E f \in Followers : Change(f)
         \/ \E c \in Commands : Lost(c)
         \/ \E w \in Workers : Progress(w)
<1>1. CASE UNCHANGED vars
  <2>1. RowsCalm
    BY <1>1 DEF vars, RowsCalm, Succeeded, Holds
  <2> QED BY <1>1, <2>1, OutsideClass DEF vars
<1>2. ASSUME NEW e \in Events, Handle(e) PROVE Calm
  BY <1>2, HandleClass
<1>3. ASSUME NEW e \in Events, RouteFailure(e) PROVE Calm
  <2>1. RowsCalm
    BY <1>3 DEF RouteFailure, RowsCalm, Succeeded, Holds
  <2> QED BY <1>3, <2>1, OutsideClass DEF RouteFailure, store
<1>4. ASSUME NEW w \in Workers, Step(w)
      PROVE  Calm \/ (\E c \in Commands : Lost(c)) \/ Progress(w)
  <2>1. CASE GiveBack(w)
    <3>1. worker[w].task \in Tasks
      BY <2>1 DEF GiveBack, Base, StageInv, Staged
    <3>2. RowsCalm
      BY <2>1, <3>1, RowsStayCalm DEF GiveBack, Base, TableInv
    <3> QED BY <2>1, <3>2, EndsAreCalm DEF GiveBack, store
  <2>2. Lost(Command(w)) => \E c \in Commands : Lost(c)
    BY DEF Lost
  <2> QED BY <1>4, <2>1, <2>2, EnterClass, DecideClass, BeginClass, MarkClass, WriteClass, RecheckClass,
             AdvancePairClass, SaveClass, AdvanceAuthorClass DEF Step, Progress
<1>5. ASSUME NEW w \in Workers, Stumble(w) PROVE Calm
  <2>1. worker[w].pc # "idle"
    BY <1>5 DEF Stumble, Executes, Sends
  <2>2. RowsCalm
    BY <1>5 DEF Stumble, RowsCalm, Succeeded, Holds
  <2> QED BY <1>5, <2>1, <2>2, EndsAreCalm DEF Stumble, store
<1>6. ASSUME NEW w \in Workers, TimeOut(w) PROVE Progress(w)
  BY <1>6, TimeOutClass DEF Progress
<1>7. ASSUME NEW w \in Workers, LoseLock(w) PROVE Calm
  <2>1. RowsCalm
    BY <1>7 DEF LoseLock, RowsCalm, Succeeded, Holds
  <2> QED BY <1>7, <2>1, OutsideClass DEF LoseLock, store
<1>8. ASSUME NEW w \in Workers, NEW t \in Tasks, ClaimTask(w, t) PROVE Calm
  BY <1>8, ClaimClass
<1>9. ASSUME NEW t \in Tasks, Lapse(t) \/ Recover(t) PROVE Calm
  <2>1. rows[t].owner \in Workers \/ ~(rows[t].status = "processing")
    BY DEF Base, TableInv, RowsInv
  <2>2. RowsCalm
    <3>1. CASE Lapse(t)
      <4>1. \A u \in Tasks : rows'[u].status = rows[u].status /\ rows'[u].owner = rows[u].owner
                             /\ (rows'[u].leased => rows[u].leased)
        BY <3>1 DEF Lapse, LeaseExpires, Base, TableInv, RowsInv, Rows
      <4> QED BY <4>1 DEF RowsCalm, Succeeded, Holds
    <3>2. CASE Recover(t)
      <4>1. rows[t].owner \in Workers
        BY <3>2, <2>1 DEF Recover, RecoverExpired
      <4> QED BY <3>2, <4>1, RowsStayCalm DEF Recover, Base, TableInv
    <3> QED BY <1>9, <3>1, <3>2
  <2> QED BY <1>9, <2>2, OutsideClass DEF Lapse, Recover, store
<1>10. CASE Land
  <2>1. late \in Commands
    BY DEF Base, TypeInv
  <2> QED BY <1>10, <2>1, LandClass
<1>11. ASSUME NEW f \in Followers, NEW k \in 0 .. Capacity - 1, Evict(f, k) PROVE Calm
  <2>1. RowsCalm /\ CacheCalm
    BY <1>11, EvictIsCalm DEF Evict, RowsCalm, Succeeded, Holds
  <2> QED BY <1>11, <2>1 DEF Evict, store, Calm, WorkersCalm, Base, TypeInv
<1> QED BY <1>1, <1>2, <1>3, <1>4, <1>5, <1>6, <1>7, <1>8, <1>9, <1>10, <1>11 DEF Next

-----------------------------------------------------------------------------
(* The last event of a follower                                            *)
LEMMA LastPosition ==
  ASSUME NEW events \in Seq(Followers), NEW f
  PROVE  LET last == Max({e \in DOMAIN events : events[e] = f} \cup {0})
         IN /\ last \in 0 .. Len(events)
            /\ last > 0 => events[last] = f
            /\ \A e \in 1 .. Len(events) : events[e] = f => e <= last
<1> DEFINE S == {e \in DOMAIN events : events[e] = f} \cup {0}
<1>1. Len(events) \in Nat /\ DOMAIN events = 1 .. Len(events)
  OBVIOUS
<1>2. S \in SUBSET (0 .. Len(events)) /\ S # {}
  BY <1>1
<1>3. Max(S) \in S /\ \A y \in S : y <= Max(S)
  <2> HIDE DEF S
  <2> QED BY <1>1, <1>2, GreatestNatural
<1> QED BY <1>1, <1>2, <1>3

(* It is one of the follower's.                                            *)
LEMMA LastEventFacts ==
  ASSUME TypeInv, NEW f
  PROVE  /\ LastEvent(f) \in 0 .. Len(log)
         /\ LastEvent(f) > 0 => log[LastEvent(f)] = f
         /\ \A e \in 1 .. Len(log) : log[e] = f => e <= LastEvent(f)
BY LastPosition DEF LastEvent, TypeInv

(* A change gives its follower a new last event and leaves the others'     *)
(* rows and events alone.                                                  *)
LEMMA ChangeFacts ==
  ASSUME Base, NEW f \in Followers, Change(f)
  PROVE  /\ relations' \in Seq(Relations) /\ Len(relations) \in Nat
         /\ Len(relations') \in {Len(relations), Len(relations) + 1}
         /\ \A i \in 1 .. Len(relations) : relations'[i].follower = relations[i].follower
         /\ Len(relations') = Len(relations) + 1 => relations'[Len(relations')].follower = f
         /\ log' \in Seq(Followers) /\ Len(log') = Len(log) + 1 /\ Len(log') <= MaxChanges
         /\ \A e \in 1 .. Len(log) : log'[e] = log[e]
         /\ log'[Len(log')] = f
         /\ RowsOf(f)' # {}
         /\ \A g : g # f => RowsOf(g)' = RowsOf(g) /\ Following(g)' = Following(g)
<1>1. relations \in Seq(Relations) /\ log \in Seq(Followers) /\ Len(log) \in Nat /\ Len(relations) \in Nat
  BY DEF Base, TypeInv
<1>2. /\ log' \in Seq(Followers) /\ Len(log') = Len(log) + 1 /\ Len(log') <= MaxChanges
      /\ \A e \in 1 .. Len(log) : log'[e] = log[e]
      /\ log'[Len(log')] = f
  <2>1. MaxChanges \in Nat
    BY ProjectionAssumption
  <2> QED BY <1>1, <2>1 DEF Change
<1>3. CASE ~Following(f)
  <2> DEFINE row == [follower |-> f, live |-> TRUE]
             n == Len(relations) + 1
  <2>1. relations' = Append(relations, row) /\ row \in Relations /\ row.follower = f
    BY <1>3 DEF Change, Relations
  <2> HIDE DEF row
  <2>2. /\ relations' \in Seq(Relations) /\ Len(relations') = n /\ n \in 1 .. n /\ relations'[n] = row
        /\ \A i \in 1 .. Len(relations) : relations'[i] = relations[i]
    BY <1>1, <2>1
  <2>3. DOMAIN relations = 1 .. Len(relations) /\ DOMAIN relations' = 1 .. n /\ n \in Nat
    BY <1>1, <2>2
  <2> HIDE DEF n
  <2>4. n \in RowsOf(f)'
    BY <2>1, <2>2, <2>3 DEF RowsOf
  <2>5. ASSUME NEW g, g # f
        PROVE  RowsOf(g)' = RowsOf(g) /\ Following(g)' = Following(g)
    <3>1. \A i : i \in DOMAIN relations' <=> i \in DOMAIN relations \/ i = n
      BY <1>1, <2>3 DEF n
    <3>2. RowsOf(g)' = RowsOf(g)
      BY <2>1, <2>2, <2>3, <2>5, <3>1 DEF RowsOf
    <3>3. RowsOf(g)' \cap LiveRows' = RowsOf(g) \cap LiveRows
      BY <2>2, <2>3, <3>1, <3>2 DEF RowsOf, LiveRows
    <3> QED BY <3>2, <3>3 DEF Following
  <2> QED BY <1>1, <1>2, <2>1, <2>2, <2>4, <2>5 DEF n
<1>4. CASE Following(f)
  <2> DEFINE m == Max(RowsOf(f) \cap LiveRows)
             row == [relations[m] EXCEPT !.live = FALSE]
  <2>1. m \in RowsOf(f) \cap LiveRows
    <3>1. RowsOf(f) \cap LiveRows \in SUBSET (0 .. Len(relations)) /\ RowsOf(f) \cap LiveRows # {}
      BY <1>1, <1>4 DEF RowsOf, Following
    <3> QED BY <1>1, <3>1, GreatestNatural
  <2>2. m \in 1 .. Len(relations) /\ relations[m] \in Relations /\ relations[m].follower = f
    BY <1>1, <2>1 DEF RowsOf
  <2>3. relations' = [relations EXCEPT ![m] = row]
    BY <1>4 DEF Change
  <2> HIDE DEF m
  <2>4. row \in Relations /\ row.follower = f
    <3>1. ASSUME NEW b \in BOOLEAN
          PROVE  [relations[m] EXCEPT !.live = b] \in Relations /\ [relations[m] EXCEPT !.live = b].follower = f
      BY <2>2 DEF Relations
    <3> QED BY <3>1, Zenon
  <2> HIDE DEF row
  <2>5. /\ relations' \in Seq(Relations) /\ Len(relations') = Len(relations)
        /\ \A j \in 1 .. Len(relations) : relations'[j] = IF j = m THEN row ELSE relations[j]
    BY <1>1, <2>2, <2>3, <2>4, ExceptSeq
  <2>6. DOMAIN relations = 1 .. Len(relations) /\ DOMAIN relations' = 1 .. Len(relations)
    BY <1>1, <2>5
  <2>7. \A i \in 1 .. Len(relations) : relations'[i].follower = relations[i].follower
    BY <2>2, <2>4, <2>5
  <2>8. m \in RowsOf(f)'
    BY <2>2, <2>6, <2>7 DEF RowsOf
  <2>9. ASSUME NEW g, g # f
        PROVE  RowsOf(g)' = RowsOf(g) /\ Following(g)' = Following(g)
    <3>1. RowsOf(g)' = RowsOf(g)
      BY <2>6, <2>7 DEF RowsOf
    <3>2. \A i \in RowsOf(g) : i # m /\ i \in 1 .. Len(relations)
      BY <2>2, <2>6, <2>9 DEF RowsOf
    <3>3. RowsOf(g)' \cap LiveRows' = RowsOf(g) \cap LiveRows
      BY <2>5, <2>6, <3>1, <3>2 DEF LiveRows
    <3> QED BY <3>1, <3>3 DEF Following
  <2>10. ~(Len(relations') = Len(relations) + 1)
    BY <1>1, <2>5
  <2> QED BY <1>1, <1>2, <2>5, <2>7, <2>8, <2>9, <2>10
<1> QED BY <1>3, <1>4

(* The last events after a change                                          *)
LEMMA ChangeEvents ==
  ASSUME Base, NEW f \in Followers, Change(f)
  PROVE  LastEvent(f)' = Len(log) + 1 /\ \A g : g # f => LastEvent(g)' = LastEvent(g)
<1>1. /\ Len(log') = Len(log) + 1 /\ log'[Len(log')] = f /\ \A e \in 1 .. Len(log) : log'[e] = log[e]
  BY ChangeFacts
<1>2. Len(log) \in Nat
  BY DEF Base, TypeInv
<1>3. ASSUME NEW g
      PROVE  /\ LastEvent(g) \in 0 .. Len(log) /\ LastEvent(g)' \in 0 .. Len(log')
             /\ LastEvent(g) > 0 => log[LastEvent(g)] = g
             /\ LastEvent(g)' > 0 => log'[LastEvent(g)'] = g
             /\ \A e \in 1 .. Len(log) : log[e] = g => e <= LastEvent(g)
             /\ \A e \in 1 .. Len(log') : log'[e] = g => e <= LastEvent(g)'
  <2>1. log \in Seq(Followers) /\ log' \in Seq(Followers)
    BY ChangeFacts DEF Base, TypeInv
  <2> QED BY <2>1, LastPosition DEF LastEvent
<1> QED BY <1>1, <1>2, <1>3

-----------------------------------------------------------------------------
(* A command that arrives from elsewhere has an epoch that the holder of   *)
(* the lock does not have, so it is rejected once the holder has begun.    *)
LEMMA LostFacts ==
  ASSUME Base, NEW c \in Commands, Lost(c)
  PROVE  /\ redis' \in Caches /\ c.epoch \in Nat /\ c.epoch > 0 /\ c.epoch <= author.epoch
         /\ c.kind = "begin" =>
               /\ c.epoch >= redis.fence /\ redis'.fence = c.epoch /\ redis'.celebrity = c.on
               /\ redis'.marked = redis.marked /\ Written' = Written
         /\ c.kind # "begin" =>
               /\ c.epoch = redis.fence
               /\ redis'.fence = redis.fence /\ redis'.celebrity = redis.celebrity
         /\ \A v \in Workers : lock = v => worker[v].pc \notin Past
<1>t. /\ c.epoch \in Nat /\ redis.fence \in Nat /\ author.epoch \in Nat
      /\ \A v \in Workers : worker[v].epoch \in Nat
  BY DEF Base, TypeInv, Commands, Caches, Authors, WorkerStates
<1>1. /\ redis' \in Caches
      /\ c.kind = "begin" =>
               /\ c.epoch >= redis.fence /\ redis'.fence = c.epoch /\ redis'.celebrity = c.on
               /\ redis'.marked = redis.marked /\ Written' = Written
      /\ c.kind # "begin" =>
               /\ c.epoch = redis.fence
               /\ redis'.fence = redis.fence /\ redis'.celebrity = redis.celebrity
  BY AppliedFacts DEF Lost, Base, Accepted, Written, AllOf
<1>2. /\ c.epoch > 0 /\ c.epoch <= author.epoch
      /\ \A v \in Workers : lock = v /\ worker[v].pc \in Busy => c.epoch # worker[v].epoch
  <2>1. CASE c = late
    BY <2>1, <1>t DEF Lost, Base, EpochInv
  <2>2. ASSUME NEW w \in Workers, lock # w, worker[w].pc \in Sends, c = Command(w)
        PROVE  /\ c.epoch > 0 /\ c.epoch <= author.epoch
               /\ \A v \in Workers : lock = v /\ worker[v].pc \in Busy => c.epoch # worker[v].epoch
    <3>1. c.epoch = worker[w].epoch /\ worker[w].pc \in Busy
      BY <2>2, CommandFacts DEF Base, Sends, Busy, Past
    <3> QED BY <2>2, <3>1, <1>t DEF Base, EpochInv
  <2> QED BY <2>1, <2>2 DEF Lost
<1>3. ASSUME NEW v \in Workers, lock = v PROVE worker[v].pc \notin Past
  <2>1. worker[v].pc \in Past => redis.fence = author.epoch /\ worker[v].epoch = author.epoch
    BY <1>3 DEF Base, LockInv, Busy
  <2>2. worker[v].pc \in Past => worker[v].pc \in Busy
    BY DEF Busy
  <2> QED BY <1>1, <1>2, <1>3, <1>t, <2>1, <2>2
<1> QED BY <1>1, <1>2, <1>3, <1>t

(* Each part of Base is kept by every class of steps.                      *)
LEMMA TypeKept ==
  ASSUME Base, [Next]_vars PROVE TypeInv'
<1> USE DEF TypeInv
<1>1. CASE Calm
  <2>1. NoCommand \in Commands /\ NoCommand.kind = "none"
    BY DEF NoCommand, Commands
  <2> QED BY <1>1, <2>1 DEF Base, Calm, CacheCalm, WorkersCalm
<1>2. ASSUME NEW f \in Followers, Change(f) PROVE TypeInv'
  BY <1>2, ChangeFacts DEF Base, Change
<1>3. ASSUME NEW c \in Commands, Lost(c) PROVE TypeInv'
  <2>1. NoCommand \in Commands /\ NoCommand.kind = "none"
    BY DEF NoCommand, Commands
  <2>2. redis' \in Caches
    BY <1>3, LostFacts
  <2> QED BY <1>3, <2>1, <2>2 DEF Base, Lost, WorkersCalm
<1>4. ASSUME NEW w \in Workers, Progress(w) PROVE TypeInv'
  <2>1. CASE TimedOut(w)
    BY <2>1 DEF Base, TimedOut
  <2>2. CASE EnterGo(w) \/ DecideGo(w)
    BY <2>2 DEF Base, EnterGo, DecideGo, Frame
  <2>3. CASE BeginGo(w) \/ MarkGo(w) \/ WriteGo(w)
    BY <2>3 DEF Base, BeginGo, MarkGo, WriteGo, Frame
  <2>4. CASE RecheckGo(w) \/ SaveGo(w)
    BY <2>4 DEF Base, RecheckGo, SaveGo, Frame
  <2>5. CASE AdvanceGo(w)
    BY <2>5 DEF Base, AdvanceGo
  <2> QED BY <1>4, <2>1, <2>2, <2>3, <2>4, <2>5 DEF Progress
<1> QED BY <1>1, <1>2, <1>3, <1>4, StepClasses

(* Cursors and pages stay within their tables.                             *)
LEMMA BoundKept ==
  ASSUME Base, [Next]_vars PROVE BoundInv'
<1>q. \A r : Quiet(r) => r.page = {} /\ ~r.more
  BY DEF Quiet
<1>e. Cardinality({}) <= PageSize
  BY FS_EmptySet, ProjectionAssumption
<1>b. BoundInv
  BY DEF Base
<1>1. CASE Calm \/ \E c \in Commands : Lost(c)
  BY <1>1, <1>q, <1>e, <1>b DEF Calm, Lost, WorkersCalm, BoundInv
<1>2. ASSUME NEW f \in Followers, Change(f) PROVE BoundInv'
  <2>1. Len(relations) \in Nat /\ Len(relations') \in Nat /\ Len(relations') >= Len(relations)
    BY <1>2, ChangeFacts
  <2>2. UNCHANGED <<author, worker>>
    BY <1>2 DEF Change
  <2> QED BY <1>b, <2>1, <2>2 DEF BoundInv
<1>3. ASSUME NEW w \in Workers, Progress(w) PROVE BoundInv'
  <2>1. CASE TimedOut(w)
    BY <2>1, <1>q, <1>e, <1>b DEF TimedOut, Only, BoundInv
  <2>2. CASE EnterGo(w) \/ MarkGo(w) \/ WriteGo(w) \/ RecheckGo(w)
    BY <2>2, <1>b DEF EnterGo, MarkGo, WriteGo, RecheckGo, SamePage, Frame, Only, BoundInv
  <2>3. CASE DecideGo(w)
    <3>1. author'.cursor = author.cursor \/ author'.cursor = 0
      BY <2>3 DEF DecideGo
    <3>2. Len(relations) \in Nat
      BY DEF Base, TypeInv
    <3> QED BY <2>3, <1>b, <3>1, <3>2 DEF DecideGo, Frame, Only, BoundInv
  <2>4. CASE BeginGo(w)
    <3>1. Len(relations) \in Nat /\ author.cursor \in 0 .. Len(relations)
      BY <1>b DEF Base, TypeInv, BoundInv
    <3>2. \/ worker'[w].page = worker[w].page /\ worker'[w].more = worker[w].more
          \/ /\ worker'[w].page = Page(Len(relations), author.cursor)
             /\ worker'[w].more = More(Len(relations), author.cursor)
      BY <2>4 DEF BeginGo
    <3>3. Below(Len(relations), author.cursor) \subseteq 1 .. Len(relations)
      BY <3>1 DEF Below
    <3>4. /\ worker'[w].page \subseteq 1 .. Len(relations)
          /\ Cardinality(worker'[w].page) <= PageSize
          /\ worker'[w].more => Min(worker'[w].page) \in worker'[w].page /\ Min(worker'[w].page) > 1
      <4>1. CASE worker'[w].page = worker[w].page /\ worker'[w].more = worker[w].more
        BY <4>1, <1>b DEF BoundInv
      <4>2. CASE /\ worker'[w].page = Page(Len(relations), author.cursor)
                 /\ worker'[w].more = More(Len(relations), author.cursor)
        BY <4>2, <3>1, <3>3, PageFacts
      <4> QED BY <3>2, <4>1, <4>2
    <3> QED BY <2>4, <1>b, <3>4 DEF BeginGo, Frame, Only, BoundInv
  <2>5. CASE SaveGo(w)
    <3>1. author'.cursor \in 0 .. Len(relations) /\ author'.cursor # 1
      <4>1. Len(relations) \in Nat /\ author'.cursor = Next0(worker[w].page, worker[w].more)
        BY <2>5 DEF Base, TypeInv, SaveGo
      <4>2. /\ worker[w].page \subseteq 1 .. Len(relations)
            /\ worker[w].more => Min(worker[w].page) \in worker[w].page /\ Min(worker[w].page) > 1
        BY <1>b DEF BoundInv
      <4> QED BY <4>1, <4>2 DEF Next0
    <3> QED BY <2>5, <1>b, <3>1 DEF SaveGo, SamePage, Frame, Only, BoundInv
  <2>6. CASE AdvanceGo(w)
    BY <2>6, <1>q, <1>e, <1>b DEF AdvanceGo, Only, BoundInv
  <2> QED BY <1>3, <2>1, <2>2, <2>3, <2>4, <2>5, <2>6 DEF Progress
<1> QED BY <1>1, <1>2, <1>3, StepClasses

(* Nothing becomes known of events to come.                                *)
LEMMA KnownKept ==
  ASSUME Base, [Next]_vars PROVE KnownInv'
<1>k. KnownInv
  BY DEF Base
<1>1. CASE Calm
  BY <1>1, <1>k DEF Calm, RowsCalm, KnownInv
<1>2. ASSUME NEW f \in Followers, Change(f) PROVE KnownInv'
  <2>1. Len(log) \in Nat /\ Len(log') = Len(log) + 1
    BY <1>2, ChangeFacts DEF Base, TypeInv
  <2>2. \A t \in Tasks : t[1] \in Nat
    BY TaskFacts
  <2> QED BY <1>2, <1>k, <2>1, <2>2 DEF Change, KnownInv, Events
<1>3. CASE \E c \in Commands : Lost(c)
  BY <1>3, <1>k DEF Lost, KnownInv
<1>4. ASSUME NEW w \in Workers, Progress(w) PROVE KnownInv'
  <2>1. CASE ~AdvanceGo(w)
    <3>1. UNCHANGED <<rows, log, checkpoint>>
      BY <1>4, <2>1 DEF Progress, TimedOut, EnterGo, DecideGo, BeginGo, MarkGo, WriteGo, RecheckGo, SaveGo, Frame
    <3> QED BY <3>1, <1>k DEF KnownInv
  <2>2. CASE AdvanceGo(w)
    <3>1. worker[w].task \in Tasks /\ worker[w].task[1] <= Len(log) /\ worker[w].task[1] \in Nat
          /\ Len(log) \in Nat /\ UNCHANGED log
      BY <2>2, FollowerType, TaskFacts DEF AdvanceGo, Base, StageInv, Staged, TypeInv
    <3>2. \A t \in Tasks : t # worker[w].task => rows'[t] = rows[t]
      BY <2>2 DEF AdvanceGo
    <3>3. \A e \in Events : e # worker[w].task[1] => checkpoint'[e] = checkpoint[e]
      BY <2>2 DEF AdvanceGo
    <3>4. \A e \in Events : e > Len(log) => e # worker[w].task[1]
      BY <3>1 DEF Events
    <3> QED BY <3>1, <3>2, <3>3, <3>4, <1>k DEF KnownInv
  <2> QED BY <2>1, <2>2
<1> QED BY <1>1, <1>2, <1>3, <1>4, StepClasses

(* Rows and events stay together.                                          *)
LEMMA RelKept ==
  ASSUME Base, [Next]_vars PROVE RelInv'
<1>k. RelInv
  BY DEF Base
<1>1. CASE UNCHANGED <<relations, log>>
  BY <1>1, <1>k DEF RelInv
<1>2. ASSUME NEW f \in Followers, Change(f) PROVE RelInv'
  <2>1. PICK n \in Nat, m \in Nat, k \in Nat :
           /\ n = Len(log) /\ DOMAIN log = 1 .. n /\ DOMAIN log' = 1 .. (n + 1)
           /\ m = Len(relations) /\ DOMAIN relations = 1 .. m /\ DOMAIN relations' = 1 .. k
           /\ k \in {m, m + 1}
           /\ \A i \in 1 .. m : relations'[i].follower = relations[i].follower
           /\ k = m + 1 => relations'[k].follower = f
           /\ \A e \in 1 .. n : log'[e] = log[e]
           /\ log'[n + 1] = f
    <3>1. /\ Len(relations) \in Nat /\ Len(log) \in Nat /\ Len(relations') \in Nat
          /\ DOMAIN relations = 1 .. Len(relations) /\ DOMAIN log = 1 .. Len(log)
          /\ DOMAIN relations' = 1 .. Len(relations') /\ DOMAIN log' = 1 .. Len(log')
      BY <1>2, ChangeFacts DEF Base, TypeInv
    <3>2. /\ Len(relations') \in {Len(relations), Len(relations) + 1}
          /\ \A i \in 1 .. Len(relations) : relations'[i].follower = relations[i].follower
          /\ Len(relations') = Len(relations) + 1 => relations'[Len(relations')].follower = f
          /\ Len(log') = Len(log) + 1
          /\ \A e \in 1 .. Len(log) : log'[e] = log[e]
          /\ log'[Len(log')] = f
      BY <1>2, ChangeFacts
    <3> QED BY <3>1, <3>2
  <2>2. \A e \in 1 .. (n + 1) : e \notin 1 .. n => e = n + 1
    OBVIOUS
  <2>3. PICK j \in DOMAIN relations' : relations'[j].follower = f
    <3>1. RowsOf(f)' # {}
      BY <1>2, ChangeFacts
    <3> QED BY <3>1 DEF RowsOf
  <2>4. ASSUME NEW e \in DOMAIN log' PROVE \E i \in DOMAIN relations' : relations'[i].follower = log'[e]
    <3>1. CASE e \in DOMAIN log
      <4>1. PICK i \in DOMAIN relations : relations[i].follower = log[e]
        BY <3>1, <1>k DEF RelInv
      <4> QED BY <2>1, <2>2, <3>1, <4>1
    <3>2. CASE e \notin DOMAIN log
      <4>1. log'[e] = f
        BY <2>1, <2>2, <3>2
      <4> QED BY <2>3, <4>1
    <3> QED BY <3>1, <3>2
  <2>5. ASSUME NEW i \in DOMAIN relations' PROVE \E e \in DOMAIN log' : log'[e] = relations'[i].follower
    <3>1. CASE i \in DOMAIN relations
      <4>1. PICK e \in DOMAIN log : log[e] = relations[i].follower
        BY <3>1, <1>k DEF RelInv
      <4> QED BY <2>1, <2>2, <3>1, <4>1
    <3>2. CASE i \notin DOMAIN relations
      <4>1. relations'[i].follower = f
        BY <2>1, <2>2, <3>2
      <4>2. n + 1 \in DOMAIN log'
        BY <2>1
      <4> QED BY <2>1, <4>1, <4>2
    <3> QED BY <3>1, <3>2
  <2> QED BY <2>4, <2>5 DEF RelInv
<1>3. CASE Calm \/ \E c \in Commands : Lost(c)
  BY <1>1, <1>3 DEF Calm, Lost
<1>4. ASSUME NEW w \in Workers, Progress(w) PROVE RelInv'
  BY <1>1, <1>4 DEF Progress, TimedOut, EnterGo, DecideGo, BeginGo, MarkGo, WriteGo, RecheckGo, SaveGo, AdvanceGo, Frame
<1> QED BY <1>2, <1>3, <1>4, StepClasses

(* A stage keeps what it says of the task.                                 *)
LEMMA StageKept ==
  ASSUME Base, [Next]_vars PROVE StageInv'
<1>k. StageInv /\ \A v \in Workers : Staged(v)
  BY DEF Base, StageInv
<1>r. \A t \in Tasks : rows[t].status # "absent" => t[1] \in 1 .. Len(log)
  BY FollowerType DEF Base
<1>0. ASSUME NEW v \in Workers, worker'[v] = worker[v],
             \A t \in Tasks : rows[t].status # "absent" => rows'[t].status # "absent",
             \A e \in 1 .. Len(log) : log'[e] = log[e]
      PROVE  Staged(v)'
  BY <1>0, <1>k, <1>r DEF Staged, Follower
<1>q. ASSUME NEW v \in Workers, Quiet(worker'[v]),
             worker'[v].pc # "idle" => worker'[v].task \in Tasks /\ rows'[worker'[v].task].status # "absent"
      PROVE  Staged(v)'
  BY <1>q DEF Quiet, Staged
<1>1. CASE Calm
  BY <1>0, <1>q, <1>1 DEF StageInv, Calm, WorkersCalm, RowsCalm
<1>2. ASSUME NEW f \in Followers, Change(f) PROVE StageInv'
  BY <1>0, <1>2, ChangeFacts DEF Change, StageInv
<1>3. ASSUME NEW c \in Commands, Lost(c) PROVE StageInv'
  BY <1>0, <1>q, <1>3 DEF StageInv, Lost, WorkersCalm
<1>4. ASSUME NEW w \in Workers, Progress(w) PROVE StageInv'
  <2>w. worker[w].pc # "idle" /\ worker[w].task \in Tasks /\ rows[worker[w].task].status # "absent"
        /\ Only(w) /\ UNCHANGED log
        /\ \A t \in Tasks : rows[t].status # "absent" => rows'[t].status # "absent"
    <3>1. worker[w].pc # "idle" /\ Only(w) /\ UNCHANGED log
      BY <1>4 DEF Progress, TimedOut, EnterGo, DecideGo, BeginGo, MarkGo, WriteGo, RecheckGo, SaveGo,
                  AdvanceGo, Frame, Sends
    <3>2. \A t \in Tasks : rows[t].status # "absent" => rows'[t].status # "absent"
      BY <1>4 DEF Progress, TimedOut, EnterGo, DecideGo, BeginGo, MarkGo, WriteGo, RecheckGo, SaveGo,
                  AdvanceGo, Frame
    <3> QED BY <3>1, <3>2, <1>k DEF Staged
  <2>o. \A v \in Workers : v # w => Staged(v)'
    BY <2>w, <1>0 DEF Only
  <2>1. CASE TimedOut(w) \/ AdvanceGo(w)
    BY <2>1, <2>w, <1>q, <2>o DEF TimedOut, AdvanceGo, StageInv
  <2>2. CASE EnterGo(w) \/ DecideGo(w)
    <3>1. Staged(w)'
      BY <2>2, <2>w DEF EnterGo, DecideGo, Staged
    <3> QED BY <3>1, <2>o DEF StageInv
  <2>3. CASE BeginGo(w)
    <3>1. UNCHANGED <<rows, log>> /\ worker'[w].task = worker[w].task /\ worker'[w].pc \in {"mark", "advance"}
          /\ worker'[w].celebrity = worker[w].celebrity
      BY <2>3 DEF BeginGo, Frame
    <3>2. ASSUME worker'[w].pc = "advance" PROVE Staged(w)'
      BY <3>1, <3>2, <2>w DEF Staged
    <3>3. ASSUME worker'[w].pc = "mark" /\ Kind(worker[w].task) = "author" PROVE Staged(w)'
      <4>1. worker'[w].todo # <<>>
        <5>1. /\ Below(Len(relations), author.cursor) # {} /\ relations \in Seq(Relations)
              /\ author.cursor \in 0 .. Len(relations) /\ Len(relations) \in 0 .. Len(relations)
              /\ worker[w].celebrity \in BOOLEAN
          BY <2>w, SomethingBelow DEF Base, TypeInv, BoundInv, WorkerStates
        <5>2. worker'[w].todo = Marks(Page(Len(relations), author.cursor), worker[w].celebrity)
          BY <2>3, <3>3 DEF BeginGo
        <5> QED BY <5>1, <5>2, MarksFacts
      <4> QED BY <3>1, <3>3, <4>1, <2>w DEF Staged
    <3>4. ASSUME worker'[w].pc = "mark" /\ Kind(worker[w].task) = "pair" PROVE Staged(w)'
      <4> DEFINE entry == [follower |-> Follower(worker[w].task),
                           on |-> worker[w].celebrity /\ worker'[w].fact.active]
      <4>1. worker'[w].todo = <<entry>>
        BY <2>3, <3>4 DEF BeginGo
      <4>2. entry.follower = Follower(worker[w].task) /\ entry.on = (worker[w].celebrity /\ worker'[w].fact.active)
        OBVIOUS
      <4> HIDE DEF entry
      <4>3. worker'[w].todo # <<>> /\ Len(worker'[w].todo) = 1 /\ worker'[w].todo[1] = entry
        BY <4>1
      <4> QED BY <3>1, <3>4, <4>2, <4>3, <2>w DEF Staged, Follower
    <3>5. Kind(worker[w].task) \in {"author", "pair"}
      BY <2>w, TaskFacts
    <3>6. Staged(w)'
      BY <3>1, <3>2, <3>3, <3>4, <3>5
    <3> QED BY <3>6, <2>o DEF StageInv
  <2>4. CASE MarkGo(w)
    <3>1. Kind(worker[w].task) \in {"author", "pair"}
      BY <2>w, TaskFacts
    <3>2. worker[w].todo \in Seq(Entries) /\ worker[w].todo # <<>>
      BY <2>4, <1>k DEF Base, TypeInv, WorkerStates, MarkGo, Staged
    <3>3. Len(Tail(worker[w].todo)) = Len(worker[w].todo) - 1 /\ Tail(worker[w].todo) \in Seq(Entries)
          /\ Len(worker[w].todo) \in Nat
      BY <3>2
    <3>4. Len(worker[w].todo) = 1 => Tail(worker[w].todo) = <<>>
      <4>1. Tail(worker[w].todo) # <<>> => Len(Tail(worker[w].todo)) \in Nat \ {0}
        BY <3>3, EmptySeq
      <4> QED BY <3>3, <4>1
    <3>5. UNCHANGED <<rows, log>> /\ worker'[w].task = worker[w].task /\ worker'[w].todo = Tail(worker[w].todo)
          /\ \/ Tail(worker[w].todo) # <<>> /\ worker'[w].pc = "mark"
             \/ /\ Tail(worker[w].todo) = <<>>
                /\ worker'[w].pc = IF Kind(worker[w].task) = "author" THEN "save" ELSE "tweets"
      BY <2>4 DEF MarkGo, SamePage, Frame
    <3>6. worker'[w].pc = "mark" => Kind(worker[w].task) = "author"
      BY <2>4, <3>1, <3>4, <3>5, <1>k DEF Staged, MarkGo
    <3>7. Staged(w)'
      BY <2>w, <3>1, <3>5, <3>6 DEF Staged
    <3> QED BY <3>7, <2>o DEF StageInv
  <2>5. CASE WriteGo(w) \/ RecheckGo(w) \/ SaveGo(w)
    <3>1. Staged(w)'
      BY <2>5, <2>w, <1>k DEF WriteGo, RecheckGo, SaveGo, SamePage, Frame, Staged
    <3> QED BY <3>1, <2>o DEF StageInv
  <2> QED BY <1>4, <2>1, <2>2, <2>3, <2>4, <2>5 DEF Progress
<1> QED BY <1>1, <1>2, <1>3, <1>4, StepClasses

(* A new epoch is larger than all there are.                               *)
LEMMA EpochKept ==
  ASSUME Base, [Next]_vars PROVE EpochInv'
<1>k. EpochInv
  BY DEF Base
<1>t. /\ redis.fence \in Nat /\ author.epoch \in Nat /\ late.epoch \in Nat
      /\ \A v \in Workers : worker[v].epoch \in Nat
  BY DEF Base, TypeInv, Commands, Caches, Authors, WorkerStates
<1>n. NoCommand.epoch = 0 /\ NoCommand.kind = "none"
  BY DEF NoCommand
<1>q. \A r : Quiet(r) => r.epoch = 0 /\ r.pc \notin Busy
  BY DEF Quiet, Busy, Past
<1>1. CASE Calm
  BY <1>1, <1>k, <1>t, <1>n, <1>q DEF Calm, CacheCalm, WorkersCalm, EpochInv
<1>2. ASSUME NEW f \in Followers, Change(f) PROVE EpochInv'
  BY <1>2, <1>k DEF Change, EpochInv
<1>3. ASSUME NEW c \in Commands, Lost(c) PROVE EpochInv'
  <2>1. redis'.fence <= author.epoch
    BY <1>3, <1>k, <1>t, LostFacts DEF EpochInv
  <2> QED BY <1>3, <1>k, <1>t, <1>n, <1>q, <2>1 DEF Lost, WorkersCalm, EpochInv
<1>4. ASSUME NEW w \in Workers, Progress(w) PROVE EpochInv'
  <2>1. CASE TimedOut(w)
    <3>1. late'.epoch = worker[w].epoch /\ worker[w].pc \in Busy
      BY <2>1, CommandFacts DEF TimedOut, Base, Sends, Busy, Past
    <3> QED BY <2>1, <3>1, <1>k, <1>t, <1>q DEF TimedOut, Only, EpochInv
  <2>2. CASE EnterGo(w)
    BY <2>2, <1>k DEF EnterGo, Frame, Only, EpochInv, Busy, Past
  <2>3. CASE DecideGo(w)
    BY <2>3, <1>k, <1>t DEF DecideGo, Frame, Only, EpochInv
  <2>4. CASE BeginGo(w)
    BY <2>4, <1>k, <1>t DEF BeginGo, Frame, Only, EpochInv, Busy, Past
  <2>5. CASE MarkGo(w) \/ WriteGo(w)
    BY <2>5, <1>k, <1>t DEF MarkGo, WriteGo, SamePage, Frame, Only, EpochInv, Busy, Past
  <2>6. CASE RecheckGo(w) \/ SaveGo(w)
    BY <2>6, <1>k, <1>t DEF RecheckGo, SaveGo, SamePage, Frame, Only, EpochInv, Busy, Past
  <2>7. CASE AdvanceGo(w)
    BY <2>7, <1>k, <1>t, <1>q DEF AdvanceGo, Only, EpochInv
  <2> QED BY <1>4, <2>1, <2>2, <2>3, <2>4, <2>5, <2>6, <2>7 DEF Progress
<1> QED BY <1>1, <1>2, <1>3, <1>4, StepClasses

(* The holder of the lock stays the only one that Redis listens to.        *)
LEMMA LockKept ==
  ASSUME Base, [Next]_vars PROVE LockInv'
<1>k. LockInv /\ EpochInv /\ lock \in Workers \cup {NoWorker} /\ NoWorker \notin Workers
  BY OutboxAssumption DEF Base, TypeInv
<1>t. /\ redis.fence \in Nat /\ author.epoch \in Nat
      /\ \A v \in Workers : worker[v].epoch \in Nat
  BY DEF Base, TypeInv, Caches, Authors, WorkerStates
<1>p. Past \subseteq Busy /\ "decide" \notin Busy /\ "begin" \notin Past
  BY DEF Busy, Past
<1>1. CASE Calm
  BY <1>1, <1>k DEF Calm, CacheCalm, WorkersCalm, LockInv
<1>2. ASSUME NEW f \in Followers, Change(f) PROVE LockInv'
  BY <1>2, <1>k DEF Change, LockInv
<1>3. ASSUME NEW c \in Commands, Lost(c) PROVE LockInv'
  <2>1. \A v \in Workers : lock = v => worker[v].pc \notin Past
    BY <1>3, LostFacts
  <2> QED BY <1>3, <1>k, <2>1 DEF Lost, WorkersCalm, LockInv
<1>4. ASSUME NEW w \in Workers, Progress(w) PROVE LockInv'
  <2>1. CASE TimedOut(w)
    BY <2>1, <1>k DEF TimedOut, Only, LockInv
  <2>2. CASE EnterGo(w)
    BY <2>2, <1>k, <1>p DEF EnterGo, LockInv
  <2>3. CASE DecideGo(w)
    BY <2>3, <1>k, <1>p, <1>t DEF DecideGo, LockInv, Busy
  <2>4. CASE BeginGo(w)
    BY <2>4, <1>k, <1>t DEF BeginGo, LockInv, Busy, Past
  <2>5. CASE MarkGo(w)
    <3>1. CASE lock = w
      BY <2>5, <3>1, <1>k DEF MarkGo, SamePage, LockInv, Busy, Past
    <3>2. CASE lock # w
      BY <2>5, <3>2, <1>k DEF MarkGo, Only, LockInv
    <3> QED BY <3>1, <3>2
  <2>6. CASE WriteGo(w)
    <3>1. CASE lock = w
      BY <2>6, <3>1, <1>k DEF WriteGo, SamePage, LockInv, Busy, Past
    <3>2. CASE lock # w
      BY <2>6, <3>2, <1>k DEF WriteGo, Only, LockInv
    <3> QED BY <3>1, <3>2
  <2>7. CASE RecheckGo(w) \/ SaveGo(w)
    BY <2>7, <1>k DEF RecheckGo, SaveGo, SamePage, LockInv, Busy, Past
  <2>8. CASE AdvanceGo(w)
    BY <2>8, <1>k DEF AdvanceGo, LockInv
  <2> QED BY <1>4, <2>1, <2>2, <2>3, <2>4, <2>5, <2>6, <2>7, <2>8 DEF Progress
<1> QED BY <1>1, <1>2, <1>3, <1>4, StepClasses

(* No event is registered twice.                                           *)
LEMMA IngressKept ==
  ASSUME Base, [Next]_vars PROVE IngressInv'
<1>k. IngressInv
  BY DEF Base
<1>m. MaxFaults \in Nat /\ Len(log) \in Nat
  BY ProjectionAssumption DEF Base, TypeInv
<1>f. Faulty \/ UNCHANGED faults => faults' \in 0 .. MaxFaults
  BY <1>k, <1>m DEF Faulty, IngressInv
<1>1. ASSUME UNCHANGED <<messages, receipts, log>>, Faulty \/ UNCHANGED faults PROVE IngressInv'
  BY <1>1, <1>k, <1>f DEF IngressInv
<1>2. CASE UNCHANGED vars
  BY <1>2, <1>1 DEF vars
<1>3. ASSUME NEW f \in Followers, Change(f) PROVE IngressInv'
  <2>1. Len(log') = Len(log) + 1
    BY <1>3, ChangeFacts
  <2>2. messages' = Append(messages, "queued") /\ UNCHANGED <<receipts, faults>>
    BY <1>3 DEF Change
  <2>3. messages' \in Seq({"queued", "acked", "dead"}) /\ Len(messages') = Len(log')
    BY <1>k, <2>1, <2>2 DEF IngressInv
  <2>4. \A i \in DOMAIN receipts : receipts[i] \in 1 .. Len(log')
    BY <1>k, <1>m, <2>1 DEF IngressInv
  <2> QED BY <1>k, <2>2, <2>3, <2>4 DEF IngressInv
<1>4. ASSUME NEW e \in Events, NEW s \in {"acked", "dead"}, e \in DOMAIN messages,
             messages' = [messages EXCEPT ![e] = s]
      PROVE  messages' \in Seq({"queued", "acked", "dead"}) /\ Len(messages') = Len(messages)
  BY <1>4, <1>k, ExceptSeq DEF IngressInv
<1>5. ASSUME NEW e \in Events, Handle(e) PROVE IngressInv'
  <2>1. e \in 1 .. Len(log) /\ UNCHANGED log
    BY <1>5, <1>k DEF Handle, IngressInv, store
  <2>2. messages' \in Seq({"queued", "acked", "dead"}) /\ Len(messages') = Len(log)
    BY <1>4, <1>5, <1>k DEF Handle, IngressInv
  <2>3. faults' \in 0 .. MaxFaults
    BY <1>5, <1>f DEF Handle
  <2>4. /\ receipts' \in Seq(Nat) /\ (\A i \in DOMAIN receipts' : receipts'[i] \in 1 .. Len(log))
        /\ \A i, j \in DOMAIN receipts' : receipts'[i] = receipts'[j] => i = j
    <3>1. CASE UNCHANGED receipts
      BY <3>1, <1>k DEF IngressInv
    <3>2. CASE receipts' = Append(receipts, e) /\ ~\E i \in DOMAIN receipts : receipts[i] = e
      <4>1. receipts \in Seq(Nat) /\ e \in Nat
        BY <1>k, <2>1 DEF IngressInv
      <4> DEFINE n == Len(receipts)
      <4>2. /\ n \in Nat /\ DOMAIN receipts = 1 .. n /\ receipts' \in Seq(Nat) /\ DOMAIN receipts' = 1 .. (n + 1)
            /\ receipts'[n + 1] = e /\ \A i \in 1 .. n : receipts'[i] = receipts[i]
        BY <3>2, <4>1
      <4> HIDE DEF n
      <4>3. \A i \in 1 .. (n + 1) : i \in 1 .. n \/ i = n + 1
        BY <4>2
      <4> QED BY <1>k, <2>1, <3>2, <4>2, <4>3 DEF IngressInv
    <3> QED BY <1>5, <3>1, <3>2 DEF Handle
  <2> QED BY <2>1, <2>2, <2>3, <2>4 DEF IngressInv
<1>6. ASSUME NEW e \in Events, RouteFailure(e) PROVE IngressInv'
  <2>1. messages' \in Seq({"queued", "acked", "dead"}) /\ Len(messages') = Len(messages)
    BY <1>4, <1>6 DEF RouteFailure
  <2> QED BY <1>6, <1>f, <1>k, <2>1 DEF RouteFailure, store, IngressInv
<1>7. ASSUME NEW w \in Workers, Step(w) PROVE IngressInv'
  BY <1>1, <1>7 DEF Step, Enter, Decide, BeginAuthor, BeginPair, Mark, WriteTweets, Send, Recheck,
         AdvancePair, Save, AdvanceAuthor, GiveBack, store, ingress
<1>8. ASSUME NEW w \in Workers, Stumble(w) \/ TimeOut(w) \/ LoseLock(w) PROVE IngressInv'
  BY <1>1, <1>8 DEF Stumble, TimeOut, LoseLock, store, ingress
<1>9. ASSUME NEW w \in Workers, NEW t \in Tasks, ClaimTask(w, t) PROVE IngressInv'
  BY <1>1, <1>9 DEF ClaimTask, store, ingress
<1>10. ASSUME NEW t \in Tasks, Lapse(t) \/ Recover(t) PROVE IngressInv'
  BY <1>1, <1>10 DEF Lapse, Recover, store, ingress
<1>11. CASE Land
  BY <1>1, <1>11 DEF Land, store, ingress
<1>12. ASSUME NEW f \in Followers, NEW k \in 0 .. Capacity - 1, Evict(f, k) PROVE IngressInv'
  BY <1>1, <1>12 DEF Evict, store, ingress
<1> QED BY <1>2, <1>3, <1>5, <1>6, <1>7, <1>8, <1>9, <1>10, <1>11, <1>12 DEF Next

(* Base holds before anything has happened.                                *)
LEMMA BaseInit == Init => Base
<1> SUFFICES ASSUME Init PROVE Base
  OBVIOUS
<1>1. TableInv
  BY OutboxAssumption DEF Init, TableInv, RowsInv, WorkInv, Rows, NoRow, Resting
<1>2. NewCheckpoint \in Checkpoints /\ ~NewCheckpoint.initialized
  BY ProjectionAssumption DEF NewCheckpoint, Checkpoints
<1>3. NoCommand \in Commands /\ NoCommand.epoch = 0 /\ NoCommand.kind = "none"
  BY DEF NoCommand, Commands
<1>4. redis \in Caches /\ redis.fence = 0 /\ author \in Authors /\ author.epoch = 0 /\ author.cursor = 0
  <2>1. Roomy({}) /\ {} \in Timelines
    BY DEF Roomy, Newest, Timelines
  <2>2. PICK c \in BOOLEAN :
          redis = [fence |-> 0, celebrity |-> c, marked |-> {}, timeline |-> {}, evicted |-> {}]
    BY DEF Init
  <2>3. /\ redis \in [fence : Nat, celebrity : BOOLEAN, marked : SUBSET Followers,
                     timeline : Timelines, evicted : Timelines]
        /\ redis.timeline = {} /\ redis.fence = 0
    BY <2>1, <2>2
  <2>4. redis \in Caches
    BY <2>1, <2>3 DEF Caches
  <2> QED BY <2>3, <2>4 DEF Init, Authors
<1>5. \A w \in Workers : worker[w] = Resting
  BY DEF Init
<1>e. <<>> \in Seq(Relations) /\ <<>> \in Seq(Followers) /\ <<>> \in Seq({"queued", "acked", "dead"})
      /\ <<>> \in Seq(Nat) /\ Len(<<>>) = 0 /\ DOMAIN <<>> = {}
  OBVIOUS
<1>6. TypeInv
  BY <1>2, <1>3, <1>4, <1>e, RestingType, ProjectionAssumption DEF Init, TypeInv
<1>7. BoundInv
  <2>1. Cardinality({}) <= PageSize
    BY FS_EmptySet, ProjectionAssumption
  <2>2. relations = <<>> /\ 0 \in 0 .. Len(relations)
    BY <1>e DEF Init
  <2>3. \A w \in Workers : worker[w].page = {} /\ ~worker[w].more
    BY <1>5, RestingType
  <2>4. author.cursor \in 0 .. Len(relations) /\ author.cursor # 1
    BY <1>4, <2>2
  <2>5. ASSUME NEW w \in Workers
        PROVE  /\ worker[w].page \subseteq 1 .. Len(relations)
               /\ Cardinality(worker[w].page) <= PageSize
               /\ ~worker[w].more
    <3>1. {} \subseteq 1 .. Len(relations)
      OBVIOUS
    <3> QED BY <2>1, <2>3, <3>1
  <2> QED BY <2>4, <2>5 DEF BoundInv
<1>8. StageInv
  BY <1>5, RestingType DEF StageInv, Staged
<1>9. KnownInv
  BY <1>2 DEF Init, KnownInv, NoRow
<1>10. RelInv /\ IngressInv
  BY <1>e, ProjectionAssumption DEF Init, RelInv, IngressInv
<1>11. EpochInv
  BY <1>3, <1>4, <1>5, RestingType DEF Init, EpochInv, Busy, Past
<1>12. LockInv
  BY OutboxAssumption DEF Init, LockInv
<1> QED BY <1>1, <1>6, <1>7, <1>8, <1>9, <1>10, <1>11, <1>12 DEF Base

(* Base is inductive.                                                      *)
LEMMA BaseKept == Base /\ [Next]_vars => Base'
<1> SUFFICES ASSUME Base, [Next]_vars PROVE Base'
  OBVIOUS
<1>1. TableInv'
  BY StepsAreRowSteps, RowStepKeepsRows DEF TableInv, Base
<1> QED BY <1>1, TypeKept, BoundKept, StageKept, KnownKept, RelKept, IngressKept, EpochKept, LockKept DEF Base

(* The state the program keeps is well formed and stays within its bounds. *)
THEOREM BaseInvariant == Spec => []Base
BY BaseInit, BaseKept, PTL DEF Spec

(* Types and bounds: no command or fence has an epoch beyond the author's, *)
(* pages and cursors stay within their tables, no event is registered      *)
(* twice, and no timeline holds more entries than it has room for.         *)
THEOREM TypeCorrect == Spec => []TypeOK
<1>1. Base => TypeOK
  <2> SUFFICES ASSUME Base PROVE TypeOK
    OBVIOUS
  <2>1. rows \in [Tasks -> Rows]
    BY DEF Base, TableInv, RowsInv
  <2>2. \A i \in DOMAIN relations : relations[i] \in [follower : Followers, live : BOOLEAN]
    <3>1. relations \in Seq(Relations)
      BY DEF Base, TypeInv
    <3>2. \A i \in DOMAIN relations : relations[i] \in Relations
      BY <3>1
    <3> QED BY <3>2 DEF Relations
  <2>3. Len(messages) = Len(log) /\ faults \in 0 .. MaxFaults
    BY DEF Base, IngressInv
  <2>4. Len(receipts) <= Len(log)
    <3> DEFINE S == 1 .. Len(receipts)
               T == 1 .. Len(log)
    <3>1. /\ Len(receipts) \in Nat /\ Len(log) \in Nat /\ DOMAIN receipts = S
          /\ receipts \in [S -> T] /\ \A i, j \in S : receipts[i] = receipts[j] => i = j
      <4>1. receipts \in Seq(Nat) /\ Len(log) \in Nat
        BY DEF Base, TypeInv, IngressInv
      <4>2. DOMAIN receipts = S /\ receipts \in [S -> Nat]
        BY <4>1
      <4>3. \A i \in S : receipts[i] \in T
        BY <4>2 DEF Base, IngressInv
      <4>4. \A i, j \in S : receipts[i] = receipts[j] => i = j
        BY <4>2 DEF Base, IngressInv
      <4> QED BY <4>1, <4>2, <4>3, <4>4
    <3>2. /\ IsFiniteSet(T) /\ Cardinality(T) = Len(log)
          /\ IsFiniteSet(S) /\ Cardinality(S) = Len(receipts)
      <4>1. ASSUME NEW n \in Nat PROVE IsFiniteSet(1 .. n) /\ Cardinality(1 .. n) = n
        <5>1. 1 \in Int /\ n \in Int
          OBVIOUS
        <5>2. IsFiniteSet(1 .. n) /\ Cardinality(1 .. n) = IF 1 > n THEN 0 ELSE n - 1 + 1
          BY <5>1, FS_Interval
        <5> QED BY <5>2
      <4> QED BY <3>1, <4>1
    <3> HIDE DEF S, T
    <3>3. receipts \in Injection(S, T)
      BY <3>1 DEF Injection, IsInjective
    <3>4. Cardinality(S) <= Cardinality(T)
      BY <3>2, <3>3, FS_Injection DEF ExistsInjection
    <3> QED BY <3>2, <3>4
  <2>5. author.epoch \in Nat /\ author.cursor \in 0 .. Len(relations)
    BY DEF Base, TypeInv, Authors, BoundInv
  <2>6. /\ redis.fence <= author.epoch /\ redis.marked \subseteq Followers
        /\ Written \subseteq Followers \X (1 .. Tweets)
        /\ Newest(redis.timeline, Followers, Capacity) = redis.timeline
    BY DEF Base, TypeInv, Caches, Timelines, Roomy, Written, EpochInv
  <2>7. /\ late \in Commands /\ late.epoch <= author.epoch /\ lock \in Workers \cup {NoWorker}
    BY DEF Base, TypeInv, EpochInv
  <2>8. \A w \in Workers : worker[w].epoch <= author.epoch /\ Cardinality(worker[w].page) <= PageSize
    BY DEF Base, EpochInv, BoundInv
  <2> QED BY <2>1, <2>2, <2>3, <2>4, <2>5, <2>6, <2>7, <2>8 DEF TypeOK
<1> QED BY <1>1, BaseInvariant, PTL
=============================================================================
