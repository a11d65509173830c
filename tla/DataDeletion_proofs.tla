------------------------- MODULE DataDeletion_proofs -------------------------
(***************************************************************************)
(* What DataDeletion promises, for any number of requests, stores, workers *)
(* and writes.  The invariant IInv says, part by part: a worker whose      *)
(* revision is still the request's executes the stage after the checkpoint *)
(* (ReadInv), so a commit advances it by one; no pinned write is in flight *)
(* behind the fence, and no stage but the first is reached without the     *)
(* fence (FenceInv), so what a stage found empty gets only writes that do  *)
(* not pin; tokens are drawn once (TokenInv), so the subject's lease is    *)
(* that of one worker, and a worker whose lease is live sees no hold       *)
(* (LeaseInv); a running preflight is of a request whose execution has not *)
(* begun (CheckpointInv).                                                  *)
(*                                                                         *)
(* The first half of the module says what each action does to the worker,  *)
(* the request and the subject; the second half has one step per group of  *)
(* actions (Turns) for each part of the invariant.                         *)
(***************************************************************************)
EXTENDS DataDeletion, TLAPS

Phases == {"idle", "preflight", "preview", "acquire", "claim", "govern", "act",
           "destroy", "record", "observe", "complete", "release"}
WorkerRecords ==
    [pc : Phases, request : Requests \cup {NoRequest}, token : Nat, revision : Nat,
     stage : 1 .. Last, gov : Nat, seen : 0 .. Stores, ok : BOOLEAN]
Statuses == {"none", "requested", "preflight_running", "blocked", "preview_ready",
             "cancelled", "completed"}
RequestRecords ==
    [status : Statuses, supported : BOOLEAN, lease : Nat, done : 0 .. Last, running : Nat,
     started : BOOLEAN, revision : Nat]
SubjectRecords ==
    [hold : {"none", "active", "lapsed"}, revision : Nat, token : Nat,
     fence : Requests \cup {NoRequest}, active : SUBSET Writes]
Contents == SUBSET (Writes \cup {Old})
OperationRecords == [status : {"none", "running", "completed"}, by : Nat, live : BOOLEAN]

(* The type invariant, with names for its records                          *)
LEMMA Types ==
  TypeOK <=> /\ subject \in SubjectRecords
             /\ request \in [Requests -> RequestRecords]
             /\ op \in [Requests -> [Store -> OperationRecords]]
             /\ data \in [Store -> Contents]
             /\ write \in [Writes -> {"new", "pinned", "confirmed", "unsure", "over"}]
             /\ claims \in Nat /\ expired \subseteq 1 .. claims
             /\ worker \in [Workers -> WorkerRecords]
BY Zenon DEF TypeOK, SubjectRecords, RequestRecords, Statuses, Contents, OperationRecords, WorkerRecords, Phases

-----------------------------------------------------------------------------
(* What an action does to the worker that takes it                         *)

Moves(w) ==
    /\ worker' \in [Workers -> WorkerRecords]
    /\ \A v \in Workers \ {w} : worker'[v] = worker[v]

Keeps(w) ==
    /\ worker'[w].request = worker[w].request
    /\ worker'[w].token = worker[w].token
    /\ worker'[w].stage = worker[w].stage

(* A worker whose record is replaced is the only one that moves.           *)
LEMMA SetMoves ==
  ASSUME TypeOK, NEW w \in Workers, NEW k \in WorkerRecords, worker' = [worker EXCEPT ![w] = k]
  PROVE  Moves(w) /\ worker'[w] = k
BY Types DEF Moves

(* Goto changes the place only.                                            *)
LEMMA GotoMoves ==
  ASSUME TypeOK, NEW w \in Workers, NEW pc \in Phases, Goto(w, pc)
  PROVE  /\ Moves(w) /\ Keeps(w) /\ worker'[w].revision = worker[w].revision
         /\ worker'[w].pc = pc /\ worker'[w].ok = worker[w].ok
<1> DEFINE k == [worker[w] EXCEPT !.pc = pc]
<1>1. worker[w] \in WorkerRecords
  BY Types
<1>2. worker' = [worker EXCEPT ![w] = k]
  BY DEF Goto
<1>3. /\ k \in WorkerRecords /\ k.pc = pc /\ k.ok = worker[w].ok
      /\ k.request = worker[w].request /\ k.token = worker[w].token /\ k.stage = worker[w].stage
      /\ k.revision = worker[w].revision
  BY <1>1 DEF WorkerRecords
<1> HIDE DEF k
<1> QED BY <1>2, <1>3, SetMoves DEF Keeps

(* A place and an outcome are set together; the claim stays the same.      *)
LEMMA EndMoves ==
  ASSUME TypeOK, NEW w \in Workers, NEW ok \in BOOLEAN, NEW pc \in Phases,
         worker' = [worker EXCEPT ![w].pc = pc, ![w].ok = ok]
  PROVE  /\ Moves(w) /\ Keeps(w) /\ worker'[w].revision = worker[w].revision
         /\ worker'[w].pc = pc /\ worker'[w].ok = ok
<1> DEFINE k == [worker[w] EXCEPT !.pc = pc, !.ok = ok]
<1>1. worker[w] \in WorkerRecords
  BY Types
<1>2. worker' = [worker EXCEPT ![w] = k]
  BY Types
<1>3. /\ k \in WorkerRecords /\ k.pc = pc /\ k.ok = ok
      /\ k.request = worker[w].request /\ k.token = worker[w].token /\ k.stage = worker[w].stage
      /\ k.revision = worker[w].revision
  BY <1>1 DEF WorkerRecords
<1> HIDE DEF k
<1> QED BY <1>2, <1>3, SetMoves DEF Keeps

(* The record of a worker at rest has the right type.                      *)
LEMMA RestingType == Resting \in WorkerRecords
BY DeletionAssumption DEF Resting, WorkerRecords, Phases, Last

(* A worker that leaves is idle and at the first stage.                    *)
LEMMA RestMoves ==
  ASSUME TypeOK, NEW w \in Workers, worker' = [worker EXCEPT ![w] = Resting]
  PROVE  Moves(w) /\ worker'[w].pc = "idle" /\ worker'[w].stage = 1
<1>2. Resting.pc = "idle" /\ Resting.stage = 1
  BY DEF Resting
<1> QED BY <1>2, RestingType, SetMoves

Drawn(k, pc, r, t, n, s) ==
    [k EXCEPT !.pc = pc, !.request = r, !.token = t, !.revision = n, !.stage = s]

(* The record of a worker that claims, field by field.                     *)
LEMMA DrawnFields ==
  ASSUME NEW k \in WorkerRecords, NEW pc \in Phases, NEW r \in Requests \cup {NoRequest},
         NEW t \in Nat, NEW n \in Nat, NEW s \in 1 .. Last
  PROVE  /\ Drawn(k, pc, r, t, n, s) \in WorkerRecords
         /\ Drawn(k, pc, r, t, n, s).pc = pc
         /\ Drawn(k, pc, r, t, n, s).request = r
         /\ Drawn(k, pc, r, t, n, s).token = t
         /\ Drawn(k, pc, r, t, n, s).revision = n
         /\ Drawn(k, pc, r, t, n, s).stage = s
BY DEF Drawn, WorkerRecords

(* A claim draws a token beyond all others.                                *)
LEMMA DrawMoves ==
  ASSUME TypeOK, NEW w \in Workers, NEW r \in Requests, NEW pc \in Phases, NEW s \in 1 .. Last,
         Draws(w, r, pc, s)
  PROVE  /\ claims' = claims + 1 /\ Moves(w)
         /\ worker'[w].pc = pc /\ worker'[w].request = r /\ worker'[w].token = claims + 1
         /\ worker'[w].revision = request[r].revision /\ worker'[w].stage = s
<1> DEFINE k == Drawn(Resting, pc, r, claims + 1, request[r].revision, s)
<1>1. claims + 1 \in Nat /\ request[r].revision \in Nat /\ Resting \in WorkerRecords
  BY Types, RestingType DEF RequestRecords
<1>2. /\ k \in WorkerRecords
      /\ k.pc = pc /\ k.request = r /\ k.token = claims + 1
      /\ k.revision = request[r].revision /\ k.stage = s
  BY <1>1, DrawnFields
<1>3. worker' = [worker EXCEPT ![w] = k] /\ claims' = claims + 1
  BY DEF Draws, Drawn
<1> HIDE DEF k
<1> QED BY <1>2, <1>3, SetMoves

Executing == {"govern", "act", "destroy", "record", "observe"}

ExecStep(w) ==
    \/ Govern(w) \/ EnforceFence(w) \/ DeleteOwned(w) \/ ClaimOperation(w) \/ Destroy(w)
    \/ RecordOperation(w) \/ Observe(w) \/ VerifyStore(w) \/ Finalize(w)

(* What the stage had to do has been done.                                 *)
Proved(w) ==
    /\ worker[w].stage = 1 => subject.fence # NoRequest
    /\ Target(w) \in Store => Erased(Target(w))

Fenced ==
    /\ subject' \in SubjectRecords
    /\ subject'.hold = subject.hold /\ subject'.token = subject.token
    /\ subject'.active = subject.active /\ subject'.revision = subject.revision
    /\ subject'.fence # subject.fence => subject.active = {} /\ subject'.fence # NoRequest

Within(w) ==
    /\ Moves(w) /\ Keeps(w) /\ worker'[w].revision = worker[w].revision
    /\ worker'[w].pc \in Executing \cup {"complete"}

(* A failed stage goes to its completion as failed.                        *)
LEMMA FailsMoves ==
  ASSUME TypeOK, NEW w \in Workers, Fails(w) PROVE Within(w) /\ worker'[w].pc = "complete" /\ ~worker'[w].ok
<1>1. "complete" \in Phases /\ worker' = [worker EXCEPT ![w].pc = "complete", ![w].ok = FALSE]
  BY DEF Phases, Fails
<1> QED BY <1>1, EndMoves DEF Within

(* A successful stage goes to its completion under a live lease.           *)
LEMMA SucceedsMoves ==
  ASSUME TypeOK, NEW w \in Workers, Succeeds(w) PROVE Within(w) /\ worker'[w].pc = "complete" /\ Live(Token(w))
<1>1. "complete" \in Phases /\ worker' = [worker EXCEPT ![w].pc = "complete", ![w].ok = TRUE]
  BY DEF Phases, Succeeds
<1> QED BY <1>1, EndMoves DEF Within, Succeeds

(* The steps in between stay within the stage.                             *)
LEMMA GoesMoves ==
  ASSUME TypeOK, NEW w \in Workers, NEW pc \in Executing, Goto(w, pc)
  PROVE  Within(w) /\ worker'[w].pc = pc
<1>1. pc \in Phases
  BY DEF Phases, Executing
<1> QED BY <1>1, GotoMoves DEF Within

(* What is put in the operation journal is an operation record.            *)
LEMMA RecordsType ==
  ASSUME TypeOK, NEW w \in Workers, NEW status \in {"running", "completed"}, Records(w, status)
  PROVE  op' \in [Requests -> [Store -> OperationRecords]]
<1> DEFINE rec == [status |-> status, by |-> Token(w), live |-> status = "running"]
<1>1. rec \in OperationRecords
  BY Types DEF OperationRecords, WorkerRecords, Token
<1>2. op' = [op EXCEPT ![worker[w].request][Target(w)] = rec]
  BY DEF Records
<1> HIDE DEF rec
<1> QED BY <1>1, <1>2, Types

(* A worker at a store's operation executes the stage of that store.       *)
AtStore(w) == worker[w].pc \in {"destroy", "record", "observe"} => worker[w].stage # 1

(* A step of the execution of a stage: the request is not touched, data is *)
(* only removed, the fence is only set, and when no write is in flight; a  *)
(* stage that ends well has done what it had to do.                        *)
LEMMA ExecSteps ==
  ASSUME TypeOK, NEW w \in Workers, worker[w].request \in Requests, AtStore(w), ExecStep(w)
  PROVE  /\ worker[w].pc \in Executing
         /\ AtStore(w)'
         /\ UNCHANGED <<request, write, claims, expired>>
         /\ Within(w) /\ Fenced
         /\ op' \in [Requests -> [Store -> OperationRecords]]
         /\ data' \in [Store -> Contents] /\ \A s \in Store : data'[s] \subseteq data[s]
         /\ worker'[w].pc = "complete" /\ worker'[w].ok => Proved(w)'
         /\ \A s \in Store : ~(data[s] \subseteq data'[s]) =>
               subject.hold # "active" \/ (At(w, "destroy") /\ Target(w) = s)
<1> USE DEF Executing, At, AtStore
<1>0. /\ worker[w] \in WorkerRecords /\ subject \in SubjectRecords /\ data \in [Store -> Contents]
      /\ op \in [Requests -> [Store -> OperationRecords]]
  BY Types
<1>f. UNCHANGED subject => Fenced
  BY <1>0 DEF Fenced
<1>p. /\ Within(w) => Target(w)' = Target(w) /\ worker'[w].stage = worker[w].stage
      /\ worker[w].stage \in 1 .. Last /\ Stores \in Nat
  BY <1>0, DeletionAssumption DEF Within, Keeps, Target, WorkerRecords
<1>1. CASE Govern(w)
  <2>1. Fails(w) \/ worker' = [worker EXCEPT ![w].pc = "act", ![w].gov = subject.revision]
    BY <1>1 DEF Govern
  <2>2. ASSUME worker' = [worker EXCEPT ![w].pc = "act", ![w].gov = subject.revision]
        PROVE  Within(w) /\ worker'[w].pc = "act"
    <3> DEFINE k == [worker[w] EXCEPT !.pc = "act", !.gov = subject.revision]
    <3>1. worker' = [worker EXCEPT ![w] = k]
      BY <2>2, Types
    <3>2. subject.revision \in Nat /\ "act" \in Phases
      BY <1>0 DEF SubjectRecords, Phases
    <3>3. /\ k \in WorkerRecords /\ k.pc = "act"
          /\ k.request = worker[w].request /\ k.token = worker[w].token
          /\ k.stage = worker[w].stage /\ k.revision = worker[w].revision
      BY <1>0, <3>2 DEF WorkerRecords
    <3> HIDE DEF k
    <3> QED BY <3>1, <3>3, SetMoves DEF Within, Keeps
  <2> QED BY <1>0, <1>f, <1>1, <2>1, <2>2, FailsMoves DEF Govern
<1>2. CASE EnforceFence(w)
  <2>1. \/ Fails(w) /\ UNCHANGED subject
        \/ /\ subject.active = {} /\ subject' = [subject EXCEPT !.fence = worker[w].request]
           /\ Succeeds(w) \/ Fails(w)
    BY <1>2 DEF EnforceFence
  <2>2. ASSUME subject.active = {}, subject' = [subject EXCEPT !.fence = worker[w].request]
        PROVE  Fenced /\ subject'.fence # NoRequest
    BY <1>0, <2>2, DeletionAssumption DEF Fenced, SubjectRecords
  <2>3. worker[w].stage = 1 /\ UNCHANGED <<request, op, data, write, claims, expired>> /\ At(w, "act")
    BY <1>2 DEF EnforceFence
  <2>4. ASSUME Within(w) PROVE Target(w)' \notin Store
    BY <1>p, <2>3, <2>4 DEF Target, Store
  <2> QED BY <1>0, <1>f, <1>p, <2>1, <2>2, <2>3, <2>4, FailsMoves, SucceedsMoves DEF Proved
<1>3. CASE DeleteOwned(w)
  <2>1. /\ At(w, "act") /\ UNCHANGED <<subject, request, write, claims, expired>>
        /\ Goto(w, "observe") \/ Fails(w)
        /\ \/ UNCHANGED <<op, data>>
           \/ /\ Records(w, "completed") /\ data' = [data EXCEPT ![Target(w)] = {}]
              /\ subject.hold # "active"
    BY <1>3 DEF DeleteOwned, Current
  <2>2. op' \in [Requests -> [Store -> OperationRecords]]
    BY <1>0, <2>1, RecordsType
  <2>3. /\ data' \in [Store -> Contents] /\ \A s \in Store : data'[s] \subseteq data[s]
        /\ \A s \in Store : ~(data[s] \subseteq data'[s]) => subject.hold # "active"
    BY <1>0, <2>1 DEF Contents
  <2>4. worker[w].stage # 1
    BY <1>3, <1>p DEF DeleteOwned, Target, Store
  <2> QED BY <1>f, <1>p, <2>1, <2>2, <2>3, <2>4, FailsMoves, GoesMoves
<1>4. CASE ClaimOperation(w)
  <2>1. /\ At(w, "act") /\ UNCHANGED <<subject, request, data, write, claims, expired>>
        /\ Goto(w, "observe") \/ Goto(w, "destroy") \/ Fails(w)
        /\ UNCHANGED op \/ Records(w, "running")
    BY <1>4 DEF ClaimOperation
  <2>2. op' \in [Requests -> [Store -> OperationRecords]]
    BY <1>0, <2>1, RecordsType
  <2>3. Goto(w, "observe") \/ Goto(w, "destroy") => worker[w].stage # 1
    <3>1. Goto(w, "observe") \/ Goto(w, "destroy") => Target(w) \in External
      BY <1>4 DEF ClaimOperation
    <3> QED BY <1>p, <3>1, DeletionAssumption DEF Target
  <2> QED BY <1>0, <1>f, <1>p, <2>1, <2>2, <2>3, FailsMoves, GoesMoves
<1>5. CASE Destroy(w)
  <2> DEFINE ok == Held(Operation(w))
             Noted == worker' = [worker EXCEPT ![w].pc = "record", ![w].ok = ok]
  <2>1. /\ At(w, "destroy") /\ UNCHANGED <<subject, request, op, write, claims, expired>>
        /\ Noted \/ Fails(w)
        /\ UNCHANGED data \/ data' = [data EXCEPT ![Target(w)] = {}]
    BY <1>5 DEF Destroy
  <2>3. ok \in BOOLEAN /\ "record" \in Phases
    BY DEF Held, Phases
  <2> HIDE DEF ok
  <2>4. Noted => Within(w) /\ worker'[w].pc = "record"
    BY <2>3, EndMoves DEF Within
  <2> HIDE DEF Noted
  <2>2. /\ data' \in [Store -> Contents] /\ \A s \in Store : data'[s] \subseteq data[s]
        /\ \A s \in Store : ~(data[s] \subseteq data'[s]) => Target(w) = s
    BY <1>0, <2>1 DEF Contents
  <2> QED BY <1>0, <1>f, <1>p, <2>1, <2>2, <2>4, FailsMoves
<1>6. CASE RecordOperation(w)
  <2>1. /\ At(w, "record") /\ UNCHANGED <<subject, request, data, write, claims, expired>>
        /\ Goto(w, "observe") \/ Fails(w)
        /\ UNCHANGED op \/ Records(w, "completed")
    BY <1>6 DEF RecordOperation
  <2>2. op' \in [Requests -> [Store -> OperationRecords]]
    BY <1>0, <2>1, RecordsType
  <2> QED BY <1>0, <1>f, <1>p, <2>1, <2>2, FailsMoves, GoesMoves
<1>7. CASE Observe(w)
  <2>1. /\ At(w, "observe") /\ UNCHANGED <<subject, request, op, data, write, claims, expired>>
        /\ (Erased(Target(w)) /\ Succeeds(w)) \/ Fails(w)
    BY <1>7 DEF Observe, Erased
  <2> QED BY <1>0, <1>f, <1>p, <2>1, FailsMoves, SucceedsMoves DEF Proved, Erased
<1>8. CASE VerifyStore(w)
  <2>1. /\ At(w, "act") /\ UNCHANGED <<subject, request, op, data, write, claims, expired>>
        /\ worker[w].stage = Last - 1
        /\ \/ Succeeds(w) \/ Fails(w)
           \/ /\ worker[w].seen + 1 < Stores
              /\ worker' = [worker EXCEPT ![w].pc = "govern", ![w].seen = worker[w].seen + 1]
    BY <1>8 DEF VerifyStore
  <2>2. ASSUME worker[w].seen + 1 < Stores,
               worker' = [worker EXCEPT ![w].pc = "govern", ![w].seen = worker[w].seen + 1]
        PROVE  Within(w) /\ worker'[w].pc = "govern"
    <3> DEFINE k == [worker[w] EXCEPT !.pc = "govern", !.seen = worker[w].seen + 1]
    <3>1. worker' = [worker EXCEPT ![w] = k]
      BY <2>2, Types
    <3>2. worker[w].seen + 1 \in 0 .. Stores /\ "govern" \in Phases
      BY <1>0, <1>p, <2>2 DEF WorkerRecords, Phases
    <3>3. /\ k \in WorkerRecords /\ k.pc = "govern"
          /\ k.request = worker[w].request /\ k.token = worker[w].token
          /\ k.stage = worker[w].stage /\ k.revision = worker[w].revision
      BY <1>0, <3>2 DEF WorkerRecords
    <3> HIDE DEF k
    <3> QED BY <3>1, <3>3, SetMoves DEF Within, Keeps
  <2>3. worker[w].stage # 1 /\ Target(w) \notin Store
    BY <1>p, <2>1 DEF Target, Store, Last
  <2>4. Within(w) => Proved(w)'
    BY <1>p, <2>3 DEF Proved
  <2>5. Within(w) /\ worker'[w].pc \in Executing \cup {"complete"}
    BY <2>1, <2>2, FailsMoves, SucceedsMoves DEF Within
  <2>6. AtStore(w)'
    BY <1>p, <2>3, <2>5
  <2> QED BY <1>0, <1>f, <2>1, <2>4, <2>5, <2>6
<1>9. CASE Finalize(w)
  <2>1. /\ At(w, "act") /\ UNCHANGED <<subject, request, op, data, write, claims, expired>>
        /\ worker[w].stage = Last /\ (Succeeds(w) \/ Fails(w))
    BY <1>9 DEF Finalize
  <2>2. worker[w].stage # 1 /\ Target(w) \notin Store
    BY <1>p, <2>1 DEF Target, Store, Last
  <2> QED BY <1>0, <1>f, <1>p, <2>1, <2>2, FailsMoves, SucceedsMoves DEF Proved
<1> QED BY <1>1, <1>2, <1>3, <1>4, <1>5, <1>6, <1>7, <1>8, <1>9 DEF ExecStep

-----------------------------------------------------------------------------
(* What an action does to the request                                      *)

Updates(r, q) == request' \in [Requests -> RequestRecords] /\ request'[r] = q
                 /\ \A o \in Requests \ {r} : request'[o] = request[o]

(* A request whose record is replaced is the only one that changes.        *)
LEMMA SetUpdates ==
  ASSUME TypeOK, NEW r \in Requests, NEW q \in RequestRecords, request' = [request EXCEPT ![r] = q]
  PROVE  Updates(r, q)
BY Types DEF Updates

(* The records the actions write                                           *)
Revised(q, st, b, k) ==
    [q EXCEPT !.status = st, !.supported = b, !.lease = k, !.revision = @ + 1]
Running(q, k) == [q EXCEPT !.running = k, !.started = TRUE, !.revision = @ + 1]
Ended(q) == [q EXCEPT !.running = 0, !.revision = @ + 1]
Advanced(q, d, st, b) ==
    [q EXCEPT !.done = d, !.running = 0, !.revision = @ + 1, !.status = st, !.supported = b]
Previewed(q, st, n) == [q EXCEPT !.status = st, !.revision = n]

(* A change of status keeps the checkpoint and raises the revision.        *)
LEMMA RevisedFields ==
  ASSUME NEW q \in RequestRecords, NEW st \in Statuses, NEW b \in BOOLEAN, NEW k \in Nat
  PROVE  LET o == Revised(q, st, b, k) IN
         /\ o \in RequestRecords /\ o.status = st /\ o.revision = q.revision + 1
         /\ o.done = q.done /\ o.started = q.started
<1> DEFINE n == q.revision + 1
           o == [q EXCEPT !.status = st, !.supported = b, !.lease = k, !.revision = n]
<1>1. n \in Nat
  BY DEF RequestRecords
<1>2. Revised(q, st, b, k) = o
  BY DEF Revised, RequestRecords
<1> HIDE DEF n
<1>3. /\ o \in RequestRecords /\ o.status = st /\ o.revision = n
      /\ o.done = q.done /\ o.started = q.started
  BY <1>1 DEF RequestRecords
<1> HIDE DEF o
<1> QED BY <1>2, <1>3 DEF n

(* A claimed stage starts the execution and keeps the checkpoint.          *)
LEMMA RunningFields ==
  ASSUME NEW q \in RequestRecords, NEW k \in Nat
  PROVE  LET o == Running(q, k) IN
         /\ o \in RequestRecords /\ o.status = q.status /\ o.revision = q.revision + 1
         /\ o.done = q.done /\ o.started
<1> DEFINE n == q.revision + 1
           o == [q EXCEPT !.running = k, !.started = TRUE, !.revision = n]
<1>1. n \in Nat
  BY DEF RequestRecords
<1>2. Running(q, k) = o
  BY DEF Running, RequestRecords
<1> HIDE DEF n
<1>3. /\ o \in RequestRecords /\ o.status = q.status /\ o.revision = n
      /\ o.done = q.done /\ o.started
  BY <1>1 DEF RequestRecords
<1> HIDE DEF o
<1> QED BY <1>2, <1>3 DEF n

(* A failed stage keeps the checkpoint.                                    *)
LEMMA EndedFields ==
  ASSUME NEW q \in RequestRecords
  PROVE  LET o == Ended(q) IN
         /\ o \in RequestRecords /\ o.status = q.status /\ o.revision = q.revision + 1
         /\ o.done = q.done /\ o.started = q.started
<1> DEFINE n == q.revision + 1
           o == [q EXCEPT !.running = 0, !.revision = n]
<1>1. n \in Nat
  BY DEF RequestRecords
<1>2. Ended(q) = o
  BY DEF Ended, RequestRecords
<1> HIDE DEF n
<1>3. /\ o \in RequestRecords /\ o.status = q.status /\ o.revision = n
      /\ o.done = q.done /\ o.started = q.started
  BY <1>1 DEF RequestRecords
<1> HIDE DEF o
<1> QED BY <1>2, <1>3 DEF n

(* A committed stage is the new checkpoint.                                *)
LEMMA AdvancedFields ==
  ASSUME NEW q \in RequestRecords, NEW d \in 0 .. Last, NEW st \in Statuses, NEW b \in BOOLEAN
  PROVE  LET o == Advanced(q, d, st, b) IN
         /\ o \in RequestRecords /\ o.status = st /\ o.revision = q.revision + 1
         /\ o.done = d /\ o.started = q.started
<1> DEFINE n == q.revision + 1
           o == [q EXCEPT !.done = d, !.running = 0, !.revision = n, !.status = st, !.supported = b]
<1>1. n \in Nat
  BY DEF RequestRecords
<1>2. Advanced(q, d, st, b) = o
  BY DEF Advanced, RequestRecords
<1> HIDE DEF n
<1>3. /\ o \in RequestRecords /\ o.status = st /\ o.revision = n
      /\ o.done = d /\ o.started = q.started
  BY <1>1 DEF RequestRecords
<1> HIDE DEF o
<1> QED BY <1>2, <1>3 DEF n

(* A finished preflight keeps what it is given but for two fields.         *)
LEMMA PreviewedFields ==
  ASSUME NEW q \in RequestRecords, NEW st \in Statuses, NEW n \in Nat
  PROVE  LET o == Previewed(q, st, n) IN
         /\ o \in RequestRecords /\ o.status = st /\ o.revision = n
         /\ o.done = q.done /\ o.started = q.started
BY DEF Previewed, RequestRecords

(* Creation, cancellation and enabling keep the checkpoint.                *)
LEMMA RequestSteps ==
  ASSUME TypeOK, NEW r \in Requests, CreateRequest(r) \/ CancelRequest(r) \/ EnableExecution(r),
         request[r].status = "none" => request[r].revision = 0
  PROVE  /\ UNCHANGED <<subject, op, data, write, claims, expired, worker>>
         /\ Updates(r, request'[r])
         /\ request[r].status # "completed"
         /\ request'[r].status \notin {"none", "preflight_running"}
         /\ request'[r].done = request[r].done /\ request'[r].started = request[r].started
         /\ request'[r].revision = request[r].revision + 1
<1>0. /\ request[r] \in RequestRecords /\ request \in [Requests -> RequestRecords]
      /\ request[r].supported \in BOOLEAN /\ request[r].lease \in Nat
      /\ {"requested", "cancelled", "preview_ready"} \subseteq Statuses
  BY Types DEF RequestRecords, Statuses
<1>1. UNCHANGED <<subject, op, data, write, claims, expired, worker>>
  BY DEF CreateRequest, CancelRequest, EnableExecution
<1>2. ASSUME NEW st \in {"requested", "cancelled", "preview_ready"},
             NEW b \in BOOLEAN, NEW k \in Nat,
             request' = [request EXCEPT ![r] = Revised(request[r], st, b, k)]
      PROVE  /\ Updates(r, request'[r])
             /\ request'[r].status = st /\ request'[r].done = request[r].done
             /\ request'[r].started = request[r].started
             /\ request'[r].revision = request[r].revision + 1
  <2> DEFINE q == Revised(request[r], st, b, k)
  <2>2. /\ q \in RequestRecords /\ q.status = st /\ q.revision = request[r].revision + 1
        /\ q.done = request[r].done /\ q.started = request[r].started
    BY <1>0, RevisedFields, st \in Statuses
  <2>3. request' = [request EXCEPT ![r] = q]
    BY <1>2
  <2> HIDE DEF q
  <2> QED BY <2>2, <2>3, SetUpdates DEF Updates
<1>3. CASE CreateRequest(r)
  <2>1. request' = [request EXCEPT ![r].status = "requested", ![r].revision = 1]
        /\ request[r].status = "none"
    BY <1>3 DEF CreateRequest
  <2>2. request' = [request EXCEPT ![r] =
           Revised(request[r], "requested", request[r].supported, request[r].lease)]
    BY <1>0, <2>1 DEF Revised, RequestRecords
  <2> QED BY <1>0, <1>1, <1>2, <2>1, <2>2
<1>4. CASE CancelRequest(r)
  <2>1. request' = [request EXCEPT ![r] = Revised(request[r], "cancelled", FALSE, 0)]
    BY <1>0, <1>4 DEF CancelRequest, Revised, RequestRecords
  <2>2. request[r].status # "completed"
    BY <1>4 DEF CancelRequest, Active
  <2> QED BY <1>0, <1>1, <1>2, <2>1, <2>2
<1>5. CASE EnableExecution(r)
  <2>1. request' = [request EXCEPT ![r].supported = TRUE, ![r].revision = @ + 1]
        /\ request[r].status = "preview_ready"
    BY <1>5 DEF EnableExecution
  <2>2. request' = [request EXCEPT ![r] =
           Revised(request[r], "preview_ready", TRUE, request[r].lease)]
    BY <1>0, <2>1 DEF Revised, RequestRecords
  <2> QED BY <1>0, <1>1, <1>2, <2>1, <2>2
<1> QED BY <1>3, <1>4, <1>5

(* A preflight is claimed only of a request not begun.                     *)
LEMMA ClaimPreflightMoves ==
  ASSUME TypeOK, NEW w \in Workers, NEW r \in Requests, ClaimPreflight(w, r)
  PROVE  /\ UNCHANGED <<subject, op, data, write, expired>>
         /\ worker[w].pc = "idle" /\ claims' = claims + 1 /\ Moves(w)
         /\ worker'[w].pc = "preflight" /\ worker'[w].request = r
         /\ worker'[w].token = claims + 1
         /\ worker'[w].revision = request[r].revision /\ worker'[w].stage = 1
         /\ Updates(r, request'[r])
         /\ request[r].status # "completed" /\ ~request[r].started
         /\ request'[r].status = "preflight_running"
         /\ request'[r].done = request[r].done /\ request'[r].started = request[r].started
         /\ request'[r].revision = request[r].revision + 1
<1> DEFINE q == Revised(request[r], "preflight_running", request[r].supported, claims + 1)
<1>0. /\ request[r] \in RequestRecords /\ request \in [Requests -> RequestRecords]
      /\ request[r].supported \in BOOLEAN /\ claims + 1 \in Nat
      /\ "preflight_running" \in Statuses /\ "preflight" \in Phases /\ 1 \in 1 .. Last
  BY Types, DeletionAssumption DEF RequestRecords, Phases, Last, Statuses
<1>1. /\ request[r].status # "completed"
      /\ ~request[r].started /\ worker[w].pc = "idle" /\ Draws(w, r, "preflight", 1)
      /\ UNCHANGED <<subject, op, data, write, expired>>
      /\ request' = [request EXCEPT ![r].status = "preflight_running", ![r].lease = claims + 1,
                                    ![r].revision = @ + 1]
  <2>1. request' = [request EXCEPT ![r].status = "preflight_running", ![r].lease = claims + 1,
                                   ![r].revision = @ + 1]
    BY DEF ClaimPreflight
  <2>2. /\ request[r].status \in {"requested", "blocked", "preview_ready"}
        /\ ~request[r].started /\ worker[w].pc = "idle" /\ Draws(w, r, "preflight", 1)
        /\ UNCHANGED <<subject, op, data, write, expired>>
    BY DEF ClaimPreflight, At
  <2> QED BY <2>1, <2>2
<1>2. request' = [request EXCEPT ![r] = q]
  BY <1>0, <1>1 DEF Revised, RequestRecords
<1>3. /\ q \in RequestRecords /\ q.status = "preflight_running"
      /\ q.revision = request[r].revision + 1
      /\ q.done = request[r].done /\ q.started = request[r].started
  BY <1>0, RevisedFields
<1> HIDE DEF q
<1>4. Updates(r, q) /\ request'[r] = q
  BY <1>2, <1>3, SetUpdates DEF Updates
<1>5. /\ claims' = claims + 1 /\ Moves(w)
      /\ worker'[w].pc = "preflight" /\ worker'[w].request = r
      /\ worker'[w].token = claims + 1
      /\ worker'[w].revision = request[r].revision /\ worker'[w].stage = 1
  BY <1>0, <1>1, DrawMoves
<1> QED BY <1>1, <1>3, <1>4, <1>5

(* A worker sets out for the stage after the checkpoint.                   *)
LEMMA ReadRequestMoves ==
  ASSUME TypeOK, NEW w \in Workers, NEW r \in Requests, ReadRequest(w, r),
         request[r].done = Last => request[r].status = "completed"
  PROVE  /\ UNCHANGED <<subject, request, op, data, write, expired>>
         /\ worker[w].pc = "idle" /\ claims' = claims + 1 /\ Moves(w)
         /\ worker'[w].pc = "acquire" /\ worker'[w].request = r
         /\ worker'[w].token = claims + 1
         /\ worker'[w].revision = request[r].revision
         /\ worker'[w].stage = request[r].done + 1
<1>1. /\ worker[w].pc = "idle" /\ Draws(w, r, "acquire", request[r].done + 1)
      /\ UNCHANGED <<subject, request, op, data, write, expired>>
      /\ request[r].status = "preview_ready"
  BY DEF ReadRequest, At, Executable
<1>2. request[r].done + 1 \in 1 .. Last /\ "acquire" \in Phases
  <2>1. request[r].done \in 0 .. Last /\ request[r].done # Last /\ Last \in Nat
    BY <1>1, Types, DeletionAssumption DEF RequestRecords, Last
  <2> QED BY <2>1 DEF Phases
<1> QED BY <1>1, <1>2, DrawMoves

(* A preflight puts the checkpoint back while it is the running one.       *)
LEMMA FinishPreflightMoves ==
  ASSUME TypeOK, NEW w \in Workers, worker[w].request \in Requests, FinishPreflight(w)
  PROVE  /\ UNCHANGED <<subject, op, data, write, claims, expired>>
         /\ worker[w].pc = "preview" /\ Moves(w) /\ Keeps(w)
         /\ worker'[w].revision = worker[w].revision /\ worker'[w].pc = "release"
         /\ \/ UNCHANGED request
            \/ /\ request[worker[w].request].status = "preflight_running"
               /\ Updates(worker[w].request, request'[worker[w].request])
               /\ request'[worker[w].request].status \in {"preview_ready", "blocked"}
               /\ request'[worker[w].request].done = 0
               /\ ~request'[worker[w].request].started
               /\ request'[worker[w].request].revision = request[worker[w].request].revision + 1
<1> DEFINE r == worker[w].request
           st == IF worker[w].ok THEN "preview_ready" ELSE "blocked"
           q == Previewed(NewRequest, st, request[r].revision + 1)
<1>0. /\ request[r].revision + 1 \in Nat /\ "release" \in Phases
      /\ st \in {"preview_ready", "blocked"} /\ st \in Statuses
  BY Types DEF RequestRecords, Phases, Statuses
<1>1. /\ worker[w].pc = "preview" /\ Goto(w, "release")
      /\ UNCHANGED <<subject, op, data, write, claims, expired>>
      /\ \/ UNCHANGED request
         \/ request[r].status = "preflight_running" /\ request' = [request EXCEPT ![r] = q]
  BY DEF FinishPreflight, At, Previewed
<1>2. NewRequest \in RequestRecords /\ NewRequest.done = 0 /\ ~NewRequest.started
  BY DeletionAssumption DEF NewRequest, RequestRecords, Statuses, Last
<1> HIDE DEF st
<1>3. /\ q \in RequestRecords /\ q.status = st /\ q.revision = request[r].revision + 1
      /\ q.done = 0 /\ ~q.started
  BY <1>0, <1>2, PreviewedFields
<1> HIDE DEF q
<1>4. request' = [request EXCEPT ![r] = q] => Updates(r, q) /\ request'[r] = q
  BY <1>3, SetUpdates DEF Updates
<1> QED BY <1>0, <1>1, <1>3, <1>4, GotoMoves

(* A stage is claimed at the revision that was read, or not at all.        *)
LEMMA ClaimStageMoves ==
  ASSUME TypeOK, NEW w \in Workers, worker[w].request \in Requests, ClaimStage(w)
  PROVE  /\ UNCHANGED <<subject, op, data, write, claims, expired>>
         /\ worker[w].pc = "claim" /\ Moves(w) /\ Keeps(w)
         /\ \/ /\ UNCHANGED request
               /\ worker'[w].revision = worker[w].revision /\ worker'[w].pc = "release"
            \/ /\ request[worker[w].request].status = "preview_ready"
               /\ request[worker[w].request].revision = worker[w].revision
               /\ Updates(worker[w].request, request'[worker[w].request])
               /\ request'[worker[w].request].status = "preview_ready"
               /\ request'[worker[w].request].done = request[worker[w].request].done
               /\ request'[worker[w].request].started
               /\ request'[worker[w].request].revision = request[worker[w].request].revision + 1
               /\ worker'[w].revision = worker[w].revision + 1
               /\ worker'[w].pc \in {"act", "govern"}
<1> DEFINE r == worker[w].request
           q == Running(request[r], Token(w))
           pc == IF worker[w].stage = Last THEN "act" ELSE "govern"
           n == worker[w].revision + 1
           k == [worker[w] EXCEPT !.revision = n, !.pc = pc]
<1>0. /\ worker[w] \in WorkerRecords /\ request[r] \in RequestRecords
      /\ Token(w) \in Nat /\ n \in Nat
      /\ "release" \in Phases /\ pc \in {"act", "govern"} /\ pc \in Phases
  BY Types DEF RequestRecords, WorkerRecords, Phases, Token
<1>1. /\ worker[w].pc = "claim" /\ UNCHANGED <<subject, op, data, write, claims, expired>>
      /\ \/ UNCHANGED request /\ Goto(w, "release")
         \/ /\ request[r].status = "preview_ready" /\ request[r].revision = worker[w].revision
            /\ request' = [request EXCEPT ![r] = q]
            /\ worker' = [worker EXCEPT ![w].revision = @ + 1, ![w].pc = pc]
  <2>1. /\ worker[w].pc = "claim" /\ UNCHANGED <<subject, op, data, write, claims, expired>>
        /\ ~Unchanged(w) => UNCHANGED request /\ Goto(w, "release")
    BY DEF ClaimStage, At
  <2>2. Unchanged(w) => request[r].status = "preview_ready" /\ request[r].revision = worker[w].revision
    BY DEF Unchanged, Executable, Mine
  <2>3. Unchanged(w) => request' = [request EXCEPT ![r] = q]
    BY DEF ClaimStage, Running, Mine
  <2>4. Unchanged(w) => worker' = [worker EXCEPT ![w].revision = @ + 1, ![w].pc = pc]
    BY DEF ClaimStage
  <2> QED BY <2>1, <2>2, <2>3, <2>4
<1>2. /\ q \in RequestRecords /\ q.status = request[r].status
      /\ q.revision = request[r].revision + 1
      /\ q.done = request[r].done /\ q.started
  BY <1>0, RunningFields
<1>4. worker' = [worker EXCEPT ![w].revision = @ + 1, ![w].pc = pc] =>
        worker' = [worker EXCEPT ![w] = k]
  BY Types DEF WorkerRecords
<1> HIDE DEF pc, n
<1>3. /\ k \in WorkerRecords /\ k.pc = pc /\ k.revision = n
      /\ k.request = worker[w].request /\ k.token = worker[w].token /\ k.stage = worker[w].stage
  BY <1>0 DEF WorkerRecords
<1> HIDE DEF q, k
<1>5. request' = [request EXCEPT ![r] = q] => Updates(r, q) /\ request'[r] = q
  BY <1>2, SetUpdates DEF Updates
<1>6. worker' = [worker EXCEPT ![w] = k] => Moves(w) /\ worker'[w] = k
  BY <1>3, SetMoves
<1>7. CASE UNCHANGED request /\ Goto(w, "release")
  BY <1>0, <1>1, <1>7, GotoMoves
<1>8. CASE ~(UNCHANGED request /\ Goto(w, "release"))
  <2>1. /\ Updates(r, request'[r]) /\ request'[r] = q
        /\ Moves(w) /\ worker'[w] = k
    BY <1>1, <1>4, <1>5, <1>6, <1>8
  <2>2. Keeps(w) /\ worker'[w].revision = worker[w].revision + 1 /\ worker'[w].pc \in {"act", "govern"}
    BY <1>0, <1>3, <2>1 DEF Keeps, n
  <2> QED BY <1>1, <1>2, <1>8, <2>1, <2>2
<1> QED BY <1>7, <1>8

(* A stage is committed at the revision of its claim, or not at all.       *)
LEMMA CompleteStageMoves ==
  ASSUME TypeOK, NEW w \in Workers, worker[w].request \in Requests, CompleteStage(w)
  PROVE  /\ UNCHANGED <<subject, op, data, write, claims, expired>>
         /\ worker[w].pc = "complete" /\ Moves(w)
         /\ \/ worker'[w].pc = "idle" /\ worker'[w].stage = 1
            \/ /\ Keeps(w) /\ worker'[w].pc = "release"
               /\ worker'[w].revision = worker[w].revision
         /\ \/ UNCHANGED request
            \/ /\ request[worker[w].request].status = "preview_ready"
               /\ request[worker[w].request].revision = worker[w].revision
               /\ Updates(worker[w].request, request'[worker[w].request])
               /\ request'[worker[w].request].started = request[worker[w].request].started
               /\ request'[worker[w].request].revision = request[worker[w].request].revision + 1
               /\ \/ /\ worker[w].ok /\ request'[worker[w].request].done = worker[w].stage
                     /\ request'[worker[w].request].status =
                          IF worker[w].stage = Last THEN "completed" ELSE "preview_ready"
                  \/ /\ request'[worker[w].request].done = request[worker[w].request].done
                     /\ request'[worker[w].request].status = "preview_ready"
<1> DEFINE r == worker[w].request
           st == IF worker[w].stage = Last THEN "completed" ELSE request[r].status
           b == worker[w].stage # Last
           q == Advanced(request[r], worker[w].stage, st, b)
           f == Ended(request[r])
<1>0. /\ worker[w] \in WorkerRecords /\ request[r] \in RequestRecords
      /\ worker[w].stage \in 0 .. Last /\ request[r].revision \in Nat
      /\ "release" \in Phases /\ st \in Statuses /\ b \in BOOLEAN
  BY Types, DeletionAssumption DEF RequestRecords, WorkerRecords, Phases, Statuses, Last
<1>c. Committed(w, request[r]) = q
  BY <1>0 DEF Committed, Advanced, RequestRecords
<1>1. /\ worker[w].pc = "complete" /\ UNCHANGED <<subject, op, data, write, claims, expired>>
      /\ Goto(w, "release") \/ worker' = [worker EXCEPT ![w] = Resting]
      /\ \/ UNCHANGED request
         \/ /\ request[r].status = "preview_ready" /\ request[r].revision = worker[w].revision
            /\ \/ worker[w].ok /\ request' = [request EXCEPT ![r] = q]
               \/ request' = [request EXCEPT ![r] = f]
  <2>1. /\ worker[w].pc = "complete" /\ UNCHANGED <<subject, op, data, write, claims, expired>>
        /\ Goto(w, "release") \/ worker' = [worker EXCEPT ![w] = Resting]
        /\ ~Unchanged(w) => UNCHANGED request
    BY DEF CompleteStage, At
  <2>2. Unchanged(w) => request[r].status = "preview_ready" /\ request[r].revision = worker[w].revision
    BY DEF Unchanged, Executable, Mine
  <2>3. \/ UNCHANGED request
        \/ request' = [request EXCEPT ![r] = IF worker[w].ok THEN Committed(w, request[r])
                                             ELSE Ended(request[r])]
    BY DEF CompleteStage, Ended, Mine
  <2> HIDE DEF q, f
  <2>4. \/ UNCHANGED request
        \/ worker[w].ok /\ request' = [request EXCEPT ![r] = q]
        \/ request' = [request EXCEPT ![r] = f]
    BY <1>c, <2>3 DEF f
  <2> QED BY <2>1, <2>2, <2>4
<1> HIDE DEF st, b
<1>2. /\ q \in RequestRecords /\ q.status = st /\ q.done = worker[w].stage
      /\ q.revision = request[r].revision + 1 /\ q.started = request[r].started
  BY <1>0, AdvancedFields
<1>3. /\ f \in RequestRecords /\ f.status = request[r].status /\ f.done = request[r].done
      /\ f.revision = request[r].revision + 1 /\ f.started = request[r].started
  BY <1>0, EndedFields
<1> HIDE DEF q, f
<1>4. /\ request' = [request EXCEPT ![r] = q] => Updates(r, q) /\ request'[r] = q
      /\ request' = [request EXCEPT ![r] = f] => Updates(r, f) /\ request'[r] = f
  BY <1>2, <1>3, SetUpdates DEF Updates
<1>5. \/ Moves(w) /\ worker'[w].pc = "idle" /\ worker'[w].stage = 1
      \/ /\ Moves(w) /\ Keeps(w) /\ worker'[w].pc = "release"
         /\ worker'[w].revision = worker[w].revision
  BY <1>0, <1>1, GotoMoves, RestMoves
<1> QED BY <1>1, <1>2, <1>3, <1>4, <1>5 DEF st

-----------------------------------------------------------------------------
(* What an action does to the subject                                      *)

(* Holds and leases leave the fence and the count of writes alone.         *)
LEMMA SubjectFields ==
  ASSUME subject \in SubjectRecords, NEW h \in {"none", "active", "lapsed"}, NEW t \in Nat,
         NEW n \in Nat,
         subject' = [subject EXCEPT !.hold = h, !.token = t, !.revision = n]
  PROVE  /\ subject' \in SubjectRecords /\ subject'.hold = h /\ subject'.token = t
         /\ subject'.fence = subject.fence /\ subject'.active = subject.active
BY DEF SubjectRecords

(* The lease is taken when there is no hold and no live lease.             *)
LEMMA LeaseFields ==
  ASSUME TypeOK, NEW w \in Workers, Leasable, LeaseSubject(Token(w))
  PROVE  /\ subject' \in SubjectRecords /\ subject'.hold = "none" /\ subject'.token = Token(w)
         /\ subject'.fence = subject.fence /\ subject'.active = subject.active
         /\ ~Live(subject.token)
<1>1. /\ subject \in SubjectRecords /\ Token(w) \in Nat /\ subject.revision \in Nat
  BY Types DEF SubjectRecords, WorkerRecords, Token
<1>2. subject' = [subject EXCEPT !.hold = "none", !.token = Token(w), !.revision = subject.revision]
  BY <1>1 DEF LeaseSubject, SubjectRecords
<1> QED BY <1>1, <1>2, SubjectFields DEF Leasable

(* The preflight and the acquisition of the lease                          *)
LEMMA LeaseSteps ==
  ASSUME TypeOK, NEW w \in Workers, Inspect(w) \/ AcquireSubject(w)
  PROVE  /\ UNCHANGED <<request, op, data, write, claims, expired>>
         /\ worker[w].pc \in {"preflight", "acquire"} /\ Moves(w) /\ Keeps(w)
         /\ worker'[w].revision = worker[w].revision
         /\ \/ worker[w].pc = "preflight" /\ worker'[w].pc = "preview"
            \/ /\ worker[w].pc = "acquire" /\ worker'[w].pc = "claim"
               /\ subject'.hold = "none" /\ subject'.token = Token(w)
         /\ subject' \in SubjectRecords
         /\ subject'.fence = subject.fence /\ subject'.active = subject.active
         /\ \/ UNCHANGED subject
            \/ subject'.hold = "none" /\ subject'.token = Token(w) /\ ~Live(subject.token)
<1>0. "claim" \in Phases /\ "preview" \in Phases /\ subject \in SubjectRecords
  BY Types DEF Phases
<1>1. CASE Inspect(w)
  <2>1. /\ worker[w].pc = "preflight" /\ UNCHANGED <<request, op, data, write, claims, expired>>
        /\ UNCHANGED subject \/ (Leasable /\ LeaseSubject(Token(w)))
        /\ \E ok \in BOOLEAN : worker' = [worker EXCEPT ![w].pc = "preview", ![w].ok = ok]
    BY <1>1 DEF Inspect, At
  <2>2. Moves(w) /\ Keeps(w) /\ worker'[w].revision = worker[w].revision /\ worker'[w].pc = "preview"
    BY <1>0, <2>1, EndMoves
  <2> QED BY <1>0, <2>1, <2>2, LeaseFields
<1>2. CASE AcquireSubject(w)
  <2>1. /\ worker[w].pc = "acquire" /\ UNCHANGED <<request, op, data, write, claims, expired>>
        /\ Leasable /\ LeaseSubject(Token(w)) /\ Goto(w, "claim")
    BY <1>2 DEF AcquireSubject, At
  <2>2. Moves(w) /\ Keeps(w) /\ worker'[w].revision = worker[w].revision /\ worker'[w].pc = "claim"
    BY <1>0, <2>1, GotoMoves
  <2> QED BY <2>1, <2>2, LeaseFields
<1> QED BY <1>1, <1>2

(* A call that ends; at most the worker's own lease goes with it.          *)
LEMMA LeaveSteps ==
  ASSUME TypeOK, NEW w \in Workers, ReleaseSubject(w) \/ Leave(w)
  PROVE  /\ UNCHANGED <<request, op, data, write, claims, expired>>
         /\ Moves(w) /\ worker[w].pc # "idle" /\ worker'[w].pc = "idle" /\ worker'[w].stage = 1
         /\ subject' \in SubjectRecords
         /\ subject'.fence = subject.fence /\ subject'.active = subject.active
         /\ subject'.hold = subject.hold
         /\ subject'.token # subject.token => subject.token = Token(w)
<1>0. subject \in SubjectRecords /\ subject.token \in Nat /\ subject.revision \in Nat
      /\ subject.hold \in {"none", "active", "lapsed"}
  BY Types DEF SubjectRecords
<1>1. /\ UNCHANGED <<request, op, data, write, claims, expired>> /\ worker[w].pc # "idle"
      /\ worker' = [worker EXCEPT ![w] = Resting]
  BY DEF ReleaseSubject, Leave, At
<1>2. ASSUME ReleaseSubject(w)
      PROVE  /\ subject' \in SubjectRecords
             /\ subject'.fence = subject.fence /\ subject'.active = subject.active
             /\ subject'.hold = subject.hold
             /\ subject'.token # subject.token => subject.token = Token(w)
  <2> DEFINE t == IF subject.token = Token(w) THEN 0 ELSE subject.token
  <2>1. subject' = [subject EXCEPT !.token = t]
    BY <1>2 DEF ReleaseSubject
  <2>2. t \in Nat /\ (t # subject.token => subject.token = Token(w))
    BY <1>0
  <2> HIDE DEF t
  <2> QED BY <1>0, <2>1, <2>2 DEF SubjectRecords
<1>3. Leave(w) => UNCHANGED subject
  BY DEF Leave
<1> QED BY <1>0, <1>1, <1>2, <1>3, RestMoves

(* Holds come only when no lease is live.                                  *)
LEMMA HoldSteps ==
  ASSUME TypeOK, ApplyHold \/ ReleaseHold \/ HoldLapses
  PROVE  /\ UNCHANGED <<request, op, data, write, claims, expired, worker>>
         /\ subject' \in SubjectRecords
         /\ subject'.fence = subject.fence /\ subject'.active = subject.active
         /\ \/ ~Live(subject.token)
            \/ subject'.token = subject.token /\ subject'.hold # "active"
<1>0. subject \in SubjectRecords /\ subject.token \in Nat /\ subject.revision + 1 \in Nat
  BY Types DEF SubjectRecords
<1>1. CASE ApplyHold
  <2>1. subject' = [subject EXCEPT !.hold = "active", !.token = 0, !.revision = subject.revision + 1]
    BY <1>0, <1>1 DEF ApplyHold, SubjectRecords
  <2>2. subject' \in SubjectRecords /\ subject'.fence = subject.fence /\ subject'.active = subject.active
    BY <1>0, <2>1, SubjectFields
  <2> QED BY <1>1, <2>2 DEF ApplyHold
<1>2. CASE ReleaseHold
  <2>1. subject' = [subject EXCEPT !.hold = "none", !.token = subject.token, !.revision = subject.revision + 1]
    BY <1>0, <1>2 DEF ReleaseHold, SubjectRecords
  <2>2. /\ subject' \in SubjectRecords /\ subject'.fence = subject.fence
        /\ subject'.active = subject.active /\ subject'.token = subject.token /\ subject'.hold = "none"
    BY <1>0, <2>1, SubjectFields
  <2> QED BY <1>2, <2>2 DEF ReleaseHold
<1>3. CASE HoldLapses
  <2>1. subject' = [subject EXCEPT !.hold = "lapsed"]
    BY <1>3 DEF HoldLapses
  <2>2. /\ subject' \in SubjectRecords /\ subject'.fence = subject.fence
        /\ subject'.active = subject.active /\ subject'.token = subject.token /\ subject'.hold = "lapsed"
    BY <1>0, <2>1 DEF SubjectRecords
  <2> QED BY <1>3, <2>2 DEF HoldLapses
<1> QED BY <1>1, <1>2, <1>3

Writing == {"pinned", "unsure"}

WriteStep(p) ==
    PinWrite(p) \/ PerformWrite(p) \/ LoseReply(p) \/ LandWrite(p) \/ UnpinWrite(p) \/ LandLoose(p)

(* A write adds data while it is pinned or its reply is lost, or it is one *)
(* that does not pin; it is pinned only where there is no fence.           *)
LEMMA WriteSteps ==
  ASSUME TypeOK, NEW p \in Writes, WriteStep(p)
  PROVE  /\ UNCHANGED <<request, op, claims, expired, worker>>
         /\ subject' \in SubjectRecords /\ subject'.fence = subject.fence
         /\ subject'.token = subject.token /\ subject'.hold = subject.hold
         /\ write' \in [Writes -> {"new", "pinned", "confirmed", "unsure", "over"}]
         /\ \A q \in Writes \ {p} : write'[q] = write[q] /\ (q \in subject'.active <=> q \in subject.active)
         /\ write'[p] \in Writing =>
               p \in subject'.active \/ (write[p] \in Writing /\ UNCHANGED subject)
         /\ write'[p] \in Writing => subject.fence = NoRequest \/ write[p] \in Writing
         /\ data' \in [Store -> Contents]
         /\ \/ write[p] \in Writing \/ subject.fence = NoRequest
            \/ \A s \in Store : Erased(s) => data'[s] \subseteq Writes \ Pinned
         /\ \A s \in Store : data[s] \subseteq data'[s]
<1> USE DEF Writing
<1>0. /\ subject \in SubjectRecords /\ data \in [Store -> Contents]
      /\ write \in [Writes -> {"new", "pinned", "confirmed", "unsure", "over"}]
  BY Types
<1>1. CASE PinWrite(p)
  <2>1. /\ subject' \in SubjectRecords /\ subject'.fence = subject.fence
        /\ subject'.token = subject.token /\ subject'.hold = subject.hold
        /\ subject'.active = subject.active \cup {p}
    <3> DEFINE a == subject.active \cup {p}
    <3>1. subject' = [subject EXCEPT !.active = a] /\ a \in SUBSET Writes
      BY <1>0, <1>1 DEF PinWrite, SubjectRecords
    <3> HIDE DEF a
    <3>2. /\ subject' \in SubjectRecords /\ subject'.fence = subject.fence
          /\ subject'.token = subject.token /\ subject'.hold = subject.hold /\ subject'.active = a
      BY <1>0, <3>1 DEF SubjectRecords
    <3> QED BY <3>2 DEF a
  <2>2. /\ write[p] = "new" /\ subject.fence = NoRequest
        /\ write' = [write EXCEPT ![p] = "pinned"]
        /\ UNCHANGED <<request, op, data, claims, expired, worker>>
    BY <1>1 DEF PinWrite
  <2>3. /\ write' \in [Writes -> {"new", "pinned", "confirmed", "unsure", "over"}]
        /\ \A q \in Writes \ {p} : write'[q] = write[q]
    BY <1>0, <2>2
  <2>4. p \in subject'.active /\ \A q \in Writes \ {p} : q \in subject'.active <=> q \in subject.active
    BY <2>1
  <2>5. data' \in [Store -> Contents] /\ UNCHANGED data /\ \A s \in Store : data[s] \subseteq data'[s]
    BY <1>0, <2>2
  <2>6. \A s \in Store : Erased(s) => data'[s] \subseteq Writes \ Pinned
    BY <2>5 DEF Erased
  <2> QED BY <2>1, <2>2, <2>3, <2>4, <2>5, <2>6, Zenon
<1>s. ASSUME NEW t \in Store, NEW d \in Writes \cup {Old}, data' = [data EXCEPT ![t] = @ \cup {d}]
      PROVE  /\ data' \in [Store -> Contents] /\ \A s \in Store : data[s] \subseteq data'[s]
             /\ d \in Writes \ Pinned => \A s \in Store : Erased(s) => data'[s] \subseteq Writes \ Pinned
  BY <1>0, <1>s DEF Contents, Erased
<1>u. UNCHANGED data =>
         /\ data' \in [Store -> Contents] /\ \A s \in Store : data[s] \subseteq data'[s]
         /\ \A s \in Store : Erased(s) => data'[s] \subseteq Writes \ Pinned
  BY <1>0 DEF Erased
<1>2. CASE PerformWrite(p)
  BY <1>0, <1>2, <1>s, <1>u DEF PerformWrite
<1>3. CASE LoseReply(p)
  BY <1>0, <1>3, <1>u DEF LoseReply
<1>4. CASE LandWrite(p)
  BY <1>0, <1>4, <1>s DEF LandWrite
<1>5. CASE UnpinWrite(p)
  <2>1. /\ subject' \in SubjectRecords /\ subject'.fence = subject.fence
        /\ subject'.token = subject.token /\ subject'.hold = subject.hold
        /\ subject'.active = subject.active \/ subject'.active = subject.active \ {p}
    <3> DEFINE a == subject.active \ {p}
    <3>1. a \in SUBSET Writes /\ (subject' = [subject EXCEPT !.active = a] \/ UNCHANGED subject)
      BY <1>0, <1>5 DEF UnpinWrite, SubjectRecords
    <3> HIDE DEF a
    <3>2. /\ subject' \in SubjectRecords /\ subject'.fence = subject.fence
          /\ subject'.token = subject.token /\ subject'.hold = subject.hold
          /\ subject'.active = subject.active \/ subject'.active = a
      BY <1>0, <3>1 DEF SubjectRecords
    <3> QED BY <3>2 DEF a
  <2> QED BY <1>0, <1>5, <1>u, <2>1 DEF UnpinWrite
<1>6. CASE LandLoose(p)
  <2> DEFINE d == IF subject.fence = NoRequest THEN Old ELSE p
  <2>1. /\ d \in Writes \cup {Old} /\ (subject.fence # NoRequest => d \in Writes \ Pinned)
        /\ \E t \in Store : data' = [data EXCEPT ![t] = @ \cup {d}]
        /\ UNCHANGED <<subject, request, op, claims, expired, worker>>
        /\ write' = [write EXCEPT ![p] = "over"]
    BY <1>6 DEF LandLoose
  <2> HIDE DEF d
  <2> QED BY <1>0, <1>s, <2>1
<1> QED BY <1>1, <1>2, <1>3, <1>4, <1>5, <1>6 DEF WriteStep

(* Expiry changes nothing but what is live.                                *)
LEMMA LapseSteps ==
  ASSUME TypeOK,
         (\E k \in 1 .. claims : Expire(k)) \/ (\E r \in Requests, s \in Store : OperationLapses(r, s))
  PROVE  /\ UNCHANGED <<subject, request, data, write, claims, worker>>
         /\ expired \subseteq expired' /\ expired' \subseteq 1 .. claims
         /\ op' \in [Requests -> [Store -> OperationRecords]]
<1>0. /\ op \in [Requests -> [Store -> OperationRecords]] /\ expired \subseteq 1 .. claims
  BY Types
<1>1. ASSUME NEW k \in 1 .. claims, Expire(k)
      PROVE  /\ UNCHANGED <<subject, request, op, data, write, claims, worker>>
             /\ expired' = expired \cup {k}
  BY <1>1 DEF Expire
<1>2. ASSUME NEW r \in Requests, NEW s \in Store, OperationLapses(r, s)
      PROVE  /\ UNCHANGED <<subject, request, data, write, claims, worker, expired>>
             /\ op' \in [Requests -> [Store -> OperationRecords]]
  <2> DEFINE f == [op[r] EXCEPT ![s].live = FALSE]
  <2>1. op' = [op EXCEPT ![r] = f]
    BY <1>2, Zenon DEF OperationLapses
  <2>2. f \in [Store -> OperationRecords]
    <3> DEFINE o == [op[r][s] EXCEPT !.live = FALSE]
    <3>1. op[r] \in [Store -> OperationRecords] /\ op[r][s] \in OperationRecords
      BY <1>0
    <3>2. o \in OperationRecords
      BY <3>1 DEF OperationRecords
    <3>3. f = [op[r] EXCEPT ![s] = o]
      OBVIOUS
    <3> HIDE DEF o, f
    <3> QED BY <3>1, <3>2, <3>3
  <2> HIDE DEF f
  <2> QED BY <1>0, <1>2, <2>1, <2>2 DEF OperationLapses
<1> QED BY <1>0, <1>1, <1>2

-----------------------------------------------------------------------------
(* The inductive invariant                                                 *)

Reading == {"acquire", "claim"} \cup Executing \cup {"complete"}
Leasing == {"claim"} \cup Executing \cup {"complete"}

(* A request that is done is completed, and one that is being inspected    *)
(* has not begun.                                                          *)
CheckpointOK(r) ==
    /\ request[r].done = Last => request[r].status = "completed"
    /\ request[r].status = "none" => request[r].revision = 0
    /\ request[r].status = "preflight_running" => ~request[r].started
CheckpointInv == \A r \in Requests : CheckpointOK(r)

(* While the revision is the one a worker knows, its stage is the next one.*)
ReadOK(w) ==
    worker[w].pc # "idle" =>
        /\ worker[w].request \in Requests
        /\ worker[w].revision <= request[worker[w].request].revision
        /\ AtStore(w)
        /\ worker[w].pc \in Reading /\ worker[w].revision = request[worker[w].request].revision =>
              request[worker[w].request].done + 1 = worker[w].stage
ReadInv == \A w \in Workers : ReadOK(w)

(* No pinned write is in flight behind the fence, and nothing goes beyond  *)
(* the first stage without it.                                             *)
FenceInv ==
    /\ \A p \in Writes : write[p] \in Writing => p \in subject.active
    /\ subject.fence # NoRequest => \A p \in Writes : write[p] \notin Writing
    /\ \A r \in Requests : request[r].done >= 1 => subject.fence # NoRequest
    /\ \A w \in Workers : worker[w].stage >= 2 => subject.fence # NoRequest
    /\ \A w \in Workers : worker[w].pc = "complete" /\ worker[w].ok => Proved(w)

(* The tokens of busy workers are drawn and distinct.                      *)
TokenInv ==
    /\ \A w \in Workers : worker[w].pc # "idle" => worker[w].token \in 1 .. claims
    /\ \A v, w \in Workers :
          worker[v].pc # "idle" /\ worker[w].pc # "idle" /\ worker[v].token = worker[w].token => v = w

(* A worker whose lease is live holds the subject, and no hold is on it.   *)
LeaseOK(w) ==
    worker[w].pc \in Leasing /\ Live(worker[w].token) =>
        subject.token = worker[w].token /\ subject.hold # "active"
LeaseInv == \A w \in Workers : LeaseOK(w)

IInv == TypeOK /\ CheckpointInv /\ ReadInv /\ FenceInv /\ ErasedStaysErased /\ TokenInv /\ LeaseInv

(* The actions of a worker, and those of the others                        *)
Turns ==
    \/ \E r \in Requests : CreateRequest(r) \/ CancelRequest(r) \/ EnableExecution(r)
    \/ \E w \in Workers, r \in Requests : ClaimPreflight(w, r) \/ ReadRequest(w, r)
    \/ \E w \in Workers : Inspect(w) \/ AcquireSubject(w)
    \/ \E w \in Workers : FinishPreflight(w)
    \/ \E w \in Workers : ClaimStage(w)
    \/ \E w \in Workers : CompleteStage(w)
    \/ \E w \in Workers : ExecStep(w)
    \/ \E w \in Workers : ReleaseSubject(w) \/ Leave(w)
    \/ ApplyHold \/ ReleaseHold \/ HoldLapses
    \/ \E p \in Writes : WriteStep(p)
    \/ (\E k \in 1 .. claims : Expire(k)) \/ (\E r \in Requests, s \in Store : OperationLapses(r, s))

(* The actions in the grouping the proofs use.                             *)
LEMMA NextTurns == Next => Turns
BY DEF Next, Turns, Stage, ExecStep, WriteStep

(* A busy worker has a request.                                            *)
LEMMA BusyRead ==
  ASSUME ReadInv, NEW w \in Workers, worker[w].pc # "idle"
  PROVE  worker[w].request \in Requests /\ AtStore(w)
BY DEF ReadInv, ReadOK

(* A worker that executes is past its claim.                               *)
LEMMA ExecBusy ==
  ASSUME NEW w \in Workers, ExecStep(w)
  PROVE  worker[w].pc \in Executing
BY DEF ExecStep, Govern, EnforceFence, DeleteOwned, ClaimOperation, Destroy, RecordOperation, Observe,
       VerifyStore, Finalize, At, Executing

(* Every step keeps the types.                                             *)
LEMMA TypeStep == TypeOK /\ CheckpointInv /\ ReadInv /\ [Next]_vars => TypeOK'
<1> SUFFICES ASSUME TypeOK, CheckpointInv, ReadInv, [Next]_vars PROVE TypeOK'
  OBVIOUS
<1> SUFFICES /\ subject' \in SubjectRecords
             /\ request' \in [Requests -> RequestRecords]
             /\ op' \in [Requests -> [Store -> OperationRecords]]
             /\ data' \in [Store -> Contents]
             /\ write' \in [Writes -> {"new", "pinned", "confirmed", "unsure", "over"}]
             /\ claims' \in Nat /\ expired' \subseteq 1 .. claims'
             /\ worker' \in [Workers -> WorkerRecords]
  BY Zenon DEF TypeOK, SubjectRecords, RequestRecords, Statuses, Contents, OperationRecords,
               WorkerRecords, Phases
<1>0. /\ subject \in SubjectRecords
      /\ request \in [Requests -> RequestRecords]
      /\ op \in [Requests -> [Store -> OperationRecords]]
      /\ data \in [Store -> Contents]
      /\ write \in [Writes -> {"new", "pinned", "confirmed", "unsure", "over"}]
      /\ claims \in Nat /\ expired \subseteq 1 .. claims
      /\ worker \in [Workers -> WorkerRecords]
  BY Types
<1> USE DEF Moves, Updates
<1>1. CASE UNCHANGED vars
  BY <1>0, <1>1 DEF vars
<1>2. ASSUME NEW r \in Requests, CreateRequest(r) \/ CancelRequest(r) \/ EnableExecution(r)
      PROVE  UNCHANGED <<subject, op, data, write, claims, expired, worker>>
             /\ request' \in [Requests -> RequestRecords]
  BY <1>2, RequestSteps DEF CheckpointInv, CheckpointOK
<1>3. ASSUME NEW w \in Workers, NEW r \in Requests, ClaimPreflight(w, r) \/ ReadRequest(w, r)
      PROVE  UNCHANGED <<subject, op, data, write, expired>>
             /\ request' \in [Requests -> RequestRecords] /\ claims' = claims + 1
             /\ worker' \in [Workers -> WorkerRecords]
  BY <1>0, <1>3, ClaimPreflightMoves, ReadRequestMoves DEF CheckpointInv, CheckpointOK
<1>4. ASSUME NEW w \in Workers, Inspect(w) \/ AcquireSubject(w)
      PROVE  UNCHANGED <<request, op, data, write, claims, expired>>
             /\ subject' \in SubjectRecords /\ worker' \in [Workers -> WorkerRecords]
  BY <1>4, LeaseSteps
<1>5. ASSUME NEW w \in Workers, FinishPreflight(w) \/ ClaimStage(w) \/ CompleteStage(w)
      PROVE  UNCHANGED <<subject, op, data, write, claims, expired>>
             /\ request' \in [Requests -> RequestRecords] /\ worker' \in [Workers -> WorkerRecords]
  <2>1. worker[w].request \in Requests
    BY <1>5, BusyRead DEF FinishPreflight, ClaimStage, CompleteStage, At
  <2> QED BY <1>0, <1>5, <2>1, FinishPreflightMoves, ClaimStageMoves, CompleteStageMoves
<1>6. ASSUME NEW w \in Workers, ExecStep(w)
      PROVE  UNCHANGED <<request, write, claims, expired>>
             /\ subject' \in SubjectRecords /\ worker' \in [Workers -> WorkerRecords]
             /\ op' \in [Requests -> [Store -> OperationRecords]] /\ data' \in [Store -> Contents]
  <2>1. worker[w].request \in Requests /\ AtStore(w)
    BY <1>6, BusyRead, ExecBusy DEF Executing
  <2> QED BY <1>6, <2>1, ExecSteps DEF Within, Fenced
<1>7. ASSUME NEW w \in Workers, ReleaseSubject(w) \/ Leave(w)
      PROVE  UNCHANGED <<request, op, data, write, claims, expired>>
             /\ subject' \in SubjectRecords /\ worker' \in [Workers -> WorkerRecords]
  BY <1>7, LeaveSteps
<1>8. ASSUME ApplyHold \/ ReleaseHold \/ HoldLapses
      PROVE  UNCHANGED <<request, op, data, write, claims, expired, worker>>
             /\ subject' \in SubjectRecords
  BY <1>8, HoldSteps
<1>9. ASSUME NEW p \in Writes, WriteStep(p)
      PROVE  UNCHANGED <<request, op, claims, expired, worker>>
             /\ subject' \in SubjectRecords /\ data' \in [Store -> Contents]
             /\ write' \in [Writes -> {"new", "pinned", "confirmed", "unsure", "over"}]
  BY <1>9, WriteSteps
<1>10. ASSUME (\E k \in 1 .. claims : Expire(k)) \/ (\E r \in Requests, s \in Store : OperationLapses(r, s))
       PROVE  UNCHANGED <<subject, request, data, write, claims, worker>>
              /\ expired' \subseteq 1 .. claims /\ op' \in [Requests -> [Store -> OperationRecords]]
  BY <1>10, LapseSteps
<1>11. CASE Next
  <2> USE <1>0
  <2>1. CASE \E w \in Workers, r \in Requests : ClaimPreflight(w, r) \/ ReadRequest(w, r)
    <3>1. /\ UNCHANGED <<subject, op, data, write, expired>>
          /\ request' \in [Requests -> RequestRecords] /\ claims' = claims + 1
          /\ worker' \in [Workers -> WorkerRecords]
      BY <1>3, <2>1
    <3>2. expired' \subseteq 1 .. claims' /\ claims' \in Nat
      BY <3>1
    <3> QED BY <3>1, <3>2
  <2> QED BY <1>2, <1>4, <1>5, <1>6, <1>7, <1>8, <1>9, <1>10, <1>11, <2>1, NextTurns DEF Turns
<1> QED BY <1>1, <1>11

(* The steps a worker that is at a stage or a preflight takes, for which   *)
(* ReadInv gives the request it works on                                   *)
LEMMA CheckpointStep == TypeOK /\ CheckpointInv /\ ReadInv /\ [Next]_vars => CheckpointInv'
<1> SUFFICES ASSUME TypeOK, CheckpointInv, ReadInv, [Next]_vars PROVE CheckpointInv'
  OBVIOUS
<1>0. \A r \in Requests : request[r].revision \in Nat /\ request[r].done \in 0 .. Last /\ Last > 0
  BY Types, DeletionAssumption DEF RequestRecords, Last
<1>1. ASSUME UNCHANGED request PROVE CheckpointInv'
  BY <1>1 DEF CheckpointInv, CheckpointOK
<1>2. ASSUME NEW r \in Requests, Updates(r, request'[r]), CheckpointOK(r)' PROVE CheckpointInv'
  BY <1>2 DEF CheckpointInv, CheckpointOK, Updates
<1>3. ASSUME NEW r \in Requests, CreateRequest(r) \/ CancelRequest(r) \/ EnableExecution(r)
      PROVE  CheckpointInv'
  <2>1. CheckpointOK(r)
    BY DEF CheckpointInv
  <2> QED BY <1>2, <1>3, <2>1, RequestSteps DEF CheckpointOK
<1>4. ASSUME NEW w \in Workers, NEW r \in Requests, ClaimPreflight(w, r) PROVE CheckpointInv'
  <2>1. CheckpointOK(r)
    BY DEF CheckpointInv
  <2> QED BY <1>2, <1>4, <2>1, ClaimPreflightMoves DEF CheckpointOK
<1>5. ASSUME NEW w \in Workers, FinishPreflight(w) PROVE CheckpointInv'
  <2>1. worker[w].request \in Requests
    BY <1>5, BusyRead DEF FinishPreflight, At
  <2> QED BY <1>0, <1>1, <1>2, <1>5, <2>1, FinishPreflightMoves DEF CheckpointOK
<1>6. ASSUME NEW w \in Workers, ClaimStage(w) PROVE CheckpointInv'
  <2>1. worker[w].request \in Requests
    BY <1>6, BusyRead DEF ClaimStage, At
  <2>2. CheckpointOK(worker[w].request)
    BY <2>1 DEF CheckpointInv
  <2> QED BY <1>1, <1>2, <1>6, <2>1, <2>2, ClaimStageMoves DEF CheckpointOK
<1>7. ASSUME NEW w \in Workers, CompleteStage(w) PROVE CheckpointInv'
  <2>1. worker[w].request \in Requests
    BY <1>7, BusyRead DEF CompleteStage, At
  <2>2. CheckpointOK(worker[w].request)
    BY <2>1 DEF CheckpointInv
  <2> QED BY <1>1, <1>2, <1>7, <2>1, <2>2, CompleteStageMoves DEF CheckpointOK
<1>8. CASE Next
  <2>1. ASSUME NEW w \in Workers, ExecStep(w) PROVE UNCHANGED request
    BY <2>1, BusyRead, ExecBusy, ExecSteps DEF Executing
  <2>2. ASSUME NEW w \in Workers, NEW r \in Requests, ReadRequest(w, r) PROVE UNCHANGED request
    BY <2>2 DEF ReadRequest
  <2>3. ASSUME NEW w \in Workers, Inspect(w) \/ AcquireSubject(w) \/ ReleaseSubject(w) \/ Leave(w)
        PROVE UNCHANGED request
    BY <2>3, LeaseSteps, LeaveSteps
  <2>4. ASSUME ApplyHold \/ ReleaseHold \/ HoldLapses PROVE UNCHANGED request
    BY <2>4, HoldSteps
  <2>5. ASSUME NEW p \in Writes, WriteStep(p)
        PROVE  UNCHANGED request
    BY <2>5, WriteSteps
  <2>6. ASSUME (\E k \in 1 .. claims : Expire(k)) \/ (\E r \in Requests, s \in Store : OperationLapses(r, s))
        PROVE  UNCHANGED request
    BY <2>6, LapseSteps
  <2> QED BY <1>1, <1>3, <1>4, <1>5, <1>6, <1>7, <1>8, <2>1, <2>2, <2>3, <2>4, <2>5, <2>6, NextTurns DEF Turns
<1> QED BY <1>1, <1>8 DEF vars

(* A worker that stays where it was, while requests only grow, still knows *)
(* what it knew.                                                           *)
Grows == \A r \in Requests : request'[r] = request[r] \/ request'[r].revision > request[r].revision

(* A change of one request raises its revision, the others stay.           *)
LEMMA UpdateGrows ==
  ASSUME TypeOK, NEW r \in Requests, Updates(r, request'[r]),
         request'[r].revision = request[r].revision + 1
  PROVE  Grows
<1>1. request[r].revision \in Nat
  BY Types DEF RequestRecords
<1> QED BY <1>1 DEF Grows, Updates

(* A worker that does not move still knows what it knew.                   *)
LEMMA StayRead ==
  ASSUME TypeOK, TypeOK', Grows, NEW w \in Workers, worker'[w] = worker[w], ReadOK(w)
  PROVE  ReadOK(w)'
<1>1. /\ \A r \in Requests : request[r].revision \in Nat /\ request'[r].revision \in Nat
      /\ worker[w].revision \in Nat
  BY Types DEF RequestRecords, WorkerRecords, TypeOK
<1> QED BY <1>1 DEF ReadOK, Grows, AtStore

(* So only the worker that moves has to be looked at.                      *)
LEMMA MoveRead ==
  ASSUME TypeOK, TypeOK', ReadInv, Grows, NEW w \in Workers, Moves(w), ReadOK(w)'
  PROVE  ReadInv'
<1> SUFFICES ASSUME NEW v \in Workers PROVE ReadOK(v)'
  BY DEF ReadInv
<1> QED BY StayRead DEF ReadInv, Moves

(* Every step keeps what a worker knows of its request.                    *)
LEMMA ReadStep == TypeOK /\ TypeOK' /\ CheckpointInv /\ ReadInv /\ [Next]_vars => ReadInv'
<1> SUFFICES ASSUME TypeOK, TypeOK', CheckpointInv, ReadInv, [Next]_vars PROVE ReadInv'
  OBVIOUS
<1>0. /\ \A r \in Requests : request[r].revision \in Nat /\ request'[r].revision \in Nat
      /\ \A w \in Workers : worker[w].revision \in Nat /\ ReadOK(w)
      /\ UNCHANGED request => Grows
  BY Types DEF RequestRecords, WorkerRecords, TypeOK, ReadInv, Grows
<1>1. ASSUME Grows, UNCHANGED worker PROVE ReadInv'
  BY <1>0, <1>1, StayRead DEF ReadInv
<1>2. ASSUME NEW r \in Requests, CreateRequest(r) \/ CancelRequest(r) \/ EnableExecution(r)
      PROVE  ReadInv'
  BY <1>1, <1>2, RequestSteps, UpdateGrows DEF CheckpointInv, CheckpointOK
<1>3. ASSUME NEW w \in Workers, NEW r \in Requests, ClaimPreflight(w, r) PROVE ReadInv'
  <2>1. Grows /\ Moves(w)
    BY <1>3, ClaimPreflightMoves, UpdateGrows
  <2>2. /\ worker'[w].pc = "preflight" /\ worker'[w].request = r
        /\ worker'[w].revision = request[r].revision
        /\ request'[r].revision = request[r].revision + 1
    BY <1>3, ClaimPreflightMoves
  <2>3. ReadOK(w)'
    BY <1>0, <2>2 DEF ReadOK, AtStore, Reading, Executing
  <2> QED BY <2>1, <2>3, MoveRead
<1>4. ASSUME NEW w \in Workers, NEW r \in Requests, ReadRequest(w, r) PROVE ReadInv'
  <2>1. /\ UNCHANGED request /\ Moves(w) /\ worker'[w].pc = "acquire" /\ worker'[w].request = r
        /\ worker'[w].revision = request[r].revision /\ worker'[w].stage = request[r].done + 1
    BY <1>4, ReadRequestMoves DEF CheckpointInv, CheckpointOK
  <2>2. ReadOK(w)'
    BY <1>0, <2>1 DEF ReadOK, AtStore, Reading, Executing
  <2> QED BY <1>0, <2>1, <2>2, MoveRead
<1>5. ASSUME NEW w \in Workers, Inspect(w) \/ AcquireSubject(w) PROVE ReadInv'
  <2>1. /\ UNCHANGED request /\ Moves(w) /\ Keeps(w) /\ worker'[w].revision = worker[w].revision
        /\ \/ worker[w].pc = "preflight" /\ worker'[w].pc = "preview"
           \/ worker[w].pc = "acquire" /\ worker'[w].pc = "claim"
    BY <1>5, LeaseSteps
  <2>2. ReadOK(w)'
    BY <1>0, <2>1 DEF ReadOK, AtStore, Reading, Executing, Keeps
  <2> QED BY <1>0, <2>1, <2>2, MoveRead
<1>6. ASSUME NEW w \in Workers, FinishPreflight(w) PROVE ReadInv'
  <2>1. worker[w].request \in Requests
    BY <1>6, BusyRead DEF FinishPreflight, At
  <2>2. Grows /\ Moves(w)
    BY <1>0, <1>6, <2>1, FinishPreflightMoves, UpdateGrows
  <2>3. /\ worker[w].pc = "preview" /\ Keeps(w) /\ worker'[w].revision = worker[w].revision
        /\ worker'[w].pc = "release"
    BY <1>6, <2>1, FinishPreflightMoves
  <2>4. ReadOK(w)'
    BY <1>0, <2>1, <2>2, <2>3 DEF ReadOK, AtStore, Reading, Executing, Keeps, Grows
  <2> QED BY <2>2, <2>4, MoveRead
<1>7. ASSUME NEW w \in Workers, ClaimStage(w) PROVE ReadInv'
  <2>1. worker[w].request \in Requests
    BY <1>7, BusyRead DEF ClaimStage, At
  <2>2. Grows /\ Moves(w) /\ Keeps(w) /\ worker[w].pc = "claim"
    BY <1>0, <1>7, <2>1, ClaimStageMoves, UpdateGrows
  <2>3. CASE UNCHANGED request /\ worker'[w].revision = worker[w].revision /\ worker'[w].pc = "release"
    <3>1. ReadOK(w)'
      BY <1>0, <2>1, <2>2, <2>3 DEF ReadOK, AtStore, Reading, Executing, Keeps
    <3> QED BY <2>2, <3>1, MoveRead
  <2>4. CASE /\ request[worker[w].request].revision = worker[w].revision
             /\ request'[worker[w].request].done = request[worker[w].request].done
             /\ request'[worker[w].request].revision = request[worker[w].request].revision + 1
             /\ worker'[w].revision = worker[w].revision + 1
             /\ worker'[w].pc \in {"act", "govern"}
    <3>1. ReadOK(w)'
      BY <1>0, <2>1, <2>2, <2>4 DEF ReadOK, AtStore, Reading, Executing, Keeps
    <3> QED BY <2>2, <3>1, MoveRead
  <2> QED BY <1>7, <2>1, <2>3, <2>4, ClaimStageMoves
<1>8. ASSUME NEW w \in Workers, CompleteStage(w) PROVE ReadInv'
  <2>1. worker[w].request \in Requests
    BY <1>8, BusyRead DEF CompleteStage, At
  <2>2. Grows /\ Moves(w) /\ worker[w].pc = "complete"
    BY <1>0, <1>8, <2>1, CompleteStageMoves, UpdateGrows
  <2>3. \/ worker'[w].pc = "idle"
        \/ Keeps(w) /\ worker'[w].pc = "release" /\ worker'[w].revision = worker[w].revision
    BY <1>8, <2>1, CompleteStageMoves
  <2>4. ReadOK(w)'
    BY <1>0, <2>1, <2>2, <2>3 DEF ReadOK, AtStore, Reading, Executing, Keeps, Grows
  <2> QED BY <2>2, <2>4, MoveRead
<1>9. ASSUME NEW w \in Workers, ExecStep(w) PROVE ReadInv'
  <2>1. worker[w].request \in Requests /\ AtStore(w) /\ worker[w].pc \in Executing
    BY <1>9, BusyRead, ExecBusy DEF Executing
  <2>2. /\ UNCHANGED request /\ Moves(w) /\ Keeps(w) /\ worker'[w].revision = worker[w].revision
        /\ AtStore(w)'
    BY <1>9, <2>1, ExecSteps DEF Within
  <2>3. ReadOK(w)'
    BY <1>0, <2>1, <2>2 DEF ReadOK, Reading, Executing, Keeps
  <2> QED BY <1>0, <2>2, <2>3, MoveRead
<1>10. ASSUME NEW w \in Workers, ReleaseSubject(w) \/ Leave(w) PROVE ReadInv'
  <2>1. UNCHANGED request /\ Moves(w) /\ worker'[w].pc = "idle"
    BY <1>10, LeaveSteps
  <2>2. ReadOK(w)'
    BY <2>1 DEF ReadOK
  <2> QED BY <1>0, <2>1, <2>2, MoveRead
<1>11. ASSUME ApplyHold \/ ReleaseHold \/ HoldLapses PROVE UNCHANGED <<request, worker>>
  BY <1>11, HoldSteps
<1>12. ASSUME NEW p \in Writes, WriteStep(p)
      PROVE  UNCHANGED <<request, worker>>
  BY <1>12, WriteSteps
<1>13. ASSUME (\E k \in 1 .. claims : Expire(k)) \/ (\E r \in Requests, s \in Store : OperationLapses(r, s))
      PROVE  UNCHANGED <<request, worker>>
  BY <1>13, LapseSteps
<1>14. ASSUME UNCHANGED <<request, worker>> PROVE ReadInv'
  BY <1>0, <1>1, <1>14
<1>15. CASE Next
  BY <1>2, <1>3, <1>4, <1>5, <1>6, <1>7, <1>8, <1>9, <1>10, <1>11, <1>12, <1>13, <1>14, <1>15, NextTurns DEF Turns
<1> QED BY <1>14, <1>15 DEF vars

(* The numbers of checkpoints and stages, before and after a step          *)
Counted == /\ \A r \in Requests : request[r].done \in Nat
           /\ \A w \in Workers : worker[w].stage \in Nat \ {0}

(* Stores are numbered from one.                                           *)
LEMMA StoreNumbers == Store \subseteq Nat \ {0} /\ Last \in Nat
BY DeletionAssumption DEF Store, Last

(* What the type invariant says of these numbers now ...                   *)
LEMMA CountedNow == TypeOK => Counted
<1> SUFFICES ASSUME TypeOK PROVE Counted
  OBVIOUS
<1>1. \A r \in Requests : request[r].done \in 0 .. Last
  BY DEF TypeOK
<1>2. \A w \in Workers : worker[w].stage \in 1 .. Last
  BY DEF TypeOK
<1> QED BY <1>1, <1>2, StoreNumbers DEF Counted

(* ... and after a step                                                    *)
LEMMA CountedThen == TypeOK' => Counted'
<1> SUFFICES ASSUME TypeOK' PROVE Counted'
  OBVIOUS
<1>1. \A r \in Requests : request'[r].done \in 0 .. Last
  BY DEF TypeOK
<1>2. \A w \in Workers : worker'[w].stage \in 1 .. Last
  BY DEF TypeOK
<1> QED BY <1>1, <1>2, StoreNumbers DEF Counted

(* Steps that touch neither data, nor writes, nor the fence, and complete  *)
(* no stage                                                                *)
LEMMA FenceQuiet ==
  ASSUME TypeOK, TypeOK', FenceInv, ErasedStaysErased, UNCHANGED <<data, write>>,
         subject'.fence = subject.fence, subject'.active = subject.active,
         \A r \in Requests : request'[r].done = request[r].done \/ request'[r].done = 0,
         \A w \in Workers :
            \/ worker'[w] = worker[w]
            \/ /\ worker'[w].pc # "complete"
               /\ worker'[w].stage \in {1, worker[w].stage} \/ subject.fence # NoRequest
  PROVE  FenceInv' /\ ErasedStaysErased'
<1>0. /\ \A r \in Requests : request[r].done \in Nat /\ request'[r].done \in Nat
      /\ \A w \in Workers : worker[w].stage \in Nat /\ worker'[w].stage \in Nat
      /\ Store \subseteq Nat \ {0}
  BY CountedNow, CountedThen, StoreNumbers DEF Counted
<1>1. ErasedStaysErased'
  <2> SUFFICES ASSUME NEW r \in Requests, NEW s \in Store, request'[r].done > s PROVE Erased(s)'
    BY DEF ErasedStaysErased
  <2>1. request'[r].done # 0
    BY <1>0
  <2>2. request[r].done > s
    BY <2>1
  <2> QED BY <2>2 DEF ErasedStaysErased, Erased
<1>2. \A w \in Workers : worker'[w].pc = "complete" /\ worker'[w].ok => Proved(w)'
  BY DEF FenceInv, Proved, Target, Erased
<1> QED BY <1>0, <1>1, <1>2 DEF FenceInv

(* Every step keeps the fence tight and the erased stores empty.           *)
LEMMA FenceStep ==
  TypeOK /\ TypeOK' /\ CheckpointInv /\ ReadInv /\ FenceInv /\ ErasedStaysErased /\ [Next]_vars
     => FenceInv' /\ ErasedStaysErased'
<1> SUFFICES ASSUME TypeOK, TypeOK', CheckpointInv, ReadInv, FenceInv, ErasedStaysErased, [Next]_vars
             PROVE  FenceInv' /\ ErasedStaysErased'
  OBVIOUS
<1>0. /\ \A r \in Requests : request[r].done \in Nat /\ request'[r].done \in Nat
      /\ \A w \in Workers : worker[w].stage \in Nat \ {0} /\ worker'[w].stage \in Nat \ {0}
      /\ Store \subseteq Nat \ {0}
  BY CountedNow, CountedThen, StoreNumbers DEF Counted
<1>1. ASSUME NEW r \in Requests, CreateRequest(r) \/ CancelRequest(r) \/ EnableExecution(r)
      PROVE  FenceInv' /\ ErasedStaysErased'
  BY <1>1, RequestSteps, FenceQuiet DEF CheckpointInv, CheckpointOK, Updates
<1>2. ASSUME NEW w \in Workers, NEW r \in Requests, ClaimPreflight(w, r)
      PROVE  FenceInv' /\ ErasedStaysErased'
  BY <1>2, ClaimPreflightMoves, FenceQuiet DEF Updates, Moves
<1>3. ASSUME NEW w \in Workers, NEW r \in Requests, ReadRequest(w, r)
      PROVE  FenceInv' /\ ErasedStaysErased'
  <2>1. /\ UNCHANGED <<subject, request, data, write>> /\ Moves(w)
        /\ worker'[w].pc = "acquire" /\ worker'[w].stage = request[r].done + 1
    BY <1>3, ReadRequestMoves DEF CheckpointInv, CheckpointOK
  <2>2. worker'[w].stage = 1 \/ subject.fence # NoRequest
    BY <1>0, <2>1 DEF FenceInv
  <2> QED BY <2>1, <2>2, FenceQuiet DEF Moves
<1>4. ASSUME NEW w \in Workers, Inspect(w) \/ AcquireSubject(w) \/ ReleaseSubject(w) \/ Leave(w)
      PROVE  FenceInv' /\ ErasedStaysErased'
  <2>1. /\ UNCHANGED <<request, data, write>> /\ Moves(w)
        /\ subject'.fence = subject.fence /\ subject'.active = subject.active
        /\ worker'[w].pc # "complete" /\ worker'[w].stage \in {1, worker[w].stage}
    BY <1>4, LeaseSteps, LeaveSteps DEF Keeps
  <2> QED BY <2>1, FenceQuiet DEF Moves
<1>5. ASSUME NEW w \in Workers, FinishPreflight(w) \/ ClaimStage(w)
      PROVE  FenceInv' /\ ErasedStaysErased'
  <2>1. worker[w].request \in Requests
    BY <1>5, BusyRead DEF FinishPreflight, ClaimStage, At
  <2>2. /\ UNCHANGED <<subject, data, write>> /\ Moves(w)
        /\ worker'[w].pc # "complete" /\ worker'[w].stage = worker[w].stage
    BY <1>5, <2>1, FinishPreflightMoves, ClaimStageMoves DEF Keeps
  <2>3. \A r \in Requests : request'[r].done = request[r].done \/ request'[r].done = 0
    BY <1>5, <2>1, FinishPreflightMoves, ClaimStageMoves DEF Updates
  <2> QED BY <2>2, <2>3, FenceQuiet DEF Moves
<1>6. ASSUME NEW w \in Workers, CompleteStage(w)
      PROVE  FenceInv' /\ ErasedStaysErased'
  <2>1. worker[w].request \in Requests
    BY <1>6, BusyRead DEF CompleteStage, At
  <2>2. /\ UNCHANGED <<subject, data, write>> /\ Moves(w) /\ worker[w].pc = "complete"
        /\ worker'[w].pc # "complete" /\ worker'[w].stage \in {1, worker[w].stage}
    BY <1>6, <2>1, CompleteStageMoves DEF Keeps
  <2>3. CASE \A r \in Requests : request'[r].done = request[r].done
    BY <2>2, <2>3, FenceQuiet DEF Moves
  <2>4. CASE ~ \A r \in Requests : request'[r].done = request[r].done
    <3> DEFINE r == worker[w].request
    <3>1. /\ Updates(r, request'[r]) /\ request[r].revision = worker[w].revision
          /\ worker[w].ok /\ request'[r].done = worker[w].stage
      BY <1>6, <2>1, <2>4, CompleteStageMoves DEF Updates
    <3>2. request[r].done + 1 = worker[w].stage
      BY <2>2, <3>1 DEF ReadInv, ReadOK, Reading
    <3>3. Proved(w)
      BY <2>2, <3>1 DEF FenceInv
    <3>4. subject.fence # NoRequest
      BY <1>0, <3>3 DEF Proved, FenceInv
    <3>5. \A s \in Store : request'[r].done > s => Erased(s)
      <4> SUFFICES ASSUME NEW s \in Store, request'[r].done > s PROVE Erased(s)
        OBVIOUS
      <4>1. CASE request[r].done > s
        BY <2>1, <4>1 DEF ErasedStaysErased
      <4>2. CASE ~(request[r].done > s)
        <5>1. s = Target(w)
          BY <1>0, <2>1, <3>1, <3>2, <4>2 DEF Target
        <5> QED BY <3>3, <5>1 DEF Proved
      <4> QED BY <4>1, <4>2
    <3>6. ErasedStaysErased'
      BY <2>2, <3>1, <3>5 DEF ErasedStaysErased, Erased, Updates
    <3>7. FenceInv'
      BY <1>0, <2>2, <3>4 DEF FenceInv, Moves, Proved, Target, Erased
    <3> QED BY <3>6, <3>7
  <2> QED BY <2>3, <2>4
<1>7. ASSUME NEW w \in Workers, ExecStep(w)
      PROVE  FenceInv' /\ ErasedStaysErased'
  <2>1. worker[w].request \in Requests /\ AtStore(w)
    BY <1>7, BusyRead, ExecBusy DEF Executing
  <2>2. /\ UNCHANGED <<request, write>> /\ Moves(w) /\ worker'[w].stage = worker[w].stage
        /\ subject'.active = subject.active
        /\ subject'.fence # subject.fence => subject.active = {} /\ subject'.fence # NoRequest
        /\ \A s \in Store : data'[s] \subseteq data[s]
        /\ worker'[w].pc = "complete" /\ worker'[w].ok => Proved(w)'
    BY <1>7, <2>1, ExecSteps DEF Within, Keeps, Fenced
  <2>3. ErasedStaysErased'
    BY <2>2 DEF ErasedStaysErased, Erased
  <2>4. ASSUME NEW v \in Workers, worker'[v].pc = "complete", worker'[v].ok PROVE Proved(v)'
    BY <2>2, <2>4 DEF FenceInv, Moves, Proved, Target, Erased
  <2>5. \A v \in Workers : worker'[v].stage = worker[v].stage
    BY <2>2 DEF Moves
  <2> QED BY <2>2, <2>3, <2>4, <2>5 DEF FenceInv
<1>8. ASSUME ApplyHold \/ ReleaseHold \/ HoldLapses
      PROVE  FenceInv' /\ ErasedStaysErased'
  BY <1>8, HoldSteps, FenceQuiet
<1>9. ASSUME NEW p \in Writes, WriteStep(p)
      PROVE  FenceInv' /\ ErasedStaysErased'
  <2>1. /\ UNCHANGED <<request, worker>> /\ subject'.fence = subject.fence
        /\ \A q \in Writes \ {p} : write'[q] = write[q] /\ (q \in subject'.active <=> q \in subject.active)
        /\ write'[p] \in Writing =>
              p \in subject'.active \/ (write[p] \in Writing /\ UNCHANGED subject)
        /\ write'[p] \in Writing => subject.fence = NoRequest \/ write[p] \in Writing
        /\ \/ write[p] \in Writing \/ subject.fence = NoRequest
           \/ \A s \in Store : Erased(s) => data'[s] \subseteq Writes \ Pinned
    BY <1>9, WriteSteps
  <2>2. /\ \A q \in Writes : write'[q] \in Writing => q \in subject'.active
        /\ subject'.fence # NoRequest => \A q \in Writes : write'[q] \notin Writing
    BY <2>1 DEF FenceInv
  <2>3. CASE \A s \in Store : Erased(s) => data'[s] \subseteq Writes \ Pinned
    BY <2>1, <2>2, <2>3 DEF FenceInv, ErasedStaysErased, Erased, Proved, Target
  <2>4. CASE write[p] \in Writing \/ subject.fence = NoRequest
    <3>1. subject.fence = NoRequest
      BY <2>4 DEF FenceInv
    <3>2. \A r \in Requests : request[r].done = 0
      BY <1>0, <3>1 DEF FenceInv
    <3>3. \A w \in Workers : ~(worker[w].pc = "complete" /\ worker[w].ok)
      BY <1>0, <3>1 DEF FenceInv, Proved
    <3>4. ErasedStaysErased'
      <4>1. \A r \in Requests, s \in Store : ~(request'[r].done > s)
        BY <1>0, <2>1, <3>2
      <4> QED BY <4>1 DEF ErasedStaysErased
    <3> QED BY <2>1, <2>2, <3>3, <3>4 DEF FenceInv
  <2> QED BY <2>1, <2>3, <2>4
<1>10. ASSUME (\E k \in 1 .. claims : Expire(k)) \/ (\E r \in Requests, s \in Store : OperationLapses(r, s))
       PROVE  FenceInv' /\ ErasedStaysErased'
  BY <1>10, LapseSteps, FenceQuiet
<1>11. CASE UNCHANGED vars
  BY <1>11, FenceQuiet DEF vars
<1>12. CASE Next
  BY <1>1, <1>2, <1>3, <1>4, <1>5, <1>6, <1>7, <1>8, <1>9, <1>10, <1>12, NextTurns DEF Turns
<1> QED BY <1>11, <1>12

(* Every step keeps tokens apart and holds away from live leases.          *)
LEMMA TokenLeaseStep ==
  TypeOK /\ TypeOK' /\ CheckpointInv /\ ReadInv /\ TokenInv /\ LeaseInv /\ [Next]_vars
     => TokenInv' /\ LeaseInv'
<1> SUFFICES ASSUME TypeOK, TypeOK', CheckpointInv, ReadInv, TokenInv, LeaseInv, [Next]_vars
             PROVE  TokenInv' /\ LeaseInv'
  OBVIOUS
<1>0. /\ claims \in Nat /\ expired \subseteq 1 .. claims
  BY Types
\* Steps that draw no token: busy workers keep theirs.
<1>1. ASSUME claims' = claims,
             \A w \in Workers : worker'[w].pc = "idle" \/
                (worker[w].pc # "idle" /\ worker'[w].token = worker[w].token)
      PROVE  TokenInv'
  BY <1>1 DEF TokenInv
\* Steps that leave the subject's lease and hold, and bring no worker to a lease.
<1>2. ASSUME subject'.token = subject.token, subject'.hold = subject.hold, expired \subseteq expired',
             \A w \in Workers : worker'[w].pc \notin Leasing \/
                (worker[w].pc \in Leasing /\ worker'[w].token = worker[w].token)
      PROVE  LeaseInv'
  BY <1>2 DEF LeaseInv, LeaseOK, Live
<1>3. ASSUME NEW r \in Requests, CreateRequest(r) \/ CancelRequest(r) \/ EnableExecution(r)
      PROVE  TokenInv' /\ LeaseInv'
  BY <1>1, <1>2, <1>3, RequestSteps DEF CheckpointInv, CheckpointOK
<1>4. ASSUME NEW w \in Workers, NEW r \in Requests, ClaimPreflight(w, r) \/ ReadRequest(w, r)
      PROVE  TokenInv' /\ LeaseInv'
  <2>1. /\ UNCHANGED <<subject, expired>> /\ claims' = claims + 1 /\ Moves(w)
        /\ worker'[w].pc \in {"preflight", "acquire"} /\ worker'[w].token = claims + 1
    BY <1>4, ClaimPreflightMoves, ReadRequestMoves DEF CheckpointInv, CheckpointOK
  <2>2. LeaseInv'
    BY <1>2, <2>1 DEF Moves, Leasing, Executing
  <2>3. TokenInv'
    BY <1>0, <2>1 DEF TokenInv, Moves
  <2> QED BY <2>2, <2>3
<1>5. ASSUME NEW w \in Workers, Inspect(w) \/ AcquireSubject(w)
      PROVE  TokenInv' /\ LeaseInv'
  <2>1. /\ UNCHANGED <<claims, expired>> /\ Moves(w) /\ worker'[w].token = worker[w].token
        /\ worker[w].pc \in {"preflight", "acquire"}
        /\ \/ worker'[w].pc = "preview"
           \/ subject'.hold = "none" /\ subject'.token = worker[w].token
        /\ \/ UNCHANGED subject
           \/ ~Live(subject.token)
    BY <1>5, LeaseSteps DEF Keeps, Token
  <2>2. TokenInv'
    BY <1>1, <2>1 DEF Moves
  <2>3. LeaseOK(w)'
    BY <2>1 DEF LeaseOK, Leasing, Executing
  <2>4. ASSUME NEW v \in Workers, v # w PROVE LeaseOK(v)'
    <3>1. LeaseOK(v) /\ worker'[v] = worker[v] /\ UNCHANGED expired
      BY <2>1, <2>4 DEF LeaseInv, Moves
    <3>2. CASE UNCHANGED subject
      BY <3>1, <3>2 DEF LeaseOK, Live
    <3>3. CASE ~Live(subject.token)
      <4>1. ~(worker[v].pc \in Leasing /\ Live(worker[v].token))
        BY <3>1, <3>3 DEF LeaseOK
      <4> QED BY <3>1, <4>1 DEF LeaseOK, Live
    <3> QED BY <2>1, <3>2, <3>3
  <2> QED BY <2>2, <2>3, <2>4 DEF LeaseInv
<1>6. ASSUME NEW w \in Workers, FinishPreflight(w) \/ ClaimStage(w) \/ CompleteStage(w)
      PROVE  TokenInv' /\ LeaseInv'
  <2>1. worker[w].request \in Requests
    BY <1>6, BusyRead DEF FinishPreflight, ClaimStage, CompleteStage, At
  <2>2. /\ UNCHANGED <<subject, claims, expired>> /\ Moves(w) /\ worker[w].pc # "idle"
        /\ \/ worker'[w].pc = "idle"
           \/ /\ worker'[w].token = worker[w].token
              /\ worker'[w].pc = "release" \/ (worker[w].pc = "claim" /\ worker'[w].pc \in {"act", "govern"})
    BY <1>6, <2>1, FinishPreflightMoves, ClaimStageMoves, CompleteStageMoves DEF Keeps
  <2> QED BY <1>1, <1>2, <2>2 DEF Moves, Leasing, Executing
<1>7. ASSUME NEW w \in Workers, ExecStep(w)
      PROVE  TokenInv' /\ LeaseInv'
  <2>1. worker[w].request \in Requests /\ AtStore(w) /\ worker[w].pc \in Executing
    BY <1>7, BusyRead, ExecBusy DEF Executing
  <2>2. /\ UNCHANGED <<claims, expired>> /\ Moves(w) /\ worker'[w].token = worker[w].token
        /\ subject'.token = subject.token /\ subject'.hold = subject.hold
    BY <1>7, <2>1, ExecSteps DEF Within, Keeps, Fenced
  <2> QED BY <1>1, <1>2, <2>1, <2>2 DEF Moves, Leasing, Executing
<1>8. ASSUME NEW w \in Workers, ReleaseSubject(w) \/ Leave(w)
      PROVE  TokenInv' /\ LeaseInv'
  <2>1. /\ UNCHANGED <<claims, expired>> /\ Moves(w) /\ worker[w].pc # "idle" /\ worker'[w].pc = "idle"
        /\ subject'.hold = subject.hold
        /\ subject'.token # subject.token => subject.token = worker[w].token
    BY <1>8, LeaveSteps DEF Token
  <2>2. TokenInv'
    BY <1>1, <2>1 DEF Moves
  <2>3. ASSUME NEW v \in Workers PROVE LeaseOK(v)'
    <3>1. CASE v = w
      BY <2>1, <3>1 DEF LeaseOK, Leasing, Executing
    <3>2. CASE v # w /\ worker[v].pc \in Leasing /\ Live(worker[v].token)
      <4>1. subject.token = worker[v].token /\ subject.hold # "active"
        BY <3>2 DEF LeaseInv, LeaseOK
      <4>2. worker[v].token # worker[w].token
        BY <2>1, <3>2 DEF TokenInv, Leasing, Executing
      <4> QED BY <2>1, <3>2, <4>1, <4>2 DEF LeaseOK, Moves
    <3>3. CASE v # w /\ ~(worker[v].pc \in Leasing /\ Live(worker[v].token))
      BY <2>1, <3>3 DEF LeaseOK, Moves, Live
    <3> QED BY <3>1, <3>2, <3>3
  <2> QED BY <2>2, <2>3 DEF LeaseInv
<1>9. ASSUME ApplyHold \/ ReleaseHold \/ HoldLapses
      PROVE  TokenInv' /\ LeaseInv'
  <2>1. /\ UNCHANGED <<claims, expired, worker>>
        /\ ~Live(subject.token) \/ (subject'.token = subject.token /\ subject'.hold # "active")
    BY <1>9, HoldSteps
  <2> QED BY <1>1, <2>1 DEF LeaseInv, LeaseOK, Live, TokenInv
<1>10. ASSUME NEW p \in Writes, WriteStep(p)
       PROVE  TokenInv' /\ LeaseInv'
  BY <1>1, <1>2, <1>10, WriteSteps
<1>11. ASSUME (\E k \in 1 .. claims : Expire(k)) \/ (\E r \in Requests, s \in Store : OperationLapses(r, s))
       PROVE  TokenInv' /\ LeaseInv'
  BY <1>1, <1>2, <1>11, LapseSteps
<1>12. CASE UNCHANGED vars
  BY <1>1, <1>2, <1>12 DEF vars
<1>13. CASE Next
  BY <1>3, <1>4, <1>5, <1>6, <1>7, <1>8, <1>9, <1>10, <1>11, <1>13, NextTurns DEF Turns
<1> QED BY <1>12, <1>13

-----------------------------------------------------------------------------
(* The theorems                                                            *)

(* The initial state has no request, no worker and no write under way.     *)
LEMMA InitInv == Init => IInv
<1> SUFFICES ASSUME Init PROVE IInv
  OBVIOUS
<1>0. Stores \in Nat /\ Last \in Nat /\ Last # 0 /\ 1 \in 1 .. Last /\ 0 \in 0 .. Last
  BY DeletionAssumption DEF Last
<1>1. NewRequest \in RequestRecords /\ NewRequest.done = 0 /\ NewRequest.status = "none"
      /\ NewRequest.revision = 0 /\ NewRequest.started = FALSE
  BY <1>0 DEF NewRequest, RequestRecords, Statuses
<1>2. NoOperation \in OperationRecords
  BY DEF NoOperation, OperationRecords
<1>3. Resting \in WorkerRecords /\ Resting.pc = "idle" /\ Resting.stage = 1
  BY RestingType DEF Resting
<1>4. /\ \A r \in Requests : request[r] = NewRequest
      /\ \A w \in Workers : worker[w] = Resting
      /\ \A p \in Writes : write[p] = "new"
      /\ subject.fence = NoRequest
  BY DEF Init
<1>5. TypeOK
  <2>1. subject \in SubjectRecords
    BY DEF Init, SubjectRecords
  <2>2. request \in [Requests -> RequestRecords]
    BY <1>1 DEF Init
  <2>3. op \in [Requests -> [Store -> OperationRecords]]
    BY <1>2 DEF Init
  <2>4. worker \in [Workers -> WorkerRecords]
    BY <1>3 DEF Init
  <2>5. /\ data \in [Store -> Contents] /\ claims \in Nat /\ expired \subseteq 1 .. claims
        /\ write \in [Writes -> {"new", "pinned", "confirmed", "unsure", "over"}]
    BY DEF Init, Contents
  <2> QED BY <2>1, <2>2, <2>3, <2>4, <2>5, Types
<1>6. CheckpointInv
  BY <1>0, <1>1, <1>4 DEF CheckpointInv, CheckpointOK
<1>7. ReadInv /\ TokenInv /\ LeaseInv
  BY <1>3, <1>4 DEF ReadInv, ReadOK, TokenInv, LeaseInv, LeaseOK, Leasing, Executing
<1>8. FenceInv
  BY <1>1, <1>3, <1>4 DEF FenceInv, Writing
<1>9. ErasedStaysErased
  BY <1>1, <1>4, StoreNumbers DEF ErasedStaysErased
<1> QED BY <1>5, <1>6, <1>7, <1>8, <1>9 DEF IInv

(* The invariant is inductive.                                             *)
LEMMA NextInv == IInv /\ [Next]_vars => IInv'
<1> SUFFICES ASSUME IInv, [Next]_vars PROVE IInv'
  OBVIOUS
<1>1. TypeOK /\ CheckpointInv /\ ReadInv /\ FenceInv /\ ErasedStaysErased /\ TokenInv /\ LeaseInv
  BY DEF IInv
<1>2. TypeOK'
  BY <1>1, TypeStep
<1>3. CheckpointInv'
  BY <1>1, CheckpointStep
<1>4. ReadInv'
  BY <1>1, <1>2, ReadStep
<1>5. FenceInv' /\ ErasedStaysErased'
  BY <1>1, <1>2, FenceStep
<1>6. TokenInv' /\ LeaseInv'
  BY <1>1, <1>2, TokenLeaseStep
<1> QED BY <1>2, <1>3, <1>4, <1>5, <1>6 DEF IInv

(* The inductive invariant holds in every execution, for any number of     *)
(* requests, stores, workers and writes.                                   *)
THEOREM InductiveInvariant == Spec => []IInv
BY InitInv, NextInv, PTL DEF Spec

(* Subject, requests, journal and workers keep their types.                *)
THEOREM TypeCorrect == Spec => []TypeOK
<1>1. IInv => TypeOK
  BY DEF IInv
<1> QED BY <1>1, InductiveInvariant, PTL

(* A store whose deletion is on record holds nothing from before the fence *)
(* and nothing of a pinned write, whatever writes were in flight and       *)
(* whoever crashed (EnforceFence, the deletions and withSubjectWriteLease);*)
(* only writes that do not pin the subject and came later can be in it.    *)
THEOREM ErasedForGood == Spec => []ErasedStaysErased
<1>1. IInv => ErasedStaysErased
  BY DEF IInv
<1> QED BY <1>1, InductiveInvariant, PTL

(* Only a step of an executing stage removes data, and under a hold only   *)
(* one at the external resource, whose lease is over.                      *)
LEMMA HoldStep ==
  ASSUME IInv, [Next]_vars
  PROVE  \A s \in Store : ~(data[s] \subseteq data'[s]) /\ subject.hold = "active" =>
            \E w \in Workers : At(w, "destroy") /\ Target(w) = s /\ ~Live(Token(w))
<1> SUFFICES ASSUME NEW s \in Store, ~(data[s] \subseteq data'[s]), subject.hold = "active"
             PROVE  \E w \in Workers : At(w, "destroy") /\ Target(w) = s /\ ~Live(Token(w))
  OBVIOUS
<1>0. TypeOK /\ CheckpointInv /\ ReadInv /\ LeaseInv
  BY DEF IInv
<1>1. ASSUME NEW w \in Workers, ExecStep(w) PROVE At(w, "destroy") /\ Target(w) = s /\ ~Live(Token(w))
  <2>1. worker[w].request \in Requests /\ AtStore(w)
    BY <1>0, <1>1, BusyRead, ExecBusy DEF Executing
  <2>2. At(w, "destroy") /\ Target(w) = s
    BY <1>0, <1>1, <2>1, ExecSteps
  <2>3. ~Live(Token(w))
    BY <1>0, <2>2 DEF LeaseInv, LeaseOK, At, Token, Leasing, Executing
  <2> QED BY <2>2, <2>3
<1>2. ASSUME NEW r \in Requests, CreateRequest(r) \/ CancelRequest(r) \/ EnableExecution(r) PROVE FALSE
  BY <1>2 DEF CreateRequest, CancelRequest, EnableExecution
<1>3. ASSUME NEW w \in Workers, NEW r \in Requests, ClaimPreflight(w, r) \/ ReadRequest(w, r) PROVE FALSE
  BY <1>3 DEF ClaimPreflight, ReadRequest
<1>4. ASSUME NEW w \in Workers, Inspect(w) \/ AcquireSubject(w) \/ FinishPreflight(w) \/ ClaimStage(w)
                                \/ CompleteStage(w) \/ ReleaseSubject(w) \/ Leave(w)
      PROVE  FALSE
  BY <1>4 DEF Inspect, AcquireSubject, FinishPreflight, ClaimStage, CompleteStage, ReleaseSubject, Leave
<1>5. ASSUME ApplyHold \/ ReleaseHold \/ HoldLapses PROVE FALSE
  BY <1>5 DEF ApplyHold, ReleaseHold, HoldLapses
<1>6. ASSUME NEW p \in Writes, WriteStep(p)
      PROVE  FALSE
  BY <1>0, <1>6, WriteSteps
<1>7. ASSUME (\E k \in 1 .. claims : Expire(k)) \/ (\E r \in Requests, t \in Store : OperationLapses(r, t))
      PROVE  FALSE
  BY <1>7 DEF Expire, OperationLapses
<1>8. ~UNCHANGED vars
  BY DEF vars
<1> QED BY <1>1, <1>2, <1>3, <1>4, <1>5, <1>6, <1>7, <1>8, NextTurns DEF Turns

(* Nothing is deleted under a legal hold, but by a worker that outlived    *)
(* its lease at an external resource: a hold and a live lease exclude each *)
(* other (AcquireDataRetentionSubjectLease, ApplyLegalHold).               *)
THEOREM HoldIsRespected == Spec => HoldRespected
<1>1. IInv /\ [Next]_vars =>
         [\A s \in Store : ~(data[s] \subseteq data'[s]) /\ subject.hold = "active" =>
             \E w \in Workers : At(w, "destroy") /\ Target(w) = s /\ ~Live(Token(w))]_vars
  BY HoldStep
<1> QED BY <1>1, InductiveInvariant, PTL DEF Spec, HoldRespected

(* A step keeps a checkpoint that has begun: only a preflight puts one     *)
(* back, and a running preflight is of a request not begun.                *)
LEMMA ProgressStep ==
  ASSUME IInv, [Next]_vars, NEW r \in Requests, request[r].started
  PROVE  request'[r].started /\ request'[r].done >= request[r].done
<1>0. TypeOK /\ TypeOK' /\ CheckpointInv /\ ReadInv
  BY NextInv DEF IInv
<1>1. request[r].done \in Nat /\ request'[r].done \in Nat
  BY <1>0, CountedNow, CountedThen DEF Counted
<1>2. ASSUME request'[r].started = request[r].started, request'[r].done = request[r].done
      PROVE  request'[r].started /\ request'[r].done >= request[r].done
  BY <1>1, <1>2
<1>3. ASSUME NEW q \in Requests, CreateRequest(q) \/ CancelRequest(q) \/ EnableExecution(q)
      PROVE  request'[r].started = request[r].started /\ request'[r].done = request[r].done
  BY <1>0, <1>3, RequestSteps DEF CheckpointInv, CheckpointOK, Updates
<1>4. ASSUME NEW w \in Workers, NEW q \in Requests, ClaimPreflight(w, q)
      PROVE  request'[r].started = request[r].started /\ request'[r].done = request[r].done
  BY <1>0, <1>4, ClaimPreflightMoves DEF Updates
<1>5. ASSUME NEW w \in Workers, FinishPreflight(w)
      PROVE  request'[r].started = request[r].started /\ request'[r].done = request[r].done
  <2>1. worker[w].request \in Requests
    BY <1>0, <1>5, BusyRead DEF FinishPreflight, At
  <2>2. request[r].status # "preflight_running"
    BY <1>0 DEF CheckpointInv, CheckpointOK
  <2> QED BY <1>0, <1>5, <2>1, <2>2, FinishPreflightMoves DEF Updates
<1>6. ASSUME NEW w \in Workers, ClaimStage(w)
      PROVE  request'[r].started /\ request'[r].done = request[r].done
  <2>1. worker[w].request \in Requests
    BY <1>0, <1>6, BusyRead DEF ClaimStage, At
  <2> QED BY <1>0, <1>6, <2>1, ClaimStageMoves DEF Updates
<1>7. ASSUME NEW w \in Workers, CompleteStage(w)
      PROVE  request'[r].started /\ request'[r].done >= request[r].done
  <2>1. worker[w].request \in Requests
    BY <1>0, <1>7, BusyRead DEF CompleteStage, At
  <2>2. CASE request'[r].started = request[r].started /\ request'[r].done = request[r].done
    BY <1>2, <2>2
  <2>3. CASE ~(request'[r].started = request[r].started /\ request'[r].done = request[r].done)
    <3>1. /\ r = worker[w].request /\ request[r].revision = worker[w].revision
          /\ request'[r].started = request[r].started /\ request'[r].done = worker[w].stage
      <4>1. request'[r] # request[r]
        BY <2>3
      <4>2. /\ Updates(worker[w].request, request'[worker[w].request])
            /\ request[worker[w].request].revision = worker[w].revision
            /\ request'[worker[w].request].started = request[worker[w].request].started
            /\ \/ request'[worker[w].request].done = worker[w].stage
               \/ request'[worker[w].request].done = request[worker[w].request].done
        BY <1>0, <1>7, <2>1, <4>1, CompleteStageMoves
      <4>3. r = worker[w].request
        BY <4>1, <4>2 DEF Updates
      <4> QED BY <2>3, <4>2, <4>3, Zenon
    <3>2. worker[w].pc = "complete"
      BY <1>7 DEF CompleteStage, At
    <3>3. request[r].done + 1 = worker[w].stage
      BY <1>0, <3>1, <3>2 DEF ReadInv, ReadOK, Reading
    <3> QED BY <1>1, <3>1, <3>3
  <2> QED BY <2>2, <2>3
<1>8. ASSUME NEW w \in Workers, ExecStep(w) \/ Inspect(w) \/ AcquireSubject(w) \/ ReleaseSubject(w) \/ Leave(w)
      PROVE  UNCHANGED request
  <2>1. ASSUME ExecStep(w) PROVE UNCHANGED request
    BY <1>0, <2>1, BusyRead, ExecBusy, ExecSteps DEF Executing
  <2> QED BY <1>8, <2>1 DEF Inspect, AcquireSubject, ReleaseSubject, Leave
<1>9. ASSUME NEW w \in Workers, NEW q \in Requests, ReadRequest(w, q) PROVE UNCHANGED request
  BY <1>9 DEF ReadRequest
<1>10. ASSUME ApplyHold \/ ReleaseHold \/ HoldLapses PROVE UNCHANGED request
  BY <1>10 DEF ApplyHold, ReleaseHold, HoldLapses
<1>11. ASSUME NEW p \in Writes, WriteStep(p)
       PROVE  UNCHANGED request
  BY <1>11 DEF WriteStep, PinWrite, PerformWrite, LoseReply, LandWrite, UnpinWrite, LandLoose
<1>12. ASSUME (\E k \in 1 .. claims : Expire(k)) \/ (\E q \in Requests, t \in Store : OperationLapses(q, t))
       PROVE  UNCHANGED request
  BY <1>12 DEF Expire, OperationLapses
<1>13. ASSUME UNCHANGED vars PROVE UNCHANGED request
  BY <1>13 DEF vars
<1>14. ASSUME UNCHANGED request PROVE request'[r].started /\ request'[r].done >= request[r].done
  BY <1>2, <1>14
<1>15. CASE Next
  <2>1. CASE \E q \in Requests : CreateRequest(q) \/ CancelRequest(q) \/ EnableExecution(q)
    BY <1>2, <1>3, <2>1
  <2>2. CASE \E w \in Workers, q \in Requests : ClaimPreflight(w, q)
    BY <1>2, <1>4, <2>2
  <2>3. CASE \E w \in Workers : FinishPreflight(w)
    BY <1>2, <1>5, <2>3
  <2>4. CASE \E w \in Workers : ClaimStage(w)
    BY <1>1, <1>6, <2>4
  <2>5. CASE \E w \in Workers : CompleteStage(w)
    BY <1>7, <2>5
  <2>6. \/ \E q \in Requests : CreateRequest(q) \/ CancelRequest(q) \/ EnableExecution(q)
        \/ \E w \in Workers, q \in Requests : ClaimPreflight(w, q)
        \/ \E w \in Workers : FinishPreflight(w)
        \/ \E w \in Workers : ClaimStage(w)
        \/ \E w \in Workers : CompleteStage(w)
        \/ UNCHANGED request
    BY <1>8, <1>9, <1>10, <1>11, <1>12, <1>15, NextTurns, Zenon DEF Turns
  <2> QED BY <1>14, <2>1, <2>2, <2>3, <2>4, <2>5, <2>6
<1> QED BY <1>13, <1>14, <1>15

(* Once execution has begun the checkpoint only advances, across retries,  *)
(* crashes and late completions (CompareAndSwapDataDeletionCheckpoint and  *)
(* the started guard of ClaimDataDeletionPreflight).                       *)
THEOREM ProgressIsKept == Spec => ProgressKept
<1>1. IInv /\ [Next]_vars =>
         [\A r \in Requests : request[r].started =>
             request'[r].started /\ request'[r].done >= request[r].done]_vars
  BY ProgressStep
<1> QED BY <1>1, InductiveInvariant, PTL DEF Spec, ProgressKept
=============================================================================
