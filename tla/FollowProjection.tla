-------------------------- MODULE FollowProjection --------------------------
(***************************************************************************)
(* The follow projection of one author (follow/projection): every change   *)
(* of a follow relation becomes an event, every event two outbox tasks,    *)
(* and workers bring the Redis side of the author (the celebrity marks and *)
(* the followers' timelines) to what the relation table says, one page per *)
(* claim.                                                                  *)
(*                                                                         *)
(* Two things keep workers apart.  A page runs under the MySQL session     *)
(* lock of the author, which can be lost while the worker goes on; and     *)
(* every Redis command carries an epoch that a newer Begin outdates.  A    *)
(* command that timed out may still be on its way and land much later.     *)
(*                                                                         *)
(* Relation ids, tweet ids and task ids grow; an id is the position in its *)
(* table.  The lease token and the epoch name the same execution, so the   *)
(* fence keeps the epoch only; its deadline is a command that is rejected  *)
(* or dropped at will.  A follower's timeline is shared by all the authors *)
(* it follows and holds Capacity entries in all: the other authors' entries*)
(* are not kept, they show in what they push out (Evict).                  *)
(***************************************************************************)
EXTENDS Outbox, Sequences, FiniteSets, FiniteSetsExt

CONSTANTS
    Followers,
    Tweets,         \* how many tweets the author has
    PageSize,
    Capacity,       \* 1000: the entries a timeline keeps
    High, Low,      \* 5000 and 4500
    MaxChanges,     \* bound: follows and unfollows
    MaxFaults       \* bound: failed pages, timeouts, lost locks, leases and acks,
                    \* and evictions

Events == 1 .. MaxChanges

ASSUME ProjectionAssumption ==
    /\ {Tweets, PageSize, Capacity, High, Low, MaxChanges, MaxFaults} \subseteq Nat
    /\ PageSize > 0 /\ Capacity > 0 /\ Low <= High
    /\ Tasks = Events \X {"author", "pair"}

VARIABLES
    relations,  \* the follow rows: [follower, live]
    log,        \* the event of each change: its follower
    messages,   \* messages[e]: queued, acked or dead
    receipts,   \* the events registered, in the order of their tasks' ids
    author,     \* the author's state row
    checkpoint, \* checkpoint[e]: the payload of the event's pair task
    lock,       \* who holds the author's session lock
    redis,      \* fence and projection
    late,       \* the command that timed out and has not landed
    worker,     \* worker[w]: the page a worker executes
    faults

store == <<relations, log, author, checkpoint>>
ingress == <<messages, receipts>>
vars == <<rows, relations, log, messages, receipts, author, checkpoint, lock,
          redis, late, worker, faults>>

-----------------------------------------------------------------------------
NoCommand == [kind |-> "none", epoch |-> 0, follower |-> {}, page |-> {}, on |-> FALSE]
NewCheckpoint == [cursor |-> 0, generation |-> 0, initialized |-> FALSE]
NoFact == [generation |-> 0, active |-> FALSE]
Resting == [pc |-> "idle", task |-> <<>>, epoch |-> 0, celebrity |-> FALSE,
            p |-> NewCheckpoint, fact |-> NoFact, todo |-> <<>>, page |-> {}, more |-> FALSE,
            changed |-> FALSE]

Kind(t) == t[2]
Follower(t) == log[t[1]]

(* DecideCelebrity                                                         *)
DecideCelebrity(previous, count) == count >= High \/ (count >= Low /\ previous)

LiveRows == {i \in DOMAIN relations : relations[i].live}
RowsOf(f) == {i \in DOMAIN relations : relations[i].follower = f}
Following(f) == RowsOf(f) \cap LiveRows # {}
FollowerCount == Cardinality({relations[i].follower : i \in LiveRows})

(* ReadPair: the live row, otherwise the newest.                           *)
ReadPair(f) == [generation |-> IF RowsOf(f) = {} THEN 0 ELSE Max(RowsOf(f)),
                active |-> Following(f)]

(* HistoryFollowers, HistoryTweets: the newest PageSize ids below the      *)
(* cursor, 0 being the start, and whether there are more.                  *)
Below(last, cursor) == IF cursor = 0 THEN 1 .. last ELSE 1 .. cursor - 1
Page(last, cursor) ==
    {i \in Below(last, cursor) : Cardinality({j \in Below(last, cursor) : j > i}) < PageSize}
(* fault: a page that is full says that there are no more.                 *)
MoreUnlessFull(last, cursor) == Cardinality(Below(last, cursor)) > PageSize + 1
More(last, cursor) == Page(last, cursor) # Below(last, cursor)
Next0(page, more) == IF more THEN Min(page) ELSE 0

(* The page's rows from the newest, with what the batch query says of them *)
Marks(page, celebrity) ==
    [k \in 1 .. Cardinality(page) |->
        LET i == CHOOSE i \in page : Cardinality({j \in page : j >= i}) = k
            f == relations[i].follower
        IN [follower |-> f, on |-> celebrity /\ Following(f)]]

-----------------------------------------------------------------------------
(* fault: a write is taken from an execution that began earlier, too.      *)
AcceptedUnfenced(c) == c.kind # "begin" \/ c.epoch >= redis.fence

(* Redis: Begin installs its epoch unless a newer one is there, every      *)
(* other command needs its epoch to be the installed one.                  *)
Accepted(c) == IF c.kind = "begin" THEN c.epoch >= redis.fence ELSE c.epoch = redis.fence

(* ZREMRANGEBYRANK: the k newest entries of the timelines of the followers *)
(* in F are left.                                                          *)
Newest(timeline, F, k) ==
    {e \in timeline : e[1] \in F =>
        Cardinality({d \in timeline : d[1] = e[1] /\ d[2] > e[2]}) < k}

(* The entries a projection wrote and did not remove: those in a timeline, *)
(* and those pushed out of it since (evicted, which only the model keeps). *)
Written == redis.timeline \cup redis.evicted

Applied(c) ==
    CASE c.kind = "begin" -> [redis EXCEPT !.fence = c.epoch, !.celebrity = c.on]
      [] c.kind = "mark" ->
            [redis EXCEPT !.marked = IF c.on THEN @ \cup c.follower ELSE @ \ c.follower]
      [] c.kind = "tweets" ->
            LET entries == c.follower \X c.page
                put(S) == IF c.on THEN S \cup entries ELSE S \ entries
                kept == Newest(put(redis.timeline), c.follower, Capacity)
            IN [redis EXCEPT !.timeline = kept, !.evicted = put(Written) \ kept]

(* The command the worker is about to send.                                *)
Command(w) ==
    LET r == worker[w]
    IN CASE r.pc = "begin" ->
              [NoCommand EXCEPT !.kind = "begin", !.epoch = r.epoch, !.on = r.celebrity]
         [] r.pc = "mark" ->
              [NoCommand EXCEPT !.kind = "mark", !.epoch = r.epoch,
                                !.follower = {r.todo[1].follower}, !.on = r.todo[1].on]
         [] r.pc = "tweets" ->
              [kind |-> "tweets", epoch |-> r.epoch, follower |-> {Follower(r.task)},
               page |-> Page(Tweets, r.p.cursor), on |-> r.fact.active]

Init ==
    /\ rows = [t \in Tasks |-> NoRow]
    /\ relations = <<>> /\ log = <<>> /\ messages = <<>> /\ receipts = <<>>
    /\ author = [started |-> FALSE, epoch |-> 0, celebrity |-> FALSE, cursor |-> 0, complete |-> FALSE]
    /\ checkpoint = [e \in Events |-> NewCheckpoint]
    /\ lock = NoWorker
    /\ \E celebrity \in BOOLEAN :   \* an earlier owner may have left its mark
          redis = [fence |-> 0, celebrity |-> celebrity, marked |-> {}, timeline |-> {},
                   evicted |-> {}]
    /\ late = NoCommand
    /\ worker = [w \in Workers |-> Resting]
    /\ faults = 0

Faulty == faults < MaxFaults /\ faults' = faults + 1

-----------------------------------------------------------------------------
(* ApplyFollowTransition with the event, in one transaction: a follow adds *)
(* a row, an unfollow ends the live one.                                   *)
Change(f) ==
    /\ Len(log) < MaxChanges
    /\ relations' = IF Following(f)
                    THEN [relations EXCEPT ![Max(RowsOf(f) \cap LiveRows)].live = FALSE]
                    ELSE Append(relations, [follower |-> f, live |-> TRUE])
    /\ log' = Append(log, f)
    /\ messages' = Append(messages, "queued")
    /\ UNCHANGED <<rows, receipts, author, checkpoint, lock, redis, late, worker, faults>>

(* Handle: Register and acknowledge; the receipt makes a redelivery a      *)
(* no-op.  An acknowledgement that is lost leaves the message queued.      *)
Handle(e) ==
    /\ e \in DOMAIN messages /\ messages[e] = "queued"
    /\ IF \E i \in DOMAIN receipts : receipts[i] = e
       THEN UNCHANGED <<rows, receipts>>
       ELSE Create({e} \X {"author", "pair"}) /\ receipts' = Append(receipts, e)
    /\ \/ messages' = [messages EXCEPT ![e] = "acked"] /\ UNCHANGED faults
       \/ Faulty /\ UNCHANGED messages
    /\ UNCHANGED <<store, lock, redis, late, worker>>

(* routeFailure: Register failed for the fourth time, and the message goes *)
(* to the dead letters.  The failures before put it back in the queue.     *)
RouteFailure(e) ==
    /\ e \in DOMAIN messages /\ messages[e] = "queued"
    /\ Faulty
    /\ messages' = [messages EXCEPT ![e] = "dead"]
    /\ UNCHANGED <<rows, receipts, store, lock, redis, late, worker>>

-----------------------------------------------------------------------------
(* Registered(t, u): t's row has the lower id.                             *)
Registered(t, u) ==
    \E i, j \in DOMAIN receipts : i < j /\ receipts[i] = t[1] /\ receipts[j] = u[1]

(* Tick: one row of a lane, the oldest.  A failed row may be backing off   *)
(* and be passed over, a pending one may not.                              *)
ClaimTask(w, t) ==
    /\ worker[w].pc = "idle"
    /\ \A u \in Tasks : Kind(u) = Kind(t) /\ Registered(u, t) => rows[u].status # "pending"
    /\ Claim(t, w)
    /\ worker' = [worker EXCEPT ![w] = [Resting EXCEPT !.pc = "lock", !.task = t]]
    /\ UNCHANGED <<store, ingress, lock, redis, late, faults>>

To(w, pc) == worker' = [worker EXCEPT ![w].pc = pc]
Unlock(w) == lock' = IF lock = w THEN NoWorker ELSE lock
Rest(w) == worker' = [worker EXCEPT ![w] = Resting] /\ Unlock(w)
Abort(w) ==
    /\ worker' = [worker EXCEPT ![w] = [Resting EXCEPT !.pc = "failed", !.task = worker[w].task]]
    /\ Unlock(w)

(* Execute, to the decision.  The count is that of this moment: a follow   *)
(* may come before the decision is saved.                                  *)
Enter(w) ==
    LET t == worker[w].task
        previous == IF author.started \/ Kind(t) = "pair" THEN author.celebrity ELSE redis.celebrity
        desired == DecideCelebrity(previous, FollowerCount)
    IN
    /\ worker[w].pc = "lock" /\ lock = NoWorker
    /\ IF Holds(t, w)
       THEN /\ lock' = w
            /\ worker' = [worker EXCEPT ![w] = [@ EXCEPT !.pc = "decide", !.celebrity = desired]]
       ELSE Abort(w)
    /\ UNCHANGED <<rows, store, ingress, redis, late, faults>>

(* A pair waits for an author task to decide the author's status; an       *)
(* author task starts over when the status changes.  To the first          *)
(* SaveAuthor.                                                             *)
Decide(w) ==
    LET t == worker[w].task
        settled == author.started /\ worker[w].celebrity = author.celebrity
    IN
    /\ worker[w].pc = "decide"
    /\ \/ /\ lock # w
          /\ Abort(w) /\ UNCHANGED <<rows, author>>
       \/ /\ lock = w /\ Kind(t) = "pair" /\ ~settled
          /\ \/ Yield(t, w) /\ Rest(w)
             \/ ~Holds(t, w) /\ Abort(w) /\ UNCHANGED rows
          /\ UNCHANGED author
       \/ /\ lock = w /\ (Kind(t) = "pair" => settled)
          /\ author' = [started |-> TRUE, epoch |-> author.epoch + 1,
                        celebrity |-> worker[w].celebrity,
                        cursor |-> IF settled THEN author.cursor ELSE 0,
                        complete |-> settled /\ author.complete]
          /\ worker' = [worker EXCEPT ![w] = [@ EXCEPT !.pc = "begin", !.epoch = author'.epoch]]
          /\ UNCHANGED <<rows, lock>>
    /\ UNCHANGED <<relations, log, checkpoint, ingress, redis, late, faults>>

(* A Redis command of the worker: the error path when it is rejected.      *)
Send(w, Continue) ==
    /\ IF Accepted(Command(w)) THEN redis' = Applied(Command(w)) /\ Continue
                               ELSE Abort(w) /\ UNCHANGED redis
    /\ UNCHANGED <<rows, store, ingress, late, faults>>

(* The next statement runs on the locked connection.                       *)
OnLockedConnection(w, Continue) == IF lock = w THEN Continue /\ UNCHANGED lock ELSE Abort(w)

(* Begin, and the reads that follow it: the page and who of it follows.    *)
BeginAuthor(w) ==
    /\ worker[w].pc = "begin" /\ Kind(worker[w].task) = "author"
    /\ Send(w, OnLockedConnection(w,
         LET page == Page(Len(relations), author.cursor)
         IN IF author.complete THEN To(w, "advance")
            ELSE worker' = [worker EXCEPT ![w] =
                    [@ EXCEPT !.pc = "mark", !.page = page, !.more = More(Len(relations), author.cursor),
                              !.todo = Marks(page, worker[w].celebrity)]]))

(* A generation that changed starts the pair over.                         *)
Resumed(p, fact) ==
    IF p.initialized /\ p.generation = fact.generation THEN p
    ELSE [cursor |-> 0, generation |-> fact.generation, initialized |-> TRUE]

BeginPair(w) ==
    /\ worker[w].pc = "begin" /\ Kind(worker[w].task) = "pair"
    /\ Send(w, OnLockedConnection(w,
         LET t == worker[w].task
             fact == ReadPair(Follower(t))
         IN worker' = [worker EXCEPT ![w] =
              [@ EXCEPT !.pc = "mark", !.fact = fact, !.p = Resumed(checkpoint[t[1]], fact),
                        !.todo = <<[follower |-> Follower(t), on |-> worker[w].celebrity /\ fact.active]>>]]))

(* Cache.Follower, row by row                                              *)
Mark(w) ==
    /\ worker[w].pc = "mark"
    /\ Send(w, LET rest == Tail(worker[w].todo)
                   next(pc) == worker' = [worker EXCEPT ![w] = [@ EXCEPT !.pc = pc, !.todo = rest]]
               IN IF rest # <<>> THEN next("mark") /\ UNCHANGED lock
                  ELSE OnLockedConnection(w,
                         next(IF Kind(worker[w].task) = "author" THEN "save" ELSE "tweets")))

(* Cache.PairTweets                                                        *)
WriteTweets(w) ==
    /\ worker[w].pc = "tweets"
    /\ Send(w, To(w, "recheck") /\ UNCHANGED lock)

(* The relation is read again.                                             *)
Recheck(w) ==
    LET t == worker[w].task IN
    /\ worker[w].pc = "recheck"
    /\ OnLockedConnection(w, worker' = [worker EXCEPT ![w] =
          [@ EXCEPT !.pc = "advance", !.changed = ReadPair(Follower(t)) # worker[w].fact]])
    /\ UNCHANGED <<rows, store, ingress, redis, late, faults>>

(* The pair advances; it starts over when the relation changed.            *)
AdvancePair(w) ==
    LET t == worker[w].task
        p == worker[w].p
        changed == worker[w].changed
        more == More(Tweets, p.cursor)
    IN
    /\ worker[w].pc = "advance" /\ Kind(t) = "pair"
    /\ IF lock = w /\ Holds(t, w)
       THEN /\ IF changed \/ more THEN Yield(t, w) ELSE Complete(t, w)
            /\ checkpoint' = [checkpoint EXCEPT ![t[1]] =
                  IF changed THEN [p EXCEPT !.cursor = 0, !.initialized = FALSE]
                  ELSE [p EXCEPT !.cursor = Next0(Page(Tweets, p.cursor), more)]]
            /\ Rest(w)
       ELSE Abort(w) /\ UNCHANGED <<rows, checkpoint>>
    /\ UNCHANGED <<relations, log, author, ingress, redis, late, faults>>

(* fault: the row is saved on any connection, as the worker remembers it.  *)
SaveUnlocked(w) ==
    /\ worker[w].pc = "save"
    /\ author' = [author EXCEPT !.epoch = worker[w].epoch, !.celebrity = worker[w].celebrity,
                                !.cursor = Next0(worker[w].page, worker[w].more),
                                !.complete = ~worker[w].more]
    /\ To(w, "advance")
    /\ UNCHANGED <<rows, relations, log, checkpoint, ingress, lock, redis, late, faults>>

(* The second SaveAuthor                                                   *)
Save(w) ==
    /\ worker[w].pc = "save"
    /\ IF lock = w
       THEN /\ author' = [author EXCEPT !.cursor = Next0(worker[w].page, worker[w].more),
                                        !.complete = ~worker[w].more]
            /\ To(w, "advance") /\ UNCHANGED lock
       ELSE Abort(w) /\ UNCHANGED author
    /\ UNCHANGED <<rows, relations, log, checkpoint, ingress, redis, late, faults>>

AdvanceAuthor(w) ==
    LET t == worker[w].task IN
    /\ worker[w].pc = "advance" /\ Kind(t) = "author"
    /\ IF lock = w /\ Holds(t, w)
       THEN (IF author.complete THEN Complete(t, w) ELSE Yield(t, w)) /\ Rest(w)
       ELSE Abort(w) /\ UNCHANGED rows
    /\ UNCHANGED <<store, ingress, redis, late, faults>>

(* Tick, when Execute returned an error: FailClaim, Interrupt when the     *)
(* runner is stopping, or neither, when the claim is gone, the statement   *)
(* fails or the process has died.                                          *)
GiveBack(w) ==
    LET t == worker[w].task IN
    /\ worker[w].pc = "failed"
    /\ FailClaim(t, w) \/ Interrupt(t, w) \/ UNCHANGED rows
    /\ Rest(w)
    /\ UNCHANGED <<store, ingress, redis, late, faults>>

-----------------------------------------------------------------------------
Sends == {"begin", "mark", "tweets"}
Executes == Sends \cup {"lock", "decide", "recheck", "save", "advance"}

(* A statement or command fails before it has an effect, the page's        *)
(* deadline passes, the runner stops, or the process dies.                 *)
Stumble(w) ==
    /\ worker[w].pc \in Executes
    /\ Faulty
    /\ Abort(w)
    /\ UNCHANGED <<rows, store, ingress, redis, late>>

(* A command is given up while it is on its way.                           *)
TimeOut(w) ==
    /\ worker[w].pc \in Sends /\ late = NoCommand
    /\ Faulty
    /\ late' = Command(w)
    /\ Abort(w)
    /\ UNCHANGED <<rows, store, ingress, redis>>

Land ==
    /\ late # NoCommand
    /\ redis' = IF Accepted(late) THEN Applied(late) ELSE redis
    /\ late' = NoCommand
    /\ UNCHANGED <<rows, store, ingress, lock, worker, faults>>

(* The session that holds the lock ends; the worker does not know.         *)
LoseLock(w) ==
    /\ lock = w
    /\ Faulty
    /\ lock' = NoWorker
    /\ UNCHANGED <<rows, store, ingress, redis, late, worker>>

(* The lease runs out: at once when its worker is gone, and under a worker *)
(* that is held up.                                                        *)
Lapse(t) ==
    /\ LeaseExpires(t)
    /\ IF worker[rows[t].owner].task = t THEN Faulty ELSE UNCHANGED faults
    /\ UNCHANGED <<store, ingress, lock, redis, late, worker>>

Recover(t) ==
    /\ RecoverExpired(t)
    /\ UNCHANGED <<store, ingress, lock, redis, late, worker, faults>>

(* Entries of other authors come into the timeline, from their pages or    *)
(* from the fan-out of their tweets, and push out all but k of this        *)
(* author's; or the timeline, a cache, expires with all it holds.          *)
Evict(f, k) ==
    LET kept == Newest(redis.timeline, {f}, k) IN
    /\ kept # redis.timeline
    /\ Faulty
    /\ redis' = [redis EXCEPT !.timeline = kept, !.evicted = Written \ kept]
    /\ UNCHANGED <<rows, store, ingress, lock, late, worker>>

-----------------------------------------------------------------------------
Step(w) ==
    \/ Enter(w) \/ Decide(w) \/ BeginAuthor(w) \/ BeginPair(w) \/ Mark(w)
    \/ WriteTweets(w) \/ Recheck(w) \/ AdvancePair(w) \/ Save(w) \/ AdvanceAuthor(w) \/ GiveBack(w)

Next ==
    \/ \E f \in Followers : Change(f)
    \/ \E e \in Events : Handle(e) \/ RouteFailure(e)
    \/ \E w \in Workers : Step(w) \/ Stumble(w) \/ TimeOut(w) \/ LoseLock(w)
    \/ \E w \in Workers, t \in Tasks : ClaimTask(w, t)
    \/ \E t \in Tasks : Lapse(t) \/ Recover(t)
    \/ Land
    \/ \E f \in Followers, k \in 0 .. Capacity - 1 : Evict(f, k)

Spec == Init /\ [][Next]_vars

-----------------------------------------------------------------------------
Commands ==
    [kind : {"none", "begin", "mark", "tweets"}, epoch : Nat, follower : SUBSET Followers,
     page : SUBSET (1 .. Tweets), on : BOOLEAN]

(* Types, and the bounds a type does not show: no execution has an epoch   *)
(* beyond the author's, a page holds at most PageSize rows, and a timeline *)
(* at most the Capacity newest entries.                                    *)
TypeOK ==
    /\ rows \in [Tasks -> Rows]
    /\ \A i \in DOMAIN relations : relations[i] \in [follower : Followers, live : BOOLEAN]
    /\ Len(messages) = Len(log) /\ Len(receipts) <= Len(log)
    /\ author.epoch \in Nat /\ author.cursor \in 0 .. Len(relations)
    /\ redis.fence <= author.epoch /\ redis.marked \subseteq Followers
    /\ Written \subseteq Followers \X (1 .. Tweets)
    /\ Newest(redis.timeline, Followers, Capacity) = redis.timeline
    /\ late \in Commands /\ late.epoch <= author.epoch
    /\ lock \in Workers \cup {NoWorker}
    /\ \A w \in Workers : /\ worker[w].epoch <= author.epoch
                          /\ Cardinality(worker[w].page) <= PageSize
    /\ faults \in 0 .. MaxFaults

LastEvent(f) == Max({e \in DOMAIN log : log[e] = f} \cup {0})
Succeeded(t) == rows[t].status = "success"

(* When the pair task of a follower's latest change has succeeded, the     *)
(* follower's timeline shows the author as the relation does: a follower's *)
(* has every tweet of the author but those that newer entries or an expiry *)
(* pushed out since they were written, and a timeline of one who does not  *)
(* follow has none, whatever the tasks of earlier changes, workers that    *)
(* lost the lock and commands that land late still do.                     *)
TimelineExact ==
    \A f \in Followers :
        LastEvent(f) > 0 /\ Succeeded(<<LastEvent(f), "pair">>) =>
            \A i \in 1 .. Tweets : IF Following(f) THEN <<f, i>> \in Written
                                                  ELSE <<f, i>> \notin redis.timeline

Settled == Len(log) = Len(receipts) /\ \A e \in DOMAIN log, k \in {"author", "pair"} : Succeeded(<<e, k>>)

(* When every task has succeeded, the author's status fits the number of   *)
(* followers, Redis agrees with it, and exactly the followers of a         *)
(* celebrity carry its mark.                                               *)
MarksExact ==
    Settled /\ log # <<>> =>
        /\ author.complete
        /\ author.celebrity = DecideCelebrity(author.celebrity, FollowerCount)
        /\ redis.celebrity = author.celebrity
        /\ \A f \in Followers : (f \in redis.marked) = (author.celebrity /\ Following(f))
=============================================================================
