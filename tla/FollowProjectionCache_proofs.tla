-------------------- MODULE FollowProjectionCache_proofs --------------------
(***************************************************************************)
(* What the projection promises of Redis, for any number of followers,     *)
(* tweets, changes, workers and faults: the followers' timelines           *)
(* (TimelinesAreExact) and the author's marks (MarksAreExact).  Steps are  *)
(* taken in the classes of FollowProjection_proofs.                        *)
(*                                                                         *)
(* The timelines.  Once the pair task of a follower's last event has begun,*)
(* everybody who would write what the follower no longer is has an epoch   *)
(* below the fence (TweetsInv): Begin was sent under the lock, with the    *)
(* largest epoch there is, and the follower has not changed since.  So no  *)
(* write that Redis takes spoils what is right, and what lies behind the   *)
(* checkpoint's cursor stays right (CoverInv).  A worker that advances the *)
(* checkpoint holds the claim, so its cursor is the checkpoint's           *)
(* (ResumeInv), and page and checkpoint fit together.  A timeline keeps    *)
(* only its newest entries, so a tweet is right when it was written and not*)
(* removed since, whether or not it has been pushed out (Written).         *)
(*                                                                         *)
(* The marks.  A mark is written from two sides: by the pair task of the   *)
(* follower, and by the scan of an author task, which may be about to      *)
(* start over.  A follower whose pair task is past its mark fits, that is, *)
(* its mark is right and whoever would write the opposite is outdated, or  *)
(* the scan will still come to one of its rows (MarkInv).  ScanInv carries *)
(* this through a page: the rows a page leaves behind belong to followers  *)
(* that fit or that the page is about to mark right.  The last author task *)
(* decides with the number of followers as it is now; nobody decides       *)
(* otherwise after it (DecidedInv), nobody tells Redis otherwise (ToldInv) *)
(* and the scan is over when it succeeds (CompleteInv).                    *)
(***************************************************************************)
EXTENDS FollowProjection_proofs

(* The pair task of the follower's latest change                           *)
Pair(f) == <<LastEvent(f), "pair">>

(* A worker is about to write what the follower no longer is.              *)
StaleTweets(w, f) ==
    /\ worker[w].pc \in {"mark", "tweets"} /\ Kind(worker[w].task) = "pair"
    /\ Follower(worker[w].task) = f /\ worker[w].fact.active # Following(f)

(* Whoever is about to is outdated, and so is such a command on its way.   *)
TweetsFresh(f) ==
    /\ \A w \in Workers : StaleTweets(w, f) => worker[w].epoch < redis.fence
    /\ late.kind = "tweets" /\ f \in late.follower /\ late.on # Following(f) => late.epoch < redis.fence

(* The stages of a pair page behind its reads                              *)
PairStages == {"mark", "tweets", "recheck", "advance"}

(* Somebody has read the relation for the follower's last event.           *)
Begun(f) ==
    \/ Succeeded(Pair(f))
    \/ checkpoint[LastEvent(f)].initialized
    \/ \E w \in Workers : worker[w].task = Pair(f) /\ worker[w].pc \in PairStages

TweetsInv == \A f \in Followers : LastEvent(f) > 0 /\ Begun(f) => TweetsFresh(f)

(* The holder of the claim goes on from the checkpoint as it is.           *)
ResumeInv ==
    \A w \in Workers : worker[w].pc \in PairStages /\ Kind(worker[w].task) = "pair" =>
        /\ worker[w].p.initialized
        /\ Holds(worker[w].task, w) =>
              worker[w].p = Resumed(checkpoint[worker[w].task[1]], worker[w].fact)

(* What the follower's timeline got is right for the tweets in I, and these*)
(* are the tweets a checkpoint has behind it, all of them when the cursor  *)
(* is back at 0.                                                           *)
Right(f, I) == \A i \in I : (<<f, i>> \in Written) = Following(f)
Behind(p) == {i \in 1 .. Tweets : p.cursor = 0 \/ i >= p.cursor}

(* What is behind the checkpoint is right, everything is when the task has *)
(* succeeded, and so is the page that a worker has written.                *)
CoverInv ==
    \A f \in Followers : LastEvent(f) > 0 =>
        /\ checkpoint[LastEvent(f)].initialized => Right(f, Behind(checkpoint[LastEvent(f)]))
        /\ Succeeded(Pair(f)) => Right(f, 1 .. Tweets)
        /\ \A w \in Workers : worker[w].task = Pair(f) /\ worker[w].pc \in {"recheck", "advance"} =>
              Right(f, Page(Tweets, worker[w].p.cursor))

TimelineInv == Base /\ TweetsInv /\ ResumeInv /\ CoverInv

-----------------------------------------------------------------------------
(* The pair task of the last event is one of the follower's.               *)
LEMMA PairFacts ==
  ASSUME TypeInv, NEW f, LastEvent(f) > 0
  PROVE  /\ Pair(f) \in Tasks /\ Pair(f)[1] = LastEvent(f) /\ Kind(Pair(f)) = "pair"
         /\ Follower(Pair(f)) = f /\ LastEvent(f) \in Events
<1>1. LastEvent(f) \in 1 .. Len(log) /\ Len(log) <= MaxChanges /\ Len(log) \in Nat /\ MaxChanges \in Nat
      /\ log[LastEvent(f)] = f
  BY LastEventFacts, ProjectionAssumption DEF TypeInv
<1>2. LastEvent(f) \in Events
  BY <1>1 DEF Events
<1> QED BY <1>1, <1>2, ProjectionAssumption DEF Pair, Kind, Follower

(* What is read from the relations and the log only                        *)
LEMMA Steady ==
  ASSUME UNCHANGED <<relations, log>>
  PROVE  /\ \A f : LastEvent(f)' = LastEvent(f) /\ Pair(f)' = Pair(f)
         /\ \A f : Following(f)' = Following(f) /\ RowsOf(f)' = RowsOf(f)
         /\ \A t : Follower(t)' = Follower(t)
         /\ FollowerCount' = FollowerCount
BY DEF LastEvent, Pair, Following, RowsOf, LiveRows, Follower, FollowerCount

(* Nothing has happened yet to the tasks of the event that a change adds.  *)
LEMMA NewEvent ==
  ASSUME Base, NEW f \in Followers, Change(f), NEW t \in Tasks, t[1] = Len(log) + 1
  PROVE  /\ rows'[t].status = "absent" /\ ~checkpoint'[t[1]].initialized
         /\ \A w \in Workers : worker'[w].pc # "idle" => worker'[w].task # t
<1>1. Len(log) \in Nat /\ UNCHANGED <<rows, checkpoint, worker>>
  BY DEF Base, TypeInv, Change
<1>2. rows[t].status = "absent"
  BY <1>1, FollowerType DEF Base
<1>3. ~checkpoint[t[1]].initialized
  BY <1>1, TaskFacts DEF Base, KnownInv
<1>4. \A w \in Workers : worker[w].pc # "idle" => worker[w].task # t
  BY <1>2 DEF Base, StageInv, Staged
<1> QED BY <1>1, <1>2, <1>3, <1>4

(* A change starts its follower over.                                      *)
LEMMA ChangeRestarts ==
  ASSUME Base, NEW f \in Followers, Change(f)
  PROVE  ~Begun(f)' /\ LastEvent(f)' = Len(log) + 1 /\ Pair(f)' \in Tasks
<1>1. LastEvent(f)' = Len(log) + 1
  BY ChangeEvents
<1>2. Len(log) + 1 \in Events
  BY ChangeFacts, ProjectionAssumption DEF Events, Base, TypeInv
<1> DEFINE t == <<Len(log) + 1, "pair">>
<1>3. t \in Tasks /\ t[1] = Len(log) + 1 /\ Pair(f)' = t
  BY <1>1, <1>2, ProjectionAssumption DEF Pair
<1> HIDE DEF t
<1>4. /\ rows'[t].status = "absent" /\ ~checkpoint'[t[1]].initialized
      /\ \A w \in Workers : worker'[w].pc # "idle" => worker'[w].task # t
  BY <1>3, NewEvent
<1> QED BY <1>1, <1>3, <1>4 DEF Begun, Succeeded, PairStages

(* The fence only rises.                                                   *)
LEMMA FenceRises ==
  ASSUME Base, [Next]_vars PROVE redis'.fence >= redis.fence /\ redis.fence \in Nat /\ redis'.fence \in Nat
<1>t. redis.fence \in Nat /\ redis'.fence \in Nat
  BY TypeKept DEF Base, TypeInv, Caches
<1>0. CASE Calm
  BY <1>0, <1>t DEF Calm, CacheCalm
<1>1. ASSUME NEW f \in Followers, Change(f) PROVE redis'.fence >= redis.fence
  BY <1>1, <1>t DEF Change
<1>2. ASSUME NEW c \in Commands, Lost(c) PROVE redis'.fence >= redis.fence
  BY <1>2, <1>t, LostFacts
<1>3. ASSUME NEW w \in Workers, Progress(w) PROVE redis'.fence >= redis.fence
  <2>1. worker[w].epoch \in Nat
    BY DEF Base, TypeInv, WorkerStates
  <2> QED BY <1>3, <1>t, <2>1 DEF Progress, TimedOut, EnterGo, DecideGo, BeginGo, MarkGo, WriteGo,
             RecheckGo, SaveGo, AdvanceGo
<1> QED BY <1>t, <1>0, <1>1, <1>2, <1>3, StepClasses

(* Once the holder of the lock has installed its epoch, every other        *)
(* command is stale.                                                       *)
LEMMA OthersStale ==
  ASSUME Base, NEW w \in Workers, BeginGo(w)
  PROVE  /\ redis'.fence = author.epoch
         /\ \A v \in Workers : v # w /\ worker[v].pc \in Busy => worker[v].epoch < redis'.fence
         /\ late.kind # "none" => late.epoch < redis'.fence
<1>t. author.epoch \in Nat /\ late.epoch \in Nat /\ \A v \in Workers : worker[v].epoch \in Nat
  BY DEF Base, TypeInv, Commands, Authors, WorkerStates
<1>1. redis'.fence = author.epoch /\ worker[w].epoch = author.epoch /\ worker[w].pc \in Busy
  BY DEF BeginGo, Base, LockInv, Busy
<1> QED BY <1>1, <1>t DEF Base, EpochInv

(* The fence outdates who would write what the follower no longer is.      *)
LEMMA TweetsKept ==
  ASSUME TimelineInv, [Next]_vars PROVE TweetsInv'
<1> SUFFICES ASSUME NEW f \in Followers, LastEvent(f)' > 0, Begun(f)' PROVE TweetsFresh(f)'
  BY DEF TweetsInv
<1>b. Base /\ TweetsInv
  BY DEF TimelineInv
<1>f. redis'.fence >= redis.fence /\ redis.fence \in Nat /\ redis'.fence \in Nat
  BY <1>b, FenceRises
<1>t. late.epoch \in Nat /\ \A v \in Workers : worker[v].epoch \in Nat
  BY <1>b DEF Base, TypeInv, Commands, WorkerStates
<1>n. NoCommand.kind = "none"
  BY DEF NoCommand
<1>q. \A r : Quiet(r) => r.pc \notin PairStages
  BY DEF Quiet, PairStages
<1>0. ASSUME LastEvent(f) > 0, Begun(f), Following(f)' = Following(f),
             \A v \in Workers : worker'[v].pc \in {"mark", "tweets"} =>
                 /\ worker[v].pc \in {"mark", "tweets"} /\ worker'[v].task = worker[v].task
                 /\ worker'[v].fact = worker[v].fact /\ worker'[v].epoch = worker[v].epoch
                 /\ log'[worker[v].task[1]] = log[worker[v].task[1]],
             late' \in {late, NoCommand}
      PROVE  TweetsFresh(f)'
  <2>1. TweetsFresh(f)
    BY <1>0, <1>b DEF TweetsInv
  <2>2. ASSUME NEW v \in Workers, StaleTweets(v, f)' PROVE StaleTweets(v, f) /\ worker'[v].epoch = worker[v].epoch
    BY <1>0, <2>2 DEF StaleTweets, Follower
  <2> QED BY <1>0, <1>f, <1>n, <1>t, <2>1, <2>2 DEF TweetsFresh
<1>1. CASE Calm
  <2>0. LastEvent(f)' = LastEvent(f) /\ Pair(f)' = Pair(f) /\ LastEvent(f) > 0
    BY <1>1, Steady DEF Calm, CacheCalm
  <2>a. Pair(f) \in Tasks
    BY <1>b, <2>0, PairFacts DEF Base
  <2>b. Succeeded(Pair(f))' => Succeeded(Pair(f))
    BY <1>1, <2>0, <2>a DEF Calm, CacheCalm, RowsCalm, Succeeded
  <2>1. Begun(f) /\ LastEvent(f) > 0
    BY <1>1, <1>q, <2>0, <2>b DEF Calm, CacheCalm, WorkersCalm, Begun
  <2> QED BY <1>0, <1>1, <1>q, <2>1, Steady DEF Calm, CacheCalm, WorkersCalm, PairStages
<1>2. ASSUME NEW g \in Followers, Change(g) PROVE TweetsFresh(f)'
  <2>1. g # f
    BY <1>2, <1>b, ChangeRestarts
  <2>2. /\ LastEvent(f)' = LastEvent(f) /\ Following(f)' = Following(f) /\ Pair(f)' = Pair(f)
    BY <1>2, <1>b, <2>1, ChangeFacts, ChangeEvents DEF Pair
  <2>3. UNCHANGED <<rows, checkpoint, worker, late>>
    BY <1>2 DEF Change
  <2>4. Begun(f) /\ LastEvent(f) > 0
    BY <2>2, <2>3 DEF Begun, Succeeded
  <2>5. \A e \in 1 .. Len(log) : log'[e] = log[e]
    BY <1>2, <1>b, ChangeFacts
  <2>6. \A v \in Workers : worker[v].pc # "idle" => worker[v].task[1] \in 1 .. Len(log)
    BY <1>b, FollowerType DEF Base, StageInv, Staged
  <2>7. \A v \in Workers : worker'[v].pc \in {"mark", "tweets"} =>
                 /\ worker[v].pc \in {"mark", "tweets"} /\ worker'[v].task = worker[v].task
                 /\ worker'[v].fact = worker[v].fact /\ worker'[v].epoch = worker[v].epoch
                 /\ log'[worker[v].task[1]] = log[worker[v].task[1]]
    BY <2>3, <2>5, <2>6
  <2> QED BY <1>0, <2>2, <2>3, <2>4, <2>7
<1>3. ASSUME NEW c \in Commands, Lost(c) PROVE TweetsFresh(f)'
  <2>1. Begun(f) /\ LastEvent(f) > 0
    BY <1>3, <1>q, Steady DEF Lost, WorkersCalm, Begun, Succeeded
  <2> QED BY <1>0, <1>3, <1>q, <2>1, Steady DEF Lost, WorkersCalm, PairStages
<1>4. ASSUME NEW w \in Workers, Progress(w), ~BeginGo(w) PROVE TweetsFresh(f)'
  <2>s. UNCHANGED <<relations, log>> /\ Only(w)
    BY <1>4 DEF Progress, TimedOut, EnterGo, DecideGo, MarkGo, WriteGo, RecheckGo, SaveGo, AdvanceGo, Frame
  <2>e. /\ LastEvent(f)' = LastEvent(f) /\ Following(f)' = Following(f) /\ Pair(f)' = Pair(f)
    BY <2>s, Steady
  <2>p. LastEvent(f) > 0 /\ Pair(f) \in Tasks /\ Pair(f)[1] = LastEvent(f) /\ Kind(Pair(f)) = "pair"
    BY <1>b, <2>e, PairFacts DEF Base
  <2>1. Begun(f)
    <3>1. CASE ~AdvanceGo(w)
      <4>1. UNCHANGED <<rows, checkpoint>>
        BY <1>4, <3>1 DEF Progress, TimedOut, EnterGo, DecideGo, MarkGo, WriteGo, RecheckGo, SaveGo, Frame
      <4>2. worker'[w].pc \in PairStages /\ Kind(worker'[w].task) = "pair" =>
               worker[w].pc \in PairStages /\ worker'[w].task = worker[w].task
        <5>1. SaveGo(w) => Kind(worker[w].task) = "author" /\ worker'[w].task = worker[w].task
          BY <1>b DEF SaveGo, SamePage, Base, StageInv, Staged
        <5> QED BY <1>4, <1>q, <3>1, <5>1 DEF Progress, TimedOut, EnterGo, DecideGo, MarkGo, WriteGo, RecheckGo,
               SaveGo, SamePage, PairStages
      <4> QED BY <2>s, <2>e, <2>p, <4>1, <4>2 DEF Begun, Succeeded, Only
    <3>2. CASE AdvanceGo(w)
      <4>1. CASE worker[w].task = Pair(f)
        BY <3>2, <4>1 DEF AdvanceGo, Begun, PairStages
      <4>2. CASE worker[w].task # Pair(f)
        <5>1. rows'[Pair(f)] = rows[Pair(f)]
          BY <3>2, <4>2, <2>p DEF AdvanceGo
        <5>2. checkpoint'[LastEvent(f)] = checkpoint[LastEvent(f)]
          <6>1. worker[w].task \in Tasks
            BY <3>2, <1>b DEF AdvanceGo, Base, StageInv, Staged
          <6>2. Kind(worker[w].task) = "pair" => worker[w].task[1] # LastEvent(f)
            BY <4>2, <6>1, ProjectionAssumption DEF Pair, Kind
          <6> QED BY <3>2, <6>2, <1>b, <2>p, PairFacts DEF AdvanceGo, Base
        <5> QED BY <3>2, <5>1, <5>2, <1>q, <2>s, <2>e DEF Begun, Succeeded, Only, AdvanceGo
      <4> QED BY <4>1, <4>2
    <3> QED BY <3>1, <3>2
  <2>2. CASE TimedOut(w)
    <3>1. TweetsFresh(f)
      BY <1>b, <2>p, <2>1 DEF TweetsInv
    <3>2. late'.kind = "tweets" => /\ worker[w].pc = "tweets" /\ late'.epoch = worker[w].epoch
                                   /\ late'.follower = {Follower(worker[w].task)}
                                   /\ late'.on = worker[w].fact.active
      BY <2>2, <1>b, CommandFacts DEF TimedOut, Base
    <3>3. late'.kind = "tweets" => Kind(worker[w].task) = "pair"
      BY <3>2, <1>b DEF Base, StageInv, Staged
    <3>4. late'.kind = "tweets" /\ f \in late'.follower /\ late'.on # Following(f) => StaleTweets(w, f)
      BY <3>2, <3>3 DEF StaleTweets
    <3>5. late'.kind = "tweets" /\ f \in late'.follower /\ late'.on # Following(f)' => late'.epoch < redis'.fence
      BY <2>e, <2>2, <3>1, <3>2, <3>4 DEF TweetsFresh, TimedOut
    <3>6. ASSUME NEW v \in Workers, StaleTweets(v, f)' PROVE StaleTweets(v, f) /\ worker'[v].epoch = worker[v].epoch
      BY <2>2, <2>s, <2>e, <1>q, <3>6 DEF StaleTweets, Follower, Only, TimedOut, PairStages
    <3> QED BY <2>2, <3>1, <3>5, <3>6 DEF TweetsFresh, TimedOut
  <2>3. CASE ~TimedOut(w)
    <3>1. late' = late
      BY <1>4, <2>3 DEF Progress, EnterGo, DecideGo, MarkGo, WriteGo, RecheckGo, SaveGo, AdvanceGo, Frame
    <3>2. worker'[w].pc \in {"mark", "tweets"} =>
                 /\ worker[w].pc \in {"mark", "tweets"} /\ worker'[w].task = worker[w].task
                 /\ worker'[w].fact = worker[w].fact /\ worker'[w].epoch = worker[w].epoch
      BY <1>4, <2>3 DEF Progress, EnterGo, DecideGo, MarkGo, WriteGo, RecheckGo, SaveGo, AdvanceGo, SamePage
    <3> QED BY <1>0, <2>s, <2>e, <2>p, <2>1, <3>1, <3>2 DEF Only
  <2> QED BY <2>2, <2>3
<1>5. ASSUME NEW w \in Workers, BeginGo(w) PROVE TweetsFresh(f)'
  <2>1. /\ \A v \in Workers : v # w /\ worker[v].pc \in Busy => worker[v].epoch < redis'.fence
        /\ late.kind # "none" => late.epoch < redis'.fence
    BY <1>b, <1>5, OthersStale
  <2>2. UNCHANGED <<relations, log, late>> /\ Only(w)
    BY <1>5 DEF BeginGo, Frame
  <2>3. ~StaleTweets(w, f)'
    <3>1. CASE worker'[w].pc = "mark" /\ Kind(worker[w].task) = "pair"
      <4>1. worker'[w].task = worker[w].task /\ worker'[w].fact = ReadPair(Follower(worker[w].task))
        BY <1>5, <3>1 DEF BeginGo
      <4>2. worker'[w].fact.active = Following(Follower(worker[w].task))
        BY <1>b, <4>1, ReadPairType DEF Base
      <4>3. Follower(worker[w].task)' = Follower(worker[w].task)
        BY <2>2, <4>1 DEF Follower
      <4>4. Following(f)' = Following(f)
        BY <2>2, Steady
      <4> QED BY <4>2, <4>3, <4>4 DEF StaleTweets
    <3>2. CASE ~(worker'[w].pc = "mark" /\ Kind(worker[w].task) = "pair")
      BY <1>5, <3>2 DEF BeginGo, StaleTweets
    <3> QED BY <3>1, <3>2
  <2>4. ASSUME NEW v \in Workers, StaleTweets(v, f)' PROVE worker'[v].epoch < redis'.fence
    BY <2>1, <2>2, <2>3, <2>4 DEF StaleTweets, Only, Busy, Past
  <2> QED BY <2>1, <2>2, <2>4 DEF TweetsFresh
<1> QED BY <1>b, <1>1, <1>2, <1>3, <1>4, <1>5, StepClasses

-----------------------------------------------------------------------------
(* The claim after the step, of a task that is named before it             *)
HeldNext(t, w) == rows'[t].status = "processing" /\ rows'[t].owner = w /\ rows'[t].leased

(* A worker's stage after it began and its page come from the step before, *)
(* unless it is the one that begins.                                       *)
LEMMA ResumeKept ==
  ASSUME TimelineInv, [Next]_vars PROVE ResumeInv'
<1>b. Base /\ ResumeInv
  BY DEF TimelineInv
<1>q. \A r : Quiet(r) => r.pc \notin PairStages
  BY DEF Quiet, PairStages
<1>r. \A cp, fact : Resumed(cp, fact).initialized
  BY DEF Resumed
<1> SUFFICES ASSUME NEW w \in Workers, worker'[w].pc \in PairStages, Kind(worker'[w].task) = "pair"
             PROVE  /\ worker'[w].p.initialized
                    /\ HeldNext(worker'[w].task, w) =>
                          worker'[w].p = Resumed(checkpoint'[worker'[w].task[1]], worker'[w].fact)
  BY DEF ResumeInv, Holds, HeldNext, Resumed, Kind
<1> DEFINE t == worker[w].task
           Goal == /\ worker'[w].p.initialized
                   /\ HeldNext(worker'[w].task, w) =>
                         worker'[w].p = Resumed(checkpoint'[worker'[w].task[1]], worker'[w].fact)
           Same == /\ worker[w].pc \in PairStages /\ worker'[w].task = t
                   /\ worker'[w].p = worker[w].p /\ worker'[w].fact = worker[w].fact
<1>0. ASSUME Same, HeldNext(t, w) => Holds(t, w) /\ checkpoint'[t[1]] = checkpoint[t[1]]
      PROVE  Goal
  <2>1. Kind(t) = "pair"
    BY <1>0
  <2> QED BY <1>0, <1>b, <2>1 DEF ResumeInv
<1>t. worker[w].pc \in PairStages => t \in Tasks
  BY <1>b DEF Base, StageInv, Staged, PairStages
<1>1. CASE Calm
  <2>1. worker'[w] = worker[w]
    BY <1>1, <1>q DEF Calm, CacheCalm, WorkersCalm
  <2>2. HeldNext(t, w) => Holds(t, w)
    <3>1. t \in Tasks
      BY <1>t, <2>1
    <3>2. HeldNext(t, w) => Holds(t, w) \/ worker'[w].pc = "lock"
      BY <1>1, <3>1 DEF Calm, CacheCalm, RowsCalm, Holds, HeldNext
    <3> QED BY <3>2 DEF PairStages
  <2> QED BY <1>0, <1>1, <2>1, <2>2 DEF Calm, CacheCalm
<1>2. ASSUME NEW f \in Followers, Change(f)
      PROVE  Goal
  BY <1>0, <1>2 DEF Change, Holds, HeldNext
<1>3. ASSUME NEW c \in Commands, Lost(c)
      PROVE  Goal
  BY <1>0, <1>3, <1>q DEF Lost, WorkersCalm, Holds, HeldNext
<1>4. ASSUME NEW v \in Workers, Progress(v), v # w
      PROVE  Goal
  <2>1. Only(v)
    BY <1>4 DEF Progress, TimedOut, EnterGo, DecideGo, BeginGo, MarkGo, WriteGo, RecheckGo, SaveGo, AdvanceGo
  <2>2. worker'[w] = worker[w]
    BY <1>4, <2>1 DEF Only
  <2>3. CASE AdvanceGo(v)
    <3>1. CASE worker[v].task = t
      <4>1. rows'[t].status # "processing"
        BY <2>3, <3>1 DEF AdvanceGo
      <4> QED BY <1>0, <2>2, <4>1 DEF Holds, HeldNext
    <3>2. CASE worker[v].task # t
      <4>1. rows'[t] = rows[t] /\ t \in Tasks
        BY <1>t, <2>2, <2>3, <3>2 DEF AdvanceGo
      <4>2. worker[v].task \in Tasks
        BY <2>3, <1>b DEF AdvanceGo, Base, StageInv, Staged
      <4>3. Kind(worker[v].task) = "pair" => worker[v].task[1] # t[1]
        BY <2>2, <3>2, <4>1, <4>2, ProjectionAssumption DEF Kind
      <4>4. t[1] \in Events
        BY <4>1, TaskFacts
      <4>5. checkpoint'[t[1]] = checkpoint[t[1]]
        BY <2>3, <4>3, <4>4 DEF AdvanceGo
      <4> QED BY <1>0, <2>2, <4>1, <4>5 DEF Holds, HeldNext
    <3> QED BY <3>1, <3>2
  <2>4. CASE ~AdvanceGo(v)
    <3>1. UNCHANGED <<rows, checkpoint>>
      BY <1>4, <2>4 DEF Progress, TimedOut, EnterGo, DecideGo, BeginGo, MarkGo, WriteGo, RecheckGo, SaveGo, Frame
    <3> QED BY <1>0, <2>2, <3>1 DEF Holds, HeldNext
  <2> QED BY <2>3, <2>4
<1>5. CASE BeginGo(w)
  <2>1. /\ worker'[w].task = t /\ checkpoint' = checkpoint
        /\ worker'[w].p = Resumed(checkpoint[t[1]], worker'[w].fact)
    BY <1>5 DEF BeginGo, Frame
  <2> QED BY <2>1, <1>r
<1>6. CASE Progress(w) /\ ~BeginGo(w)
  <2>1. Same /\ UNCHANGED <<rows, checkpoint>>
    <3>1. SaveGo(w) => Kind(worker[w].task) = "author" /\ worker'[w].task = worker[w].task
      BY <1>b DEF SaveGo, SamePage, Base, StageInv, Staged
    <3> QED BY <1>6, <1>q, <3>1 DEF Progress, TimedOut, EnterGo, DecideGo, MarkGo, WriteGo, RecheckGo,
               SaveGo, AdvanceGo, SamePage, PairStages, Frame
  <2> QED BY <1>0, <2>1 DEF Holds, HeldNext
<1> QED BY <1>b, <1>1, <1>2, <1>3, <1>4, <1>5, <1>6, StepClasses

-----------------------------------------------------------------------------
(* A write of what the follower is spoils nothing and puts its own entries *)
(* right.                                                                  *)
LEMMA GoodWrite ==
  ASSUME NEW f, NEW F, NEW P, NEW on \in BOOLEAN, NEW I,
         Written' = IF on THEN Written \cup (F \X P) ELSE Written \ (F \X P),
         f \in F => on = Following(f), Following(f)' = Following(f)
  PROVE  /\ Right(f, I) => Right(f, I)'
         /\ f \in F => Right(f, P)'
<1>1. Following(f) \in BOOLEAN
  BY DEF Following
<1>2. ASSUME NEW i \in I, Right(f, I) PROVE (<<f, i>> \in Written') = Following(f)
  BY <1>1, <1>2 DEF Right
<1>3. ASSUME NEW i \in P, f \in F PROVE (<<f, i>> \in Written') = Following(f)
  BY <1>1, <1>3
<1> QED BY <1>2, <1>3 DEF Right

(* What arrives late does not spoil a timeline that somebody has begun to  *)
(* bring up to date.                                                       *)
LEMMA LostKeepsRight ==
  ASSUME Base, TweetsInv, NEW c \in Commands, Lost(c), NEW f \in Followers, LastEvent(f) > 0, Begun(f), NEW I, Right(f, I)
  PROVE  Right(f, I)'
<1>1. Following(f)' = Following(f)
  BY Steady DEF Lost
<1>f. redis.fence \in Nat
  BY DEF Base, TypeInv, Caches
<1>2. TweetsFresh(f)
  BY DEF TweetsInv
<1>3. CASE c.kind # "tweets"
  <2>1. Written' = Written
    BY <1>3, AppliedFacts DEF Written, AllOf, Lost, Base, Commands
  <2> QED BY <1>1, <2>1 DEF Right
<1>4. CASE c.kind = "tweets"
  <2>1. Written' = IF c.on THEN Written \cup (c.follower \X c.page)
                                  ELSE Written \ (c.follower \X c.page)
    BY <1>4, AppliedFacts DEF Written, AllOf, Lost, Base
  <2>2. c.epoch = redis.fence
    BY <1>4, LostFacts
  <2>3. f \in c.follower => c.on = Following(f)
    <3>1. CASE c = late
      BY <3>1, <1>2, <1>4, <1>f, <2>2 DEF TweetsFresh
    <3>2. ASSUME NEW w \in Workers, worker[w].pc \in Sends, c = Command(w), f \in c.follower
          PROVE  c.on = Following(f)
      <4>1. /\ worker[w].pc = "tweets" /\ c.epoch = worker[w].epoch
            /\ f = Follower(worker[w].task) /\ c.on = worker[w].fact.active
        BY <3>2, <1>4, CommandFacts DEF Base
      <4>2. Kind(worker[w].task) = "pair"
        BY <4>1 DEF Base, StageInv, Staged
      <4> QED BY <1>2, <1>f, <2>2, <4>1, <4>2 DEF TweetsFresh, StaleTweets
    <3> QED BY <3>1, <3>2 DEF Lost
  <2>4. c.on \in BOOLEAN
    BY DEF Commands
  <2> QED BY <1>1, <2>1, <2>3, <2>4, GoodWrite
<1> QED BY <1>3, <1>4

(* Nor does a page of tweets that is written now.                          *)
LEMMA WriteKeepsRight ==
  ASSUME Base, TweetsInv, NEW w \in Workers, WriteGo(w), NEW f \in Followers, LastEvent(f) > 0, Begun(f), NEW I
  PROVE  /\ Right(f, I) => Right(f, I)'
         /\ Follower(worker[w].task) = f => Right(f, Page(Tweets, worker[w].p.cursor))'
<1>1. Following(f)' = Following(f)
  BY Steady DEF WriteGo, Frame
<1>f. redis.fence \in Nat
  BY DEF Base, TypeInv, Caches
<1>2. TweetsFresh(f)
  BY DEF TweetsInv
<1> DEFINE P == Page(Tweets, worker[w].p.cursor)
           F == {Follower(worker[w].task)}
<1>3. Written' = IF worker[w].fact.active THEN Written \cup (F \X P) ELSE Written \ (F \X P)
  BY DEF WriteGo
<1>4. f \in F => worker[w].fact.active = Following(f)
  <2>1. worker[w].pc = "tweets" /\ worker[w].epoch = redis.fence
    BY DEF WriteGo
  <2>2. Kind(worker[w].task) = "pair"
    BY <2>1 DEF Base, StageInv, Staged
  <2> QED BY <1>2, <1>f, <2>1, <2>2 DEF TweetsFresh, StaleTweets
<1>5. worker[w].fact.active \in BOOLEAN
  BY DEF Base, TypeInv, WorkerStates, Facts
<1>p. P' = Page(Tweets, worker'[w].p.cursor) /\ worker'[w].p = worker[w].p
  BY DEF WriteGo, SamePage, Page, Below
<1>6. f \in F <=> Follower(worker[w].task) = f
  OBVIOUS
<1> HIDE DEF F, P
<1>7. Right(f, I) => Right(f, I)'
  BY <1>1, <1>3, <1>4, <1>5, GoodWrite
<1>8. ASSUME f \in F PROVE \A i \in P : (<<f, i>> \in Written') = Following(f)
  BY <1>8, <1>3, <1>4, <1>5 DEF Following
<1>9. P' = P
  BY <1>p DEF P
<1> QED BY <1>1, <1>6, <1>7, <1>8, <1>9 DEF Right, P

-----------------------------------------------------------------------------
(* The tweets a page has behind it when it begins                          *)
Beyond(p) == {i \in 1 .. Tweets : p.cursor # 0 /\ i >= p.cursor}

(* A page and what lies behind it are what lies behind the next cursor; if *)
(* there are no more, that is everything.                                  *)
LEMMA NextCovers ==
  ASSUME NEW p \in Checkpoints, NEW q, q.cursor = Next0(Page(Tweets, p.cursor), More(Tweets, p.cursor))
  PROVE  /\ Behind(q) \subseteq Page(Tweets, p.cursor) \cup Beyond(p)
         /\ ~More(Tweets, p.cursor) => 1 .. Tweets \subseteq Page(Tweets, p.cursor) \cup Beyond(p)
<1>1. Tweets \in Nat /\ p.cursor \in Nat
  BY ProjectionAssumption DEF Checkpoints
<1> DEFINE c == p.cursor
           page == Page(Tweets, c)
<1>2. /\ page \subseteq Below(Tweets, c)
      /\ ~More(Tweets, c) => page = Below(Tweets, c)
      /\ More(Tweets, c) => /\ Min(page) > 1 /\ Min(page) \in page
                            /\ \A i \in Below(Tweets, c) : i \in page <=> i >= Min(page)
  BY <1>1, PageFacts
<1>3. ASSUME NEW i \in 1 .. Tweets PROVE i \in Below(Tweets, c) \/ i \in Beyond(p)
  BY <1>1 DEF Below, Beyond
<1>4. ASSUME ~More(Tweets, c), NEW i \in 1 .. Tweets PROVE i \in page \cup Beyond(p)
  BY <1>2, <1>3, <1>4
<1>5. ASSUME More(Tweets, c), NEW i \in Behind(q) PROVE i \in page \cup Beyond(p)
  <2>0. Min(page) \in Nat /\ Min(page) > 1
    BY <1>1, <1>2, <1>5, PageFacts
  <2>1. q.cursor = Min(page) /\ q.cursor # 0
    BY <1>5, <2>0 DEF Next0
  <2>2. i \in 1 .. Tweets /\ i >= Min(page)
    BY <1>5, <2>1 DEF Behind
  <2> HIDE DEF page
  <2> QED BY <1>2, <1>3, <1>5, <2>2
<1>6. Behind(q) \subseteq 1 .. Tweets
  BY DEF Behind
<1> QED BY <1>4, <1>5, <1>6

(* The pair task of the follower's last event advances.                    *)
LEMMA AdvanceCovers ==
  ASSUME TimelineInv, NEW w \in Workers, AdvanceGo(w), NEW f \in Followers, LastEvent(f) > 0,
         worker[w].task = Pair(f)
  PROVE  /\ checkpoint'[LastEvent(f)].initialized => Right(f, Behind(checkpoint'[LastEvent(f)]))
         /\ rows'[Pair(f)].status = "success" => Right(f, 1 .. Tweets)
<1> DEFINE p == worker[w].p
           cp == checkpoint[LastEvent(f)]
           page == Page(Tweets, p.cursor)
           q == checkpoint'[LastEvent(f)]
<1>b. Base /\ ResumeInv /\ CoverInv
  BY DEF TimelineInv
<1>1. Pair(f) \in Tasks /\ Pair(f)[1] = LastEvent(f) /\ Kind(Pair(f)) = "pair" /\ LastEvent(f) \in Events
  BY <1>b, PairFacts DEF Base
<1>2. worker[w].pc = "advance" /\ Holds(Pair(f), w)
  BY DEF AdvanceGo
<1>3. p = Resumed(cp, worker[w].fact)
  BY <1>b, <1>1, <1>2 DEF ResumeInv, PairStages
<1>4. Right(f, page)
  BY <1>b, <1>2 DEF CoverInv
<1>5. /\ cp.initialized => Right(f, Behind(cp))
  BY <1>b DEF CoverInv
<1>6. Right(f, page \cup Beyond(p))
  <2>1. CASE p = cp /\ cp.initialized
    BY <1>4, <1>5, <2>1 DEF Right, Behind, Beyond
  <2>2. CASE p.cursor = 0
    BY <1>4, <2>2 DEF Right, Beyond
  <2> QED BY <1>3, <2>1, <2>2 DEF Resumed
<1>7. p \in Checkpoints /\ q \in Checkpoints /\ cp \in Checkpoints
  <2>1. checkpoint' \in [Events -> Checkpoints]
    BY <1>1, <1>b DEF AdvanceGo, Base, TypeInv
  <2> QED BY <1>1, <1>b, <2>1 DEF Base, TypeInv, WorkerStates
<1>8. /\ rows'[Pair(f)].status = "success" => ~worker[w].changed /\ ~More(Tweets, p.cursor)
      /\ q.initialized => ~worker[w].changed
      /\ ~worker[w].changed => q = [p EXCEPT !.cursor = Next0(page, More(Tweets, p.cursor))]
  BY <1>1 DEF AdvanceGo
<1>9. ASSUME ~worker[w].changed
      PROVE  /\ Right(f, Behind(q))
             /\ ~More(Tweets, p.cursor) => Right(f, 1 .. Tweets)
  <2>1. q.cursor = Next0(page, More(Tweets, p.cursor))
    BY <1>7, <1>8, <1>9 DEF Checkpoints
  <2>2. /\ Behind(q) \subseteq page \cup Beyond(p)
        /\ ~More(Tweets, p.cursor) => 1 .. Tweets \subseteq page \cup Beyond(p)
    BY <1>7, <2>1, NextCovers
  <2> QED BY <1>6, <2>2 DEF Right
<1> QED BY <1>8, <1>9

(* What is behind the checkpoints stays right.                             *)
LEMMA CoverKept ==
  ASSUME TimelineInv, [Next]_vars PROVE CoverInv'
<1>b. Base /\ TweetsInv /\ ResumeInv /\ CoverInv
  BY DEF TimelineInv
<1>q. \A r : Quiet(r) => r.pc \notin PairStages
  BY DEF Quiet, PairStages
<1> SUFFICES ASSUME NEW f \in Followers, LastEvent(f)' > 0
             PROVE  /\ checkpoint'[LastEvent(f)'].initialized => Right(f, Behind(checkpoint[LastEvent(f)]))'
                    /\ Succeeded(Pair(f))' => Right(f, 1 .. Tweets)'
                    /\ \A w \in Workers : worker'[w].task = Pair(f)' /\ worker'[w].pc \in {"recheck", "advance"} =>
                          Right(f, Page(Tweets, worker[w].p.cursor))'
  BY DEF CoverInv
<1> DEFINE e == LastEvent(f)
           Same == LastEvent(f)' = e /\ Pair(f)' = Pair(f) /\ Following(f)' = Following(f)
           Goal == /\ checkpoint'[LastEvent(f)'].initialized => Right(f, Behind(checkpoint[LastEvent(f)]))'
                   /\ Succeeded(Pair(f))' => Right(f, 1 .. Tweets)'
                   /\ \A w \in Workers : worker'[w].task = Pair(f)' /\ worker'[w].pc \in {"recheck", "advance"} =>
                         Right(f, Page(Tweets, worker[w].p.cursor))'
<1>p. ASSUME Same
      PROVE  e > 0 /\ Pair(f) \in Tasks /\ Pair(f)[1] = e /\ Kind(Pair(f)) = "pair" /\ e \in Events
  BY <1>p, <1>b, PairFacts DEF Base
<1>0. ASSUME Same, \A I : Begun(f) /\ Right(f, I) => Right(f, I)',
             checkpoint'[e] = checkpoint[e], Succeeded(Pair(f))' => Succeeded(Pair(f)),
             \A w \in Workers : worker'[w].task = Pair(f) /\ worker'[w].pc \in {"recheck", "advance"} =>
                \/ /\ worker[w].pc \in {"recheck", "advance"}
                   /\ worker'[w].task = worker[w].task /\ worker'[w].p = worker[w].p
                \/ Right(f, Page(Tweets, worker[w].p.cursor))'
      PROVE  Goal
  <2>1. /\ checkpoint[e].initialized => Right(f, Behind(checkpoint[e]))
        /\ Succeeded(Pair(f)) => Right(f, 1 .. Tweets)
        /\ \A w \in Workers : worker[w].task = Pair(f) /\ worker[w].pc \in {"recheck", "advance"} =>
               Right(f, Page(Tweets, worker[w].p.cursor))
    BY <1>b, <1>0, <1>p DEF CoverInv
  <2>2. checkpoint[e].initialized => Begun(f)
    BY DEF Begun
  <2>3. Succeeded(Pair(f)) => Begun(f)
    BY DEF Begun
  <2>4. \A w \in Workers : worker[w].task = Pair(f) /\ worker[w].pc \in {"recheck", "advance"} => Begun(f)
    BY DEF Begun, PairStages
  <2>5. checkpoint'[LastEvent(f)'].initialized => Right(f, Behind(checkpoint[LastEvent(f)]))'
    <3>1. checkpoint'[LastEvent(f)'] = checkpoint[e]
      BY <1>0
    <3>2. checkpoint[e].initialized => Right(f, Behind(checkpoint[e])) /\ Begun(f)
      BY <2>1, <2>2
    <3>3. ASSUME NEW I, Begun(f) /\ Right(f, I)
          PROVE  \A i \in I : (<<f, i>> \in Written') = Following(f)
      BY <3>3, <1>0 DEF Right
    <3>4. checkpoint[e].initialized =>
             \A i \in Behind(checkpoint[e]) : (<<f, i>> \in Written') = Following(f)
      BY <3>2, <3>3
    <3>5. Behind(checkpoint[LastEvent(f)])' = Behind(checkpoint[e])
      BY <3>1 DEF Behind
    <3> QED BY <1>0, <3>1, <3>4, <3>5 DEF Right
  <2>6. Succeeded(Pair(f))' => Right(f, 1 .. Tweets)'
    BY <1>0, <2>1, <2>3
  <2>7. ASSUME NEW w \in Workers, worker'[w].task = Pair(f)', worker'[w].pc \in {"recheck", "advance"}
        PROVE  Right(f, Page(Tweets, worker[w].p.cursor))'
    <3>1. CASE /\ worker[w].pc \in {"recheck", "advance"}
               /\ worker'[w].task = worker[w].task /\ worker'[w].p = worker[w].p
      <4>1. Right(f, Page(Tweets, worker[w].p.cursor)) /\ Begun(f)
        BY <1>0, <2>1, <2>4, <2>7, <3>1
      <4>2. ASSUME NEW I, Begun(f) /\ Right(f, I)
            PROVE  \A i \in I : (<<f, i>> \in Written') = Following(f)
        BY <4>2, <1>0 DEF Right
      <4>3. \A i \in Page(Tweets, worker[w].p.cursor) : (<<f, i>> \in Written') = Following(f)
        BY <4>1, <4>2
      <4>4. Page(Tweets, worker[w].p.cursor)' = Page(Tweets, worker[w].p.cursor)
        BY <3>1 DEF Page, Below
      <4> QED BY <1>0, <4>3, <4>4 DEF Right
    <3> QED BY <1>0, <2>7, <3>1
  <2> QED BY <2>5, <2>6, <2>7
<1>c. ASSUME Same, Written' = Written, NEW I, Right(f, I) PROVE Right(f, I)'
  BY <1>c DEF Right
<1>1. CASE Calm
  <2>1. Same
    BY <1>1, Steady DEF Calm, CacheCalm
  <2>2. Pair(f) \in Tasks
    BY <1>p, <2>1
  <2>3. Succeeded(Pair(f))' => Succeeded(Pair(f))
    BY <1>1, <2>1, <2>2 DEF Calm, CacheCalm, RowsCalm, Succeeded
  <2>4. Written' = Written /\ checkpoint' = checkpoint
    BY <1>1 DEF Calm, CacheCalm
  <2>5. \A w \in Workers : worker'[w].pc \in {"recheck", "advance"} => worker'[w] = worker[w]
    BY <1>1, <1>q DEF Calm, CacheCalm, WorkersCalm, PairStages
  <2> QED BY <1>0, <1>c, <2>1, <2>3, <2>4, <2>5
<1>2. ASSUME NEW g \in Followers, Change(g) PROVE Goal
  <2>1. CASE g = f
    <3>1. ~Begun(f)'
      BY <1>2, <1>b, <2>1, ChangeRestarts
    <3> QED BY <3>1 DEF Begun, PairStages
  <2>2. CASE g # f
    <3>1. Same
      BY <1>2, <1>b, <2>2, ChangeFacts, ChangeEvents DEF Pair
    <3>2. UNCHANGED <<rows, checkpoint, worker, redis>>
      BY <1>2 DEF Change
    <3> QED BY <1>0, <1>c, <3>1, <3>2 DEF Succeeded, Written
  <2> QED BY <2>1, <2>2
<1>3. ASSUME NEW c \in Commands, Lost(c) PROVE Goal
  <2>1. Same
    BY <1>3, Steady DEF Lost
  <2>2. \A I : Begun(f) /\ Right(f, I) => Right(f, I)'
    BY <1>3, <1>b, <1>p, <2>1, LostKeepsRight
  <2>3. UNCHANGED <<rows, checkpoint>>
    BY <1>3 DEF Lost
  <2>4. \A w \in Workers : worker'[w].pc \in {"recheck", "advance"} => worker'[w] = worker[w]
    BY <1>3, <1>q DEF Lost, WorkersCalm, PairStages
  <2> QED BY <1>0, <2>1, <2>2, <2>3, <2>4 DEF Succeeded
<1>4. ASSUME NEW w \in Workers, Progress(w), ~AdvanceGo(w), ~WriteGo(w) PROVE Goal
  <2>1. (Frame /\ Only(w)) \/ TimedOut(w)
    BY <1>4 DEF Progress, EnterGo, DecideGo, BeginGo, MarkGo, RecheckGo, SaveGo
  <2>2. UNCHANGED <<rows, relations, log, checkpoint>> /\ Only(w)
    BY <2>1 DEF Frame, TimedOut
  <2>3. Same
    BY <2>2, Steady
  <2>4. Written' = Written
    BY <1>4 DEF Written, Progress, TimedOut, EnterGo, DecideGo, BeginGo, MarkGo, RecheckGo, SaveGo
  <2>5. ASSUME worker'[w].task = Pair(f), worker'[w].pc \in {"recheck", "advance"}
        PROVE  /\ worker[w].pc \in {"recheck", "advance"}
               /\ worker'[w].task = worker[w].task /\ worker'[w].p = worker[w].p
    <3>1. Kind(worker'[w].task) = "pair"
      BY <1>p, <2>3, <2>5
    <3>2. SaveGo(w) => Kind(worker'[w].task) = "author"
      BY <1>b DEF SaveGo, SamePage, Base, StageInv, Staged
    <3> QED BY <1>4, <1>q, <2>5, <3>1, <3>2 DEF Progress, TimedOut, EnterGo, DecideGo, BeginGo, MarkGo, RecheckGo,
               SamePage, PairStages
  <2> QED BY <1>0, <1>c, <2>2, <2>3, <2>4, <2>5 DEF Succeeded, Only
<1>5. ASSUME NEW w \in Workers, WriteGo(w) PROVE Goal
  <2>1. UNCHANGED <<rows, relations, log, checkpoint>> /\ Only(w)
    BY <1>5 DEF WriteGo, Frame
  <2>2. Same
    BY <2>1, Steady
  <2>3. ASSUME NEW I PROVE Begun(f) /\ Right(f, I) => Right(f, I)'
    BY <1>5, <1>b, <1>p, <2>2, WriteKeepsRight
  <2>4. ASSUME worker'[w].task = Pair(f) PROVE Right(f, Page(Tweets, worker[w].p.cursor))'
    <3>1. worker[w].task = Pair(f) /\ worker[w].pc = "tweets"
      BY <1>5, <2>4 DEF WriteGo, SamePage
    <3>2. Begun(f)
      BY <3>1 DEF Begun, PairStages
    <3>3. Follower(worker[w].task) = f
      BY <1>b, <1>p, <2>2, <3>1, PairFacts DEF Base
    <3> QED BY <1>5, <1>b, <1>p, <2>2, <3>2, <3>3, WriteKeepsRight
  <2> QED BY <1>0, <2>1, <2>2, <2>3, <2>4 DEF Succeeded, Only
<1>6. ASSUME NEW w \in Workers, AdvanceGo(w) PROVE Goal
  <2>1. UNCHANGED <<relations, log, redis>> /\ Only(w)
    BY <1>6 DEF AdvanceGo
  <2>2. Same
    BY <2>1, Steady
  <2>3. \A v \in Workers : worker'[v].pc \in {"recheck", "advance"} => worker'[v] = worker[v]
    BY <1>6, <1>q, <2>1 DEF Only, AdvanceGo, PairStages
  <2>4. CASE worker[w].task = Pair(f)
    <3>1. /\ checkpoint'[e].initialized => Right(f, Behind(checkpoint'[e]))
          /\ rows'[Pair(f)].status = "success" => Right(f, 1 .. Tweets)
      BY <1>6, <1>p, <2>2, <2>4, AdvanceCovers
    <3>2. checkpoint'[LastEvent(f)'].initialized => Right(f, Behind(checkpoint[LastEvent(f)]))'
      <4>1. Behind(checkpoint[LastEvent(f)])' = Behind(checkpoint'[e])
        BY <2>2 DEF Behind
      <4> QED BY <2>1, <2>2, <3>1, <4>1 DEF Right, Written
    <3>3. Succeeded(Pair(f))' => Right(f, 1 .. Tweets)'
      BY <2>1, <2>2, <3>1 DEF Right, Written, Succeeded
    <3>4. ASSUME NEW v \in Workers, worker'[v].task = Pair(f)', worker'[v].pc \in {"recheck", "advance"}
          PROVE  Right(f, Page(Tweets, worker[v].p.cursor))'
      <4>1. Right(f, Page(Tweets, worker[v].p.cursor))
        BY <1>b, <1>p, <2>2, <2>3, <3>4 DEF CoverInv
      <4>2. Page(Tweets, worker[v].p.cursor)' = Page(Tweets, worker[v].p.cursor)
        BY <2>3, <3>4 DEF Page, Below
      <4> QED BY <2>1, <2>2, <4>1, <4>2 DEF Right, Written
    <3> QED BY <3>2, <3>3, <3>4
  <2>5. CASE worker[w].task # Pair(f)
    <3>1. rows'[Pair(f)] = rows[Pair(f)]
      BY <1>6, <1>p, <2>2, <2>5 DEF AdvanceGo
    <3>2. checkpoint'[e] = checkpoint[e]
      <4>1. worker[w].task \in Tasks
        BY <1>6, <1>b DEF AdvanceGo, Base, StageInv, Staged
      <4>2. Kind(worker[w].task) = "pair" => worker[w].task[1] # e
        BY <2>5, <4>1, ProjectionAssumption DEF Pair, Kind
      <4> QED BY <1>6, <1>p, <2>2, <4>2 DEF AdvanceGo
    <3> QED BY <1>0, <1>c, <2>1, <2>2, <2>3, <3>1, <3>2 DEF Succeeded, Written
  <2> QED BY <2>4, <2>5
<1> QED BY <1>b, <1>1, <1>2, <1>3, <1>4, <1>5, <1>6, StepClasses

-----------------------------------------------------------------------------
(* The invariant holds before anything has happened.                       *)
LEMMA TimelineInit == Init => TimelineInv
<1> SUFFICES ASSUME Init PROVE TimelineInv
  OBVIOUS
<1>1. Base
  BY BaseInit
<1>2. log = <<>> /\ \A w \in Workers : worker[w].pc = "idle"
  BY RestingType DEF Init
<1>3. \A f : ~(LastEvent(f) > 0)
  <2>1. ASSUME NEW f PROVE LastEvent(f) \in 0 .. 0
    BY <1>1, <1>2, LastEventFacts DEF Base
  <2> QED BY <2>1
<1> QED BY <1>1, <1>2, <1>3 DEF TimelineInv, TweetsInv, ResumeInv, CoverInv, PairStages

(* Whatever is begun for the latest change of a follower has outdated      *)
(* every command that says otherwise, and what was written to the timeline *)
(* is right for the tweets that are behind the cursor.                     *)
THEOREM TimelineInvariant == Spec => []TimelineInv
<1>1. TimelineInv /\ [Next]_vars => TimelineInv'
  BY BaseKept, TweetsKept, ResumeKept, CoverKept DEF TimelineInv
<1> QED BY TimelineInit, <1>1, PTL DEF Spec

(* When the latest change of a follower has been carried out, one who      *)
(* follows has in its timeline every tweet of the author that the cap or   *)
(* an expiry has not pushed out since it was written, and one who does not *)
(* follow has none, however many workers, lost locks, late commands and    *)
(* earlier tasks there are.                                                *)
THEOREM TimelinesAreExact == Spec => []TimelineExact
<1>1. TimelineInv => TimelineExact
  <2> SUFFICES ASSUME TimelineInv, NEW f \in Followers, LastEvent(f) > 0, Succeeded(Pair(f)),
                      NEW i \in 1 .. Tweets
               PROVE  IF Following(f) THEN <<f, i>> \in Written ELSE <<f, i>> \notin redis.timeline
    BY DEF TimelineExact, Pair
  <2>1. (<<f, i>> \in Written) = Following(f)
    BY DEF TimelineInv, CoverInv, Right
  <2>2. <<f, i>> \notin Written => <<f, i>> \notin redis.timeline
    BY DEF Written
  <2> QED BY <2>1, <2>2 DEF Following
<1> QED BY <1>1, TimelineInvariant, PTL

-----------------------------------------------------------------------------
(* The marks.  What the mark of a follower ought to say, and who might     *)
(* still change it: a follower fits when its mark is right and everybody   *)
(* who would write the opposite is outdated.                               *)
OnRight(f, b) == b = (author.celebrity /\ Following(f))
RightMark(f) == OnRight(f, f \in redis.marked)
Misleads(w, f) ==
    /\ worker[w].pc = "mark"
    /\ \E k \in DOMAIN worker[w].todo : worker[w].todo[k].follower = f /\ ~OnRight(f, worker[w].todo[k].on)
MarksFresh(f) ==
    /\ \A w \in Workers : Misleads(w, f) => worker[w].epoch < redis.fence
    /\ late.kind = "mark" /\ f \in late.follower /\ ~OnRight(f, late.on) => late.epoch < redis.fence
Fit(f) == RightMark(f) /\ MarksFresh(f)

(* The rows the author's scan has before it                                *)
ToScan == IF author.complete THEN {} ELSE Below(Len(relations), author.cursor)

(* The pair task of the follower's last event has written its mark.        *)
Paired(f) ==
    \/ Succeeded(Pair(f))
    \/ \E w \in Workers : worker[w].task = Pair(f) /\ worker[w].pc \in {"tweets", "recheck", "advance"}

(* Such a follower fits, or the scan will come to one of its rows.         *)
MarkInv == \A f \in Followers : LastEvent(f) > 0 /\ Paired(f) => Fit(f) \/ RowsOf(f) \cap ToScan # {}

(* The rows the scan has behind it when the page of w is saved             *)
Leaving(w) == {i \in ToScan : worker[w].more => i >= Min(worker[w].page)}
InTodo(w, f) == \E k \in DOMAIN worker[w].todo : worker[w].todo[k].follower = f

(* The followers of those rows fit, or the page has yet to mark them, and  *)
(* will mark them right.                                                   *)
ScanInv ==
    \A w \in Workers : lock = w /\ worker[w].pc \in {"mark", "save"} /\ Kind(worker[w].task) = "author" =>
        /\ ~author.complete
        /\ \A f \in Followers : LastEvent(f) > 0 /\ Paired(f) =>
              /\ ~Misleads(w, f)
              /\ RowsOf(f) \cap Leaving(w) # {} => Fit(f) \/ InTodo(w, f)

(* Nobody is marked who never followed.                                    *)
TouchInv ==
    /\ \A f \in redis.marked : RowsOf(f) # {}
    /\ \A w \in Workers, f \in Followers : worker[w].pc = "mark" /\ InTodo(w, f) => RowsOf(f) # {}
    /\ late.kind = "mark" => \A f \in late.follower : RowsOf(f) # {}

(* The author task of the last event                                       *)
LastAuthor == <<Len(log), "author">>
(* The status c is what would be decided again.                            *)
Fixed(c) == c = DecideCelebrity(c, FollowerCount)

(* It decides with the followers there are now.                            *)
DecideInv ==
    \A w \in Workers : lock = w /\ worker[w].pc = "decide" /\ worker[w].task = LastAuthor =>
        Fixed(worker[w].celebrity)

(* Once it has decided, nobody decides otherwise.                          *)
Decided == Succeeded(LastAuthor) \/ \E w \in Workers : worker[w].task = LastAuthor /\ worker[w].pc \in Busy
DecidedInv ==
    Len(log) > 0 /\ Decided =>
        /\ author.started /\ Fixed(author.celebrity)
        /\ \A w \in Workers : lock = w /\ worker[w].pc = "decide" => worker[w].celebrity = author.celebrity

(* Once it has told Redis, nobody tells it otherwise.                      *)
Told == \/ Succeeded(LastAuthor)
        \/ \E w \in Workers : worker[w].task = LastAuthor /\ worker[w].pc \in {"mark", "save", "advance"}
RedisOk ==
    /\ redis.celebrity = author.celebrity
    /\ \A w \in Workers : worker[w].pc = "begin" /\ worker[w].celebrity # author.celebrity =>
                             worker[w].epoch < redis.fence
    /\ late.kind = "begin" /\ late.on # author.celebrity => late.epoch < redis.fence
ToldInv == Len(log) > 0 /\ Told => RedisOk
(* Its success ends the scan.                                              *)
CompleteInv == Len(log) > 0 /\ Succeeded(LastAuthor) => author.complete

MarksInv == TimelineInv /\ MarkInv /\ ScanInv /\ TouchInv /\ DecideInv /\ DecidedInv /\ ToldInv /\ CompleteInv

-----------------------------------------------------------------------------
(* While the holder of the lock has begun, everybody else is outdated.     *)
LEMMA HolderFresh ==
  ASSUME Base, NEW w \in Workers, lock = w, worker[w].pc \in Past
  PROVE  /\ worker[w].epoch = redis.fence /\ worker[w].celebrity = author.celebrity
         /\ \A v \in Workers : v # w => worker[v].epoch < redis.fence
         /\ late.kind # "none" => late.epoch < redis.fence
<1>t. author.epoch \in Nat /\ late.epoch \in Nat /\ \A v \in Workers : worker[v].epoch \in Nat
  BY DEF Base, TypeInv, Commands, Authors, WorkerStates
<1>1. /\ worker[w].pc \in Busy /\ worker[w].epoch = author.epoch /\ redis.fence = author.epoch
      /\ worker[w].celebrity = author.celebrity
  BY DEF Base, LockInv, Busy
<1>2. author.epoch > 0
  BY <1>1 DEF Base, EpochInv
<1>3. ASSUME NEW v \in Workers, v # w PROVE worker[v].epoch < redis.fence
  <2>1. worker[v].epoch <= author.epoch /\ (worker[v].epoch # 0 => worker[v].epoch # worker[w].epoch)
    BY <1>3 DEF Base, EpochInv
  <2> QED BY <1>1, <1>2, <1>t, <2>1
<1>4. late.kind # "none" => late.epoch < redis.fence
  BY <1>1, <1>t DEF Base, EpochInv
<1> QED BY <1>1, <1>3, <1>4

(* Only the author's and its follower's change disturb log and relations.  *)
LEMMA StepFrame ==
  ASSUME Base, [Next]_vars
  PROVE  (\E f \in Followers : Change(f)) \/ UNCHANGED <<relations, log>>
<1>1. Calm => UNCHANGED <<relations, log>>
  BY DEF Calm, CacheCalm
<1>2. ASSUME NEW c \in Commands, Lost(c) PROVE UNCHANGED <<relations, log>>
  BY <1>2 DEF Lost
<1>3. ASSUME NEW w \in Workers, Progress(w) PROVE UNCHANGED <<relations, log>>
  BY <1>3 DEF Progress, TimedOut, EnterGo, DecideGo, BeginGo, MarkGo, WriteGo, RecheckGo, SaveGo, AdvanceGo, Frame
<1> QED BY <1>1, <1>2, <1>3, StepClasses

(* A worker's step leaves the other workers alone.                         *)
LEMMA ProgressFrame ==
  ASSUME NEW w \in Workers, Progress(w) PROVE Only(w) /\ UNCHANGED <<relations, log>>
BY DEF Progress, TimedOut, EnterGo, DecideGo, BeginGo, MarkGo, WriteGo, RecheckGo, SaveGo, AdvanceGo, Frame

(* A task succeeds when its worker advances.                               *)
LEMMA SucceedsByAdvance ==
  ASSUME Base, [Next]_vars, NEW t \in Tasks, rows'[t].status = "success"
  PROVE  Succeeded(t) \/ \E w \in Workers : AdvanceGo(w) /\ worker[w].task = t
<1>1. CASE Calm
  BY <1>1 DEF Calm, CacheCalm, RowsCalm, Succeeded
<1>2. ASSUME NEW f \in Followers, Change(f) PROVE Succeeded(t)
  BY <1>2 DEF Change, Succeeded
<1>3. ASSUME NEW c \in Commands, Lost(c) PROVE Succeeded(t)
  BY <1>3 DEF Lost, Succeeded
<1>4. ASSUME NEW w \in Workers, Progress(w) PROVE Succeeded(t) \/ (AdvanceGo(w) /\ worker[w].task = t)
  <2>1. CASE AdvanceGo(w)
    BY <2>1 DEF AdvanceGo, Succeeded
  <2>2. CASE ~AdvanceGo(w)
    <3>1. rows' = rows
      BY <1>4, <2>2 DEF Progress, TimedOut, EnterGo, DecideGo, BeginGo, MarkGo, WriteGo, RecheckGo, SaveGo, Frame
    <3> QED BY <3>1 DEF Succeeded
  <2> QED BY <2>1, <2>2
<1> QED BY <1>1, <1>2, <1>3, <1>4, StepClasses

(* A pair task gets past its mark when the holder of the lock sends it.    *)
LEMMA PairedBefore ==
  ASSUME Base, [Next]_vars, NEW f \in Followers, LastEvent(f)' > 0, Paired(f)'
  PROVE  /\ LastEvent(f)' = LastEvent(f) /\ Pair(f)' = Pair(f)
         /\ Following(f)' = Following(f) /\ RowsOf(f)' = RowsOf(f)
         /\ \/ Paired(f)
            \/ \E w \in Workers : MarkGo(w) /\ lock = w /\ worker[w].task = Pair(f) /\ worker'[w].pc = "tweets"
<1> DEFINE P == {"tweets", "recheck", "advance"}
<1>q. \A r : Quiet(r) => r.pc \notin P
  BY DEF Quiet
<1>1. /\ LastEvent(f)' = LastEvent(f) /\ Pair(f)' = Pair(f)
      /\ Following(f)' = Following(f) /\ RowsOf(f)' = RowsOf(f)
  <2>1. ASSUME NEW g \in Followers, Change(g)
        PROVE  /\ LastEvent(f)' = LastEvent(f) /\ Pair(f)' = Pair(f)
               /\ Following(f)' = Following(f) /\ RowsOf(f)' = RowsOf(f)
    <3>1. g # f
      BY <2>1, ChangeRestarts DEF Paired, Begun, PairStages
    <3> QED BY <2>1, <3>1, ChangeFacts, ChangeEvents DEF Pair
  <2> QED BY <2>1, Steady, StepFrame
<1>2. Pair(f) \in Tasks /\ Kind(Pair(f)) = "pair"
  BY <1>1, PairFacts DEF Base
<1>3. CASE Succeeded(Pair(f))'
  <2>1. Succeeded(Pair(f)) \/ \E w \in Workers : AdvanceGo(w) /\ worker[w].task = Pair(f)
    BY <1>1, <1>2, <1>3, SucceedsByAdvance DEF Succeeded
  <2> QED BY <1>1, <2>1 DEF Paired, AdvanceGo
<1>4. ASSUME NEW w \in Workers, worker'[w].task = Pair(f), worker'[w].pc \in P
      PROVE  \/ worker[w].task = Pair(f) /\ worker[w].pc \in P
             \/ MarkGo(w) /\ lock = w /\ worker[w].task = Pair(f) /\ worker'[w].pc = "tweets"
  <2>1. CASE worker'[w] = worker[w]
    BY <1>4, <2>1
  <2>2. CASE Progress(w)
    <3>1. Kind(worker'[w].task) = "pair"
      BY <1>2, <1>4
    <3>2. SaveGo(w) => Kind(worker'[w].task) = "author"
      BY DEF SaveGo, SamePage, Base, StageInv, Staged
    <3> QED BY <1>4, <1>q, <2>2, <3>1, <3>2 DEF Progress, TimedOut, EnterGo, DecideGo, BeginGo, MarkGo, WriteGo,
               RecheckGo, AdvanceGo, SamePage
  <2>3. worker'[w] = worker[w] \/ Progress(w)
    <3>1. Calm => worker'[w] = worker[w]
      BY <1>4, <1>q DEF Calm, CacheCalm, WorkersCalm
    <3>2. ASSUME NEW c \in Commands, Lost(c) PROVE worker'[w] = worker[w]
      BY <1>4, <1>q, <3>2 DEF Lost, WorkersCalm
    <3>3. ASSUME NEW g \in Followers, Change(g) PROVE worker'[w] = worker[w]
      BY <3>3 DEF Change
    <3>4. ASSUME NEW v \in Workers, Progress(v), v # w PROVE worker'[w] = worker[w]
      BY <3>4, ProgressFrame DEF Only
    <3> QED BY <3>1, <3>2, <3>3, <3>4, StepClasses
  <2> QED BY <2>1, <2>2, <2>3
<1> QED BY <1>1, <1>3, <1>4 DEF Paired

(* A worker that marks has done so before, or has just begun.              *)
LEMMA MarkerBefore ==
  ASSUME Base, [Next]_vars, NEW v \in Workers, worker'[v].pc \in {"mark", "begin", "save", "decide"}
  PROVE  worker'[v] = worker[v] \/ BeginGo(v) \/ MarkGo(v) \/ DecideGo(v) \/ EnterGo(v)
<1>q. \A r : Quiet(r) => r.pc \notin {"mark", "begin", "save", "decide"}
  BY DEF Quiet
<1>1. CASE Calm
  BY <1>1, <1>q DEF Calm, CacheCalm, WorkersCalm
<1>2. ASSUME NEW g \in Followers, Change(g) PROVE worker'[v] = worker[v]
  BY <1>2 DEF Change
<1>3. ASSUME NEW c \in Commands, Lost(c) PROVE worker'[v] = worker[v]
  BY <1>3, <1>q DEF Lost, WorkersCalm
<1>4. ASSUME NEW w \in Workers, Progress(w), w # v PROVE worker'[v] = worker[v]
  BY <1>4, ProgressFrame DEF Only
<1>5. CASE Progress(v)
  BY <1>5, <1>q DEF Progress, TimedOut, WriteGo, RecheckGo, SaveGo, AdvanceGo
<1> QED BY <1>1, <1>2, <1>3, <1>4, <1>5, StepClasses

(* The entries left after the first is sent                                *)
LEMMA TailFacts ==
  ASSUME NEW s \in Seq(Entries), s # <<>>
  PROVE  /\ s[1] \in Entries /\ Tail(s) \in Seq(Entries) /\ 1 \in DOMAIN s
         /\ \A k \in DOMAIN Tail(s) : k + 1 \in DOMAIN s /\ Tail(s)[k] = s[k + 1]
         /\ \A k \in DOMAIN s : k = 1 \/ (k - 1 \in DOMAIN Tail(s) /\ Tail(s)[k - 1] = s[k])
<1>1. PICK n \in Nat : n = Len(s) /\ n # 0 /\ DOMAIN s = 1 .. n
  BY EmptySeq
<1>2. Tail(s) \in Seq(Entries) /\ Len(Tail(s)) = n - 1
  BY <1>1
<1>3. DOMAIN Tail(s) = 1 .. n - 1
  BY <1>1, <1>2
<1>4. \A k \in 1 .. n - 1 : Tail(s)[k] = s[k + 1]
  BY <1>1
<1> QED BY <1>1, <1>2, <1>3, <1>4

(* What is about to be marked when a worker begins is right.               *)
LEMMA BeginMarksRight ==
  ASSUME Base, NEW w \in Workers, BeginGo(w), worker'[w].pc = "mark"
  PROVE  /\ worker'[w].todo \in Seq(Entries)
         /\ \A k \in DOMAIN worker'[w].todo :
               /\ worker'[w].todo[k].on = (author.celebrity /\ Following(worker'[w].todo[k].follower))
               /\ RowsOf(worker'[w].todo[k].follower) # {}
         /\ Kind(worker[w].task) = "author" =>
               \A i \in worker'[w].page : \E k \in DOMAIN worker'[w].todo :
                   worker'[w].todo[k].follower = relations[i].follower
<1>1. worker[w].celebrity = author.celebrity /\ worker[w].celebrity \in BOOLEAN
  BY DEF BeginGo, Base, LockInv, Busy, TypeInv, WorkerStates
<1>2. relations \in Seq(Relations) /\ Len(relations) \in 0 .. Len(relations) /\ author.cursor \in 0 .. Len(relations)
  BY DEF Base, TypeInv, BoundInv
<1>t. worker'[w].todo \in Seq(Entries)
  BY DEF BeginGo, Frame, WorkerStates
<1>3. CASE Kind(worker[w].task) = "author"
  <2> DEFINE page == Page(Len(relations), author.cursor)
             marks == Marks(page, worker[w].celebrity)
  <2>1. worker'[w].page = page /\ worker'[w].todo = marks /\ Below(Len(relations), author.cursor) # {}
    BY <1>3 DEF BeginGo
  <2>2. /\ \A k \in DOMAIN marks :
                  /\ \E i \in page : marks[k].follower = relations[i].follower
                  /\ marks[k].on = (worker[w].celebrity /\ Following(marks[k].follower))
        /\ \A i \in page : \E k \in DOMAIN marks : marks[k].follower = relations[i].follower
    BY <1>1, <1>2, <2>1, MarksFacts
  <2>3. page \subseteq DOMAIN relations
    <3>1. PICK n \in Nat : n = Len(relations) /\ DOMAIN relations = 1 .. n
      BY <1>2
    <3>2. author.cursor \in 0 .. n
      BY <1>2, <3>1
    <3>3. page \subseteq Below(n, author.cursor)
      BY <3>1, <3>2, PageFacts
    <3> QED BY <3>1, <3>2, <3>3 DEF Below
  <2> HIDE DEF page, marks
  <2>4. \A k \in DOMAIN marks : RowsOf(marks[k].follower) # {}
    BY <2>2, <2>3 DEF RowsOf
  <2> QED BY <1>1, <1>t, <2>1, <2>2, <2>4
<1>4. CASE Kind(worker[w].task) = "pair"
  <2> DEFINE f == Follower(worker[w].task)
             mark == [follower |-> f, on |-> worker[w].celebrity /\ worker'[w].fact.active]
  <2>1. worker'[w].todo = <<mark>> /\ worker'[w].fact = ReadPair(f)
    BY <1>4 DEF BeginGo
  <2>2. worker'[w].fact.active = Following(f)
    BY <2>1, ReadPairType DEF Base
  <2>3. worker[w].task \in Tasks /\ rows[worker[w].task].status # "absent"
    BY DEF BeginGo, Base, StageInv, Staged
  <2>4. worker[w].task[1] \in DOMAIN log
    BY <2>3, FollowerType DEF Base, TypeInv
  <2>5. RowsOf(f) # {}
    BY <2>4 DEF Base, RelInv, RowsOf, Follower
  <2>6. mark.follower = f /\ mark.on = (author.celebrity /\ Following(f))
    BY <1>1, <2>2
  <2> HIDE DEF f, mark
  <2>7. \A k \in DOMAIN worker'[w].todo : worker'[w].todo[k] = mark
    BY <2>1
  <2> QED BY <1>4, <1>t, <2>5, <2>6, <2>7
<1> QED BY <1>3, <1>4 DEF BeginGo

(* A command is on its way after it timed out.                             *)
LEMMA LateSteps ==
  ASSUME Base, [Next]_vars PROVE late' \in {late, NoCommand} \/ \E w \in Workers : TimedOut(w)
<1>1. ASSUME NEW w \in Workers, Progress(w), ~TimedOut(w) PROVE late' = late
  BY <1>1 DEF Progress, EnterGo, DecideGo, BeginGo, MarkGo, WriteGo, RecheckGo, SaveGo, AdvanceGo, Frame
<1> QED BY <1>1, StepClasses DEF Calm, CacheCalm, Lost, WorkersCalm, Change

(* A follower that fits keeps fitting as long as neither it nor the        *)
(* author's status changes.                                                *)
LEMMA FitKept ==
  ASSUME Base, [Next]_vars, NEW f \in Followers, Fit(f),
         Following(f)' = Following(f), author'.celebrity = author.celebrity
  PROVE  Fit(f)'
<1>f. redis'.fence >= redis.fence /\ redis.fence \in Nat /\ redis'.fence \in Nat
  BY FenceRises
<1>t. late.epoch \in Nat /\ \A v \in Workers : worker[v].epoch \in Nat
  BY DEF Base, TypeInv, Commands, WorkerStates
<1>n. NoCommand.kind = "none"
  BY DEF NoCommand
<1> DEFINE R == author.celebrity /\ Following(f)
<1>r. (author'.celebrity /\ Following(f)') = R /\ R \in BOOLEAN
  OBVIOUS
<1>1. /\ (f \in redis.marked) = R
      /\ \A v \in Workers : Misleads(v, f) => worker[v].epoch < redis.fence
      /\ late.kind = "mark" /\ f \in late.follower /\ late.on # R => late.epoch < redis.fence
  BY DEF Fit, RightMark, MarksFresh, OnRight
<1>m. \A v \in Workers : Misleads(v, f) <=> /\ worker[v].pc = "mark"
                                            /\ \E k \in DOMAIN worker[v].todo : worker[v].todo[k].follower = f
                                                                              /\ worker[v].todo[k].on # R
  BY DEF Misleads, OnRight
<1>mm. \A v \in Workers : Misleads(v, f)' <=> /\ worker'[v].pc = "mark"
                                              /\ \E k \in DOMAIN worker'[v].todo : worker'[v].todo[k].follower = f
                                                                                 /\ worker'[v].todo[k].on # R
  BY <1>r DEF Misleads, OnRight
<1> HIDE DEF R
<1>2. ASSUME NEW v \in Workers, Misleads(v, f)' PROVE worker'[v].epoch < redis'.fence
  <2>1. CASE worker'[v] = worker[v]
    BY <1>1, <1>2, <1>f, <1>t, <1>m, <1>mm, <2>1
  <2>2. CASE BeginGo(v)
    BY <1>2, <1>mm, <2>2, BeginMarksRight DEF R
  <2>3. CASE MarkGo(v)
    <3>1. worker[v].todo \in Seq(Entries) /\ worker[v].todo # <<>> /\ worker[v].pc = "mark"
      BY <2>3 DEF MarkGo, Base, StageInv, Staged, TypeInv, WorkerStates
    <3>2. worker'[v].todo = Tail(worker[v].todo) /\ worker'[v].epoch = worker[v].epoch
      BY <2>3 DEF MarkGo, SamePage
    <3> DEFINE todo == worker[v].todo
    <3>a. PICK k \in DOMAIN Tail(todo) : Tail(todo)[k].follower = f /\ Tail(todo)[k].on # R
      BY <1>2, <1>mm, <3>2
    <3>b. k + 1 \in DOMAIN todo /\ Tail(todo)[k] = todo[k + 1]
      BY <3>1, <3>a, TailFacts
    <3>3. Misleads(v, f)
      BY <1>m, <3>1, <3>a, <3>b
    <3> QED BY <1>1, <1>f, <1>t, <3>2, <3>3
  <2> QED BY <1>2, <1>mm, <2>1, <2>2, <2>3, MarkerBefore DEF DecideGo, EnterGo
<1>3. ASSUME late'.kind = "mark", f \in late'.follower, late'.on # R PROVE late'.epoch < redis'.fence
  <2>1. CASE late' \in {late, NoCommand}
    BY <1>1, <1>3, <1>f, <1>n, <1>t, <2>1
  <2>2. ASSUME NEW w \in Workers, TimedOut(w) PROVE late'.epoch < redis'.fence
    <3>1. /\ worker[w].pc = "mark" /\ late'.epoch = worker[w].epoch
          /\ late'.follower = {worker[w].todo[1].follower} /\ late'.on = worker[w].todo[1].on
      BY <1>3, <2>2, CommandFacts DEF TimedOut, Base
    <3>2. worker[w].todo \in Seq(Entries) /\ worker[w].todo # <<>>
      BY <3>1 DEF Base, StageInv, Staged, TypeInv, WorkerStates
    <3>3. Misleads(w, f)
      BY <1>3, <1>m, <3>1, <3>2, TailFacts
    <3> QED BY <1>1, <1>f, <1>t, <3>1, <3>3
  <2> QED BY <2>1, <2>2, LateSteps
<1>4. (f \in redis'.marked) = R
  <2>1. CASE redis'.marked = redis.marked
    BY <1>1, <2>1
  <2>2. ASSUME NEW on \in BOOLEAN, NEW F, f \in F => on = R,
               redis'.marked = IF on THEN redis.marked \cup F ELSE redis.marked \ F
        PROVE  (f \in redis'.marked) = R
    BY <1>1, <1>r, <2>2
  <2>3. ASSUME NEW c \in Commands, Lost(c) PROVE (f \in redis'.marked) = R
    <3>1. CASE c.kind # "mark"
      <4>1. redis'.marked = redis.marked
        BY <2>3, <3>1, AppliedFacts DEF Lost, Base, Commands
      <4> QED BY <2>1, <4>1
    <3>2. CASE c.kind = "mark"
      <4>1. /\ redis'.marked = IF c.on THEN redis.marked \cup c.follower ELSE redis.marked \ c.follower
            /\ c.epoch = redis.fence /\ c.on \in BOOLEAN
        BY <2>3, <3>2, AppliedFacts, LostFacts DEF Lost, Base, Commands
      <4>2. CASE c = late
        BY <1>1, <1>f, <2>2, <3>2, <4>1, <4>2
      <4>3. ASSUME NEW w \in Workers, worker[w].pc \in Sends, c = Command(w), f \in c.follower PROVE c.on = R
        <5>1. /\ worker[w].pc = "mark" /\ c.epoch = worker[w].epoch
              /\ c.follower = {worker[w].todo[1].follower} /\ c.on = worker[w].todo[1].on
          BY <3>2, <4>3, CommandFacts DEF Base
        <5>2. worker[w].todo \in Seq(Entries) /\ worker[w].todo # <<>>
          BY <5>1 DEF Base, StageInv, Staged, TypeInv, WorkerStates
        <5>3. c.on # R => Misleads(w, f)
          BY <1>m, <4>3, <5>1, <5>2, TailFacts
        <5> QED BY <1>1, <1>f, <4>1, <5>1, <5>3
      <4> QED BY <2>2, <2>3, <4>1, <4>2, <4>3 DEF Lost
    <3> QED BY <3>1, <3>2
  <2>4. ASSUME NEW w \in Workers, MarkGo(w) PROVE (f \in redis'.marked) = R
    <3>1. worker[w].todo \in Seq(Entries) /\ worker[w].todo # <<>> /\ worker[w].pc = "mark" /\ worker[w].epoch = redis.fence
      BY <2>4 DEF MarkGo, Base, StageInv, Staged, TypeInv, WorkerStates
    <3>2. worker[w].todo[1].on \in BOOLEAN
      BY <3>1, TailFacts DEF Entries
    <3>3. worker[w].todo[1].follower = f => worker[w].todo[1].on = R
      <4>1. worker[w].todo[1].follower = f /\ worker[w].todo[1].on # R => Misleads(w, f)
        BY <1>m, <3>1, TailFacts
      <4> QED BY <1>1, <1>f, <3>1, <4>1
    <3>4. redis'.marked = IF worker[w].todo[1].on THEN redis.marked \cup {worker[w].todo[1].follower}
                                                  ELSE redis.marked \ {worker[w].todo[1].follower}
      BY <2>4 DEF MarkGo
    <3> DEFINE on == worker[w].todo[1].on
               F == {worker[w].todo[1].follower}
    <3>5. on \in BOOLEAN /\ (f \in F => on = R)
          /\ redis'.marked = IF on THEN redis.marked \cup F ELSE redis.marked \ F
      BY <3>2, <3>3, <3>4
    <3> HIDE DEF on, F
    <3> QED BY <2>2, <3>5
  <2>5. ASSUME NEW w \in Workers, Progress(w), ~MarkGo(w) PROVE redis'.marked = redis.marked
    BY <2>5 DEF Progress, TimedOut, EnterGo, DecideGo, BeginGo, WriteGo, RecheckGo, SaveGo, AdvanceGo
  <2>6. Calm => redis'.marked = redis.marked
    BY DEF Calm, CacheCalm
  <2>7. ASSUME NEW g \in Followers, Change(g) PROVE redis'.marked = redis.marked
    BY <2>7 DEF Change
  <2> QED BY <2>1, <2>3, <2>4, <2>5, <2>6, <2>7, StepClasses
<1> QED BY <1>2, <1>3, <1>4, <1>r DEF Fit, RightMark, MarksFresh, OnRight

-----------------------------------------------------------------------------
(* The rows before the scan change when the author's row does, and grow    *)
(* with the table.                                                         *)
LEMMA ToScanFacts ==
  ASSUME Base, [Next]_vars, NEW f
  PROVE  /\ UNCHANGED <<relations, author>> => ToScan' = ToScan
         /\ \A g \in Followers : Change(g) =>
               /\ ToScan \subseteq ToScan'
               /\ RowsOf(f) \cap ToScan' \subseteq ToScan
<1>1. UNCHANGED <<relations, author>> => ToScan' = ToScan
  BY DEF ToScan, Below
<1>2. ASSUME NEW g \in Followers, Change(g)
      PROVE  ToScan \subseteq ToScan' /\ RowsOf(f) \cap ToScan' \subseteq ToScan
  <2>1. PICK n \in Nat, m \in Nat : n = Len(relations) /\ m = Len(relations') /\ m >= n /\ DOMAIN relations = 1 .. n
    BY <1>2, ChangeFacts DEF Base, TypeInv
  <2>2. author' = author /\ author.cursor \in Nat
    BY <1>2 DEF Change, Base, TypeInv, Authors
  <2>3. Below(n, author.cursor) \subseteq Below(m, author.cursor)
    BY <2>1, <2>2 DEF Below
  <2>4. \A i \in 1 .. n : i \in Below(m, author.cursor) => i \in Below(n, author.cursor)
    BY <2>1, <2>2 DEF Below
  <2>5. ToScan' = IF author.complete THEN {} ELSE Below(m, author.cursor)
    BY <2>1, <2>2 DEF ToScan, Below
  <2>6. ToScan = IF author.complete THEN {} ELSE Below(n, author.cursor)
    BY <2>1 DEF ToScan
  <2>7. RowsOf(f) \subseteq 1 .. n
    BY <2>1 DEF RowsOf
  <2> QED BY <2>3, <2>4, <2>5, <2>6, <2>7
<1> QED BY <1>1, <1>2

(* A follower with an event has a row, and a scan from the start comes to  *)
(* it.                                                                     *)
LEMMA RowsExist ==
  ASSUME Base, NEW f, LastEvent(f) > 0
  PROVE  RowsOf(f) # {} /\ RowsOf(f) \subseteq Below(Len(relations), 0)
<1>1. LastEvent(f) \in DOMAIN log /\ log[LastEvent(f)] = f
  BY LastEventFacts DEF Base, TypeInv
<1>2. DOMAIN relations = 1 .. Len(relations)
  BY DEF Base, TypeInv
<1> QED BY <1>1, <1>2 DEF Base, RelInv, RowsOf, Below

(* The pair task of the last event sends the mark of its follower.         *)
LEMMA PairMarks ==
  ASSUME Base, TweetsInv, [Next]_vars, NEW f \in Followers, LastEvent(f) > 0, Following(f)' = Following(f),
         NEW w \in Workers, MarkGo(w), lock = w, worker[w].task = Pair(f), worker'[w].pc = "tweets"
  PROVE  Fit(f)'
<1>1. worker[w].pc = "mark" /\ worker[w].epoch = redis.fence /\ Kind(worker[w].task) = "pair"
      /\ Follower(worker[w].task) = f
  BY PairFacts DEF MarkGo, Base
<1>2. Begun(f)
  BY <1>1 DEF Begun, PairStages
<1>3. worker[w].fact.active = Following(f)
  <2>1. redis.fence \in Nat
    BY DEF Base, TypeInv, Caches
  <2> QED BY <1>1, <1>2, <2>1 DEF TweetsInv, TweetsFresh, StaleTweets
<1>4. /\ worker[w].todo[1].follower = f
      /\ worker[w].todo[1].on = (worker[w].celebrity /\ worker[w].fact.active)
  BY <1>1 DEF Base, StageInv, Staged
<1>5. /\ worker[w].celebrity = author.celebrity
      /\ \A v \in Workers : v # w => worker[v].epoch < redis.fence
      /\ late.kind # "none" => late.epoch < redis.fence
  BY <1>1, HolderFresh DEF Past
<1>6. /\ redis'.fence = redis.fence /\ late' = late /\ author' = author /\ Only(w)
      /\ redis'.marked = IF worker[w].todo[1].on THEN redis.marked \cup {f} ELSE redis.marked \ {f}
  BY <1>4 DEF MarkGo, Frame
<1>7. RightMark(f)'
  <2>1. worker[w].todo[1].on = (author.celebrity /\ Following(f))
    BY <1>3, <1>4, <1>5
  <2>2. ASSUME NEW on \in BOOLEAN, redis'.marked = IF on THEN redis.marked \cup {f} ELSE redis.marked \ {f}
        PROVE  (f \in redis'.marked) = on
    BY <2>2
  <2>3. worker[w].todo[1].on \in BOOLEAN
    BY <2>1
  <2>4. (f \in redis'.marked) = worker[w].todo[1].on
    BY <1>6, <2>2, <2>3
  <2> QED BY <1>6, <2>1, <2>4 DEF RightMark, OnRight
<1>8. MarksFresh(f)'
  BY <1>5, <1>6 DEF MarksFresh, Misleads, Only
<1> QED BY <1>7, <1>8 DEF Fit

(* Only the two saves of the author's row change it.                       *)
LEMMA AuthorSteps ==
  ASSUME Base, [Next]_vars
  PROVE  \/ author' = author /\ relations' = relations
         \/ \E g \in Followers : Change(g)
         \/ \E w \in Workers : DecideGo(w) \/ SaveGo(w)
<1>1. ASSUME NEW w \in Workers, Progress(w), ~DecideGo(w), ~SaveGo(w) PROVE author' = author /\ relations' = relations
  BY <1>1 DEF Progress, TimedOut, EnterGo, BeginGo, MarkGo, WriteGo, RecheckGo, AdvanceGo, Frame
<1>2. Calm => author' = author /\ relations' = relations
  BY DEF Calm, CacheCalm
<1>3. ASSUME NEW c \in Commands, Lost(c) PROVE author' = author /\ relations' = relations
  BY <1>3 DEF Lost
<1> QED BY <1>1, <1>2, <1>3, StepClasses

(* Followers fit or are ahead of the scan.                                 *)
LEMMA MarkKept ==
  ASSUME MarksInv, [Next]_vars PROVE MarkInv'
<1> SUFFICES ASSUME NEW f \in Followers, LastEvent(f)' > 0, Paired(f)'
             PROVE  Fit(f)' \/ RowsOf(f)' \cap ToScan' # {}
  BY DEF MarkInv
<1>b. Base /\ TweetsInv /\ MarkInv /\ ScanInv
  BY DEF MarksInv, TimelineInv
<1>1. /\ LastEvent(f) > 0 /\ Pair(f)' = Pair(f)
      /\ Following(f)' = Following(f) /\ RowsOf(f)' = RowsOf(f)
      /\ \/ Paired(f)
         \/ \E w \in Workers : MarkGo(w) /\ lock = w /\ worker[w].task = Pair(f) /\ worker'[w].pc = "tweets"
  BY <1>b, PairedBefore
<1>2. CASE ~Paired(f)
  BY <1>b, <1>1, <1>2, PairMarks
<1>3. ASSUME Paired(f), NEW w \in Workers, DecideGo(w) PROVE Fit(f)' \/ RowsOf(f)' \cap ToScan' # {}
  <2>1. relations' = relations
    BY <1>3 DEF DecideGo, Frame
  <2>2. CASE author.started /\ worker[w].celebrity = author.celebrity
    <3>1. author'.cursor = author.cursor /\ author'.complete = author.complete /\ author'.celebrity = author.celebrity
      BY <1>3, <2>2 DEF DecideGo
    <3>2. ToScan' = ToScan
      BY <2>1, <3>1 DEF ToScan, Below
    <3> QED BY <1>b, <1>1, <1>3, <3>1, <3>2, FitKept DEF MarkInv
  <2>3. CASE ~(author.started /\ worker[w].celebrity = author.celebrity)
    <3>1. author'.cursor = 0 /\ ~author'.complete
      BY <1>3, <2>3 DEF DecideGo
    <3>2. ToScan' = Below(Len(relations), 0)
      BY <2>1, <3>1 DEF ToScan, Below
    <3>3. RowsOf(f) # {} /\ RowsOf(f) \subseteq Below(Len(relations), 0)
      BY <1>b, <1>1, RowsExist
    <3> QED BY <1>1, <3>2, <3>3
  <2> QED BY <2>2, <2>3
<1>4. ASSUME Paired(f), NEW w \in Workers, SaveGo(w) PROVE Fit(f)' \/ RowsOf(f)' \cap ToScan' # {}
  <2>1. /\ lock = w /\ worker[w].pc = "save" /\ worker[w].todo = <<>> /\ Kind(worker[w].task) = "author"
        /\ relations' = relations /\ author'.celebrity = author.celebrity
        /\ author'.cursor = Next0(worker[w].page, worker[w].more) /\ author'.complete = ~worker[w].more
    BY <1>b, <1>4 DEF SaveGo, Frame, Base, StageInv, Staged
  <2>2. Fit(f) => Fit(f)'
    BY <1>b, <1>1, <2>1, FitKept
  <2>3. ~InTodo(w, f)
    BY <2>1 DEF InTodo
  <2>4. RowsOf(f) \cap Leaving(w) # {} => Fit(f)
    BY <1>b, <1>1, <1>4, <2>1, <2>3 DEF ScanInv
  <2>5. CASE RowsOf(f) \cap Leaving(w) = {} /\ ~Fit(f)
    <3>1. PICK i \in RowsOf(f) \cap ToScan : TRUE
      BY <1>b, <1>1, <1>4, <2>5 DEF MarkInv
    <3>2. worker[w].more /\ ~(i >= Min(worker[w].page))
      BY <2>5, <3>1 DEF Leaving
    <3>3. worker[w].page \subseteq 1 .. Len(relations) /\ Min(worker[w].page) \in worker[w].page
      BY <1>b, <3>2 DEF Base, BoundInv
    <3>4. Min(worker[w].page) \in Nat /\ Min(worker[w].page) # 0
      BY <3>3 DEF Base, TypeInv
    <3>5. i \in Nat /\ i > 0
      <4>1. DOMAIN relations = 1 .. Len(relations)
        BY <1>b DEF Base, TypeInv
      <4> QED BY <3>1, <4>1 DEF RowsOf
    <3>6. ToScan' = 1 .. Min(worker[w].page) - 1
      BY <2>1, <3>2, <3>4 DEF ToScan, Below, Next0
    <3>7. i \in ToScan'
      BY <3>2, <3>4, <3>5, <3>6
    <3> QED BY <1>1, <3>1, <3>7
  <2> QED BY <2>2, <2>4, <2>5
<1>5. ASSUME Paired(f), author' = author, relations' = relations PROVE Fit(f)' \/ RowsOf(f)' \cap ToScan' # {}
  BY <1>b, <1>1, <1>5, FitKept, ToScanFacts DEF MarkInv
<1>6. ASSUME Paired(f), NEW g \in Followers, Change(g) PROVE Fit(f)' \/ RowsOf(f)' \cap ToScan' # {}
  <2>1. author' = author
    BY <1>6 DEF Change
  <2>2. ToScan \subseteq ToScan'
    BY <1>b, <1>6, ToScanFacts
  <2> QED BY <1>b, <1>1, <1>6, <2>1, <2>2, FitKept DEF MarkInv
<1>7. \/ author' = author /\ relations' = relations
      \/ \E g \in Followers : Change(g)
      \/ \E w \in Workers : DecideGo(w) \/ SaveGo(w)
  BY <1>b, AuthorSteps
<1> QED BY <1>2, <1>3, <1>4, <1>5, <1>6, <1>7

(* The lock is taken by a worker that enters.                              *)
LEMMA LockBefore ==
  ASSUME Base, [Next]_vars, NEW w \in Workers, lock' = w PROVE lock = w \/ EnterGo(w)
<1>0. NoWorker \notin Workers
  BY OutboxAssumption
<1>1. CASE Calm
  BY <1>0, <1>1 DEF Calm, CacheCalm, WorkersCalm
<1>2. ASSUME NEW g \in Followers, Change(g) PROVE lock = w
  BY <1>2 DEF Change
<1>3. ASSUME NEW c \in Commands, Lost(c) PROVE lock = w
  BY <1>0, <1>3 DEF Lost, WorkersCalm
<1>4. ASSUME NEW v \in Workers, Progress(v) PROVE lock = w \/ EnterGo(w)
  BY <1>0, <1>4 DEF Progress, TimedOut, EnterGo, DecideGo, BeginGo, MarkGo, WriteGo, RecheckGo, SaveGo, AdvanceGo
<1> QED BY <1>1, <1>2, <1>3, <1>4, StepClasses

(* What a page sends next is what its followers ought to be marked with.   *)
LEMMA ScanMarks ==
  ASSUME Base, [Next]_vars, NEW w \in Workers, MarkGo(w), lock = w,
         NEW f \in Followers, Following(f)' = Following(f), ~Misleads(w, f), Fit(f) \/ InTodo(w, f)
  PROVE  Fit(f)' \/ InTodo(w, f)'
<1>1. worker[w].pc = "mark" /\ worker[w].todo \in Seq(Entries) /\ worker[w].todo # <<>>
  BY DEF MarkGo, Base, StageInv, Staged, TypeInv, WorkerStates
<1> DEFINE todo == worker[w].todo
           R == author.celebrity /\ Following(f)
<1>2. /\ author' = author /\ late' = late /\ Only(w) /\ redis'.fence = redis.fence
      /\ worker'[w].todo = Tail(todo) /\ worker'[w].epoch = worker[w].epoch
      /\ redis'.marked = IF todo[1].on THEN redis.marked \cup {todo[1].follower}
                                       ELSE redis.marked \ {todo[1].follower}
  BY DEF MarkGo, Frame, SamePage
<1>3. CASE Fit(f)
  BY <1>2, <1>3, FitKept
<1>4. ASSUME NEW k \in DOMAIN todo, todo[k].follower = f, k # 1 PROVE InTodo(w, f)'
  <2>1. k - 1 \in DOMAIN Tail(todo) /\ Tail(todo)[k - 1] = todo[k]
    BY <1>1, <1>4, TailFacts
  <2> QED BY <1>2, <1>4, <2>1 DEF InTodo
<1>5. CASE todo[1].follower = f
  <2>1. \A k \in DOMAIN todo : todo[k].follower = f => todo[k].on = R
    BY <1>1 DEF Misleads, OnRight
  <2>2. todo[1].on = R /\ todo[1].on \in BOOLEAN
    BY <1>1, <1>5, <2>1, TailFacts DEF Entries
  <2>3. (f \in redis'.marked) = todo[1].on
    <3>1. ASSUME NEW on \in BOOLEAN, redis'.marked = IF on THEN redis.marked \cup {f} ELSE redis.marked \ {f}
          PROVE  (f \in redis'.marked) = on
      BY <3>1
    <3> QED BY <1>2, <1>5, <2>2, <3>1
  <2>4. RightMark(f)'
    BY <1>2, <2>2, <2>3 DEF RightMark, OnRight
  <2>5. /\ \A v \in Workers : v # w => worker[v].epoch < redis.fence
        /\ late.kind # "none" => late.epoch < redis.fence
    BY <1>1, HolderFresh DEF Past
  <2>6. \A k \in DOMAIN Tail(todo) : Tail(todo)[k].follower = f => Tail(todo)[k].on = R
    BY <1>1, <2>1, TailFacts
  <2>7. ~Misleads(w, f)'
    BY <1>2, <2>6 DEF Misleads, OnRight
  <2>8. MarksFresh(f)'
    BY <1>2, <2>5, <2>7 DEF MarksFresh, Misleads, Only
  <2> QED BY <2>4, <2>8 DEF Fit
<1> QED BY <1>3, <1>4, <1>5 DEF InTodo

(* A page leaves behind followers that fit.                                *)
LEMMA ScanKept ==
  ASSUME MarksInv, [Next]_vars PROVE ScanInv'
<1>b. Base /\ ScanInv
  BY DEF MarksInv, TimelineInv
<1> SUFFICES ASSUME NEW w \in Workers, lock' = w, worker'[w].pc \in {"mark", "save"}, Kind(worker'[w].task) = "author"
             PROVE  /\ ~author'.complete
                    /\ \A f \in Followers : LastEvent(f)' > 0 /\ Paired(f)' =>
                          /\ ~Misleads(w, f)'
                          /\ RowsOf(f)' \cap Leaving(w)' # {} => Fit(f)' \/ InTodo(w, f)'
  BY DEF ScanInv, Kind
<1>l. lock = w
  BY <1>b, LockBefore DEF EnterGo
<1>s. worker'[w] = worker[w] \/ BeginGo(w) \/ MarkGo(w)
  BY <1>b, MarkerBefore DEF DecideGo, EnterGo
<1>a. author' = author /\ ((\E g \in Followers : Change(g)) \/ relations' = relations)
  <2>1. ASSUME NEW v \in Workers, DecideGo(v) \/ SaveGo(v) PROVE FALSE
    BY <1>l, <2>1 DEF DecideGo, SaveGo
  <2>2. ASSUME NEW g \in Followers, Change(g) PROVE author' = author
    BY <2>2 DEF Change
  <2> QED BY <1>b, <2>1, <2>2, AuthorSteps
<1>p. ASSUME NEW f \in Followers, LastEvent(f)' > 0, Paired(f)'
      PROVE  /\ LastEvent(f) > 0 /\ Paired(f) /\ Following(f)' = Following(f) /\ RowsOf(f)' = RowsOf(f)
             /\ RowsOf(f) \cap ToScan' \subseteq ToScan
  <2>1. ~\E v \in Workers : MarkGo(v) /\ lock = v /\ worker'[v].pc = "tweets"
    BY <1>l
  <2>2. RowsOf(f) \cap ToScan' \subseteq ToScan
    BY <1>a, <1>b, ToScanFacts
  <2> QED BY <1>b, <1>p, <2>1, <2>2, PairedBefore
<1>1. CASE worker'[w] = worker[w]
  <2>1. worker[w].pc \in {"mark", "save"} /\ Kind(worker[w].task) = "author"
    BY <1>1
  <2>2. ~author'.complete
    BY <1>a, <1>b, <1>l, <2>1 DEF ScanInv
  <2>3. ASSUME NEW f \in Followers, LastEvent(f)' > 0, Paired(f)'
        PROVE  /\ ~Misleads(w, f)'
               /\ RowsOf(f)' \cap Leaving(w)' # {} => Fit(f)' \/ InTodo(w, f)'
    <3>1. ~Misleads(w, f) /\ (RowsOf(f) \cap Leaving(w) # {} => Fit(f) \/ InTodo(w, f))
      BY <1>b, <1>l, <1>p, <2>1, <2>3 DEF ScanInv
    <3>2. ~Misleads(w, f)'
      BY <1>1, <1>a, <1>p, <2>3, <3>1 DEF Misleads, OnRight
    <3>3. Fit(f) => Fit(f)'
      BY <1>a, <1>b, <1>p, <2>3, FitKept
    <3>4. InTodo(w, f) => InTodo(w, f)'
      BY <1>1 DEF InTodo
    <3>5. RowsOf(f)' \cap Leaving(w)' \subseteq RowsOf(f) \cap Leaving(w)
      BY <1>1, <1>p, <2>3 DEF Leaving
    <3> QED BY <3>1, <3>2, <3>3, <3>4, <3>5
  <2> QED BY <2>2, <2>3
<1>2. CASE MarkGo(w)
  <2>1. /\ worker[w].pc = "mark" /\ Kind(worker[w].task) = "author" /\ relations' = relations
        /\ worker'[w].todo = Tail(worker[w].todo)
        /\ worker'[w].page = worker[w].page /\ worker'[w].more = worker[w].more
    BY <1>2 DEF MarkGo, SamePage, Frame
  <2>2. ~author'.complete
    BY <1>a, <1>b, <1>l, <2>1 DEF ScanInv
  <2>3. ASSUME NEW f \in Followers, LastEvent(f)' > 0, Paired(f)'
        PROVE  /\ ~Misleads(w, f)'
               /\ RowsOf(f)' \cap Leaving(w)' # {} => Fit(f)' \/ InTodo(w, f)'
    <3>1. ~Misleads(w, f) /\ (RowsOf(f) \cap Leaving(w) # {} => Fit(f) \/ InTodo(w, f))
      BY <1>b, <1>l, <1>p, <2>1, <2>3 DEF ScanInv
    <3>2. ~Misleads(w, f)'
      <4> DEFINE todo == worker[w].todo
                 R == author.celebrity /\ Following(f)
      <4>1. todo \in Seq(Entries) /\ todo # <<>>
        BY <1>b, <2>1 DEF Base, StageInv, Staged, TypeInv, WorkerStates
      <4>2. \A k \in DOMAIN todo : todo[k].follower = f => todo[k].on = R
        BY <2>1, <3>1 DEF Misleads, OnRight
      <4>3. \A k \in DOMAIN Tail(todo) : Tail(todo)[k].follower = f => Tail(todo)[k].on = R
        BY <4>1, <4>2, TailFacts
      <4> QED BY <1>a, <1>p, <2>1, <2>3, <4>3 DEF Misleads, OnRight
    <3>3. RowsOf(f)' \cap Leaving(w)' \subseteq RowsOf(f) \cap Leaving(w)
      BY <1>p, <2>1, <2>3 DEF Leaving
    <3>4. Fit(f) \/ InTodo(w, f) => Fit(f)' \/ InTodo(w, f)'
      BY <1>2, <1>b, <1>l, <1>p, <2>3, <3>1, ScanMarks
    <3> QED BY <3>1, <3>2, <3>3, <3>4
  <2> QED BY <2>2, <2>3
<1>3. CASE BeginGo(w)
  <2>0. /\ worker'[w].pc = "mark" /\ Kind(worker[w].task) = "author" /\ ~author.complete
        /\ worker'[w].page = Page(Len(relations), author.cursor)
        /\ worker'[w].more = More(Len(relations), author.cursor)
        /\ relations' = relations
    BY <1>3, <1>a DEF BeginGo, Frame
  <2>1. /\ worker'[w].todo \in Seq(Entries)
        /\ \A k \in DOMAIN worker'[w].todo :
               worker'[w].todo[k].on = (author.celebrity /\ Following(worker'[w].todo[k].follower))
        /\ \A i \in worker'[w].page : \E k \in DOMAIN worker'[w].todo :
               worker'[w].todo[k].follower = relations[i].follower
    BY <1>3, <1>b, <2>0, BeginMarksRight
  <2>2. Leaving(w)' \subseteq worker'[w].page
    <3>1. Len(relations) \in Nat /\ author.cursor \in Nat
      BY <1>b DEF Base, TypeInv, Authors
    <3>2. ToScan' = Below(Len(relations), author.cursor)
      BY <1>a, <2>0 DEF ToScan, Below
    <3> QED BY <2>0, <3>1, <3>2, PageFacts DEF Leaving
  <2>3. ASSUME NEW f \in Followers, LastEvent(f)' > 0, Paired(f)'
        PROVE  /\ ~Misleads(w, f)'
               /\ RowsOf(f)' \cap Leaving(w)' # {} => Fit(f)' \/ InTodo(w, f)'
    <3>1. ~Misleads(w, f)'
      BY <1>a, <1>p, <2>1, <2>3 DEF Misleads, OnRight
    <3>2. ASSUME NEW i \in RowsOf(f)', i \in Leaving(w)' PROVE InTodo(w, f)'
      <4>1. relations[i].follower = f
        BY <1>p, <2>3, <3>2 DEF RowsOf
      <4>2. i \in worker'[w].page
        BY <2>2, <3>2
      <4> QED BY <2>1, <4>1, <4>2 DEF InTodo
    <3> QED BY <3>1, <3>2
  <2> QED BY <1>a, <2>0, <2>3
<1> QED BY <1>s, <1>1, <1>2, <1>3

(* Marks are of followers with rows.                                       *)
LEMMA TouchKept ==
  ASSUME MarksInv, [Next]_vars PROVE TouchInv'
<1>b. Base /\ TouchInv
  BY DEF MarksInv, TimelineInv
<1>r. ASSUME NEW f \in Followers, RowsOf(f) # {} PROVE RowsOf(f)' # {}
  <2>1. ASSUME NEW g \in Followers, Change(g) PROVE RowsOf(f)' # {}
    BY <1>b, <1>r, <2>1, ChangeFacts
  <2>2. relations' = relations /\ log' = log => RowsOf(f)' # {}
    BY <1>r, Steady
  <2> QED BY <1>b, <2>1, <2>2, StepFrame
<1>c. ASSUME NEW w \in Workers, worker[w].pc = "mark"
      PROVE  /\ worker[w].todo \in Seq(Entries) /\ worker[w].todo # <<>>
             /\ worker[w].todo[1].follower \in Followers /\ RowsOf(worker[w].todo[1].follower) # {}
  <2>1. worker[w].todo \in Seq(Entries) /\ worker[w].todo # <<>>
    BY <1>b, <1>c DEF Base, StageInv, Staged, TypeInv, WorkerStates
  <2>2. 1 \in DOMAIN worker[w].todo /\ worker[w].todo[1].follower \in Followers
    BY <2>1, TailFacts DEF Entries
  <2>3. InTodo(w, worker[w].todo[1].follower)
    BY <2>2 DEF InTodo
  <2> QED BY <1>b, <1>c, <2>1, <2>2, <2>3 DEF TouchInv
<1>1. ASSUME NEW f \in redis'.marked PROVE RowsOf(f)' # {}
  <2>f. f \in Followers
    <3>1. redis' \in Caches
      BY <1>b, TypeKept DEF TypeInv
    <3> QED BY <1>1, <3>1 DEF Caches
  <2>1. CASE f \in redis.marked
    BY <1>b, <1>r, <2>1, <2>f DEF TouchInv
  <2>2. ASSUME f \notin redis.marked, NEW w \in Workers, MarkGo(w) PROVE RowsOf(f)' # {}
    <3>1. f = worker[w].todo[1].follower /\ worker[w].pc = "mark"
      BY <1>1, <2>2 DEF MarkGo
    <3> QED BY <1>c, <1>r, <2>f, <3>1
  <2>3. ASSUME f \notin redis.marked, NEW c \in Commands, Lost(c) PROVE RowsOf(f)' # {}
    <3>1. c.kind = "mark" /\ f \in c.follower
      BY <1>1, <1>b, <2>3, AppliedFacts DEF Lost, Base, Commands
    <3>2. CASE c = late
      BY <1>b, <1>r, <2>f, <3>1, <3>2 DEF TouchInv
    <3>3. ASSUME NEW w \in Workers, worker[w].pc \in Sends, c = Command(w) PROVE RowsOf(f)' # {}
      <4>1. worker[w].pc = "mark" /\ c.follower = {worker[w].todo[1].follower}
        BY <1>b, <3>1, <3>3, CommandFacts DEF Base
      <4> QED BY <1>c, <1>r, <2>f, <3>1, <4>1
    <3> QED BY <2>3, <3>2, <3>3 DEF Lost
  <2>4. ASSUME NEW w \in Workers, Progress(w), ~MarkGo(w) PROVE redis'.marked = redis.marked
    BY <2>4 DEF Progress, TimedOut, EnterGo, DecideGo, BeginGo, WriteGo, RecheckGo, SaveGo, AdvanceGo
  <2>5. Calm => redis'.marked = redis.marked
    BY DEF Calm, CacheCalm
  <2>6. ASSUME NEW g \in Followers, Change(g) PROVE redis'.marked = redis.marked
    BY <2>6 DEF Change
  <2> QED BY <1>1, <1>b, <2>1, <2>2, <2>3, <2>4, <2>5, <2>6, StepClasses
<1>2. ASSUME NEW w \in Workers, NEW f \in Followers, worker'[w].pc = "mark", InTodo(w, f)' PROVE RowsOf(f)' # {}
  <2>1. CASE worker'[w] = worker[w]
    BY <1>2, <1>b, <1>r, <2>1 DEF TouchInv, InTodo
  <2>2. CASE BeginGo(w)
    BY <1>2, <1>b, <1>r, <2>2, BeginMarksRight DEF InTodo
  <2>3. CASE MarkGo(w)
    <3>1. worker[w].pc = "mark" /\ worker'[w].todo = Tail(worker[w].todo)
      BY <2>3 DEF MarkGo
    <3>2. PICK k \in DOMAIN Tail(worker[w].todo) : Tail(worker[w].todo)[k].follower = f
      BY <1>2, <3>1 DEF InTodo
    <3>3. k + 1 \in DOMAIN worker[w].todo /\ worker[w].todo[k + 1].follower = f
      BY <1>c, <3>1, <3>2, TailFacts
    <3>4. InTodo(w, f)
      BY <3>3 DEF InTodo
    <3> QED BY <1>b, <1>r, <3>1, <3>4 DEF TouchInv
  <2> QED BY <1>2, <1>b, <2>1, <2>2, <2>3, MarkerBefore DEF DecideGo, EnterGo
<1>3. ASSUME late'.kind = "mark", NEW f \in late'.follower PROVE RowsOf(f)' # {}
  <2>f. f \in Followers
    <3>1. late' \in Commands
      BY <1>b, TypeKept DEF TypeInv
    <3> QED BY <1>3, <3>1 DEF Commands
  <2>1. CASE late' \in {late, NoCommand}
    BY <1>3, <1>b, <1>r, <2>1, <2>f DEF TouchInv, NoCommand
  <2>2. ASSUME NEW w \in Workers, TimedOut(w) PROVE RowsOf(f)' # {}
    <3>1. worker[w].pc = "mark" /\ late'.follower = {worker[w].todo[1].follower}
      BY <1>3, <1>b, <2>2, CommandFacts DEF TimedOut, Base
    <3> QED BY <1>3, <1>c, <1>r, <3>1
  <2> QED BY <1>b, <2>1, <2>2, LateSteps
<1> QED BY <1>1, <1>2, <1>3 DEF TouchInv

-----------------------------------------------------------------------------
(* A decision is a fixed point: to decide again with the same number of    *)
(* followers changes nothing.                                              *)
LEMMA DecisionFixed ==
  ASSUME NEW previous \in BOOLEAN, NEW n
  PROVE  DecideCelebrity(DecideCelebrity(previous, n), n) = DecideCelebrity(previous, n)
BY DEF DecideCelebrity

(* The author task of a new event has not run.                             *)
LEMMA ChangeUndecides ==
  ASSUME Base, NEW f \in Followers, Change(f)
  PROVE  /\ ~Succeeded(LastAuthor)'
         /\ \A w \in Workers : worker'[w].pc # "idle" => worker'[w].task # LastAuthor'
<1>1. Len(log') = Len(log) + 1 /\ Len(log) + 1 \in Events
  BY ChangeFacts, ProjectionAssumption DEF Events, Base, TypeInv
<1> DEFINE t == <<Len(log) + 1, "author">>
<1>2. t \in Tasks /\ t[1] = Len(log) + 1 /\ LastAuthor' = t
  BY <1>1, ProjectionAssumption DEF LastAuthor
<1> HIDE DEF t
<1>3. /\ rows'[t].status = "absent"
      /\ \A w \in Workers : worker'[w].pc # "idle" => worker'[w].task # t
  BY <1>2, NewEvent
<1> QED BY <1>2, <1>3 DEF Succeeded

(* The author task of the last event is a task.                            *)
LEMMA AuthorFacts ==
  ASSUME Base, Len(log) > 0 PROVE LastAuthor \in Tasks /\ Kind(LastAuthor) = "author"
<1>1. Len(log) \in Events
  BY ProjectionAssumption DEF Base, TypeInv, Events
<1> QED BY <1>1, ProjectionAssumption DEF LastAuthor, Kind

(* Who holds the lock for it has decided with the followers there are now. *)
LEMMA DecideKept ==
  ASSUME MarksInv, [Next]_vars PROVE DecideInv'
<1>b. Base /\ DecideInv
  BY DEF MarksInv, TimelineInv
<1> SUFFICES ASSUME NEW w \in Workers, lock' = w, worker'[w].pc = "decide", worker'[w].task = LastAuthor'
             PROVE  Fixed(worker[w].celebrity)'
  BY DEF DecideInv
<1>1. UNCHANGED <<relations, log>>
  <2>1. ASSUME NEW f \in Followers, Change(f) PROVE FALSE
    BY <1>b, <2>1, ChangeUndecides
  <2> QED BY <1>b, <2>1, StepFrame
<1>2. LastAuthor' = LastAuthor /\ FollowerCount' = FollowerCount
  BY <1>1, Steady DEF LastAuthor
<1>3. CASE EnterGo(w)
  <2> DEFINE previous == IF author.started \/ Kind(worker[w].task) = "pair" THEN author.celebrity ELSE redis.celebrity
  <2>1. worker'[w].celebrity = DecideCelebrity(previous, FollowerCount)
    BY <1>3 DEF EnterGo
  <2>2. previous \in BOOLEAN
    BY <1>b DEF Base, TypeInv, Authors, Caches
  <2> HIDE DEF previous
  <2> QED BY <1>2, <2>1, <2>2, DecisionFixed DEF Fixed, DecideCelebrity
<1>4. CASE ~EnterGo(w)
  <2>1. lock = w
    BY <1>4, <1>b, LockBefore
  <2>2. worker'[w] = worker[w]
    <3>1. BeginGo(w) \/ MarkGo(w) \/ DecideGo(w) => worker'[w].pc # "decide"
      BY DEF BeginGo, MarkGo, DecideGo
    <3> QED BY <1>4, <1>b, <3>1, MarkerBefore
  <2> QED BY <1>2, <1>b, <2>1, <2>2 DEF DecideInv, Fixed, DecideCelebrity
<1> QED BY <1>3, <1>4

(* A worker that executes has made this step or none.                      *)
LEMMA BusyBefore ==
  ASSUME Base, [Next]_vars, NEW v \in Workers, worker'[v].pc \in Busy \cup {"decide"}
  PROVE  worker'[v] = worker[v] \/ Progress(v)
<1>q. \A r : Quiet(r) => r.pc \notin Busy \cup {"decide"}
  BY DEF Quiet, Busy, Past
<1>1. CASE Calm
  BY <1>1, <1>q DEF Calm, CacheCalm, WorkersCalm
<1>2. ASSUME NEW g \in Followers, Change(g) PROVE worker'[v] = worker[v]
  BY <1>2 DEF Change
<1>3. ASSUME NEW c \in Commands, Lost(c) PROVE worker'[v] = worker[v]
  BY <1>3, <1>q DEF Lost, WorkersCalm
<1>4. ASSUME NEW w \in Workers, Progress(w), w # v PROVE worker'[v] = worker[v]
  BY <1>4, ProgressFrame DEF Only
<1> QED BY <1>1, <1>2, <1>3, <1>4, StepClasses

(* The last author task has decided before, or does so in this step.       *)
LEMMA DecidedBefore ==
  ASSUME Base, [Next]_vars, Len(log') > 0, Decided'
  PROVE  /\ UNCHANGED <<relations, log>> /\ LastAuthor' = LastAuthor /\ FollowerCount' = FollowerCount
         /\ Decided \/ \E w \in Workers : DecideGo(w) /\ worker[w].task = LastAuthor
<1>q. \A r : Quiet(r) => r.pc \notin Busy
  BY DEF Quiet, Busy, Past
<1>1. UNCHANGED <<relations, log>>
  <2>1. ASSUME NEW f \in Followers, Change(f) PROVE FALSE
    <3>1. "idle" \notin Busy
      BY DEF Busy, Past
    <3> QED BY <2>1, <3>1, ChangeUndecides DEF Decided
  <2> QED BY <2>1, StepFrame
<1>2. LastAuthor' = LastAuthor /\ FollowerCount' = FollowerCount
  BY <1>1, Steady DEF LastAuthor
<1>3. LastAuthor \in Tasks
  BY <1>1, AuthorFacts
<1>4. CASE Succeeded(LastAuthor)'
  <2>1. Succeeded(LastAuthor) \/ \E w \in Workers : AdvanceGo(w) /\ worker[w].task = LastAuthor
    BY <1>2, <1>3, <1>4, SucceedsByAdvance DEF Succeeded
  <2> QED BY <1>1, <1>2, <2>1 DEF Decided, AdvanceGo, Busy, Past
<1>5. ASSUME NEW w \in Workers, worker'[w].task = LastAuthor, worker'[w].pc \in Busy
      PROVE  /\ worker[w].task = LastAuthor
             /\ worker[w].pc \in Busy \/ DecideGo(w)
  <2>1. CASE worker'[w] = worker[w]
    BY <1>5, <2>1
  <2>2. CASE Progress(w)
    <3>1. EnterGo(w) => worker'[w].pc \notin Busy
      BY DEF EnterGo, Busy, Past
    <3>2. BeginGo(w) \/ MarkGo(w) \/ WriteGo(w) \/ RecheckGo(w) \/ SaveGo(w) =>
            worker[w].pc \in Busy /\ worker'[w].task = worker[w].task
      BY DEF BeginGo, MarkGo, WriteGo, RecheckGo, SaveGo, SamePage, Busy, Past
    <3> QED BY <1>5, <1>q, <2>2, <3>1, <3>2 DEF Progress, TimedOut, DecideGo, AdvanceGo
  <2> QED BY <1>5, <2>1, <2>2, BusyBefore
<1> QED BY <1>1, <1>2, <1>4, <1>5 DEF Decided

(* The decision stands.                                                    *)
LEMMA DecidedKept ==
  ASSUME MarksInv, [Next]_vars PROVE DecidedInv'
<1>b. Base /\ DecideInv /\ DecidedInv
  BY DEF MarksInv, TimelineInv
<1> SUFFICES ASSUME Len(log') > 0, Decided'
             PROVE  /\ author'.started /\ Fixed(author.celebrity)'
                    /\ \A w \in Workers : lock' = w /\ worker'[w].pc = "decide" =>
                          worker'[w].celebrity = author'.celebrity
  BY DEF DecidedInv
<1>1. /\ UNCHANGED <<relations, log>> /\ LastAuthor' = LastAuthor /\ FollowerCount' = FollowerCount
      /\ Decided \/ \E w \in Workers : DecideGo(w) /\ worker[w].task = LastAuthor
  BY <1>b, DecidedBefore
<1>2. Decided =>
        /\ author.started /\ Fixed(author.celebrity)
        /\ \A w \in Workers : lock = w /\ worker[w].pc = "decide" => worker[w].celebrity = author.celebrity
  BY <1>1, <1>b DEF DecidedInv
<1>f. ASSUME Fixed(author'.celebrity) PROVE Fixed(author.celebrity)'
  BY <1>1, <1>f DEF Fixed, DecideCelebrity
<1>3. ASSUME NEW v \in Workers, DecideGo(v)
      PROVE  /\ author'.started /\ Fixed(author.celebrity)'
             /\ \A w \in Workers : lock' = w /\ worker'[w].pc = "decide" =>
                   worker'[w].celebrity = author'.celebrity
  <2>1. /\ lock = v /\ lock' = v /\ worker[v].pc = "decide" /\ worker'[v].pc = "begin"
        /\ author'.started /\ author'.celebrity = worker[v].celebrity
    BY <1>3 DEF DecideGo
  <2>2. Fixed(worker[v].celebrity)
    <3>1. CASE Decided
      BY <1>2, <2>1, <3>1
    <3>2. CASE ~Decided
      <4>1. PICK w \in Workers : DecideGo(w) /\ worker[w].task = LastAuthor
        BY <1>1, <3>2
      <4>2. w = v
        BY <2>1, <4>1 DEF DecideGo
      <4> QED BY <1>b, <2>1, <4>1, <4>2 DEF DecideInv
    <3> QED BY <3>1, <3>2
  <2> QED BY <1>f, <2>1, <2>2
<1>4. ASSUME ~\E v \in Workers : DecideGo(v)
      PROVE  /\ author'.started /\ Fixed(author.celebrity)'
             /\ \A w \in Workers : lock' = w /\ worker'[w].pc = "decide" =>
                   worker'[w].celebrity = author'.celebrity
  <2>1. Decided
    BY <1>1, <1>4
  <2>2. author'.started = author.started /\ author'.celebrity = author.celebrity
    <3>1. ASSUME NEW g \in Followers, Change(g) PROVE author' = author
      BY <3>1 DEF Change
    <3>2. ASSUME NEW v \in Workers, SaveGo(v)
          PROVE  author'.started = author.started /\ author'.celebrity = author.celebrity
      BY <3>2 DEF SaveGo
    <3> QED BY <1>4, <1>b, <3>1, <3>2, AuthorSteps
  <2>3. ASSUME NEW w \in Workers, lock' = w, worker'[w].pc = "decide" PROVE worker'[w].celebrity = author.celebrity
    <3>1. CASE EnterGo(w)
      <4>1. worker'[w].celebrity = DecideCelebrity(author.celebrity, FollowerCount)
        BY <1>2, <2>1, <3>1 DEF EnterGo
      <4> QED BY <1>2, <2>1, <4>1 DEF Fixed
    <3>2. CASE ~EnterGo(w)
      <4>1. lock = w
        BY <1>b, <2>3, <3>2, LockBefore
      <4>2. BeginGo(w) \/ MarkGo(w) => worker'[w].pc # "decide"
        BY DEF BeginGo, MarkGo
      <4>3. worker'[w] = worker[w]
        BY <1>4, <1>b, <2>3, <3>2, <4>2, MarkerBefore
      <4> QED BY <1>2, <2>1, <2>3, <4>1, <4>3
    <3> QED BY <3>1, <3>2
  <2> QED BY <1>2, <1>f, <2>1, <2>2, <2>3
<1> QED BY <1>3, <1>4

(* Redis is told by whoever begins.                                        *)
LEMMA ToldBefore ==
  ASSUME Base, [Next]_vars, Len(log') > 0, Told'
  PROVE  /\ UNCHANGED <<relations, log>>
         /\ (Told /\ Decided) \/ \E w \in Workers : BeginGo(w)
<1> DEFINE P == {"mark", "save", "advance"}
<1>q. \A r : Quiet(r) => r.pc \notin P
  BY DEF Quiet
<1>d. P \subseteq Busy
  BY DEF Busy, Past
<1>0. Decided'
  BY <1>d DEF Told, Decided
<1>1. UNCHANGED <<relations, log>> /\ LastAuthor' = LastAuthor /\ Len(log) > 0
  BY <1>0, DecidedBefore
<1>2. Told => Decided
  BY <1>d DEF Told, Decided
<1>3. LastAuthor \in Tasks /\ Kind(LastAuthor) = "author"
  BY <1>1, AuthorFacts
<1>4. CASE Succeeded(LastAuthor)'
  <2>1. Succeeded(LastAuthor) \/ \E w \in Workers : AdvanceGo(w) /\ worker[w].task = LastAuthor
    BY <1>1, <1>3, <1>4, SucceedsByAdvance DEF Succeeded
  <2> QED BY <1>1, <1>2, <2>1 DEF Told, AdvanceGo
<1>5. ASSUME NEW w \in Workers, worker'[w].task = LastAuthor, worker'[w].pc \in P
      PROVE  (worker[w].task = LastAuthor /\ worker[w].pc \in P) \/ BeginGo(w)
  <2>1. CASE worker'[w] = worker[w]
    BY <1>5, <2>1
  <2>2. CASE Progress(w)
    <3>1. RecheckGo(w) => Kind(worker'[w].task) = "pair"
      BY DEF RecheckGo, SamePage, Base, StageInv, Staged
    <3>2. WriteGo(w) \/ EnterGo(w) \/ DecideGo(w) => worker'[w].pc \notin P
      BY DEF WriteGo, EnterGo, DecideGo
    <3>3. MarkGo(w) \/ SaveGo(w) => worker[w].pc \in P /\ worker'[w].task = worker[w].task
      BY DEF MarkGo, SaveGo, SamePage
    <3> QED BY <1>3, <1>5, <1>q, <2>2, <3>1, <3>2, <3>3 DEF Progress, TimedOut, AdvanceGo
  <2> QED BY <1>5, <1>d, <2>1, <2>2, BusyBefore
<1> QED BY <1>1, <1>2, <1>4, <1>5 DEF Told

(* Redis keeps the status it was told.                                     *)
LEMMA ToldKept ==
  ASSUME MarksInv, [Next]_vars PROVE ToldInv'
<1>b. Base /\ DecidedInv /\ ToldInv
  BY DEF MarksInv, TimelineInv
<1> SUFFICES ASSUME Len(log') > 0, Told' PROVE RedisOk'
  BY DEF ToldInv
<1>1. UNCHANGED <<relations, log>> /\ ((Told /\ Decided) \/ \E w \in Workers : BeginGo(w))
  BY <1>b, ToldBefore
<1>f. redis'.fence >= redis.fence /\ redis.fence \in Nat /\ redis'.fence \in Nat
  BY <1>b, FenceRises
<1>t. late.epoch \in Nat /\ \A v \in Workers : worker[v].epoch \in Nat
  BY <1>b DEF Base, TypeInv, Commands, WorkerStates
<1>2. ASSUME NEW w \in Workers, BeginGo(w) PROVE RedisOk'
  <2>1. /\ \A v \in Workers : v # w /\ worker[v].pc \in Busy => worker[v].epoch < redis'.fence
        /\ late.kind # "none" => late.epoch < redis'.fence
    BY <1>2, <1>b, OthersStale
  <2>2. /\ author' = author /\ late' = late /\ Only(w) /\ worker'[w].pc # "begin"
        /\ redis'.celebrity = worker[w].celebrity /\ lock = w /\ worker[w].pc = "begin"
    BY <1>2 DEF BeginGo, Frame
  <2>3. worker[w].celebrity = author.celebrity
    BY <1>b, <2>2 DEF Base, LockInv, Busy
  <2> QED BY <2>1, <2>2, <2>3 DEF RedisOk, Only, Busy
<1>3. ASSUME Told, Decided, ~\E w \in Workers : BeginGo(w) PROVE RedisOk'
  <2>0. /\ RedisOk
        /\ \A w \in Workers : lock = w /\ worker[w].pc = "decide" => worker[w].celebrity = author.celebrity
    BY <1>1, <1>3, <1>b DEF ToldInv, DecidedInv
  <2>1. author'.celebrity = author.celebrity
    <3>1. ASSUME NEW v \in Workers, DecideGo(v) PROVE author'.celebrity = author.celebrity
      BY <2>0, <3>1 DEF DecideGo
    <3>2. ASSUME NEW v \in Workers, SaveGo(v) PROVE author'.celebrity = author.celebrity
      BY <3>2 DEF SaveGo
    <3>3. ASSUME NEW g \in Followers, Change(g) PROVE author' = author
      BY <3>3 DEF Change
    <3> QED BY <1>b, <3>1, <3>2, <3>3, AuthorSteps
  <2>2. ASSUME NEW w \in Workers, worker'[w].pc = "begin", worker'[w].celebrity # author.celebrity
        PROVE  worker'[w].epoch < redis'.fence
    <3>1. CASE worker'[w] = worker[w]
      BY <1>f, <1>t, <2>0, <2>2, <3>1 DEF RedisOk
    <3>2. ~DecideGo(w)
      BY <2>0, <2>2 DEF DecideGo
    <3>3. ~MarkGo(w) /\ ~EnterGo(w)
      BY <2>2 DEF MarkGo, EnterGo
    <3> QED BY <1>3, <1>b, <2>2, <3>1, <3>2, <3>3, MarkerBefore
  <2>3. ASSUME late'.kind = "begin", late'.on # author.celebrity PROVE late'.epoch < redis'.fence
    <3>1. CASE late' \in {late, NoCommand}
      BY <1>f, <1>t, <2>0, <2>3, <3>1 DEF RedisOk, NoCommand
    <3>2. ASSUME NEW w \in Workers, TimedOut(w) PROVE late'.epoch < redis'.fence
      <4>1. worker[w].pc = "begin" /\ late'.epoch = worker[w].epoch /\ late'.on = worker[w].celebrity
        BY <1>b, <2>3, <3>2, CommandFacts DEF TimedOut, Base
      <4> QED BY <1>f, <1>t, <2>0, <2>3, <4>1 DEF RedisOk
    <3> QED BY <1>b, <3>1, <3>2, LateSteps
  <2>4. redis'.celebrity = author.celebrity
    <3>1. CASE redis'.celebrity = redis.celebrity
      BY <2>0, <3>1 DEF RedisOk
    <3>2. ASSUME NEW c \in Commands, Lost(c) PROVE redis'.celebrity = author.celebrity
      <4>1. CASE c.kind # "begin"
        BY <1>b, <3>1, <3>2, <4>1, LostFacts
      <4>2. CASE c.kind = "begin"
        <5>1. c.epoch >= redis.fence /\ redis'.celebrity = c.on /\ c.epoch \in Nat
          BY <1>b, <3>2, <4>2, LostFacts
        <5>2. CASE c = late
          BY <1>f, <2>0, <4>2, <5>1, <5>2 DEF RedisOk
        <5>3. ASSUME NEW w \in Workers, worker[w].pc \in Sends, c = Command(w) PROVE c.on = author.celebrity
          <6>1. worker[w].pc = "begin" /\ c.epoch = worker[w].epoch /\ c.on = worker[w].celebrity
            BY <1>b, <4>2, <5>3, CommandFacts DEF Base
          <6> QED BY <1>f, <2>0, <5>1, <6>1 DEF RedisOk
        <5> QED BY <3>2, <5>1, <5>2, <5>3 DEF Lost
      <4> QED BY <4>1, <4>2
    <3>3. ASSUME NEW w \in Workers, Progress(w) PROVE redis'.celebrity = redis.celebrity
      BY <1>3, <3>3 DEF Progress, TimedOut, EnterGo, DecideGo, MarkGo, WriteGo, RecheckGo, SaveGo, AdvanceGo
    <3>4. Calm => redis'.celebrity = redis.celebrity
      BY DEF Calm, CacheCalm
    <3>5. ASSUME NEW g \in Followers, Change(g) PROVE redis'.celebrity = redis.celebrity
      BY <3>5 DEF Change
    <3> QED BY <1>b, <3>1, <3>2, <3>3, <3>4, <3>5, StepClasses
  <2> QED BY <2>1, <2>2, <2>3, <2>4 DEF RedisOk
<1> QED BY <1>1, <1>2, <1>3

(* The scan that succeeds is complete, and nobody starts it over.          *)
LEMMA CompleteKept ==
  ASSUME MarksInv, [Next]_vars PROVE CompleteInv'
<1>b. Base /\ DecidedInv /\ CompleteInv /\ ScanInv
  BY DEF MarksInv, TimelineInv
<1> SUFFICES ASSUME Len(log') > 0, Succeeded(LastAuthor)' PROVE author'.complete
  BY DEF CompleteInv
<1>1. UNCHANGED <<relations, log>> /\ LastAuthor' = LastAuthor
  BY <1>b, DecidedBefore DEF Decided
<1>2. LastAuthor \in Tasks /\ Kind(LastAuthor) = "author"
  BY <1>1, <1>b, AuthorFacts
<1>3. Succeeded(LastAuthor) \/ \E w \in Workers : AdvanceGo(w) /\ worker[w].task = LastAuthor
  BY <1>1, <1>2, <1>b, SucceedsByAdvance DEF Succeeded
<1>4. ASSUME NEW w \in Workers, AdvanceGo(w), worker[w].task = LastAuthor PROVE author'.complete
  BY <1>2, <1>4 DEF AdvanceGo
<1>5. CASE Succeeded(LastAuthor)
  <2>1. author.complete
    BY <1>1, <1>5, <1>b DEF CompleteInv
  <2>2. ASSUME NEW w \in Workers, SaveGo(w) PROVE FALSE
    <3>1. lock = w /\ worker[w].pc = "save" /\ Kind(worker[w].task) = "author"
      BY <1>b, <2>2 DEF SaveGo, Base, StageInv, Staged
    <3> QED BY <1>b, <2>1, <3>1 DEF ScanInv
  <2>3. ASSUME NEW w \in Workers, DecideGo(w) PROVE author'.complete
    <3>1. author.started /\ worker[w].celebrity = author.celebrity
      BY <1>1, <1>5, <1>b, <2>3 DEF DecidedInv, Decided, DecideGo
    <3> QED BY <2>1, <2>3, <3>1 DEF DecideGo
  <2>4. ASSUME NEW g \in Followers, Change(g) PROVE author' = author
    BY <2>4 DEF Change
  <2> QED BY <1>b, <2>1, <2>2, <2>3, <2>4, AuthorSteps
<1> QED BY <1>3, <1>4, <1>5

-----------------------------------------------------------------------------
(* The invariant holds before anything has happened.                       *)
LEMMA MarksInit == Init => MarksInv
<1> SUFFICES ASSUME Init PROVE MarksInv
  OBVIOUS
<1>1. TimelineInv
  BY TimelineInit
<1>2. /\ log = <<>> /\ lock = NoWorker /\ redis.marked = {} /\ late.kind = "none"
      /\ \A w \in Workers : worker[w].pc = "idle"
  BY RestingType DEF Init, NoCommand
<1>3. \A f : ~(LastEvent(f) > 0)
  <2>1. ASSUME NEW f PROVE LastEvent(f) \in 0 .. 0
    BY <1>1, <1>2, LastEventFacts DEF TimelineInv, Base
  <2> QED BY <2>1
<1>4. ~(Len(log) > 0)
  BY <1>2
<1>5. lock \notin Workers
  BY <1>2, OutboxAssumption
<1> QED BY <1>1, <1>2, <1>3, <1>4, <1>5 DEF MarksInv, MarkInv, ScanInv, TouchInv, DecideInv, DecidedInv, ToldInv, CompleteInv

(* A follower whose latest change has been carried out carries the right   *)
(* mark or is still ahead of the author's scan; the decision of the latest *)
(* author task stands, in the author's row and in Redis.                   *)
THEOREM MarksInvariant == Spec => []MarksInv
<1>1. MarksInv /\ [Next]_vars => MarksInv'
  <2>1. TimelineInv /\ [Next]_vars => TimelineInv'
    BY BaseKept, TweetsKept, ResumeKept, CoverKept DEF TimelineInv
  <2> QED BY <2>1, MarkKept, ScanKept, TouchKept, DecideKept, DecidedKept, ToldKept, CompleteKept DEF MarksInv
<1> QED BY MarksInit, <1>1, PTL DEF Spec

(* When every task has succeeded, the author's status fits the number of   *)
(* followers, Redis agrees, and exactly the followers of a celebrity are   *)
(* marked: for any number of followers, changes, workers and faults.       *)
THEOREM MarksAreExact == Spec => []MarksExact
<1>1. MarksInv => MarksExact
  <2> SUFFICES ASSUME MarksInv, Settled, log # <<>>
               PROVE  /\ author.complete
                      /\ author.celebrity = DecideCelebrity(author.celebrity, FollowerCount)
                      /\ redis.celebrity = author.celebrity
                      /\ \A f \in Followers : (f \in redis.marked) = (author.celebrity /\ Following(f))
    BY DEF MarksExact
  <2>b. Base
    BY DEF MarksInv, TimelineInv
  <2>1. log \in Seq(Followers) /\ Len(log) \in Nat /\ Len(log) > 0 /\ DOMAIN log = 1 .. Len(log)
    BY <2>b, EmptySeq DEF Base, TypeInv
  <2>s. ASSUME NEW e \in 1 .. Len(log), NEW k \in {"author", "pair"} PROVE Succeeded(<<e, k>>)
    <3>1. \A d \in DOMAIN log, m \in {"author", "pair"} : Succeeded(<<d, m>>)
      BY DEF Settled
    <3>2. e \in DOMAIN log
      BY <2>1
    <3> QED BY <3>1, <3>2
  <2>2. Succeeded(LastAuthor)
    <3>1. Len(log) \in 1 .. Len(log)
      BY <2>1
    <3> QED BY <3>1, <2>s DEF LastAuthor
  <2>3. author.complete /\ RedisOk /\ Fixed(author.celebrity)
    BY <2>1, <2>2 DEF MarksInv, CompleteInv, ToldInv, Told, DecidedInv, Decided
  <2>4. ASSUME NEW f \in Followers PROVE (f \in redis.marked) = (author.celebrity /\ Following(f))
    <3>1. LastEvent(f) \in 0 .. Len(log) /\ \A e \in 1 .. Len(log) : log[e] = f => e <= LastEvent(f)
      BY <2>b, LastEventFacts DEF Base
    <3>2. CASE LastEvent(f) > 0
      <4>1. Succeeded(Pair(f))
        <5>1. LastEvent(f) \in 1 .. Len(log)
          BY <2>1, <3>1, <3>2
        <5> QED BY <5>1, <2>s DEF Pair
      <4>2. ToScan = {}
        BY <2>3 DEF ToScan
      <4>3. Fit(f)
        BY <3>2, <4>1, <4>2 DEF MarksInv, MarkInv, Paired
      <4> QED BY <4>3 DEF Fit, RightMark, OnRight
    <3>3. CASE ~(LastEvent(f) > 0)
      <4>1. ASSUME NEW e \in DOMAIN log PROVE log[e] # f
        BY <2>1, <3>1, <3>3, <4>1
      <4>2. RowsOf(f) = {}
        BY <2>b, <4>1 DEF Base, RelInv, RowsOf
      <4>3. f \notin redis.marked /\ ~Following(f)
        BY <4>2 DEF MarksInv, TouchInv, Following
      <4> QED BY <4>3
    <3> QED BY <3>2, <3>3
  <2> QED BY <2>3, <2>4 DEF RedisOk, Fixed
<1> QED BY <1>1, MarksInvariant, PTL
=============================================================================
