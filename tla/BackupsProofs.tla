---------------------------- MODULE BackupsProofs ----------------------------
(***************************************************************************)
(* Proofs about the backup downloads of a play, for any candidates and any *)
(* lists of them, any number of jobs and any delay.                        *)
(***************************************************************************)
EXTENDS MCBackups, SequenceTheorems, WellFoundedInduction, TLAPS

(***************************************************************************)
(* The nzbdav worker.                                                      *)
(***************************************************************************)
BackupTypes ==
  /\ wpc \in {"await", "prewarm", "load", "look", "next", "asking", "record", "hook", "push",
              "done"}
  /\ todo \in Seq(Candidates)
  /\ wpc \in {"asking", "record"} => todo # <<>>
  /\ existing \subseteq Candidates
  /\ ticks \in Nat /\ seenLive \in BOOLEAN
  /\ heard \in {"nothing", "live", "over"} /\ quit \in BOOLEAN
  /\ DOMAIN recorded \subseteq Candidates
  /\ recorded \in [DOMAIN recorded -> BOOLEAN]
  /\ rpc \in {"poll", "prompt", "flush", "pushing", "answer", "over", "join", "refused"}
  /\ stop \in BOOLEAN /\ started \in BOOLEAN /\ hook \in BOOLEAN
  /\ dead \subseteq Candidates
  /\ playing \in {"before", "yes", "ended"} /\ flag \in BOOLEAN
  /\ earlier \in {"none", "on", "stopped"}
  /\ nzbdav \in [Candidates -> {"none", "queued", "done", "gone"}]
  /\ asked \subseteq Candidates
  /\ taking \in [Pushers -> SUBSET (Candidates \cup NoPush)]
  /\ wpc = "push" => taking["worker"] \subseteq Candidates
  /\ rpc = "pushing" => taking["resolver"] \subseteq Candidates
  /\ session \subseteq Candidates
  /\ excused \subseteq Candidates
  /\ missed \in BOOLEAN

\* A download the worker asked for, that runs and that no lost answer excuses, is
\* one it is about to record, or one it recorded as pending and that no cancel has
\* gone over yet.
AnsweredFor ==
  /\ rpc \in {"join", "refused"} => stop
  /\ \A c \in asked : Live(c) =>
       \/ c \in excused
       \/ wpc = "record" /\ c = Head(todo)
       \/ c \in DOMAIN recorded /\ recorded[c] /\ rpc # "refused"

\* Until the hook is set the play is not handed over.  After that a source recorded
\* is in the session or on its way there, unless a push was lost.
OnItsWay ==
  /\ ~hook /\ ~missed => rpc \in {"poll", "prompt", "join", "refused"}
  /\ ~missed => \A c \in Sources :
       \/ c \in session
       \/ rpc \in {"poll", "prompt", "flush", "join", "refused"}
       \/ wpc = "hook"
       \/ wpc = "push" /\ c \in taking["worker"]
       \/ rpc = "pushing" /\ c \in taking["resolver"]

\* Nothing is asked for before the delay is over.  Without an earlier play the flag was
\* raised, and is up, for this one until it is over: a flag that the worker read up and
\* then down tells it the truth.
NothingYet ==
  /\ wpc \in {"await", "prewarm", "load", "look"} => asked = {} /\ recorded = NoJobs
  /\ earlier = "none" =>
       /\ flag \/ seenLive => playing # "before"
       /\ playing = "yes" => flag
  /\ heard = "live" => seenLive
  /\ heard = "over" => quit
  /\ quit => /\ wpc = "done" /\ asked = {} /\ recorded = NoJobs
             /\ playing = "ended" \/ earlier # "none"

BackupInv == BackupTypes /\ AnsweredFor /\ OnItsWay /\ NothingYet
LEMMA FunctionIsSeq ==
  ASSUME NEW S, NEW n \in Nat, NEW f \in [1 .. n -> S]
  PROVE  f \in Seq(S)
  <1>1. Seq(S) = UNION {[1 .. k -> S] : k \in Nat}
    OBVIOUS
  <1> QED BY <1>1

LEMMA JobEndsKeeps ==
  ASSUME BackupInv, NEW d \in Candidates, JobEnds(d)
  PROVE  BackupInv'
  <1> USE DEF BackupInv, JobEnds, OutsideUnchanged, shared, worker
  <1>1. BackupTypes'
    BY DEF BackupTypes, Pushers, NoPush, Sources, Live, InHistory, NoJobs
  <1>2. AnsweredFor'
    BY DEF BackupTypes, AnsweredFor, Live
  <1>3. OnItsWay'
    BY DEF BackupTypes, OnItsWay, Sources, Pushers, NoPush
  <1>4. NothingYet'
    BY DEF BackupTypes, NothingYet
  <1> QED BY <1>1, <1>2, <1>3, <1>4

LEMMA PlaybackRunsKeeps ==
  ASSUME BackupInv, PlaybackRuns
  PROVE  BackupInv'
  <1> USE DEF BackupInv, PlaybackRuns, OutsideUnchanged, shared, worker
  <1>1. BackupTypes'
    <2>1. flag' \in BOOLEAN
      BY DEF BackupTypes
    <2>2. /\ playing' \in {"before", "yes", "ended"}
          /\ earlier' \in {"none", "on", "stopped"}
      BY DEF BackupTypes
    <2>3. UNCHANGED <<worker, rpc, shared, nzbdav, asked, taking, session, excused, missed>>
      OBVIOUS
    <2> HIDE DEF PlaybackRuns
    <2> QED BY <2>1, <2>2, <2>3 DEF BackupTypes, Pushers, NoPush
  <1>2. AnsweredFor'
    BY DEF BackupTypes, AnsweredFor, Live
  <1>3. OnItsWay'
    BY DEF BackupTypes, OnItsWay, Sources, Pushers, NoPush
  <1>4. NothingYet'
    BY DEF BackupTypes, NothingYet
  <1> QED BY <1>1, <1>2, <1>3, <1>4

LEMMA EarlierStopsKeeps ==
  ASSUME BackupInv, EarlierStops
  PROVE  BackupInv'
  <1> USE DEF BackupInv, EarlierStops, OutsideUnchanged, shared, worker
  <1>1. BackupTypes'
    <2>1. flag' \in BOOLEAN
      BY DEF BackupTypes
    <2>2. /\ playing' \in {"before", "yes", "ended"}
          /\ earlier' \in {"none", "on", "stopped"}
      BY DEF BackupTypes
    <2>3. UNCHANGED <<worker, rpc, shared, nzbdav, asked, taking, session, excused, missed>>
      OBVIOUS
    <2> HIDE DEF EarlierStops
    <2> QED BY <2>1, <2>2, <2>3 DEF BackupTypes, Pushers, NoPush
  <1>2. AnsweredFor'
    BY DEF BackupTypes, AnsweredFor, Live
  <1>3. OnItsWay'
    BY DEF BackupTypes, OnItsWay, Sources, Pushers, NoPush
  <1>4. NothingYet'
    BY DEF BackupTypes, NothingYet
  <1> QED BY <1>1, <1>2, <1>3, <1>4

LEMMA AwaitPlaybackKeeps ==
  ASSUME BackupInv, AwaitPlayback
  PROVE  BackupInv'
  <1> USE DEF BackupInv, AwaitPlayback, OnlyMoves, WorkerUnchanged, WaitUnchanged
  <1>1. BackupTypes'
    BY DEF BackupTypes, Pushers, NoPush, Sources, Live, InHistory, NoJobs
  <1>2. AnsweredFor'
    BY DEF BackupTypes, AnsweredFor, Live
  <1>3. OnItsWay'
    BY DEF BackupTypes, OnItsWay, Sources, Pushers, NoPush
  <1>4. NothingYet'
    BY DEF BackupTypes, NothingYet
  <1> QED BY <1>1, <1>2, <1>3, <1>4

LEMMA PrewarmKeeps ==
  ASSUME BackupInv, Prewarm
  PROVE  BackupInv'
  <1> USE DEF BackupInv, Prewarm, OnlyMoves, WorkerUnchanged, WaitUnchanged, SeenOver
  <1>1. BackupTypes'
    <2>1. Heard \in {"nothing", "live", "over"}
      BY DEF BackupTypes, Heard
    <2>2. (seenLive \/ flag) \in BOOLEAN
      OBVIOUS
    <2>3. ticks' \in Nat
      BY DEF BackupTypes
    <2>4. heard' \in {"nothing", "live", "over"} /\ quit' \in BOOLEAN
      BY <2>1 DEF BackupTypes
    <2>5. seenLive' \in BOOLEAN
      BY <2>2 DEF BackupTypes
    <2> HIDE DEF SeenOver
    <2> QED BY <2>3, <2>4, <2>5 DEF BackupTypes, Pushers, NoPush
  <1>2. AnsweredFor'
    BY DEF BackupTypes, AnsweredFor, Live
  <1>3. OnItsWay'
    BY DEF BackupTypes, OnItsWay, Sources, Pushers, NoPush
  <1>4. NothingYet'
    BY DEF BackupTypes, NothingYet, Heard
  <1> QED BY <1>1, <1>2, <1>3, <1>4

LEMMA LoadCandidatesKeeps ==
  ASSUME BackupInv, LoadCandidates
  PROVE  BackupInv'
  <1> USE DEF BackupInv, LoadCandidates, Moves, WaitUnchanged, WorkerUnchanged
  <1>1. BackupTypes'
    <2>1. todo' \in Seq(Candidates)
      <3>1. CASE \E offer \in Offers : todo' \in Kept(offer)
        <4>1. PICK offer \in Offers : todo' \in Kept(offer)
          BY <3>1
        <4>2. PICK n \in 0 .. Len(offer) : todo' \in [1 .. n -> Candidates]
          BY <4>1 DEF Kept, SeqOf
        <4>3. n \in Nat
          <5>1. Len(offer) \in Nat
            BY <4>1, OffersAssumption, LenProperties
          <5> QED BY <4>2, <5>1
        <4> QED BY <4>2, <4>3, FunctionIsSeq
      <3> QED BY <3>1 DEF BackupTypes
    <2> QED BY <2>1 DEF BackupTypes
  <1>2. AnsweredFor'
    BY DEF BackupTypes, AnsweredFor, Live
  <1>3. OnItsWay'
    BY DEF BackupTypes, OnItsWay, Sources, Pushers, NoPush
  <1>4. NothingYet'
    BY DEF BackupTypes, NothingYet
  <1> QED BY <1>1, <1>2, <1>3, <1>4

LEMMA FindExistingKeeps ==
  ASSUME BackupInv, FindExisting
  PROVE  BackupInv'
  <1> USE DEF BackupInv, FindExisting, Moves, WaitUnchanged, WorkerUnchanged
  <1>1. BackupTypes'
    BY DEF BackupTypes, Pushers, NoPush, Sources, Live, InHistory, NoJobs
  <1>2. AnsweredFor'
    BY DEF BackupTypes, AnsweredFor, Live
  <1>3. OnItsWay'
    BY DEF BackupTypes, OnItsWay, Sources, Pushers, NoPush
  <1>4. NothingYet'
    BY DEF BackupTypes, NothingYet
  <1> QED BY <1>1, <1>2, <1>3, <1>4

LEMMA NextCandidateKeeps ==
  ASSUME BackupInv, NextCandidate
  PROVE  BackupInv'
  <1> USE DEF BackupInv, NextCandidate, Moves, WaitUnchanged, WorkerUnchanged
  <1>1. BackupTypes'
    BY DEF BackupTypes, Pushers, NoPush, Sources, Live, InHistory, NoJobs
  <1>2. AnsweredFor'
    BY DEF BackupTypes, AnsweredFor, Live
  <1>3. OnItsWay'
    BY DEF BackupTypes, OnItsWay, Sources, Pushers, NoPush
  <1>4. NothingYet'
    BY DEF BackupTypes, NothingYet
  <1> QED BY <1>1, <1>2, <1>3, <1>4

LEMMA SubmittedKeeps ==
  ASSUME BackupInv, Submitted
  PROVE  BackupInv'
  <1> USE DEF BackupInv, Submitted, Moves, WaitUnchanged, WorkerUnchanged
  <1>1. BackupTypes'
    <2>1. Head(todo) \in Candidates /\ Tail(todo) \in Seq(Candidates)
      BY HeadTailProperties DEF BackupTypes
    <2>2. nzbdav' \in [Candidates -> {"none", "queued", "done", "gone"}]
      BY <2>1 DEF BackupTypes
    <2>3. dead' \subseteq Candidates /\ asked' \subseteq Candidates /\ excused' \subseteq Candidates
      BY <2>1 DEF BackupTypes
    <2>4. /\ wpc' \in {"record", "next"} /\ todo' \in Seq(Candidates)
          /\ wpc' = "record" => todo' # <<>>
      BY <2>1 DEF BackupTypes
    <2> QED BY <2>1, <2>2, <2>3, <2>4 DEF BackupTypes
  <1>2. AnsweredFor'
    BY DEF BackupTypes, AnsweredFor, Live
  <1>3. OnItsWay'
    BY DEF BackupTypes, OnItsWay, Sources, Pushers, NoPush
  <1>4. NothingYet'
    BY DEF BackupTypes, NothingYet
  <1> QED BY <1>1, <1>2, <1>3, <1>4

LEMMA RecordKeeps ==
  ASSUME BackupInv, Record
  PROVE  BackupInv'
  <1> USE DEF BackupInv, Record, TooLate, CancelJobs, WithRecorded, Moves, WaitUnchanged,
              WorkerUnchanged
  <1>1. BackupTypes'
    <2>1. Head(todo) \in Candidates /\ Tail(todo) \in Seq(Candidates)
      BY HeadTailProperties DEF BackupTypes
    <2>2. nzbdav' \in [Candidates -> {"none", "queued", "done", "gone"}]
      BY <2>1 DEF BackupTypes
    <2>3. excused' \subseteq Candidates
      BY <2>1 DEF BackupTypes
    <2>4. /\ DOMAIN recorded' \subseteq Candidates
          /\ recorded' \in [DOMAIN recorded' -> BOOLEAN]
      <3>1. CASE stop
        BY <3>1 DEF BackupTypes
      <3>2. CASE ~stop
        <4>1. recorded' = WithRecorded(Head(todo))
          BY <3>2
        <4>2. (Head(todo) \notin existing \/ Live(Head(todo))) \in BOOLEAN
          OBVIOUS
        <4> QED BY <2>1, <4>1, <4>2 DEF BackupTypes
      <3> QED BY <3>1, <3>2
    <2> QED BY <2>1, <2>2, <2>3, <2>4 DEF BackupTypes
  <1>2. AnsweredFor'
    <2>1. Head(todo) \in Candidates
      BY HeadTailProperties DEF BackupTypes
    <2>2. CASE stop
      BY <2>1, <2>2 DEF BackupTypes, AnsweredFor, Live
    <2>3. CASE ~stop
      <3>1. recorded' = WithRecorded(Head(todo)) /\ UNCHANGED <<nzbdav, excused, asked, rpc,
      stop>>
        BY <2>3
      <3>2. rpc # "refused" /\ rpc # "join"
        BY <2>3 DEF AnsweredFor
      <3> QED BY <2>1, <3>1, <3>2 DEF BackupTypes, AnsweredFor, Live
    <2> QED BY <2>2, <2>3
  <1>3. OnItsWay'
    BY DEF BackupTypes, OnItsWay, Sources, Pushers, NoPush
  <1>4. NothingYet'
    BY DEF BackupTypes, NothingYet
  <1> QED BY <1>1, <1>2, <1>3, <1>4

LEMMA RunHookKeeps ==
  ASSUME BackupInv, RunHook
  PROVE  BackupInv'
  <1> USE DEF BackupInv, RunHook, Moves, WaitUnchanged, WorkerUnchanged
  <1>1. BackupTypes'
    BY DEF BackupTypes, Pushers, NoPush, Sources, Live, InHistory, NoJobs
  <1>2. AnsweredFor'
    BY DEF BackupTypes, AnsweredFor, Live
  <1>3. OnItsWay'
    BY DEF BackupTypes, OnItsWay, Sources, Pushers, NoPush
  <1>4. NothingYet'
    BY DEF BackupTypes, NothingYet
  <1> QED BY <1>1, <1>2, <1>3, <1>4

LEMMA WorkerPushesKeeps ==
  ASSUME BackupInv, WorkerPushes
  PROVE  BackupInv'
  <1> USE DEF BackupInv, WorkerPushes, Push, Moves, WaitUnchanged, WorkerUnchanged
  <1>1. BackupTypes'
    <2>1. missed' \in BOOLEAN
      <3>1. (missed \/ taking["worker"] # {}) \in BOOLEAN
        OBVIOUS
      <3> QED BY <3>1 DEF BackupTypes
    <2>2. taking' \in [Pushers -> SUBSET (Candidates \cup NoPush)]
      BY DEF BackupTypes, NoPush, Pushers
    <2>3. session' \subseteq Candidates
      BY DEF BackupTypes
    <2> QED BY <2>1, <2>2, <2>3 DEF BackupTypes, Pushers
  <1>2. AnsweredFor'
    BY DEF BackupTypes, AnsweredFor, Live
  <1>3. OnItsWay'
    BY DEF BackupTypes, OnItsWay, Sources, Pushers, NoPush
  <1>4. NothingYet'
    BY DEF BackupTypes, NothingYet
  <1> QED BY <1>1, <1>2, <1>3, <1>4

LEMMA WorkerRaisesKeeps ==
  ASSUME BackupInv, WorkerRaises
  PROVE  BackupInv'
  <1> USE DEF BackupInv, WorkerRaises, CancelRecorded, CancelJobs, Pending, Moves,
              WaitUnchanged, WorkerUnchanged
  <1>1. BackupTypes'
    BY DEF BackupTypes, Pushers, NoPush, Sources, Live, InHistory, NoJobs
  <1>2. AnsweredFor'
    BY DEF BackupTypes, AnsweredFor, Live
  <1>3. OnItsWay'
    BY DEF BackupTypes, OnItsWay, Sources, Pushers, NoPush
  <1>4. NothingYet'
    BY DEF BackupTypes, NothingYet
  <1> QED BY <1>1, <1>2, <1>3, <1>4

LEMMA PrepareKeeps ==
  ASSUME BackupInv, Prepare
  PROVE  BackupInv'
  <1> USE DEF BackupInv, Prepare, ResolverUnchanged, worker
  <1>1. BackupTypes'
    BY DEF BackupTypes, Pushers, NoPush, Sources, Live, InHistory, NoJobs
  <1>2. AnsweredFor'
    BY DEF BackupTypes, AnsweredFor, Live
  <1>3. OnItsWay'
    BY DEF BackupTypes, OnItsWay, Sources, Pushers, NoPush
  <1>4. NothingYet'
    BY DEF BackupTypes, NothingYet
  <1> QED BY <1>1, <1>2, <1>3, <1>4

LEMMA ArmHookKeeps ==
  ASSUME BackupInv, ArmHook
  PROVE  BackupInv'
  <1> USE DEF BackupInv, ArmHook, ResolverUnchanged, worker
  <1>1. BackupTypes'
    <2>1. hook' \in BOOLEAN /\ missed' \in BOOLEAN
      BY DEF BackupTypes
    <2>2. rpc' \in {"flush", "answer"}
      OBVIOUS
    <2> QED BY <2>1, <2>2 DEF BackupTypes
  <1>2. AnsweredFor'
    BY DEF BackupTypes, AnsweredFor, Live
  <1>3. OnItsWay'
    BY DEF BackupTypes, OnItsWay, Sources, Pushers, NoPush
  <1>4. NothingYet'
    BY DEF BackupTypes, NothingYet
  <1> QED BY <1>1, <1>2, <1>3, <1>4

LEMMA FlushKeeps ==
  ASSUME BackupInv, Flush
  PROVE  BackupInv'
  <1> USE DEF BackupInv, Flush, ToFlush, ResolverUnchanged, worker
  <1>1. BackupTypes'
    BY DEF BackupTypes, Pushers, NoPush, Sources, Live, InHistory, NoJobs
  <1>2. AnsweredFor'
    BY DEF BackupTypes, AnsweredFor, Live
  <1>3. OnItsWay'
    BY DEF BackupTypes, OnItsWay, Sources, Pushers, NoPush
  <1>4. NothingYet'
    BY DEF BackupTypes, NothingYet
  <1> QED BY <1>1, <1>2, <1>3, <1>4

LEMMA ResolverPushesKeeps ==
  ASSUME BackupInv, ResolverPushes
  PROVE  BackupInv'
  <1> USE DEF BackupInv, ResolverPushes, Push, ResolverUnchanged, worker
  <1>1. BackupTypes'
    <2>1. missed' \in BOOLEAN
      <3>1. (missed \/ taking["resolver"] # {}) \in BOOLEAN
        OBVIOUS
      <3> QED BY <3>1 DEF BackupTypes
    <2>2. taking' \in [Pushers -> SUBSET (Candidates \cup NoPush)]
      BY DEF BackupTypes, NoPush, Pushers
    <2>3. session' \subseteq Candidates
      BY DEF BackupTypes
    <2> QED BY <2>1, <2>2, <2>3 DEF BackupTypes, Pushers
  <1>2. AnsweredFor'
    BY DEF BackupTypes, AnsweredFor, Live
  <1>3. OnItsWay'
    BY DEF BackupTypes, OnItsWay, Sources, Pushers, NoPush
  <1>4. NothingYet'
    BY DEF BackupTypes, NothingYet
  <1> QED BY <1>1, <1>2, <1>3, <1>4

LEMMA HandOverKeeps ==
  ASSUME BackupInv, HandOver
  PROVE  BackupInv'
  <1> USE DEF BackupInv, HandOver, ResolverUnchanged, worker
  <1>1. BackupTypes'
    BY DEF BackupTypes, Pushers, NoPush, Sources, Live, InHistory, NoJobs
  <1>2. AnsweredFor'
    BY DEF BackupTypes, AnsweredFor, Live
  <1>3. OnItsWay'
    BY DEF BackupTypes, OnItsWay, Sources, Pushers, NoPush
  <1>4. NothingYet'
    BY DEF BackupTypes, NothingYet
  <1> QED BY <1>1, <1>2, <1>3, <1>4

LEMMA RefusePlayKeeps ==
  ASSUME BackupInv, RefusePlay
  PROVE  BackupInv'
  <1> USE DEF BackupInv, RefusePlay, ResolverUnchanged, worker
  <1>1. BackupTypes'
    BY DEF BackupTypes, Pushers, NoPush, Sources, Live, InHistory, NoJobs
  <1>2. AnsweredFor'
    BY DEF BackupTypes, AnsweredFor, Live
  <1>3. OnItsWay'
    BY DEF BackupTypes, OnItsWay, Sources, Pushers, NoPush
  <1>4. NothingYet'
    BY DEF BackupTypes, NothingYet
  <1> QED BY <1>1, <1>2, <1>3, <1>4

LEMMA CancelSubmittedKeeps ==
  ASSUME BackupInv, CancelSubmitted
  PROVE  BackupInv'
  <1> USE DEF BackupInv, CancelSubmitted, CancelRecorded, CancelJobs, Pending,
              ResolverUnchanged, worker
  <1>1. BackupTypes'
    BY DEF BackupTypes, Pushers, NoPush, Sources, Live, InHistory, NoJobs
  <1>2. AnsweredFor'
    BY DEF BackupTypes, AnsweredFor, Live
  <1>3. OnItsWay'
    BY DEF BackupTypes, OnItsWay, Sources, Pushers, NoPush
  <1>4. NothingYet'
    BY DEF BackupTypes, NothingYet
  <1> QED BY <1>1, <1>2, <1>3, <1>4

LEMMA BackupInvInit == BackupInit => BackupInv
  <1> SUFFICES ASSUME BackupInit PROVE BackupInv
    OBVIOUS
  <1> USE DEF BackupInit
  <1>1. BackupTypes
    <2>1. DOMAIN recorded = {} /\ recorded \in [DOMAIN recorded -> BOOLEAN]
      BY DEF NoJobs
    <2>2. todo \in Seq(Candidates)
      OBVIOUS
    <2>3. taking \in [Pushers -> SUBSET (Candidates \cup NoPush)]
      BY DEF NoPush
    <2>4. nzbdav \in [Candidates -> {"none", "queued", "done", "gone"}]
      OBVIOUS
    <2> QED BY <2>1, <2>2, <2>3, <2>4 DEF BackupTypes
  <1>2. AnsweredFor /\ OnItsWay /\ NothingYet
    BY DEF AnsweredFor, OnItsWay, NothingYet, Sources, NoJobs
  <1> QED BY <1>1, <1>2 DEF BackupInv

LEMMA BackupInvStep == BackupInv /\ [BackupNext]_backupVars => BackupInv'
  <1> SUFFICES ASSUME BackupInv, [BackupNext]_backupVars PROVE BackupInv'
    OBVIOUS
  <1>1. CASE Worker
    BY <1>1, AwaitPlaybackKeeps, PrewarmKeeps, LoadCandidatesKeeps, FindExistingKeeps,
       NextCandidateKeeps, SubmittedKeeps, RecordKeeps, RunHookKeeps,
       WorkerPushesKeeps DEF Worker
  <1>2. CASE WorkerRaises
    BY <1>2, WorkerRaisesKeeps
  <1>3. CASE Resolver
    BY <1>3, PrepareKeeps, ArmHookKeeps, FlushKeeps, ResolverPushesKeeps, HandOverKeeps,
       CancelSubmittedKeeps DEF Resolver
  <1>4. CASE RefusePlay
    BY <1>4, RefusePlayKeeps
  <1>5. CASE PlaybackRuns
    BY <1>5, PlaybackRunsKeeps
  <1>8. CASE EarlierStops
    BY <1>8, EarlierStopsKeeps
  <1>6. CASE \E c \in Candidates : JobEnds(c)
    BY <1>6, JobEndsKeeps
  <1>7. CASE UNCHANGED backupVars
    BY <1>7 DEF BackupInv, BackupTypes, AnsweredFor, OnItsWay, NothingYet, backupVars, worker,
                shared, world, Sources, Live
  <1> QED BY <1>1, <1>2, <1>3, <1>4, <1>5, <1>6, <1>7, <1>8 DEF BackupNext

\* What the invariant says of a worker that is through.
LEMMA BackupPromises == BackupInv => NoBackupLeft /\ SessionHasBackups /\ DelayHeedsPlayback
  BY DEF BackupInv, BackupTypes, AnsweredFor, OnItsWay, NothingYet, NoBackupLeft,
         SessionHasBackups, DelayHeedsPlayback

(***************************************************************************)
(* The NZBGet play.                                                        *)
(***************************************************************************)
OurKinds == {"pick", "backup", "rescue"}
JobStates == {"none", "active", "paused", "parked", "success", "failed", "copy", "deleted"}
Table == [Ids -> [st : JobStates, own : {"none", "other"} \cup OurKinds]]

DupeWorkers ==
  [pc : {"off", "check", "next", "append", "record", "drain", "history", "queue", "done"},
   same : Nat, extras : Nat, live : Nat, id : Ids \cup {0}]

NzbgetTypes ==
  /\ keyed \in BOOLEAN
  /\ job \in Table
  /\ pc \in {"reuse", "append", "stale", "tick", "follow", "scan", "decide", "share", "cancel",
             "history", "queue", "done", "refused", "failed", "left", "canceled"}
  /\ current \in Ids \cup {0} /\ exclude \in Ids \cup {0} /\ pick \in Ids \cup {0}
  /\ stale \subseteq Ids /\ submitted \subseteq Ids
  /\ seen \in [foreign : BOOLEAN, paused : SUBSET Ids]
  /\ vetoed \in BOOLEAN /\ rescued \in BOOLEAN /\ cancel \in BOOLEAN
  /\ doomed \subseteq Ids \cup {0}
  /\ dupeWorker \in DupeWorkers
  /\ played \in Ids \cup {0}
  /\ blind \in BOOLEAN /\ slipped \in BOOLEAN

\* The ids the play keeps are of jobs it appended; the other client's job is never
\* parked and never deleted.
OwnIds ==
  /\ \A i \in Ids : job[i].st = "none" <=> job[i].own = "none"
  /\ \A i \in Is("other") : job[i].st \in {"active", "success", "failed"}
  /\ \A i \in {pick, current, dupeWorker.id} \cup submitted \cup seen.paused \cup doomed :
       i # 0 => i \in Ours
  /\ 0 \notin submitted
  /\ dupeWorker.pc = "record" => dupeWorker.id # 0

\* Before its append the play has made nothing, and before it polls it plays nothing;
\* what was another's and done before the poll is not played.
BeforeThePoll ==
  /\ pc \in {"reuse", "append"} => Ours = {} /\ dupeWorker.pc = "off"
  /\ pc \in {"reuse", "append", "stale"} => played = 0
  /\ played # 0 =>
       played \notin stale \cap Is("other") /\ job[played].st \in {"success", "deleted"}

\* Every job the play made, as far as NZBGet answered, is one it knows of.
KnowsItsJobs ==
  ~blind => Ours \subseteq Owned \cup (IF dupeWorker.pc = "record" THEN {dupeWorker.id} ELSE {})

\* Without a key there is one job at a time.
OneWithoutKey ==
  ~keyed =>
    /\ dupeWorker.pc = "off" /\ pc \notin {"stale", "follow", "scan"}
    /\ current = 0 => pc \in {"reuse", "append", "done", "refused"}
    /\ ~blind => \A i \in Ours : i # current => i \notin Alive
    /\ pc \in {"decide", "failed"} => current \notin Alive

\* What the looks at history and queue found, until something slips in between.
LooksHold ==
  /\ exclude # 0 => job[exclude].st \in {"failed", "copy", "deleted"}
  /\ keyed /\ ~blind /\ ~slipped /\ pc \in {"scan", "decide"} => In({"success"}) \subseteq stale
  /\ (/\ keyed /\ ~blind /\ ~slipped /\ pc = "decide" /\ dupeWorker.pc # "record"
      /\ ~seen.foreign /\ seen.paused = {}) => Queued = {}
  /\ (keyed /\ ~blind /\ ~slipped /\ pc = "failed") =>
       WorkerOver /\ Queued = {} /\ In({"success"}) \subseteq stale

\* A backup that no side is going to delete is on the worker's list of this minute.
CleansUp ==
  /\ dupeWorker.pc = "check" => submitted = {}
  /\ pc \in {"cancel", "history", "queue", "canceled"} => pick \in doomed
  /\ pc \in {"history", "queue", "canceled"} => cancel
  /\ pc = "cancel" /\ ~slipped => submitted \subseteq doomed
  /\ pc \in {"history", "queue", "canceled"} /\ ~slipped /\ ~blind =>
       \A i \in submitted \ doomed :
         \/ dupeWorker.pc \in {"next", "append", "record", "drain", "history"}
         \/ dupeWorker.pc = "queue" /\ job[i].st # "parked"
         \/ i \notin Alive
  /\ pc = "queue" /\ ~blind => doomed \cap In({"parked"}) = {}
  /\ pc = "canceled" /\ ~blind => doomed \cap Alive = {}

NzbgetInv ==
  /\ NzbgetTypes /\ OwnIds /\ BeforeThePoll /\ KnowsItsJobs /\ OneWithoutKey
  /\ LooksHold /\ CleansUp

LEMMA LeastId ==
  ASSUME NEW S \in SUBSET Ids, S # {}
  PROVE  \E i \in S : \A k \in S : i <= k
  <1> DEFINE R == {ik \in Nat \X Nat : ik[1] < ik[2]}
  <1>1. IsWellFoundedOn(R, Nat)
    BY NatLessThanWellFounded DEF OpToRel
  <1>2. S \subseteq Nat
    BY BoundsAssumption DEF Ids
  <1>3. PICK i \in S : \A k \in S : ~(<<k, i>> \in R)
    <2> HIDE DEF R
    <2> QED BY <1>1, <1>2, WFMin
  <1>4. \A k \in S : i <= k
    <2> TAKE k \in S
    <2>1. i \in Nat /\ k \in Nat
      BY <1>2
    <2>2. ~(k < i)
      BY <1>3, <2>1
    <2> QED BY <2>1, <2>2
  <1> QED BY <1>4

\* NZBGet fails over to a parked job, and changes nothing else.
LEMMA PromotedOne ==
  ASSUME NEW j \in Table, NEW s \in {"active", "paused"}
  PROVE  /\ Promoted(j, s) \in Table
         /\ \A i \in Ids : /\ Promoted(j, s)[i].own = j[i].own
                           /\ \/ Promoted(j, s)[i].st = j[i].st
                              \/ j[i].st = "parked" /\ Promoted(j, s)[i].st = s
  <1> DEFINE waiting == {i \in Ids : j[i].st = "parked"}
             best == CHOOSE i \in waiting : \A k \in waiting : i <= k
  <1>1. CASE waiting = {}
    BY <1>1 DEF Promoted
  <1>2. CASE waiting # {}
    <2>1. best \in waiting
      <3>1. \E i \in waiting : \A k \in waiting : i <= k
        BY <1>2, LeastId
      <3> QED BY <3>1
    <2> HIDE DEF best
    <2>2. Promoted(j, s) = [j EXCEPT ![best].st = s]
      BY <1>2 DEF Promoted, best
    <2>3. [j[best] EXCEPT !.st = s] \in [st : JobStates, own : {"none", "other"} \cup OurKinds]
      BY <2>1 DEF Table, JobStates
    <2>4. [j EXCEPT ![best].st = s] \in Table
      BY <2>1, <2>3 DEF Table
    <2> QED BY <2>1, <2>2, <2>4 DEF Table
  <1> QED BY <1>1, <1>2

\* A new job gets an unused id.
LEMMA AcceptedOne ==
  ASSUME NzbgetTypes, NEW own \in OurKinds, NEW force \in BOOLEAN, Accepted(own, force)
  PROVE  /\ job' \in Table
         /\ NextId \in Ids /\ job[NextId].st = "none"
         /\ job'[NextId].own = own /\ job'[NextId].st \in {"copy", "active", "parked"}
         /\ \A i \in Ids : i # NextId => job'[i] = job[i]
  <1>1. NextId \in Unused
    <2>1. \E i \in Unused : \A k \in Unused : i <= k
      BY LeastId DEF Accepted, Unused, In
    <2> QED BY <2>1 DEF NextId
  <1>2. PICK s \in Outcomes(force) : job' = [job EXCEPT ![NextId] = [st |-> s, own |-> own]]
    BY DEF Accepted
  <1>3. s \in {"copy", "active", "parked"}
    BY <1>2 DEF Outcomes
  <1>4. NextId \in Ids /\ job[NextId].st = "none"
    BY <1>1 DEF Unused, In
  <1> QED BY <1>2, <1>3, <1>4 DEF NzbgetTypes, Table, JobStates, OurKinds

LEMMA EndsOne ==
  ASSUME NzbgetTypes, NEW d \in Ids, Ends(d)
  PROVE  /\ job' \in Table
         /\ \A i \in Ids :
              /\ job'[i].own = job[i].own
              /\ \/ job'[i].st = job[i].st
                 \/ i = d /\ job[i].st = "active" /\ job'[i].st = "failed"
                 \/ /\ i = d /\ job[i].st = "active" /\ job'[i].st = "success"
                    /\ slipped' = (slipped \/ pc \in {"scan", "decide"})
                 \/ job[i].st = "parked" /\ job'[i].st \in {"active", "paused"}
         /\ slipped' \in BOOLEAN /\ (slipped => slipped')
  <1>0. (slipped \/ pc \in {"scan", "decide"}) \in BOOLEAN
    OBVIOUS
  <1>1. CASE /\ job' = [job EXCEPT ![d].st = "success"]
             /\ slipped' = (slipped \/ pc \in {"scan", "decide"})
    <2>1. [job[d] EXCEPT !.st = "success"]
             \in [st : JobStates, own : {"none", "other"} \cup OurKinds]
      BY DEF NzbgetTypes, Table, JobStates
    <2>2. job' \in Table
      BY <1>1, <2>1 DEF NzbgetTypes, Table
    <2>3. slipped' \in BOOLEAN /\ (slipped => slipped')
      BY <1>0, <1>1
    <2> QED BY <1>1, <2>2, <2>3 DEF Ends, NzbgetTypes, Table
  <1>2. CASE /\ \E s \in {"active", "paused"} :
                  job' = Promoted([job EXCEPT ![d].st = "failed"], s)
             /\ UNCHANGED slipped
    <2> DEFINE j == [job EXCEPT ![d].st = "failed"]
    <2>1. [job[d] EXCEPT !.st = "failed"]
             \in [st : JobStates, own : {"none", "other"} \cup OurKinds]
      BY DEF NzbgetTypes, Table, JobStates
    <2>2. j \in Table
      BY <2>1 DEF NzbgetTypes, Table
    <2>3. \A i \in Ids : /\ j[i].own = job[i].own
                         /\ IF i = d THEN j[i].st = "failed" ELSE j[i].st = job[i].st
      BY DEF NzbgetTypes, Table
    <2>4. PICK s \in {"active", "paused"} : job' = Promoted(j, s)
      BY <1>2
    <2> HIDE DEF j
    <2>5. /\ job' \in Table
          /\ \A i \in Ids : /\ job'[i].own = j[i].own
                            /\ \/ job'[i].st = j[i].st
                               \/ j[i].st = "parked" /\ job'[i].st = s
      BY <2>2, <2>4, PromotedOne
    <2> QED BY <1>2, <2>3, <2>5 DEF Ends, NzbgetTypes
  <1> QED BY <1>1, <1>2 DEF Ends

LEMMA DeletedOnes ==
  ASSUME NzbgetTypes, NEW ids, NEW states, job' = Deleted(ids, states)
  PROVE  /\ job' \in Table
         /\ \A i \in Ids :
              /\ job'[i].own = job[i].own
              /\ job'[i].st = IF i \in ids /\ job[i].st \in states THEN "deleted" ELSE job[i].st
  <1>1. \A i \in Ids : [job[i] EXCEPT !.st = "deleted"]
                          \in [st : JobStates, own : {"none", "other"} \cup OurKinds]
    BY DEF NzbgetTypes, Table, JobStates
  <1> QED BY <1>1 DEF NzbgetTypes, Table, Deleted

LEMMA ReuseHolds ==
  ASSUME NzbgetInv, Reuse
  PROVE  NzbgetInv'
  <1> USE DEF NzbgetInv, Reuse, nzbget, poll, resolver, history, KeepWorker, PollUnchanged,
              DupeWorkerUnchanged, NzbgetOnly, Goto, Unanswered
  <1>1. NzbgetTypes'
    BY DEF NzbgetTypes, Is, In, Ours, Owned, Alive, Queued, OurKinds, WorkerOver, NothingSeen
  <1>2. OwnIds'
    BY DEF OwnIds, NzbgetTypes, Is, In, Ours, Owned, Alive, Queued, OurKinds, WorkerOver,
       NothingSeen
  <1>3. BeforeThePoll'
    BY DEF BeforeThePoll, NzbgetTypes, Is, In, Ours, Owned, Alive, Queued, OurKinds,
       WorkerOver, NothingSeen
  <1>4. KnowsItsJobs'
    BY DEF KnowsItsJobs, NzbgetTypes, Is, In, Ours, Owned, Alive, Queued, OurKinds, WorkerOver,
       NothingSeen
  <1>5. OneWithoutKey'
    BY DEF OneWithoutKey, NzbgetTypes, Is, In, Ours, Owned, Alive, Queued, OurKinds,
       WorkerOver, NothingSeen
  <1>6. LooksHold'
    BY DEF LooksHold, NzbgetTypes, Is, In, Ours, Owned, Alive, Queued, OurKinds, WorkerOver,
       NothingSeen
  <1>7. CleansUp'
    BY DEF CleansUp, NzbgetTypes, Is, In, Ours, Owned, Alive, Queued, OurKinds, WorkerOver,
       NothingSeen
  <1> QED BY <1>1, <1>2, <1>3, <1>4, <1>5, <1>6, <1>7

LEMMA TakeStaleHolds ==
  ASSUME NzbgetInv, TakeStale
  PROVE  NzbgetInv'
  <1> USE DEF NzbgetInv, TakeStale, StaleSuccesses, nzbget, poll, resolver, history,
              KeepWorker, PollUnchanged, DupeWorkerUnchanged, NzbgetOnly, Goto, Unanswered
  <1>1. NzbgetTypes'
    <2>1. stale' \subseteq Ids /\ blind' \in BOOLEAN /\ pc' = "tick"
      BY DEF NzbgetTypes, In
    <2> QED BY <2>1 DEF NzbgetTypes
  <1>2. OwnIds'
    BY DEF OwnIds, NzbgetTypes, Is, In, Ours, Owned, Alive, Queued, OurKinds, WorkerOver,
       NothingSeen
  <1>3. BeforeThePoll'
    BY DEF BeforeThePoll, NzbgetTypes, Is, In, Ours, Owned, Alive, Queued, OurKinds,
       WorkerOver, NothingSeen
  <1>4. KnowsItsJobs'
    BY DEF KnowsItsJobs, NzbgetTypes, Is, In, Ours, Owned, Alive, Queued, OurKinds, WorkerOver,
       NothingSeen
  <1>5. OneWithoutKey'
    BY DEF OneWithoutKey, NzbgetTypes, Is, In, Ours, Owned, Alive, Queued, OurKinds,
       WorkerOver, NothingSeen
  <1>6. LooksHold'
    BY DEF LooksHold, NzbgetTypes, Is, In, Ours, Owned, Alive, Queued, OurKinds, WorkerOver,
       NothingSeen
  <1>7. CleansUp'
    BY DEF CleansUp, NzbgetTypes, Is, In, Ours, Owned, Alive, Queued, OurKinds, WorkerOver,
       NothingSeen
  <1> QED BY <1>1, <1>2, <1>3, <1>4, <1>5, <1>6, <1>7

LEMMA PollTrackedHolds ==
  ASSUME NzbgetInv, PollTracked
  PROVE  NzbgetInv'
  <1> USE DEF NzbgetInv, PollTracked, Follow, nzbget, poll, resolver, history, KeepWorker,
              PollUnchanged, DupeWorkerUnchanged, NzbgetOnly, Goto, Unanswered
  <1>1. NzbgetTypes'
    <2>1. (vetoed \/ (current = pick /\ job[current].st = "copy")) \in BOOLEAN
      OBVIOUS
    <2>2. vetoed' \in BOOLEAN
      BY <2>1 DEF NzbgetTypes
    <2>3. /\ exclude' \in Ids \cup {0} /\ current' \in Ids \cup {0}
          /\ played' \in Ids \cup {0}
      BY DEF NzbgetTypes
    <2>4. blind' \in BOOLEAN /\ pc' \in {"tick", "share", "follow", "decide"}
      BY DEF NzbgetTypes
    <2> QED BY <2>2, <2>3, <2>4 DEF NzbgetTypes
  <1>2. OwnIds'
    BY DEF OwnIds, NzbgetTypes, Is, In, Ours, Owned, Alive, Queued, OurKinds, WorkerOver,
       NothingSeen
  <1>3. BeforeThePoll'
    <2>1. current \in Ours /\ current \in Ids
      BY DEF OwnIds, NzbgetTypes
    <2>2. current \notin Is("other")
      BY <2>1 DEF Ours, Is
    <2>3. played' = played \/ (played' = current /\ job[current].st = "success")
      BY DEF NzbgetTypes
    <2> QED BY <2>2, <2>3 DEF BeforeThePoll, NzbgetTypes, Is, In, Ours
  <1>4. KnowsItsJobs'
    BY DEF KnowsItsJobs, NzbgetTypes, Is, In, Ours, Owned, Alive, Queued, OurKinds, WorkerOver,
       NothingSeen
  <1>5. OneWithoutKey'
    BY DEF OneWithoutKey, NzbgetTypes, Is, In, Ours, Owned, Alive, Queued, OurKinds,
       WorkerOver, NothingSeen
  <1>6. LooksHold'
    BY DEF LooksHold, NzbgetTypes, Is, In, Ours, Owned, Alive, Queued, OurKinds, WorkerOver,
       NothingSeen
  <1>7. CleansUp'
    BY DEF CleansUp, NzbgetTypes, Is, In, Ours, Owned, Alive, Queued, OurKinds, WorkerOver,
       NothingSeen
  <1> QED BY <1>1, <1>2, <1>3, <1>4, <1>5, <1>6, <1>7

LEMMA FollowSuccessHolds ==
  ASSUME NzbgetInv, FollowSuccess
  PROVE  NzbgetInv'
  <1> USE DEF NzbgetInv, FollowSuccess, nzbget, poll, resolver, history, KeepWorker,
              PollUnchanged, DupeWorkerUnchanged, NzbgetOnly, Goto, Unanswered
  <1>1. NzbgetTypes'
    <2>1. /\ played' \in Ids \cup {0} /\ blind' \in BOOLEAN /\ slipped' \in BOOLEAN
          /\ pc' \in {"share", "scan"}
      BY DEF NzbgetTypes, In
    <2> QED BY <2>1 DEF NzbgetTypes
  <1>2. OwnIds'
    BY DEF OwnIds, NzbgetTypes, Is, In, Ours, Owned, Alive, Queued, OurKinds, WorkerOver,
       NothingSeen
  <1>3. BeforeThePoll'
    BY DEF BeforeThePoll, NzbgetTypes, Is, In, Ours, Owned, Alive, Queued, OurKinds,
       WorkerOver, NothingSeen
  <1>4. KnowsItsJobs'
    BY DEF KnowsItsJobs, NzbgetTypes, Is, In, Ours, Owned, Alive, Queued, OurKinds, WorkerOver,
       NothingSeen
  <1>5. OneWithoutKey'
    BY DEF OneWithoutKey, NzbgetTypes, Is, In, Ours, Owned, Alive, Queued, OurKinds,
       WorkerOver, NothingSeen
  <1>6. LooksHold'
    BY DEF LooksHold, NzbgetTypes, Is, In, Ours, Owned, Alive, Queued, OurKinds, WorkerOver,
       NothingSeen
  <1>7. CleansUp'
    BY DEF CleansUp, NzbgetTypes, Is, In, Ours, Owned, Alive, Queued, OurKinds, WorkerOver,
       NothingSeen
  <1> QED BY <1>1, <1>2, <1>3, <1>4, <1>5, <1>6, <1>7

LEMMA AdoptHolds ==
  ASSUME NzbgetInv, Adopt
  PROVE  NzbgetInv'
  <1> USE DEF NzbgetInv, Adopt, nzbget, poll, resolver, history, KeepWorker, PollUnchanged,
              DupeWorkerUnchanged, NzbgetOnly, Goto, Unanswered
  <1>1. NzbgetTypes'
    BY DEF NzbgetTypes, Is, In, Ours, Owned, Alive, Queued, OurKinds, WorkerOver, NothingSeen
  <1>2. OwnIds'
    BY DEF OwnIds, NzbgetTypes, Is, In, Ours, Owned, Alive, Queued, OurKinds, WorkerOver,
       NothingSeen
  <1>3. BeforeThePoll'
    BY DEF BeforeThePoll, NzbgetTypes, Is, In, Ours, Owned, Alive, Queued, OurKinds,
       WorkerOver, NothingSeen
  <1>4. KnowsItsJobs'
    BY DEF KnowsItsJobs, NzbgetTypes, Is, In, Ours, Owned, Alive, Queued, OurKinds, WorkerOver,
       NothingSeen
  <1>5. OneWithoutKey'
    BY DEF OneWithoutKey, NzbgetTypes, Is, In, Ours, Owned, Alive, Queued, OurKinds,
       WorkerOver, NothingSeen
  <1>6. LooksHold'
    BY DEF LooksHold, NzbgetTypes, Is, In, Ours, Owned, Alive, Queued, OurKinds, WorkerOver,
       NothingSeen
  <1>7. CleansUp'
    BY DEF CleansUp, NzbgetTypes, Is, In, Ours, Owned, Alive, Queued, OurKinds, WorkerOver,
       NothingSeen
  <1> QED BY <1>1, <1>2, <1>3, <1>4, <1>5, <1>6, <1>7

LEMMA ScanHolds ==
  ASSUME NzbgetInv, Scan
  PROVE  NzbgetInv'
  <1> USE DEF NzbgetInv, Scan, nzbget, poll, resolver, history, KeepWorker, PollUnchanged,
              DupeWorkerUnchanged, NzbgetOnly, Goto, Unanswered
  <1>1. NzbgetTypes'
    <2>1. seen' \in [foreign : BOOLEAN, paused : SUBSET Ids]
      <3>1. (In({"paused"}) \ {exclude}) \cap Owned \subseteq Ids
        BY DEF In
      <3>2. \E f \in BOOLEAN, q \in SUBSET Ids : seen' = [foreign |-> f, paused |-> q]
        <4> DEFINE active == In({"active"}) \ {exclude}
        <4>1. CASE seen' = NothingSeen
          BY <4>1 DEF NothingSeen
        <4>2. CASE seen' = IF active # {} THEN [foreign |-> TRUE, paused |-> {}]
                   ELSE [foreign |-> FALSE, paused |-> (In({"paused"}) \ {exclude}) \cap Owned]
          BY <3>1, <4>2
        <4> QED BY <4>1, <4>2
      <3> QED BY <3>2
    <2>2. blind' \in BOOLEAN /\ pc' = "decide"
      BY DEF NzbgetTypes
    <2> QED BY <2>1, <2>2 DEF NzbgetTypes
  <1>2. OwnIds'
    BY DEF OwnIds, NzbgetTypes, Is, In, Ours, Owned, Alive, Queued, OurKinds, WorkerOver,
       NothingSeen
  <1>3. BeforeThePoll'
    BY DEF BeforeThePoll, NzbgetTypes, Is, In, Ours, Owned, Alive, Queued, OurKinds,
       WorkerOver, NothingSeen
  <1>4. KnowsItsJobs'
    BY DEF KnowsItsJobs, NzbgetTypes, Is, In, Ours, Owned, Alive, Queued, OurKinds, WorkerOver,
       NothingSeen
  <1>5. OneWithoutKey'
    BY DEF OneWithoutKey, NzbgetTypes, Is, In, Ours, Owned, Alive, Queued, OurKinds,
       WorkerOver, NothingSeen
  <1>6. LooksHold'
    <2>1. ASSUME keyed, ~blind', ~slipped, dupeWorker.pc # "record",
                 ~seen'.foreign, seen'.paused = {}
          PROVE  Queued = {}
      <3>1. In({"active"}) \ {exclude} = {}
        <4> DEFINE active == In({"active"}) \ {exclude}
        <4> SUFFICES ASSUME active # {} PROVE FALSE
          OBVIOUS
        <4>1. seen' = [foreign |-> TRUE, paused |-> {}]
          BY <2>1 DEF NzbgetTypes
        <4> QED BY <2>1, <4>1
      <3>2. (In({"paused"}) \ {exclude}) \cap Owned = {}
        <4>1. seen' = [foreign |-> FALSE, paused |-> (In({"paused"}) \ {exclude}) \cap Owned]
          BY <2>1, <3>1 DEF NzbgetTypes
        <4> QED BY <2>1, <4>1
      <3>3. exclude \notin Queued
        BY DEF LooksHold, NzbgetTypes, Queued, In, Ids
      <3>4. ~blind
        BY <2>1
      <3>5. \A i \in In({"paused"}) : i \in Ours
        BY DEF OwnIds, In, Is, Ours, OurKinds, NzbgetTypes, Table
      <3>6. Ours \subseteq Owned
        BY <2>1, <3>4 DEF KnowsItsJobs
      <3> QED BY <3>1, <3>2, <3>3, <3>5, <3>6 DEF Queued, In
    <2>2. /\ pc' = "decide" /\ UNCHANGED <<keyed, exclude, stale, slipped, dupeWorker, job>>
          /\ blind => blind'
      BY DEF NzbgetTypes
    <2>3. Queued' = Queued /\ In({"success"})' = In({"success"})
      BY <2>2 DEF Queued, In
    <2> QED BY <2>1, <2>2, <2>3 DEF LooksHold
  <1>7. CleansUp'
    BY DEF CleansUp, NzbgetTypes, Is, In, Ours, Owned, Alive, Queued, OurKinds, WorkerOver,
       NothingSeen
  <1> QED BY <1>1, <1>2, <1>3, <1>4, <1>5, <1>6, <1>7

LEMMA LookAgainHolds ==
  ASSUME NzbgetInv, LookAgain
  PROVE  NzbgetInv'
  <1> USE DEF NzbgetInv, LookAgain, nzbget, poll, resolver, history, KeepWorker, PollUnchanged,
              DupeWorkerUnchanged, NzbgetOnly, Goto, Unanswered
  <1>1. NzbgetTypes'
    BY DEF NzbgetTypes, Is, In, Ours, Owned, Alive, Queued, OurKinds, WorkerOver, NothingSeen
  <1>2. OwnIds'
    BY DEF OwnIds, NzbgetTypes, Is, In, Ours, Owned, Alive, Queued, OurKinds, WorkerOver,
       NothingSeen
  <1>3. BeforeThePoll'
    BY DEF BeforeThePoll, NzbgetTypes, Is, In, Ours, Owned, Alive, Queued, OurKinds,
       WorkerOver, NothingSeen
  <1>4. KnowsItsJobs'
    BY DEF KnowsItsJobs, NzbgetTypes, Is, In, Ours, Owned, Alive, Queued, OurKinds, WorkerOver,
       NothingSeen
  <1>5. OneWithoutKey'
    BY DEF OneWithoutKey, NzbgetTypes, Is, In, Ours, Owned, Alive, Queued, OurKinds,
       WorkerOver, NothingSeen
  <1>6. LooksHold'
    BY DEF LooksHold, NzbgetTypes, Is, In, Ours, Owned, Alive, Queued, OurKinds, WorkerOver,
       NothingSeen
  <1>7. CleansUp'
    BY DEF CleansUp, NzbgetTypes, Is, In, Ours, Owned, Alive, Queued, OurKinds, WorkerOver,
       NothingSeen
  <1> QED BY <1>1, <1>2, <1>3, <1>4, <1>5, <1>6, <1>7

LEMMA GiveUpHolds ==
  ASSUME NzbgetInv, GiveUp
  PROVE  NzbgetInv'
  <1> USE DEF NzbgetInv, GiveUp, PromotionPending, StillSubmitting, nzbget, poll, resolver,
              history, KeepWorker, PollUnchanged, DupeWorkerUnchanged, NzbgetOnly, Goto,
              Unanswered
  <1>1. NzbgetTypes'
    BY DEF NzbgetTypes, Is, In, Ours, Owned, Alive, Queued, OurKinds, WorkerOver, NothingSeen
  <1>2. OwnIds'
    BY DEF OwnIds, NzbgetTypes, Is, In, Ours, Owned, Alive, Queued, OurKinds, WorkerOver,
       NothingSeen
  <1>3. BeforeThePoll'
    BY DEF BeforeThePoll, NzbgetTypes, Is, In, Ours, Owned, Alive, Queued, OurKinds,
       WorkerOver, NothingSeen
  <1>4. KnowsItsJobs'
    BY DEF KnowsItsJobs, NzbgetTypes, Is, In, Ours, Owned, Alive, Queued, OurKinds, WorkerOver,
       NothingSeen
  <1>5. OneWithoutKey'
    BY DEF OneWithoutKey, NzbgetTypes, Is, In, Ours, Owned, Alive, Queued, OurKinds,
       WorkerOver, NothingSeen
  <1>6. LooksHold'
    BY DEF LooksHold, NzbgetTypes, Is, In, Ours, Owned, Alive, Queued, OurKinds, WorkerOver,
       NothingSeen
  <1>7. CleansUp'
    BY DEF CleansUp, NzbgetTypes, Is, In, Ours, Owned, Alive, Queued, OurKinds, WorkerOver,
       NothingSeen
  <1> QED BY <1>1, <1>2, <1>3, <1>4, <1>5, <1>6, <1>7

LEMMA TimeOutHolds ==
  ASSUME NzbgetInv, TimeOut
  PROVE  NzbgetInv'
  <1> USE DEF NzbgetInv, TimeOut, nzbget, poll, resolver, history, KeepWorker, PollUnchanged,
              DupeWorkerUnchanged, NzbgetOnly, Goto, Unanswered
  <1>1. NzbgetTypes'
    BY DEF NzbgetTypes, Is, In, Ours, Owned, Alive, Queued, OurKinds, WorkerOver, NothingSeen
  <1>2. OwnIds'
    BY DEF OwnIds, NzbgetTypes, Is, In, Ours, Owned, Alive, Queued, OurKinds, WorkerOver,
       NothingSeen
  <1>3. BeforeThePoll'
    BY DEF BeforeThePoll, NzbgetTypes, Is, In, Ours, Owned, Alive, Queued, OurKinds,
       WorkerOver, NothingSeen
  <1>4. KnowsItsJobs'
    BY DEF KnowsItsJobs, NzbgetTypes, Is, In, Ours, Owned, Alive, Queued, OurKinds, WorkerOver,
       NothingSeen
  <1>5. OneWithoutKey'
    BY DEF OneWithoutKey, NzbgetTypes, Is, In, Ours, Owned, Alive, Queued, OurKinds,
       WorkerOver, NothingSeen
  <1>6. LooksHold'
    BY DEF LooksHold, NzbgetTypes, Is, In, Ours, Owned, Alive, Queued, OurKinds, WorkerOver,
       NothingSeen
  <1>7. CleansUp'
    BY DEF CleansUp, NzbgetTypes, Is, In, Ours, Owned, Alive, Queued, OurKinds, WorkerOver,
       NothingSeen
  <1> QED BY <1>1, <1>2, <1>3, <1>4, <1>5, <1>6, <1>7

LEMMA ListShareHolds ==
  ASSUME NzbgetInv, ListShare
  PROVE  NzbgetInv'
  <1> USE DEF NzbgetInv, ListShare, nzbget, poll, resolver, history, KeepWorker, PollUnchanged,
              DupeWorkerUnchanged, NzbgetOnly, Goto, Unanswered
  <1>1. NzbgetTypes'
    BY DEF NzbgetTypes, Is, In, Ours, Owned, Alive, Queued, OurKinds, WorkerOver, NothingSeen
  <1>2. OwnIds'
    BY DEF OwnIds, NzbgetTypes, Is, In, Ours, Owned, Alive, Queued, OurKinds, WorkerOver,
       NothingSeen
  <1>3. BeforeThePoll'
    BY DEF BeforeThePoll, NzbgetTypes, Is, In, Ours, Owned, Alive, Queued, OurKinds,
       WorkerOver, NothingSeen
  <1>4. KnowsItsJobs'
    BY DEF KnowsItsJobs, NzbgetTypes, Is, In, Ours, Owned, Alive, Queued, OurKinds, WorkerOver,
       NothingSeen
  <1>5. OneWithoutKey'
    BY DEF OneWithoutKey, NzbgetTypes, Is, In, Ours, Owned, Alive, Queued, OurKinds,
       WorkerOver, NothingSeen
  <1>6. LooksHold'
    BY DEF LooksHold, NzbgetTypes, Is, In, Ours, Owned, Alive, Queued, OurKinds, WorkerOver,
       NothingSeen
  <1>7. CleansUp'
    BY DEF CleansUp, NzbgetTypes, Is, In, Ours, Owned, Alive, Queued, OurKinds, WorkerOver,
       NothingSeen
  <1> QED BY <1>1, <1>2, <1>3, <1>4, <1>5, <1>6, <1>7

LEMMA CancelHolds ==
  ASSUME NzbgetInv, Cancel
  PROVE  NzbgetInv'
  <1> USE DEF NzbgetInv, Cancel, nzbget, poll, resolver, history, KeepWorker, PollUnchanged,
              DupeWorkerUnchanged, NzbgetOnly, Goto, Unanswered
  <1>1. NzbgetTypes'
    <2>1. seen.paused \subseteq Ids /\ submitted \subseteq Ids
      BY DEF NzbgetTypes
    <2>2. doomed' \subseteq Ids \cup {0}
      BY <2>1 DEF NzbgetTypes
    <2>3. slipped' \in BOOLEAN /\ pc' = "cancel"
      OBVIOUS
    <2> QED BY <2>2, <2>3 DEF NzbgetTypes
  <1>2. OwnIds'
    BY DEF OwnIds, NzbgetTypes, Is, In, Ours, Owned, Alive, Queued, OurKinds, WorkerOver,
       NothingSeen
  <1>3. BeforeThePoll'
    BY DEF BeforeThePoll, NzbgetTypes, Is, In, Ours, Owned, Alive, Queued, OurKinds,
       WorkerOver, NothingSeen
  <1>4. KnowsItsJobs'
    BY DEF KnowsItsJobs, NzbgetTypes, Is, In, Ours, Owned, Alive, Queued, OurKinds, WorkerOver,
       NothingSeen
  <1>5. OneWithoutKey'
    BY DEF OneWithoutKey, NzbgetTypes, Is, In, Ours, Owned, Alive, Queued, OurKinds,
       WorkerOver, NothingSeen
  <1>6. LooksHold'
    BY DEF LooksHold, NzbgetTypes, Is, In, Ours, Owned, Alive, Queued, OurKinds, WorkerOver,
       NothingSeen
  <1>7. CleansUp'
    BY DEF CleansUp, NzbgetTypes, Is, In, Ours, Owned, Alive, Queued, OurKinds, WorkerOver,
       NothingSeen
  <1> QED BY <1>1, <1>2, <1>3, <1>4, <1>5, <1>6, <1>7

LEMMA SetCancelHolds ==
  ASSUME NzbgetInv, SetCancel
  PROVE  NzbgetInv'
  <1> USE DEF NzbgetInv, SetCancel, nzbget, poll, resolver, history, KeepWorker, PollUnchanged,
              DupeWorkerUnchanged, NzbgetOnly, Goto, Unanswered
  <1>1. NzbgetTypes'
    BY DEF NzbgetTypes, Is, In, Ours, Owned, Alive, Queued, OurKinds, WorkerOver, NothingSeen
  <1>2. OwnIds'
    BY DEF OwnIds, NzbgetTypes, Is, In, Ours, Owned, Alive, Queued, OurKinds, WorkerOver,
       NothingSeen
  <1>3. BeforeThePoll'
    BY DEF BeforeThePoll, NzbgetTypes, Is, In, Ours, Owned, Alive, Queued, OurKinds,
       WorkerOver, NothingSeen
  <1>4. KnowsItsJobs'
    BY DEF KnowsItsJobs, NzbgetTypes, Is, In, Ours, Owned, Alive, Queued, OurKinds, WorkerOver,
       NothingSeen
  <1>5. OneWithoutKey'
    BY DEF OneWithoutKey, NzbgetTypes, Is, In, Ours, Owned, Alive, Queued, OurKinds,
       WorkerOver, NothingSeen
  <1>6. LooksHold'
    BY DEF LooksHold, NzbgetTypes, Is, In, Ours, Owned, Alive, Queued, OurKinds, WorkerOver,
       NothingSeen
  <1>7. CleansUp'
    BY DEF CleansUp, NzbgetTypes, Is, In, Ours, Owned, Alive, Queued, OurKinds, WorkerOver,
       NothingSeen
  <1> QED BY <1>1, <1>2, <1>3, <1>4, <1>5, <1>6, <1>7

LEMMA WorkerCheckHolds ==
  ASSUME NzbgetInv, WorkerCheck
  PROVE  NzbgetInv'
  <1> USE DEF NzbgetInv, WorkerCheck, Work, nzbget, poll, resolver, history, KeepWorker,
              PollUnchanged, DupeWorkerUnchanged, NzbgetOnly, Goto, Unanswered
  <1>1. NzbgetTypes'
    BY DEF DupeWorkers, NzbgetTypes, Is, In, Ours, Owned, Alive, Queued, OurKinds, WorkerOver,
       NothingSeen
  <1>2. OwnIds'
    BY DEF DupeWorkers, OwnIds, NzbgetTypes, Is, In, Ours, Owned, Alive, Queued, OurKinds,
       WorkerOver,
       NothingSeen
  <1>3. BeforeThePoll'
    BY DEF BeforeThePoll, NzbgetTypes, Is, In, Ours, Owned, Alive, Queued, OurKinds,
       WorkerOver, NothingSeen
  <1>4. KnowsItsJobs'
    BY DEF KnowsItsJobs, NzbgetTypes, Is, In, Ours, Owned, Alive, Queued, OurKinds, WorkerOver,
       NothingSeen
  <1>5. OneWithoutKey'
    BY DEF OneWithoutKey, NzbgetTypes, Is, In, Ours, Owned, Alive, Queued, OurKinds,
       WorkerOver, NothingSeen
  <1>6. LooksHold'
    BY DEF LooksHold, NzbgetTypes, Is, In, Ours, Owned, Alive, Queued, OurKinds, WorkerOver,
       NothingSeen
  <1>7. CleansUp'
    BY DEF CleansUp, NzbgetTypes, Is, In, Ours, Owned, Alive, Queued, OurKinds, WorkerOver,
       NothingSeen
  <1> QED BY <1>1, <1>2, <1>3, <1>4, <1>5, <1>6, <1>7

LEMMA WorkerNextHolds ==
  ASSUME NzbgetInv, WorkerNext
  PROVE  NzbgetInv'
  <1> USE DEF NzbgetInv, WorkerNext, Work, Wanted, nzbget, poll, resolver, history, KeepWorker,
              PollUnchanged, DupeWorkerUnchanged, NzbgetOnly, Goto, Unanswered
  <1>1. NzbgetTypes'
    BY DEF DupeWorkers, NzbgetTypes, Is, In, Ours, Owned, Alive, Queued, OurKinds, WorkerOver,
       NothingSeen
  <1>2. OwnIds'
    BY DEF DupeWorkers, OwnIds, NzbgetTypes, Is, In, Ours, Owned, Alive, Queued, OurKinds,
       WorkerOver,
       NothingSeen
  <1>3. BeforeThePoll'
    BY DEF BeforeThePoll, NzbgetTypes, Is, In, Ours, Owned, Alive, Queued, OurKinds,
       WorkerOver, NothingSeen
  <1>4. KnowsItsJobs'
    BY DEF KnowsItsJobs, NzbgetTypes, Is, In, Ours, Owned, Alive, Queued, OurKinds, WorkerOver,
       NothingSeen
  <1>5. OneWithoutKey'
    BY DEF OneWithoutKey, NzbgetTypes, Is, In, Ours, Owned, Alive, Queued, OurKinds,
       WorkerOver, NothingSeen
  <1>6. LooksHold'
    BY DEF LooksHold, NzbgetTypes, Is, In, Ours, Owned, Alive, Queued, OurKinds, WorkerOver,
       NothingSeen
  <1>7. CleansUp'
    BY DEF DupeWorkers, CleansUp, NzbgetTypes, Is, In, Ours, Owned, Alive, Queued, OurKinds,
       WorkerOver,
       NothingSeen
  <1> QED BY <1>1, <1>2, <1>3, <1>4, <1>5, <1>6, <1>7

LEMMA WorkerRecordHolds ==
  ASSUME NzbgetInv, WorkerRecord
  PROVE  NzbgetInv'
  <1> USE DEF NzbgetInv, WorkerRecord, Work, nzbget, poll, resolver, history, KeepWorker,
              PollUnchanged, DupeWorkerUnchanged, NzbgetOnly, Goto, Unanswered
  <1>1. NzbgetTypes'
    <2>1. (slipped \/ pc \in {"decide", "cancel"}) \in BOOLEAN
      OBVIOUS
    <2>2. slipped' \in BOOLEAN
      BY <2>1
    <2>3. dupeWorker.live \in Nat /\ dupeWorker.live + 1 \in Nat
      BY DEF DupeWorkers, NzbgetTypes
    <2>4. dupeWorker' \in DupeWorkers
      BY <2>3 DEF DupeWorkers, NzbgetTypes
    <2>5. submitted' \subseteq Ids
      BY DEF DupeWorkers, NzbgetTypes, OwnIds
    <2> QED BY <2>2, <2>4, <2>5 DEF NzbgetTypes
  <1>2. OwnIds'
    BY DEF OwnIds, NzbgetTypes, Is, In, Ours, Owned, Alive, Queued, OurKinds, WorkerOver,
       NothingSeen
  <1>3. BeforeThePoll'
    BY DEF BeforeThePoll, NzbgetTypes, Is, In, Ours, Owned, Alive, Queued, OurKinds,
       WorkerOver, NothingSeen
  <1>4. KnowsItsJobs'
    BY DEF KnowsItsJobs, NzbgetTypes, Is, In, Ours, Owned, Alive, Queued, OurKinds, WorkerOver,
       NothingSeen
  <1>5. OneWithoutKey'
    BY DEF OneWithoutKey, NzbgetTypes, Is, In, Ours, Owned, Alive, Queued, OurKinds,
       WorkerOver, NothingSeen
  <1>6. LooksHold'
    BY DEF LooksHold, NzbgetTypes, Is, In, Ours, Owned, Alive, Queued, OurKinds, WorkerOver,
       NothingSeen
  <1>7. CleansUp'
    BY DEF DupeWorkers, CleansUp, NzbgetTypes, Is, In, Ours, Owned, Alive, Queued, OurKinds,
       WorkerOver,
       NothingSeen
  <1> QED BY <1>1, <1>2, <1>3, <1>4, <1>5, <1>6, <1>7

LEMMA WorkerDrainHolds ==
  ASSUME NzbgetInv, WorkerDrain
  PROVE  NzbgetInv'
  <1> USE DEF NzbgetInv, WorkerDrain, Work, nzbget, poll, resolver, history, KeepWorker,
              PollUnchanged, DupeWorkerUnchanged, NzbgetOnly, Goto, Unanswered
  <1>1. NzbgetTypes'
    BY DEF DupeWorkers, NzbgetTypes, Is, In, Ours, Owned, Alive, Queued, OurKinds, WorkerOver,
       NothingSeen
  <1>2. OwnIds'
    BY DEF OwnIds, NzbgetTypes, Is, In, Ours, Owned, Alive, Queued, OurKinds, WorkerOver,
       NothingSeen
  <1>3. BeforeThePoll'
    BY DEF BeforeThePoll, NzbgetTypes, Is, In, Ours, Owned, Alive, Queued, OurKinds,
       WorkerOver, NothingSeen
  <1>4. KnowsItsJobs'
    BY DEF KnowsItsJobs, NzbgetTypes, Is, In, Ours, Owned, Alive, Queued, OurKinds, WorkerOver,
       NothingSeen
  <1>5. OneWithoutKey'
    BY DEF OneWithoutKey, NzbgetTypes, Is, In, Ours, Owned, Alive, Queued, OurKinds,
       WorkerOver, NothingSeen
  <1>6. LooksHold'
    BY DEF LooksHold, NzbgetTypes, Is, In, Ours, Owned, Alive, Queued, OurKinds, WorkerOver,
       NothingSeen
  <1>7. CleansUp'
    BY DEF CleansUp, NzbgetTypes, Is, In, Ours, Owned, Alive, Queued, OurKinds, WorkerOver,
       NothingSeen
  <1> QED BY <1>1, <1>2, <1>3, <1>4, <1>5, <1>6, <1>7

LEMMA EndsHolds ==
  ASSUME NzbgetInv, NEW d \in Ids, Ends(d)
  PROVE  NzbgetInv'
  <1>0. /\ UNCHANGED <<keyed, pc, current, exclude, stale, seen, vetoed, rescued, pick, doomed,
                      cancel, played, submitted, dupeWorker, blind>>
        /\ job[d].st = "active"
    BY DEF Ends, resolver, poll
  <1>8. /\ job' \in Table /\ slipped' \in BOOLEAN /\ (slipped => slipped')
        /\ \A i \in Ids :
              /\ job'[i].own = job[i].own
              /\ \/ job'[i].st = job[i].st
                 \/ i = d /\ job[i].st = "active" /\ job'[i].st = "failed"
                 \/ /\ i = d /\ job[i].st = "active" /\ job'[i].st = "success"
                    /\ slipped' = (slipped \/ pc \in {"scan", "decide"})
                 \/ job[i].st = "parked" /\ job'[i].st \in {"active", "paused"}
    BY EndsOne DEF NzbgetInv
  <1>1. NzbgetTypes'
    BY <1>0, <1>8 DEF NzbgetInv, NzbgetTypes, Is, In, Ours, Owned, Alive, Queued, OurKinds,
       WorkerOver, NothingSeen
  <1>2. OwnIds'
    BY <1>0, <1>8 DEF NzbgetInv, OwnIds, NzbgetTypes, Table, JobStates, Is, In, Ours, Owned,
       Alive, Queued, OurKinds, WorkerOver, NothingSeen
  <1>3. BeforeThePoll'
    BY <1>0, <1>8 DEF NzbgetInv, BeforeThePoll, NzbgetTypes, Table, JobStates, Is, In, Ours,
       Owned, Alive, Queued, OurKinds, WorkerOver, NothingSeen
  <1>4. KnowsItsJobs'
    BY <1>0, <1>8 DEF NzbgetInv, KnowsItsJobs, NzbgetTypes, Table, JobStates, Is, In, Ours,
       Owned, Alive, Queued, OurKinds, WorkerOver, NothingSeen
  <1>5. OneWithoutKey'
    BY <1>0, <1>8 DEF NzbgetInv, OneWithoutKey, NzbgetTypes, Table, JobStates, Is, In, Ours,
       Owned, Alive, Queued, OurKinds, WorkerOver, NothingSeen
  <1>6. LooksHold'
    BY <1>0, <1>8 DEF NzbgetInv, LooksHold, NzbgetTypes, Table, JobStates, Is, In, Ours, Owned,
       Alive, Queued, OurKinds, WorkerOver, NothingSeen
  <1>7. CleansUp'
    BY <1>0, <1>8 DEF NzbgetInv, CleansUp, NzbgetTypes, Table, JobStates, Is, In, Ours, Owned,
       Alive, Queued, OurKinds, WorkerOver, NothingSeen
  <1> QED BY <1>1, <1>2, <1>3, <1>4, <1>5, <1>6, <1>7 DEF NzbgetInv

LEMMA ResumesHolds ==
  ASSUME NzbgetInv, NEW d \in Ids, Resumes(d)
  PROVE  NzbgetInv'
  <1>0. /\ UNCHANGED <<keyed, pc, current, exclude, stale, seen, vetoed, rescued, pick, doomed,
                      cancel, played, submitted, dupeWorker, blind, slipped>>
        /\ job[d].st = "paused"
    BY DEF Resumes, NzbgetOnly, resolver, poll, history
  <1>8. /\ job' \in Table
        /\ \A i \in Ids :
              /\ job'[i].own = job[i].own
              /\ \/ job'[i].st = job[i].st
                 \/ i = d /\ job'[i].st = "active"
    <2>1. [job[d] EXCEPT !.st = "active"]
             \in [st : JobStates, own : {"none", "other"} \cup OurKinds]
      BY DEF NzbgetInv, NzbgetTypes, Table, JobStates
    <2> QED BY <2>1 DEF NzbgetInv, NzbgetTypes, Table, Resumes
  <1>1. NzbgetTypes'
    BY <1>0, <1>8 DEF NzbgetInv, NzbgetTypes, Is, In, Ours, Owned, Alive, Queued, OurKinds,
       WorkerOver, NothingSeen
  <1>2. OwnIds'
    BY <1>0, <1>8 DEF NzbgetInv, OwnIds, NzbgetTypes, Table, JobStates, Is, In, Ours, Owned,
       Alive, Queued, OurKinds, WorkerOver, NothingSeen
  <1>3. BeforeThePoll'
    <2> USE DEF NzbgetInv
    <2>1. Ours' = Ours /\ Is("other")' = Is("other")
      BY <1>8 DEF Ours, Is
    <2>2. In({"success"})' = In({"success"})
      BY <1>0, <1>8 DEF In
    <2>3. played # 0 => job'[played].st = job[played].st
      BY <1>0, <1>8 DEF BeforeThePoll, NzbgetTypes
    <2> QED BY <1>0, <2>1, <2>2, <2>3 DEF BeforeThePoll
  <1>4. KnowsItsJobs'
    BY <1>0, <1>8 DEF NzbgetInv, KnowsItsJobs, NzbgetTypes, Table, JobStates, Is, In, Ours,
       Owned, Alive, Queued, OurKinds, WorkerOver, NothingSeen
  <1>5. OneWithoutKey'
    BY <1>0, <1>8 DEF NzbgetInv, OneWithoutKey, NzbgetTypes, Table, JobStates, Is, In, Ours,
       Owned, Alive, Queued, OurKinds, WorkerOver, NothingSeen
  <1>6. LooksHold'
    BY <1>0, <1>8 DEF NzbgetInv, LooksHold, NzbgetTypes, Table, JobStates, Is, In, Ours, Owned,
       Alive, Queued, OurKinds, WorkerOver, NothingSeen
  <1>7. CleansUp'
    BY <1>0, <1>8 DEF NzbgetInv, CleansUp, NzbgetTypes, Table, JobStates, Is, In, Ours, Owned,
       Alive, Queued, OurKinds, WorkerOver, NothingSeen
  <1> QED BY <1>1, <1>2, <1>3, <1>4, <1>5, <1>6, <1>7 DEF NzbgetInv

LEMMA CancelHistoryHolds ==
  ASSUME NzbgetInv, CancelHistory
  PROVE  NzbgetInv'
  <1>0. /\ UNCHANGED <<keyed, current, exclude, stale, seen, vetoed, rescued, pick, doomed,
                      cancel, played, submitted, dupeWorker, slipped>>
        /\ pc = "history" /\ pc' = "queue"
    BY DEF CancelHistory, Goto, KeepWorker, poll
  <1>8. /\ job' \in Table /\ blind' \in BOOLEAN /\ (blind => blind')
        /\ \/ blind'
           \/ \A i \in Ids :
                i \in doomed /\ job[i].st \in {"parked", "success", "failed", "copy"} =>
                  job'[i].st = "deleted"
        /\ \A i \in Ids :
              /\ job'[i].own = job[i].own
              /\ \/ job'[i].st = job[i].st
                 \/ /\ i \in doomed /\ job'[i].st = "deleted"
                    /\ job[i].st \in {"parked", "success", "failed", "copy"}
    <2>1. CASE DeleteHistory(doomed)
      BY <2>1, DeletedOnes DEF NzbgetInv, NzbgetTypes, DeleteHistory
    <2>2. CASE Lost
      BY <2>2 DEF NzbgetInv, NzbgetTypes, Lost, Unanswered
    <2> QED BY <2>1, <2>2 DEF CancelHistory
  <1>1. NzbgetTypes'
    BY <1>0, <1>8 DEF NzbgetInv, NzbgetTypes, Is, In, Ours, Owned, Alive, Queued, OurKinds,
       WorkerOver, NothingSeen
  <1>2. OwnIds'
    <2> USE DEF NzbgetInv
    <2>1. \A i \in Ids : job'[i].st = "none" <=> job'[i].own = "none"
      BY <1>8 DEF OwnIds
    <2>2. \A i \in Is("other") : i \notin doomed
      BY DEF OwnIds, Is, Ours, NzbgetTypes, Ids
    <2>3. Is("other")' = Is("other") /\ Ours' = Ours
      BY <1>8 DEF Is, Ours
    <2>4. \A i \in Is("other") : job'[i].st \in {"active", "success", "failed"}
      BY <1>8, <2>2 DEF OwnIds, Is
    <2> QED BY <1>0, <2>1, <2>3, <2>4 DEF OwnIds
  <1>3. BeforeThePoll'
    BY <1>0, <1>8 DEF NzbgetInv, BeforeThePoll, NzbgetTypes, Table, JobStates, Is, In, Ours,
       Owned, Alive, Queued, OurKinds, WorkerOver, NothingSeen
  <1>4. KnowsItsJobs'
    BY <1>0, <1>8 DEF NzbgetInv, KnowsItsJobs, NzbgetTypes, Table, JobStates, Is, In, Ours,
       Owned, Alive, Queued, OurKinds, WorkerOver, NothingSeen
  <1>5. OneWithoutKey'
    BY <1>0, <1>8 DEF NzbgetInv, OneWithoutKey, NzbgetTypes, Table, JobStates, Is, In, Ours,
       Owned, Alive, Queued, OurKinds, WorkerOver, NothingSeen
  <1>6. LooksHold'
    BY <1>0, <1>8 DEF NzbgetInv, LooksHold, NzbgetTypes, Table, JobStates, Is, In, Ours, Owned,
       Alive, Queued, OurKinds, WorkerOver, NothingSeen
  <1>7. CleansUp'
    BY <1>0, <1>8 DEF NzbgetInv, CleansUp, NzbgetTypes, Table, JobStates, Is, In, Ours, Owned,
       Alive, Queued, OurKinds, WorkerOver, NothingSeen
  <1> QED BY <1>1, <1>2, <1>3, <1>4, <1>5, <1>6, <1>7 DEF NzbgetInv

LEMMA CancelQueueHolds ==
  ASSUME NzbgetInv, CancelQueue
  PROVE  NzbgetInv'
  <1>0. /\ UNCHANGED <<keyed, current, exclude, stale, seen, vetoed, rescued, pick, doomed,
                      cancel, played, submitted, dupeWorker, slipped>>
        /\ pc = "queue" /\ pc' = "canceled"
    BY DEF CancelQueue, Goto, KeepWorker, poll
  <1>8. /\ job' \in Table /\ blind' \in BOOLEAN /\ (blind => blind')
        /\ \/ blind'
           \/ \A i \in Ids :
                i \in doomed /\ job[i].st \in {"active", "paused"} => job'[i].st = "deleted"
        /\ \A i \in Ids :
              /\ job'[i].own = job[i].own
              /\ \/ job'[i].st = job[i].st
                 \/ i \in doomed /\ job'[i].st = "deleted" /\ job[i].st \in {"active", "paused"}
    <2>1. CASE DeleteQueue(doomed)
      BY <2>1, DeletedOnes DEF NzbgetInv, NzbgetTypes, DeleteQueue
    <2>2. CASE Lost
      BY <2>2 DEF NzbgetInv, NzbgetTypes, Lost, Unanswered
    <2> QED BY <2>1, <2>2 DEF CancelQueue
  <1>1. NzbgetTypes'
    BY <1>0, <1>8 DEF NzbgetInv, NzbgetTypes, Is, In, Ours, Owned, Alive, Queued, OurKinds,
       WorkerOver, NothingSeen
  <1>2. OwnIds'
    <2> USE DEF NzbgetInv
    <2>1. \A i \in Ids : job'[i].st = "none" <=> job'[i].own = "none"
      BY <1>8 DEF OwnIds
    <2>2. \A i \in Is("other") : i \notin doomed
      BY DEF OwnIds, Is, Ours, NzbgetTypes, Ids
    <2>3. Is("other")' = Is("other") /\ Ours' = Ours
      BY <1>8 DEF Is, Ours
    <2>4. \A i \in Is("other") : job'[i].st \in {"active", "success", "failed"}
      BY <1>8, <2>2 DEF OwnIds, Is
    <2> QED BY <1>0, <2>1, <2>3, <2>4 DEF OwnIds
  <1>3. BeforeThePoll'
    BY <1>0, <1>8 DEF NzbgetInv, BeforeThePoll, NzbgetTypes, Table, JobStates, Is, In, Ours,
       Owned, Alive, Queued, OurKinds, WorkerOver, NothingSeen
  <1>4. KnowsItsJobs'
    BY <1>0, <1>8 DEF NzbgetInv, KnowsItsJobs, NzbgetTypes, Table, JobStates, Is, In, Ours,
       Owned, Alive, Queued, OurKinds, WorkerOver, NothingSeen
  <1>5. OneWithoutKey'
    BY <1>0, <1>8 DEF NzbgetInv, OneWithoutKey, NzbgetTypes, Table, JobStates, Is, In, Ours,
       Owned, Alive, Queued, OurKinds, WorkerOver, NothingSeen
  <1>6. LooksHold'
    BY <1>0, <1>8 DEF NzbgetInv, LooksHold, NzbgetTypes, Table, JobStates, Is, In, Ours, Owned,
       Alive, Queued, OurKinds, WorkerOver, NothingSeen
  <1>7. CleansUp'
    BY <1>0, <1>8 DEF NzbgetInv, CleansUp, NzbgetTypes, Table, JobStates, Is, In, Ours, Owned,
       Alive, Queued, OurKinds, WorkerOver, NothingSeen
  <1> QED BY <1>1, <1>2, <1>3, <1>4, <1>5, <1>6, <1>7 DEF NzbgetInv

LEMMA WorkerHistoryHolds ==
  ASSUME NzbgetInv, WorkerHistory
  PROVE  NzbgetInv'
  <1>0. /\ UNCHANGED <<keyed, pc, current, exclude, stale, seen, vetoed, rescued, pick, doomed,
                      cancel, played, submitted, slipped>>
        /\ dupeWorker.pc = "history" /\ dupeWorker' = [dupeWorker EXCEPT !.pc = "queue"]
    BY DEF WorkerHistory, Work, DupeWorkerUnchanged, resolver, poll
  <1>9. /\ dupeWorker' \in DupeWorkers
        /\ dupeWorker'.pc = "queue" /\ dupeWorker'.id = dupeWorker.id
    BY <1>0 DEF DupeWorkers, NzbgetInv, NzbgetTypes
  <1>8. /\ job' \in Table /\ blind' \in BOOLEAN /\ (blind => blind')
        /\ \/ blind'
           \/ \A i \in Ids :
                i \in submitted /\ job[i].st \in {"parked", "success", "failed", "copy"} =>
                  job'[i].st = "deleted"
        /\ \A i \in Ids :
              /\ job'[i].own = job[i].own
              /\ \/ job'[i].st = job[i].st
                 \/ /\ i \in submitted /\ job'[i].st = "deleted"
                    /\ job[i].st \in {"parked", "success", "failed", "copy"}
    <2>1. CASE DeleteHistory(submitted)
      BY <2>1, DeletedOnes DEF NzbgetInv, NzbgetTypes, DeleteHistory
    <2>2. CASE Lost
      BY <2>2 DEF NzbgetInv, NzbgetTypes, Lost, Unanswered
    <2> QED BY <2>1, <2>2 DEF WorkerHistory
  <1>1. NzbgetTypes'
    BY <1>0, <1>8, <1>9 DEF NzbgetInv, NzbgetTypes, Is, In, Ours, Owned, Alive, Queued,
       OurKinds, WorkerOver, NothingSeen
  <1>2. OwnIds'
    <2> USE DEF NzbgetInv
    <2>1. \A i \in Ids : job'[i].st = "none" <=> job'[i].own = "none"
      BY <1>8 DEF OwnIds
    <2>2. \A i \in Is("other") : i \notin submitted
      BY DEF OwnIds, Is, Ours, NzbgetTypes, Ids
    <2>3. Is("other")' = Is("other") /\ Ours' = Ours
      BY <1>8 DEF Is, Ours
    <2>4. \A i \in Is("other") : job'[i].st \in {"active", "success", "failed"}
      BY <1>8, <2>2 DEF OwnIds, Is
    <2> QED BY <1>0, <1>9, <2>1, <2>3, <2>4 DEF OwnIds
  <1>3. BeforeThePoll'
    BY <1>0, <1>8, <1>9 DEF NzbgetInv, BeforeThePoll, NzbgetTypes, Table, JobStates, Is, In,
       Ours, Owned, Alive, Queued, OurKinds, WorkerOver, NothingSeen
  <1>4. KnowsItsJobs'
    BY <1>0, <1>8, <1>9 DEF NzbgetInv, KnowsItsJobs, NzbgetTypes, Table, JobStates, Is, In,
       Ours, Owned, Alive, Queued, OurKinds, WorkerOver, NothingSeen
  <1>5. OneWithoutKey'
    BY <1>0, <1>8, <1>9 DEF NzbgetInv, OneWithoutKey, NzbgetTypes, Table, JobStates, Is, In,
       Ours, Owned, Alive, Queued, OurKinds, WorkerOver, NothingSeen
  <1>6. LooksHold'
    BY <1>0, <1>8, <1>9 DEF NzbgetInv, LooksHold, NzbgetTypes, Table, JobStates, Is, In, Ours,
       Owned, Alive, Queued, OurKinds, WorkerOver, NothingSeen
  <1>7. CleansUp'
    BY <1>0, <1>8, <1>9 DEF NzbgetInv, CleansUp, NzbgetTypes, Table, JobStates, Is, In, Ours,
       Owned, Alive, Queued, OurKinds, WorkerOver, NothingSeen
  <1> QED BY <1>1, <1>2, <1>3, <1>4, <1>5, <1>6, <1>7 DEF NzbgetInv

LEMMA WorkerQueueHolds ==
  ASSUME NzbgetInv, WorkerQueue
  PROVE  NzbgetInv'
  <1>0. /\ UNCHANGED <<keyed, pc, current, exclude, stale, seen, vetoed, rescued, pick, doomed,
                      cancel, played, submitted, slipped>>
        /\ dupeWorker.pc = "queue" /\ dupeWorker' = [dupeWorker EXCEPT !.pc = "done"]
    BY DEF WorkerQueue, Work, DupeWorkerUnchanged, resolver, poll
  <1>9. /\ dupeWorker' \in DupeWorkers
        /\ dupeWorker'.pc = "done" /\ dupeWorker'.id = dupeWorker.id
    BY <1>0 DEF DupeWorkers, NzbgetInv, NzbgetTypes
  <1>8. /\ job' \in Table /\ blind' \in BOOLEAN /\ (blind => blind')
        /\ \/ blind'
           \/ \A i \in Ids :
                i \in submitted /\ job[i].st \in {"active", "paused"} => job'[i].st = "deleted"
        /\ \A i \in Ids :
              /\ job'[i].own = job[i].own
              /\ \/ job'[i].st = job[i].st
                 \/ /\ i \in submitted /\ job'[i].st = "deleted"
                    /\ job[i].st \in {"active", "paused"}
    <2>1. CASE DeleteQueue(submitted)
      BY <2>1, DeletedOnes DEF NzbgetInv, NzbgetTypes, DeleteQueue
    <2>2. CASE Lost
      BY <2>2 DEF NzbgetInv, NzbgetTypes, Lost, Unanswered
    <2> QED BY <2>1, <2>2 DEF WorkerQueue
  <1>1. NzbgetTypes'
    BY <1>0, <1>8, <1>9 DEF NzbgetInv, NzbgetTypes, Is, In, Ours, Owned, Alive, Queued,
       OurKinds, WorkerOver, NothingSeen
  <1>2. OwnIds'
    <2> USE DEF NzbgetInv
    <2>1. \A i \in Ids : job'[i].st = "none" <=> job'[i].own = "none"
      BY <1>8 DEF OwnIds
    <2>2. \A i \in Is("other") : i \notin submitted
      BY DEF OwnIds, Is, Ours, NzbgetTypes, Ids
    <2>3. Is("other")' = Is("other") /\ Ours' = Ours
      BY <1>8 DEF Is, Ours
    <2>4. \A i \in Is("other") : job'[i].st \in {"active", "success", "failed"}
      BY <1>8, <2>2 DEF OwnIds, Is
    <2> QED BY <1>0, <1>9, <2>1, <2>3, <2>4 DEF OwnIds
  <1>3. BeforeThePoll'
    BY <1>0, <1>8, <1>9 DEF NzbgetInv, BeforeThePoll, NzbgetTypes, Table, JobStates, Is, In,
       Ours, Owned, Alive, Queued, OurKinds, WorkerOver, NothingSeen
  <1>4. KnowsItsJobs'
    BY <1>0, <1>8, <1>9 DEF NzbgetInv, KnowsItsJobs, NzbgetTypes, Table, JobStates, Is, In,
       Ours, Owned, Alive, Queued, OurKinds, WorkerOver, NothingSeen
  <1>5. OneWithoutKey'
    BY <1>0, <1>8, <1>9 DEF NzbgetInv, OneWithoutKey, NzbgetTypes, Table, JobStates, Is, In,
       Ours, Owned, Alive, Queued, OurKinds, WorkerOver, NothingSeen
  <1>6. LooksHold'
    BY <1>0, <1>8, <1>9 DEF NzbgetInv, LooksHold, NzbgetTypes, Table, JobStates, Is, In, Ours,
       Owned, Alive, Queued, OurKinds, WorkerOver, NothingSeen
  <1>7. CleansUp'
    BY <1>0, <1>8, <1>9 DEF NzbgetInv, CleansUp, NzbgetTypes, Table, JobStates, Is, In, Ours,
       Owned, Alive, Queued, OurKinds, WorkerOver, NothingSeen
  <1> QED BY <1>1, <1>2, <1>3, <1>4, <1>5, <1>6, <1>7 DEF NzbgetInv

\* What a new job changes in the sets the invariant speaks of.
LEMMA NewJob ==
  ASSUME NzbgetTypes, OwnIds, NEW n \in Ids, NEW own \in OurKinds,
         job[n].st = "none", job' \in Table,
         job'[n].own = own, job'[n].st \in {"copy", "active", "parked"},
         \A i \in Ids : i # n => job'[i] = job[i]
  PROVE  /\ n # 0 /\ n \notin Ours /\ Ours' = Ours \cup {n}
         /\ Is("other")' = Is("other") /\ n \notin Is("other")
         /\ In({"success"})' = In({"success"})
         /\ \A i \in Ids : job'[i].st = "none" <=> job'[i].own = "none"
         /\ \A i \in Ids : i # n => (i \in Alive' <=> i \in Alive)
         /\ \A i \in Is("other") : job'[i].st \in {"active", "success", "failed"}
         /\ Ours \subseteq Ids /\ Is("other") \subseteq Ids
  <1>1. n # 0 /\ job[n].own = "none"
    BY DEF OwnIds, Ids
  <1>2. n \notin Ours /\ n \notin Is("other")
    BY <1>1 DEF Ours, Is
  <1>3. Ours' = Ours \cup {n}
    BY DEF Ours, Is, OurKinds
  <1>4. Is("other")' = Is("other")
    BY <1>1 DEF Is, OurKinds
  <1>5. In({"success"})' = In({"success"})
    BY DEF In
  <1>6. \A i \in Ids : job'[i].st = "none" <=> job'[i].own = "none"
    BY DEF OwnIds, OurKinds
  <1>7. \A i \in Ids : i # n => (i \in Alive' <=> i \in Alive)
    BY DEF Alive, In
  <1>8. \A i \in Is("other") : job'[i].st \in {"active", "success", "failed"}
    BY <1>2 DEF OwnIds, Is
  <1> QED BY <1>1, <1>2, <1>3, <1>4, <1>5, <1>6, <1>7, <1>8 DEF Ours, Is

LEMMA SubmitPickHolds ==
  ASSUME NzbgetInv, SubmitPick
  PROVE  NzbgetInv'
  <1>0. /\ UNCHANGED <<keyed, exclude, stale, seen, vetoed, rescued, submitted, doomed, cancel,
                      played, slipped>>
        /\ pc = "append"
    BY DEF SubmitPick
  <1>1. CASE /\ Accepted("pick", FALSE)
             /\ pick' = NextId /\ current' = NextId
             /\ Goto(IF keyed THEN "stale" ELSE "tick")
             /\ \E wpc_1 \in {"off"} \cup {w \in {"check"} : keyed} :
                  dupeWorker' = [dupeWorker EXCEPT !.pc = wpc_1]
             /\ UNCHANGED blind
    <2>8. /\ job' \in Table /\ NextId \in Ids /\ job[NextId].st = "none"
          /\ job'[NextId].own = "pick" /\ job'[NextId].st \in {"copy", "active", "parked"}
          /\ \A i \in Ids : i # NextId => job'[i] = job[i]
      BY <1>1, AcceptedOne DEF NzbgetInv, OurKinds
    <2>9. /\ pick' = NextId /\ current' = NextId /\ blind' = blind
          /\ pc' = IF keyed THEN "stale" ELSE "tick"
          /\ dupeWorker' \in DupeWorkers
          /\ dupeWorker'.pc \in {"off", "check"} /\ (~keyed => dupeWorker'.pc = "off")
          /\ dupeWorker'.id = dupeWorker.id
      BY <1>1 DEF DupeWorkers, NzbgetInv, NzbgetTypes, Goto
    <2>10. /\ NextId # 0 /\ NextId \notin Ours /\ Ours' = Ours \cup {NextId}
           /\ Is("other")' = Is("other") /\ NextId \notin Is("other")
           /\ In({"success"})' = In({"success"})
           /\ \A i \in Ids : job'[i].st = "none" <=> job'[i].own = "none"
           /\ \A i \in Ids : i # NextId => (i \in Alive' <=> i \in Alive)
           /\ \A i \in Is("other") : job'[i].st \in {"active", "success", "failed"}
           /\ Ours \subseteq Ids /\ Is("other") \subseteq Ids
      BY <2>8, NewJob DEF NzbgetInv, OurKinds
    <2>1. NzbgetTypes'
      BY <1>0, <2>8, <2>9, <2>10 DEF NzbgetInv, NzbgetTypes, Ids
    <2>2. OwnIds'
      <3> USE DEF NzbgetInv
      <3>1. /\ pick \in Ours' \cup {0} /\ current \in Ours' \cup {0}
            /\ dupeWorker.id \in Ours' \cup {0}
            /\ submitted \subseteq Ours' /\ seen.paused \subseteq Ours'
            /\ doomed \subseteq Ours' \cup {0} /\ NextId \in Ours'
        <4>1. Ours \subseteq Ours' /\ NextId \in Ours'
          BY <2>10
        <4>2. 0 \notin submitted /\ 0 \notin seen.paused
          BY DEF OwnIds, NzbgetTypes, Ids
        <4> QED BY <4>1, <4>2 DEF OwnIds
      <3>2. \A i \in ({pick, current,
      dupeWorker.id} \cup submitted \cup seen.paused \cup doomed)' :
             i # 0 => i \in Ours'
        BY <1>0, <2>9, <3>1
      <3>3. (0 \notin submitted)' /\ (dupeWorker.pc = "record" => dupeWorker.id # 0)'
        BY <1>0, <2>9, <2>10 DEF OwnIds
      <3>4. (\A i \in Ids : job[i].st = "none" <=> job[i].own = "none")'
        BY <2>10
      <3>5. (\A i \in Is("other") : job[i].st \in {"active", "success", "failed"})'
        BY <2>10
      <3> QED BY <3>2, <3>3, <3>4, <3>5 DEF OwnIds
    <2>3. BeforeThePoll'
      BY <1>0, <2>8, <2>9, <2>10 DEF NzbgetInv, BeforeThePoll, NzbgetTypes
    <2>4. KnowsItsJobs'
      <3>1. Ours' = {NextId}
        BY <1>0, <2>10 DEF NzbgetInv, BeforeThePoll
      <3> QED BY <2>9, <3>1 DEF KnowsItsJobs, Owned
    <2>5. OneWithoutKey'
      BY <1>0, <2>8, <2>9, <2>10 DEF NzbgetInv, OneWithoutKey, NzbgetTypes, WorkerOver, OwnIds,
         BeforeThePoll
    <2>6. LooksHold'
      BY <1>0, <2>8, <2>9, <2>10 DEF NzbgetInv, LooksHold, NzbgetTypes, Table, JobStates,
         Queued, In, WorkerOver
    <2>7. CleansUp'
      <3>1. submitted = {}
        BY <1>0 DEF NzbgetInv, BeforeThePoll, OwnIds, NzbgetTypes
      <3>2. pc' \in {"stale", "tick"} /\ submitted' = {}
        BY <1>0, <2>9, <3>1 DEF NzbgetInv, NzbgetTypes
      <3> QED BY <3>2 DEF CleansUp
    <2> QED BY <2>1, <2>2, <2>3, <2>4, <2>5, <2>6, <2>7 DEF NzbgetInv
  <1>2. CASE /\ Goto("refused") /\ UNCHANGED <<pick, current, dupeWorker>>
             /\ UNCHANGED <<job, blind>>
    <2>1. NzbgetTypes'
      BY <1>0, <1>2 DEF Goto, NzbgetInv, NzbgetTypes, Ids, Is, In, Ours, Owned, Alive, Queued,
         OurKinds, WorkerOver, NothingSeen
    <2>2. OwnIds'
      BY <1>0, <1>2 DEF Goto, NzbgetInv, OwnIds, NzbgetTypes, Table, JobStates, Is, In, Ours,
         Owned, Alive, Queued, OurKinds, WorkerOver, NothingSeen
    <2>3. BeforeThePoll'
      BY <1>0, <1>2 DEF Goto, NzbgetInv, BeforeThePoll, NzbgetTypes, Table, JobStates, Is, In,
         Ours, Owned, Alive, Queued, OurKinds, WorkerOver, NothingSeen
    <2>4. KnowsItsJobs'
      BY <1>0, <1>2 DEF Goto, NzbgetInv, KnowsItsJobs, NzbgetTypes, Table, JobStates, Is, In,
         Ours, Owned, Alive, Queued, OurKinds, WorkerOver, NothingSeen
    <2>5. OneWithoutKey'
      BY <1>0, <1>2 DEF Goto, NzbgetInv, OneWithoutKey, NzbgetTypes, Table, JobStates, Is, In,
         Ours, Owned, Alive, Queued, OurKinds, WorkerOver, NothingSeen
    <2>6. LooksHold'
      BY <1>0, <1>2 DEF Goto, NzbgetInv, LooksHold, NzbgetTypes, Table, JobStates, Is, In,
         Ours, Owned, Alive, Queued, OurKinds, WorkerOver, NothingSeen
    <2>7. CleansUp'
      BY <1>0, <1>2 DEF Goto, NzbgetInv, CleansUp, NzbgetTypes, Table, JobStates, Is, In, Ours,
         Owned, Alive, Queued, OurKinds, WorkerOver, NothingSeen
    <2> QED BY <2>1, <2>2, <2>3, <2>4, <2>5, <2>6, <2>7 DEF Goto, NzbgetInv
  <1>3. CASE /\ Goto("refused") /\ UNCHANGED <<pick, current, dupeWorker>>
             /\ Accepted("pick", FALSE) /\ Unanswered
    <2>8. /\ job' \in Table /\ NextId \in Ids /\ job[NextId].st = "none"
          /\ job'[NextId].own = "pick" /\ job'[NextId].st \in {"copy", "active", "parked"}
          /\ \A i \in Ids : i # NextId => job'[i] = job[i]
      BY <1>3, AcceptedOne DEF NzbgetInv, OurKinds
    <2>9. UNCHANGED <<pick, current, dupeWorker>> /\ blind' = TRUE /\ pc' = "refused"
      BY <1>3 DEF Goto, Unanswered
    <2>10. /\ NextId # 0 /\ NextId \notin Ours /\ Ours' = Ours \cup {NextId}
           /\ Is("other")' = Is("other") /\ NextId \notin Is("other")
           /\ In({"success"})' = In({"success"})
           /\ \A i \in Ids : job'[i].st = "none" <=> job'[i].own = "none"
           /\ \A i \in Ids : i # NextId => (i \in Alive' <=> i \in Alive)
           /\ \A i \in Is("other") : job'[i].st \in {"active", "success", "failed"}
           /\ Ours \subseteq Ids /\ Is("other") \subseteq Ids
      BY <2>8, NewJob DEF NzbgetInv, OurKinds
    <2>1. NzbgetTypes'
      BY <1>0, <2>8, <2>9, <2>10 DEF NzbgetInv, NzbgetTypes, Ids
    <2>2. OwnIds'
      <3> USE DEF NzbgetInv
      <3>1. /\ pick \in Ours' \cup {0} /\ current \in Ours' \cup {0}
            /\ dupeWorker.id \in Ours' \cup {0}
            /\ submitted \subseteq Ours' /\ seen.paused \subseteq Ours'
            /\ doomed \subseteq Ours' \cup {0} /\ NextId \in Ours'
        <4>1. Ours \subseteq Ours' /\ NextId \in Ours'
          BY <2>10
        <4>2. 0 \notin submitted /\ 0 \notin seen.paused
          BY DEF OwnIds, NzbgetTypes, Ids
        <4> QED BY <4>1, <4>2 DEF OwnIds
      <3>2. \A i \in ({pick, current,
      dupeWorker.id} \cup submitted \cup seen.paused \cup doomed)' :
             i # 0 => i \in Ours'
        BY <1>0, <2>9, <3>1
      <3>3. (0 \notin submitted)' /\ (dupeWorker.pc = "record" => dupeWorker.id # 0)'
        BY <1>0, <2>9, <2>10 DEF OwnIds
      <3>4. (\A i \in Ids : job[i].st = "none" <=> job[i].own = "none")'
        BY <2>10
      <3>5. (\A i \in Is("other") : job[i].st \in {"active", "success", "failed"})'
        BY <2>10
      <3> QED BY <3>2, <3>3, <3>4, <3>5 DEF OwnIds
    <2>3. BeforeThePoll'
      BY <1>0, <2>8, <2>9, <2>10 DEF NzbgetInv, BeforeThePoll, NzbgetTypes
    <2>4. KnowsItsJobs'
      BY <1>0, <2>8, <2>9, <2>10 DEF NzbgetInv, KnowsItsJobs, Owned, OwnIds, NzbgetTypes
    <2>5. OneWithoutKey'
      BY <1>0, <2>8, <2>9, <2>10 DEF NzbgetInv, OneWithoutKey, NzbgetTypes, WorkerOver, OwnIds,
         BeforeThePoll
    <2>6. LooksHold'
      BY <1>0, <2>8, <2>9, <2>10 DEF NzbgetInv, LooksHold, NzbgetTypes, Table, JobStates,
         Queued, In, WorkerOver
    <2>7. CleansUp'
      BY <1>0, <2>8, <2>9, <2>10 DEF NzbgetInv, CleansUp, NzbgetTypes, OwnIds, Alive, In, Ours
    <2> QED BY <2>1, <2>2, <2>3, <2>4, <2>5, <2>6, <2>7 DEF NzbgetInv
  <1> QED BY <1>1, <1>2, <1>3 DEF SubmitPick

LEMMA RescueHolds ==
  ASSUME NzbgetInv, Rescue
  PROVE  NzbgetInv'
  <1>0. /\ UNCHANGED <<keyed, exclude, stale, seen, vetoed, pick, doomed, cancel, played,
                      dupeWorker, slipped>>
        /\ pc = "decide" /\ rescued' = TRUE
        /\ WorkerOver /\ ~seen.foreign /\ seen.paused = {}
    BY DEF Rescue, PromotionPending, StillSubmitting, WorkerOver
  <1>1. CASE /\ Accepted("rescue", TRUE)
             /\ submitted' = submitted \cup {NextId} /\ current' = NextId
             /\ Goto("tick") /\ UNCHANGED blind
    <2>8. /\ job' \in Table /\ NextId \in Ids /\ job[NextId].st = "none"
          /\ job'[NextId].own = "rescue" /\ job'[NextId].st \in {"copy", "active", "parked"}
          /\ \A i \in Ids : i # NextId => job'[i] = job[i]
      BY <1>1, AcceptedOne DEF NzbgetInv, OurKinds
    <2>9. /\ submitted' = submitted \cup {NextId} /\ current' = NextId /\ blind' = blind
          /\ pc' = "tick"
      BY <1>1 DEF Goto
    <2>10. /\ NextId # 0 /\ NextId \notin Ours /\ Ours' = Ours \cup {NextId}
           /\ Is("other")' = Is("other") /\ NextId \notin Is("other")
           /\ In({"success"})' = In({"success"})
           /\ \A i \in Ids : job'[i].st = "none" <=> job'[i].own = "none"
           /\ \A i \in Ids : i # NextId => (i \in Alive' <=> i \in Alive)
           /\ \A i \in Is("other") : job'[i].st \in {"active", "success", "failed"}
           /\ Ours \subseteq Ids /\ Is("other") \subseteq Ids
      BY <2>8, NewJob DEF NzbgetInv, OurKinds
    <2>1. NzbgetTypes'
      BY <1>0, <2>8, <2>9, <2>10 DEF NzbgetInv, NzbgetTypes, Ids
    <2>2. OwnIds'
      <3> USE DEF NzbgetInv
      <3>1. /\ pick \in Ours' \cup {0} /\ current \in Ours' \cup {0}
            /\ dupeWorker.id \in Ours' \cup {0}
            /\ submitted \subseteq Ours' /\ seen.paused \subseteq Ours'
            /\ doomed \subseteq Ours' \cup {0} /\ NextId \in Ours'
        <4>1. Ours \subseteq Ours' /\ NextId \in Ours'
          BY <2>10
        <4>2. 0 \notin submitted /\ 0 \notin seen.paused
          BY DEF OwnIds, NzbgetTypes, Ids
        <4> QED BY <4>1, <4>2 DEF OwnIds
      <3>2. \A i \in ({pick, current,
      dupeWorker.id} \cup submitted \cup seen.paused \cup doomed)' :
             i # 0 => i \in Ours'
        BY <1>0, <2>9, <3>1
      <3>3. (0 \notin submitted)' /\ (dupeWorker.pc = "record" => dupeWorker.id # 0)'
        BY <1>0, <2>9, <2>10 DEF OwnIds
      <3>4. (\A i \in Ids : job[i].st = "none" <=> job[i].own = "none")'
        BY <2>10
      <3>5. (\A i \in Is("other") : job[i].st \in {"active", "success", "failed"})'
        BY <2>10
      <3> QED BY <3>2, <3>3, <3>4, <3>5 DEF OwnIds
    <2>3. BeforeThePoll'
      BY <1>0, <2>8, <2>9, <2>10 DEF NzbgetInv, BeforeThePoll, NzbgetTypes
    <2>4. KnowsItsJobs'
      BY <1>0, <2>8, <2>9, <2>10 DEF NzbgetInv, KnowsItsJobs, Owned, OwnIds, NzbgetTypes
    <2>5. OneWithoutKey'
      BY <1>0, <2>8, <2>9, <2>10 DEF NzbgetInv, OneWithoutKey, NzbgetTypes, WorkerOver, OwnIds,
         BeforeThePoll
    <2>6. LooksHold'
      BY <1>0, <2>8, <2>9, <2>10 DEF NzbgetInv, LooksHold, NzbgetTypes, Table, JobStates,
         Queued, In, WorkerOver
    <2>7. CleansUp'
      <3>1. dupeWorker'.pc # "check"
        BY <1>0 DEF WorkerOver
      <3> QED BY <2>9, <3>1 DEF CleansUp
    <2> QED BY <2>1, <2>2, <2>3, <2>4, <2>5, <2>6, <2>7 DEF NzbgetInv
  <1>2. CASE /\ Goto("failed") /\ UNCHANGED <<submitted, current>>
             /\ UNCHANGED <<job, blind>>
    <2>1. NzbgetTypes'
      BY <1>0, <1>2 DEF Goto, NzbgetInv, NzbgetTypes, Ids, Is, In, Ours, Owned, Alive, Queued,
         OurKinds, WorkerOver, NothingSeen
    <2>2. OwnIds'
      BY <1>0, <1>2 DEF Goto, NzbgetInv, OwnIds, NzbgetTypes, Table, JobStates, Is, In, Ours,
         Owned, Alive, Queued, OurKinds, WorkerOver, NothingSeen
    <2>3. BeforeThePoll'
      BY <1>0, <1>2 DEF Goto, NzbgetInv, BeforeThePoll, NzbgetTypes, Table, JobStates, Is, In,
         Ours, Owned, Alive, Queued, OurKinds, WorkerOver, NothingSeen
    <2>4. KnowsItsJobs'
      BY <1>0, <1>2 DEF Goto, NzbgetInv, KnowsItsJobs, NzbgetTypes, Table, JobStates, Is, In,
         Ours, Owned, Alive, Queued, OurKinds, WorkerOver, NothingSeen
    <2>5. OneWithoutKey'
      BY <1>0, <1>2 DEF Goto, NzbgetInv, OneWithoutKey, NzbgetTypes, Table, JobStates, Is, In,
         Ours, Owned, Alive, Queued, OurKinds, WorkerOver, NothingSeen
    <2>6. LooksHold'
      BY <1>0, <1>2 DEF Goto, NzbgetInv, LooksHold, NzbgetTypes, Table, JobStates, Is, In,
         Ours, Owned, Alive, Queued, OurKinds, WorkerOver, NothingSeen
    <2>7. CleansUp'
      BY <1>0, <1>2 DEF Goto, NzbgetInv, CleansUp, NzbgetTypes, Table, JobStates, Is, In, Ours,
         Owned, Alive, Queued, OurKinds, WorkerOver, NothingSeen
    <2> QED BY <2>1, <2>2, <2>3, <2>4, <2>5, <2>6, <2>7 DEF Goto, NzbgetInv
  <1>3. CASE /\ Goto("failed") /\ UNCHANGED <<submitted, current>>
             /\ Accepted("rescue", TRUE) /\ Unanswered
    <2>8. /\ job' \in Table /\ NextId \in Ids /\ job[NextId].st = "none"
          /\ job'[NextId].own = "rescue" /\ job'[NextId].st \in {"copy", "active", "parked"}
          /\ \A i \in Ids : i # NextId => job'[i] = job[i]
      BY <1>3, AcceptedOne DEF NzbgetInv, OurKinds
    <2>9. UNCHANGED <<submitted, current>> /\ blind' = TRUE /\ pc' = "failed"
      BY <1>3 DEF Goto, Unanswered
    <2>10. /\ NextId # 0 /\ NextId \notin Ours /\ Ours' = Ours \cup {NextId}
           /\ Is("other")' = Is("other") /\ NextId \notin Is("other")
           /\ In({"success"})' = In({"success"})
           /\ \A i \in Ids : job'[i].st = "none" <=> job'[i].own = "none"
           /\ \A i \in Ids : i # NextId => (i \in Alive' <=> i \in Alive)
           /\ \A i \in Is("other") : job'[i].st \in {"active", "success", "failed"}
           /\ Ours \subseteq Ids /\ Is("other") \subseteq Ids
      BY <2>8, NewJob DEF NzbgetInv, OurKinds
    <2>1. NzbgetTypes'
      BY <1>0, <2>8, <2>9, <2>10 DEF NzbgetInv, NzbgetTypes, Ids
    <2>2. OwnIds'
      <3> USE DEF NzbgetInv
      <3>1. /\ pick \in Ours' \cup {0} /\ current \in Ours' \cup {0}
            /\ dupeWorker.id \in Ours' \cup {0}
            /\ submitted \subseteq Ours' /\ seen.paused \subseteq Ours'
            /\ doomed \subseteq Ours' \cup {0} /\ NextId \in Ours'
        <4>1. Ours \subseteq Ours' /\ NextId \in Ours'
          BY <2>10
        <4>2. 0 \notin submitted /\ 0 \notin seen.paused
          BY DEF OwnIds, NzbgetTypes, Ids
        <4> QED BY <4>1, <4>2 DEF OwnIds
      <3>2. \A i \in ({pick, current,
      dupeWorker.id} \cup submitted \cup seen.paused \cup doomed)' :
             i # 0 => i \in Ours'
        BY <1>0, <2>9, <3>1
      <3>3. (0 \notin submitted)' /\ (dupeWorker.pc = "record" => dupeWorker.id # 0)'
        BY <1>0, <2>9, <2>10 DEF OwnIds
      <3>4. (\A i \in Ids : job[i].st = "none" <=> job[i].own = "none")'
        BY <2>10
      <3>5. (\A i \in Is("other") : job[i].st \in {"active", "success", "failed"})'
        BY <2>10
      <3> QED BY <3>2, <3>3, <3>4, <3>5 DEF OwnIds
    <2>3. BeforeThePoll'
      BY <1>0, <2>8, <2>9, <2>10 DEF NzbgetInv, BeforeThePoll, NzbgetTypes
    <2>4. KnowsItsJobs'
      BY <1>0, <2>8, <2>9, <2>10 DEF NzbgetInv, KnowsItsJobs, Owned, OwnIds, NzbgetTypes
    <2>5. OneWithoutKey'
      BY <1>0, <2>8, <2>9, <2>10 DEF NzbgetInv, OneWithoutKey, NzbgetTypes, WorkerOver, OwnIds,
         BeforeThePoll
    <2>6. LooksHold'
      BY <1>0, <2>8, <2>9, <2>10 DEF NzbgetInv, LooksHold, NzbgetTypes, Table, JobStates,
         Queued, In, WorkerOver
    <2>7. CleansUp'
      BY <1>0, <2>8, <2>9, <2>10 DEF NzbgetInv, CleansUp, NzbgetTypes, OwnIds, Alive, In, Ours
    <2> QED BY <2>1, <2>2, <2>3, <2>4, <2>5, <2>6, <2>7 DEF NzbgetInv
  <1> QED BY <1>1, <1>2, <1>3 DEF Rescue

LEMMA WorkerAppendHolds ==
  ASSUME NzbgetInv, WorkerAppend
  PROVE  NzbgetInv'
  <1>0. /\ UNCHANGED <<keyed, pc, current, exclude, stale, seen, vetoed, rescued, pick, doomed,
                      cancel, played, submitted, slipped>>
        /\ dupeWorker.pc = "append"
    BY DEF WorkerAppend, DupeWorkerUnchanged, resolver, poll
  <1>1. CASE /\ Accepted("backup", FALSE)
             /\ Work("record", [dupeWorker EXCEPT !.id = NextId]) /\ UNCHANGED blind
    <2>8. /\ job' \in Table /\ NextId \in Ids /\ job[NextId].st = "none"
          /\ job'[NextId].own = "backup" /\ job'[NextId].st \in {"copy", "active", "parked"}
          /\ \A i \in Ids : i # NextId => job'[i] = job[i]
      BY <1>1, AcceptedOne DEF NzbgetInv, OurKinds
    <2>9. /\ dupeWorker' \in DupeWorkers
          /\ dupeWorker'.pc = "record" /\ dupeWorker'.id = NextId /\ blind' = blind
      BY <1>1, <2>8 DEF DupeWorkers, NzbgetInv, NzbgetTypes, Work
    <2>10. /\ NextId # 0 /\ NextId \notin Ours /\ Ours' = Ours \cup {NextId}
           /\ Is("other")' = Is("other") /\ NextId \notin Is("other")
           /\ In({"success"})' = In({"success"})
           /\ \A i \in Ids : job'[i].st = "none" <=> job'[i].own = "none"
           /\ \A i \in Ids : i # NextId => (i \in Alive' <=> i \in Alive)
           /\ \A i \in Is("other") : job'[i].st \in {"active", "success", "failed"}
           /\ Ours \subseteq Ids /\ Is("other") \subseteq Ids
      BY <2>8, NewJob DEF NzbgetInv, OurKinds
    <2>1. NzbgetTypes'
      BY <1>0, <2>8, <2>9, <2>10 DEF NzbgetInv, NzbgetTypes, Ids
    <2>2. OwnIds'
      <3> USE DEF NzbgetInv
      <3>1. /\ pick \in Ours' \cup {0} /\ current \in Ours' \cup {0}
            /\ dupeWorker.id \in Ours' \cup {0}
            /\ submitted \subseteq Ours' /\ seen.paused \subseteq Ours'
            /\ doomed \subseteq Ours' \cup {0} /\ NextId \in Ours'
        <4>1. Ours \subseteq Ours' /\ NextId \in Ours'
          BY <2>10
        <4>2. 0 \notin submitted /\ 0 \notin seen.paused
          BY DEF OwnIds, NzbgetTypes, Ids
        <4> QED BY <4>1, <4>2 DEF OwnIds
      <3>2. \A i \in ({pick, current,
      dupeWorker.id} \cup submitted \cup seen.paused \cup doomed)' :
             i # 0 => i \in Ours'
        BY <1>0, <2>9, <3>1
      <3>3. (0 \notin submitted)' /\ (dupeWorker.pc = "record" => dupeWorker.id # 0)'
        BY <1>0, <2>9, <2>10 DEF OwnIds
      <3>4. (\A i \in Ids : job[i].st = "none" <=> job[i].own = "none")'
        BY <2>10
      <3>5. (\A i \in Is("other") : job[i].st \in {"active", "success", "failed"})'
        BY <2>10
      <3> QED BY <3>2, <3>3, <3>4, <3>5 DEF OwnIds
    <2>3. BeforeThePoll'
      <3>1. pc \notin {"reuse", "append"}
        BY <1>0 DEF NzbgetInv, BeforeThePoll
      <3>2. played # 0 => job'[played] = job[played]
        BY <2>8 DEF NzbgetInv, BeforeThePoll, NzbgetTypes
      <3> QED BY <1>0, <2>10, <3>1, <3>2 DEF NzbgetInv, BeforeThePoll
    <2>4. KnowsItsJobs'
      BY <1>0, <2>8, <2>9, <2>10 DEF NzbgetInv, KnowsItsJobs, Owned, OwnIds, NzbgetTypes
    <2>5. OneWithoutKey'
      BY <1>0, <2>8, <2>9, <2>10 DEF NzbgetInv, OneWithoutKey, NzbgetTypes, WorkerOver, OwnIds,
         BeforeThePoll
    <2>6. LooksHold'
      BY <1>0, <2>8, <2>9, <2>10 DEF NzbgetInv, LooksHold, NzbgetTypes, Table, JobStates,
         Queued, In, WorkerOver
    <2>7. CleansUp'
      BY <1>0, <2>8, <2>9, <2>10 DEF NzbgetInv, CleansUp, NzbgetTypes, OwnIds, Alive, In, Ours
    <2> QED BY <2>1, <2>2, <2>3, <2>4, <2>5, <2>6, <2>7 DEF NzbgetInv
  <1>2. CASE Work("next", dupeWorker) /\ UNCHANGED <<job, blind>>
    <2>9. /\ dupeWorker' \in DupeWorkers
          /\ dupeWorker'.pc = "next" /\ dupeWorker'.id = dupeWorker.id
          /\ UNCHANGED <<job, blind>>
      BY <1>2 DEF DupeWorkers, NzbgetInv, NzbgetTypes, Work
    <2>1. NzbgetTypes'
      BY <1>0, <2>9 DEF NzbgetInv, NzbgetTypes, Ids, Is, In, Ours, Owned, Alive, Queued,
         OurKinds, WorkerOver, NothingSeen
    <2>2. OwnIds'
      BY <1>0, <2>9 DEF NzbgetInv, OwnIds, NzbgetTypes, Table, JobStates, Is, In, Ours, Owned,
         Alive, Queued, OurKinds, WorkerOver, NothingSeen
    <2>3. BeforeThePoll'
      BY <1>0, <2>9 DEF NzbgetInv, BeforeThePoll, NzbgetTypes, Table, JobStates, Is, In, Ours,
         Owned, Alive, Queued, OurKinds, WorkerOver, NothingSeen
    <2>4. KnowsItsJobs'
      BY <1>0, <2>9 DEF NzbgetInv, KnowsItsJobs, NzbgetTypes, Table, JobStates, Is, In, Ours,
         Owned, Alive, Queued, OurKinds, WorkerOver, NothingSeen
    <2>5. OneWithoutKey'
      BY <1>0, <2>9 DEF NzbgetInv, OneWithoutKey, NzbgetTypes, Table, JobStates, Is, In, Ours,
         Owned, Alive, Queued, OurKinds, WorkerOver, NothingSeen
    <2>6. LooksHold'
      BY <1>0, <2>9 DEF NzbgetInv, LooksHold, NzbgetTypes, Table, JobStates, Is, In, Ours,
         Owned, Alive, Queued, OurKinds, WorkerOver, NothingSeen
    <2>7. CleansUp'
      BY <1>0, <2>9 DEF NzbgetInv, CleansUp, NzbgetTypes, Table, JobStates, Is, In, Ours,
         Owned, Alive, Queued, OurKinds, WorkerOver, NothingSeen
    <2> QED BY <2>1, <2>2, <2>3, <2>4, <2>5, <2>6, <2>7 DEF NzbgetInv
  <1>3. CASE Work("next", dupeWorker) /\ Accepted("backup", FALSE) /\ Unanswered
    <2>8. /\ job' \in Table /\ NextId \in Ids /\ job[NextId].st = "none"
          /\ job'[NextId].own = "backup" /\ job'[NextId].st \in {"copy", "active", "parked"}
          /\ \A i \in Ids : i # NextId => job'[i] = job[i]
      BY <1>3, AcceptedOne DEF NzbgetInv, OurKinds
    <2>9. /\ dupeWorker' \in DupeWorkers
          /\ dupeWorker'.pc = "next" /\ dupeWorker'.id = dupeWorker.id /\ blind' = TRUE
      BY <1>3 DEF DupeWorkers, NzbgetInv, NzbgetTypes, Work, Unanswered
    <2>10. /\ NextId # 0 /\ NextId \notin Ours /\ Ours' = Ours \cup {NextId}
           /\ Is("other")' = Is("other") /\ NextId \notin Is("other")
           /\ In({"success"})' = In({"success"})
           /\ \A i \in Ids : job'[i].st = "none" <=> job'[i].own = "none"
           /\ \A i \in Ids : i # NextId => (i \in Alive' <=> i \in Alive)
           /\ \A i \in Is("other") : job'[i].st \in {"active", "success", "failed"}
           /\ Ours \subseteq Ids /\ Is("other") \subseteq Ids
      BY <2>8, NewJob DEF NzbgetInv, OurKinds
    <2>1. NzbgetTypes'
      BY <1>0, <2>8, <2>9, <2>10 DEF NzbgetInv, NzbgetTypes, Ids
    <2>2. OwnIds'
      <3> USE DEF NzbgetInv
      <3>1. /\ pick \in Ours' \cup {0} /\ current \in Ours' \cup {0}
            /\ dupeWorker.id \in Ours' \cup {0}
            /\ submitted \subseteq Ours' /\ seen.paused \subseteq Ours'
            /\ doomed \subseteq Ours' \cup {0} /\ NextId \in Ours'
        <4>1. Ours \subseteq Ours' /\ NextId \in Ours'
          BY <2>10
        <4>2. 0 \notin submitted /\ 0 \notin seen.paused
          BY DEF OwnIds, NzbgetTypes, Ids
        <4> QED BY <4>1, <4>2 DEF OwnIds
      <3>2. \A i \in ({pick, current,
      dupeWorker.id} \cup submitted \cup seen.paused \cup doomed)' :
             i # 0 => i \in Ours'
        BY <1>0, <2>9, <3>1
      <3>3. (0 \notin submitted)' /\ (dupeWorker.pc = "record" => dupeWorker.id # 0)'
        BY <1>0, <2>9, <2>10 DEF OwnIds
      <3>4. (\A i \in Ids : job[i].st = "none" <=> job[i].own = "none")'
        BY <2>10
      <3>5. (\A i \in Is("other") : job[i].st \in {"active", "success", "failed"})'
        BY <2>10
      <3> QED BY <3>2, <3>3, <3>4, <3>5 DEF OwnIds
    <2>3. BeforeThePoll'
      <3>1. pc \notin {"reuse", "append"}
        BY <1>0 DEF NzbgetInv, BeforeThePoll
      <3>2. played # 0 => job'[played] = job[played]
        BY <2>8 DEF NzbgetInv, BeforeThePoll, NzbgetTypes
      <3> QED BY <1>0, <2>10, <3>1, <3>2 DEF NzbgetInv, BeforeThePoll
    <2>4. KnowsItsJobs'
      BY <1>0, <2>8, <2>9, <2>10 DEF NzbgetInv, KnowsItsJobs, Owned, OwnIds, NzbgetTypes
    <2>5. OneWithoutKey'
      BY <1>0, <2>8, <2>9, <2>10 DEF NzbgetInv, OneWithoutKey, NzbgetTypes, WorkerOver, OwnIds,
         BeforeThePoll
    <2>6. LooksHold'
      BY <1>0, <2>8, <2>9, <2>10 DEF NzbgetInv, LooksHold, NzbgetTypes, Table, JobStates,
         Queued, In, WorkerOver
    <2>7. CleansUp'
      BY <1>0, <2>8, <2>9, <2>10 DEF NzbgetInv, CleansUp, NzbgetTypes, OwnIds, Alive, In, Ours
    <2> QED BY <2>1, <2>2, <2>3, <2>4, <2>5, <2>6, <2>7 DEF NzbgetInv
  <1> QED BY <1>1, <1>2, <1>3 DEF WorkerAppend

LEMMA NzbgetInvInit == NzbgetInit => NzbgetInv
  <1> SUFFICES ASSUME NzbgetInit PROVE NzbgetInv
    OBVIOUS
  <1> USE DEF NzbgetInit
  <1>1. PICK first \in {NoJob} \cup [st : {"active", "success"}, own : {"other"}] :
          job = [i \in Ids |-> IF i = 1 THEN first ELSE NoJob]
    OBVIOUS
  <1>2. /\ job \in Table
        /\ \A i \in Ids : /\ job[i].own \in {"none", "other"}
                          /\ job[i].st = "none" <=> job[i].own = "none"
                          /\ job[i].own = "other" => job[i].st \in {"active", "success"}
    BY <1>1 DEF NoJob, Table, JobStates
  <1>3. NzbgetTypes
    BY <1>2, BoundsAssumption DEF DupeWorkers, NzbgetTypes, NothingSeen
  <1>4. Ours = {}
    BY <1>2 DEF Ours, Is
  <1>5. OwnIds /\ BeforeThePoll
    BY <1>2, <1>4 DEF OwnIds, BeforeThePoll, Is, In, NothingSeen
  <1>6. KnowsItsJobs /\ OneWithoutKey /\ LooksHold /\ CleansUp
    BY <1>4 DEF KnowsItsJobs, OneWithoutKey, LooksHold, CleansUp
  <1> QED BY <1>3, <1>5, <1>6 DEF NzbgetInv

LEMMA NzbgetInvStep == NzbgetInv /\ [NzbgetNext]_nzbgetVars => NzbgetInv'
  <1> SUFFICES ASSUME NzbgetInv, [NzbgetNext]_nzbgetVars PROVE NzbgetInv'
    OBVIOUS
  <1>1. CASE Nzbget
    BY <1>1, EndsHolds, ResumesHolds DEF Nzbget
  <1>2. CASE NzbgetResolver
    BY <1>2, ReuseHolds, SubmitPickHolds, TakeStaleHolds, PollTrackedHolds, FollowSuccessHolds,
       AdoptHolds, ScanHolds, LookAgainHolds, RescueHolds, GiveUpHolds, TimeOutHolds,
       ListShareHolds, CancelHolds, SetCancelHolds, CancelHistoryHolds, CancelQueueHolds
       DEF NzbgetResolver
  <1>3. CASE DupeWorker
    BY <1>3, WorkerCheckHolds, WorkerNextHolds, WorkerAppendHolds, WorkerRecordHolds,
       WorkerDrainHolds, WorkerHistoryHolds, WorkerQueueHolds DEF DupeWorker
  <1>4. CASE UNCHANGED nzbgetVars
    BY <1>4 DEF nzbgetVars, nzbget, resolver, poll, history, NzbgetInv, NzbgetTypes, OwnIds,
       BeforeThePoll, KnowsItsJobs, OneWithoutKey, LooksHold, CleansUp, Is, In, Ours, Owned,
       Alive, Queued, WorkerOver
  <1> QED BY <1>1, <1>2, <1>3, <1>4 DEF NzbgetNext

\* What the invariant says of a play that is over.
LEMMA NzbgetPromises == NzbgetInv => NoDupeLeft /\ FailedIsExhausted /\ OthersLeftAlone
  <1> SUFFICES ASSUME NzbgetInv PROVE NoDupeLeft /\ FailedIsExhausted /\ OthersLeftAlone
    OBVIOUS
  <1> USE DEF NzbgetInv
  <1>1. NoDupeLeft
    <2> SUFFICES ASSUME pc = "canceled", WorkerOver, ~blind, ~slipped, NEW i \in Ours
                 PROVE  i \notin Alive
      BY DEF NoDupeLeft
    <2>1. i \in {pick} \cup submitted
      BY DEF KnowsItsJobs, Owned, WorkerOver
    <2>2. CASE i \in doomed
      BY <2>2 DEF CleansUp
    <2>3. CASE i \in submitted \ doomed
      BY <2>3 DEF CleansUp, WorkerOver
    <2> QED BY <2>1, <2>2, <2>3 DEF CleansUp
  <1>2. FailedIsExhausted
    <2> SUFFICES ASSUME pc = "failed", ~blind, ~slipped
                 PROVE  Ours \cap Queued = {} /\ (keyed => In({"success"}) \subseteq stale)
      BY DEF FailedIsExhausted
    <2>1. CASE keyed
      BY <2>1 DEF LooksHold
    <2>2. CASE ~keyed
      BY <2>2 DEF OneWithoutKey, Alive, Queued, In
    <2> QED BY <2>1, <2>2
  <1>3. OthersLeftAlone
    BY DEF OthersLeftAlone, OwnIds, BeforeThePoll, In
  <1> QED BY <1>1, <1>2, <1>3

(***************************************************************************)
(* Both backends.                                                          *)
(***************************************************************************)
Inv ==
  /\ backend \in {"nzbdav", "nzbget"}
  /\ backend = "nzbdav" => BackupInv
  /\ backend = "nzbget" => NzbgetInv

LEMMA Invariance == Init /\ [][Next]_vars => []Inv
  <1>1. Init => Inv
    BY BackupInvInit, NzbgetInvInit DEF Init, Inv
  <1>2. Inv /\ [Next]_vars => Inv'
    <2> SUFFICES ASSUME Inv, [Next]_vars PROVE Inv'
      OBVIOUS
    <2>1. CASE backend = "nzbdav"
      <3>1. UNCHANGED backend /\ [BackupNext]_backupVars
        BY <2>1 DEF Next, vars
      <3> QED BY <2>1, <3>1, BackupInvStep DEF Inv
    <2>2. CASE backend = "nzbget"
      <3>1. UNCHANGED backend /\ [NzbgetNext]_nzbgetVars
        BY <2>2 DEF Next, vars
      <3> QED BY <2>2, <3>1, NzbgetInvStep DEF Inv
    <2> QED BY <2>1, <2>2 DEF Inv
  <1> QED BY <1>1, <1>2, PTL

\* The variables of the worker in charge stay in their domains, resolver_fallback.py and
\* nzbget_resolver.py, for any candidates, lists, number of jobs and delay.
THEOREM TypeCorrect ==
  Init /\ [][Next]_vars =>
    []((backend = "nzbdav" => BackupTypes) /\ (backend = "nzbget" => NzbgetTypes))
  <1>1. Inv => (backend = "nzbdav" => BackupTypes) /\ (backend = "nzbget" => NzbgetTypes)
    BY DEF Inv, BackupInv, NzbgetInv
  <1> QED BY <1>1, Invariance, PTL

\* _append_job and _stop_fallback_submit_worker, resolver_fallback*.py: once a refused
\* play and its worker are through, no download the worker asked for runs on.
THEOREM RefusedLeavesNothing == Init /\ [][Next]_vars => []NzbdavNoOrphans
  <1>1. Inv => NzbdavNoOrphans
    BY BackupPromises DEF Inv, NzbdavNoOrphans
  <1> QED BY <1>1, Invariance, PTL

\* _arm_live_fallback_push, resolver_playback.py: the session of a play that was handed
\* over was sent every backup recorded before, while and after the hook was set.
THEOREM SessionIsSentAll == Init /\ [][Next]_vars => []NzbdavSessionHasBackups
  <1>1. Inv => NzbdavSessionHasBackups
    BY BackupPromises DEF Inv, NzbdavSessionHasBackups
  <1> QED BY <1>1, Invariance, PTL

\* _prewarm_playback_latch, resolver_fallback.py: a worker gives up in its delay only when
\* its play is over or was started over another, and asks for nothing once it read the
\* flag up and then down.
THEOREM DelayIsHeeded == Init /\ [][Next]_vars => []NzbdavDelayHeedsPlayback
  <1>1. Inv => NzbdavDelayHeedsPlayback
    BY BackupPromises DEF Inv, NzbdavDelayHeedsPlayback
  <1> QED BY <1>1, Invariance, PTL

\* The cancel of nzbget_resolver*.py and the worker's drain: nothing of a cancelled play
\* is left to run in NZBGet, whichever append was on its way.
THEOREM CancelledLeavesNothing == Init /\ [][Next]_vars => []NzbgetNoOrphans
  <1>1. Inv => NzbgetNoOrphans
    BY NzbgetPromises DEF Inv, NzbgetNoOrphans
  <1> QED BY <1>1, Invariance, PTL

\* The group poll of nzbget_resolver.py: a play is failed only when its group has nothing
\* queued and nothing new that is done.
THEOREM FailsLast == Init /\ [][Next]_vars => []NzbgetFailedIsExhausted
  <1>1. Inv => NzbgetFailedIsExhausted
    BY NzbgetPromises DEF Inv, NzbgetFailedIsExhausted
  <1> QED BY <1>1, Invariance, PTL

\* _owned_nzbid and _preexisting_success_ids, nzbget_resolver.py: the other client's job is
\* neither deleted nor taken for this play's.
THEOREM OthersAreSafe == Init /\ [][Next]_vars => []NzbgetOthersLeftAlone
  <1>1. Inv => NzbgetOthersLeftAlone
    BY NzbgetPromises DEF Inv, NzbgetOthersLeftAlone
  <1> QED BY <1>1, Invariance, PTL
==============================================================================
