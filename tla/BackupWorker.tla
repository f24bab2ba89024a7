---------------------------- MODULE BackupWorker ----------------------------
(***************************************************************************)
(* The backup uploads of one play (resolver_fallback*.py): a daemon thread *)
(* of the plugin process waits for playback to start and then for the      *)
(* configured delay, asks nzbdav for one job per candidate, and hands each *)
(* job to the proxy session of the play.  The resolver thread hands the    *)
(* play over, or refuses it and withdraws the backups.  Every step of one  *)
(* thread may fall between two steps of the other.                         *)
(***************************************************************************)
EXTENDS Naturals, FiniteSets, SequencesExt

CONSTANTS
  Candidates,   \* the other uploads of the release
  Offers,       \* the candidate lists the lookup may answer with
  Primary,      \* the candidate that is the upload being played, or none
  MaxTicks      \* polls of the prewarm delay

ASSUME OffersAssumption ==
  /\ Offers \subseteq Seq(Candidates)
  /\ \A o \in Offers : \A i, k \in 1 .. Len(o) : o[i] = o[k] => i = k
ASSUME TicksAssumption == MaxTicks \in Nat

VARIABLES
  wpc, todo,       \* the worker: where it is, the candidates still to do
  existing,        \* jobs it found by name before it submitted any
  ticks, seenLive, \* the prewarm delay and its latch
  recorded,        \* state["jobs"]: candidate -> was its job pending when recorded
  rpc,             \* the resolver thread
  stop, started, hook,  \* the events and the hook of the shared state
  dead,            \* DeadCandidates
  playing,         \* the play: not yet, yes, no more
  flag,            \* nzbdav.playing, the service's liveness flag
  earlier,         \* a play that was on before this one: none, still on, stopped
  nzbdav,          \* candidate -> its job in nzbdav
  asked,           \* candidates nzbdav made a job of for this worker
  taking,          \* pushes under way: pusher -> the jobs it copied, or none
  session,         \* the fallback sources the proxy session was sent
  excused,         \* jobs nobody can cancel: id not learnt, cancel unanswered (history)
  missed,          \* a push did not arrive (history)
  heard,           \* what the readings of the flag amount to (history)
  quit             \* the worker gave up in its delay, its play not stopped (history)

shared == <<recorded, stop, started, hook, dead>>
worker == <<wpc, todo, existing, ticks, seenLive, heard, quit>>
world == <<playing, flag, earlier, nzbdav, asked>>
backupVars == <<worker, rpc, shared, world, taking, session, excused, missed>>

NoJobs == [c \in {} |-> FALSE]
NoPush == {"none"}
Pushers == {"worker", "resolver"}
Live(c) == nzbdav[c] = "queued"
InHistory(c) == nzbdav[c] = "done"

BackupInit ==
  /\ wpc \in {"await", "done"}  \* no list and no lookup, or no thread to be had
  /\ todo = <<>> /\ existing = {} /\ ticks = 0 /\ seenLive = FALSE
  /\ recorded = NoJobs
  /\ rpc = "poll"
  /\ stop = FALSE /\ started = FALSE /\ hook = FALSE /\ dead = {}
  /\ playing = "before"
  /\ \/ earlier = "none" /\ flag = FALSE
     \/ earlier = "on" /\ flag = TRUE
  /\ nzbdav \in [Candidates -> {"none", "queued", "done"}]
  /\ asked = {} /\ taking = [p \in Pushers |-> NoPush]
  /\ session = {} /\ excused = {} /\ missed = FALSE
  /\ heard = "nothing" /\ quit = FALSE

-----------------------------------------------------------------------------
(* nzbdav and the service. *)

OutsideUnchanged == UNCHANGED <<worker, rpc, shared, asked, taking, session, excused, missed>>

JobEnds(c) ==
  /\ Live(c)
  /\ nzbdav' = [nzbdav EXCEPT ![c] = "done"]
  /\ UNCHANGED <<playing, flag, earlier>> /\ OutsideUnchanged

\* The service takes the play up and the flag with it; the flag is cleared when the
\* play ends, and also when an earlier one stops over which this one was started;
\* later plays raise and clear it as well.
PlaybackRuns ==
  /\ rpc = "over"
  /\ \/ playing = "before" /\ playing' = "yes" /\ flag' = TRUE
     \/ playing = "yes" /\ playing' = "ended" /\ flag' = FALSE
     \/ playing = "ended" /\ flag' = ~flag /\ UNCHANGED playing
  /\ UNCHANGED <<nzbdav, earlier>> /\ OutsideUnchanged
EarlierStops ==
  /\ earlier = "on" /\ earlier' = "stopped"
  /\ flag' = FALSE
  /\ UNCHANGED <<playing, nzbdav>> /\ OutsideUnchanged

-----------------------------------------------------------------------------
(* Cancelling. *)

\* A job recorded as finished is left alone; for the others nzbdav is asked, and
\* may not answer.
Pending(c) == recorded[c]
CancelJobs(cs) ==
  \E answered \in SUBSET cs :
    /\ nzbdav' = [c \in Candidates |-> IF c \in answered /\ Live(c) THEN "gone" ELSE nzbdav[c]]
    /\ excused' = excused \cup (cs \ answered)
CancelRecorded == CancelJobs({c \in DOMAIN recorded : Pending(c)})

-----------------------------------------------------------------------------
(* The worker. *)

WorkerUnchanged == UNCHANGED <<rpc, stop, started, hook, playing, flag, earlier>>
OnlyMoves(to) ==
  /\ wpc' = to
  /\ UNCHANGED <<todo, existing, recorded, dead, nzbdav, asked, taking, session, excused, missed>>

WaitUnchanged == UNCHANGED <<ticks, seenLive, heard, quit>>

\* Playback has started, the play is over, or it takes too long.
AwaitPlayback ==
  /\ wpc = "await"
  /\ \/ stop /\ ~started /\ OnlyMoves("done")
     \/ ~stop /\ OnlyMoves("prewarm")
     \/ started /\ OnlyMoves("prewarm")
  /\ WaitUnchanged /\ WorkerUnchanged

\* One second of the delay: the play's own stop, then the service's flag, which
\* counts as over only once it was seen up; the flag may be unreadable.
SeenOverUnlatched == ~flag
SeenOver == ~flag /\ seenLive
Heard == IF flag THEN "live" ELSE IF heard = "live" THEN "over" ELSE heard
Prewarm ==
  /\ wpc = "prewarm"
  /\ IF ticks = MaxTicks
     THEN (IF MaxTicks = 0 /\ stop THEN OnlyMoves("done") ELSE OnlyMoves("load"))
          /\ WaitUnchanged
     ELSE \/ stop /\ OnlyMoves("done") /\ WaitUnchanged
          \/ /\ ~stop
             /\ ticks' = ticks + 1 /\ OnlyMoves("prewarm") /\ UNCHANGED <<seenLive, heard, quit>>
          \/ /\ ~stop
             /\ ticks' = ticks + 1
             /\ heard' = Heard
             /\ IF SeenOver THEN OnlyMoves("done") /\ quit' = TRUE /\ UNCHANGED seenLive
                ELSE OnlyMoves("prewarm") /\ seenLive' = (seenLive \/ flag) /\ UNCHANGED quit
  /\ WorkerUnchanged

Moves(to) == wpc' = to /\ WaitUnchanged /\ WorkerUnchanged

\* A candidate that is known to be dead, or is the upload being played, is no
\* backup.
NoBackup(c) == c \in dead \/ c = Primary

\* The others, in the order of the offer.
InOrderOf(offer, list) ==
  \A i, k \in DOMAIN list : i < k =>
    \E a, b \in DOMAIN offer : a < b /\ offer[a] = list[i] /\ offer[b] = list[k]
Kept(offer) ==
  {list \in SeqOf(Candidates, Len(offer)) :
     /\ ToSet(list) = {c \in ToSet(offer) : ~NoBackup(c)}
     /\ InOrderOf(offer, list)}

\* The lookup answers with a list, or with none because it is off or failed.
LoadCandidates ==
  /\ wpc = "load"
  /\ \/ /\ ~stop
        /\ \E offer \in Offers :
             /\ offer # <<>> /\ Moves("look")
             /\ todo' \in Kept(offer)
     \/ Moves("done") /\ UNCHANGED todo
  /\ UNCHANGED <<existing, recorded, dead, nzbdav, asked, taking, session, excused, missed>>

\* One look at history and queue for all names; either may fail and find nothing.
FindExisting ==
  /\ wpc = "look"
  /\ existing' \in SUBSET {c \in Candidates : Live(c) \/ InHistory(c)}
  /\ Moves("next")
  /\ UNCHANGED <<todo, recorded, dead, nzbdav, asked, taking, session, excused, missed>>

\* The next candidate: take over the job it has, or ask for one.
NextCandidate ==
  /\ wpc = "next"
  /\ \/ (stop \/ todo = <<>>) /\ Moves("done")
     \/ ~stop /\ todo # <<>> /\ Head(todo) \in existing /\ Moves("record")
     \/ ~stop /\ todo # <<>> /\ Head(todo) \notin existing /\ Moves("asking")
  /\ UNCHANGED <<todo, existing, recorded, dead, nzbdav, asked, taking, session, excused,
                 missed>>

\* submit_nzb: accepted; refused for good or for now; or timed out, taken or not,
\* when one look for the job may still find it.
Submitted ==
  /\ wpc = "asking"
  /\ LET c == Head(todo)
         Taken == nzbdav' = [nzbdav EXCEPT ![c] = "queued"] /\ asked' = asked \cup {c}
         Refused == UNCHANGED <<nzbdav, asked>> IN
     \/ Taken /\ Moves("record") /\ UNCHANGED <<todo, dead, excused>>
     \/ /\ Taken \/ Refused
        /\ Moves("next") /\ todo' = Tail(todo)
        /\ excused' = excused \cup {c} /\ UNCHANGED dead
     \/ /\ Refused /\ Moves("next") /\ todo' = Tail(todo)
        /\ dead' \in {dead, dead \cup {c}} /\ UNCHANGED excused
  /\ UNCHANGED <<existing, recorded, taking, session, missed>>

\* _append_job: record the job and run the hook, or cancel it if the play was
\* refused meanwhile.
TooLateNever == FALSE
TooLate == stop
WithRecorded(c) == [d \in DOMAIN recorded \cup {c} |->
                      IF d = c THEN c \notin existing \/ Live(c) ELSE recorded[d]]
Record ==
  /\ wpc = "record"
  /\ todo' = Tail(todo)
  /\ LET c == Head(todo) IN
     IF TooLate
     THEN /\ CancelJobs(IF c \notin existing \/ Live(c) THEN {c} ELSE {})
          /\ Moves("next") /\ UNCHANGED recorded
     ELSE /\ recorded' = WithRecorded(c)
          /\ Moves("hook") /\ UNCHANGED <<nzbdav, excused>>
  /\ UNCHANGED <<existing, dead, asked, taking, session, missed>>

\* The hook, if there is one by now: copy the jobs ...
Sources == {c \in DOMAIN recorded : c \notin dead}
RunHook ==
  /\ wpc = "hook"
  /\ IF hook THEN taking' = [taking EXCEPT !["worker"] = Sources] /\ Moves("push")
     ELSE UNCHANGED taking /\ Moves("next")
  /\ UNCHANGED <<todo, existing, recorded, dead, nzbdav, asked, session, excused, missed>>

\* ... and send them to the session, which adds what it does not have.  A push that
\* fails is logged.
Push(who) ==
  /\ \/ session' = session \cup taking[who] /\ UNCHANGED missed
     \/ missed' = (missed \/ taking[who] # {}) /\ UNCHANGED session
  /\ taking' = [taking EXCEPT ![who] = NoPush]
WorkerPushes ==
  /\ wpc = "push"
  /\ Push("worker") /\ Moves("next")
  /\ UNCHANGED <<todo, existing, recorded, dead, nzbdav, asked, excused>>

\* Anything the worker calls may raise: it takes its jobs back.
WorkerRaises ==
  /\ wpc \in {"load", "look", "next"}
  /\ CancelRecorded /\ Moves("done")
  /\ UNCHANGED <<todo, existing, recorded, dead, asked, taking, session, missed>>

Worker ==
  AwaitPlayback \/ Prewarm \/ LoadCandidates \/ FindExisting \/ NextCandidate
  \/ Submitted \/ Record \/ RunHook \/ WorkerPushes

-----------------------------------------------------------------------------
(* The resolver thread. *)

ResolverUnchanged == UNCHANGED <<worker, recorded, playing, flag, earlier, asked>>

\* The stream is ready: the session is prepared with the jobs there are.
Prepare ==
  /\ rpc = "poll"
  /\ session' = Sources
  /\ rpc' = "prompt"
  /\ UNCHANGED <<stop, started, hook, dead, nzbdav, taking, excused, missed>> /\ ResolverUnchanged

\* Set the hook; without a proxy session there is nobody to send backups to ...
ArmHook ==
  /\ rpc = "prompt"
  /\ \/ rpc' = "flush" /\ hook' = TRUE /\ UNCHANGED missed
     \/ rpc' = "answer" /\ missed' = TRUE /\ UNCHANGED hook
  /\ UNCHANGED <<stop, started, dead, nzbdav, taking, session, excused>> /\ ResolverUnchanged

\* ... then flush what came before it.
NothingToFlush == {}
ToFlush == Sources
Flush ==
  /\ rpc = "flush"
  /\ rpc' = "pushing"
  /\ taking' = [taking EXCEPT !["resolver"] = ToFlush]
  /\ UNCHANGED <<stop, started, hook, dead, nzbdav, session, excused, missed>>
  /\ ResolverUnchanged

ResolverPushes ==
  /\ rpc = "pushing"
  /\ Push("resolver") /\ rpc' = "answer"
  /\ UNCHANGED <<stop, started, hook, dead, nzbdav, excused>> /\ ResolverUnchanged

\* setResolvedUrl, then the delay of the worker starts.
HandOver ==
  /\ rpc = "answer"
  /\ started' = TRUE /\ rpc' = "over"
  /\ UNCHANGED <<stop, hook, dead, nzbdav, taking, session, excused, missed>> /\ ResolverUnchanged

\* The play failed, was cancelled, declined or raised: set the stop event ...
RefusePlay ==
  /\ rpc \in {"poll", "prompt", "answer"}
  /\ stop' = TRUE /\ rpc' = "join"
  /\ UNCHANGED <<started, hook, dead, nzbdav, taking, session, excused, missed>> /\ ResolverUnchanged

\* ... wait for the worker, but not for ever, and cancel what it recorded.
CancelSubmitted ==
  /\ rpc = "join"
  /\ CancelRecorded /\ rpc' = "refused"
  /\ UNCHANGED <<stop, started, hook, dead, taking, session, missed>> /\ ResolverUnchanged

Resolver == Prepare \/ ArmHook \/ Flush \/ ResolverPushes \/ HandOver \/ CancelSubmitted

-----------------------------------------------------------------------------
BackupNext ==
  \/ Worker \/ WorkerRaises \/ Resolver \/ RefusePlay
  \/ PlaybackRuns \/ EarlierStops \/ (\E c \in Candidates : JobEnds(c))

-----------------------------------------------------------------------------
(* Properties. *)

\* Once a refused play and its worker are through, no download the worker asked
\* for runs on, whatever the join, the append and the cancel met.
NoBackupLeft ==
  wpc = "done" /\ rpc = "refused" => \A c \in asked : Live(c) => c \in excused

\* Once a play that was handed over has its worker through, the session was sent
\* every backup recorded before the snapshot, between snapshot and hook, or after.
SessionHasBackups ==
  wpc = "done" /\ rpc = "over" /\ ~missed => Sources \subseteq session

\* The worker gives up in its delay only when its own play is over - not because the
\* service has not raised the flag yet, or could not be asked - unless it was started
\* over an earlier play, whose stop clears the same flag; and one that read the flag up
\* and then down, however many readings failed in between, asks for nothing.
DelayHeedsPlayback ==
  /\ quit => playing = "ended" \/ earlier # "none"
  /\ heard = "over" => asked = {} /\ recorded = NoJobs

\* The same without the exception, as the comments of the latch have it.
NeverStranded == quit => playing = "ended"
==============================================================================
