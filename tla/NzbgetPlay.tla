----------------------------- MODULE NzbgetPlay -----------------------------
(***************************************************************************)
(* A play through NZBGet (nzbget_resolver*.py, nzbget_api.py): the pick is *)
(* appended with a duplicate key, a worker appends backups under the same  *)
(* key, and the poll follows NZBGet's own failover from one to the next,   *)
(* re-submits a pick vetoed as a copy, and cleans up when the user cancels.*)
(*                                                                         *)
(* Without a key the pick is alone.                                        *)
(*                                                                         *)
(* Two threads, NZBGet, another client that plays the same release, and    *)
(* the network share the finished download is listed from.  NZBGet counts  *)
(* its jobs; job 1 may be the other client's.                              *)
(***************************************************************************)
EXTENDS Integers, FiniteSets

CONSTANTS MaxJobs, Backups, Extras, MaxLive

ASSUME BoundsAssumption ==
  /\ MaxJobs \in Nat \ {0}
  /\ Backups \in Nat /\ Extras \in Nat /\ MaxLive \in Nat

VARIABLES
  keyed,     \* the play has a duplicate key and backups to go with it
  job,       \* NZBGet's: id -> [st, own]
  pc,        \* the resolver's thread
  current,   \* state["current"]: the job followed (0: the group)
  exclude,   \* state["exclude"]
  stale,     \* state["stale_successes"]
  seen,      \* what the scan of the queue saw
  vetoed, rescued,   \* state["copy_vetoed"], state["rescued"]
  pick,      \* the pick's id (0: not appended)
  submitted, \* ctx.submitted_nzbids
  doomed,    \* what the resolver is deleting
  cancel,    \* ctx.cancel_event
  dupeWorker,    \* the backup worker
  played,    \* the job played (0: none)
  blind,     \* a call to NZBGet went unanswered (history)
  slipped    \* a backup was recorded, or a download done, between two looks (history)

nzbget == <<keyed, job>>
poll == <<current, exclude, stale, seen, vetoed, rescued>>
resolver == <<pc, poll, pick, doomed, cancel, played>>
history == <<blind, slipped>>
nzbgetVars == <<nzbget, resolver, submitted, dupeWorker, history>>

Ids == 1 .. MaxJobs
NoJob == [st |-> "none", own |-> "none"]
Is(own) == {i \in Ids : job[i].own = own}
In(states) == {i \in Ids : job[i].st \in states}
Queued == In({"active", "paused"})
Alive == In({"active", "paused", "parked"})
NothingSeen == [foreign |-> FALSE, paused |-> {}]

NzbgetInit ==
  /\ job \in {[i \in Ids |-> IF i = 1 THEN first ELSE NoJob] :
                first \in {NoJob} \cup [st : {"active", "success"}, own : {"other"}]}
  /\ keyed \in BOOLEAN
  /\ pc = "reuse" /\ current = 0 /\ exclude = 0 /\ stale = {} /\ seen = NothingSeen
  /\ vetoed = FALSE /\ rescued = FALSE /\ pick = 0
  /\ submitted = {} /\ doomed = {} /\ cancel = FALSE
  /\ dupeWorker = [pc |-> "off", same |-> Backups, extras |-> Extras, live |-> 0, id |-> 0]
  /\ played = 0 /\ blind = FALSE /\ slipped = FALSE

-----------------------------------------------------------------------------
(* NZBGet.                                                                 *)

NzbgetOnly == UNCHANGED <<keyed, resolver, submitted, dupeWorker, history>>
Promoted(j, st) ==
  LET parked == {i \in Ids : j[i].st = "parked"} IN
    IF parked = {} THEN j
    ELSE LET best == CHOOSE i \in parked : \A k \in parked : i <= k IN
           [j EXCEPT ![best].st = st]

\* A download ends; NZBGet fails over to the best parked duplicate, which waits if
\* NZBGet is paused.
Ends(i) ==
  /\ job[i].st = "active"
  /\ \/ /\ job' = [job EXCEPT ![i].st = "success"]
        /\ slipped' = (slipped \/ pc \in {"scan", "decide"})
     \/ /\ \E st \in {"active", "paused"} : job' = Promoted([job EXCEPT ![i].st = "failed"], st)
        /\ UNCHANGED slipped
  /\ UNCHANGED <<keyed, resolver, submitted, dupeWorker, blind>>
Resumes(i) ==
  /\ job[i].st = "paused"
  /\ job' = [job EXCEPT ![i].st = "active"]
  /\ NzbgetOnly

\* append: queued, parked below a duplicate that is better or done, or vetoed as a
\* copy of a former download; DupeMode FORCE is never parked.
Outcomes(force) ==
  {"copy"} \cup (IF force THEN {"active"}
                 ELSE IF In({"active", "paused", "success"}) = {} THEN {"active"}
                 ELSE IF Is("pick") = {} THEN {"active", "parked"} ELSE {"parked"})
Unused == In({"none"})
NextId == CHOOSE i \in Unused : \A k \in Unused : i <= k
Accepted(own, force) ==
  /\ Unused # {}
  /\ \E st \in Outcomes(force) : job' = [job EXCEPT ![NextId] = [st |-> st, own |-> own]]

\* A call may go unanswered, whatever it did.
Unanswered == blind' = TRUE

-----------------------------------------------------------------------------
(* The resolver: reuse or submit.                                          *)

Goto(p) == pc' = p
KeepWorker == UNCHANGED <<submitted, dupeWorker>>

\* A finished job the picker found is played from the share, or found to be
\* unreadable or gone; else the pick is submitted.
Reuse ==
  /\ pc = "reuse"
  /\ \/ Goto("append")
     \/ job[1].st = "success" /\ pc' \in {"done", "refused"}
  /\ UNCHANGED <<keyed, job, poll, pick, doomed, cancel, played, history>> /\ KeepWorker

SubmitPick ==
  /\ pc = "append"
  /\ \/ /\ Accepted("pick", FALSE)
        /\ pick' = NextId /\ current' = NextId
        /\ Goto(IF keyed THEN "stale" ELSE "tick")
        /\ \E wpc \in {"off"} \cup {w \in {"check"} : keyed} :
             dupeWorker' = [dupeWorker EXCEPT !.pc = wpc]
        /\ UNCHANGED blind
     \/ /\ Goto("refused") /\ UNCHANGED <<pick, current, dupeWorker>>
        /\ (UNCHANGED <<job, blind>> \/ (Accepted("pick", FALSE) /\ Unanswered))
  /\ UNCHANGED <<keyed, exclude, stale, seen, vetoed, rescued, submitted, doomed, cancel, played, slipped>>

\* _preexisting_success_ids.
StaleSuccesses == In({"success"})
TakeStale ==
  /\ pc = "stale"
  /\ Goto("tick")
  /\ \/ stale' = StaleSuccesses /\ UNCHANGED blind
     \/ stale' = {} /\ Unanswered
  /\ UNCHANGED <<keyed, job, current, exclude, seen, vetoed, rescued, pick, doomed, cancel, played, slipped>>
  /\ KeepWorker

-----------------------------------------------------------------------------
(* The poll.                                                               *)

PollUnchanged == UNCHANGED <<keyed, job, pick, doomed, cancel>> /\ KeepWorker

\* _tick_tracked_member: still queued, or in neither list (or nothing was answered);
\* a success is played; a failure is followed into the group.
Follow(i) ==
  \/ /\ job[i].st \notin {"success", "failed", "copy"}
     /\ Goto("tick") /\ UNCHANGED <<poll, played, blind>>
  \/ Goto("tick") /\ Unanswered /\ UNCHANGED <<poll, played>>
  \/ /\ job[i].st = "success"
     /\ Goto("share") /\ played' = i /\ UNCHANGED <<poll, blind>>
  \/ /\ job[i].st \in {"failed", "copy"}
     /\ exclude' = i /\ current' = IF keyed THEN 0 ELSE i
     /\ vetoed' = (vetoed \/ (i = pick /\ job[i].st = "copy"))
     /\ Goto(IF keyed THEN "follow" ELSE "decide") /\ UNCHANGED <<stale, seen, rescued, played, blind>>
PollTracked ==
  /\ pc = "tick" /\ current # 0
  /\ Follow(current)
  /\ UNCHANGED slipped /\ PollUnchanged

\* _tick_group_follow: a success of the group that was not there before ...
FollowSuccess ==
  /\ \/ pc = "tick" /\ current = 0
     \/ pc = "follow"
  /\ \/ \E i \in In({"success"}) \ stale :
          Goto("share") /\ played' = i /\ UNCHANGED blind
     \/ In({"success"}) \subseteq stale /\ Goto("scan") /\ UNCHANGED <<played, blind>>
     \/ Goto("scan") /\ Unanswered /\ UNCHANGED played
  /\ slipped' = FALSE
  /\ UNCHANGED poll /\ PollUnchanged

\* ... a promoted job of this play's own, or one that is paused, or another's.
OwnedAny == Ids
Owned == {pick} \cup submitted
Adopt ==
  /\ pc = "scan"
  /\ \E i \in In({"active"}) \ {exclude} :
       i \in Owned /\ current' = i /\ Goto("tick")
  /\ seen' = NothingSeen
  /\ UNCHANGED <<exclude, stale, vetoed, rescued, played, history>> /\ PollUnchanged
Scan ==
  /\ pc = "scan"
  /\ LET active == In({"active"}) \ {exclude} IN
     \/ /\ active = {} \/ active \ Owned # {}
        /\ seen' = IF active # {} THEN [foreign |-> TRUE, paused |-> {}]
                   ELSE [foreign |-> FALSE, paused |-> (In({"paused"}) \ {exclude}) \cap Owned]
        /\ UNCHANGED blind
     \/ seen' = NothingSeen /\ Unanswered
  /\ Goto("decide")
  /\ UNCHANGED <<current, exclude, stale, vetoed, rescued, played, slipped>> /\ PollUnchanged

\* Before the grace is over the group is looked at again; after it, too, while a
\* promotion may still come.  Only then is the pick forced, once, or the play failed.
StillSubmittingNever == FALSE
StillSubmitting == dupeWorker.pc \notin {"off", "done"}
PromotionPending == StillSubmitting \/ seen.foreign \/ seen.paused # {}
LookAgain ==
  /\ pc = "decide" /\ keyed
  /\ Goto("tick")
  /\ UNCHANGED <<poll, played, history>> /\ PollUnchanged
\* _rescue: not over another's active download; recorded before it is followed.
Rescue ==
  /\ pc = "decide" /\ ~PromotionPending /\ vetoed /\ ~rescued
  /\ rescued' = TRUE
  /\ \/ /\ In({"active"}) \cap Is("other") = {}
        /\ Accepted("rescue", TRUE)
        /\ submitted' = submitted \cup {NextId} /\ current' = NextId
        /\ Goto("tick") /\ UNCHANGED blind
     \/ /\ Goto("failed") /\ UNCHANGED <<submitted, current>>
        /\ (UNCHANGED <<job, blind>> \/ (Accepted("rescue", TRUE) /\ Unanswered))
  /\ UNCHANGED <<keyed, exclude, stale, seen, vetoed, pick, doomed, cancel, played, dupeWorker, slipped>>
GiveUp ==
  /\ pc = "decide" /\ ~PromotionPending /\ ~(vetoed /\ ~rescued)
  /\ Goto("failed")
  /\ UNCHANGED <<poll, played, history>> /\ PollUnchanged

\* The time is up, or Kodi shuts down: the job is left to finish for a retry.
TimeOut ==
  /\ pc = "tick"
  /\ Goto("left")
  /\ UNCHANGED <<poll, played, history>> /\ PollUnchanged

\* resolve_smb_video: list the folder until the episode asked for is there and can
\* be read; give up in silence, or with a word of what could not be read.
ListShare ==
  /\ pc = "share"
  /\ pc' \in {"done", "refused"}
  /\ UNCHANGED <<poll, played, history>> /\ PollUnchanged

\* The user cancels: the ids are put together, the worker is told, the rows are
\* deleted, from history first.
Cancel ==
  /\ pc = "tick"
  /\ doomed' = {current, pick} \cup seen.paused \cup submitted
  /\ Goto("cancel")
  /\ slipped' = FALSE
  /\ UNCHANGED <<keyed, job, poll, pick, cancel, played, blind>> /\ KeepWorker
SetCancel ==
  /\ pc = "cancel"
  /\ cancel' = TRUE /\ Goto("history")
  /\ UNCHANGED <<keyed, job, poll, pick, doomed, played, history>> /\ KeepWorker

Deleted(ids, states) ==
  [i \in Ids |-> IF i \in ids /\ job[i].st \in states THEN [job[i] EXCEPT !.st = "deleted"] ELSE job[i]]
DeleteHistory(ids) ==
  job' = Deleted(ids, {"parked", "success", "failed", "copy"}) /\ UNCHANGED blind
DeleteQueue(ids) == job' = Deleted(ids, {"active", "paused"}) /\ UNCHANGED blind
Lost == UNCHANGED job /\ Unanswered
CancelHistory ==
  /\ pc = "history"
  /\ DeleteHistory(doomed) \/ Lost
  /\ Goto("queue")
  /\ UNCHANGED <<keyed, poll, pick, doomed, cancel, played, slipped>> /\ KeepWorker
CancelQueue ==
  /\ pc = "queue"
  /\ DeleteQueue(doomed) \/ Lost
  /\ Goto("canceled")
  /\ UNCHANGED <<keyed, poll, pick, doomed, cancel, played, slipped>> /\ KeepWorker

-----------------------------------------------------------------------------
(* The backup worker.                                                      *)

DupeWorkerUnchanged == UNCHANGED resolver
Work(p, changed) == dupeWorker' = [changed EXCEPT !.pc = p]

\* Cancelled already, or NZBGet does not check duplicates.
WorkerCheck ==
  /\ dupeWorker.pc = "check"
  /\ \/ cancel /\ Work("done", dupeWorker)
     \/ Work("done", dupeWorker)
     \/ ~cancel /\ Work("next", dupeWorker)
  /\ UNCHANGED <<keyed, job, submitted, history>> /\ DupeWorkerUnchanged

\* Every backup of the same name; then others until enough are alive.
Wanted == dupeWorker.same > 0 \/ (dupeWorker.extras > 0 /\ dupeWorker.live < MaxLive)
WorkerNext ==
  /\ dupeWorker.pc = "next"
  /\ \/ (cancel \/ ~Wanted) /\ Work("drain", dupeWorker)
     \/ /\ ~cancel /\ Wanted
        /\ Work("append", IF dupeWorker.same > 0 THEN [dupeWorker EXCEPT !.same = @ - 1]
                          ELSE [dupeWorker EXCEPT !.extras = @ - 1])
  /\ UNCHANGED <<keyed, job, submitted, history>> /\ DupeWorkerUnchanged
WorkerAppend ==
  /\ dupeWorker.pc = "append"
  /\ \/ /\ Accepted("backup", FALSE)
        /\ Work("record", [dupeWorker EXCEPT !.id = NextId]) /\ UNCHANGED blind
     \/ /\ Work("next", dupeWorker)
        /\ (UNCHANGED <<job, blind>> \/ (Accepted("backup", FALSE) /\ Unanswered))
  /\ UNCHANGED <<keyed, submitted, slipped>> /\ DupeWorkerUnchanged
\* It counts as alive unless NZBGet vetoed it as a copy.
WorkerRecord ==
  /\ dupeWorker.pc = "record"
  /\ submitted' = submitted \cup {dupeWorker.id}
  /\ slipped' = (slipped \/ pc \in {"decide", "cancel"})
  /\ Work("next", [dupeWorker EXCEPT !.id = 0,
                     !.live = IF job[dupeWorker.id].st = "copy" THEN @ ELSE @ + 1])
  /\ UNCHANGED <<keyed, job, blind>> /\ DupeWorkerUnchanged

\* What was appended while the user cancelled is deleted here.
WorkerDrainNothing == /\ dupeWorker.pc = "drain" /\ Work("done", dupeWorker)
                      /\ UNCHANGED <<keyed, job, submitted, history>> /\ DupeWorkerUnchanged
WorkerDrain ==
  /\ dupeWorker.pc = "drain"
  /\ Work(IF cancel /\ submitted # {} THEN "history" ELSE "done", dupeWorker)
  /\ UNCHANGED <<keyed, job, submitted, history>> /\ DupeWorkerUnchanged
WorkerHistory ==
  /\ dupeWorker.pc = "history"
  /\ DeleteHistory(submitted) \/ Lost
  /\ Work("queue", dupeWorker) /\ UNCHANGED <<keyed, submitted, slipped>> /\ DupeWorkerUnchanged
WorkerQueue ==
  /\ dupeWorker.pc = "queue"
  /\ DeleteQueue(submitted) \/ Lost
  /\ Work("done", dupeWorker) /\ UNCHANGED <<keyed, submitted, slipped>> /\ DupeWorkerUnchanged

-----------------------------------------------------------------------------
Nzbget == \E i \in Ids : Ends(i) \/ Resumes(i)
NzbgetResolver ==
  \/ Reuse \/ SubmitPick \/ TakeStale \/ PollTracked \/ FollowSuccess \/ Adopt \/ Scan
  \/ LookAgain \/ Rescue \/ GiveUp \/ TimeOut \/ ListShare
  \/ Cancel \/ SetCancel \/ CancelHistory \/ CancelQueue
DupeWorker ==
  \/ WorkerCheck \/ WorkerNext \/ WorkerAppend \/ WorkerRecord
  \/ WorkerDrain \/ WorkerHistory \/ WorkerQueue

NzbgetNext == Nzbget \/ NzbgetResolver \/ DupeWorker

-----------------------------------------------------------------------------
(* Properties.                                                             *)

Ours == Is("pick") \cup Is("backup") \cup Is("rescue")
WorkerOver == dupeWorker.pc \in {"off", "done"}

\* A cancelled play leaves nothing running in NZBGet and nothing for it to fail over
\* to, once the resolver and the worker have cleaned up: whichever backup was on its
\* way when the user cancelled.  Excepted: calls NZBGet did not answer, and a backup
\* recorded between the putting together of the ids and the telling of the worker.
NoDupeLeft ==
  (pc = "canceled" /\ WorkerOver /\ ~blind /\ ~slipped) => Ours \cap Alive = {}

\* A play is failed only when it has no download left in the queue and none of the
\* group is done that was not there when the poll took stock; excepted calls that were
\* not answered and what changed between the last looks at history, queue and worker.
FailedIsExhausted ==
  (pc = "failed" /\ ~blind /\ ~slipped) =>
    Ours \cap Queued = {} /\ (keyed => In({"success"}) \subseteq stale)

\* The download of the other client, which shares the key, is not deleted by this
\* play, and one that was finished before is not taken for this play's.
OthersLeftAlone ==
  /\ \A i \in Is("other") : job[i].st # "deleted"
  /\ (played # 0 /\ ~blind) => played \notin (stale \cap Is("other")) \cup In({"copy"})
==============================================================================
