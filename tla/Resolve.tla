------------------------------- MODULE Resolve -------------------------------
(***************************************************************************)
(* One play request against nzbdav (resolver*.py): adopt a completed copy, *)
(* else submit the NZB while probing for a job of the same title, poll the *)
(* job until its video is there, and hand it over to Kodi.                 *)
(*                                                                         *)
(* Job 0 is a copy left by an earlier play, job a the one nzbdav makes of  *)
(* submit attempt a; all have the title of this play.  nzbdav's steps, the *)
(* user's and Kodi's shutdown fall between any two steps of the plugin     *)
(* thread and of the submit worker.                                        *)
(***************************************************************************)
EXTENDS Integers

CONSTANTS
  MaxAttempts,  \* max_submit_retries
  MaxPolls,     \* MAX_POLL_ITERATIONS
  MaxMisses     \* max_no_video_retries

ASSUME BoundsAssumption ==
  MaxAttempts \in Nat \ {0} /\ MaxPolls \in Nat /\ MaxMisses \in Nat

VARIABLES
  pc,         \* where the plugin thread is
  jobs,       \* nzbdav: job -> state
  reqs,       \* nzbdav: attempt -> what became of its addurl
  attempt,    \* the current submit attempt
  worker,     \* where the submit worker of the current attempt is
  error,      \* the error of the attempt that is over
  abandoned,  \* cancel_after_submit of the current attempt
  excused,    \* a cancel went unanswered, or the flag was set too late (history)
  hit,        \* what the probe threads found while submitting
  nzo,        \* the job that is polled
  rejected,   \* rejected_completed_ids
  polls, misses,
  stream,     \* the job whose video is to be played
  cancelled,  \* the user cancelled the progress dialog
  abort,      \* Kodi is shutting down
  backups,    \* the fallback submit worker
  answer,     \* setResolvedUrl
  why         \* why the play ended (history)

server == <<jobs, reqs>>
submission == <<attempt, worker, error, abandoned, excused, hit>>
polling == <<polls, misses>>
outside == <<cancelled, abort>>
outcome == <<backups, answer, why>>
vars == <<pc, server, submission, nzo, rejected, polling, stream, outside, outcome>>

Attempts == 1 .. MaxAttempts
Jobs == 0 .. MaxAttempts
None == -1

Completed == {"good", "stub", "hollow", "empty"}  \* what its folder holds
JobStates == Completed \cup {"none", "queued", "failed", "gone"}
Live(j) == jobs[j] = "queued"

Init ==
  /\ pc = "enter"
  /\ \E old \in Completed \cup {"none"} : jobs = [j \in Jobs |-> IF j = 0 THEN old ELSE "none"]
  /\ reqs = [a \in Attempts |-> "none"]
  /\ attempt = 0 /\ worker = "idle"
  /\ error = "none" /\ abandoned = FALSE /\ excused = FALSE /\ hit = None
  /\ nzo = None /\ rejected = {} /\ polls = 0 /\ misses = 0 /\ stream = None
  /\ cancelled = FALSE /\ abort = FALSE
  /\ backups = "off" /\ answer = "none" /\ why = "none"

-----------------------------------------------------------------------------
(* nzbdav, the user and Kodi. *)

PluginUnchanged ==
  UNCHANGED <<pc, submission, nzo, rejected, polling, stream, outcome>>

\* nzbdav takes the NZB of an addurl, whether or not anybody still waits, or
\* refuses it.
AddurlRuns(a) ==
  /\ reqs[a] = "pending"
  /\ \/ /\ reqs' = [reqs EXCEPT ![a] = "made"]
        /\ jobs' = [jobs EXCEPT ![a] = "queued"]
     \/ reqs' = [reqs EXCEPT ![a] = "refused"] /\ UNCHANGED jobs
  /\ UNCHANGED outside /\ PluginUnchanged

\* A download ends, well or badly, or the user deletes it.
JobEnds(j) ==
  /\ Live(j) /\ pc # "ended"
  /\ \E to \in {"good", "stub", "hollow", "failed", "gone"} : jobs' = [jobs EXCEPT ![j] = to]
  /\ UNCHANGED <<reqs, outside>> /\ PluginUnchanged

\* A started job's placeholder is replaced by the video.
StubGrows(j) ==
  /\ jobs[j] = "stub" /\ j # 0 /\ pc # "ended"
  /\ jobs' = [jobs EXCEPT ![j] = "good"]
  /\ UNCHANGED <<reqs, outside>> /\ PluginUnchanged

UserCancels ==
  /\ ~cancelled /\ pc \notin {"enter", "finish", "prompt", "ended"}
  /\ cancelled' = TRUE
  /\ UNCHANGED <<server, abort>> /\ PluginUnchanged

KodiStops ==
  /\ ~abort /\ pc \notin {"enter", "finish", "prompt", "ended"}
  /\ abort' = TRUE
  /\ UNCHANGED <<server, cancelled>> /\ PluginUnchanged

\* nzbdav_api.cancel_job removes a job that is still queued, if nzbdav answers;
\* nobody asks again when it does not.
CancelJob(j) ==
  \/ /\ jobs' = IF j \in Jobs /\ Live(j) THEN [jobs EXCEPT ![j] = "gone"] ELSE jobs
     /\ UNCHANGED excused
  \/ jobs' = jobs /\ excused' = TRUE
NoCancel == UNCHANGED <<jobs, excused>>

-----------------------------------------------------------------------------
(* Ending the play. *)

\* _stop_fallback_submit_worker(cancel_submitted=True).
WithdrawnNever(b) == b
Withdrawn(b) == IF b = "on" THEN "withdrawn" ELSE b
StopBackups == backups' = Withdrawn(backups)

\* Every path without a stream: stop the worker, reject the handle, close the
\* dialog.
Refuse(reason) ==
  /\ pc' = "ended"
  /\ StopBackups
  /\ answer' = "refused"
  /\ why' = reason

NotEnding == UNCHANGED outcome

-----------------------------------------------------------------------------
(* A completed copy, before anything is submitted. *)

\* _completed_job_video_rejected: the stub and body probes.
Playable(state) == state = "good"
Unplayable(state) == state \in {"stub", "hollow"}

EntryUnchanged ==
  UNCHANGED <<reqs, submission, nzo, polling, outside>>

\* A season pack selection is reused exactly, or the play fails.
ReusePack ==
  /\ pc = "enter"
  /\ \/ stream' = 0 /\ Playable(jobs[0]) /\ pc' = "finish" /\ NotEnding
     \/ UNCHANGED stream /\ Refuse("pack")
  /\ UNCHANGED <<jobs, rejected>> /\ EntryUnchanged

\* _existing_completed_stream on the hint or the row found by name; a lookup may
\* be skipped, or fail.
FindCompleted ==
  /\ pc = "enter"
  /\ \/ /\ Playable(jobs[0])
        /\ stream' = 0 /\ pc' = "finish" /\ UNCHANGED rejected
     \/ /\ Unplayable(jobs[0])
        /\ rejected' = rejected \cup {0} /\ pc' = "submit" /\ UNCHANGED stream
     \/ pc' = "submit" /\ UNCHANGED <<stream, rejected>>
  /\ NotEnding
  /\ UNCHANGED jobs /\ EntryUnchanged

-----------------------------------------------------------------------------
(* Submitting, with a dialog to pump. *)

StartAttempt ==
  /\ pc = "submit"
  /\ attempt' = attempt + 1
  /\ worker' = "asking"
  /\ reqs' = [reqs EXCEPT ![attempt + 1] = "pending"]
  /\ error' = "none" /\ hit' = None
  /\ pc' = "pump"
  /\ NotEnding
  /\ UNCHANGED <<jobs, abandoned, excused, nzo, rejected, polling, stream, outside>>

WorkerUnchanged ==
  UNCHANGED <<pc, reqs, attempt, abandoned, hit, nzo, rejected, polling, stream,
              outside, outcome>>

\* submit_nzb returns: with the id; with nzbdav's refusal, which is worth a retry
\* (transient HTTP), final (a rejected NZB, HTTP 4xx) or about a job it has already
\* (HTTP 500); or with a timeout, which says nothing of what nzbdav will do.  An
\* exception is worth a retry.
WorkerReturns ==
  /\ worker = "asking"
  /\ \/ reqs[attempt] = "made" /\ worker' = "got" /\ UNCHANGED error
     \/ /\ worker' = "failed"
        /\ error' \in {"timeout", "retry"}
             \cup (IF reqs[attempt] = "refused" THEN {"final", "duplicate"} ELSE {})
  /\ NoCancel /\ WorkerUnchanged

\* The worker looks at the cancel flag once, after the answer ...
MustCancelNever == FALSE
MustCancel == abandoned
WorkerLooks ==
  /\ worker = "got"
  /\ worker' = "looked"
  /\ IF MustCancel THEN CancelJob(attempt) ELSE NoCancel
  /\ UNCHANGED error /\ WorkerUnchanged

\* ... and only then tells the plugin thread that it is done.
WorkerIsDone ==
  /\ worker = "looked"
  /\ worker' = "done"
  /\ UNCHANGED error /\ NoCancel /\ WorkerUnchanged

Worker == WorkerReturns \/ WorkerLooks \/ WorkerIsDone
SubmitDone == worker \in {"done", "failed"}

\* What a look at queue and history by title may find; a completed row whose
\* video was rejected is not it.
InHistory(j) == jobs[j] \in Completed
AdoptableAny(j) == Live(j) \/ InHistory(j)
Adoptable(j) == Live(j) \/ (InHistory(j) /\ j \notin rejected)

\* The probe threads record the first hit, until the pump stops them.
ProbeHits(j) ==
  /\ pc \in {"pump", "look"} /\ hit = None
  /\ Adoptable(j)
  /\ hit' = j
  /\ UNCHANGED <<pc, server, attempt, worker, error, abandoned, excused, nzo, rejected, polling,
                 stream, outside, outcome>>

PumpUnchanged == UNCHANGED <<server, attempt, worker, error, hit, rejected, polling, stream, outside>>

\* One round of the pump: an adopted job wins over a submit still under way, the
\* submit's own id over an adopted one.
Pump ==
  /\ pc = "pump"
  /\ \/ ~SubmitDone /\ hit = None /\ pc' = "look" /\ UNCHANGED nzo
     \/ hit # None /\ worker # "done" /\ nzo' = hit /\ pc' = "announce"
     \/ worker = "done" /\ nzo' = attempt /\ pc' = "announce"
     \/ worker = "failed" /\ hit = None /\ pc' = "classify" /\ UNCHANGED nzo
  /\ UNCHANGED <<abandoned, excused>> /\ NotEnding /\ PumpUnchanged

\* Then the dialog and Kodi, whatever happened meanwhile.
PumpLooks ==
  /\ pc = "look"
  /\ IF cancelled \/ abort
     THEN /\ abandoned' = TRUE /\ excused' = (worker \in {"looked", "done"})
          /\ Refuse(IF cancelled THEN "cancelled" ELSE "shutdown")
     ELSE UNCHANGED <<abandoned, excused>> /\ pc' = "pump" /\ NotEnding
  /\ UNCHANGED nzo /\ PumpUnchanged

\* _handle_submit_attempt_error.
Classify ==
  /\ pc = "classify"
  /\ \/ error \in {"timeout", "duplicate"} /\ pc' = "adopt" /\ NotEnding
     \/ error = "retry" /\ pc' = "backoff" /\ NotEnding
     \/ error = "final" /\ Refuse("submit")
  /\ UNCHANGED <<nzo, abandoned, excused>> /\ PumpUnchanged

\* _adopt_queued_or_completed_job: several looks, each of which may miss.
AdoptLate ==
  /\ pc = "adopt"
  /\ \/ \E j \in Jobs : Adoptable(j) /\ nzo' = j /\ pc' = "announce" /\ NotEnding
     \/ error = "timeout" /\ pc' = "backoff" /\ UNCHANGED nzo /\ NotEnding
     \/ error = "duplicate" /\ Refuse("submit") /\ UNCHANGED nzo
  /\ UNCHANGED <<abandoned, excused>> /\ PumpUnchanged

\* Wait before the next attempt, if there is one.
LastAttempt == attempt = MaxAttempts
Backoff ==
  /\ pc = "backoff"
  /\ IF LastAttempt THEN Refuse("submit")
     ELSE \/ abort /\ Refuse("shutdown")
          \/ ~abort /\ pc' = "submit" /\ NotEnding
  /\ UNCHANGED <<nzo, abandoned, excused>> /\ PumpUnchanged

\* _notify_primary_submitted: start_fallback_after_primary, which may fail.
Announce ==
  /\ pc = "announce"
  /\ pc' = "poll"
  /\ backups' \in {backups, "on"}
  /\ UNCHANGED <<answer, why, nzo, abandoned, excused>> /\ PumpUnchanged

-----------------------------------------------------------------------------
(* Polling. *)

PollUnchanged ==
  UNCHANGED <<reqs, attempt, worker, error, abandoned, hit, nzo, rejected, outside>>

\* _abort_poll_before_fetch: out of rounds, out of time, or cancelled.
OutOfRoundsNever == FALSE
OutOfRounds == polls >= MaxPolls
PollHead ==
  /\ pc = "poll"
  /\ polls' = IF polls < MaxPolls THEN polls + 1 ELSE polls
  /\ \/ ~OutOfRounds /\ ~cancelled /\ pc' = "fetch" /\ NoCancel /\ NotEnding
     \/ CancelJob(nzo) /\ Refuse(IF OutOfRounds \/ ~cancelled THEN "timeout" ELSE "cancelled")
  /\ UNCHANGED <<misses, stream>> /\ PollUnchanged

\* _poll_once: queue and history are asked in parallel and each may miss the
\* deadline.  nzbdav-rs knows a job of history by its title only: then any row
\* completed since the submit began will do, an earlier attempt's included.
Row(j) == jobs[j] \in Completed \cup {"failed"}
RowOf(j) == IF j = nzo THEN Row(j) ELSE j # 0 /\ Row(j) /\ ~Row(nzo) /\ j \notin rejected
QueueRow == {"missing"} \cup (IF Live(nzo) THEN {"active"} ELSE {})
                        \cup (IF jobs[nzo] = "gone" THEN {"deleted"} ELSE {})

\* _handle_job_status.
StopsOnQueue(row) ==
  \/ row # "missing" /\ cancelled /\ CancelJob(nzo) /\ Refuse("cancelled")
  \/ row = "deleted" /\ ~cancelled /\ Refuse("dead") /\ NoCancel

\* _classify_completed_video; discovery may also miss what is there.
Classes(state) == IF state = "stub" THEN {"stub", "missing"}
                  ELSE IF state = "good" THEN {"available", "missing"} ELSE {"missing"}

\* _handle_history_result: the row says the download failed, or its folder holds
\* the video, or a placeholder still being filled, or nothing for too long.
RowFailed(j) == jobs[j] = "failed" /\ Refuse("dead") /\ UNCHANGED <<misses, stream>>
VideoThere(j) ==
  "available" \in Classes(jobs[j]) /\ stream' = j /\ pc' = "finish"
  /\ UNCHANGED misses /\ NotEnding
VideoIsStub(j) ==
  "stub" \in Classes(jobs[j]) /\ pc' = "wait" /\ UNCHANGED <<misses, stream>> /\ NotEnding
NoVideoYet ==
  /\ misses' = misses + 1 /\ UNCHANGED stream
  /\ IF misses' >= MaxMisses THEN Refuse("novideo") ELSE pc' = "wait" /\ NotEnding
HandleHistory(j) ==
  RowFailed(j) \/ (InHistory(j) /\ (VideoThere(j) \/ VideoIsStub(j) \/ NoVideoYet))

\* Neither row: WebDAV may have refused the credentials, which says nothing of
\* the job.
HandleNothing(queue) ==
  /\ \/ pc' = "wait" /\ NotEnding
     \/ queue = "missing" /\ Refuse("auth")
  /\ UNCHANGED <<misses, stream>>

Poll ==
  /\ pc = "fetch"
  /\ \E queue \in QueueRow :
       \/ StopsOnQueue(queue) /\ UNCHANGED <<misses, stream>>
       \/ /\ queue = "missing" \/ (queue = "active" /\ ~cancelled)
          /\ HandleNothing(queue) \/ \E j \in Jobs : RowOf(j) /\ HandleHistory(j)
          /\ NoCancel
  /\ UNCHANGED polls /\ PollUnchanged

\* _wait_between_polls.
PollWait ==
  /\ pc = "wait"
  /\ \/ abort /\ CancelJob(nzo) /\ Refuse("shutdown")
     \/ ~abort /\ pc' = "poll" /\ NoCancel /\ NotEnding
  /\ UNCHANGED <<polling, stream>> /\ PollUnchanged

-----------------------------------------------------------------------------
(* Handing over. *)

FinishUnchanged ==
  UNCHANGED <<server, submission, nzo, rejected, polling, stream, outside>>

\* Start the backups if nobody did, prepare the proxy, await the scrub.
Prepare ==
  /\ pc = "finish"
  /\ pc' = "prompt"
  /\ backups' \in {backups, "on"}
  /\ UNCHANGED <<answer, why>> /\ FinishUnchanged

\* The resume prompt: back out, or play.
Prompt ==
  /\ pc = "prompt"
  /\ \/ Refuse("declined")
     \/ pc' = "ended" /\ answer' = "stream" /\ why' = "played" /\ UNCHANGED backups
  /\ FinishUnchanged

\* Any step that calls out may raise: resolve()'s handler.
Raises ==
  /\ pc \in {"enter", "submit", "poll", "fetch", "finish"}
  /\ Refuse("error")
  /\ FinishUnchanged

-----------------------------------------------------------------------------
Plugin ==
  ReusePack \/ FindCompleted \/ StartAttempt \/ Pump \/ PumpLooks \/ Classify
  \/ AdoptLate \/ Backoff \/ Announce \/ PollHead \/ Poll \/ PollWait
  \/ Prepare \/ Prompt

Outside ==
  \/ \E a \in Attempts : AddurlRuns(a)
  \/ \E j \in Jobs : JobEnds(j) \/ StubGrows(j)
  \/ UserCancels \/ KodiStops

Next ==
  \/ Plugin \/ Raises \/ Outside
  \/ Worker \/ (\E j \in Jobs : ProbeHits(j))

Spec == Init /\ [][Next]_vars

\* The plugin thread and the submit workers keep running, the user answers a
\* prompt; nzbdav owes nothing.
FairSpec == Spec /\ WF_vars(Plugin) /\ WF_vars(Worker)

-----------------------------------------------------------------------------
(* Properties. *)

\* One answer, and no backups fetched for a refused play.
Request == INSTANCE PlayRequest
ImplementsRequest == Request!Spec

\* A copy whose video was found to be a stub or to lack its body is neither
\* adopted nor played, by whichever of the five ways a job is found.
RejectedNotPlayed == nzo \notin rejected /\ stream \notin rejected

\* When a play is abandoned (cancelled, shut down, out of time), no download of
\* its own runs on unattended.  Excepted: one of an attempt whose addurl timed out
\* or raised, so that its id was never learnt; one asked for while another job was
\* adopted; one whose worker has not heard of it yet; and one nobody could cancel:
\* nzbdav did not answer, or the flag was set just after the worker looked at it.
Abandoned == pc = "ended" /\ why \in {"cancelled", "shutdown", "timeout"}
Unlearnt(a) == a < attempt \/ worker \in {"asking", "got", "failed"} \/ nzo \notin {None, a}
NothingRunsOn ==
  Abandoned => \A a \in Attempts : Live(a) => Unlearnt(a) \/ excused

\* Whatever nzbdav does, a play request ends.
PlayEnds == <>(pc = "ended")

\* "This timestamp-gated by-name fallback finds a Failed/Completed slot, suppressing
\* stale prior-attempt false positives on resubmit" (resolver_poll.py:255-256): a
\* play is given up as dead only when the job it polls is.
DeadIsOwn == why = "dead" /\ attempt # 0 => ~Live(nzo)
==============================================================================
