---------------------------- MODULE ResolveProofs ----------------------------
(***************************************************************************)
(* Proofs about a play request, for any number of submit attempts, polls   *)
(* and retries: what was rejected is not played, an abandoned play leaves  *)
(* no download of its own running, and Kodi and the backups see no more    *)
(* than PlayRequest allows.                                                *)
(***************************************************************************)
EXTENDS Resolve, TLAPS

PCs == {"enter", "submit", "pump", "look", "classify", "adopt", "backoff", "announce", "poll",
        "fetch", "wait", "finish", "prompt", "ended"}
Workers == {"idle", "asking", "got", "looked", "done", "failed"}
Errors == {"none", "timeout", "retry", "final", "duplicate"}
MaybeJobs == Jobs \cup {None}
Reasons == {"none", "pack", "cancelled", "shutdown", "submit", "timeout", "dead", "novideo", "auth",
            "declined", "error", "played"}

TypeOK ==
  /\ pc \in PCs
  /\ jobs \in [Jobs -> JobStates]
  /\ reqs \in [Attempts -> {"none", "pending", "made", "refused"}]
  /\ attempt \in 0 .. MaxAttempts
  /\ worker \in Workers /\ error \in Errors
  /\ abandoned \in BOOLEAN /\ excused \in BOOLEAN
  /\ hit \in MaybeJobs /\ nzo \in MaybeJobs /\ stream \in MaybeJobs
  /\ rejected \in SUBSET {0}
  /\ polls \in 0 .. MaxPolls /\ misses \in Nat
  /\ cancelled \in BOOLEAN /\ abort \in BOOLEAN
  /\ backups \in {"off", "on", "withdrawn"} /\ answer \in {"none", "stream", "refused"}
  /\ why \in Reasons

\* A job exists because nzbdav took the NZB of an attempt that was made; the copy an
\* earlier play left is not a download.
JobsAreMade ==
  /\ ~Live(0)
  /\ \A a \in Attempts : jobs[a] # "none" => reqs[a] = "made"
  /\ \A a \in Attempts : a > attempt => reqs[a] = "none"

\* The worker has an answer for the current attempt, which nzbdav has taken; the
\* plugin thread classifies an error only when the worker has failed.
WorkerKnows ==
  /\ worker # "idle" => attempt # 0
  /\ worker \in {"got", "looked", "done"} => reqs[attempt] = "made"
  /\ pc \in {"pump", "look"} => worker # "idle"
  /\ pc \in {"classify", "adopt", "backoff"} => worker = "failed"
  /\ pc = "submit" => worker \in {"idle", "failed"} /\ attempt < MaxAttempts
  /\ pc = "enter" => worker = "idle" /\ attempt = 0 /\ hit = None /\ rejected = {}

\* A job that is adopted, polled or played was never rejected and is there.
Before == {"enter", "submit", "pump", "look", "classify", "adopt", "backoff"}
AdoptedIsThere ==
  /\ pc \in Before => nzo = None /\ stream = None
  /\ pc \in {"announce", "poll", "fetch", "wait"} => nzo # None
  /\ hit \notin rejected /\ nzo \notin rejected /\ stream \notin rejected
  /\ hit \in Attempts => reqs[hit] = "made"
  /\ nzo \in Attempts => reqs[nzo] = "made"

\* An abandoned play: its job is cancelled, or its worker will cancel it, or has not
\* learnt of it.
Withdrawing ==
  \/ nzo # None /\ (nzo \in Attempts => ~Live(nzo))
  \/ nzo = None /\ worker = "failed"
  \/ nzo = None /\ abandoned /\ worker \in {"asking", "got"}
  \/ nzo = None /\ worker \in {"looked", "done"} /\ ~Live(attempt)
AbandonedIsWithdrawn == Abandoned => excused \/ Withdrawing

\* The play is open until it has ended, and its backups are not withdrawn before.
OpenUntilEnded ==
  /\ pc # "ended" <=> answer = "none"
  /\ pc # "ended" => backups \in {"off", "on"}

Inv == TypeOK /\ JobsAreMade /\ WorkerKnows /\ AdoptedIsThere /\ AbandonedIsWithdrawn
       /\ OpenUntilEnded

-----------------------------------------------------------------------------
(* One conjunct at a time, one step per action that can disturb it. *)

\* What the constants' types say of the sets built from them.
LEMMA Numbers == 0 \in Jobs /\ Attempts \subseteq Jobs /\ None \notin Jobs /\ 0 \notin Attempts
                 /\ Jobs \subseteq Int /\ Attempts \subseteq Int
BY BoundsAssumption DEF Attempts, Jobs, None

\* A cancel leaves every job in a state of a job.
LEMMA CancelEffect ==
  ASSUME TypeOK, NEW j, CancelJob(j) \/ NoCancel
  PROVE  /\ jobs' \in [Jobs -> JobStates] /\ excused' \in BOOLEAN
<1>1. CASE NoCancel
  BY <1>1 DEF NoCancel, CancelJob, TypeOK, Live
<1>2. CASE CancelJob(j)
  <2>1. "gone" \in JobStates
    BY DEF JobStates
  <2> QED  BY <1>2, <2>1 DEF CancelJob, TypeOK, Live
<1> QED  BY <1>1, <1>2

\* Every step keeps every variable in its set.
LEMMA TypeInv ==
  ASSUME Inv, [Next]_vars
  PROVE  TypeOK'
<1> USE BoundsAssumption, Numbers DEF Inv, TypeOK, WorkerKnows, PCs, Workers, Errors, MaybeJobs,
     Reasons, JobStates, Completed, Attempts, vars, server, submission, polling, outside, outcome
<1>1. ASSUME ReusePack PROVE TypeOK'
  BY <1>1 DEF ReusePack, Playable, NotEnding, Refuse, StopBackups, Withdrawn, EntryUnchanged
<1>2. ASSUME FindCompleted PROVE TypeOK'
  <2>1. rejected' \in SUBSET {0}
    BY <1>2, rejected \cup {0} \in SUBSET {0} DEF FindCompleted
  <2>2. stream' \in MaybeJobs /\ pc' \in PCs
    BY <1>2 DEF FindCompleted
  <2> QED  BY <1>2, <2>1, <2>2 DEF FindCompleted, NotEnding, EntryUnchanged
<1>3. ASSUME StartAttempt PROVE TypeOK'
  BY <1>3 DEF StartAttempt, NotEnding
<1>4. ASSUME Pump PROVE TypeOK'
  BY <1>4 DEF Pump, SubmitDone, NotEnding, PumpUnchanged
<1>5. ASSUME PumpLooks PROVE TypeOK'
  <2>1. (worker \in {"looked", "done"}) \in BOOLEAN
    OBVIOUS
  <2>2. excused' \in BOOLEAN /\ abandoned' \in BOOLEAN
    BY <1>5, <2>1, Zenon DEF PumpLooks
  <2> QED  BY <1>5, <2>2 DEF PumpLooks, PumpUnchanged, Refuse, StopBackups, Withdrawn, NotEnding
<1>6. ASSUME Classify PROVE TypeOK'
  BY <1>6 DEF Classify, PumpUnchanged, Refuse, StopBackups, Withdrawn, NotEnding
<1>7. ASSUME AdoptLate PROVE TypeOK'
  BY <1>7 DEF AdoptLate, PumpUnchanged, Refuse, StopBackups, Withdrawn, NotEnding
<1>8. ASSUME Backoff PROVE TypeOK'
  BY <1>8 DEF Backoff, PumpUnchanged, Refuse, StopBackups, Withdrawn, NotEnding, LastAttempt
<1>9. ASSUME Announce PROVE TypeOK'
  BY <1>9 DEF Announce, PumpUnchanged
<1>10. ASSUME PollHead PROVE TypeOK'
  BY <1>10, CancelEffect DEF PollHead, PollUnchanged, Refuse, StopBackups, Withdrawn, NotEnding,
       OutOfRounds
<1>11. ASSUME Poll PROVE TypeOK'
  <2>1. jobs' \in [Jobs -> JobStates] /\ excused' \in BOOLEAN
    BY <1>11, CancelEffect DEF Poll, StopsOnQueue
  <2>2. misses' \in Nat /\ stream' \in MaybeJobs
    BY <1>11 DEF Poll, HandleNothing, HandleHistory, RowFailed, VideoThere, VideoIsStub, NoVideoYet
  <2>3. pc' \in PCs /\ (NotEnding \/ \E reason \in Reasons : Refuse(reason))
    BY <1>11 DEF Poll, StopsOnQueue, HandleNothing, HandleHistory, RowFailed, VideoThere,
                 VideoIsStub, NoVideoYet, Refuse
  <2> QED  BY <1>11, <2>1, <2>2, <2>3
           DEF Poll, PollUnchanged, Refuse, StopBackups, Withdrawn, NotEnding
<1>12. ASSUME PollWait PROVE TypeOK'
  BY <1>12, CancelEffect DEF PollWait, PollUnchanged, Refuse, StopBackups, Withdrawn, NotEnding
<1>13. ASSUME Prepare PROVE TypeOK'
  BY <1>13 DEF Prepare, FinishUnchanged
<1>14. ASSUME Prompt PROVE TypeOK'
  BY <1>14 DEF Prompt, FinishUnchanged, Refuse, StopBackups, Withdrawn
<1>15. ASSUME Raises PROVE TypeOK'
  BY <1>15 DEF Raises, FinishUnchanged, Refuse, StopBackups, Withdrawn
<1>16. ASSUME UserCancels PROVE TypeOK'
  BY <1>16 DEF UserCancels, PluginUnchanged
<1>17. ASSUME KodiStops PROVE TypeOK'
  BY <1>17 DEF KodiStops, PluginUnchanged
<1>18. ASSUME WorkerReturns PROVE TypeOK'
  BY <1>18 DEF WorkerReturns, NoCancel, WorkerUnchanged
<1>19. ASSUME WorkerLooks PROVE TypeOK'
  BY <1>19, CancelEffect DEF WorkerLooks, WorkerUnchanged, MustCancel
<1>20. ASSUME WorkerIsDone PROVE TypeOK'
  BY <1>20 DEF WorkerIsDone, NoCancel, WorkerUnchanged
<1>21. ASSUME NEW a \in Attempts, AddurlRuns(a)
      PROVE TypeOK'
  BY <1>21 DEF AddurlRuns, PluginUnchanged
<1>22. ASSUME NEW j \in Jobs, JobEnds(j)
      PROVE TypeOK'
  BY <1>22 DEF JobEnds, PluginUnchanged, Live
<1>23. ASSUME NEW j \in Jobs, StubGrows(j)
      PROVE TypeOK'
  BY <1>23 DEF StubGrows, PluginUnchanged
<1>24. ASSUME NEW j \in Jobs, ProbeHits(j)
      PROVE TypeOK'
  BY <1>24 DEF ProbeHits, Adoptable, InHistory
<1>25. CASE UNCHANGED vars
  BY <1>25
<1> QED  BY <1>1, <1>2, <1>3, <1>4, <1>5, <1>6, <1>7, <1>8, <1>9, <1>10, <1>11, <1>12, <1>13,
     <1>14, <1>15, <1>16, <1>17, <1>18, <1>19, <1>20, <1>21, <1>22, <1>23, <1>24, <1>25 DEF Next,
     Plugin, Outside, Worker

\* Every step keeps a job from appearing out of nothing.
LEMMA JobsInv ==
  ASSUME Inv, [Next]_vars
  PROVE  JobsAreMade'
<1> USE BoundsAssumption, Numbers DEF Inv, TypeOK, JobsAreMade, WorkerKnows, Live, Attempts, Jobs,
     vars, server, submission, polling, outside, outcome
<1>1. ASSUME StartAttempt PROVE JobsAreMade'
  BY <1>1 DEF StartAttempt, NotEnding
<1>2. ASSUME PollHead PROVE JobsAreMade'
  BY <1>2 DEF PollHead, PollUnchanged, Refuse, StopBackups, Withdrawn, NotEnding, OutOfRounds,
       CancelJob, NoCancel
<1>3. ASSUME Poll PROVE JobsAreMade'
  BY <1>3 DEF Poll, PollUnchanged, Refuse, StopBackups, Withdrawn, NotEnding, QueueRow,
       StopsOnQueue, HandleNothing, RowOf, Row, HandleHistory, RowFailed, InHistory, VideoThere,
       VideoIsStub, NoVideoYet, Classes, CancelJob, NoCancel
<1>4. ASSUME PollWait PROVE JobsAreMade'
  BY <1>4 DEF PollWait, PollUnchanged, Refuse, StopBackups, Withdrawn, NotEnding, CancelJob,
       NoCancel
<1>5. ASSUME WorkerLooks PROVE JobsAreMade'
  BY <1>5 DEF WorkerLooks, WorkerUnchanged, MustCancel, CancelJob, NoCancel
<1>6. ASSUME NEW a \in Attempts, AddurlRuns(a)
      PROVE JobsAreMade'
  BY <1>6 DEF AddurlRuns, PluginUnchanged
<1>7. ASSUME NEW j \in Jobs, JobEnds(j)
      PROVE JobsAreMade'
  BY <1>7 DEF JobEnds, PluginUnchanged, Live
<1>8. ASSUME NEW j \in Jobs, StubGrows(j)
      PROVE JobsAreMade'
  BY <1>8 DEF StubGrows, PluginUnchanged
<1>9. CASE UNCHANGED <<jobs, reqs, attempt>>
  BY <1>9
<1> QED  BY <1>1, <1>2, <1>3, <1>4, <1>5, <1>6, <1>7, <1>8, <1>9 DEF Next, Plugin, Outside,
     Worker, ReusePack, Playable, NotEnding, Refuse, StopBackups, Withdrawn, EntryUnchanged,
     FindCompleted, Unplayable, Pump, SubmitDone, PumpUnchanged, PumpLooks, Classify, AdoptLate,
     Backoff, LastAttempt, Announce, Prepare, FinishUnchanged, Prompt, Raises, UserCancels,
     PluginUnchanged, KodiStops, WorkerReturns, NoCancel, WorkerUnchanged, WorkerIsDone,
     ProbeHits, Adoptable, InHistory

\* Every step keeps what the worker's place says of its attempt.
LEMMA WorkerInv ==
  ASSUME Inv, [Next]_vars
  PROVE  WorkerKnows'
<1> USE BoundsAssumption, Numbers DEF Inv, TypeOK, WorkerKnows, Attempts, vars, server,
     submission, polling, outside, outcome
<1>1. ASSUME ReusePack PROVE WorkerKnows'
  BY <1>1 DEF ReusePack, Playable, NotEnding, Refuse, StopBackups, Withdrawn, EntryUnchanged
<1>2. ASSUME FindCompleted PROVE WorkerKnows'
  BY <1>2 DEF FindCompleted, Playable, Unplayable, NotEnding, EntryUnchanged
<1>3. ASSUME StartAttempt PROVE WorkerKnows'
  BY <1>3 DEF StartAttempt, NotEnding
<1>4. ASSUME Pump PROVE WorkerKnows'
  BY <1>4 DEF Pump, SubmitDone, NotEnding, PumpUnchanged
<1>5. ASSUME PumpLooks PROVE WorkerKnows'
  BY <1>5 DEF PumpLooks, PumpUnchanged, Refuse, StopBackups, Withdrawn, NotEnding
<1>6. ASSUME Classify PROVE WorkerKnows'
  BY <1>6 DEF Classify, PumpUnchanged, Refuse, StopBackups, Withdrawn, NotEnding
<1>7. ASSUME AdoptLate PROVE WorkerKnows'
  BY <1>7 DEF AdoptLate, PumpUnchanged, Refuse, StopBackups, Withdrawn, NotEnding
<1>8. ASSUME Backoff PROVE WorkerKnows'
  BY <1>8 DEF Backoff, PumpUnchanged, Refuse, StopBackups, Withdrawn, NotEnding, LastAttempt
<1>9. ASSUME Announce PROVE WorkerKnows'
  BY <1>9 DEF Announce, PumpUnchanged
<1>10. ASSUME PollHead PROVE WorkerKnows'
  BY <1>10 DEF PollHead, PollUnchanged, Refuse, StopBackups, Withdrawn, NotEnding, OutOfRounds
<1>11. ASSUME Poll PROVE WorkerKnows'
  BY <1>11 DEF Poll, PollUnchanged, Refuse, StopBackups, Withdrawn, NotEnding, QueueRow,
       StopsOnQueue, HandleNothing, RowOf, Row, HandleHistory, RowFailed, InHistory, VideoThere,
       VideoIsStub, NoVideoYet, Classes
<1>12. ASSUME PollWait PROVE WorkerKnows'
  BY <1>12 DEF PollWait, PollUnchanged, Refuse, StopBackups, Withdrawn, NotEnding
<1>13. ASSUME Prepare PROVE WorkerKnows'
  BY <1>13 DEF Prepare, FinishUnchanged
<1>14. ASSUME Prompt PROVE WorkerKnows'
  BY <1>14 DEF Prompt, FinishUnchanged, Refuse, StopBackups, Withdrawn
<1>15. ASSUME Raises PROVE WorkerKnows'
  BY <1>15 DEF Raises, FinishUnchanged, Refuse, StopBackups, Withdrawn
<1>16. ASSUME WorkerReturns PROVE WorkerKnows'
  BY <1>16 DEF WorkerReturns, NoCancel, WorkerUnchanged
<1>17. ASSUME WorkerLooks PROVE WorkerKnows'
  BY <1>17 DEF WorkerLooks, WorkerUnchanged, MustCancel
<1>18. ASSUME WorkerIsDone PROVE WorkerKnows'
  BY <1>18 DEF WorkerIsDone, NoCancel, WorkerUnchanged
<1>19. ASSUME NEW a \in Attempts, AddurlRuns(a)
      PROVE WorkerKnows'
  BY <1>19 DEF AddurlRuns, PluginUnchanged
<1>20. ASSUME NEW j \in Jobs, ProbeHits(j)
      PROVE WorkerKnows'
  BY <1>20 DEF ProbeHits, Adoptable, InHistory
<1>21. CASE UNCHANGED <<pc, reqs, attempt, worker, hit, rejected>>
  BY <1>21
<1> QED  BY <1>1, <1>2, <1>3, <1>4, <1>5, <1>6, <1>7, <1>8, <1>9, <1>10, <1>11, <1>12, <1>13,
     <1>14, <1>15, <1>16, <1>17, <1>18, <1>19, <1>20, <1>21 DEF Next, Plugin, Outside, Worker,
     UserCancels, PluginUnchanged, KodiStops, JobEnds, StubGrows

\* Every step keeps the job that is adopted, polled or played apart from the rejected one.
LEMMA AdoptedInv ==
  ASSUME Inv, [Next]_vars
  PROVE  AdoptedIsThere'
<1> USE BoundsAssumption, Numbers DEF Inv, TypeOK, JobsAreMade, WorkerKnows, AdoptedIsThere,
     Before, Live, MaybeJobs, Attempts, Jobs, None, vars, server, submission, polling, outside,
     outcome
<1>1. ASSUME ReusePack PROVE AdoptedIsThere'
  BY <1>1 DEF ReusePack, Playable, NotEnding, Refuse, StopBackups, Withdrawn, EntryUnchanged
<1>2. ASSUME FindCompleted PROVE AdoptedIsThere'
  <2>1. nzo' = None /\ hit' = None /\ rejected = {} /\ stream = None
    BY <1>2 DEF FindCompleted, EntryUnchanged
  <2>2. \/ stream' = 0 /\ rejected' = rejected /\ pc' = "finish"
        \/ stream' = stream /\ pc' = "submit" /\ rejected' \in {rejected, rejected \cup {0}}
    BY <1>2 DEF FindCompleted
  <2> QED  BY <1>2, <2>1, <2>2 DEF FindCompleted, EntryUnchanged
<1>3. ASSUME StartAttempt PROVE AdoptedIsThere'
  BY <1>3 DEF StartAttempt, NotEnding
<1>4. ASSUME Pump PROVE AdoptedIsThere'
  BY <1>4 DEF Pump, SubmitDone, NotEnding, PumpUnchanged
<1>5. ASSUME PumpLooks PROVE AdoptedIsThere'
  BY <1>5 DEF PumpLooks, PumpUnchanged, Refuse, StopBackups, Withdrawn, NotEnding
<1>6. ASSUME Classify PROVE AdoptedIsThere'
  BY <1>6 DEF Classify, PumpUnchanged, Refuse, StopBackups, Withdrawn, NotEnding
<1>7. ASSUME AdoptLate PROVE AdoptedIsThere'
  <2>1. ASSUME NEW j \in Jobs, Adoptable(j), nzo' = j, pc' = "announce"
        PROVE  AdoptedIsThere'
    <3>1. j \notin rejected /\ (j \in Attempts => reqs[j] = "made")
      BY <2>1 DEF Adoptable, InHistory, Completed
    <3> QED  BY <1>7, <2>1, <3>1 DEF AdoptLate, PumpUnchanged
  <2>2. CASE nzo' = nzo /\ pc' \in {"backoff", "ended"}
    BY <1>7, <2>2 DEF AdoptLate, PumpUnchanged
  <2> QED  BY <1>7, <2>1, <2>2 DEF AdoptLate, Refuse
<1>8. ASSUME Backoff PROVE AdoptedIsThere'
  BY <1>8 DEF Backoff, PumpUnchanged, Refuse, StopBackups, Withdrawn, NotEnding, LastAttempt
<1>9. ASSUME Announce PROVE AdoptedIsThere'
  BY <1>9 DEF Announce, PumpUnchanged
<1>10. ASSUME PollHead PROVE AdoptedIsThere'
  BY <1>10 DEF PollHead, PollUnchanged, Refuse, StopBackups, Withdrawn, NotEnding, OutOfRounds
<1>11. ASSUME Poll PROVE AdoptedIsThere'
  BY <1>11 DEF Poll, PollUnchanged, Refuse, StopBackups, Withdrawn, NotEnding, QueueRow,
       StopsOnQueue, HandleNothing, RowOf, Row, HandleHistory, RowFailed, InHistory, VideoThere,
       VideoIsStub, NoVideoYet, Classes
<1>12. ASSUME PollWait PROVE AdoptedIsThere'
  BY <1>12 DEF PollWait, PollUnchanged, Refuse, StopBackups, Withdrawn, NotEnding
<1>13. ASSUME Prepare PROVE AdoptedIsThere'
  BY <1>13 DEF Prepare, FinishUnchanged
<1>14. ASSUME Prompt PROVE AdoptedIsThere'
  BY <1>14 DEF Prompt, FinishUnchanged, Refuse, StopBackups, Withdrawn
<1>15. ASSUME Raises PROVE AdoptedIsThere'
  BY <1>15 DEF Raises, FinishUnchanged, Refuse, StopBackups, Withdrawn
<1>16. ASSUME NEW a \in Attempts, AddurlRuns(a)
      PROVE AdoptedIsThere'
  BY <1>16 DEF AddurlRuns, PluginUnchanged
<1>17. ASSUME NEW j \in Jobs, ProbeHits(j)
      PROVE AdoptedIsThere'
  <2>1. j \notin rejected /\ (j \in Attempts => reqs[j] = "made")
    BY <1>17 DEF ProbeHits, Adoptable, InHistory, Completed
  <2> QED  BY <1>17, <2>1 DEF ProbeHits
<1>18. CASE UNCHANGED <<pc, reqs, hit, nzo, rejected, stream>>
  BY <1>18
<1> QED  BY <1>1, <1>2, <1>3, <1>4, <1>5, <1>6, <1>7, <1>8, <1>9, <1>10, <1>11, <1>12, <1>13,
     <1>14, <1>15, <1>16, <1>17, <1>18 DEF Next, Plugin, Outside, Worker, UserCancels,
     PluginUnchanged, KodiStops, WorkerReturns, NoCancel, WorkerUnchanged, WorkerLooks,
     MustCancel, WorkerIsDone, JobEnds, StubGrows

\* Every step keeps an abandoned play's download withdrawn, or on its way to be.
LEMMA AbandonedInv ==
  ASSUME Inv, [Next]_vars
  PROVE  AbandonedIsWithdrawn'
<1> USE BoundsAssumption, Numbers DEF Inv, TypeOK, JobsAreMade, WorkerKnows, AdoptedIsThere,
     AbandonedIsWithdrawn, Abandoned, Withdrawing, Live, Before, MaybeJobs, Attempts, Jobs, None,
     Workers, vars, server, submission, polling, outside, outcome
<1>1. ASSUME ReusePack PROVE AbandonedIsWithdrawn'
  BY <1>1 DEF ReusePack, Playable, NotEnding, Refuse, StopBackups, Withdrawn, EntryUnchanged
<1>2. ASSUME FindCompleted PROVE AbandonedIsWithdrawn'
  BY <1>2 DEF FindCompleted, Playable, Unplayable, NotEnding, EntryUnchanged
<1>3. ASSUME StartAttempt PROVE AbandonedIsWithdrawn'
  BY <1>3 DEF StartAttempt, NotEnding
<1>4. ASSUME Pump PROVE AbandonedIsWithdrawn'
  BY <1>4 DEF Pump, SubmitDone, NotEnding, PumpUnchanged
<1>5. ASSUME PumpLooks PROVE AbandonedIsWithdrawn'
  BY <1>5 DEF PumpLooks, PumpUnchanged, Refuse, StopBackups, Withdrawn, NotEnding
<1>6. ASSUME Classify PROVE AbandonedIsWithdrawn'
  BY <1>6 DEF Classify, PumpUnchanged, Refuse, StopBackups, Withdrawn, NotEnding
<1>7. ASSUME AdoptLate PROVE AbandonedIsWithdrawn'
  BY <1>7 DEF AdoptLate, PumpUnchanged, Refuse, StopBackups, Withdrawn, NotEnding
<1>8. ASSUME Backoff PROVE AbandonedIsWithdrawn'
  BY <1>8 DEF Backoff, PumpUnchanged, Refuse, StopBackups, Withdrawn, NotEnding, LastAttempt
<1>9. ASSUME Announce PROVE AbandonedIsWithdrawn'
  BY <1>9 DEF Announce, PumpUnchanged
<1>10. ASSUME PollHead PROVE AbandonedIsWithdrawn'
  BY <1>10 DEF PollHead, PollUnchanged, Refuse, StopBackups, Withdrawn, NotEnding, OutOfRounds,
       CancelJob, NoCancel
<1>11. ASSUME Poll PROVE AbandonedIsWithdrawn'
  BY <1>11 DEF Poll, PollUnchanged, Refuse, StopBackups, Withdrawn, NotEnding, QueueRow,
       StopsOnQueue, HandleNothing, RowOf, Row, HandleHistory, RowFailed, InHistory, VideoThere,
       VideoIsStub, NoVideoYet, Classes, CancelJob, NoCancel
<1>12. ASSUME PollWait PROVE AbandonedIsWithdrawn'
  BY <1>12 DEF PollWait, PollUnchanged, Refuse, StopBackups, Withdrawn, NotEnding, CancelJob,
       NoCancel
<1>13. ASSUME Prepare PROVE AbandonedIsWithdrawn'
  BY <1>13 DEF Prepare, FinishUnchanged
<1>14. ASSUME Prompt PROVE AbandonedIsWithdrawn'
  BY <1>14 DEF Prompt, FinishUnchanged, Refuse, StopBackups, Withdrawn
<1>15. ASSUME Raises PROVE AbandonedIsWithdrawn'
  BY <1>15 DEF Raises, FinishUnchanged, Refuse, StopBackups, Withdrawn
<1>16. ASSUME WorkerReturns PROVE AbandonedIsWithdrawn'
  BY <1>16 DEF WorkerReturns, NoCancel, WorkerUnchanged
<1>17. ASSUME WorkerLooks PROVE AbandonedIsWithdrawn'
  BY <1>17 DEF WorkerLooks, WorkerUnchanged, MustCancel, CancelJob, NoCancel
<1>18. ASSUME WorkerIsDone PROVE AbandonedIsWithdrawn'
  BY <1>18 DEF WorkerIsDone, NoCancel, WorkerUnchanged
<1>19. ASSUME NEW a \in Attempts, AddurlRuns(a)
      PROVE AbandonedIsWithdrawn'
  BY <1>19 DEF AddurlRuns, PluginUnchanged
<1>20. ASSUME NEW j \in Jobs, JobEnds(j)
      PROVE AbandonedIsWithdrawn'
  BY <1>20 DEF JobEnds, PluginUnchanged, Live
<1>21. ASSUME NEW j \in Jobs, StubGrows(j)
      PROVE AbandonedIsWithdrawn'
  BY <1>21 DEF StubGrows, PluginUnchanged
<1>22. CASE UNCHANGED <<pc, jobs, attempt, worker, abandoned, excused, nzo, why>>
  BY <1>22
<1> QED  BY <1>1, <1>2, <1>3, <1>4, <1>5, <1>6, <1>7, <1>8, <1>9, <1>10, <1>11, <1>12, <1>13,
     <1>14, <1>15, <1>16, <1>17, <1>18, <1>19, <1>20, <1>21, <1>22 DEF Next, Plugin, Outside,
     Worker, UserCancels, PluginUnchanged, KodiStops, ProbeHits, Adoptable, InHistory

\* Every step keeps the request open until the play has ended.
LEMMA OpenInv ==
  ASSUME Inv, [Next]_vars
  PROVE  OpenUntilEnded'
<1> USE BoundsAssumption, Numbers DEF Inv, OpenUntilEnded, vars, server, submission, polling,
     outside, outcome
<1>1. ASSUME ReusePack PROVE OpenUntilEnded'
  BY <1>1 DEF ReusePack, Playable, NotEnding, Refuse, StopBackups, Withdrawn
<1>2. ASSUME FindCompleted PROVE OpenUntilEnded'
  BY <1>2 DEF FindCompleted, Playable, Unplayable, NotEnding
<1>3. ASSUME StartAttempt PROVE OpenUntilEnded'
  BY <1>3 DEF StartAttempt, NotEnding
<1>4. ASSUME Pump PROVE OpenUntilEnded'
  BY <1>4 DEF Pump, SubmitDone, NotEnding
<1>5. ASSUME PumpLooks PROVE OpenUntilEnded'
  BY <1>5 DEF PumpLooks, Refuse, StopBackups, Withdrawn, NotEnding
<1>6. ASSUME Classify PROVE OpenUntilEnded'
  BY <1>6 DEF Classify, Refuse, StopBackups, Withdrawn, NotEnding
<1>7. ASSUME AdoptLate PROVE OpenUntilEnded'
  BY <1>7 DEF AdoptLate, Refuse, StopBackups, Withdrawn, NotEnding
<1>8. ASSUME Backoff PROVE OpenUntilEnded'
  BY <1>8 DEF Backoff, Refuse, StopBackups, Withdrawn, NotEnding, LastAttempt
<1>9. ASSUME Announce PROVE OpenUntilEnded'
  BY <1>9 DEF Announce, PumpUnchanged
<1>10. ASSUME PollHead PROVE OpenUntilEnded'
  BY <1>10 DEF PollHead, Refuse, StopBackups, Withdrawn, NotEnding, OutOfRounds
<1>11. ASSUME Poll PROVE OpenUntilEnded'
  BY <1>11 DEF Poll, Refuse, StopBackups, Withdrawn, NotEnding, QueueRow, StopsOnQueue,
       HandleNothing, RowOf, Row, HandleHistory, RowFailed, InHistory, VideoThere, VideoIsStub,
       NoVideoYet, Classes
<1>12. ASSUME PollWait PROVE OpenUntilEnded'
  BY <1>12 DEF PollWait, Refuse, StopBackups, Withdrawn, NotEnding
<1>13. ASSUME Prepare PROVE OpenUntilEnded'
  BY <1>13 DEF Prepare, FinishUnchanged
<1>14. ASSUME Prompt PROVE OpenUntilEnded'
  BY <1>14 DEF Prompt, Refuse, StopBackups, Withdrawn
<1>15. ASSUME Raises PROVE OpenUntilEnded'
  BY <1>15 DEF Raises, Refuse, StopBackups, Withdrawn
<1>16. CASE UNCHANGED <<pc, outcome>>
  BY <1>16
<1> QED  BY <1>1, <1>2, <1>3, <1>4, <1>5, <1>6, <1>7, <1>8, <1>9, <1>10, <1>11, <1>12, <1>13,
     <1>14, <1>15, <1>16 DEF Next, Plugin, Outside, Worker, UserCancels, PluginUnchanged,
     KodiStops, WorkerReturns, NoCancel, WorkerUnchanged, WorkerLooks, MustCancel, WorkerIsDone,
     AddurlRuns, JobEnds, StubGrows, ProbeHits, Adoptable, InHistory

\* The strengthened invariant is inductive.
LEMMA InitInv == Init => Inv
<1> SUFFICES ASSUME Init PROVE Inv
  OBVIOUS
<1> USE BoundsAssumption, Numbers DEF Init
<1>1. TypeOK
  <2>1. PICK old \in Completed \cup {"none"} :
          jobs = [j \in Jobs |-> IF j = 0 THEN old ELSE "none"]
    OBVIOUS
  <2>2. jobs \in [Jobs -> JobStates]
    BY <2>1 DEF JobStates
  <2>3. reqs \in [Attempts -> {"none", "pending", "made", "refused"}]
    OBVIOUS
  <2>4. /\ attempt \in 0 .. MaxAttempts /\ polls \in 0 .. MaxPolls /\ misses \in Nat
        /\ rejected \in SUBSET {0}
    OBVIOUS
  <2>5. pc \in PCs /\ worker \in Workers /\ error \in Errors /\ why \in Reasons
    BY DEF PCs, Workers, Errors, Reasons
  <2> QED  BY <2>2, <2>3, <2>4, <2>5 DEF TypeOK, MaybeJobs
<1>2. JobsAreMade
  BY DEF JobsAreMade, Live, Completed, Attempts, Jobs
<1>3. WorkerKnows /\ AdoptedIsThere /\ AbandonedIsWithdrawn /\ OpenUntilEnded
  BY DEF WorkerKnows, AdoptedIsThere, Before, AbandonedIsWithdrawn, Abandoned, OpenUntilEnded,
         Attempts, None
<1> QED  BY <1>1, <1>2, <1>3 DEF Inv

LEMMA StepInv == Inv /\ [Next]_vars => Inv'
BY TypeInv, JobsInv, WorkerInv, AdoptedInv, AbandonedInv, OpenInv DEF Inv

\* The invariant holds of every state a play reaches.
LEMMA Invariance == Spec => []Inv
BY InitInv, StepInv, PTL DEF Spec

-----------------------------------------------------------------------------
(* The theorems. *)

\* Type correctness of a play request, for any bounds.
THEOREM TypeCorrect == Spec => []TypeOK
BY Invariance, PTL DEF Inv

\* A copy whose video the stub or body probe rejected is never adopted and never
\* played, by whichever of the five ways a job is found (resolver_submit.py,
\* resolver_history.py).
THEOREM RejectedStaysOut == Spec => []RejectedNotPlayed
<1>1. Inv => RejectedNotPlayed
  BY DEF Inv, AdoptedIsThere, RejectedNotPlayed
<1> QED  BY <1>1, Invariance, PTL

\* An abandoned play leaves no download of its own running unattended, but for the
\* excepted ones (resolver_submit.py: cancel_after_submit; resolver_poll.py).
THEOREM AbandonedIsCleanedUp == Spec => []NothingRunsOn
<1>1. ASSUME Inv PROVE NothingRunsOn
  <2> SUFFICES ASSUME Abandoned, NEW a \in Attempts, Live(a), ~Unlearnt(a), ~excused
               PROVE  FALSE
    BY DEF NothingRunsOn
  <2> USE <1>1, BoundsAssumption, Numbers DEF Inv, TypeOK
  <2>1. a <= attempt
    BY DEF JobsAreMade, Live, Attempts
  <2>2. a = attempt /\ worker \in {"idle", "looked", "done"} /\ nzo \in {None, a}
    BY <2>1 DEF Unlearnt, Attempts, Workers
  <2>3. Withdrawing
    BY DEF AbandonedIsWithdrawn
  <2> QED  BY <2>2, <2>3 DEF Withdrawing
<1> QED  BY <1>1, Invariance, PTL

\* The play implements PlayRequest: Kodi's handle is answered once and for all, and
\* backup uploads are fetched for it only while it is open or played.
THEOREM Implements == Spec => ImplementsRequest
<1>1. Init => Request!Init
  BY DEF Init, Request!Init
<1>2. ASSUME Inv, [Next]_vars
      PROVE  [Request!Next]_<<answer, backups>>
  <2> USE <1>2 DEF Inv, OpenUntilEnded, Request!Next, Request!FetchBackups, Request!Accept,
              Request!Refuse, vars, outcome
  <2>1. ASSUME NEW reason, Refuse(reason), pc # "ended"
        PROVE  Request!Refuse
    BY <2>1 DEF Refuse, StopBackups, Withdrawn
  <2>2. ASSUME NotEnding PROVE UNCHANGED <<answer, backups>>
    BY <2>2 DEF NotEnding
  <2>3. ASSUME Announce \/ Prepare \/ Prompt
        PROVE  [Request!Next]_<<answer, backups>>
    BY <2>1, <2>3 DEF Announce, Prepare, Prompt
  <2>4. ASSUME ReusePack \/ FindCompleted \/ StartAttempt \/ Pump \/ PumpLooks \/ Classify
               \/ AdoptLate \/ Backoff \/ Raises
        PROVE  pc # "ended" /\ (NotEnding \/ \E reason : Refuse(reason))
    BY <2>4 DEF ReusePack, FindCompleted, StartAttempt, Pump, PumpLooks, Classify, AdoptLate,
                Backoff, Raises, NotEnding
  <2>5. ASSUME PollHead \/ Poll \/ PollWait
        PROVE  pc # "ended" /\ (NotEnding \/ \E reason : Refuse(reason))
    BY <2>5 DEF PollHead, Poll, PollWait, StopsOnQueue, HandleNothing, HandleHistory, RowFailed,
                VideoThere, VideoIsStub, NoVideoYet
  <2>6. ASSUME Outside \/ Worker \/ \E j \in Jobs : ProbeHits(j)
        PROVE  NotEnding
    BY <2>6 DEF Outside, AddurlRuns, JobEnds, StubGrows, UserCancels, KodiStops, PluginUnchanged,
                Worker, WorkerReturns, WorkerLooks, WorkerIsDone, WorkerUnchanged, ProbeHits,
                NotEnding
  <2>7. CASE UNCHANGED vars
    BY <2>7
  <2> QED
    BY <2>1, <2>2, <2>3, <2>4, <2>5, <2>6, <2>7 DEF Next, Plugin
<1>3. Spec => [][Next]_vars
  BY PTL DEF Spec
<1> QED  BY <1>1, <1>2, <1>3, Invariance, PTL DEF Spec, ImplementsRequest, Request!Spec
==============================================================================
