------------------------------- MODULE MCBackups -------------------------------
(***************************************************************************)
(* The backup downloads of a play under either backend.  The setting       *)
(* playback_backend chooses the worker: with nzbdav BackupWorker's, with   *)
(* NZBGet NzbgetPlay's; the other one stands still.                        *)
(***************************************************************************)
EXTENDS BackupWorker, NzbgetPlay

\* Two other uploads, and the primary itself in one of the lists.
CONSTANTS c1, c2, c3
ThreeCandidates == {c1, c2, c3}
ListsOfThree == {<<>>, <<c3, c1, c2>>, <<c2, c1>>}

VARIABLE backend
vars == <<backend, backupVars, nzbgetVars>>

NoBackups ==
    /\ wpc = 0 /\ todo = 0 /\ existing = 0 /\ ticks = 0 /\ seenLive = 0 /\ recorded = 0
    /\ rpc = 0 /\ stop = 0 /\ started = 0 /\ hook = 0 /\ dead = 0 /\ playing = 0 /\ nzbdav = 0 /\ flag = 0 /\ earlier = 0
    /\ asked = 0 /\ taking = 0 /\ session = 0 /\ excused = 0 /\ missed = 0
    /\ heard = 0 /\ quit = 0
NoNzbget ==
    /\ keyed = 0 /\ job = 0 /\ pc = 0 /\ current = 0 /\ exclude = 0 /\ stale = 0 /\ seen = 0
    /\ vetoed = 0 /\ rescued = 0 /\ pick = 0 /\ submitted = 0 /\ doomed = 0 /\ cancel = 0
    /\ dupeWorker = 0 /\ played = 0 /\ blind = 0 /\ slipped = 0

Init == \/ backend = "nzbdav" /\ BackupInit /\ NoNzbget
        \/ backend = "nzbget" /\ NzbgetInit /\ NoBackups

Next ==
    \/ backend = "nzbdav" /\ BackupNext /\ UNCHANGED <<backend, nzbgetVars>>
    \/ backend = "nzbget" /\ NzbgetNext /\ UNCHANGED <<backend, backupVars>>

-----------------------------------------------------------------------------
\* BackupWorker, resolver_fallback.py: a refused play leaves no backup running in nzbdav.
NzbdavNoOrphans == backend = "nzbdav" => NoBackupLeft
\* BackupWorker, resolver_playback.py: the session was sent every backup recorded.
NzbdavSessionHasBackups == backend = "nzbdav" => SessionHasBackups
\* BackupWorker, resolver_fallback.py: the delay is cut short when, and only when, the
\* play was seen to come and go.
NzbdavDelayHeedsPlayback == backend = "nzbdav" => DelayHeedsPlayback
\* NzbgetPlay, nzbget_resolver.py: a cancelled play leaves nothing behind in NZBGet.
NzbgetNoOrphans == backend = "nzbget" => NoDupeLeft
\* NzbgetPlay, nzbget_resolver.py: a play is failed only when its group has nothing left.
NzbgetFailedIsExhausted == backend = "nzbget" => FailedIsExhausted
\* NzbgetPlay, nzbget_api.py: the download of another client is neither deleted nor played.
NzbgetOthersLeftAlone == backend = "nzbget" => OthersLeftAlone
\* BackupWorker, resolver_fallback.py: the same for a play started over another, refuted.
NzbdavNeverStranded == backend = "nzbdav" => NeverStranded
================================================================================
