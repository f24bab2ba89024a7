# Verification of nzbdavkodi

nzbdavkodi is a Kodi add-on. It searches Usenet indexers, submits an NZB to
nzbdav or NZBGet, waits until the release can be streamed, and plays it through
a local HTTP proxy that hides what Usenet does badly: missing articles, slow
backends, half-downloaded files. The proxy (`resources/lib/stream_proxy*.py`)
is threaded, long-lived and full of deadlines, and it is where the behaviour is
that tests hardly reach: most of the models are about it.

Paths below are relative to `src/repo/plugin.video.nzbdav/resources/lib/`
unless they begin with `service`.

## 1. What is here

| Module | Models | Checked by | Proofs |
|---|---|---|---|
| `Passthrough` | the pass-through serve loop, the retry ladder, live cutover to a fallback upload, late merges and the warmer's verdicts | `MCPassthrough`: `PassthroughServe.cfg`, `PassthroughPair.cfg` | `PassthroughProofs` |
| `ProxySessions` | `/prepare`, the session tables, leases, the ffmpeg handle, every teardown path, proxy restart | `MCProxySessions`: `Sessions.cfg`, `SessionsFair.cfg` | `SessionProofs` |
| `ReadAhead` | the read-ahead window, its daemon and its readers | `MCReadAhead`: `ReadAhead.cfg` | `SessionProofs` |
| `HlsProducer`, `ProducerLife` | the persistent ffmpeg of an fMP4 HLS session and the requests for its files; what a session may rely on | `MCHlsProducer`: `HlsProducer.cfg` | `HlsProducerProofs` |
| `Resolve`, `PlayRequest` | one play request against nzbdav: adopt, submit with retries, poll, hand over; what Kodi may rely on | `MCResolve`: `Resolve.cfg` | `ResolveProofs` |
| `BackupWorker` | the thread that fetches backup uploads from nzbdav and pushes them to the session | `MCBackups`: `Backups.cfg` | `BackupsProofs` |
| `NzbgetPlay` | the same and the play itself with NZBGet: duplicates, failover, cancel | `MCBackups`: `Backups.cfg` | `BackupsProofs` |
| `PlaybackMonitor` | after the hand-over: callbacks, retries, the kept resume positions | `MCPlaybackMonitor`: `Playback.cfg` | `PlaybackMonitorProofs` |
| `FolderScan` | how the video of a job is found on the share by racing threads | `MCDecisions`: `Decisions.cfg` | `DecisionsProofs` |
| `ReleaseMatch`, `FallbackSelection` | which results may stand in for a release; the search that collects them | `MCDecisions` | `DecisionsProofs` |
| `GapConceal` | how a gap in a Matroska file is repaired, the same way for every request | `MCDecisions` | `GapConcealProofs` |
| `StreamTier` | how a stream is served, and the MP4 whose moov box is moved forward | `MCDecisions` | `DecisionsProofs` |
| `PlayRoute` | a call of the add-on from its arguments to the resolver | `MCDecisions` | `DecisionsProofs` |
| `Ordering` | sets in order and chosen members of a sequence, for `FallbackSelection` and `PlayRoute` | with them | `DecisionsProofs` |

`tlc -config X.cfg MCModule.tla` repeats a run and `tlapm ModuleProofs.tla` a
proof. `PROJECT.json` maps each definition to the lines it was read from, and
lists runs, mutants (a changed definition that makes each property fail),
hazards and findings.

## 2. The system

### 2.1 How the parts interact

```
Kodi / TMDBHelper ── plugin:// ─► router ─► search providers ─► filter, picker
                                    │
                                    ▼
                                resolver ── submit / poll ─► nzbdav or NZBGet
                                    │  └─ fallback worker (thread): submits backups
             POST /prepare          │        POST /stream/<id>/fallbacks
                                    ▼                    │
   service.py (Kodi service) ─► StreamProxy: HTTP server, session tables ◄─┘
      playback monitor                  │ one thread per request
      proxy restart                     ▼
                         handler: passthrough │ remux │ fMP4 HLS │ faststart
                                    │  reads ▲ RAM window
                                    ▼        │
                               nzbdav WebDAV ◄── prefetch, warmer, read-ahead daemons
```

The resolver runs in a short-lived plugin process and the proxy in the
service's process: they share only HTTP requests and window properties. Inside
the proxy, a *session context* (a dict) is shared without a lock by the request
threads, the read-ahead daemon, the warmer and the merge request; only the
tables (`_context_lock`), a session's ffmpeg handle (`ffmpeg_lock`), the
producer (`HlsProducer._lock`) and the read-ahead window have locks.

### 2.2 Inventory

**Pass-through serve loop** (`stream_proxy_handler_proxyserve*.py`,
`_upstream.py`, `_rangeparse.py`, `_rangecache.py`).
*State*: the request's `_ProxyStreamState` (position, counters, pending
candidate, terminal reason) and the session's remote URL, pool of fallback
sources, awaiting counter, stall flag. *Operations*: serve a prefix from RAM,
open and read upstream, run the retry ladder, wait for a download to advance,
cut over, skip and zero-fill, close. *Hard*: two range requests of one session
change the session under each other's feet between any two reads; a result is
classified from a flag set elsewhere. *Correct if*: the client gets each byte
of its range in order, once, from the right file; "complete" is said only of a
whole range; the request always ends; notices tell the truth.

**Live fallback cutover** (`_cutover.py`, `_probe.py`, `_fingerprint.py`,
`_standby.py`). *State*: the pool, with per-source failed / validated / misses
marks. *Operations*: scan, resolve a standby by job id, measure, compare
fingerprints, activate, demote the old source. *Correct if*: a source that is
another file never serves; a condemned source stays condemned and one that had
a hiccup is not condemned; no source is lost.

**Late merge and warmer** (`_mgr_sessions.py` 181-209, `_mgr_prefetch.py`
58-118, `resolver_fallback.py`). *Operations*: copy the pool, append, swap;
prevalidate in the background. *Hard*: a copy-then-swap against unlocked
appends; a dirty flag handed between threads.

**Sessions** (`_mgr_handoff.py`, `_mgr_sessions.py`, `_mgr_lifecycle.py`,
`_mgr_context.py`, `_handler_dispatch.py`, `_fallback.py` 300-364). *State*:
`stream_sessions`, `pending_stream_contexts`, the legacy `stream_context`; in
each context the lease count, `_cleanup_pending`, `_cleanup_started`, ffmpeg
handle, producer, temp file. *Operations*: prepare (clear the old play, build,
set up HLS, register and prune), GET lease and release, player stop and end,
failed prepare, stop, restart. *Hard*: five kinds of threads may decide to tear
the same session down while handlers are inside it. *Correct if*: resources are
released exactly once, never under a handler, never forgotten; at most one
ffmpeg per session; nothing closed comes back.

**Force-remux serve** (`_handler_remux.py`, `_handler_serve.py`,
`_ffmpeg.py`): one ffmpeg pipe per response, compare-and-swap on the session's
handle. Its process handle is in `ProxySessions`, its argument building is not
modelled.

**fMP4 HLS producer** (`_hls_ffmpeg.py`, `_hls_segment.py`,
`_handler_hlsserve.py`). *State*: ffmpeg process, start segment, generation,
spawn time, cached init segment, closed flag. *Operations*: prepare, wait for
init or for a segment, restart on a seek, reap, close. *Hard*: a waiter's
snapshot of the process is stale after another request's seek restarts it.
*Correct if*: a segment is served only complete and of the wanted index; a
waiter ends; close is final. Module `HlsProducer`.

**Read-ahead** (`_buffer.py`, `_mgr_prefetch.py` 184-325): see module
`ReadAhead`. *Correct if*: the window is always a run of the file, readers get
their own bytes, the daemon neither dies nor parks for ever.

**Start-up prefetches** (`_mgr_prefetch.py` 120-182, 330-426): the byte-0
prefetch a first reader waits for, the tail prewarm. *Hard*: a wait with a
timeout against a late answer.

**Recovery counters and notices** (`_recovery.py`, `_contract.py`):
session-wide zero-fill ratio, density breaker, one-shot "starved" notice,
timestamped outage flag. *Hard*: read-modify-write without a lock by several
handlers; signals that arrive out of order.

**HTTP server and control plane** (`_httpserver.py`, `_service.py`,
`_serviceprops.py`): worker slots, the prepare token, the loopback client.

**Service** (`service.py`, `service_proxy.py`): player callbacks, the playback
monitor (resume positions, retry after a failed start) and the proxy's restart.

**Resolver** (`resolver*.py`): submit with retry and adoption of a job that was
queued although its answer was lost; poll queue and history until ready; cancel;
hand over to the player. *Hard*: a submit that timed out may have been accepted;
cancel against completion; a row found by its title may belong to another
attempt. *Correct if*: the request is answered once; a rejected copy is not
played; no download of an abandoned play runs on; the poll ends. Module
`Resolve`.

**Fallback worker** (`resolver_fallback*.py`, `router_fallback.py`,
`dead_candidates.py`): submits backups one by one, pushes each to the session,
stops with the play. *State*: the recorded jobs, the stop and start events, the
hook. *Hard*: the append, the stop, a join that may time out, the cancel and
the snapshot of the session meet in any order. *Correct if*: nothing it asked
for outlives a refused play, and nothing recorded is lost. Module
`BackupWorker`.

**NZBGet resolver** (`nzbget_*.py`). *State*: the ids submitted, the member of
the group that is followed, the worker, the cancel event. *Hard*: NZBGet fails
over by itself, and its queue has other clients. *Correct if*: a cancelled play
leaves nothing, a play is failed only when its group is exhausted, others'
downloads are left alone. Module `NzbgetPlay`.

**Playback** (`service.py`, `resolver_playback.py`, `resolver_resume.py`,
`resume_*.py`). *State*: the window properties, the monitor's state, the file
of resume positions that two processes rewrite. *Hard*: callbacks, the loop and
the next play's hand-over, and checks and writes under different acquisitions.
*Correct if*: no release keeps a position it was not played to; monitoring ends
with its play; a stop is final. Module `PlaybackMonitor`.

**Share** (`webdav*.py`, `episode_inventory.py`): inventory and scan of a job's
folder by a pool of threads. *Correct if*: the wanted episode is found whatever
their order. Module `FolderScan`.

**Fallback matching** (`fallback_streams*.py`, `nzb_manifest.py`): gates,
profile, manifest, ranking (`ReleaseMatch`), and the search with its fetch
threads and timers (`FallbackSelection`). *Correct if*: backups are other
postings of the same content, and no candidate is passed over.

**EBML concealment** (`ebml_conceal*.py`, `_handler_conceal.py`). *State*: the
tracker of a request, the plans of the session. *Correct if*: a range asked for
twice has the same bytes, and a player can parse them. Module `GapConceal`.

**Serving tiers and MP4** (`_mgr_context.py`, `_mgr_probe.py`,
`_mgr_faststart.py`, `mp4_parser.py`, `_handler_serve.py`). *Correct if*: the
moved moov box points to the bytes it pointed to. Module `StreamTier`.

**Router** (`router*.py`, `streamnzb_player.py`, the sorting of `filter.py`):
from a call to the resolver. *Correct if*: Kodi's handle is answered exactly
once, what the resolver is told is true, and a recovered episode is one that
Kodi shows. Module `PlayRoute`.

**The rest**: season packs' recording, caches and ledger, search, clients,
`ptt/`, installer, texts: see 2.3.

### 2.3 Not modelled, and why

* Search providers, indexers and the protocol clients (`hydra.py`,
  `prowlarr.py`, `direct_indexers.py`, `indexer_*.py`, `newznab_caps.py`,
  `http_util.py`, `xml_safety.py`): HTTP, XML and JSON without state between
  calls. What they answer, an error included, is a choice of the modules that
  ask. Only the parts of `nzbdav_api*.py` and `nzbget_api.py` that decide which
  row is meant and what an error is are modelled, with their callers.
* The vendored title parser `ptt/` (some 4,700 lines of regular expressions)
  and the tag filters over what it parses: `ReleaseMatch` is given the tags.
* `dv_*.py` (bit parser of Dolby Vision headers), `i18n.py`, `telemetry.py`,
  `player_installer.py`, the drawing of the dialogs, the settings menu:
  pure functions, texts, files and user interface.
* The worker slots of the HTTP server, the counters of `_recovery.py`, the
  start-up prefetches: they bound or speed up what the models leave open. Each
  zero-fill, give-up and hit of a prefetched prefix is a choice in
  `Passthrough`, so every value of them is covered, but not whether they are
  kept right.
* The catalogue of season packs as a file, and the ageing of the caches.

## 3. The models

All follow one rule: a thread has a program counter, an action is what the code
does between two points where another thread can come in (a lock, a read or
write of a socket, a wait), and shared state that the code reads before such a
point and uses after it is kept as a local of the thread. What lies outside
`src/` (nzbdav, NZBGet, Kodi, ffmpeg, upstream servers) answers by choice.

### 3.1 Passthrough

One session, `Handlers` request threads, one record `hs[h]` per thread (the
code's `st` plus the locals of the call in progress). The file is `N` chunks; a
source is one upload. Where the code asks the network, the answer is a choice.

| Code | Actions |
|---|---|
| `_serve_proxy` up to the loop; prefix from RAM | `Request`, `PrefetchPrefix`, `Prelude` |
| `_stream_upstream_range` | `OpenOk`, `OpenFails`, `Chunk`, `BodyEnds`, `Watchdog`, `Disconnect` |
| the retry ladder, the step after it, the stall wait, giving up | `Retry`, `Progress`, `StallWait`, `StallDone`, `GiveUp` |
| candidate selection, standby resolution, match verdict, activation and demotion | `Select`, `Scan`, `Refresh`, `Probe` with `Verdicts`, `Activate`, `Condemn` |
| skip probe, zero-fill, budgets, end of the request | `SkipProbe`, `ZeroFill`, `Finalize` |
| `merge_session_fallbacks` | `MergeCopy`, `MergeSwap` (two steps: the handlers do not take its lock) |
| the background warmer's verdicts | `WarmResolve`, `WarmValidate` |
| Kodi shutting down | `KodiAbort` |

The read-ahead window is addressed by offset and survives a cutover, so the
bytes `Prelude` serves from RAM may be those of any source the session read
from before (`inRam`), whichever it reads from now: `_serve_from_readahead`
does not ask. A selection looks at a candidate more than once, with network
calls in between (`Selectable`, `Look`), while other handlers condemn, demote
and cut over.

History variables (`servedBy`, and in the record `wire`, `feeders`, `owed`,
`barred`, `failLie`, `tripped`) record what the client saw and what a selection
was told, so that properties speak of what happened and not of the bookkeeping.
Abstracted: digests (a
verdict may say "same" only of a source in `Same`), the session-wide ratio and
the density breaker (either may close the response at a gap), elapsed time (a
wait ends by timeout or by its event).

### 3.2 ProxySessions

A member of `Plays` is one `/prepare` and the session it may create; every
critical section is one action. `TakeAll` / `CleanupOrDefer` / `CleanupSession`
are shared by all five callers, as in the code: take the contexts out of the
tables under the lock, then for each one either claim it (`_cleanup_started`)
or mark it pending for the last handler, then release what was claimed outside
the lock. `ReleaseLease` is the other half: the last handler claims a pending
session. The body of a response is abstracted to the points where the session (`SpawnRemux`, `KeepOrKill`, `Untrack`, `EnsureProducer`).
`MistakenHls` is an HLS request for a session of another mode: `_handle_hls`
takes a lease, answers 404 and returns before its `try`/`finally`, and the lease
stays (`leaked`).

Abstracted: time stamps (which session is least recently used, and whether one
is expired, is a choice), the mode a context gets (`Kinds` says which each
`/prepare` may get), how long
killing a process takes, HLS segments.

### 3.3 ReadAhead

The window is `[base, data]` and a byte of the file is its offset, so that "the
right bytes" can be stated. Each method of `ReadAheadBuffer` is an operator on
the window, since each holds the lock throughout; each *call* is a step. So a
seek can fall between the daemon's `next_fetch_offset` and its `append`, and
another reader between a handler's `read_prefix`, its write, `free_behind` and
`update_served_high_water`. A pre-emption inside a method cannot be seen from
outside it.

### 3.4 HlsProducer

A file in the session's directory is `[gen, whole]`: which ffmpeg wrote it last
and whether it finished it. The code compares a file's modification time only
with the time of the last start of ffmpeg, so `gen` stands for it. ffmpeg is
the actions `WriteInit`, `OpenSegment`, `CloseSegment`, `FFmpegFails`, and
`FFmpegEndsEarly`: a clean exit before the last expected segment, whose number
comes from an estimated duration. A
restart (`Restart`) is one action because it holds `_lock` throughout, and it
unlinks what `_fmp4_generation_boundary` unlinks. A request walks through
`wait_for_init` or `wait_for_segment` step by step; `snap` is the start time it
read under the lock and uses after it. `Close` and `Kill` are two steps, as the
killing goes on outside the lock.

`ProducerLife` is all `ProxySessions` assumes of a producer: ffmpeg starts and
ends until the producer is closed, and a closed one stays closed.
`ImplementsLife` is the refinement (`INSTANCE ProducerLife WITH life <- ...`).

### 3.5 Resolve

Job 0 is a copy left by an earlier play, job `a` the one nzbdav makes of submit
attempt `a`; all have the same title, which is what the adoption by name has to
live with. The plugin thread walks through `resolve` (`ReusePack`,
`FindCompleted`, `StartAttempt`, `Pump`, `PumpLooks`, `Classify`, `AdoptLate`,
`Backoff`, `Announce`, `PollHead`, `Poll`, `PollWait`, `Prepare`, `Prompt`), the
submit worker and its two probes run beside it. nzbdav may accept an `addurl`
whose answer is lost, finish, fail or lose a job, or leave a folder without a
video. What the dialogs say is left out; why a play ended (`why`) is kept.

`PlayRequest` is what Kodi sees: one answer, and backups fetched only on behalf
of a play that is open or was handed over; `ImplementsRequest` is the refinement.

### 3.6 BackupWorker and NzbgetPlay

The two backends' ways to have several uploads of one release. In
`BackupWorker` the worker thread (`wpc`) waits for playback (`AwaitPlayback`,
`Prewarm`), during which it reads `nzbdav.playing` (`flag`) again and again;
the service raises and clears it late, a reading may fail, and the play the user
left for this one (`earlier`) may still hold it and clears it when its stop is
reported (`EarlierStops`). What the worker read (`heard`) and where it gave up
(`quit`) are kept as history. It then looks for existing jobs, submits, records and pushes; the resolver
thread (`rpc`) prepares the session from a snapshot, arms the hook, flushes and
hands over, or refuses and withdraws. `Record` is `_append_job`, which holds the
lock; the hook runs outside it (`RunHook`, `WorkerPushes`).

In `NzbgetPlay` the resolver's thread follows the job it submitted
(`PollTracked`), then the group with the same duplicate key (`Scan`, `Adopt`,
`FollowSuccess`, `LookAgain`), re-submits a pick vetoed as a copy (`Rescue`),
and cleans up (`Cancel`, `SetCancel`, `CancelHistory`, `CancelQueue`) against a
worker that may be anywhere (`dupeWorker`). A job, also one that was there
before, may end at any time, before and after the poll takes stock of what is
done already. NZBGet's own failover
(`Promoted`) is modelled after how the code reads its queue and history.
`MCBackups` picks one backend per behaviour: they share no state.

### 3.7 PlaybackMonitor

Three threads: the service's loop (`tick`), Kodi's callbacks, one at a time
(`call`), and the next play's plugin thread (`plug`), which runs in another
process. The window properties are written and read one group at a time, the
monitor's state under its lock, Kodi's position outside it (`GetTime` before
`SetPosition`). `resume.json` is read and replaced as a whole by both processes,
so each has its own copy between reading and writing. A play may be asked for
at any time, also while another one runs or is still monitored. Two histories
record what then happens: `overlap`, a play was asked for before the last was
through, or a retry was begun over a play that is; `mixed`, the releases whose
monitor noted down where another one's play is (`Notes`). Files of other add-ons
in the same player are not modelled.

### 3.8 The decisions

`FolderScan`, `FallbackSelection`, `GapConceal`, `StreamTier` and `PlayRoute`
share no state and are checked in one run, `MCDecisions`, whose behaviours each
begin by choosing one of them.

* `FolderScan`: a scan is named by its path in the tree; each level has a small
  pool of threads that share the visited set and the cache of file sizes. A
  file name is reduced to how it relates to the wanted episode, how many words
  of the title it shares and whether it is an extra.
* `ReleaseMatch` holds the pure decisions over releases (content gate,
  metadata profile, size gate, what the manifest of an NZB says, ranking), over
  tags that are already parsed; `FallbackSelection` is the search with its fetch
  threads (`FetchDone`) and timers (`SettleExpires`, `TailExpires`,
  `StallSpeculates`), any of which may come at any time.
* `GapConceal`: the file is its elements with the offsets of header, payload
  and end; a tracker is fed each byte sent; `Plans` is `plan_concealment`, the
  store is the session's, and two requests over one gap plan, commit, replay or
  fall back to zeros in any order, while the gap may heal. A plan whose Void
  would be shorter than its own header is refused (`fit`, `void_header`).
* `StreamTier`: a file is its boxes; `TierNext` is `prepare_stream`'s choice
  with every probe's outcome, and `Get` maps a range of the virtual file to the
  header in memory and the remote bytes.
* `PlayRoute`: one invocation, `Identify`, `Search`, `Filter`, `MarkRows`,
  `Pick` or `AutoSelect`, and what the resolver is `given`; any step may raise.

### 3.9 How they compose

`ProxySessions` leaves open what a handler does between `Lease` and
`ReleaseLease`: for a pass-through session that is a request of `Passthrough`,
whose reads of RAM (its `PrefixMax`) are those of `ReadAhead`; for an HLS
session it is a request of `HlsProducer`. What the one assumes of the other is a
checked property of the other: `ReadAhead` lets its buffer be stopped only when
no handler is inside, which is `NotCleanedInUse`; `Passthrough` takes the bytes
of its prefix to be the file's, which is `HitIsExact`; `ReadAhead` takes a
fetched byte to depend on its offset only, which is `NoForeignBytes`;
`ProxySessions` takes a closed producer to stay closed, which is
`ImplementsLife`; `Resolve` and `BackupWorker` meet in the withdrawal that
`PlayRequest` demands and `NzbdavNoOrphans` carries out; `Passthrough`'s
constant `Same` is what `PeersDiffer` and the fingerprints stand for.

## 4. The runs

| Run | Asks | Bounds, and why they are enough |
|---|---|---|
| `passthrough_serve` | is every byte delivered in order, is "complete" true with late standbys merged and warmed, and does a request end whatever upstream answers | 2 chunks: before and after a cut, and a skip of one; a doomed standby in the pool and a good one merged late; a ladder of 2; stall and await budgets of 2, so that each is used, reset and used up |
| `passthrough_pair` | can two concurrent cutovers let a foreign file through, move to a source that was condemned, or blame one that delivered | 2 handlers, 1 chunk, a foreign and a good backup: the interleavings of two selections, of a selection with a demotion, and of either with bytes an earlier source left in RAM; the length of the file plays no part |
| `sessions` | released once, not in use, one ffmpeg, closed stays closed | 2 plays, of any mode each, in a table of 1 (the second evicts the first), 2 handlers, a player stop, a restart and a mistaken HLS request: every pair of teardown paths meets |
| `sessions_fair` | is what was taken out of the tables released in the end | an HLS play and a remux one, 2 handlers, a restart and a mistaken HLS request; no player stop (its teardown is the same three operators), which keeps the liveness check within some 580,000 states |
| `readahead` | right bytes, lead kept, daemon ends and fills | 3 offsets, cap 2, chunk 2: a seek before, into, at the end of and past the window, a full window and the end of the file; 2 handlers |
| `hls_producer` | are the files served and cached whole, is a lone waiter answered, does the producer refine `ProducerLife` | 3 segments, a forward window of 1: a seek back, one within and one past the window; 3 starts of ffmpeg (`prepare`'s, a first restart and one more), 1 end of ffmpeg by itself, failed or clean; 2 handlers |
| `resolve` | one answer, no rejected copy played, nothing abandoned runs on, and an end | 2 submit attempts and an old copy: a job that is this attempt's, an earlier one's, an earlier play's; 2 poll rounds and 2 looks without a video: a first and a last |
| `backups` | both backends: no orphan, nothing lost on the way to the session, nothing of another's touched, no early failure | 3 candidates, one of them the primary itself, 2 polls of the delay, an earlier play or none; with NZBGet a pick, a backup, two extras and another client's job |
| `playback` | whose position is kept, and does monitoring end | 2 plays of one release or two, one after the other or overlapping, 1 retry, positions beginning and end, 1 callback under way. The view leaves out `nzbdav.playing`, which no action or property of the module reads |
| `decisions` | see 3.8 | a job folder with two subfolders that name one third; 8 releases of which a search finds any 3 in any order; a Matroska file of two clusters with sized and unsized elements and gaps in one element, across several, in two clusters; MP4s with moov last, first, absent, too far; the calls of each route |

Counters the code leaves unbounded have a named bound in a guard (`MaxStops`,
`MaxRestarts`, `MaxSpawns`, `MaxAsked`, `MaxDeaths`, `MaxEvents`, `MaxJobs`).
Deadlock is checked for `Passthrough`, whose one state of rest (Kodi gone, every
thread unwound) is the explicit `Halted`, and in `decisions`. Elsewhere the
system really comes to rest: the plays are finite in number, a request ends, a
worker is through. What must not be left undone then is what
`TakenIsReleased`, `StoppedEnds`, `NzbdavNoOrphans` and the like say.

What they show: apart from the divergences below, the properties hold over all
interleavings of the instances. The deep ones:

* `NoForeignBytes`: no byte of a file outside `Same` reaches a client,
  although verdict and use are separated by network calls, a second handler
  may demote meanwhile and the merge swaps the list.
* `CompleteMeansDelivered`, `Contiguous`: the bookkeeping of ladder, prefix,
  body and zero-fill never drifts from what is on the wire.
* `ToastsTrue`: each cutover has one outcome notice, across deferred ones and
  with two handlers cutting over, and no failure notice blames a source that
  delivered, except where the code does so (a broken Range contract after bytes
  from RAM; the stall flag of another request). That a success notice is earned
  is not so, see below.
* `CondemnedForGood`: while the session's list holds a condemned source it stays
  condemned, and no selection moves the session to one that was condemned when
  it began and at each look it took since, whichever thread condemned it. A
  source condemned between the last look and the switch can still be switched
  to, see below.
* `RequestEnds`: cutovers, fall-throughs, stall waits and zero-fills re-enter
  one loop, and together they end.
* `CleanedOnce`, `NotCleanedInUse`, `TakenIsReleased`: exactly-once release.
  The last has two excuses: a lease that a mistaken HLS request kept (see below),
  and a prepare whose pending context was taken out, but not torn down yet, and
  which registers it all the same.
* `OneFfmpeg`: of two GETs that both saw no process, one kills its own.
* `ClosedStaysClosed`: a producer closed by a teardown is not revived by the
  prepare that was about to start it.
* `LeadSurvives`: a byte leaves the window only behind a handler that has been
  served past it or by a seek out of the window.
* `FillsWhilePaused`: with the player paused the window ends up full or at the
  end of the file, unless the daemon has ended.
* `ServedWhole`, `InitIsWhole`: in a directory that holds files of several
  ffmpegs under the same names, what is sent and cached was finished; the
  exceptions the code allows are written out in the property.
* `LoneWaiterServed`: the gate, the restart rule and the completeness test
  agree, so a request that waits alone is answered with at most one more start
  of ffmpeg. Asked of every waiter while one start is left, it would fail for
  one that restarts ffmpeg again and again: the bound would leave it waiting.
  Excused is one for whose segment ffmpeg, when it came to restart it, had
  nothing left to write (`missed`): it restarts past the end of the file until
  its deadline.
* `RejectedNotPlayed`, `NothingRunsOn`: five ways to find a job by id or by
  title, and none plays a rejected copy; a cancelled play cancels what it can
  know of.
* `ImplementsRequest`: Kodi is answered once, and no path that refuses a play
  leaves its backups being fetched.
* `NzbdavNoOrphans`, `NzbdavSessionHasBackups`,
  `NzbgetNoOrphans`, `NzbgetFailedIsExhausted`, `NzbgetOthersLeftAlone`: the
  backup worker against refusal, hand-over and cancel at any point.
* `NzbdavDelayHeedsPlayback`: from a flag that the service raises and clears
  late, another play clears too and a reading may miss, the worker's latch draws
  the right conclusions: it gives up only when its play is over (or was started
  over another), and having seen the flag up and then down asks for nothing.
* `KeptWasReached`, `MonitoringEnds`: of two plays, callbacks and a loop that
  act late, no release keeps a position it was not played to, but for those whose
  monitor was told of another one's play; and that takes plays that overlap, or a
  retry of one that was stopped.
* `FindsEpisode`: threads that cancel each other and share a visited set without
  a lock still find the episode.
* `PeersDiffer`, `NonePassedOver`: late manifests and timers neither admit a
  copy of what is there nor leave a candidate out while slots are free.
* `SameRepair`, `Readable`: two requests repair one gap with the same bytes, and
  a parser fed those bytes is in step with the original after it.
* `ReachesChunks`: any range of the rewritten MP4 has the bytes the moved box
  points to.
* `AnswersHandle`, `TellsTheTruth`, `RecoversOne`: every path of the router,
  those that raise included, answers once and passes on only what it looked up.

Each property of a passing run fails for a mutant of a modelled definition
(`PROJECT.json`): a dropped guard, a late mark, a missing compare-and-swap, a
wait that never times out.

### Where code and comments disagree

Two are runs and findings of the project:

| Run | What TLC shows |
|---|---|
| `div_merge_loses` | a demotion between the merge's copy and its swap loses the demoted source |
| `div_stop_is_final` | a stop between the loop's check of the error state and its write of the retry is undone: the stopped file starts again, although the comment on the lock says it is there to prevent that |

Thirteen more are kept as configurations beside the modules; each ends in a
counterexample, most in seconds:

| Configuration | What TLC shows |
|---|---|
| `DivStallFlag.cfg` (`StallReasonIsOwn`) | the stall flag is the session's: one request's watchdog makes another request's client disconnect look like a stall (`stream_proxy_handler_proxyserve2.py:258`) |
| `DivBlip.cfg` (`BlipNeverCondemns`) | a standby whose length probe returned 0 once is condemned by the same selection (`stream_proxy_handler_probe.py:51`) |
| `DivStaleFfmpeg.cfg` (`NoStaleFfmpeg`) | a play torn down while a GET holds its lease keeps its ffmpeg, and may start one, after the next play's teardown |
| `DivCancelledHls.cfg` (`CancelledIsClosed`) | a prepare torn down between registering its pending context and making its producer fails, and leaves the producer running |
| `DivNoRefill.cfg` (`SeekIsRefilled`) | the read-ahead daemon returns for good once the window reaches the end of the file (a read of the tail is enough), so a seek back is never refilled |
| `DivStaleSegment.cfg` (`NoStaleSegment`) | after a restart at segment n + 1 an old segment n counts as complete, because its successor is new (`stream_proxy_hls_segment.py:87`) |
| `DivColdStarts.cfg` (`OneStartPerRequest`) | two waiters far apart kill each other's ffmpeg in turn |
| `DivSuccessToast.cfg` (`SuccessIsEarned`) | bytes of the old source, which a cutover leaves in the read-ahead window (`stream_proxy_mgr_prefetch.py:277`), make the proxy announce the new one as "just delivered playable bytes" (`stream_proxy_handler_proxyserve.py:284`) |
| `DivCondemnedRace.cfg` (`NeverToCondemned`) | while one request compares fingerprints with a candidate, another condemns it; the match is applied without another look, and the session moves to a source that is "failed permanently" (`stream_proxy_handler_cutover.py:158`) |
| `DivHlsLease.cfg` (`ReleasedInTheEnd`) | an HLS request for a session of another mode never gives its lease back (`stream_proxy_handler_dispatch.py:357`), so a teardown that was deferred to the last handler never runs |
| `DivStranded.cfg` (`NzbdavNeverStranded`) | the stop of an earlier play clears the flag that the new play's worker reads, and a worker that had seen it up ends before it asked for a backup, although the latch is there so that it "degrades to a late submit rather than a wrongly stranded backup" (`resolver_fallback.py:326`) |
| `DivKeptIsOwn.cfg` (`KeptIsOwn`) | a play handed over while another is monitored: the loop writes down where the new one is as the position of the old one's release, against "Persist the last position under the original source stream identity" (`service.py:334`) |
| `DivDeadIsOwn.cfg` (`DeadIsOwn`) | the failed job of an earlier attempt is taken for the polled one's failure while that one downloads (`resolver_poll.py:271`) |

Seen while modelling, and left as they are in the models: the script's
auto-select says the history was looked up when the lookup failed
(`router_scriptplay.py:328`, excepted in `TellsTheTruth`); a row picked from the
"show all" list gets no fallbacks (`router.py:336`, hence `offered` in that
property); a search in which one provider failed is cached like a full one
(`router_play.py:97`); a plan of a gap that another request stored may be entered
in its middle (excepted in `Readable`); after a repair that ended at the first of
several Clusters of unknown size, the tracker's innermost Cluster is the one the
repair began in until the header of the next is read (why `Readable` compares
stacks only between elements); a backup recorded between the putting
together of the ids to delete and the telling of the worker is deleted by
neither (`slipped` in `NzbgetNoOrphans`).

Four more were found by proofs that would not go through. `_extract_ftyp`
(`mp4_parser.py:388`) returns nothing for an `ftyp` box that reaches past the
64 KB read first, while the layout it belongs to is kept: the virtual file then
lacks the box and every chunk is off by its length. TLC shows it when
`HeadProbe` is 1, and `ChunksAreFound` has `FtypInHead` as its hypothesis. And a
merge that copied the list before two cutovers, away from `p` and back, swaps in
a list without `p`; when `p` is condemned later and demoted, it enters the list
as new and is absolved. This has the cause of `div_merge_loses`, and is why
`CondemnedForGood` speaks of the sources the list holds.

The other two are of the scan of a share, and TLC shows both on small trees.
When one folder is reached at two depths (a loop of links on the server), the
scan that comes to it deeper marks it as visited, with its subfolders beyond the
depth limit, and the one that could have gone on finds it taken (`webdav_discovery.py:679`): with
`job` holding `a` and `b`, `a` holding `b` and `b` holding `c`, the episode in `c`
is missed. And a size that was evicted from the cache reads as 0, so that of two
files of the wanted episode, both evicted, the one that shares more words with
the title wins although it is a stub; this takes more folders than the cache has
entries (64, `webdav.py:62`). They are the hypotheses `SameDepth` and
`RoomForHints` of `EpisodeIsFound`; `Decisions.cfg` evicts (`HintMax` is 1), on a
share whose stub has fewer of the words.

## 5. Fairness

* `Passthrough`: weak fairness of each handler's own steps. Every call it
  makes has a timeout (open, read, write, probes, waits on Kodi's monitor), so
  a handler that can step does. Nothing is assumed of merge, warmer or upstream.
* `ProxySessions`: weak fairness of the steps of the GET handlers and of each
  clean-up once begun, for the same reason (socket write timeout, segment
  deadline, waits on a killed process). New requests, prepares, callbacks, deaths
  of the server and exits of ffmpeg need not happen.
* `ReadAhead`: weak fairness of the daemon (its waits and its fetch have
  timeouts), and strong fairness of an answer to its fetch: an upstream that is
  asked again and again answers at some time. `FillsWhilePaused` rests on it;
  `StoppedEnds` does not. Nothing is assumed of the handlers: a paused player
  blocks their writes for as long as it likes.
* `HlsProducer`: weak fairness of ffmpeg's writing and of each handler's wait
  loop, which polls at an interval. A handler may give up at its deadline, and
  other requests may restart ffmpeg, and it may end early; `LoneWaiterServed` says under which
  conditions it is answered all the same.
* `Resolve`: weak fairness of the plugin thread and of the submit worker, whose
  calls have timeouts; nzbdav owes nothing, so `PlayEnds` rests on the bounds of
  the poll alone. A prompt is answered by the user.
* `PlaybackMonitor`: weak fairness of the service's loop, which runs every
  second, and of the delivery of callbacks. Plays need not be asked for.
* `backups` and `decisions` check safety only.

## 6. The proofs

They hold for every number of handlers, plays, sources, candidates and jobs and
every size, under the named `ASSUME`s of the modules, which only say what the
constants are (finite sets, positive sizes, the primary is one of the files it
is the same as, thread names are distinct). TLC checks those assumptions in every
run. A theorem that needs more has it as a hypothesis of its own, and the list
below says why. `PROJECT.json` lists the theorems with the property each states.

Each proof module begins with the type invariant and goes on to the parts of the
inductive invariant, which are named for what they say; then comes what the
helpers keep, one lemma each, and a step lemma per action. The conjuncts of the
invariants were run as invariants by TLC before they were proved.

**`PassthroughProofs`**
* `OnlySameBytes` (`NoForeignBytes`). The property speaks of what reached a
  client (`servedBy`), and is not inductive: a chunk comes from `s.src`, the
  source a response was opened on at an earlier step, which was `remote` then,
  which a cutover set earlier still. `SafeInv` therefore follows the source:
  `remote`, the `src` of every handler, every source marked validated (a later
  selection takes such a one without a probe) and everything served are in
  `Same`. The types are strengthened by `ProbeInList`, without which the
  candidate a probe is about need not exist.
* `WireIsContiguous` (`Contiguous`), `CompleteIsWhole`
  (`CompleteMeansDelivered`), `OneToastEach`: `DeliveryInv`. Position, ladder,
  body and wire are four counts of one thing, and `Sound` says how they are
  related in the middle of a request; `InPlace` says which of them is in use at
  which step, and `owed` is the number of toasts a request has still to give.
  They speak of one request and are kept by the steps of all the others.
* `ToastsAreTrue` (`ToastsTrue`), with any number of handlers. `Fair` says that
  a pending candidate which has fed the request has bytes that are not accounted
  for yet (`lad + w > 0`), since accounting for them ends its being pending, and
  that a request that closes does not blame such a one, but for the two reasons
  the property excepts (`Excused`). `Owns` is what a request relies on of the
  session's list: while it searches, or has a candidate pending, the list is not
  empty, whatever the other handlers demote.
* `CondemnedStays` (`CondemnedForGood`), with any number of handlers. The search
  works on a copy of the pool (`list`) while the warmer and other searches
  condemn; what it has seen condemned when it came to it is in `barred`. `Wary`
  says that neither the candidate it is probing nor those it may still come back
  to are among them. It speaks of one search, so the steps of the others keep it.
* `NothingLostUnpushed` and `NeverAbsolvedUnpushed` (`PooledInv`): of a session
  that nothing is pushed to (`LateSources = {}`), no source is lost whatever the
  handlers do, and none condemned is ever absolved. So what `div_merge_loses`
  shows has no other cause than the merge.

**`SessionProofs`**, of `ProxySessions` and of `ReadAhead`, whose window belongs to a
session.

The sessions: `ReleasedOnce`, `NeverReleasedInUse`, `OneProcess`,
`TableBounded`, `NeverRevived`. The invariant `SafeInv` adds to
the types `Leased`, the lease count of a session *is* the number of handlers
that hold it (cardinalities of finite sets) and the leases nobody gives back, and `Claimed`: a session is
`started` only when it has no lease, and by one thread, which releases it
once. A lease is taken only of a session in the tables, and one in the tables
is not started. `OneFfmpeg` needs that the process of a handler at its pipe is
the one its session tracks. `NeverRevived` (`ClosedStaysClosed`) needs that a
prepare which has not come to make its producer has none (`NotMadeYet`): only
that step could replace a closed one. A lease that a mistaken HLS request kept
counts in `Leased` too (`leaked`): it delays a release for ever and allows none.

The window: `WindowIsARun`, `HitsAreExact`, `LeadIsKept`. The window
of every state is `Run(b, n)`, the `n` bytes of the
file from `b`, within the cap and the file, and what a handler holds is a run
from its own position; one lemma per method of the buffer shows that it takes
legal windows to legal windows and what it may throw away. `LeadIsKept` is an
action property that follows from the invariant.

**`HlsProducerProofs`**: `SentIsWhole` (`ServedWhole`), `CanonicalIsWhole`
(`InitIsWhole`), `Implements` (`ImplementsLife`). A waiter concludes from the
names and times of files that one is finished. `WritesInOrder` says what the
running ffmpeg has left so far (a whole init file, then whole segments up to
where it is), and `LooksAreGood` what a waiter's conclusion is worth at each
step until it is told of a restart. An ffmpeg may end cleanly before the last
segment; if the last one is there, it is whole. One that failed is counted in
`deaths`. `ServedInLife` ties both to `prepare` and
`close`. The refinement is proved step by step: initial state to initial state,
each action to a step of `ProducerLife` or to none.

**`ResolveProofs`**: `RejectedStaysOut` (`RejectedNotPlayed`),
`AbandonedIsCleanedUp` (`NothingRunsOn`), `Implements` (`ImplementsRequest`).
`WorkerKnows` and `AdoptedIsThere` follow a job from the answer that names it
through adoption and poll: it is never one that a probe rejected.
`AbandonedIsWithdrawn` says, for each way the plugin thread and the submit worker
can miss each other, which of them cancels.

**`BackupsProofs`**, of the behaviours of `MCBackups`, each of which picks one
backend.
* nzbdav: `RefusedLeavesNothing`, `SessionIsSentAll`, `DelayIsHeeded`.
  `AnsweredFor`: a download that runs is about to be recorded, or recorded and
  not yet gone over by a cancel. `OnItsWay`: a recorded source is in the
  session, or in the hands of one of the two threads that push. `NothingYet`:
  nothing is asked for before the delay is over, and the worker gives up only
  having heard the play end, which without an earlier play only that play's own
  end can tell it, as the flag is up for as long as it runs.
* NZBGet: `CancelledLeavesNothing`, `FailsLast`, `OthersAreSafe`. `KnowsItsJobs`
  (nothing the play appended is unknown to it), `BeforeThePoll` (before it takes
  stock nothing is followed or played), `LooksHold` (what the looks at
  queue and history found holds until something slips in between) and `CleansUp`
  (a backup nobody is going to delete is on the worker's list). `OthersAreSafe`
  is `OwnIds`: no id it keeps is another client's.

**`PlaybackMonitorProofs`**: `KeptPositionIsTrue` (`KeptWasReached`), for any
number of plays, overlapping or not. A position goes through the player, an
event, the monitor, a window property, the buffers of two processes and the file.
`CarriedRight` says of each that the position was reached by the play it came
from (`Told`), or by the release it will be kept for unless that one is mixed up
(`Right`). `Unmixed` says that no release is mixed up before plays overlap:
until then what is played, followed, handed over or told of is the last play
that was asked for (`OnePlay`).

**`DecisionsProofs`**, of the behaviours of `MCDecisions`.
* `AnsweredOnce` (`AnswersHandle`), `RecoversShownEpisode` (`RecoversOne`):
  what is owed follows from the stage a call is at (`AnsweredSoFar`,
  `EpisodeKnown`).
* `ChunksAreFound` (`ReachesChunks`): of any layout whose `ftyp` box is read
  whole (`FtypInHead`, see 4), any range. The boxes scanned are the file's, the
  shift is the length of the header, and a reply to a range is that range of
  header and payload put together.
* `NoneIsPassedOver` (`NonePassedOver`), `BackupsAreOthers` (`PeersDiffer`):
  `SelInv` says that each candidate taken from the results is under way, on the
  queue, waiting or looked at (`NoneLost`), and that a search that is not over
  has something to wait for (`LooksGoOn`). That the ranking neither loses nor
  repeats one needs that a finite total order has a sequence (`Ordered`), and
  that the recursive `Consume` keeps what holds of its accumulator. No induction
  theorem can be cited for these, as said below: the proofs take the smallest
  number for which the statement fails (`Greatest`, `Maximum`), which the theory
  of the natural numbers can find.
* `EpisodeIsFound` (`FindsEpisode`), for any tree, any listings, any number of
  workers and any order of their steps, of a scan that could read every folder.
  The scans share a set and a cache without a lock and cancel each other, so
  no scan alone is complete. `ScanInv` says it of all of them together. A file
  is worth 2 when it is the wanted episode, 0 when it is another's, else 1, and
  the ranks agree with that. `NothingDropped`: of every folder visited, each
  candidate is still in the hands of a running scan, or something worth as much
  is. `KidsLooked`: each folder a visited one names has been visited, or is
  about to be, or the wanted episode is in hand already. When the root's scan
  ends, what is in hand is its result. `RankedRight` and `BestKept` are the part
  of the cache: a rank was taken with the file's true size, which it remembers,
  since it holds at most one file of each folder. The hypotheses are
  `SameDepth`, a folder is reached at one depth, as in any tree of folders, and
  `RoomForHints`, there are no more folders than the cache has entries (see 4).
* `ToldWhatIsTrue` (`TellsTheTruth`): `Told`. What the resolver is given is put
  together from a row, the marks of the history and the rows that were dropped as
  its equals. `Told` says of every stage that the rows of a search differ in
  their links (`Deduped` keeps one of each, the sooner), that each mark is a job
  of the row's own title and size, that what is shown was filtered from the
  search, and that nothing is given before the pick.

**`GapConcealProofs`**, of the same behaviours.
* `StoredPlanIsSent`: every byte that a request sends inside a plan it knows, and
  that is still in the store, is the plan's. `RepairedTheSame` (`SameRepair`)
  adds the hypothesis that the store forgets no plan. The code keeps 64
  (`ConcealPlanStore`); once an older one is dropped, its gap may be planned
  anew and differently, so the property is not true without it. The invariant
  `Repairs` says that stored plans do not overlap, that nothing which a request
  may still read, or fill with plain zeros, lies in a plan it knows (`Clear`: it
  looks at the store when it takes its bound), and what the trackers look like,
  on which the start and end of a new plan depend.
* `RepairedReads` (`Readable`), of a file that is `WellFormed`: its own tracker
  (`Original`) is in step at every offset, each element stands where an element
  may begin, no two begin at one offset, and its one Segment lasts to the end of
  the file or has no size. Without this there is nothing to repair towards, and
  both files of `Decisions.cfg` are of this kind; one that is not, a file cut
  short within its Segment say, is claimed nothing of. `Shape` is what then holds
  of the file's tracker. `Reads` says when a request's tracker follows it: the same
  stack between elements (`Like` allows for another Cluster of unknown size before
  the header of the next, and after a scan for the made-up Segment), the same leaf
  inside one, or a Void that ends where the file has a boundary with what is then
  left of the stack. `PlanFills` says that the Voids of any plan fill it from the
  end of the leaf the gap is in up to its own end, each ending where its master
  does or at a Cluster (`Filled`), which is the arithmetic of
  `ebml_conceal_plan.py`; `Inside` is where the tracker is in the middle of a plan,
  and `PlanOn` that it comes out in step. `Readably` puts them together: every
  stored or pending plan is `Filled`, what was sent is made of bytes that keep a
  tracker in step or lose it (`SentGood`), and a request from the first byte that
  sent no plain zeros follows the file all along (`Follows`).

What the proofs show beyond the runs: the types of every module (`TypeCorrect`, and
`WindowTypeCorrect` of the window; the decisions have none of their own, as their topics share no state),
`TableBounded` (the table never exceeds its cap and the bare path's session is
in it), `WindowIsARun`, `OneToastEach` for any number of handlers,
`NothingLostUnpushed` and `NeverAbsolvedUnpushed`.

Some definitions were restated so that they can be reasoned about, with the runs
and mutants repeated: overlapping arms of `CASE` became `IF`, filtered sequences
(`SelectSeq`, `SetToSortSeq`) sequences of chosen positions (`Kept`, `InOrder`,
both of `Ordering`), folds recursive functions (`Consume`, and `FedSynced` and
`Sent` of `GapConceal`), the ranges of `StreamTier` and the steps of the search
and the table of `PlayRoute` operators of their own. `ConcealAssumption` and
`RouteAssumption` say more of the shape of a file's elements and of the rows a
provider answers with than before; TLC evaluates both.

Only model-checked:
* liveness (`RequestEnds`, `TakenIsReleased`, `StoppedEnds`, `FillsWhilePaused`,
  `LoneWaiterServed`, `PlayEnds`, `MonitoringEnds`), which is out of the prover's
  reach, as is `ENABLED`. Every invariant, action property and refinement of the
  passing runs is stated by a theorem.

## 7. Plan

1. `RangeStream`, the abstract promise of a response (a growing prefix of the
   range, each byte of the file or zero, then one terminal reason), shown to be
   implemented by `Passthrough`; `DeliveryInv` is the invariant it needs.
2. The counters of `_recovery.py` under several handlers, in place of the free
   choices of `Passthrough`; the warmer's dirty flag and the hint keys.
3. The catalogue of season packs, written by one play and read by another; the
   worker slots of the server.
