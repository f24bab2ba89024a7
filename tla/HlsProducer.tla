----------------------------- MODULE HlsProducer -----------------------------
(***************************************************************************)
(* The fMP4 HLS producer of one session (HlsProducer): a persistent ffmpeg *)
(* writes init.mp4 and then seg_<n>.m4s one after another; the handlers    *)
(* poll the directory for the file they want, and restart ffmpeg elsewhere *)
(* when the running one will not write it soon.                            *)
(*                                                                         *)
(* A file is [gen, whole]: the ffmpeg (counted from 1) that wrote it last, *)
(* 0 if there is none, and whether it finished.  A modification time is    *)
(* compared only with the time of the last spawn, so it is represented by  *)
(* gen.  Producer state is guarded by _lock except where the code reads it *)
(* without; the directory is guarded by nothing.                           *)
(***************************************************************************)
EXTENDS Integers

CONSTANTS
  Handlers,   \* threads serving /hls/<session>/ requests
  Last,       \* total_segments - 1
  Forward,    \* _HLS_FORWARD_WAIT_SEGMENTS
  MaxSpawns,  \* bound on ffmpeg starts
  MaxAsked,   \* bound on requests
  MaxDeaths   \* bound on ffmpeg failing, or ending before the last segment

ASSUME SizesAssumption ==
  Last \in Nat /\ Forward \in Nat /\ MaxSpawns \in Nat /\ MaxAsked \in Nat /\ MaxDeaths \in Nat

VARIABLES
  proc,       \* self._proc as poll() sees it: "none", "running", "ok", "failed"
  start,      \* _start_segment
  spawned,    \* _spawn_time: the number of the last ffmpeg
  initReady,  \* _init_ready
  closed,     \* _closed
  canonical,  \* _canonical_init_bytes: the file they were read from
  init,       \* init.mp4
  segs,       \* seg_<n>.m4s
  at,         \* where ffmpeg is: -1 before init.mp4 is whole, else its segment
  ppc,        \* where prepare() is
  cpc,        \* where close() is
  hs,         \* handlers: [pc, want, snap, file, respawned, missed]
  asked,      \* requests so far
  deaths      \* ffmpegs that failed or ended early so far

producerVars == <<proc, start, spawned, initReady, closed, init, segs, at>>
vars == <<producerVars, canonical, ppc, cpc, hs, asked, deaths>>

Segments == 0 .. Last
Absent == [gen |-> 0, whole |-> FALSE]
Exists(f) == f.gen # 0
File == [gen : 0 .. MaxSpawns, whole : BOOLEAN]
InitSeg == -1   \* what a handler wants when it wants init.mp4

Idle == [pc |-> "idle", want |-> 0, snap |-> 0, file |-> Absent, respawned |-> FALSE,
         missed |-> FALSE]

Alive == proc = "running"

Init ==
  /\ proc = "none" /\ start = 0 /\ spawned = 0
  /\ initReady = FALSE /\ closed = FALSE /\ canonical = Absent
  /\ init = Absent /\ segs = [n \in Segments |-> Absent] /\ at = InitSeg
  /\ ppc = "spawn" /\ cpc = "open"
  /\ hs = [h \in Handlers |-> Idle]
  /\ asked = 0 /\ deaths = 0

-----------------------------------------------------------------------------
(* _ensure_ffmpeg_headed_for, one critical section of _lock. *)

\* The running ffmpeg will not write segment n soon: it starts after n, or too
\* far before it.
NeedsRestartUnpolled(n) == proc = "none" \/ n < start \/ n - start > Forward
NeedsRestart(n) == ~Alive \/ n < start \/ n - start > Forward

\* The new target's file goes, so that its existence tells the new ffmpeg's
\* init.mp4 is whole; all others stay.
Unlinked(n) == [segs EXCEPT ![n] = Absent]

MayStartAnyway == TRUE
MayStart == ~closed

\* Kill, cross the generation boundary and spawn at n, which Popen may refuse.
\* A handler in the middle of a request is told (history) of the restart.
Restart(n) ==
  /\ spawned < MaxSpawns
  /\ segs' = Unlinked(n)
  /\ initReady' = FALSE
  /\ start' = n
  /\ spawned' = spawned + 1
  /\ proc' \in IF deaths < MaxDeaths THEN {"running", "none"} ELSE {"running"}
  /\ deaths' = IF proc' = "none" THEN deaths + 1 ELSE deaths
  /\ at' = InitSeg
  /\ UNCHANGED init

EnsureHeadedFor(n) ==
  /\ IF MayStart /\ NeedsRestart(n)
     THEN Restart(n)
     ELSE UNCHANGED <<proc, start, spawned, initReady, init, segs, at, deaths>>
  /\ UNCHANGED <<closed, canonical>>

Goto(h, pc) == hs' = [hs EXCEPT ![h].pc = pc]

\* Every other request under way sees the directory change under it.
GotoAfterEnsure(h, pc) ==
  hs' = [g \in Handlers |->
    IF g = h THEN [hs[g] EXCEPT !.pc = pc, !.snap = 0, !.respawned = FALSE]
    ELSE [hs[g] EXCEPT !.respawned = @ \/ (hs[g] # Idle /\ spawned' # spawned)]]

-----------------------------------------------------------------------------
(* ffmpeg. *)

FFmpegUnchanged == UNCHANGED <<start, spawned, initReady, closed, canonical, ppc, cpc, asked>>

\* init.mp4 is opened (truncating an earlier one), then finished.
WriteInit ==
  /\ Alive /\ at = InitSeg
  /\ \/ init # [gen |-> spawned, whole |-> FALSE]
        /\ init' = [gen |-> spawned, whole |-> FALSE]
     \/ init = [gen |-> spawned, whole |-> FALSE]
        /\ init' = [gen |-> spawned, whole |-> TRUE]
  /\ at' = IF init'.whole THEN start ELSE InitSeg
  /\ UNCHANGED <<proc, segs, hs, deaths>> /\ FFmpegUnchanged

\* Opening a segment truncates an old file of that name: whoever still reads
\* that file (the same inode) is cut short.
OpenSegment ==
  /\ Alive /\ at \in Segments /\ segs[at].gen # spawned
  /\ segs' = [segs EXCEPT ![at] = [gen |-> spawned, whole |-> FALSE]]
  /\ hs' = [h \in Handlers |->
       IF hs[h].pc = "send" /\ hs[h].want = at /\ Exists(segs[at]) /\ hs[h].file.gen = segs[at].gen
       THEN [hs[h] EXCEPT !.file.whole = FALSE] ELSE hs[h]]
  /\ UNCHANGED <<proc, init, at, deaths>> /\ FFmpegUnchanged

\* The segment is finished: ffmpeg goes on to the next, or is done.  A request that found
\* its file unfinished and is about to test whether ffmpeg lives has (history) missed it.
CloseSegment ==
  /\ Alive /\ at \in Segments /\ segs[at].gen = spawned
  /\ segs' = [segs EXCEPT ![at].whole = TRUE]
  /\ \/ at < Last /\ at' = at + 1 /\ UNCHANGED <<proc, hs>>
     \/ /\ at = Last /\ proc' = "ok" /\ UNCHANGED at
        /\ hs' = [h \in Handlers |->
             IF hs[h].pc \in {"head", "dead"} THEN [hs[h] EXCEPT !.missed = TRUE] ELSE hs[h]]
  /\ UNCHANGED <<init, deaths>> /\ FFmpegUnchanged

FFmpegFails ==
  /\ Alive /\ deaths < MaxDeaths
  /\ proc' = "failed" /\ deaths' = deaths + 1
  /\ UNCHANGED <<init, segs, at, hs>> /\ FFmpegUnchanged

\* The input is shorter than the playlist says: ffmpeg finishes what it has open and exits
\* cleanly before the last segment, or before any.
FFmpegEndsEarly ==
  /\ Alive /\ deaths < MaxDeaths /\ ~(at = Last /\ segs[Last].gen = spawned)
  /\ proc' = "ok" /\ deaths' = deaths + 1
  /\ init' = [init EXCEPT !.whole = @ \/ init.gen = spawned]
  /\ segs' = IF at \in Segments /\ segs[at].gen = spawned
             THEN [segs EXCEPT ![at].whole = TRUE] ELSE segs
  /\ UNCHANGED <<at, hs>> /\ FFmpegUnchanged

FFmpeg == WriteInit \/ OpenSegment \/ CloseSegment

-----------------------------------------------------------------------------
(* prepare(): spawn and wait until init.mp4 and segment 0 are there. *)

PrepareSpawn ==
  /\ ppc = "spawn"
  /\ EnsureHeadedFor(0)
  /\ ppc' = "await"
  /\ UNCHANGED <<cpc, hs, asked>>

OutputsPresent == Exists(init) /\ Exists(segs[0])

\* One round of either window: an ffmpeg that is gone or failed ends it, one
\* that exited cleanly must have left both files; else it goes on to wait, in
\* the end until the deadline or Kodi's shutdown.
PrepareAwait ==
  /\ ppc = "await"
  /\ \/ OutputsPresent /\ ppc' = "ready"
     \/ proc \in {"none", "failed"} /\ ppc' = "refused"
     \/ proc = "ok" /\ ~OutputsPresent /\ ppc' = "refused"
     \/ ppc' = "refused"
  /\ UNCHANGED <<producerVars, canonical, cpc, hs, asked, deaths>>

\* close(): flag and process pointer under the lock ...
Close ==
  /\ cpc = "open" /\ \A h \in Handlers : hs[h].pc = "idle"
  /\ closed' = TRUE
  /\ cpc' = "kill"
  /\ UNCHANGED <<proc, start, spawned, initReady, init, segs, at>>
  /\ UNCHANGED <<canonical, ppc, hs, asked, deaths>>

\* ... kill and rmtree after it.
Kill ==
  /\ cpc = "kill"
  /\ proc' = "none"
  /\ init' = Absent /\ segs' = [n \in Segments |-> Absent]
  /\ cpc' = "closed"
  /\ UNCHANGED <<start, spawned, initReady, closed, at>>
  /\ UNCHANGED <<canonical, ppc, hs, asked, deaths>>

-----------------------------------------------------------------------------
(* A request for init.mp4 or for a segment. *)

Request(h, want) ==
  /\ hs[h].pc = "idle" /\ ppc = "ready" /\ ~closed /\ asked < MaxAsked
  /\ hs' = [hs EXCEPT ![h] = [pc |-> IF want = InitSeg THEN "init" ELSE "gate", want |-> want,
                              snap |-> 0, file |-> Absent, respawned |-> FALSE,
                              missed |-> FALSE]]
  /\ asked' = asked + 1
  /\ UNCHANGED <<producerVars, canonical, ppc, cpc, deaths>>

HandlerOnly == UNCHANGED <<producerVars, canonical, ppc, cpc, asked, deaths>>

\* _init_file_complete, which reads _start_segment without the lock.
InitFileExists == Exists(init)
InitFileComplete == Exists(init) /\ Exists(segs[start])

\* wait_for_init, the test at the head of its loop.
InitTest(h) ==
  /\ hs[h].pc = "init"
  /\ hs' = [hs EXCEPT ![h].pc = IF InitFileComplete THEN "cache" ELSE "dead",
                      ![h].respawned = FALSE]
  /\ HandlerOnly

\* _init_ready and _cache_canonical_init_bytes: the first read of the file is
\* what every later request gets.
CacheInit(h) ==
  /\ hs[h].pc = "cache"
  /\ initReady' = TRUE
  /\ canonical' = IF Exists(canonical) THEN canonical ELSE init
  /\ Goto(h, "reply")
  /\ UNCHANGED <<proc, start, spawned, closed, init, segs, at, ppc, cpc, asked, deaths>>

\* _spawn_for_init_if_dead: what it saw under the lock it uses after it.
SpawnIfDead(h) ==
  /\ hs[h].pc = "dead"
  /\ hs' = IF Alive THEN [hs EXCEPT ![h].pc = "again"]
           ELSE [hs EXCEPT ![h].pc = "spawn", ![h].snap = start]
  /\ HandlerOnly

SpawnForInit(h) ==
  /\ hs[h].pc = "spawn"
  /\ EnsureHeadedFor(hs[h].snap)
  /\ GotoAfterEnsure(h, "again")
  /\ UNCHANGED <<ppc, cpc, asked>>

\* The second test of a round does not cache.
InitTestAgain(h) ==
  /\ hs[h].pc = "again"
  /\ IF InitFileComplete
     THEN initReady' = TRUE /\ Goto(h, "reply")
     ELSE UNCHANGED initReady /\ Goto(h, "init")
  /\ UNCHANGED <<proc, start, spawned, closed, init, segs, at, canonical, ppc, cpc, asked, deaths>>

\* _serve_hls_init: the canonical bytes, or those on disk if there are none yet.
ReplyInit(h) ==
  /\ hs[h].pc = "reply"
  /\ hs' = [hs EXCEPT ![h].pc = "send",
                      ![h].file = IF Exists(canonical) THEN canonical ELSE init]
  /\ HandlerOnly

\* wait_for_segment: the init gate.
Gate(h) ==
  /\ hs[h].pc = "gate"
  /\ Goto(h, IF initReady THEN "snap" ELSE IF InitFileComplete THEN "ready" ELSE "head")
  /\ HandlerOnly

GateReady(h) ==
  /\ hs[h].pc = "ready"
  /\ initReady' = TRUE
  /\ Goto(h, "snap")
  /\ UNCHANGED <<proc, start, spawned, closed, init, segs, at, canonical, ppc, cpc, asked, deaths>>

\* _segment_complete: the spawn time under the lock.
Snapshot(h) ==
  /\ hs[h].pc = "snap"
  /\ hs' = [hs EXCEPT ![h].pc = "look", ![h].snap = spawned, ![h].respawned = FALSE]
  /\ HandlerOnly

\* The next segment proves it whole, if this generation wrote that.
FreshAnyway(f, since) == Exists(f)
Fresh(f, since) == Exists(f) /\ f.gen >= since
NextSignals(n, since) == n < Last /\ Fresh(segs[n + 1], since)

\* The last segment has no next: ffmpeg must have exited, however it did.
TerminalExited(n, since) == n = Last /\ segs[n].gen >= since /\ proc \in {"ok", "failed"}

Look(h) ==
  /\ hs[h].pc = "look"
  /\ LET n == hs[h].want
     IN Goto(h, IF Exists(segs[n]) /\ (NextSignals(n, hs[h].snap) \/ TerminalExited(n, hs[h].snap))
                THEN "open" ELSE "head")
  /\ HandlerOnly

\* Not there yet: see that ffmpeg will write it, then wait a round.
Head(h) ==
  /\ hs[h].pc = "head"
  /\ EnsureHeadedFor(hs[h].want)
  /\ GotoAfterEnsure(h, "gate")
  /\ UNCHANGED <<ppc, cpc, asked>>

\* _open_hls_segment_file: the fd pins the inode, fstat fixes the length.
Readable(f) == Exists(f)
Open(h) ==
  /\ hs[h].pc = "open"
  /\ LET f == segs[hs[h].want]
     IN hs' = [hs EXCEPT ![h] = IF Readable(f) THEN [@ EXCEPT !.pc = "send", !.file = f] ELSE Idle]
  /\ HandlerOnly

\* The body is out, or the client is gone.
Sent(h) ==
  /\ hs[h].pc = "send"
  /\ hs' = [hs EXCEPT ![h] = Idle]
  /\ HandlerOnly

\* The deadline passed, or Kodi shuts down: 504.
GiveUp(h) ==
  /\ hs[h].pc \in {"init", "gate"}
  /\ hs' = [hs EXCEPT ![h] = Idle]
  /\ HandlerOnly

Wait(h) ==
  InitTest(h) \/ CacheInit(h) \/ SpawnIfDead(h) \/ SpawnForInit(h) \/ InitTestAgain(h)
  \/ ReplyInit(h) \/ Gate(h) \/ GateReady(h) \/ Snapshot(h) \/ Look(h) \/ Head(h) \/ Open(h)
  \/ Sent(h)

Next ==
  \/ FFmpeg \/ FFmpegFails \/ FFmpegEndsEarly \/ PrepareSpawn \/ PrepareAwait \/ Close \/ Kill
  \/ \E h \in Handlers :
       (\E want \in Segments \cup {InitSeg} : Request(h, want)) \/ Wait(h) \/ GiveUp(h)

Spec == Init /\ [][Next]_vars

\* ffmpeg makes progress while it lives and a handler's polls come round.
FairSpec == Spec /\ WF_vars(FFmpeg) /\ \A h \in Handlers : WF_vars(Wait(h))

-----------------------------------------------------------------------------
(* Properties. *)

\* What a handler sends was finished when it was opened and is not cut while it
\* is sent, whatever older files of the same names the directory holds.  The
\* exceptions: another request restarted ffmpeg since this one looked, the file
\* is the last segment of an ffmpeg that failed, the one just before the start of
\* the running ffmpeg (see NoStaleSegment), or an init.mp4 cached before (see
\* CachedWhole).
ServedWhole ==
  \A h \in Handlers : hs[h].pc = "send" =>
    \/ hs[h].file.whole
    \/ hs[h].respawned
    \/ hs[h].want = Last /\ deaths > 0
    \/ hs[h].want = start - 1 /\ hs[h].want # InitSeg
    \/ hs[h].want = InitSeg /\ hs[h].file = canonical

\* All decoding rests on init.mp4.  The one kept for all later requests was whole
\* when it was read, although a new ffmpeg rewrites the file in place, unless a
\* restart fell between the test and the read; and prepare() reports success only
\* when the client will find a whole one.
CachedWhole ==
  canonical' # canonical =>
    canonical'.whole \/ \E h \in Handlers : hs[h].pc = "cache" /\ hs[h].respawned
PreparedWhole == ppc' = "ready" /\ ppc # "ready" => init.whole
InitIsWhole == [][CachedWhole /\ PreparedWhole]_vars

\* "Requires THIS segment to be from the current ffmpeg generation ... Without
\* this guard a backward seek can read a stale seg_n.m4s from a prior generation"
\* (stream_proxy_hls_segment.py:108-110): a segment that is served was written by
\* the ffmpeg that was current when the handler looked, or by a later one.
NoStaleSegment ==
  \A h \in Handlers : hs[h].pc = "send" /\ hs[h].want # InitSeg => hs[h].file.gen >= hs[h].snap

\* To its session the producer is one that starts, ends and is closed for good.
Life == INSTANCE ProducerLife WITH
  life <- IF Alive THEN "running" ELSE IF closed THEN "closed" ELSE "idle"
ImplementsLife == Life!Spec

\* A handler that waits alone is answered, with at most the one restart of ffmpeg that the
\* bound has left: the gate, the restart rule and the completeness test agree.  (A waiter
\* that needed one restart after another would be held up by the bound, and fail this.)  It
\* may be kept longer by another request, by an ffmpeg that ends by itself, or by one that
\* wrote all there was left between the handler's look and its restart.
Waiting(h) == hs[h] # Idle
Alone(h) == Waiting(h) /\ \A g \in Handlers \ {h} : ~Waiting(g)
LoneWaiterServed ==
  \A h \in Handlers, d \in 0 .. MaxDeaths :
    (Alone(h) /\ deaths = d /\ spawned < MaxSpawns) ~> (~Alone(h) \/ deaths # d \/ hs[h].missed)

\* "no cold start between consecutive segments, just once per seek"
\* (stream_proxy.py:340-341): every start of ffmpeg beyond the first belongs to
\* a request of its own, unless ffmpeg ends by itself.
OneStartPerRequest == deaths = 0 /\ proc # "ok" => spawned <= asked + 1
==============================================================================
