---------------------------- MODULE Passthrough ----------------------------
(***************************************************************************)
(* The pass-through serve loop of the stream proxy: _serve_proxy and the   *)
(* steps of its loop body, the upstream range read, the retry ladder, the  *)
(* live fallback cutover and its candidate selection.                      *)
(*                                                                         *)
(* Handlers are the threads of the ThreadingHTTPServer that serve ranges   *)
(* of ONE session at the same time; they share the session context (ctx).  *)
(* A handler's local state is the record hs[h] (the code's `st`, plus the  *)
(* locals of the call in progress); its field pc names the blocking point  *)
(* the thread is at: between two of them the code runs no I/O.             *)
(*                                                                         *)
(* The file is chunks 0..N-1.  A source is one upload of a release with a  *)
(* resolved WebDAV URL or, while it is not in `resolved`, a standby known  *)
(* by its nzo_id only.                                                     *)
(***************************************************************************)
EXTENDS Integers, Sequences, FiniteSets, Functions

CONSTANTS
  Handlers,         \* handler threads
  Sources,          \* every upload that can back the session
  Primary,          \* the upload /prepare registered
  Same,             \* the sources byte-identical to Primary
  WrongLength,      \* sources whose stored content length differs
  Standby,          \* sources attached by nzo_id, without a URL
  Doomed,           \* standbys whose job ends Failed in nzbdav's history
  InitialPool,      \* ctx["fallback_sources"] at registration
  LateSources,      \* what POST /stream/<id>/fallbacks pushes, one per job
  N,                \* chunks in the file
  PrefixMax,        \* longest prefix served from RAM before an open
  LadderLength,     \* len(_RANGE_RETRY_DELAYS); 0: the ladder is disabled
  FallthroughMax,   \* _FALLBACK_PENDING_FALLTHROUGH_MAX
  AwaitMax,         \* _AWAITING_DOWNLOAD_NO_PROGRESS_MAX
  MissMax,          \* _FALLBACK_SOURCE_TRANSIENT_MISS_MAX
  StallBudget,      \* most backoff waits the stall budget has room for
  MaxZeroFill,      \* _MAX_TOTAL_ZERO_FILL, in chunks
  SkipSizes         \* _SKIP_PROBE_SIZES, in chunks

NoSource == "none"

ASSUME SourcesAssumption ==
  /\ Primary \in Same /\ Same \subseteq Sources /\ NoSource \notin Sources
  /\ WrongLength \subseteq Sources \ Same /\ Standby \subseteq Sources \ {Primary}
  /\ Doomed \subseteq Standby
  /\ InitialPool \in Seq(Sources) /\ LateSources \subseteq Sources
  /\ Primary \notin Range(InitialPool) \cup LateSources
ASSUME BoundsAssumption ==
  /\ N \in Nat \ {0} /\ PrefixMax \in Nat /\ LadderLength \in Nat
  /\ FallthroughMax \in Nat \ {0} /\ AwaitMax \in Nat \ {0} /\ MissMax \in Nat
  /\ StallBudget \in Nat /\ MaxZeroFill \in Nat /\ SkipSizes \subseteq Nat \ {0}

VARIABLES
  hs,          \* per handler: the local state of its request
  remote,      \* ctx["remote_url"]: the source reads go to
  pool,        \* ctx["fallback_sources"]
  failed,      \* sources marked "failed"
  validated,   \* sources marked "validated"
  resolved,    \* sources that carry a stream_url
  unmeasured,  \* resolved sources whose length probe returned 0
  misses,      \* transient_miss_count
  awaiting,    \* ctx["_awaiting_download_no_progress"] and its byte (-1: absent)
  down,        \* ctx["upstream_down_notified"]
  stallFlag,   \* ctx["passthrough_stall_detected"]
  merging,     \* the list merge_session_fallbacks is about to swap in
  aborted,     \* Kodi is shutting down: every waitForAbort returns True
  inRam,       \* sources whose bytes the session may hold in RAM
  servedBy     \* history: sources whose bytes reached a client

poolVars == <<pool, failed, validated, resolved, unmeasured, misses>>
ctxVars == <<remote, awaiting, down, stallFlag>>
vars == <<hs, ctxVars, poolVars, merging, aborted, inRam, servedBy>>

Results == {"NONE", "RECOVERABLE", "AWAITING", "UPSTREAM_ERROR",
            "CLIENT_ERROR", "MISMATCH"}
Retryable == {"RECOVERABLE", "AWAITING", "UPSTREAM_ERROR"}
Reasons == {"unknown", "complete", "client_disconnected", "passthrough_stall",
            "fallback_exhausted", "upstream_client_error", "protocol_mismatch",
            "recovery_exhausted", "budget_exceeded"}
PCs == {"idle", "prefix", "prelude", "open", "body", "select", "scan", "refresh", "probe",
        "retry", "after", "stall", "giveup", "skip", "fill", "closing"}

(***************************************************************************)
(* The request record.  cur, streamed, skipped, result, real, progressed,  *)
(* falls, lastFall, await, stalls, pending, deferred and reason are fields *)
(* of _ProxyStreamState (real: streamed_real_upstream_bytes; await:        *)
(* awaiting_download_no_progress; deferred: fallback_failed_to_notify).    *)
(* tries, lad: attempts and bytes of the ladder in progress; w, src: bytes *)
(* and source of the upstream read in progress; gap: the zeros to write;   *)
(* via, list, first, i, standby, prim, pass: the selection in progress      *)
(* (first: the candidate whose state it took at its start).                 *)
(* barred, wire, feeders, owed, failLie, tripped are history: the sources   *)
(* condemned when the selection began and at each of its looks since, chunks *)
(* on the wire, sources that fed the client since the last cutover, cutovers *)
(* minus outcome toasts, a failure toast lied, own watchdog fired.          *)
(***************************************************************************)
Idle == [pc |-> "idle", start |-> 0, end |-> 0, cur |-> 0, streamed |-> 0,
         skipped |-> 0, result |-> "NONE", real |-> FALSE, progressed |-> FALSE,
         falls |-> 0, lastFall |-> -1, await |-> 0, stalls |-> -1,
         pending |-> NoSource, deferred |-> FALSE, reason |-> "unknown",
         tries |-> 0, lad |-> 0, w |-> 0, src |-> Primary, gap |-> 0,
         via |-> "cutover", list |-> <<>>, first |-> 0, i |-> 1, standby |-> 0,
         prim |-> Primary, pass |-> "scan", barred |-> {},
         wire |-> 0, feeders |-> {}, owed |-> 0, failLie |-> FALSE, tripped |-> FALSE]

\* Where in the file the next byte this handler writes belongs.
Pos(s) == s.cur + s.lad + s.w

Init ==
  /\ hs = [h \in Handlers |-> Idle]
  /\ remote = Primary
  /\ pool = InitialPool
  /\ failed = {} /\ validated = {} /\ resolved = Sources \ Standby /\ unmeasured = {}
  /\ misses = [s \in Sources |-> 0]
  /\ awaiting = [count |-> 0, byte |-> -1]
  /\ down = FALSE /\ stallFlag = FALSE /\ merging = <<>> /\ aborted = FALSE
  /\ inRam = {Primary} /\ servedBy = {}

Least(a, b) == IF a <= b THEN a ELSE b
Lowest(S) == CHOOSE x \in S : \A y \in S : x <= y
Become(h, s) == hs' = [hs EXCEPT ![h] = s]
Close(s, why) == [s EXCEPT !.pc = "closing", !.reason = why]

\* Locals that are dead once a selection, a read or an iteration is over.
ForgetScan(s) == [s EXCEPT !.list = <<>>, !.first = 0, !.i = 1, !.standby = 0,
                           !.prim = Primary, !.pass = "scan", !.via = "cutover", !.barred = {}]
NextPass(s) == [s EXCEPT !.pc = "prelude", !.tries = 0, !.result = "NONE",
                         !.progressed = FALSE]

-----------------------------------------------------------------------------
(* The read step, the retry ladder and the steps between them.             *)

\* _serve_proxy_mark_candidate_delivered: the success toast.
MarkDelivered(s, wrote) ==
  IF s.pending # NoSource /\ wrote > 0
  THEN [s EXCEPT !.owed = @ - 1, !.pending = NoSource] ELSE s

\* _serve_proxy_read_step after _stream_upstream_range returned (res, k).
ReadStep(s, res, k) ==
  LET t == MarkDelivered(
             [s EXCEPT !.cur = @ + k, !.streamed = @ + k, !.w = 0, !.src = Primary, !.result = res,
                       !.real = @ \/ k > 0, !.progressed = (k > 0),
                       !.owed = @ - (IF s.deferred THEN 1 ELSE 0),
                       !.deferred = FALSE, !.tries = 0, !.lad = 0], k)
  IN IF t.cur > t.end THEN Close(t, "complete")
     ELSE IF res \in {"RECOVERABLE", "UPSTREAM_ERROR"}
     THEN [t EXCEPT !.pc = "select", !.via = "cutover"]
     ELSE [t EXCEPT !.pc = "retry"]

\* _retry_original_range returned: _serve_proxy_retry_step accounts for it.
LadderDone(s, res) ==
  LET t == MarkDelivered(
             [s EXCEPT !.cur = @ + s.lad, !.streamed = @ + s.lad, !.lad = 0,
                       !.tries = 0, !.result = res, !.real = @ \/ s.lad > 0,
                       !.progressed = @ \/ s.lad > 0], s.lad)
  IN IF t.cur > t.end THEN Close(t, "complete") ELSE [t EXCEPT !.pc = "after"]

\* One ladder attempt returned (res, k): stop, or go on to the next delay.
LadderStep(s, res, k) ==
  LET t == [s EXCEPT !.w = 0, !.src = Primary, !.lad = @ + k, !.result = res]
  IN IF Pos(t) > t.end \/ res \notin Retryable \/ t.tries = LadderLength
     THEN LadderDone(t, res) ELSE [t EXCEPT !.pc = "retry"]

\* Mutant: a short read forgets the bytes it had already relayed.
ReturnForgetsBytes(s, res, k) ==
  IF s.tries = 0 THEN ReadStep(s, res, IF res = "RECOVERABLE" THEN 0 ELSE k)
  ELSE LadderStep(s, res, k)

\* Return from _stream_upstream_range to whichever caller is on the stack.
Return(s, res, k) == IF s.tries = 0 THEN ReadStep(s, res, k) ELSE LadderStep(s, res, k)

\* _serve_proxy_note_pending_fallthrough (the count is only compared with
\* FallthroughMax, so it saturates one above it).
NoteFallthrough(s) ==
  IF s.streamed = s.lastFall
  THEN [s EXCEPT !.falls = Least(@ + 1, FallthroughMax + 1)]
  ELSE [s EXCEPT !.falls = 1, !.lastFall = s.streamed]

\* The selection found nothing: back to the step that asked.
NoMatch(s) ==
  LET t == ForgetScan(s)
  IN IF s.via = "await" THEN [t EXCEPT !.pc = "stall"]
     ELSE [(IF pool # <<>> THEN NoteFallthrough(t) ELSE t) EXCEPT !.pc = "retry"]

\* Mutant: a superseded candidate loses its failure toast.
BeginDropsToast(s, c) ==
  [NextPass(ForgetScan(s)) EXCEPT !.await = 0, !.falls = 0, !.lastFall = -1,
            !.pending = c, !.feeders = {}, !.owed = @ + 1]

\* _serve_proxy_begin_pending_candidate after a cutover to c.
BeginPending(s, c) ==
  [NextPass(ForgetScan(s)) EXCEPT
            !.await = 0, !.falls = 0, !.lastFall = -1,
            !.deferred = @ \/ s.pending # NoSource,
            !.failLie = @ \/ (s.pending # NoSource /\ s.pending \in s.feeders),
            !.pending = c, !.feeders = {}, !.owed = @ + 1]

\* Put k chunks of the sources in from on the client socket.
Fed(s, from) == [s EXCEPT !.feeders = IF s.pending = NoSource THEN {} ELSE @ \cup from]
Put(s, from, k) == [Fed(s, from) EXCEPT !.w = @ + k, !.wire = @ + k]

\* _serve_proxy_init_state: the loop state of a new request.
NewRequest(a, b) ==
  [Idle EXCEPT !.pc = IF a = 0 THEN "prefix" ELSE "prelude", !.start = a, !.end = b,
               !.cur = a, !.await = awaiting.count]

\* Mutant: a new request inherits the stall flag of the last one.
RequestKeepsStallFlag(h, a, b) ==
  /\ hs[h].pc = "idle" /\ ~aborted
  /\ a <= b
  /\ Become(h, NewRequest(a, b))
  /\ UNCHANGED <<ctxVars, poolVars, merging, aborted, inRam, servedBy>>

\* A range request arrives: the head of _serve_proxy.
Request(h, a, b) ==
  /\ hs[h].pc = "idle" /\ ~aborted
  /\ a <= b
  /\ Become(h, NewRequest(a, b))
  /\ stallFlag' = FALSE
  /\ UNCHANGED <<remote, awaiting, down, poolVars, merging, aborted, inRam, servedBy>>

\* _serve_proxy_emit_prefetch_prefix: the bytes /prepare prefetched at offset
\* 0 are streamed bytes, but not "real" ones.
PrefetchPrefix(h) ==
  /\ hs[h].pc = "prefix"
  /\ \E k \in 0..Least(PrefixMax, hs[h].end + 1) :
       LET s == [hs[h] EXCEPT !.pc = "prelude", !.cur = @ + k, !.streamed = @ + k,
                              !.wire = @ + k]
       IN /\ Become(h, IF s.cur > s.end THEN Close(s, "complete") ELSE s)
          /\ servedBy' = IF k = 0 THEN servedBy ELSE servedBy \cup {remote}
  /\ UNCHANGED <<ctxVars, poolVars, merging, aborted, inRam>>

\* _stream_upstream_prelude: bytes already in RAM go out before the open: those of
\* the read-ahead window, which is filled from whatever source is the current one and
\* not cleared by a cutover, then a cached body of the current source.
Prelude(h) ==
  /\ hs[h].pc = "prelude"
  /\ \E k \in 0..Least(PrefixMax, hs[h].end - Pos(hs[h]) + 1), from \in SUBSET inRam :
       LET s == IF k = 0 THEN hs[h] ELSE Put(hs[h], from, k)
       IN /\ from = {} <=> k = 0
          /\ Become(h, IF Pos(s) > s.end THEN Return(s, "NONE", s.w)
                       ELSE [s EXCEPT !.pc = "open"])
          /\ servedBy' = servedBy \cup from
  /\ UNCHANGED <<ctxVars, poolVars, merging, aborted, inRam>>

\* The open succeeds: the response body comes from the source remote_url
\* named when the request was built, whatever the session switches to later.
OpenOk(h) ==
  /\ hs[h].pc = "open"
  /\ Become(h, [hs[h] EXCEPT !.pc = "body", !.src = remote])
  /\ down' = FALSE
  /\ UNCHANGED <<remote, awaiting, stallFlag, poolVars, merging, aborted, inRam, servedBy>>

\* _classify_upstream_open_error and the hard-mismatch return of
\* _check_upstream_contract, which reports 0 bytes whatever was written.
OpenFails(h) ==
  /\ hs[h].pc = "open"
  /\ LET s == hs[h]
         soft(res) == IF s.w > 0 THEN <<"RECOVERABLE", s.w>> ELSE <<res, 0>>
     IN \E o \in {"404", "4xx", "net", "other", "mismatch"} :
          LET r == CASE o = "404" /\ Pos(s) > 0 -> soft("AWAITING")
                     [] o = "4xx" \/ (o = "404" /\ Pos(s) = 0) -> <<"CLIENT_ERROR", s.w>>
                     [] o \in {"net", "other"} -> soft("UPSTREAM_ERROR")
                     [] OTHER -> <<"MISMATCH", 0>>
          IN /\ Become(h, Return(s, r[1], r[2]))
             /\ down' = CASE o = "net" -> TRUE [] o = "mismatch" -> FALSE [] OTHER -> down
  /\ UNCHANGED <<remote, awaiting, stallFlag, poolVars, merging, aborted, inRam, servedBy>>

\* _relay_upstream_chunk: one chunk from the open response to the client.
Chunk(h) ==
  /\ hs[h].pc = "body" /\ Pos(hs[h]) <= hs[h].end
  /\ Become(h, Put(hs[h], {hs[h].src}, 1))
  /\ servedBy' = servedBy \cup {hs[h].src}
  /\ UNCHANGED <<ctxVars, poolVars, merging, aborted, inRam>>

\* _read_upstream_chunk failing, or _handle_upstream_eof.
BodyEnds(h) ==
  /\ hs[h].pc = "body"
  /\ LET s == hs[h]
     IN \/ Pos(s) > s.end /\ Become(h, Return(s, "NONE", s.w))
        \/ Pos(s) <= s.end /\ Become(h, Return(s, "AWAITING", s.w))
        \/ Become(h, Return(s, IF s.w > 0 THEN "RECOVERABLE" ELSE "UPSTREAM_ERROR", s.w))
  /\ UNCHANGED <<ctxVars, poolVars, merging, aborted, inRam, servedBy>>

\* _passthrough_stall_action: a window below the throughput floor.
Watchdog(h) ==
  /\ hs[h].pc = "body" /\ hs[h].w > 0
  /\ IF pool # <<>>
     THEN Become(h, Return(hs[h], "RECOVERABLE", hs[h].w)) /\ UNCHANGED stallFlag
     ELSE /\ Become(h, Close([hs[h] EXCEPT !.tripped = TRUE], "passthrough_stall"))
          /\ stallFlag' = TRUE
  /\ UNCHANGED <<remote, awaiting, down, poolVars, merging, aborted, inRam, servedBy>>

\* A client write of bytes just read, or of zeros, raises:
\* _serve_proxy_classify_disconnect reads the session's stall flag.
Disconnect(h) ==
  /\ LET s == hs[h]
     IN /\ \/ s.pc \in {"prefix", "prelude"} /\ PrefixMax > 0
           \/ s.pc = "body" /\ Pos(s) <= s.end
           \/ s.pc = "fill"
        /\ \E from \in SUBSET (CASE s.pc = "prelude" -> inRam [] s.pc = "body" -> {s.src}
                                   [] OTHER -> {}) :
             Become(h, Close(Fed(s, from), IF stallFlag THEN "passthrough_stall"
                                           ELSE "client_disconnected"))
  /\ UNCHANGED <<ctxVars, poolVars, merging, aborted, inRam, servedBy>>

\* _serve_proxy_retry_step: enter or continue the ladder, or skip it.
Retry(h) ==
  /\ hs[h].pc = "retry"
  /\ LET s == hs[h]
     IN Become(h,
          IF s.tries = 0 /\ (LadderLength = 0 \/ s.result \notin Retryable)
          THEN [s EXCEPT !.pc = "after"]
          ELSE IF s.tries = 0 /\ (down \/ aborted) THEN LadderDone(s, "UPSTREAM_ERROR")
          ELSE IF s.tries > 0 /\ aborted THEN LadderDone(s, s.result)
          ELSE [s EXCEPT !.pc = "prelude", !.tries = @ + 1, !.result = "NONE"])
  /\ UNCHANGED <<ctxVars, poolVars, merging, aborted, inRam, servedBy>>

\* _bump_awaiting_no_progress: the streak is local to the request, its copy
\* and the byte it belongs to live in ctx.  Only "reached AwaitMax" is used.
BumpedCount(s) ==
  IF s.result # "AWAITING" THEN 0
  ELSE Least(AwaitMax, 1 + IF awaiting.byte \notin {-1, s.cur} THEN 0 ELSE s.await)

\* _serve_proxy_progress_step, then the guard of _serve_proxy_awaiting_step.
Progress(h) ==
  /\ hs[h].pc = "after"
  /\ LET s == hs[h]
     IN IF s.progressed
        THEN /\ Become(h, [s EXCEPT !.pc = "stall", !.await = 0, !.falls = 0,
                                    !.lastFall = -1, !.stalls = -1])
             /\ awaiting' = [awaiting EXCEPT !.count = 0]
        ELSE LET c == BumpedCount(s)
             IN /\ Become(h, IF c >= AwaitMax /\ pool # <<>>
                             THEN [s EXCEPT !.await = c, !.pc = "select", !.via = "await"]
                             ELSE [s EXCEPT !.await = c, !.pc = "stall"])
                /\ awaiting' = IF s.result = "AWAITING" THEN [count |-> c, byte |-> s.cur]
                               ELSE [count |-> 0, byte |-> -1]
  /\ UNCHANGED <<remote, down, stallFlag, poolVars, merging, aborted, inRam, servedBy>>

Stalled(s) == StallBudget > 0 /\ s.real /\ s.result \in {"AWAITING", "UPSTREAM_ERROR"}

\* Mutant: every wait restarts the stall budget.
StallWaitRestarts(h) ==
  /\ hs[h].pc = "stall" /\ Stalled(hs[h]) /\ hs[h].stalls < StallBudget
  /\ Become(h, IF aborted THEN Close(hs[h], "client_disconnected") ELSE NextPass(hs[h]))
  /\ UNCHANGED <<ctxVars, poolVars, merging, aborted, inRam, servedBy>>

\* _serve_proxy_stall_step inside the budget: hold the client, then re-read.
\* The first pass always waits; how much a wait costs is up to the clock.
StallWait(h) ==
  /\ hs[h].pc = "stall" /\ Stalled(hs[h]) /\ hs[h].stalls < StallBudget
  /\ Become(h, IF aborted THEN Close(hs[h], "client_disconnected")
               ELSE [NextPass(hs[h]) EXCEPT !.stalls = IF @ = -1 THEN 1 ELSE @ + 1])
  /\ UNCHANGED <<ctxVars, poolVars, merging, aborted, inRam, servedBy>>

\* The stall step falls through: not an established stall, or budget spent.
StallDone(h) ==
  /\ hs[h].pc = "stall" /\ (Stalled(hs[h]) => hs[h].stalls >= 1)
  /\ Become(h, [hs[h] EXCEPT !.pc = "giveup"])
  /\ UNCHANGED <<ctxVars, poolVars, merging, aborted, inRam, servedBy>>

\* _serve_proxy_capfire_step and _serve_proxy_abort_step.
GiveUp(h) ==
  /\ hs[h].pc = "giveup"
  /\ LET s == hs[h]
     IN Become(h,
          IF s.result = "CLIENT_ERROR" THEN Close(s, "upstream_client_error")
          ELSE IF s.result = "MISMATCH" THEN Close(s, "protocol_mismatch")
          ELSE IF s.falls >= FallthroughMax THEN Close(s, "fallback_exhausted")
          ELSE [s EXCEPT !.pc = "skip"])
  /\ UNCHANGED <<ctxVars, poolVars, merging, aborted, inRam, servedBy>>

\* _serve_proxy_zerofill_step up to the write: the skip probe and the
\* budgets.  A probe confirms a size only if its target is in the range; the
\* density breaker and the session-wide ratio are abstracted: either may close.
SkipProbe(h) ==
  /\ hs[h].pc = "skip"
  /\ LET s == hs[h]
     IN \/ Become(h, Close(s, "recovery_exhausted"))
        \/ \E z \in SkipSizes :
             /\ s.cur + z <= s.end /\ ~down /\ ~aborted
             /\ Become(h, IF s.skipped + z > MaxZeroFill
                          THEN Close(s, "recovery_exhausted")
                          ELSE [s EXCEPT !.pc = "fill", !.gap = z])
        \/ /\ s.cur < s.end /\ ~down /\ ~aborted
           /\ Become(h, Close(s, "budget_exceeded"))
  /\ UNCHANGED <<ctxVars, poolVars, merging, aborted, inRam, servedBy>>

\* Mutant: the gap is skipped instead of filled.
ZeroFillSkipsOnly(h) ==
  /\ hs[h].pc = "fill"
  /\ LET z == hs[h].gap
     IN Become(h, [NextPass(hs[h]) EXCEPT !.cur = @ + z, !.skipped = @ + z, !.gap = 0])
  /\ UNCHANGED <<ctxVars, poolVars, merging, aborted, inRam, servedBy>>

\* The rest of _serve_proxy_zerofill_step: write zeros over the gap.
ZeroFill(h) ==
  /\ hs[h].pc = "fill"
  /\ LET z == hs[h].gap
     IN Become(h, [NextPass(hs[h]) EXCEPT !.wire = @ + z, !.cur = @ + z,
                                          !.skipped = @ + z, !.gap = 0])
  /\ UNCHANGED <<ctxVars, poolVars, merging, aborted, inRam, servedBy>>

\* _serve_proxy_finalize: flush the deferred failure toast and report a
\* pending candidate, unless the client went away.
Finalize(h) ==
  /\ hs[h].pc = "closing"
  /\ LET s == hs[h]
         blame == s.pending # NoSource /\ s.reason # "client_disconnected"
     IN Become(h, [Idle EXCEPT !.reason = s.reason, !.tripped = s.tripped,
                     !.owed = s.owed - (IF s.deferred THEN 1 ELSE 0)
                                     - (IF blame THEN 1 ELSE 0),
                     !.failLie = s.failLie \/ (blame /\ s.pending \in s.feeders)])
  /\ UNCHANGED <<ctxVars, poolVars, merging, aborted, inRam, servedBy>>

-----------------------------------------------------------------------------
(* Selecting and activating a live fallback.                               *)

\* Mutant: a selection begins with a condemned source.
SelectableAll == DOMAIN pool

\* What _find_first_selectable_fallback chooses from: the sources not condemned.
Selectable == { j \in DOMAIN pool : pool[j] \notin failed }

\* The selection captures the list, and the state of the first it can choose.  What it
\* reads of the first candidate stands for that candidate's later looks too; the
\* primary it compares candidates with is captured here.
Select(h) ==
  /\ hs[h].pc = "select"
  /\ LET j == Lowest(Selectable)
         at == IF pool[j] \in resolved THEN [first |-> j, i |-> j, standby |-> 0]
               ELSE [first |-> 0, i |-> j + 1, standby |-> j]
     IN Become(h, IF Selectable = {} THEN NoMatch(hs[h])
                  ELSE [hs[h] EXCEPT !.pc = "scan", !.list = pool, !.first = at.first,
                                     !.i = at.i, !.standby = at.standby, !.prim = remote,
                                     !.barred = failed])
  /\ UNCHANGED <<ctxVars, poolVars, merging, aborted, inRam, servedBy>>

\* _evaluate_resolved_source looks at candidate j at all.
Live(s, j) == s.list[j] \in resolved \ failed \/ j = s.first
\* ... and condemns it without a probe: the current primary itself, or a
\* source whose length is not the session's.
Unfit(s, j) == s.list[j] = s.prim \/ s.list[j] \in WrongLength \cup unmeasured

\* What the selection sees not condemned any more is not barred.
Look(s) == [s EXCEPT !.barred = @ \cap failed]

\* The already-resolved pass (_select_resolved_fallback_source): go to the next
\* candidate worth probing, failing on the way the current primary itself
\* and every source of another length, and noting the first standby.
Scan(h) ==
  /\ hs[h].pc = "scan"
  /\ LET s == hs[h]
         rest == s.i..Len(s.list)
         fit == { j \in rest : Live(s, j) /\ ~Unfit(s, j) }
         seen == IF fit = {} THEN rest ELSE s.i..(Lowest(fit) - 1)
         waiting == { j \in seen : s.list[j] \notin resolved \cup failed }
         first == IF s.standby # 0 \/ waiting = {} THEN s.standby ELSE Lowest(waiting)
     IN /\ failed' = failed \cup { s.list[j] : j \in { k \in seen : Live(s, k) /\ Unfit(s, k) } }
        /\ Become(h, CASE fit # {} -> [Look(s) EXCEPT !.pc = "probe", !.pass = "scan",
                                                      !.i = Lowest(fit), !.standby = first]
                       [] fit = {} /\ first # 0 ->
                            [Look(s) EXCEPT !.pc = "refresh", !.i = first, !.standby = first]
                       [] OTHER -> NoMatch(s))
  /\ UNCHANGED <<ctxVars, pool, validated, resolved, unmeasured, misses, merging, aborted,
                 inRam, servedBy>>

\* What _refresh_standby_fallback_source can do to standby c: the job or its
\* length is provably bad, the length probe blips (0), or it is usable.
Condemn(c) ==
  /\ c \in Doomed \cup WrongLength
  /\ failed' = failed \cup {c}
  /\ resolved' = (IF c \in Doomed THEN resolved ELSE resolved \cup {c})
  /\ UNCHANGED unmeasured
Blip(c) ==
  /\ c \notin Doomed
  /\ resolved' = resolved \cup {c} /\ unmeasured' = unmeasured \cup {c}
Usable(c) ==
  /\ c \notin Doomed \cup WrongLength
  /\ resolved' = resolved \cup {c} /\ unmeasured' = unmeasured \ {c}
  /\ UNCHANGED failed

\* _retry_standby_fallback_sources: refresh the next standby, then match it.
\* A job that is not ready yet changes nothing; length 0 fails the match.
Refresh(h) ==
  /\ hs[h].pc = "refresh"
  /\ LET s == hs[h]
         todo == { j \in s.i..Len(s.list) :
                     j = s.standby \/ s.list[j] \notin resolved \cup failed }
         j == Lowest(todo)
         c == s.list[j]
     IN \/ /\ todo = {} /\ Become(h, NoMatch(s))
           /\ UNCHANGED <<failed, resolved, unmeasured>>
        \/ /\ todo # {} /\ Become(h, [Look(s) EXCEPT !.i = j + 1])
           /\ \/ UNCHANGED <<failed, resolved, unmeasured>>
              \/ Condemn(c)
              \/ Blip(c) /\ failed' = failed \cup {c}
        \/ /\ todo # {} /\ Usable(c)
           /\ Become(h, [Look(s) EXCEPT !.pc = "probe", !.pass = "refresh",
                                         !.i = j, !.prim = remote])
  /\ UNCHANGED <<ctxVars, pool, validated, misses, merging, aborted, inRam, servedBy>>

\* Mutant: a digest nobody could fetch counts as an equal one.
VerdictsTrustSilence(c, prim) == IF c = prim THEN {"mismatch"} ELSE {"match", "mismatch"}

\* What the fingerprint gate can answer about c (_fallback_source_matches):
\* a validated source is only probed for the current range; a digest that
\* could not be fetched proves nothing; the primary itself never matches.
Verdicts(c, prim) ==
  IF c = prim THEN {"mismatch"}
  ELSE {"inconclusive"} \cup IF c \in validated \cup Same THEN {"match"} ELSE {"mismatch"}

\* _demote_active_source when the session moves from remote to c.
Demotes(c) == remote # c /\ remote \notin Range(pool)

\* _activate_fallback_source.
Activate(h, c) ==
  /\ IF Demotes(c)
     THEN /\ pool' = Append(pool, remote)
          /\ validated' = validated \cup {remote, c}
          /\ failed' = failed \ {remote}
          /\ misses' = [misses EXCEPT ![c] = 0, ![remote] = 0]
     ELSE /\ UNCHANGED <<pool, failed>>
          /\ validated' = validated \cup {c}
          /\ misses' = [misses EXCEPT ![c] = 0]
  /\ remote' = c /\ down' = FALSE /\ inRam' = inRam \cup {c}
  /\ awaiting' = [count |-> 0, byte |-> -1]
  /\ Become(h, BeginPending(hs[h], c))
  /\ UNCHANGED <<resolved, unmeasured, stallFlag>>

\* _apply_fallback_match_result on the candidate the selection is at.
Probe(h) ==
  /\ hs[h].pc = "probe"
  /\ LET s == hs[h]
         c == s.list[s.i]
         next == [s EXCEPT !.pc = s.pass, !.i = @ + 1]
     IN \E v \in Verdicts(c, s.prim) :
          \/ v = "match" /\ Activate(h, c)
          \/ /\ v = "mismatch"
             /\ failed' = failed \cup {c} /\ misses' = [misses EXCEPT ![c] = 0]
             /\ Become(h, next)
             /\ UNCHANGED <<ctxVars, pool, validated, resolved, unmeasured, inRam>>
          \/ /\ v = "inconclusive"
             /\ misses' = [misses EXCEPT ![c] = Least(@ + 1, MissMax + 1)]
             /\ failed' = IF misses[c] + 1 > MissMax THEN failed \cup {c} ELSE failed
             /\ Become(h, next)
             /\ UNCHANGED <<ctxVars, pool, validated, resolved, unmeasured, inRam>>
  /\ UNCHANGED <<merging, aborted, servedBy>>

-----------------------------------------------------------------------------
(* The other actors: the /fallbacks push, the warmer thread, Kodi.         *)

\* merge_session_fallbacks copies the list and appends the pushed source if
\* it is not a known one (_merge_new_fallback_sources) ...
Merged(c) == IF c \in Range(pool) THEN pool ELSE Append(pool, c)
MergeCopy ==
  /\ merging = <<>>
  /\ \E c \in LateSources : merging' = Merged(c) /\ merging' # pool
  /\ UNCHANGED <<hs, ctxVars, poolVars, aborted, inRam, servedBy>>

\* ... and swaps the copy in.  The lock it holds excludes other merges, not
\* the append of _demote_active_source.
MergeSwap ==
  /\ merging # <<>>
  /\ pool' = merging /\ merging' = <<>>
  /\ UNCHANGED <<hs, ctxVars, failed, validated, resolved, unmeasured, misses, aborted,
                 inRam, servedBy>>

\* The warmer: _refresh_standby_fallback_sources.
WarmResolve ==
  /\ \E c \in Range(pool) \ (resolved \cup failed) :
       Condemn(c) \/ Usable(c) \/ (Blip(c) /\ UNCHANGED failed)
  /\ UNCHANGED <<hs, ctxVars, pool, validated, misses, merging, aborted, inRam, servedBy>>

\* The warmer: _prevalidate_ready_fallback_sources proves one source.
WarmValidate ==
  /\ \E c \in (Range(pool) \cap resolved \cap Same)
                \ (failed \cup validated \cup unmeasured \cup {remote}) :
       /\ validated' = validated \cup {c}
       /\ misses' = [misses EXCEPT ![c] = 0]
  /\ UNCHANGED <<hs, ctxVars, pool, failed, resolved, unmeasured, merging, aborted, inRam,
                 servedBy>>

KodiAbort ==
  /\ ~aborted /\ aborted' = TRUE
  /\ UNCHANGED <<hs, ctxVars, poolVars, merging, inRam, servedBy>>

\* Kodi is gone and every thread has unwound.
Halted ==
  /\ aborted /\ \A h \in Handlers : hs[h].pc = "idle"
  /\ UNCHANGED vars

\* What the thread itself does next; a client write may also fail instead.
HandlerStep(h) ==
  \/ PrefetchPrefix(h) \/ Prelude(h) \/ OpenOk(h) \/ OpenFails(h) \/ Chunk(h)
  \/ BodyEnds(h) \/ Watchdog(h) \/ Retry(h) \/ Progress(h) \/ StallWait(h)
  \/ StallDone(h) \/ GiveUp(h) \/ SkipProbe(h) \/ ZeroFill(h) \/ Finalize(h)
  \/ Select(h) \/ Scan(h) \/ Refresh(h) \/ Probe(h)

Next ==
  \/ \E h \in Handlers :
       \/ \E a, b \in 0..(N - 1) : Request(h, a, b)
       \/ HandlerStep(h) \/ Disconnect(h)
  \/ MergeCopy \/ MergeSwap \/ WarmResolve \/ WarmValidate \/ KodiAbort \/ Halted

\* Every blocking call of a handler has a timeout, so a handler that can take
\* a step does; clients, the warmer and the merger promise nothing.
Spec == Init /\ [][Next]_vars
FairSpec == Spec /\ \A h \in Handlers : WF_vars(HandlerStep(h))

-----------------------------------------------------------------------------
(* Properties.                                                             *)

Positions == Nat \ {0}
Requests ==
  [pc : PCs, start : Nat, end : Nat, cur : Nat, streamed : Nat, skipped : Nat,
   result : Results, real : BOOLEAN, progressed : BOOLEAN, falls : Nat,
   lastFall : Int, await : Nat, stalls : Int, pending : Sources \cup {NoSource},
   deferred : BOOLEAN, reason : Reasons, tries : Nat, lad : Nat, w : Nat,
   gap : Nat, src : Sources, via : {"cutover", "await"}, list : Seq(Sources),
   first : Nat, i : Positions, standby : Nat, prim : Sources, pass : {"scan", "refresh"},
   barred : SUBSET Sources, wire : Nat, feeders : SUBSET Sources, owed : Int,
   failLie : BOOLEAN, tripped : BOOLEAN]

\* Every variable stays in its domain.
TypeOK ==
  /\ hs \in [Handlers -> Requests]
  /\ remote \in Sources
  /\ pool \in Seq(Sources) /\ merging \in Seq(Sources)
  /\ failed \subseteq Sources /\ validated \subseteq Sources
  /\ resolved \subseteq Sources /\ unmeasured \subseteq Sources
  /\ inRam \subseteq Sources /\ servedBy \subseteq Sources
  /\ misses \in [Sources -> Nat]
  /\ awaiting \in [count : Nat, byte : Int]
  /\ down \in BOOLEAN /\ stallFlag \in BOOLEAN /\ aborted \in BOOLEAN

\* No client ever receives a byte of another file: not from a standby whose
\* probes only timed out, not from a stale response, not from a demoted source.
NoForeignBytes == servedBy \subseteq Same

\* What is on the wire is exactly the requested bytes up to the offset the
\* next read starts from: no cutover, ladder attempt, zero-fill or short read
\* repeats a byte or leaves a gap.  (A hard contract mismatch after
\* bytes from RAM ends the request with those bytes unreported.)
Contiguous ==
  \A h \in Handlers : LET s == hs[h] IN
    s.pc # "idle" /\ s.result # "MISMATCH" => s.wire = Pos(s) - s.start

\* "complete" is reported only for a fully delivered range.
CompleteMeansDelivered ==
  \A h \in Handlers : LET s == hs[h] IN
    s.pc = "closing" /\ s.reason = "complete" => s.wire = s.end - s.start + 1

\* The toasts tell the story of the cutovers: each cutover of a request gets
\* exactly one outcome toast (only a client that goes away may leave the last one
\* without), and a failure toast never blames a source whose bytes reached the
\* request, with two exceptions the code makes: its response broke the Range contract
\* after bytes from RAM, or the client went away and another request's stall flag
\* made that a stall (StallReasonIsOwn).
OneToastPerCutover(s) ==
  IF s.pc = "idle"
  THEN s.owed = 0 \/ (s.owed = 1 /\ s.reason = "client_disconnected")
  ELSE s.owed = (IF s.deferred THEN 1 ELSE 0) + (IF s.pending # NoSource THEN 1 ELSE 0)
NoFalseBlame(s) ==
  s.failLie => s.reason = "protocol_mismatch" \/ (s.reason = "passthrough_stall" /\ ~s.tripped)
ToastsTrue == \A h \in Handlers : OneToastPerCutover(hs[h]) /\ NoFalseBlame(hs[h])

\* A success toast names a source whose bytes reached the request ("The candidate the
\* proxy switched to just delivered playable bytes").
SuccessIsEarned ==
  [][\A h \in Handlers :
       hs[h].pending # NoSource /\ hs'[h].pending = NoSource /\ hs'[h].pc # "idle"
         => hs[h].pending \in hs'[h].feeders]_vars

\* passthrough_stall is reported only by the request whose own watchdog fired.
StallReasonIsOwn ==
  \A h \in Handlers : hs[h].pc = "closing" /\ hs[h].reason = "passthrough_stall"
                        => hs[h].tripped

\* A byte-identical standby is not condemned because its length probe blipped.
BlipNeverCondemns == unmeasured \cap failed \cap Same = {}

\* A condemned source stays condemned while the session's list holds it, and no selection
\* moves the session to a source that was condemned when it began and at each of its looks
\* since, whichever threads condemned, demoted, merged or warmed in between.  (The list may
\* lose a source to a merge, PoolOnlyGrows; what it has lost is demoted again, and absolved,
\* as a new one.)
CondemnedForGood ==
  [][/\ failed \cap Range(pool) \subseteq failed'
     /\ \A h \in Handlers :
          hs[h].pc = "probe" /\ hs'[h].pc = "prelude" => remote' \notin hs[h].barred]_vars

\* The session never moves to a source that is condemned by then (a source is "failed
\* permanently", or abandoned after too many inconclusive probes).
NeverToCondemned == [][remote' # remote => remote' \notin failed]_vars

\* A source the session knows is never lost: merges and demotions only add.
PoolOnlyGrows == [][Range(pool) \subseteq Range(pool')]_vars

\* Every request ends, whatever the upstreams answer: the cutovers, the
\* fall-throughs, the stall waits and the zero-fills are all bounded.
RequestEnds == \A h \in Handlers : hs[h].pc # "idle" ~> hs[h].pc = "idle"
=============================================================================
