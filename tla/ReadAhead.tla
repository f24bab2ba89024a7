------------------------------ MODULE ReadAhead ------------------------------
(***************************************************************************)
(* The read-ahead window of a pass-through session (ReadAheadBuffer): one  *)
(* contiguous run of file bytes that a daemon fills ahead of the play head *)
(* and that the GET handlers of the session consume, trim and repoint.     *)
(*                                                                         *)
(* Every method of the buffer holds its lock throughout, so each is an     *)
(* operator on the window <<base, data>> and each call of one is a step;   *)
(* the daemon and the handlers make several calls per iteration, and any   *)
(* other thread may come between two of them.                              *)
(*                                                                         *)
(* A byte of the file is represented by its offset: bytes fetched for an   *)
(* offset are equal whichever source they come from, which is what module  *)
(* Passthrough is about.  served_high_water is left out: no code reads it. *)
(***************************************************************************)
EXTENDS Integers, Sequences

CONSTANTS
  Readers,    \* threads serving GET requests of the session
  N,          \* content_length
  Cap,        \* cap_bytes
  Chunk       \* _READAHEAD_FETCH_CHUNK, also the most one relay step writes

ASSUME SizesAssumption == N \in Nat \ {0} /\ Cap \in Nat \ {0} /\ Chunk \in Nat \ {0}

VARIABLES
  window,    \* the buffer: [base, data]
  stopped,   \* its stop event
  aborting,  \* Kodi is shutting down (Monitor.abortRequested)
  dpc,       \* where the daemon is
  at,        \* its fetch_offset
  want,      \* how much it asks for
  hs         \* the request of each handler: [pc, cur, end, body]

daemonVars == <<dpc, at, want>>
windowVars == <<window, stopped, aborting, dpc, at, want, hs>>

Offsets == 0 .. N - 1
Ends == 0 .. N

\* The bytes of the file from offset o on, n of them.
Bytes(o, n) == [i \in 1 .. n |-> o + i - 1]
Least(a, b) == IF a < b THEN a ELSE b

-----------------------------------------------------------------------------
(* The methods of ReadAheadBuffer. *)

WindowEnd(w) == w.base + Len(w.data)

\* Drop the first n bytes: del data[:n]; base_offset += n.
Trim(w, n) == [base |-> w.base + n, data |-> SubSeq(w.data, n + 1, Len(w.data))]

\* read_prefix: only a read that starts at the window's first byte hits.
ReadPrefixAny(w, s, e) == SubSeq(w.data, 1, Least(e - s + 1, Len(w.data)))
ReadPrefix(w, s, e) ==
  IF s = w.base THEN SubSeq(w.data, 1, Least(e - s + 1, Len(w.data))) ELSE <<>>

\* append: contiguous forward only, cut to the room under the cap and in the file.
Room(w) == Least(Cap - Len(w.data), N - WindowEnd(w))
AppendChunk(w, o, chunk) ==
  IF o = WindowEnd(w) /\ Room(w) > 0
  THEN [w EXCEPT !.data = @ \o SubSeq(chunk, 1, Least(Room(w), Len(chunk)))]
  ELSE w

\* free_behind: a no-op at or behind the base, never past the window's end.
FreeBehind(w, o) ==
  IF o > w.base THEN Trim(w, Least(o - w.base, Len(w.data))) ELSE w

\* update_served_high_water: a read past the window restarts it there, one
\* inside it trims what was consumed.
RestartAt(w, o) == [base |-> o, data |-> <<>>]
HighWater(w, o) ==
  IF o >= WindowEnd(w) THEN [base |-> o, data |-> <<>>]
  ELSE IF o > w.base THEN Trim(w, o - w.base) ELSE w

\* note_seek: a seek into the lead keeps what is ahead, any other drops it all.
NoteSeek(w, o) ==
  IF o = w.base THEN w
  ELSE IF w.base < o /\ o <= WindowEnd(w) THEN Trim(w, o - w.base)
  ELSE [base |-> o, data |-> <<>>]

-----------------------------------------------------------------------------

Idle == [pc |-> "idle", cur |-> 0, end |-> 0, body |-> <<>>]

WindowInit ==
  /\ window = [base |-> 0, data |-> <<>>]
  /\ stopped = FALSE
  /\ aborting = FALSE
  /\ dpc = "defer"
  /\ at = 0
  /\ want = 0
  /\ hs = [h \in Readers |-> Idle]

-----------------------------------------------------------------------------
(* The daemon. *)

Halting == stopped \/ aborting

\* _readahead_defer_start, then the first test of the loop.
DeferEnds ==
  /\ dpc = "defer"
  /\ dpc' = IF Halting THEN "done" ELSE "loop"
  /\ UNCHANGED <<window, stopped, aborting, at, want, hs>>

\* The loop's test and next_fetch_offset; at the end of the file it returns.
NextFetchUnstoppable == aborting
NextFetchStops == Halting
NextFetch ==
  /\ dpc = "loop"
  /\ LET next == WindowEnd(window)
     IN IF NextFetchStops \/ next >= N
        THEN dpc' = "done" /\ UNCHANGED at
        ELSE dpc' = "full" /\ at' = next
  /\ UNCHANGED <<window, stopped, aborting, want, hs>>

\* is_full
CheckFull ==
  /\ dpc = "full"
  /\ dpc' = IF Len(window.data) >= Cap THEN "wait" ELSE "room"
  /\ UNCHANGED <<window, stopped, aborting, at, want, hs>>

\* space_remaining
ComputeWant ==
  /\ dpc = "room"
  /\ LET n == Least(Least(Chunk, Cap - Len(window.data)), N - at)
     IN IF n <= 0 THEN dpc' = "wait" /\ UNCHANGED want
                  ELSE dpc' = "fetch" /\ want' = n
  /\ UNCHANGED <<window, stopped, aborting, at, hs>>

\* _fetch_primary_range_bytes: the whole range or nothing.
FetchAnswers ==
  /\ dpc = "fetch"
  /\ dpc' = "append"
  /\ UNCHANGED <<window, stopped, aborting, at, want, hs>>

FetchFails ==
  /\ dpc = "fetch"
  /\ dpc' = "wait"
  /\ UNCHANGED <<window, stopped, aborting, at, want, hs>>

AppendFetched ==
  /\ dpc = "append"
  /\ window' = AppendChunk(window, at, Bytes(at, want))
  /\ dpc' = "loop"
  /\ UNCHANGED <<stopped, aborting, at, want, hs>>

\* waitForAbort with a positive timeout: it times out, or Kodi shuts down.
WaitForAbortZero == FALSE
WaitTimesOut == TRUE
Backoff ==
  /\ dpc = "wait"
  /\ aborting \/ WaitTimesOut
  /\ dpc' = IF aborting THEN "done" ELSE "loop"
  /\ UNCHANGED <<window, stopped, aborting, at, want, hs>>

Daemon ==
  DeferEnds \/ NextFetch \/ CheckFull \/ ComputeWant \/ FetchAnswers \/ FetchFails
  \/ AppendFetched \/ Backoff

-----------------------------------------------------------------------------
(* The handlers. *)

Become(h, new) ==
  /\ hs' = [hs EXCEPT ![h] = new]
  /\ UNCHANGED <<stopped, aborting, dpc, at, want>>

\* The request after its position moved on to cur.
Advanced(h, cur, pc) ==
  IF cur > hs[h].end THEN Idle
  ELSE [pc |-> pc, cur |-> cur, end |-> hs[h].end, body |-> <<>>]

\* _serve_proxy: a range request of a registered session, noted as a seek.
Request(h, start, end) ==
  /\ hs[h].pc = "idle" /\ ~stopped /\ start <= end
  /\ window' = NoteSeek(window, start)
  /\ Become(h, [pc |-> "range", cur |-> start, end |-> end, body |-> <<>>])

\* _serve_from_readahead: the window is consulted first.
ReadWindow(h) ==
  /\ hs[h].pc = "range"
  /\ LET body == ReadPrefix(window, hs[h].cur, hs[h].end)
     IN Become(h, IF body = <<>> THEN [hs[h] EXCEPT !.pc = "upstream"]
                  ELSE [hs[h] EXCEPT !.pc = "write", !.body = body])
  /\ UNCHANGED window

\* wfile.write of the hit
WriteHit(h) ==
  /\ hs[h].pc = "write"
  /\ Become(h, [hs[h] EXCEPT !.pc = "free"])
  /\ UNCHANGED window

ServedTo(h) == hs[h].cur + Len(hs[h].body)

\* free_behind, and then (another acquisition of the lock) the high water.
FreeServed(h) ==
  /\ hs[h].pc = "free"
  /\ window' = FreeBehind(window, ServedTo(h))
  /\ Become(h, [hs[h] EXCEPT !.pc = "mark"])

MarkServed(h) ==
  /\ hs[h].pc = "mark"
  /\ window' = HighWater(window, ServedTo(h))
  /\ Become(h, Advanced(h, ServedTo(h), "upstream"))

\* _relay_upstream_chunk: n bytes straight from upstream.
Relay(h, n) ==
  /\ hs[h].pc = "upstream"
  /\ n <= hs[h].end - hs[h].cur + 1
  /\ window' = HighWater(window, hs[h].cur + n)
  /\ Become(h, Advanced(h, hs[h].cur + n, "upstream"))

\* Bytes the window is not told of: a cached prefix before the open ("upstream"
\* next), zero-fill or a retry after a short read ("range" next, n may be 0).
ServeAside(h, n, next) ==
  /\ hs[h].pc = "upstream"
  /\ n <= hs[h].end - hs[h].cur + 1
  /\ Become(h, Advanced(h, hs[h].cur + n, next))
  /\ UNCHANGED window

\* The client is gone or the loop gives up.
GiveUp(h) ==
  /\ hs[h].pc \in {"range", "write", "upstream"}
  /\ Become(h, Idle)
  /\ UNCHANGED window

ServeWindow(h) ==
  \/ \E start, end \in Offsets : Request(h, start, end)
  \/ ReadWindow(h) \/ WriteHit(h) \/ FreeServed(h) \/ MarkServed(h)
  \/ \E n \in 1 .. Chunk : Relay(h, n)
  \/ \E n \in 0 .. Chunk : \E next \in {"range", "upstream"} : ServeAside(h, n, next)
  \/ GiveUp(h)

\* _cleanup_session: only once no handler holds the session.
StopBuffer ==
  /\ ~stopped /\ \A h \in Readers : hs[h].pc = "idle"
  /\ stopped' = TRUE
  /\ UNCHANGED <<window, aborting, dpc, at, want, hs>>

AbortRequested ==
  /\ ~aborting
  /\ aborting' = TRUE
  /\ UNCHANGED <<window, stopped, dpc, at, want, hs>>

WindowNext == Daemon \/ StopBuffer \/ AbortRequested \/ \E h \in Readers : ServeWindow(h)

WindowSpec == WindowInit /\ [][WindowNext]_windowVars

\* The daemon is a thread whose waits and requests have timeouts; the source
\* answers in the end some of the fetches it is asked for again and again.
\* Nothing is assumed of the handlers: a paused player blocks their writes.
FairWindow == WindowSpec /\ WF_windowVars(Daemon) /\ SF_windowVars(FetchAnswers)

-----------------------------------------------------------------------------
(* Properties. *)

\* The variables keep their types: in particular the window never exceeds its
\* cap nor the file, and a request never passes its end.
WindowTypeOK ==
  /\ window \in [base : Ends, data : Seq(Offsets)]
  /\ Len(window.data) <= Cap
  /\ WindowEnd(window) <= N
  /\ stopped \in BOOLEAN /\ aborting \in BOOLEAN
  /\ dpc \in {"defer", "loop", "full", "room", "fetch", "append", "wait", "done"}
  /\ at \in Offsets
  /\ want \in 0 .. Chunk
  /\ dpc \in {"fetch", "append"} => at + want <= N
  /\ hs \in [Readers -> [pc : {"idle", "range", "write", "free", "mark", "upstream"},
                         cur : Offsets, end : Offsets, body : Seq(Offsets)]]
  /\ \A h \in Readers : ServedTo(h) <= hs[h].end + 1

\* The window is the run of file bytes from its base on, whatever seeks and
\* reads came between the daemon's look at its end and its append.
WindowIsFile == window.data = Bytes(window.base, Len(window.data))

\* What a handler writes from the window are the file's bytes from its own
\* position on, although other handlers move the window meanwhile.
HitIsExact ==
  \A h \in Readers : hs[h].body = Bytes(hs[h].cur, Len(hs[h].body))

\* A prefetched byte leaves the window only because the handler that takes the
\* step has served past it, or has sought to a place outside the window: no
\* read in the window throws away the lead ahead of it.
Held(o) == window.base <= o /\ o < WindowEnd(window)
SoughtOut(h) ==
  /\ hs[h].pc = "idle" /\ hs'[h].pc = "range"
  /\ hs'[h].cur < window.base \/ hs'[h].cur > WindowEnd(window)
Passed(h, o) ==
  \/ hs[h].pc = "free" /\ o < ServedTo(h)
  \/ hs[h].pc = "mark" /\ o < ServedTo(h)
  \/ hs[h].pc = "upstream" /\ o < hs'[h].cur
  \/ hs[h].pc = "upstream" /\ o <= hs[h].end /\ hs'[h] = Idle
  \/ hs[h].pc = "idle" /\ o < hs'[h].cur
LeadSurvives ==
  [][\A o \in Offsets :
       Held(o) /\ ~Held(o)' =>
         \E h \in Readers : hs'[h] # hs[h] /\ (SoughtOut(h) \/ Passed(h, o))]_windowVars

\* A stopped daemon ends, wherever the stop finds it.
StoppedEnds == stopped ~> dpc = "done"

\* While the player is paused (no handler step any more) the lead grows until
\* the window is full or at the end of the file, unless the daemon has ended.
Paused == <>[][UNCHANGED hs]_windowVars
Built == Len(window.data) >= Cap \/ WindowEnd(window) >= N
FillsWhilePaused == Paused => []<>(Built \/ dpc = "done")

\* The same without the last proviso, as the comments have it: "An
\* out-of-window seek ... sets base_offset to the seek target so the prefetch
\* thread refills forward" (stream_proxy_buffer.py:137-140).
SeekIsRefilled == Paused => []<>(Built \/ stopped \/ aborting)
==============================================================================
