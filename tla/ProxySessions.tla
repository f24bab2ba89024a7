---------------------------- MODULE ProxySessions ----------------------------
(***************************************************************************)
(* The sessions of the stream proxy (class StreamProxy and the request     *)
(* handlers of its HTTP server): how /prepare builds and registers one,    *)
(* how GET handlers lease it, how player hooks, later prepares, pruning    *)
(* and a restart of the proxy take it out of the tables, and how whoever   *)
(* took it out - or the last handler to leave - releases what it owns.     *)
(*                                                                         *)
(* Every /prepare request is one thread and makes at most one session, so  *)
(* a member of Plays names both.  Every critical section of _context_lock  *)
(* (or of a session's ffmpeg_lock) is one action; what the code does       *)
(* between two of them (kill, wait, rmtree, network) is another.           *)
(*                                                                         *)
(* Abstracted: timestamps (which of the other sessions are expired or the  *)
(* least recently used is any choice), the bytes served (module            *)
(* Passthrough), the segments of an HLS producer, how long a kill waits.   *)
(***************************************************************************)
EXTENDS Integers, FiniteSets

CONSTANTS
  Plays,        \* /prepare requests, and the session each one may make
  Handlers,     \* threads serving GET requests, one request at a time
  Kinds,        \* for each prepare, the modes it may choose
  MaxSessions,  \* _MAX_STREAM_SESSIONS
  MaxStops,     \* bound: player stop/end callbacks
  MaxRestarts,  \* bound: deaths of the server's thread
  MaxMistaken,  \* bound: HLS requests for a session of another mode
  Player,       \* the thread of the player callbacks
  Service,      \* the service loop that restarts a dead proxy
  NONE

ASSUME PlaysFinite == IsFiniteSet(Plays)
ASSUME HandlersFinite == IsFiniteSet(Handlers)
ASSUME KindsKnown == Kinds \in [Plays -> SUBSET {"proxy", "remux", "hls"}]
ASSUME BoundsAssumption ==
  /\ MaxSessions \in Nat \ {0}
  /\ MaxStops \in Nat
  /\ MaxRestarts \in Nat
  /\ MaxMistaken \in Nat
ASSUME NamesDistinct ==
  /\ Plays \intersect Handlers = {}
  /\ {Player, Service, NONE} \intersect (Plays \union Handlers) = {}
  /\ Player # Service /\ Player # NONE /\ Service # NONE

Threads == Plays \union Handlers \union {Player, Service}

VARIABLES
  (* the server object *)
  server,     \* "up", "dead" (thread gone), "stopping" (in stop()), "none"
  gen,        \* how many servers have been closed
  table,      \* stream_sessions
  pending,    \* pending_stream_contexts
  legacy,     \* stream_context, what the bare /stream path serves
  (* the context of each session *)
  kind,       \* "none" before it is built, then its mode
  leases,     \* _active_handlers
  leaked,     \* history: how many of them no handler will ever give back
  deferred,   \* _cleanup_pending
  started,    \* _cleanup_started
  released,   \* how often _cleanup_session has run on it
  producer,   \* hls_producer: "none", "idle" (no ffmpeg), "running", "closed"
  active,     \* active_ffmpeg: the handler that owns the process, or NONE
  (* the threads *)
  ppc, home,  \* a prepare's place, and the server that accepted it
  hpc, hctx,  \* a handler's place, and the context it leased
  live,       \* the handlers whose ffmpeg process is running
  todo,       \* contexts a thread took out and has not looked at yet
  doing,      \* the context whose _cleanup_session a thread is running
  stops       \* player callbacks so far

serverVars  == <<server, gen, table, pending, legacy>>
contextVars == <<kind, leases, leaked, deferred, started, released, producer, active>>
threadVars  == <<ppc, home, hpc, hctx, live, todo, doing, stops>>
vars        == <<serverVars, contextVars, threadVars>>

PrepareSteps == {"idle", "build", "pend", "make", "spawn", "wait",
                 "check", "register", "respond", "fail", "done", "failed", "gone"}
HandlerSteps == {"idle", "spawn", "cas", "remux", "finish", "body"}

(* Every variable holds what its comment says. *)
TypeOK ==
  /\ server \in {"up", "dead", "stopping", "none"}
  /\ gen \in Nat
  /\ table \subseteq Plays
  /\ pending \subseteq Plays
  /\ legacy \in Plays \union {NONE}
  /\ kind \in [Plays -> {"none", "proxy", "remux", "hls"}]
  /\ leases \in [Plays -> Nat]
  /\ leaked \in [Plays -> Nat]
  /\ deferred \in [Plays -> BOOLEAN]
  /\ started \in [Plays -> BOOLEAN]
  /\ released \in [Plays -> Nat]
  /\ producer \in [Plays -> {"none", "idle", "running", "closed"}]
  /\ active \in [Plays -> Handlers \union {NONE}]
  /\ ppc \in [Plays -> PrepareSteps]
  /\ home \in [Plays -> Nat]
  /\ hpc \in [Handlers -> HandlerSteps]
  /\ hctx \in [Handlers -> Plays \union {NONE}]
  /\ live \subseteq Handlers
  /\ todo \in [Threads -> SUBSET Plays]
  /\ doing \in [Threads -> Plays \union {NONE}]
  /\ stops \in Nat

Init ==
  /\ server = "up" /\ gen = 0
  /\ table = {} /\ pending = {} /\ legacy = NONE
  /\ kind = [p \in Plays |-> "none"]
  /\ leases = [p \in Plays |-> 0]
  /\ leaked = [p \in Plays |-> 0]
  /\ deferred = [p \in Plays |-> FALSE]
  /\ started = [p \in Plays |-> FALSE]
  /\ released = [p \in Plays |-> 0]
  /\ producer = [p \in Plays |-> "none"]
  /\ active = [p \in Plays |-> NONE]
  /\ ppc = [p \in Plays |-> "idle"]
  /\ home = [p \in Plays |-> 0]
  /\ hpc = [h \in Handlers |-> "idle"]
  /\ hctx = [h \in Handlers |-> NONE]
  /\ live = {}
  /\ todo = [t \in Threads |-> {}]
  /\ doing = [t \in Threads |-> NONE]
  /\ stops = 0

------------------------------------------------------------------------------
(* Taking sessions out of the tables and releasing them.                    *)

(* A thread has finished the clean-up it had taken on. *)
Drained(t) == todo[t] = {} /\ doing[t] = NONE

(* clear_sessions, under the lock: everything registered or pending is now
   t's to clean up. *)
TakeAll(t) ==
  /\ todo' = [todo EXCEPT ![t] = table \union pending]
  /\ table' = {} /\ pending' = {} /\ legacy' = NONE

(* The flag under the lock that says somebody owns the teardown of s. *)
TornDownLate(s) == released[s] > 0
TornDown(s) == started[s]

(* _cleanup_session_or_defer, under the lock: somebody else's already, left to
   the last handler, or mine from here on. *)
CleanupOrDefer(t) ==
  /\ doing[t] = NONE
  /\ \E s \in todo[t] :
       /\ todo' = [todo EXCEPT ![t] = @ \ {s}]
       /\ \/ /\ TornDown(s)
             /\ UNCHANGED <<deferred, started, doing>>
          \/ /\ ~TornDown(s) /\ leases[s] > 0
             /\ deferred' = [deferred EXCEPT ![s] = TRUE]
             /\ UNCHANGED <<started, doing>>
          \/ /\ ~TornDown(s) /\ leases[s] = 0
             /\ started' = [started EXCEPT ![s] = TRUE]
             /\ doing' = [doing EXCEPT ![t] = s]
             /\ UNCHANGED deferred
  /\ UNCHANGED <<serverVars, kind, leases, leaked, released, producer, active,
                 ppc, home, hpc, hctx, live, stops>>

(* HlsProducer.close on whatever producer the context holds by now. *)
Closed(s) == IF producer[s] = "none" THEN "none" ELSE "closed"

(* _cleanup_session, outside every lock: stop the read-ahead, kill the ffmpeg
   the context names, remove the temp file, close the producer. *)
CleanupSession(t) ==
  /\ doing[t] # NONE
  /\ LET s == doing[t] IN
       /\ live' = live \ {active[s]}
       /\ producer' = [producer EXCEPT ![s] = Closed(s)]
       /\ released' = [released EXCEPT ![s] = @ + 1]
  /\ doing' = [doing EXCEPT ![t] = NONE]
  /\ UNCHANGED <<serverVars, kind, leases, leaked, deferred, started, active,
                 ppc, home, hpc, hctx, todo, stops>>

Cleanup(t) == CleanupOrDefer(t) \/ CleanupSession(t)

------------------------------------------------------------------------------
(* One /prepare request.                                                    *)

(* The proxy that accepted p still has its server: stop() sets it to None, and
   every table access after that raises. *)
HasServer(p) == home[p] = gen /\ server # "none"

Goto(p, place) == ppc' = [ppc EXCEPT ![p] = place]

(* do_POST has read and validated the body; prepare_stream tears down every
   previous session before anything else. *)
Accept(p) ==
  /\ ppc[p] = "idle" /\ server = "up"
  /\ Goto(p, "build")
  /\ home' = [home EXCEPT ![p] = gen]
  /\ TakeAll(p)
  /\ UNCHANGED <<server, gen, contextVars, hpc, hctx, live, doing, stops>>

(* Probing the file picks the mode, or raises: a ValueError is answered 400 at
   once, anything else goes through the handler that clears. *)
Build(p) ==
  /\ ppc[p] = "build" /\ Drained(p)
  /\ \/ \E k \in Kinds[p] :
          /\ kind' = [kind EXCEPT ![p] = k]
          /\ Goto(p, IF k = "hls" THEN "pend" ELSE "register")
     \/ \E place \in {"fail", "failed"} : Goto(p, place) /\ UNCHANGED kind
  /\ UNCHANGED <<serverVars, leases, leaked, deferred, started, released, producer, active,
                 home, hpc, hctx, live, todo, doing, stops>>

(* _add_pending_context. *)
AddPending(p) ==
  /\ ppc[p] = "pend"
  /\ IF HasServer(p)
       THEN pending' = pending \union {p} /\ Goto(p, "make")
       ELSE Goto(p, "fail") /\ UNCHANGED pending
  /\ UNCHANGED <<server, gen, table, legacy, contextVars, home, hpc, hctx, live,
                 todo, doing, stops>>

(* Leaving _register_hls_session for good or for ill: the finally clause. *)
DropPending(p) == pending' = IF HasServer(p) THEN pending \ {p} ELSE pending

(* What the except clause does: a cancelled prepare raises, any other failure
   closes the producer and turns the session into a matroska remux. *)
FallBack(p) ==
  /\ DropPending(p)
  /\ \/ started[p] /\ Goto(p, "fail") /\ UNCHANGED <<kind, producer>>
     \/ /\ ~started[p]
        /\ Goto(p, "check")
        /\ kind' = [kind EXCEPT ![p] = "remux"]
        /\ producer' = [producer EXCEPT ![p] = "none"]

(* The constructor makes the session directory and opens the log, or raises. *)
MakeProducer(p) ==
  /\ ppc[p] = "make"
  /\ \/ /\ producer' = [producer EXCEPT ![p] = "idle"]
        /\ Goto(p, "spawn")
        /\ UNCHANGED <<kind, pending>>
     \/ FallBack(p)
  /\ UNCHANGED <<server, gen, table, legacy, leases, leaked, deferred, started, released,
                 active, home, hpc, hctx, live, todo, doing, stops>>

(* _ensure_ffmpeg_headed_for's first test. *)
MaySpawnAnyway(s) == TRUE
MaySpawn(s) == producer[s] # "closed"

(* prepare() spawns ffmpeg unless the producer was closed meanwhile (or ffmpeg
   does not start), in which case it raises. *)
SpawnProducer(p) ==
  /\ ppc[p] = "spawn"
  /\ \/ /\ MaySpawn(p)
        /\ producer' = [producer EXCEPT ![p] = "running"]
        /\ Goto(p, "wait")
        /\ UNCHANGED <<kind, pending>>
     \/ FallBack(p)
  /\ UNCHANGED <<server, gen, table, legacy, leases, leaked, deferred, started, released,
                 active, home, hpc, hctx, live, todo, doing, stops>>

(* ... then waits for its first files: they appear, or it raises. *)
AwaitProducer(p) ==
  /\ ppc[p] = "wait"
  /\ \/ /\ producer[p] # "closed"
        /\ DropPending(p)
        /\ Goto(p, "check")
        /\ UNCHANGED <<kind, producer>>
     \/ FallBack(p)
  /\ UNCHANGED <<server, gen, table, legacy, leases, leaked, deferred, started, released,
                 active, home, hpc, hctx, live, todo, doing, stops>>

(* _register_hls_session's last look at _cleanup_started, without the lock. *)
CheckCancelled(p) ==
  /\ ppc[p] = "check"
  /\ Goto(p, IF started[p] THEN "fail" ELSE "register")
  /\ UNCHANGED <<serverVars, contextVars, home, hpc, hctx, live, todo, doing, stops>>

(* What pruning leaves in the table once p is in it: p, and no more than fits.
   Which others are expired or least recently used is left open. *)
Pruned(p) ==
  {rest \in SUBSET (table \union {p}) : p \in rest /\ Cardinality(rest) <= MaxSessions}

(* _register_session, under the lock; the evicted are p's to clean up. *)
Register(p) ==
  /\ ppc[p] = "register"
  /\ \/ /\ HasServer(p)
        /\ legacy' = p
        /\ \E rest \in Pruned(p) :
             /\ table' = rest
             /\ todo' = [todo EXCEPT ![p] = (table \union {p}) \ rest]
        /\ Goto(p, "respond")
     \/ /\ ~HasServer(p)
        /\ Goto(p, "fail")
        /\ UNCHANGED <<table, legacy, todo>>
  /\ UNCHANGED <<server, gen, pending, contextVars, home, hpc, hctx, live, doing, stops>>

(* _send_prepare_success: the client has its URL ... *)
Respond(p) ==
  /\ ppc[p] = "respond" /\ Drained(p)
  /\ Goto(p, "done")
  /\ UNCHANGED <<serverVars, contextVars, home, hpc, hctx, live, todo, doing, stops>>

(* ... or has gone, and cleanup_session_by_id takes the orphan out. *)
ClientGone(p) ==
  /\ ppc[p] = "respond" /\ Drained(p)
  /\ Goto(p, "gone")
  /\ IF HasServer(p) /\ p \in table
       THEN /\ table' = table \ {p}
            /\ legacy' = IF legacy = p THEN NONE ELSE legacy
            /\ todo' = [todo EXCEPT ![p] = {p}]
       ELSE UNCHANGED <<table, legacy, todo>>
  /\ UNCHANGED <<server, gen, pending, contextVars, home, hpc, hctx, live, doing, stops>>

(* _run_prepare_stream's except clause: clear everything, answer 500. *)
ClearAfterFailure(p) ==
  /\ ppc[p] = "fail"
  /\ Goto(p, "failed")
  /\ IF HasServer(p) THEN TakeAll(p) ELSE UNCHANGED <<table, pending, legacy, todo>>
  /\ UNCHANGED <<server, gen, contextVars, home, hpc, hctx, live, doing, stops>>

Prepare(p) ==
  \/ Build(p)
  \/ AddPending(p) \/ MakeProducer(p) \/ SpawnProducer(p) \/ AwaitProducer(p)
  \/ CheckCancelled(p) \/ Register(p) \/ Respond(p) \/ ClientGone(p)
  \/ ClearAfterFailure(p)

------------------------------------------------------------------------------
(* One GET request.                                                         *)

Move(h, place) == hpc' = [hpc EXCEPT ![h] = place]

(* _get_stream_context(acquire=True), under the lock: by the URL a prepare
   returned, or by the bare path; a session being torn down is refused (404). *)
Lease(h) ==
  /\ hpc[h] = "idle" /\ Drained(h) /\ server = "up"
  /\ \E s \in table :
       /\ ppc[s] = "done" \/ s = legacy
       /\ ~TornDown(s)
       /\ leases' = [leases EXCEPT ![s] = @ + 1]
       /\ hctx' = [hctx EXCEPT ![h] = s]
       /\ Move(h, IF kind[s] = "remux" THEN "spawn" ELSE "body")
  /\ UNCHANGED <<serverVars, kind, leaked, deferred, started, released, producer, active,
                 ppc, home, live, todo, doing, stops>>

(* _handle_hls leases whatever session its URL names, answers 404 when that is not an
   HLS one, and returns without giving the lease back. *)
MistakenHls(h) ==
  /\ hpc[h] = "idle" /\ Drained(h) /\ server = "up"
  /\ \E s \in table :
       /\ ppc[s] = "done" /\ kind[s] # "hls"
       /\ ~TornDown(s)
       /\ leaked[s] < MaxMistaken
       /\ leases' = [leases EXCEPT ![s] = @ + 1]
       /\ leaked' = [leaked EXCEPT ![s] = @ + 1]
  /\ UNCHANGED <<serverVars, kind, deferred, started, released, producer, active,
                 threadVars>>

(* _spawn_remux_proc, outside the lock. *)
SpawnRemux(h) ==
  /\ hpc[h] = "spawn"
  /\ \/ live' = live \union {h} /\ Move(h, "cas")
     \/ Move(h, "body") /\ UNCHANGED live
  /\ UNCHANGED <<serverVars, contextVars, ppc, home, hctx, todo, doing, stops>>

(* The tracked process is another's and still running. *)
Occupied(s) == active[s] # NONE /\ active[s] \in live

(* _start_remux_process's compare-and-swap, under ffmpeg_lock. *)
KeepOrKill(h) ==
  /\ hpc[h] = "cas"
  /\ LET s == hctx[h] IN
       \/ /\ Occupied(s)
          /\ live' = live \ {h} /\ Move(h, "body") /\ UNCHANGED active
       \/ /\ ~Occupied(s)
          /\ active' = [active EXCEPT ![s] = h] /\ Move(h, "remux") /\ UNCHANGED live
  /\ UNCHANGED <<serverVars, kind, leases, leaked, deferred, started, released, producer,
                 ppc, home, hctx, todo, doing, stops>>

(* A segment or init request restarts the producer's ffmpeg if it has exited. *)
EnsureProducer(h) ==
  /\ hpc[h] = "body"
  /\ LET s == hctx[h] IN
       /\ kind[s] = "hls" /\ producer[s] = "idle"
       /\ producer' = [producer EXCEPT ![s] = "running"]
  /\ UNCHANGED <<serverVars, kind, leases, leaked, deferred, started, released, active,
                 threadVars>>

(* The pipe is empty or a write timed out: _finish_remux kills its ffmpeg ... *)
RemuxEnds(h) ==
  /\ hpc[h] = "remux"
  /\ live' = live \ {h} /\ Move(h, "finish")
  /\ UNCHANGED <<serverVars, contextVars, ppc, home, hctx, todo, doing, stops>>

(* ... and then drops the handle, under ffmpeg_lock, if it is still its own. *)
UntrackedAlways(h, s) == NONE
Untracked(h, s) == IF active[s] = h THEN NONE ELSE active[s]
Untrack(h) ==
  /\ hpc[h] = "finish"
  /\ active' = [active EXCEPT ![hctx[h]] = Untracked(h, hctx[h])]
  /\ Move(h, "body")
  /\ UNCHANGED <<serverVars, kind, leases, leaked, deferred, started, released, producer,
                 ppc, home, hctx, live, todo, doing, stops>>

(* Whatever the handler still sends is sent, or timed out, and it leaves by the
   finally clause.  _release_handler_lease: the last handler out of a session whose clean-up was
   left to it claims that clean-up. *)
LastOutCountedEarly(s) == leases[s] = 0 /\ deferred[s] /\ ~started[s]
LastOutAny(s) == deferred[s] /\ ~started[s]
LastOut(s) == leases[s] = 1 /\ deferred[s] /\ ~started[s]
Fewer(n) == IF n > 0 THEN n - 1 ELSE 0
ReleaseLease(h) ==
  /\ hpc[h] = "body"
  /\ LET s == hctx[h] IN
       /\ leases' = [leases EXCEPT ![s] = Fewer(@)]
       /\ \/ /\ LastOut(s)
             /\ started' = [started EXCEPT ![s] = TRUE]
             /\ doing' = [doing EXCEPT ![h] = s]
          \/ ~LastOut(s) /\ UNCHANGED <<started, doing>>
  /\ hctx' = [hctx EXCEPT ![h] = NONE]
  /\ Move(h, "idle")
  /\ UNCHANGED <<serverVars, kind, leaked, deferred, released, producer, active,
                 ppc, home, live, todo, stops>>

Serve(h) ==
  SpawnRemux(h) \/ KeepOrKill(h) \/ RemuxEnds(h) \/ Untrack(h) \/ ReleaseLease(h)

------------------------------------------------------------------------------
(* The player's callbacks, the service loop, and what dies by itself.       *)

(* onPlayBackStopped / onPlayBackEnded call clear_sessions. *)
PlayerStops ==
  /\ stops < MaxStops /\ Drained(Player) /\ server # "none"
  /\ stops' = stops + 1
  /\ TakeAll(Player)
  /\ UNCHANGED <<server, gen, contextVars, ppc, home, hpc, hctx, live, doing>>

(* serve_forever ends: nothing is accepted any more. *)
ListenerDies ==
  /\ server = "up" /\ gen < MaxRestarts
  /\ server' = "dead"
  /\ UNCHANGED <<gen, table, pending, legacy, contextVars, threadVars>>

(* _restart_dead_proxy: stop() clears the sessions ... *)
StopClears ==
  /\ server = "dead" /\ Drained(Service)
  /\ server' = "stopping"
  /\ TakeAll(Service)
  /\ UNCHANGED <<gen, contextVars, ppc, home, hpc, hctx, live, doing, stops>>

(* ... cleans them up, then closes the socket and forgets the server, with
   whatever was registered in it meanwhile ... *)
StopCloses ==
  /\ server = "stopping" /\ Drained(Service)
  /\ server' = "none" /\ gen' = gen + 1
  /\ table' = {} /\ pending' = {} /\ legacy' = NONE
  /\ UNCHANGED <<contextVars, threadVars>>

(* ... and a new proxy starts with empty tables. *)
StartAgain ==
  /\ server = "none"
  /\ server' = "up"
  /\ UNCHANGED <<gen, table, pending, legacy, contextVars, threadVars>>

(* An ffmpeg process exits by itself. *)
FfmpegExits ==
  /\ \/ \E h \in live : live' = live \ {h} /\ UNCHANGED producer
     \/ \E s \in Plays :
          /\ producer[s] = "running"
          /\ producer' = [producer EXCEPT ![s] = "idle"]
          /\ UNCHANGED live
  /\ UNCHANGED <<serverVars, kind, leases, leaked, deferred, started, released, active,
                 ppc, home, hpc, hctx, todo, doing, stops>>

Restart == StopClears \/ StopCloses \/ StartAgain

Next ==
  \/ \E p \in Plays : Accept(p) \/ Prepare(p)
  \/ \E h \in Handlers : Lease(h) \/ MistakenHls(h) \/ Serve(h) \/ EnsureProducer(h)
  \/ \E t \in Threads : Cleanup(t)
  \/ PlayerStops \/ ListenerDies \/ Restart \/ FfmpegExits

Spec == Init /\ [][Next]_vars

(* A GET request that can go on goes on: socket write timeouts, segment deadlines and
   process waits bound every blocking call it makes.  Clean-ups are finite work, so of them
   it is enough that some thread goes on.  Nothing else need ever happen: no prepare, no
   callback, no restart, no death or exit. *)
Fairness ==
  /\ \A h \in Handlers : WF_vars(Serve(h))
  /\ WF_vars(\E t \in Threads : Cleanup(t))

FairSpec == Spec /\ Fairness

------------------------------------------------------------------------------
(* Properties.                                                              *)

(* What a session owns is released at most once, whoever races to do it: a
   prepare, a player callback, a prune, a restart or the last handler
   (_cleanup_started is claimed under the lock). *)
CleanedOnce ==
  \A s \in Plays :
    /\ released[s] <= 1
    /\ \A t, u \in Threads : doing[t] = s /\ doing[u] = s => t = u
    /\ \A t \in Threads : doing[t] = s => released[s] = 0

(* No session is being released, or has been, while a GET handler still works
   on it: temp file, read-ahead window, producer and ffmpeg stay until the last
   one has left (the leases of _touch_stream_context). *)
NotCleanedInUse ==
  \A h \in Handlers, s \in Plays :
    hctx[h] = s => /\ released[s] = 0
                   /\ \A t \in Threads : doing[t] # s

(* Two range requests that raced to start ffmpeg leave one process on the
   session, and its handle, not a stale one, is what the session tracks. *)
OneFfmpeg ==
  \A s \in Plays : \A h \in Handlers :
    hctx[h] = s /\ hpc[h] = "remux" /\ h \in live => active[s] = h

(* The bare /stream path serves a session that is still registered, or none,
   and pruning keeps the table within its bound. *)
LegacyIsRegistered ==
  /\ legacy # NONE => legacy \in table
  /\ Cardinality(table) <= MaxSessions

(* A closed producer stays closed: no late request or prepare brings back the
   ffmpeg of a session that was torn down. *)
ClosedStaysClosed ==
  [][\A s \in Plays : producer[s] = "closed" /\ started[s] => producer'[s] = "closed"]_vars

(* Whoever takes a session out of the tables, it is eventually released: by
   that thread, or by the last handler once it was deferred.  Two things excuse it: an HLS
   request for a session of another mode kept a lease of it (ReleasedInTheEnd), or a prepare
   whose pending context was taken out but not torn down yet registered it all the same, and
   overlapping requests may then hold it until it is taken out again. *)
Taken(s) == \E t \in Threads : s \in todo[t]
TakenIsReleased ==
  \A s \in Plays : Taken(s) ~> (released[s] = 1 \/ leaked[s] > 0 \/ s \in table)

(* A session that was taken out of the tables is released, however its requests ended
   ("Release a request lease and run deferred cleanup when safe"). *)
ReleasedInTheEnd == \A s \in Plays : Taken(s) ~> (released[s] = 1)

(* What a comment in prepare_stream promises: once a play has torn the previous
   sessions down, none of their ffmpeg processes is running. *)
NoStaleFfmpeg ==
  \A p \in Plays :
    /\ ppc[p] = "register"
    /\ \A q \in Plays \ {p} : ppc[q] \in {"idle", "done"}
    => \A h \in live : hctx[h] \in table

(* What _register_hls_session says of a prepare cancelled mid-flight: it fails,
   and a failed one leaves no producer behind once its session is torn down. *)
CancelledIsClosed ==
  \A p \in Plays :
    ppc[p] = "failed" /\ released[p] > 0 => producer[p] \notin {"idle", "running"}
==============================================================================
