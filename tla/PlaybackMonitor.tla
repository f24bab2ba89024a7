--------------------------- MODULE PlaybackMonitor ---------------------------
(***************************************************************************)
(* After the hand-over: the background service follows the play through    *)
(* window properties and Kodi's callbacks, retries it when it fails, and   *)
(* keeps the position it stopped at (service.py, resume_store.py); the     *)
(* plugin thread of the next play scrubs Kodi's bookmark, offers the kept  *)
(* position and hands over in turn (resolver_resume.py).                   *)
(*                                                                         *)
(* Three threads: the service's tick, Kodi's callbacks into the service    *)
(* (in order, one at a time), and the plugin's, in a process of its own.   *)
(* A position is 0 (the beginning, or none) or one of 1 .. Last.           *)
(***************************************************************************)
EXTENDS Integers, Sequences

CONSTANTS Releases, First, MaxPlays, MaxRetries, Last, MaxEvents

ASSUME BoundsAssumption ==
  /\ MaxPlays \in Nat \ {0} /\ MaxRetries \in Nat /\ Last \in Nat \ {0}
  /\ MaxEvents \in Nat \ {0} /\ First \in Releases

VARIABLES
  player,    \* the play Kodi plays (0: none), where it is, whether it shows pictures
  events,    \* callbacks on their way to the service
  bookmark,  \* Kodi's own: release -> position
  store,     \* resume.json: key -> position
  asked,     \* plays asked for so far
  plug,      \* the plugin thread
  rel,       \* play -> its release
  props,     \* the window properties of the hand-over
  flag,      \* nzbdav.playing
  mon,       \* NzbdavPlayer
  tick,      \* where the service's loop is
  call,      \* where a callback is
  reached,   \* release -> the furthest position it was known or played at (history)
  overlap,   \* a play was asked for before the last was through, or retried after (history)
  mixed      \* releases that were given the position of another one's play (history)

kodi == <<player, events, bookmark>>
service == <<flag, mon, tick, call>>
history == <<reached, overlap, mixed>>
vars == <<kodi, store, asked, plug, rel, props, service, history>>

Plays == 1 .. MaxPlays
Positions == 0 .. Last
\* resume.json has an entry per release, and one per url from an older version.
Keys == Releases \X {"release", "url"}
NoKey == <<First, "none">>
KeyOf(play) == IF play = 0 THEN NoKey ELSE <<rel[play], "release">>
NoStore == [k \in Keys |-> 0]
NoPlay == [play |-> 0, pos |-> 0, shown |-> FALSE]
NoProps == [active |-> FALSE, play |-> 0, pos |-> 0]
NoPlugin == [pc |-> "none", scrub |-> 0, start |-> 0, todo |-> <<>>, buf |-> NoStore]
NoCall == [pc |-> "none", key |-> NoKey, pos |-> 0, buf |-> NoStore]
NoTick == [pc |-> "rest", got |-> 0, play |-> 0]
Event(kind) == [kind |-> kind, pos |-> 0, of |-> 0]
Larger(a, b) == IF a > b THEN a ELSE b
Room == Len(events) < MaxEvents

\* The release of the first play was never played, or has a position in Kodi's own
\* database, or one from an older version of resume.json.
Init ==
  /\ player = NoPlay /\ events = <<>>
  /\ \E inKodi, inFile \in {0, 1} :
       /\ inKodi + inFile < 2
       /\ bookmark = [r \in Releases |-> IF r = First THEN inKodi ELSE 0]
       /\ store = [NoStore EXCEPT ![<<First, "url">>] = inFile]
  /\ asked = 0 /\ plug = NoPlugin
  /\ rel \in {f \in [Plays -> Releases] : f[1] = First}
  /\ props = NoProps /\ flag = FALSE
  /\ mon = [st |-> "idle", play |-> 0, pos |-> 0, tries |-> 0, av |-> FALSE]
  /\ tick = NoTick /\ call = NoCall
  /\ reached = [r \in Releases |-> Larger(bookmark[r], store[<<r, "url">>])]
  /\ overlap = FALSE /\ mixed = {}

-----------------------------------------------------------------------------
(* Kodi. *)

KodiUnchanged == UNCHANGED <<store, asked, plug, rel, props, service, overlap, mixed>>

ShowsPictures ==
  /\ player.play # 0 /\ ~player.shown /\ Room
  /\ player' = [player EXCEPT !.shown = TRUE]
  /\ events' = Append(events, Event("av"))
  /\ UNCHANGED <<bookmark, reached>> /\ KodiUnchanged

MovesOn(pos) ==
  /\ player.shown
  /\ player' = [player EXCEPT !.pos = pos]
  /\ reached' = [reached EXCEPT ![rel[player.play]] = Larger(@, pos)]
  /\ UNCHANGED bookmark /\ KodiUnchanged
PlaysOn == player.pos < Last /\ MovesOn(player.pos + 1) /\ UNCHANGED events
Seeks(pos) ==
  /\ pos # player.pos /\ events = <<>>
  /\ MovesOn(pos) /\ events' = Append(events, [kind |-> "seek", pos |-> pos, of |-> player.play])

\* The user stops it (and Kodi keeps a bookmark of its own), or it ends.
StopsPlaying ==
  /\ player.play # 0 /\ Room
  /\ player' = NoPlay
  /\ \/ /\ events' = Append(events, Event("stopped"))
        /\ bookmark' = [bookmark EXCEPT ![rel[player.play]] = player.pos]
     \/ /\ player.shown
        /\ events' = Append(events, Event("ended")) /\ UNCHANGED bookmark
  /\ UNCHANGED reached /\ KodiUnchanged

\* It fails; Kodi may leave the failed file open until it is stopped.
Fails ==
  /\ player.play # 0 /\ events = <<>>
  /\ player' \in {NoPlay, [player EXCEPT !.shown = FALSE]}
  /\ events' = Append(events, Event("error"))
  /\ UNCHANGED <<bookmark, reached>> /\ KodiUnchanged

\* Opening a file stops the one that is open; an empty url is an error.
Opens(play, pos) ==
  IF play = 0
  THEN /\ Room /\ events' = Append(events, Event("error"))
       /\ UNCHANGED <<player, reached>>
  ELSE /\ Room
       /\ player' = [play |-> play, pos |-> pos, shown |-> FALSE]
       /\ events' = IF player.play = 0 THEN events
                    ELSE Append(events, Event("stopped"))
       /\ reached' = [reached EXCEPT ![rel[play]] = Larger(@, pos)]

-----------------------------------------------------------------------------
(* The plugin thread of a play. *)

PluginUnchanged == UNCHANGED <<asked, rel, service, overlap, mixed>>
Plugin(pc, changed) == plug' = [changed EXCEPT !.pc = pc]
PluginDone == plug' = NoPlugin

\* Nothing plays, no callback is on its way, the service has nothing to follow.
Quiet ==
  /\ player.play = 0 /\ events = <<>> /\ call.pc = "none"
  /\ mon.st = "idle" /\ tick.pc # "drop" /\ ~props.active

AskPlay ==
  /\ plug.pc = "none" /\ asked < MaxPlays
  /\ asked' = asked + 1 /\ Plugin("scrub", plug)
  /\ overlap' = (overlap \/ ~Quiet)
  /\ UNCHANGED <<kodi, store, props, reached, rel, service, mixed>>

Release == rel[asked]
Kept == store[<<Release, "release">>]
KeptByUrl == store[<<Release, "url">>]

\* _clear_kodi_playback_state: capture and delete Kodi's bookmark; not while a
\* video plays, and not if the database is locked.
Scrub ==
  /\ plug.pc = "scrub"
  /\ \/ /\ player.play = 0
        /\ bookmark' = [bookmark EXCEPT ![Release] = 0]
        /\ Plugin("ready", [plug EXCEPT !.scrub = bookmark[Release]])
     \/ Plugin("ready", plug) /\ UNCHANGED bookmark
  /\ UNCHANGED <<player, events, store, props, reached>> /\ PluginUnchanged

\* The stream is not to be had; or it is, in time for the scrub or not, and the
\* position to start from is looked up, an old key's moved to the release's.
PlayFails ==
  /\ plug.pc = "ready"
  /\ PluginDone
  /\ UNCHANGED <<kodi, store, props, reached>> /\ PluginUnchanged

LookUp ==
  /\ plug.pc = "ready"
  /\ \E scrub \in {plug.scrub, 0} :
       LET moves == Kept = 0 /\ KeptByUrl # 0
           stored == IF moves THEN KeptByUrl ELSE Kept IN
         Plugin("prompt",
           [plug EXCEPT !.scrub = scrub, !.start = Larger(scrub, stored),
              !.todo = IF moves THEN << <<"release", stored>>, <<"url", 0>> >> ELSE <<>>])
  /\ UNCHANGED <<kodi, store, props, reached>> /\ PluginUnchanged

\* resume_store: read the file, change one entry, replace the file; two processes
\* do so without a lock.
Written(buf, key, pos) == [buf EXCEPT ![key] = pos]
PluginReads ==
  /\ plug.pc \in {"prompt", "backout"} /\ plug.todo # <<>>
  /\ Plugin(IF plug.pc = "prompt" THEN "move" ELSE "keep", [plug EXCEPT !.buf = store])
  /\ UNCHANGED <<kodi, store, props, reached>> /\ PluginUnchanged
PluginWrites ==
  /\ plug.pc \in {"move", "keep"}
  /\ LET change == Head(plug.todo) IN
       store' = Written(plug.buf, <<Release, change[1]>>, change[2])
  /\ IF plug.pc = "keep" THEN PluginDone
     ELSE Plugin("prompt", [plug EXCEPT !.todo = Tail(@), !.buf = NoStore])
  /\ UNCHANGED <<kodi, props, reached>> /\ PluginUnchanged

\* choose_resume_seconds: resume, start over, or back out, which keeps the scrubbed
\* position if it is the further one.
Choose ==
  /\ plug.pc = "prompt" /\ plug.todo = <<>>
  /\ \/ Plugin("url", [plug EXCEPT !.scrub = 0])
     \/ plug.start # 0 /\ Plugin("url", [plug EXCEPT !.scrub = 0, !.start = 0])
     \/ /\ plug.start # 0 /\ Kept < plug.scrub
        /\ Plugin("backout", [plug EXCEPT !.todo = << <<"release", plug.scrub>> >>])
     \/ plug.start # 0 /\ Kept >= plug.scrub /\ PluginDone
  /\ UNCHANGED <<kodi, store, props, reached>> /\ PluginUnchanged

\* _set_playback_monitor_properties: active comes last.
SetProps ==
  /\ plug.pc = "url"
  /\ props' = [props EXCEPT !.play = asked, !.pos = plug.start]
  /\ Plugin("active", plug)
  /\ UNCHANGED <<kodi, store, reached>> /\ PluginUnchanged
SetActive ==
  /\ plug.pc = "active"
  /\ props' = [props EXCEPT !.active = TRUE]
  /\ Plugin("resolve", plug)
  /\ UNCHANGED <<kodi, store, reached>> /\ PluginUnchanged

\* setResolvedUrl, or Player().play.
HandOver ==
  /\ plug.pc = "resolve"
  /\ Opens(asked, plug.start)
  /\ PluginDone
  /\ UNCHANGED <<bookmark, store, props>> /\ PluginUnchanged

-----------------------------------------------------------------------------
(* Kodi's callbacks. *)

CallUnchanged == UNCHANGED <<player, bookmark, asked, plug, rel, tick, reached, overlap>>
Monitored == mon.st # "idle"
\* The monitor notes a position that Kodi told of a play, whichever it is.
Notes(play) ==
  mixed' = IF mon.play # 0 /\ rel[mon.play] # rel[play] THEN mixed \cup {rel[mon.play]} ELSE mixed

\* The callbacks that only change the state, under the lock.
Notified(e) ==
  CASE e.kind = "av" /\ Monitored -> [mon EXCEPT !.st = "monitoring", !.tries = 0, !.av = TRUE]
    [] e.kind = "seek" /\ Monitored -> [mon EXCEPT !.pos = e.pos]
    [] e.kind = "error" /\ mon.st = "monitoring" -> [mon EXCEPT !.st = "error"]
    [] e.kind \in {"stopped", "ended"} -> [mon EXCEPT !.st = "idle"]
    [] OTHER -> mon

\* What stop and end do besides: save, or clear, the position of the play they end.
Savable == mon.play # 0 /\ mon.av /\ mon.pos > 0
Callback ==
  /\ call.pc = "none" /\ events # <<>>
  /\ LET e == Head(events) IN
     /\ events' = Tail(events)
     /\ mon' = Notified(e)
     /\ IF e.kind = "seek" /\ Monitored THEN Notes(e.of) ELSE UNCHANGED mixed
     /\ call' = IF e.kind \notin {"stopped", "ended"} \/ ~Monitored THEN call
                ELSE IF e.kind = "ended" /\ mon.play # 0
                THEN [call EXCEPT !.pc = "read", !.key = KeyOf(mon.play)]
                ELSE IF e.kind = "stopped" /\ Savable
                THEN [call EXCEPT !.pc = "read", !.key = KeyOf(mon.play), !.pos = mon.pos]
                ELSE [call EXCEPT !.pc = "clean"]
  /\ UNCHANGED <<store, props, flag>> /\ CallUnchanged

\* A position near the end is not worth keeping.
CallReads ==
  /\ call.pc = "read"
  /\ \E pos \in {call.pos, 0} :
       call' = [call EXCEPT !.pc = "write", !.pos = pos, !.buf = store]
  /\ UNCHANGED <<events, store, props, flag, mon>> /\ UNCHANGED mixed /\ CallUnchanged
CallWrites ==
  /\ call.pc = "write"
  /\ store' = Written(call.buf, call.key, call.pos)
  /\ call' = [NoCall EXCEPT !.pc = "clean"]
  /\ UNCHANGED <<events, props, flag, mon>> /\ UNCHANGED mixed /\ CallUnchanged
CallCleans ==
  /\ call.pc = "clean"
  /\ props' = NoProps /\ flag' = FALSE
  /\ call' = NoCall
  /\ UNCHANGED <<events, store, mon>> /\ UNCHANGED mixed /\ CallUnchanged

-----------------------------------------------------------------------------
(* The service's loop. *)

TickUnchanged == UNCHANGED <<bookmark, store, asked, plug, rel, call>>
QuietTick(pc, changed) ==
  /\ tick' = IF pc \in {"rest", "toidle"} THEN [NoTick EXCEPT !.pc = pc]
             ELSE [changed EXCEPT !.pc = pc]
  /\ UNCHANGED <<player, events, reached, overlap, mixed>> /\ TickUnchanged

\* _check_active: take the hand-over, drop the properties, raise the flag.
TakenOverLate == [st |-> "monitoring", play |-> props.play, pos |-> mon.pos,
                  tries |-> 0, av |-> FALSE]
TakenOver == [st |-> "monitoring", play |-> props.play, pos |-> props.pos,
              tries |-> 0, av |-> FALSE]
CheckActive ==
  /\ tick.pc = "rest"
  /\ IF props.active
     THEN mon' = TakenOver /\ QuietTick("drop", tick)
     ELSE /\ Monitored /\ QuietTick("grace", tick) /\ UNCHANGED mon
  /\ UNCHANGED <<props, flag>>
DropProps ==
  /\ tick.pc = "drop"
  /\ props' = NoProps /\ flag' = TRUE
  /\ QuietTick("grace", tick) /\ UNCHANGED mon

\* _save_position: ask Kodi (GetTime), then write it down under the lock (SetPosition).
GetTime ==
  IF player.shown THEN QuietTick("position", [tick EXCEPT !.got = player.pos, !.play = player.play])
  ELSE QuietTick("check", tick)

\* _handle_startup_grace: a play that never showed a picture, given time.
NeverStartedNever == FALSE
NeverStarted == mon.st = "monitoring" /\ ~mon.av /\ player.play = 0
Grace ==
  /\ tick.pc = "grace"
  /\ \/ ~Monitored /\ QuietTick("rest", tick)
     \/ NeverStarted /\ QuietTick("toidle", tick)
     \/ Monitored /\ ~NeverStarted /\ GetTime
  /\ UNCHANGED <<props, flag, mon>>
SetPosition ==
  /\ tick.pc = "position"
  /\ mon' = [mon EXCEPT !.pos = tick.got] /\ Notes(tick.play)
  /\ tick' = [NoTick EXCEPT !.pc = "check"]
  /\ UNCHANGED <<player, events, reached, overlap, props, flag>> /\ TickUnchanged

\* tick and _handle_error_retry: the state is read here ...
TriesLeft == mon.tries < MaxRetries
CheckError ==
  /\ tick.pc = "check"
  /\ \/ mon.st # "error" /\ QuietTick("rest", tick)
     \/ mon.st = "error" /\ QuietTick("toidle", tick)  \* retries are off
     \/ mon.st = "error" /\ ~TriesLeft /\ QuietTick("toidle", tick)
     \/ mon.st = "error" /\ TriesLeft /\ QuietTick("retry", tick)
  /\ UNCHANGED <<props, flag, mon>>
\* ... and overwritten here.
BeginRetry ==
  /\ tick.pc = "retry"
  /\ mon' = [mon EXCEPT !.st = "monitoring", !.tries = @ + 1]
  /\ tick' = [pc |-> "wait", got |-> mon.pos, play |-> mon.play]
  /\ overlap' = (overlap \/ mon.st = "idle")
  /\ UNCHANGED <<player, events, reached, mixed, props, flag>> /\ TickUnchanged

\* After the delay, play the url of then; or Kodi shuts down.
Relaunch ==
  /\ tick.pc = "wait"
  /\ \/ /\ Opens(tick.play, tick.got)
        /\ overlap' = (overlap \/ mon.st = "idle" \/ asked # tick.play)
        /\ tick' = [NoTick EXCEPT !.pc = "await"] /\ UNCHANGED mixed /\ TickUnchanged
     \/ QuietTick("toidle", tick)
  /\ UNCHANGED <<props, flag, mon>>
AwaitStart ==
  /\ tick.pc = "await"
  /\ \/ mon.st # "error" /\ QuietTick("rest", tick)
     \/ mon.st = "error" /\ QuietTick("toidle", tick)
  /\ UNCHANGED <<props, flag, mon>>

\* _enter_idle_and_clear.
ToIdle ==
  /\ tick.pc = "toidle"
  /\ mon' = [mon EXCEPT !.st = "idle"]
  /\ QuietTick("clean", tick) /\ UNCHANGED <<props, flag>>
CleanUp ==
  /\ tick.pc = "clean"
  /\ props' = NoProps /\ flag' = FALSE
  /\ QuietTick("rest", tick) /\ UNCHANGED mon

-----------------------------------------------------------------------------
Kodi == ShowsPictures \/ PlaysOn \/ (\E p \in Positions : Seeks(p)) \/ StopsPlaying \/ Fails
PluginThread ==
  \/ AskPlay \/ Scrub \/ PlayFails \/ LookUp \/ PluginReads \/ PluginWrites \/ Choose
  \/ SetProps \/ SetActive \/ HandOver
Callbacks == Callback \/ CallReads \/ CallWrites \/ CallCleans
Tick ==
  \/ CheckActive \/ DropProps \/ Grace \/ SetPosition
  \/ CheckError \/ BeginRetry \/ Relaunch \/ AwaitStart \/ ToIdle \/ CleanUp

Next == Kodi \/ PluginThread \/ Callbacks \/ Tick

Spec == Init /\ [][Next]_vars

\* The service's loop runs every second and Kodi delivers its callbacks.
FairSpec == Spec /\ WF_vars(Tick) /\ WF_vars(Callbacks)

-----------------------------------------------------------------------------
(* Properties. *)

\* The position kept for a release is never further than it was played, however the
\* hand-overs of several plays, callbacks, retries, loop and two processes writing one
\* file fall.  Excepted are releases whose monitor was told of another one's play; that
\* needs a play asked for before the last one was through, or a retry of one that is.
KeptWasReached ==
  /\ \A r \in Releases \ mixed : store[<<r, "release">>] <= reached[r]
  /\ mixed # {} => overlap

\* "Persist the last position under the original source stream identity"
\* (service.py:334): the same without the exception, refuted.
KeptIsOwn == \A r \in Releases : store[<<r, "release">>] <= reached[r]

\* A monitored play that Kodi does not play does not stay monitored: it is retried
\* or given up, so that nzbdav.playing does not keep the backups coming.
MonitoringEnds == Monitored ~> (~Monitored \/ player.play # 0)

\* "Without the lock a callback could flip state between tick's check and tick's
\* write, for example, user-stop racing into a retry attempt" (service.py:146-148):
\* with it, a retry does not start over a play that was stopped.
StopIsFinal == [][mon.st = "idle" /\ mon'.st # "idle" => props.active]_vars
==============================================================================
