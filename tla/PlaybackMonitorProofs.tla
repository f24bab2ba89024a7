------------------------ MODULE PlaybackMonitorProofs ------------------------
(***************************************************************************)
(* Proofs about the monitoring of a play, for any releases, number of      *)
(* plays, retries, positions and callbacks on their way.                   *)
(***************************************************************************)
EXTENDS PlaybackMonitor, SequenceTheorems, TLAPS

Monitors == [st : {"idle", "monitoring", "error"}, play : Plays \cup {0}, pos : Positions,
             tries : Nat, av : BOOLEAN]
Events == [kind : {"av", "seek", "stopped", "ended", "error"}, pos : Positions,
           of : Plays \cup {0}]
Files == [Keys -> Positions]
Changes == {"release", "url"} \X Positions
Plugins == [pc : {"none", "scrub", "ready", "prompt", "move", "backout", "keep", "url", "active",
                  "resolve"},
            scrub : Positions, start : Positions, todo : Seq(Changes), buf : Files]
Players == [play : Plays \cup {0}, pos : Positions, shown : BOOLEAN]
HandOvers == [active : BOOLEAN, play : Plays \cup {0}, pos : Positions]
Calls == [pc : {"none", "read", "write", "clean"}, key : Keys \cup {NoKey}, pos : Positions,
          buf : Files]
Ticks == [pc : {"rest", "drop", "grace", "position", "check", "retry", "wait", "await", "toidle",
                "clean"},
          got : Positions, play : Plays \cup {0}]

TypeOK ==
  /\ player \in Players
  /\ events \in Seq(Events)
  /\ bookmark \in [Releases -> Positions] /\ reached \in [Releases -> Positions]
  /\ store \in Files
  /\ asked \in Plays \cup {0} /\ rel \in [Plays -> Releases]
  /\ plug \in Plugins /\ call \in Calls /\ tick \in Ticks /\ mon \in Monitors
  /\ props \in HandOvers
  /\ flag \in BOOLEAN /\ overlap \in BOOLEAN /\ mixed \subseteq Releases

\* What a thread is in the middle of is there.
InTheMiddle ==
  /\ plug.pc = "none" => plug = NoPlugin
  /\ plug.pc # "none" => asked # 0
  /\ plug.pc \in {"move", "keep", "backout"} => plug.todo # <<>>
  /\ call.pc = "none" => call.pos = 0
  /\ call.pc \in {"read", "write"} => call.key \in Releases \X {"release"}
  /\ player.shown => player.play # 0

\* Kodi's positions were played.
KodiWasThere ==
  /\ \A r \in Releases : bookmark[r] <= reached[r]
  /\ player.play # 0 => player.pos <= reached[rel[player.play]]

\* While plays do not overlap, what runs, is handed over, monitored or told of is the last
\* one asked for.
OnePlay ==
  /\ player.play \in {0, asked}
  /\ Monitored => mon.play \in {0, asked}
  /\ props.active \/ plug.pc = "active" => props.play \in {0, asked}
  /\ \A i \in 1 .. Len(events) : events[i].kind = "seek" => events[i].of = asked
  /\ tick.pc = "position" => mon.play \in {0, tick.play}

\* What Kodi told of a play, it was played to.  Whoever carries a position for a release
\* carries one of its own, or the release is mixed up with another one.
Told(play, pos) == play \in Plays /\ pos <= reached[rel[play]]
Right(release, pos) == release \in mixed \/ pos <= reached[release]
InReach(file) == \A k \in Keys : Right(k[1], file[k])
CarriedRight ==
  /\ InReach(store) /\ InReach(plug.buf) /\ InReach(call.buf)
  /\ \A i \in 1 .. Len(events) : events[i].kind = "seek" => Told(events[i].of, events[i].pos)
  /\ mon.play # 0 => Right(rel[mon.play], mon.pos)
  /\ props.play # 0 => Right(rel[props.play], props.pos)
  /\ tick.pc = "position" => Told(tick.play, tick.got)
  /\ tick.pc = "wait" /\ tick.play # 0 => Right(rel[tick.play], tick.got)
  /\ call.pc \in {"read", "write"} => Right(call.key[1], call.pos)
  /\ asked # 0 =>
       /\ Right(Release, plug.scrub) /\ Right(Release, plug.start)
       /\ \A i \in 1 .. Len(plug.todo) : Right(Release, plug.todo[i][2])

Base == TypeOK /\ InTheMiddle /\ KodiWasThere
Unmixed == overlap \/ (OnePlay /\ mixed = {})
Together == Unmixed /\ CarriedRight
Inv == Base /\ Together

-----------------------------------------------------------------------------
(* Lemmas, and one per action. *)

LEMMA Constants ==
  /\ Plays \subseteq Nat /\ 0 \notin Plays /\ Positions \subseteq Nat /\ 0 \in Positions
  /\ \A q \in Positions : 0 <= q
  /\ NoKey \notin Keys /\ NoStore \in Files
  /\ \A p \in Positions, q \in Positions :
       Larger(p, q) \in Positions /\ p <= Larger(p, q) /\ q <= Larger(p, q)
  BY BoundsAssumption DEF Plays, Positions, NoKey, Keys, NoStore, Files, Larger

\* The types, flattened: what the steps below need of them.
LEMMA Carried ==
  ASSUME TypeOK
  PROVE  /\ asked \in Nat /\ (asked # 0 => asked \in Plays /\ Release \in Releases)
         /\ rel \in [Plays -> Releases]
         /\ (player.play # 0 => rel[player.play] \in Releases) /\ player.pos \in Positions
         /\ (mon.play # 0 => rel[mon.play] \in Releases) /\ mon.pos \in Positions
         /\ (props.play # 0 => rel[props.play] \in Releases) /\ props.pos \in Positions
         /\ (tick.play # 0 => rel[tick.play] \in Releases) /\ tick.got \in Positions
         /\ (tick.play # 0 => tick.play \in Plays) /\ player.shown \in BOOLEAN
         /\ call.pos \in Positions /\ (call.key \in Keys => call.key[1] \in Releases)
         /\ plug.scrub \in Positions /\ plug.start \in Positions
         /\ store \in Files /\ plug.buf \in Files /\ call.buf \in Files
         /\ \A file \in Files, k \in Keys : file[k] \in Positions /\ k[1] \in Releases
         /\ \A i \in 1 .. Len(events) : events[i] \in Events /\ events[i].pos \in Positions
         /\ \A i \in 1 .. Len(plug.todo) : plug.todo[i][2] \in Positions
         /\ \A r \in Releases : reached[r] \in Positions /\ bookmark[r] \in Positions
         /\ \A r \in Releases : 0 <= reached[r]
         /\ Positions \subseteq Nat /\ 0 \in Positions
         /\ NoKey \notin Keys
  <1> USE Constants DEF TypeOK
  <1>1. asked \in Nat /\ (asked # 0 => asked \in Plays /\ Release \in Releases)
    BY DEF Release
  <1>2. /\ (player.play # 0 => rel[player.play] \in Releases) /\ player.pos \in Positions
        /\ player.shown \in BOOLEAN
    BY DEF Players
  <1>3. (mon.play # 0 => rel[mon.play] \in Releases) /\ mon.pos \in Positions
    BY DEF Monitors
  <1>4. (props.play # 0 => rel[props.play] \in Releases) /\ props.pos \in Positions
    BY DEF HandOvers
  <1>5. /\ (tick.play # 0 => rel[tick.play] \in Releases) /\ tick.got \in Positions
        /\ (tick.play # 0 => tick.play \in Plays)
    BY DEF Ticks
  <1>6. /\ call.pos \in Positions /\ (call.key \in Keys => call.key[1] \in Releases)
        /\ call.buf \in Files
    BY DEF Calls, Keys
  <1>7. plug.scrub \in Positions /\ plug.start \in Positions /\ plug.buf \in Files
    BY DEF Plugins
  <1>8. \A file \in Files, k \in Keys : file[k] \in Positions /\ k[1] \in Releases
    BY DEF Files, Keys
  <1>9. \A i \in 1 .. Len(events) : events[i] \in Events /\ events[i].pos \in Positions
    <2>1. \A e \in Events : e.pos \in Positions
      BY DEF Events, Event
    <2>2. \A i \in 1 .. Len(events) : events[i] \in Events
      OBVIOUS
    <2> QED BY <2>1, <2>2
  <1>10. \A i \in 1 .. Len(plug.todo) : plug.todo[i][2] \in Positions
    <2>1. plug.todo \in Seq(Changes)
      BY DEF Plugins
    <2>2. \A i \in 1 .. Len(plug.todo) : plug.todo[i] \in Changes
      BY <2>1
    <2> QED BY <2>2 DEF Changes
  <1>11. \A r \in Releases : reached[r] \in Nat
    OBVIOUS
  <1> QED BY <1>1, <1>2, <1>3, <1>4, <1>5, <1>6, <1>7, <1>8, <1>9, <1>10, <1>11

\* An empty file is within reach of everything.
LEMMA Nothing ==
  \A far \in [Releases -> Positions], k \in Keys : NoStore[k] <= far[k[1]]
  <1> SUFFICES ASSUME NEW far \in [Releases -> Positions], NEW k \in Keys
               PROVE  NoStore[k] <= far[k[1]]
    OBVIOUS
  <1>1. NoStore[k] = 0
    BY DEF NoStore
  <1>2. far[k[1]] \in Nat
    BY Constants DEF Keys
  <1> QED BY <1>1, <1>2

\* What Append does, position by position.
LEMMA OneMore ==
  ASSUME NEW S, NEW s \in Seq(S), NEW e \in S
  PROVE  /\ Len(Append(s, e)) = Len(s) + 1
         /\ \A i \in 1 .. Len(Append(s, e)) : Append(s, e)[i] = IF i <= Len(s) THEN s[i] ELSE e
  <1>1. Len(Append(s, e)) = Len(s) + 1 /\ Len(s) \in Nat
    OBVIOUS
  <1>2. \A i \in 1 .. Len(s) : Append(s, e)[i] = s[i]
    BY AppendProperties
  <1>3. Append(s, e)[Len(s) + 1] = e
    BY AppendProperties
  <1>4. \A i \in 1 .. Len(Append(s, e)) : i \in 1 .. Len(s) \/ (i = Len(s) + 1 /\ ~(i <= Len(s)))
    BY <1>1
  <1> QED BY <1>1, <1>2, <1>3, <1>4

\* A callback that is on its way tells of no position, unless the user moved it.
LEMMA Silent ==
  ASSUME NEW s \in Seq(Events), NEW k \in {"av", "stopped", "ended", "error"},
         NEW t \in {s, Append(s, Event(k))}
  PROVE  /\ t \in Seq(Events)
         /\ \A i \in 1 .. Len(t) : t[i].kind = "seek" => i \in 1 .. Len(s) /\ t[i] = s[i]
  <1>1. Event(k) \in Events /\ Event(k).kind # "seek"
    BY Constants DEF Event, Events
  <1>2. CASE t = s
    BY <1>2
  <1>3. CASE t = Append(s, Event(k))
    <2>1. Len(t) = Len(s) + 1 /\ Len(s) \in Nat
      BY <1>1, <1>3, OneMore
    <2>2. \A i \in 1 .. Len(t) : t[i] = IF i <= Len(s) THEN s[i] ELSE Event(k)
      BY <1>1, <1>3, OneMore
    <2> QED BY <1>1, <1>3, <2>1, <2>2
  <1> QED BY <1>2, <1>3

LEMMA ShowsPicturesKeeps ==
  ASSUME Base, ShowsPictures
  PROVE  Base' /\ (Together => Together')
  <1> USE Constants
      DEF Base, Together, ShowsPictures, KodiUnchanged, service
  <1>1. TypeOK'
    <2>1. player' \in Players
      BY DEF TypeOK, Players
    <2>2. events' \in Seq(Events)
      BY DEF TypeOK, Events, Event
    <2> QED BY <2>1, <2>2 DEF TypeOK
  <1>2. InTheMiddle'
    BY DEF TypeOK, Players, HandOvers, Monitors, Plugins, Calls, Ticks, InTheMiddle
  <1>3. KodiWasThere'
    BY DEF TypeOK, Players, Positions, InTheMiddle, KodiWasThere, Larger
  <1>12. \A i \in 1 .. Len(events') :
           events'[i].kind = "seek" => i \in 1 .. Len(events) /\ events'[i] = events[i]
    BY Silent DEF TypeOK
  <1>4. Together => Unmixed'
    BY <1>12 DEF TypeOK, Players, Unmixed, OnePlay, Monitored, InTheMiddle
  <1>5. Together => CarriedRight'
    <2> SUFFICES ASSUME Together PROVE CarriedRight'
      OBVIOUS
    <2> USE DEF CarriedRight, InReach, Release, Right, Told
    <2>0. CarriedRight
      OBVIOUS
    <2>1. InReach(store)'
      BY <2>0, Carried
    <2>2. InReach(plug.buf)'
      BY <2>0, Carried
    <2>3. InReach(call.buf)'
      BY <2>0, Carried
    <2>4. (\A i \in 1 .. Len(events) :
             events[i].kind = "seek" => Told(events[i].of, events[i].pos))'
      BY <1>12, <2>0
    <2>5. (mon.play # 0 => Right(rel[mon.play], mon.pos))'
      BY <2>0, Carried
    <2>6. (props.play # 0 => Right(rel[props.play], props.pos))'
      BY <2>0, Carried
    <2>7. (tick.pc = "position" => Told(tick.play, tick.got))'
      BY <2>0, Carried
    <2>8. (tick.pc = "wait" /\ tick.play # 0 => Right(rel[tick.play], tick.got))'
      BY <2>0, Carried
    <2>9. (call.pc \in {"read", "write"} => Right(call.key[1], call.pos))'
      BY <2>0, Carried
    <2>10. (asked # 0 => Right(Release, plug.scrub) /\ Right(Release, plug.start))'
      BY <2>0, Carried
    <2>11. (asked # 0 => \A i \in 1 .. Len(plug.todo) : Right(Release, plug.todo[i][2]))'
      BY <2>0, Carried
    <2> QED BY <2>1, <2>2, <2>3, <2>4, <2>5, <2>6, <2>7, <2>8, <2>9, <2>10, <2>11
  <1> QED BY <1>1, <1>2, <1>3, <1>4, <1>5

LEMMA PlaysOnKeeps ==
  ASSUME Base, PlaysOn
  PROVE  Base' /\ (Together => Together')
  <1> USE Constants
      DEF Base, Together, PlaysOn, MovesOn, KodiUnchanged, service
  <1>1. TypeOK'
    <2>1. player' \in Players
      <3>1. player.pos + 1 \in Positions
        BY BoundsAssumption DEF TypeOK, Players, Positions
      <3> QED BY <3>1 DEF TypeOK, Players
    <2>2. reached' \in [Releases -> Positions]
      <3>1. player.pos + 1 \in Positions
        BY BoundsAssumption DEF TypeOK, Players, Positions
      <3>2. player.play \in Plays
        BY DEF TypeOK, Players, InTheMiddle
      <3>3. Larger(reached[rel[player.play]], player.pos + 1) \in Positions
        BY <3>1, <3>2 DEF TypeOK
      <3> QED BY <3>3 DEF TypeOK
    <2> QED BY <2>1, <2>2 DEF TypeOK
  <1>2. InTheMiddle'
    BY DEF TypeOK, Players, HandOvers, Monitors, Plugins, Calls, Ticks, InTheMiddle
  <1>3. KodiWasThere'
    BY DEF TypeOK, Players, Positions, InTheMiddle, KodiWasThere, Larger
  <1>4. Together => Unmixed'
    BY DEF TypeOK, Players, HandOvers, Monitors, Plugins, Calls, Ticks, Unmixed, OnePlay, Monitored,
       InTheMiddle
  <1>5. Together => CarriedRight'
    <2> SUFFICES ASSUME Together PROVE CarriedRight'
      OBVIOUS
    <2> USE DEF CarriedRight, InReach, Release, Right, Told
    <2>0. CarriedRight
      OBVIOUS
    <2>20. /\ reached' \in [Releases -> Positions]
           /\ \A r \in Releases : reached[r] <= reached'[r]
      <3>7. player.pos \in Positions /\ player.pos < Last
        BY Carried
      <3>8. player.pos + 1 \in Positions
        BY <3>7, BoundsAssumption DEF Positions
      <3>1. player.pos + 1 \in Positions /\ player.play # 0
        BY <3>8 DEF InTheMiddle
      <3>2. rel[player.play] \in Releases
        BY <3>1, Carried
      <3>3. LET r == rel[player.play] IN
              reached' = [reached EXCEPT ![r] = Larger(reached[r], player.pos + 1)]
        OBVIOUS
      <3>4. \A r \in Releases : reached[r] \in Positions /\ reached[r] <= reached[r]
        BY Carried
      <3>5. \A r \in Releases : reached[r] <= Larger(reached[r], player.pos + 1)
        BY <3>1, <3>4, Constants
      <3>6. reached \in [Releases -> Positions] /\ reached' \in [Releases -> Positions]
        BY <1>1 DEF TypeOK
      <3> QED BY <3>2, <3>3, <3>4, <3>5, <3>6
    <2>21. \A r \in Releases, q \in Positions : q <= reached[r] => q <= reached'[r]
      <3>1. Positions \subseteq Nat
        BY Constants
      <3>2. \A r \in Releases : reached[r] \in Nat /\ reached'[r] \in Nat
        BY <2>20, <3>1, Carried
      <3> QED BY <2>20, <3>1, <3>2
    <2>1. InReach(store)'
      BY <2>0, Carried, <2>21
    <2>2. InReach(plug.buf)'
      BY <2>0, Carried, <2>21
    <2>3. InReach(call.buf)'
      BY <2>0, Carried, <2>21
    <2>4. (\A i \in 1 .. Len(events) :
             events[i].kind = "seek" => Told(events[i].of, events[i].pos))'
      BY <2>0, Carried, <2>21
    <2>5. (mon.play # 0 => Right(rel[mon.play], mon.pos))'
      BY <2>0, Carried, <2>21
    <2>6. (props.play # 0 => Right(rel[props.play], props.pos))'
      BY <2>0, Carried, <2>21
    <2>7. (tick.pc = "position" => Told(tick.play, tick.got))'
      BY <2>0, Carried, <2>21
    <2>8. (tick.pc = "wait" /\ tick.play # 0 => Right(rel[tick.play], tick.got))'
      BY <2>0, Carried, <2>21
    <2>9. (call.pc \in {"read", "write"} => Right(call.key[1], call.pos))'
      <3>1. call.pc \in {"read", "write"} => call.key \in Keys
        BY DEF InTheMiddle, Keys
      <3> QED BY <2>0, <2>21, <3>1, Carried
    <2>10. (asked # 0 => Right(Release, plug.scrub) /\ Right(Release, plug.start))'
      BY <2>0, Carried, <2>21
    <2>11. (asked # 0 => \A i \in 1 .. Len(plug.todo) : Right(Release, plug.todo[i][2]))'
      BY <2>0, Carried, <2>21
    <2> QED BY <2>1, <2>2, <2>3, <2>4, <2>5, <2>6, <2>7, <2>8, <2>9, <2>10, <2>11
  <1> QED BY <1>1, <1>2, <1>3, <1>4, <1>5

LEMMA SeeksKeeps ==
  ASSUME Base, NEW to \in Positions, Seeks(to)
  PROVE  Base' /\ (Together => Together')
  <1> USE Constants
      DEF Base, Together, Seeks, MovesOn, KodiUnchanged, service
  <1>1. TypeOK'
    <2>1. player' \in Players
      BY DEF TypeOK, Players
    <2>2. reached' \in [Releases -> Positions]
      BY DEF TypeOK, Larger, Positions, Players
    <2>3. events' \in Seq(Events)
      BY DEF TypeOK, Events, Players
    <2> QED BY <2>1, <2>2, <2>3 DEF TypeOK
  <1>2. InTheMiddle'
    BY DEF TypeOK, Players, HandOvers, Monitors, Plugins, Calls, Ticks, InTheMiddle
  <1>3. KodiWasThere'
    BY DEF TypeOK, Players, Positions, InTheMiddle, KodiWasThere, Larger
  <1>4. Together => Unmixed'
    BY DEF TypeOK, Players, HandOvers, Monitors, Plugins, Calls, Ticks, Unmixed, OnePlay, Monitored,
       InTheMiddle
  <1>5. Together => CarriedRight'
    <2> SUFFICES ASSUME Together PROVE CarriedRight'
      OBVIOUS
    <2> USE DEF CarriedRight, InReach, Release, Right, Told
    <2>0. CarriedRight
      OBVIOUS
    <2>20. /\ reached' \in [Releases -> Positions]
           /\ \A r \in Releases : reached[r] <= reached'[r]
      BY <1>1, Carried DEF TypeOK, Larger
    <2>21. \A r \in Releases, q \in Positions : q <= reached[r] => q <= reached'[r]
      <3>1. Positions \subseteq Nat
        BY Constants
      <3>2. \A r \in Releases : reached[r] \in Nat /\ reached'[r] \in Nat
        BY <2>20, <3>1, Carried
      <3> QED BY <2>20, <3>1, <3>2
    <2>1. InReach(store)'
      BY <2>0, Carried, <2>21
    <2>2. InReach(plug.buf)'
      BY <2>0, Carried, <2>21
    <2>3. InReach(call.buf)'
      BY <2>0, Carried, <2>21
    <2>4. (\A i \in 1 .. Len(events) :
             events[i].kind = "seek" => Told(events[i].of, events[i].pos))'
      <3>1. events' = <<[kind |-> "seek", pos |-> to, of |-> player.play]>>
        OBVIOUS
      <3>3. player.play # 0
        BY DEF InTheMiddle
      <3>4. to <= reached'[rel[player.play]]
        BY <3>3, Carried, Constants DEF TypeOK
      <3>2. player.play \in Plays
        BY <3>3 DEF TypeOK, Players
      <3> QED BY <3>1, <3>2, <3>4
    <2>5. (mon.play # 0 => Right(rel[mon.play], mon.pos))'
      BY <2>0, Carried, <2>21
    <2>6. (props.play # 0 => Right(rel[props.play], props.pos))'
      BY <2>0, Carried, <2>21
    <2>7. (tick.pc = "position" => Told(tick.play, tick.got))'
      BY <2>0, Carried, <2>21
    <2>8. (tick.pc = "wait" /\ tick.play # 0 => Right(rel[tick.play], tick.got))'
      BY <2>0, Carried, <2>21
    <2>9. (call.pc \in {"read", "write"} => Right(call.key[1], call.pos))'
      <3>1. call.pc \in {"read", "write"} => call.key \in Keys
        BY DEF InTheMiddle, Keys
      <3> QED BY <2>0, <2>21, <3>1, Carried
    <2>10. (asked # 0 => Right(Release, plug.scrub) /\ Right(Release, plug.start))'
      BY <2>0, Carried, <2>21
    <2>11. (asked # 0 => \A i \in 1 .. Len(plug.todo) : Right(Release, plug.todo[i][2]))'
      BY <2>0, Carried, <2>21
    <2> QED BY <2>1, <2>2, <2>3, <2>4, <2>5, <2>6, <2>7, <2>8, <2>9, <2>10, <2>11
  <1> QED BY <1>1, <1>2, <1>3, <1>4, <1>5

LEMMA StopsPlayingKeeps ==
  ASSUME Base, StopsPlaying
  PROVE  Base' /\ (Together => Together')
  <1> USE Constants
      DEF Base, Together, StopsPlaying, NoPlay, KodiUnchanged, service
  <1>1. TypeOK'
    <2>1. player' \in Players
      BY DEF TypeOK, Players
    <2>2. events' \in Seq(Events)
      <3>1. Event("stopped") \in Events /\ Event("ended") \in Events
        BY DEF Events, Event
      <3>2. \A e \in Events : Append(events, e) \in Seq(Events)
        BY DEF TypeOK
      <3>3. \E e \in {Event("stopped"), Event("ended")} :
              events' = Append(events, e)
        BY DEF StopsPlaying
      <3> QED BY <3>1, <3>2, <3>3
    <2>3. bookmark' \in [Releases -> Positions]
      BY DEF TypeOK, Players
    <2> QED BY <2>1, <2>2, <2>3 DEF TypeOK
  <1>2. InTheMiddle'
    BY DEF TypeOK, Players, HandOvers, Monitors, Plugins, Calls, Ticks, InTheMiddle
  <1>3. KodiWasThere'
    <2>1. player.play # 0 => player.pos <= reached[rel[player.play]]
      BY DEF KodiWasThere
    <2>2. \A r \in Releases :
            bookmark'[r] = bookmark[r] \/ (bookmark'[r] = player.pos /\ r = rel[player.play])
      BY Carried DEF TypeOK
    <2>3. \A r \in Releases : bookmark'[r] <= reached[r]
      BY <2>1, <2>2 DEF KodiWasThere
    <2> QED BY <2>3 DEF KodiWasThere
  <1>12. \A i \in 1 .. Len(events') :
           events'[i].kind = "seek" => i \in 1 .. Len(events) /\ events'[i] = events[i]
    <2>1. PICK k \in {"stopped", "ended"} : events' = Append(events, Event(k))
      OBVIOUS
    <2> HIDE DEF StopsPlaying
    <2> QED BY <2>1, Silent DEF TypeOK
  <1>4. Together => Unmixed'
    <2>1. player'.play = 0
      OBVIOUS
    <2>2. UNCHANGED <<mon, asked, plug, props, tick, overlap, mixed>>
      OBVIOUS
    <2> HIDE DEF StopsPlaying
    <2> QED BY <1>12, <2>1, <2>2 DEF Unmixed, OnePlay, Monitored
  <1>5. Together => CarriedRight'
    <2> SUFFICES ASSUME Together PROVE CarriedRight'
      OBVIOUS
    <2> USE DEF CarriedRight, InReach, Release, Right, Told
    <2>0. CarriedRight
      OBVIOUS
    <2>1. InReach(store)'
      BY <2>0, Carried
    <2>2. InReach(plug.buf)'
      BY <2>0, Carried
    <2>3. InReach(call.buf)'
      BY <2>0, Carried
    <2>4. (\A i \in 1 .. Len(events) :
             events[i].kind = "seek" => Told(events[i].of, events[i].pos))'
      BY <1>12, <2>0
    <2>5. (mon.play # 0 => Right(rel[mon.play], mon.pos))'
      BY <2>0, Carried
    <2>6. (props.play # 0 => Right(rel[props.play], props.pos))'
      BY <2>0, Carried
    <2>7. (tick.pc = "position" => Told(tick.play, tick.got))'
      BY <2>0, Carried
    <2>8. (tick.pc = "wait" /\ tick.play # 0 => Right(rel[tick.play], tick.got))'
      BY <2>0, Carried
    <2>9. (call.pc \in {"read", "write"} => Right(call.key[1], call.pos))'
      BY <2>0, Carried
    <2>10. (asked # 0 => Right(Release, plug.scrub) /\ Right(Release, plug.start))'
      BY <2>0, Carried
    <2>11. (asked # 0 => \A i \in 1 .. Len(plug.todo) : Right(Release, plug.todo[i][2]))'
      BY <2>0, Carried
    <2> QED BY <2>1, <2>2, <2>3, <2>4, <2>5, <2>6, <2>7, <2>8, <2>9, <2>10, <2>11
  <1> QED BY <1>1, <1>2, <1>3, <1>4, <1>5

LEMMA FailsKeeps ==
  ASSUME Base, Fails
  PROVE  Base' /\ (Together => Together')
  <1> USE Constants
      DEF Base, Together, Fails, NoPlay, KodiUnchanged, service
  <1>1. TypeOK'
    <2>1. player' \in Players
      <3>1. NoPlay \in Players /\ [player EXCEPT !.shown = FALSE] \in Players
        BY DEF TypeOK, Players, NoPlay
      <3>2. player' \in {NoPlay, [player EXCEPT !.shown = FALSE]}
        BY DEF Fails, NoPlay
      <3> QED BY <3>1, <3>2
    <2>2. events' \in Seq(Events)
      BY DEF TypeOK, Events, Event
    <2> QED BY <2>1, <2>2 DEF TypeOK
  <1>2. InTheMiddle'
    BY DEF TypeOK, Players, HandOvers, Monitors, Plugins, Calls, Ticks, InTheMiddle
  <1>3. KodiWasThere'
    <2>1. player' = NoPlay \/ (player'.play = player.play /\ player'.pos = player.pos)
      BY DEF TypeOK, Players
    <2> QED BY <2>1, Carried DEF KodiWasThere
  <1>12. \A i \in 1 .. Len(events') :
           events'[i].kind = "seek" => i \in 1 .. Len(events) /\ events'[i] = events[i]
    <2>1. events' = <<Event("error")>>
      OBVIOUS
    <2> QED BY <2>1 DEF Event
  <1>4. Together => Unmixed'
    BY <1>12 DEF TypeOK, Players, Unmixed, OnePlay, Monitored, InTheMiddle
  <1>5. Together => CarriedRight'
    <2> SUFFICES ASSUME Together PROVE CarriedRight'
      OBVIOUS
    <2> USE DEF CarriedRight, InReach, Release, Right, Told
    <2>0. CarriedRight
      OBVIOUS
    <2>1. InReach(store)'
      BY <2>0, Carried
    <2>2. InReach(plug.buf)'
      BY <2>0, Carried
    <2>3. InReach(call.buf)'
      BY <2>0, Carried
    <2>4. (\A i \in 1 .. Len(events) :
             events[i].kind = "seek" => Told(events[i].of, events[i].pos))'
      BY <1>12, <2>0
    <2>5. (mon.play # 0 => Right(rel[mon.play], mon.pos))'
      BY <2>0, Carried
    <2>6. (props.play # 0 => Right(rel[props.play], props.pos))'
      BY <2>0, Carried
    <2>7. (tick.pc = "position" => Told(tick.play, tick.got))'
      BY <2>0, Carried
    <2>8. (tick.pc = "wait" /\ tick.play # 0 => Right(rel[tick.play], tick.got))'
      BY <2>0, Carried
    <2>9. (call.pc \in {"read", "write"} => Right(call.key[1], call.pos))'
      BY <2>0, Carried
    <2>10. (asked # 0 => Right(Release, plug.scrub) /\ Right(Release, plug.start))'
      BY <2>0, Carried
    <2>11. (asked # 0 => \A i \in 1 .. Len(plug.todo) : Right(Release, plug.todo[i][2]))'
      BY <2>0, Carried
    <2> QED BY <2>1, <2>2, <2>3, <2>4, <2>5, <2>6, <2>7, <2>8, <2>9, <2>10, <2>11
  <1> QED BY <1>1, <1>2, <1>3, <1>4, <1>5

LEMMA AskPlayKeeps ==
  ASSUME Base, AskPlay
  PROVE  Base' /\ (Together => Together')
  <1> USE Constants
      DEF Base, Together, AskPlay, Quiet, Plugin, kodi, service
  <1>0. plug' = [NoPlugin EXCEPT !.pc = "scrub"] /\ asked' = asked + 1 /\ asked' # 0
    BY Carried DEF InTheMiddle
  <1>9. ~overlap' => ~overlap /\ player.play = 0 /\ events = <<>> /\ ~Monitored /\ ~props.active
    BY DEF Monitored
  <1>1. TypeOK'
    <2>1. asked' \in Plays \cup {0}
      <3>1. asked \in Nat /\ asked < MaxPlays /\ MaxPlays \in Nat
        BY BoundsAssumption DEF TypeOK, Plays
      <3> QED BY <3>1 DEF Plays
    <2>2. plug' \in Plugins
      BY DEF TypeOK, Plugins, NoPlugin
    <2> QED BY <2>1, <2>2 DEF TypeOK
  <1>2. InTheMiddle'
    BY <1>0 DEF InTheMiddle, NoPlugin
  <1>3. KodiWasThere'
    BY DEF TypeOK, Players, Positions, InTheMiddle, KodiWasThere, Larger
  <1>4. Together => Unmixed'
    BY <1>0, <1>9 DEF Unmixed, OnePlay, Monitored, NoPlugin
  <1>5. Together => CarriedRight'
    <2> SUFFICES ASSUME Together PROVE CarriedRight'
      OBVIOUS
    <2> USE DEF CarriedRight, InReach, Release, Right, Told
    <2>0. CarriedRight
      OBVIOUS
    <2>1. InReach(store)'
      BY <2>0, Carried
    <2>2. InReach(plug.buf)'
      BY <1>0, Nothing DEF NoPlugin, TypeOK
    <2>3. InReach(call.buf)'
      BY <2>0, Carried
    <2>4. (\A i \in 1 .. Len(events) :
             events[i].kind = "seek" => Told(events[i].of, events[i].pos))'
      BY <1>9
    <2>5. (mon.play # 0 => Right(rel[mon.play], mon.pos))'
      BY <2>0, Carried
    <2>6. (props.play # 0 => Right(rel[props.play], props.pos))'
      BY <2>0, Carried
    <2>7. (tick.pc = "position" => Told(tick.play, tick.got))'
      BY <2>0, Carried
    <2>8. (tick.pc = "wait" /\ tick.play # 0 => Right(rel[tick.play], tick.got))'
      BY <2>0, Carried
    <2>9. (call.pc \in {"read", "write"} => Right(call.key[1], call.pos))'
      BY <2>0, Carried
    <2>10. (asked # 0 => Right(Release, plug.scrub) /\ Right(Release, plug.start))'
      <3>1. plug'.scrub = 0 /\ plug'.start = 0
        BY <1>0 DEF NoPlugin
      <3>2. reached[rel[asked']] \in Nat
        BY <1>0, <1>1, Carried DEF TypeOK
      <3> QED BY <3>1, <3>2
    <2>11. (asked # 0 => \A i \in 1 .. Len(plug.todo) : Right(Release, plug.todo[i][2]))'
      BY <1>0 DEF NoPlugin
    <2> QED BY <2>1, <2>2, <2>3, <2>4, <2>5, <2>6, <2>7, <2>8, <2>9, <2>10, <2>11
  <1> QED BY <1>1, <1>2, <1>3, <1>4, <1>5

LEMMA ScrubKeeps ==
  ASSUME Base, Scrub
  PROVE  Base' /\ (Together => Together')
  <1> USE Constants
      DEF Base, Together, Scrub, PluginUnchanged, Plugin, kodi, service
  <1>0. /\ asked # 0 /\ plug'.pc = "ready" /\ plug'.todo = plug.todo
        /\ plug'.buf = plug.buf /\ plug'.start = plug.start
        /\ plug'.scrub \in {plug.scrub, bookmark[Release]}
        /\ bookmark' \in {bookmark, [bookmark EXCEPT ![Release] = 0]}
    <2>1. asked # 0 /\ plug \in Plugins /\ bookmark[Release] \in Positions
      BY Carried DEF TypeOK, InTheMiddle
    <2>2. /\ \/ plug' = [[plug EXCEPT !.scrub = bookmark[Release]] EXCEPT !.pc = "ready"]
             \/ plug' = [plug EXCEPT !.pc = "ready"]
          /\ bookmark' \in {bookmark, [bookmark EXCEPT ![Release] = 0]}
      OBVIOUS
    <2> HIDE DEF Scrub, Base, Together
    <2>3. CASE plug' = [[plug EXCEPT !.scrub = bookmark[Release]] EXCEPT !.pc = "ready"]
      BY <2>1, <2>2, <2>3 DEF Plugins
    <2>4. CASE plug' = [plug EXCEPT !.pc = "ready"]
      BY <2>1, <2>2, <2>4 DEF Plugins
    <2> QED BY <2>2, <2>3, <2>4
  <1>8. UNCHANGED <<player, call, asked, reached, rel, mon, props, overlap, mixed, events, tick>>
    OBVIOUS
  <1>1. TypeOK'
    <2>1. bookmark' \in [Releases -> Positions]
      BY DEF TypeOK, Players
    <2>2. plug' \in Plugins
      <3>1. bookmark[Release] \in Positions
        BY DEF TypeOK, InTheMiddle, Release
      <3>2. [plug EXCEPT !.scrub = bookmark[Release]] \in Plugins
        BY <3>1 DEF TypeOK, Plugins
      <3>3. \A c \in Plugins : [c EXCEPT !.pc = "ready"] \in Plugins
        BY DEF Plugins
      <3> QED BY <3>2, <3>3 DEF TypeOK
    <2> QED BY <2>1, <2>2 DEF TypeOK
  <1>2. InTheMiddle'
    BY <1>0, <1>8 DEF InTheMiddle
  <1>3. KodiWasThere'
    <2>1. \A r \in Releases : bookmark'[r] \in {bookmark[r], 0}
      BY <1>0 DEF TypeOK
    <2>2. \A r \in Releases : bookmark[r] <= reached[r] /\ 0 <= reached[r]
      BY Carried DEF KodiWasThere
    <2>3. \A r \in Releases : bookmark'[r] <= reached[r]
      BY <2>1, <2>2
    <2> QED BY <1>8, <2>3 DEF KodiWasThere
  <1>4. Together => Unmixed'
    BY <1>0, <1>8 DEF Unmixed, OnePlay, Monitored
  <1>5. Together => CarriedRight'
    <2> SUFFICES ASSUME Together PROVE CarriedRight'
      OBVIOUS
    <2> USE DEF CarriedRight, InReach, Release, Right, Told
    <2>0. CarriedRight
      OBVIOUS
    <2>1. InReach(store)'
      BY <2>0, Carried
    <2>2. InReach(plug.buf)'
      BY <1>0, <2>0, Carried
    <2>3. InReach(call.buf)'
      BY <2>0, Carried
    <2>4. (\A i \in 1 .. Len(events) :
             events[i].kind = "seek" => Told(events[i].of, events[i].pos))'
      BY <2>0, Carried
    <2>5. (mon.play # 0 => Right(rel[mon.play], mon.pos))'
      BY <2>0, Carried
    <2>6. (props.play # 0 => Right(rel[props.play], props.pos))'
      BY <2>0, Carried
    <2>7. (tick.pc = "position" => Told(tick.play, tick.got))'
      BY <2>0, Carried
    <2>8. (tick.pc = "wait" /\ tick.play # 0 => Right(rel[tick.play], tick.got))'
      BY <2>0, Carried
    <2>9. (call.pc \in {"read", "write"} => Right(call.key[1], call.pos))'
      BY <2>0, Carried
    <2>10. (asked # 0 => Right(Release, plug.scrub) /\ Right(Release, plug.start))'
      BY <1>0, <2>0, Carried DEF KodiWasThere
    <2>11. (asked # 0 => \A i \in 1 .. Len(plug.todo) : Right(Release, plug.todo[i][2]))'
      BY <1>0, <2>0, Carried
    <2> QED BY <2>1, <2>2, <2>3, <2>4, <2>5, <2>6, <2>7, <2>8, <2>9, <2>10, <2>11
  <1> QED BY <1>1, <1>2, <1>3, <1>4, <1>5

LEMMA PlayFailsKeeps ==
  ASSUME Base, PlayFails
  PROVE  Base' /\ (Together => Together')
  <1> USE Constants
      DEF Base, Together, PlayFails, PluginDone, PluginUnchanged, Plugin, kodi, service
  <1>0. plug' = NoPlugin
    OBVIOUS
  <1>1. TypeOK'
    <2>1. plug' \in Plugins
      BY DEF TypeOK, Plugins, NoPlugin
    <2> QED BY <2>1 DEF TypeOK
  <1>2. InTheMiddle'
    BY <1>0 DEF InTheMiddle, NoPlugin
  <1>3. KodiWasThere'
    BY DEF TypeOK, Players, Positions, InTheMiddle, KodiWasThere, Larger
  <1>4. Together => Unmixed'
    BY <1>0 DEF Unmixed, OnePlay, NoPlugin, Monitored
  <1>5. Together => CarriedRight'
    <2> SUFFICES ASSUME Together PROVE CarriedRight'
      OBVIOUS
    <2> USE DEF CarriedRight, InReach, Release, Right, Told
    <2>0. CarriedRight
      OBVIOUS
    <2>1. InReach(store)'
      BY <2>0, Carried
    <2>2. InReach(plug.buf)'
      <3>1. plug'.buf \in {plug.buf, NoStore}
        BY <1>0 DEF NoPlugin
      <3> QED BY <2>0, <3>1, Nothing DEF TypeOK
    <2>3. InReach(call.buf)'
      BY <2>0, Carried
    <2>4. (\A i \in 1 .. Len(events) :
             events[i].kind = "seek" => Told(events[i].of, events[i].pos))'
      BY <2>0, Carried
    <2>5. (mon.play # 0 => Right(rel[mon.play], mon.pos))'
      BY <2>0, Carried
    <2>6. (props.play # 0 => Right(rel[props.play], props.pos))'
      BY <2>0, Carried
    <2>7. (tick.pc = "position" => Told(tick.play, tick.got))'
      BY <2>0, Carried
    <2>8. (tick.pc = "wait" /\ tick.play # 0 => Right(rel[tick.play], tick.got))'
      BY <2>0, Carried
    <2>9. (call.pc \in {"read", "write"} => Right(call.key[1], call.pos))'
      BY <2>0, Carried
    <2>10. (asked # 0 => Right(Release, plug.scrub) /\ Right(Release, plug.start))'
      <3>2. asked # 0 => Release \in Releases /\ 0 <= reached[Release]
        BY Carried
      <3>1. plug'.scrub = 0 /\ plug'.start = 0
        BY <1>0 DEF NoPlugin
      <3> QED BY <3>1, <3>2
    <2>11. (asked # 0 => \A i \in 1 .. Len(plug.todo) : Right(Release, plug.todo[i][2]))'
      BY <1>0 DEF NoPlugin
    <2> QED BY <2>1, <2>2, <2>3, <2>4, <2>5, <2>6, <2>7, <2>8, <2>9, <2>10, <2>11
  <1> QED BY <1>1, <1>2, <1>3, <1>4, <1>5

LEMMA LookUpKeeps ==
  ASSUME Base, LookUp
  PROVE  Base' /\ (Together => Together')
  <1> USE Constants
      DEF Base, Together, LookUp, Kept, KeptByUrl, PluginUnchanged, Plugin, kodi, service
  <1>0. /\ asked # 0 /\ plug'.pc = "prompt" /\ plug'.buf = plug.buf
        /\ plug'.scrub \in {plug.scrub, 0}
        /\ \E stored \in {Kept, KeptByUrl} :
             /\ plug'.start = Larger(plug'.scrub, stored)
             /\ plug'.todo \in {<< <<"release", stored>>, <<"url", 0>> >>, <<>>}
    BY DEF TypeOK, Plugins, InTheMiddle
  <1>1. TypeOK'
    <2>1. plug' \in Plugins
      <3>1. <<Release, "release">> \in Keys /\ <<Release, "url">> \in Keys
        BY DEF TypeOK, InTheMiddle, Release, Keys
      <3>2. Kept \in Positions /\ KeptByUrl \in Positions
        BY <3>1 DEF TypeOK, Files, Kept, KeptByUrl
      <3>3. PICK scrub \in {plug.scrub, 0}, stored \in {Kept, KeptByUrl} :
              \E todo \in {<< <<"release", stored>>, <<"url", 0>> >>, <<>>} :
                plug' = [[plug EXCEPT !.scrub = scrub, !.start = Larger(scrub, stored),
                                      !.todo = todo] EXCEPT !.pc = "prompt"]
        BY DEF LookUp
      <3>10. PICK todo \in {<< <<"release", stored>>, <<"url", 0>> >>, <<>>} :
                plug' = [[plug EXCEPT !.scrub = scrub, !.start = Larger(scrub, stored),
                                      !.todo = todo] EXCEPT !.pc = "prompt"]
        BY <3>3
      <3>4. scrub \in Positions /\ stored \in Positions
        BY <3>2 DEF TypeOK, Plugins
      <3>5. todo \in Seq(Changes)
        <4>1. <<"release", stored>> \in Changes /\ <<"url", 0>> \in Changes
          BY <3>4 DEF Changes
        <4>2. << <<"release", stored>>, <<"url", 0>> >> \in Seq(Changes)
          BY <4>1
        <4>3. <<>> \in Seq(Changes)
          OBVIOUS
        <4> QED BY <4>2, <4>3
      <3>6. [plug EXCEPT !.scrub = scrub, !.start = Larger(scrub, stored), !.todo = todo]
              \in Plugins
        BY <3>4, <3>5 DEF TypeOK, Plugins
      <3>7. \A c \in Plugins : [c EXCEPT !.pc = "prompt"] \in Plugins
        BY DEF Plugins
      <3> QED BY <3>10, <3>6, <3>7
    <2> QED BY <2>1 DEF TypeOK
  <1>2. InTheMiddle'
    BY DEF TypeOK, Players, HandOvers, Monitors, Plugins, Calls, Ticks, InTheMiddle
  <1>3. KodiWasThere'
    BY DEF TypeOK, Players, Positions, InTheMiddle, KodiWasThere, Larger
  <1>4. Together => Unmixed'
    BY DEF TypeOK, Players, HandOvers, Monitors, Plugins, Calls, Ticks, Unmixed, OnePlay, Monitored,
       InTheMiddle
  <1>5. Together => CarriedRight'
    <2> SUFFICES ASSUME Together PROVE CarriedRight'
      OBVIOUS
    <2> USE DEF CarriedRight, InReach, Release, Right, Told
    <2>0. CarriedRight
      OBVIOUS
    <2>1. InReach(store)'
      BY <2>0, Carried
    <2>2. InReach(plug.buf)'
      BY <1>0, <2>0, Carried
    <2>3. InReach(call.buf)'
      BY <2>0, Carried
    <2>4. (\A i \in 1 .. Len(events) :
             events[i].kind = "seek" => Told(events[i].of, events[i].pos))'
      BY <2>0, Carried
    <2>5. (mon.play # 0 => Right(rel[mon.play], mon.pos))'
      BY <2>0, Carried
    <2>6. (props.play # 0 => Right(rel[props.play], props.pos))'
      BY <2>0, Carried
    <2>7. (tick.pc = "position" => Told(tick.play, tick.got))'
      BY <2>0, Carried
    <2>8. (tick.pc = "wait" /\ tick.play # 0 => Right(rel[tick.play], tick.got))'
      BY <2>0, Carried
    <2>9. (call.pc \in {"read", "write"} => Right(call.key[1], call.pos))'
      BY <2>0, Carried
    <2>10. (asked # 0 => Right(Release, plug.scrub) /\ Right(Release, plug.start))'
      <3>1. /\ Right(Release, Kept) /\ Right(Release, KeptByUrl)
            /\ Kept \in Positions /\ KeptByUrl \in Positions /\ Release \in Releases
        <4>1. <<Release, "release">> \in Keys /\ <<Release, "url">> \in Keys
          BY <1>0, Carried DEF Keys
        <4> QED BY <4>1, <1>0, <2>0, Carried DEF Kept, KeptByUrl, Files
      <3> QED BY <1>0, <2>0, <3>1, Carried DEF Larger
    <2>11. (asked # 0 => \A i \in 1 .. Len(plug.todo) : Right(Release, plug.todo[i][2]))'
      <3>1. /\ Right(Release, Kept) /\ Right(Release, KeptByUrl)
            /\ Kept \in Positions /\ KeptByUrl \in Positions /\ Release \in Releases
        <4>1. <<Release, "release">> \in Keys /\ <<Release, "url">> \in Keys
          BY <1>0, Carried DEF Keys
        <4> QED BY <4>1, <1>0, <2>0, Carried DEF Kept, KeptByUrl, Files
      <3>2. PICK stored \in {Kept, KeptByUrl} :
              plug'.todo \in {<< <<"release", stored>>, <<"url", 0>> >>, <<>>}
        BY <1>0
      <3>3. \A i \in 1 .. Len(plug'.todo) : plug'.todo[i][2] \in {stored, 0}
        BY <3>2
      <3>4. Right(Release, 0)
        BY <3>1, Carried
      <3>5. UNCHANGED <<reached, asked, rel, mixed>>
        OBVIOUS
      <3> HIDE DEF LookUp, Base, Together
      <3> QED BY <3>1, <3>3, <3>4, <3>5
    <2> QED BY <2>1, <2>2, <2>3, <2>4, <2>5, <2>6, <2>7, <2>8, <2>9, <2>10, <2>11
  <1> QED BY <1>1, <1>2, <1>3, <1>4, <1>5

LEMMA PluginReadsKeeps ==
  ASSUME Base, PluginReads
  PROVE  Base' /\ (Together => Together')
  <1> USE Constants
      DEF Base, Together, PluginReads, PluginUnchanged, Plugin, kodi, service
  <1>1. TypeOK'
    <2>1. plug' \in Plugins
      BY DEF TypeOK, Plugins, NoPlugin
    <2> QED BY <2>1 DEF TypeOK
  <1>2. InTheMiddle'
    BY DEF TypeOK, Players, HandOvers, Monitors, Plugins, Calls, Ticks, InTheMiddle
  <1>3. KodiWasThere'
    BY DEF TypeOK, Players, Positions, InTheMiddle, KodiWasThere, Larger
  <1>4. Together => Unmixed'
    BY DEF TypeOK, Players, HandOvers, Monitors, Plugins, Calls, Ticks, Unmixed, OnePlay, Monitored,
       InTheMiddle
  <1>5. Together => CarriedRight'
    <2> SUFFICES ASSUME Together PROVE CarriedRight'
      OBVIOUS
    <2> USE DEF CarriedRight, InReach, Release, Right, Told
    <2>0. CarriedRight
      OBVIOUS
    <2>1. InReach(store)'
      BY <2>0, Carried
    <2>2. InReach(plug.buf)'
      BY <2>0, Carried DEF TypeOK, Plugins
    <2>3. InReach(call.buf)'
      BY <2>0, Carried
    <2>4. (\A i \in 1 .. Len(events) :
             events[i].kind = "seek" => Told(events[i].of, events[i].pos))'
      BY <2>0, Carried
    <2>5. (mon.play # 0 => Right(rel[mon.play], mon.pos))'
      BY <2>0, Carried
    <2>6. (props.play # 0 => Right(rel[props.play], props.pos))'
      BY <2>0, Carried
    <2>7. (tick.pc = "position" => Told(tick.play, tick.got))'
      BY <2>0, Carried
    <2>8. (tick.pc = "wait" /\ tick.play # 0 => Right(rel[tick.play], tick.got))'
      BY <2>0, Carried
    <2>9. (call.pc \in {"read", "write"} => Right(call.key[1], call.pos))'
      BY <2>0, Carried
    <2>10. (asked # 0 => Right(Release, plug.scrub) /\ Right(Release, plug.start))'
      BY <2>0, Carried DEF TypeOK, Plugins
    <2>11. (asked # 0 => \A i \in 1 .. Len(plug.todo) : Right(Release, plug.todo[i][2]))'
      BY <2>0, Carried DEF TypeOK, Plugins
    <2> QED BY <2>1, <2>2, <2>3, <2>4, <2>5, <2>6, <2>7, <2>8, <2>9, <2>10, <2>11
  <1> QED BY <1>1, <1>2, <1>3, <1>4, <1>5

LEMMA PluginWritesKeeps ==
  ASSUME Base, PluginWrites
  PROVE  Base' /\ (Together => Together')
  <1> USE Constants
      DEF Base, Together, PluginWrites, PluginDone, Written, PluginUnchanged, Plugin, kodi, service
  <1>0. /\ asked # 0 /\ plug.todo # <<>>
        /\ \/ plug' = NoPlugin
           \/ /\ plug'.pc = "prompt" /\ plug'.todo = Tail(plug.todo) /\ plug'.buf = NoStore
              /\ plug'.scrub = plug.scrub /\ plug'.start = plug.start
    BY DEF TypeOK, Plugins, InTheMiddle
  <1>1. TypeOK'
    <2>1. store' \in Files
      <3>1. plug.todo \in Seq(Changes) /\ plug.todo # <<>> /\ plug.buf \in Files
        BY DEF TypeOK, Plugins, InTheMiddle
      <3>2. Head(plug.todo) \in Changes
        BY <3>1
      <3>3. Head(plug.todo)[2] \in Positions
        BY <3>2 DEF Changes
      <3> QED BY <3>1, <3>3 DEF Files
    <2>2. plug' \in Plugins
      <3>1. NoPlugin \in Plugins
        BY DEF NoPlugin, Plugins, Changes
      <3>2. Tail(plug.todo) \in Seq(Changes)
        BY DEF TypeOK, Plugins, InTheMiddle
      <3>3. [plug EXCEPT !.todo = Tail(plug.todo), !.buf = NoStore] \in Plugins
        BY <3>2 DEF TypeOK, Plugins
      <3>4. \A c \in Plugins : [c EXCEPT !.pc = "prompt"] \in Plugins
        BY DEF Plugins
      <3> QED BY <3>1, <3>3, <3>4
    <2> QED BY <2>1, <2>2 DEF TypeOK
  <1>2. InTheMiddle'
    BY <1>0 DEF InTheMiddle, NoPlugin
  <1>3. KodiWasThere'
    BY DEF TypeOK, Players, Positions, InTheMiddle, KodiWasThere, Larger
  <1>4. Together => Unmixed'
    BY <1>0 DEF Unmixed, OnePlay, NoPlugin, Monitored
  <1>5. Together => CarriedRight'
    <2> SUFFICES ASSUME Together PROVE CarriedRight'
      OBVIOUS
    <2> USE DEF CarriedRight, InReach, Release, Right, Told
    <2>0. CarriedRight
      OBVIOUS
    <2>1. InReach(store)'
      <3>1. /\ store' = [plug.buf EXCEPT ![<<Release, plug.todo[1][1]>>] = plug.todo[1][2]]
            /\ 1 \in 1 .. Len(plug.todo)
        BY <1>0 DEF TypeOK, Plugins
      <3>2. Right(Release, plug.todo[1][2])
        BY <3>1, <1>0, <2>0
      <3>3. \A k \in Keys : k = <<Release, plug.todo[1][1]>> => k[1] = Release
        OBVIOUS
      <3> QED BY <2>0, <3>1, <3>2, <3>3, Carried DEF Files
    <2>2. InReach(plug.buf)'
      <3>1. plug'.buf \in {plug.buf, NoStore}
        BY <1>0 DEF NoPlugin
      <3> QED BY <2>0, <3>1, Nothing DEF TypeOK
    <2>3. InReach(call.buf)'
      BY <2>0, Carried
    <2>4. (\A i \in 1 .. Len(events) :
             events[i].kind = "seek" => Told(events[i].of, events[i].pos))'
      BY <2>0, Carried
    <2>5. (mon.play # 0 => Right(rel[mon.play], mon.pos))'
      BY <2>0, Carried
    <2>6. (props.play # 0 => Right(rel[props.play], props.pos))'
      BY <2>0, Carried
    <2>7. (tick.pc = "position" => Told(tick.play, tick.got))'
      BY <2>0, Carried
    <2>8. (tick.pc = "wait" /\ tick.play # 0 => Right(rel[tick.play], tick.got))'
      BY <2>0, Carried
    <2>9. (call.pc \in {"read", "write"} => Right(call.key[1], call.pos))'
      BY <2>0, Carried
    <2>10. (asked # 0 => Right(Release, plug.scrub) /\ Right(Release, plug.start))'
      BY <1>0, <2>0, Carried DEF NoPlugin
    <2>11. (asked # 0 => \A i \in 1 .. Len(plug.todo) : Right(Release, plug.todo[i][2]))'
      <3>1. CASE plug' = NoPlugin
        BY <3>1 DEF NoPlugin
      <3>2. CASE plug'.todo = Tail(plug.todo)
        <4>1. \A i \in 1 .. Len(plug'.todo) :
                i + 1 \in 1 .. Len(plug.todo) /\ plug'.todo[i] = plug.todo[i + 1]
          BY <1>0, <3>2 DEF TypeOK, Plugins
        <4> QED BY <4>1, <1>0, <2>0
      <3> QED BY <1>0, <3>1, <3>2
    <2> QED BY <2>1, <2>2, <2>3, <2>4, <2>5, <2>6, <2>7, <2>8, <2>9, <2>10, <2>11
  <1> QED BY <1>1, <1>2, <1>3, <1>4, <1>5

LEMMA ChooseKeeps ==
  ASSUME Base, Choose
  PROVE  Base' /\ (Together => Together')
  <1> USE Constants
      DEF Base, Together, Choose, PluginDone, Kept, PluginUnchanged, Plugin, kodi, service
  <1>0. /\ asked # 0
        /\ \/ plug' = NoPlugin
           \/ /\ plug'.pc = "url" /\ plug'.todo = <<>> /\ plug'.buf = plug.buf
              /\ plug'.scrub = 0 /\ plug'.start \in {plug.start, 0}
           \/ /\ plug'.pc = "backout" /\ plug'.todo = << <<"release", plug.scrub>> >>
              /\ plug'.buf = plug.buf /\ plug'.scrub = plug.scrub /\ plug'.start = plug.start
    <2>1. asked # 0 /\ plug \in Plugins /\ plug.todo = <<>>
      BY DEF TypeOK, InTheMiddle
    <2>2. \/ plug' = NoPlugin
          \/ plug' = [[plug EXCEPT !.scrub = 0] EXCEPT !.pc = "url"]
          \/ plug' = [[plug EXCEPT !.scrub = 0, !.start = 0] EXCEPT !.pc = "url"]
          \/ plug' = [[plug EXCEPT !.todo = << <<"release", plug.scrub>> >>]
                       EXCEPT !.pc = "backout"]
      OBVIOUS
    <2> HIDE DEF Choose, Base, Together
    <2>3. CASE plug' = [[plug EXCEPT !.scrub = 0] EXCEPT !.pc = "url"]
      BY <2>1, <2>3 DEF Plugins
    <2>4. CASE plug' = [[plug EXCEPT !.scrub = 0, !.start = 0] EXCEPT !.pc = "url"]
      BY <2>1, <2>4 DEF Plugins
    <2>5. CASE plug' = [[plug EXCEPT !.todo = << <<"release", plug.scrub>> >>]
                        EXCEPT !.pc = "backout"]
      BY <2>1, <2>5 DEF Plugins
    <2> QED BY <2>1, <2>2, <2>3, <2>4, <2>5
  <1>1. TypeOK'
    <2>1. plug' \in Plugins
      <3>1. NoPlugin \in Plugins
        BY DEF NoPlugin, Plugins, Changes
      <3>2. << <<"release", plug.scrub>> >> \in Seq(Changes)
        BY DEF TypeOK, Plugins, Changes
      <3>3. /\ [plug EXCEPT !.scrub = 0] \in Plugins
            /\ [plug EXCEPT !.scrub = 0, !.start = 0] \in Plugins
            /\ [plug EXCEPT !.todo = << <<"release", plug.scrub>> >>] \in Plugins
        BY <3>2 DEF TypeOK, Plugins
      <3>4. \A c \in Plugins : /\ [c EXCEPT !.pc = "url"] \in Plugins
                                /\ [c EXCEPT !.pc = "backout"] \in Plugins
        BY DEF Plugins
      <3> QED BY <3>1, <3>3, <3>4
    <2> QED BY <2>1 DEF TypeOK
  <1>2. InTheMiddle'
    <2>1. plug' = NoPlugin \/ (plug'.pc \in {"url", "backout"} /\ (plug'.pc = "backout" =>
            plug'.todo # <<>>))
      <3>1. \A x : <<x>> # <<>>
        OBVIOUS
      <3> QED BY <1>0, <3>1
    <2> QED BY <1>0, <2>1 DEF InTheMiddle, NoPlugin
  <1>3. KodiWasThere'
    BY DEF TypeOK, Players, Positions, InTheMiddle, KodiWasThere, Larger
  <1>4. Together => Unmixed'
    BY <1>0 DEF Unmixed, OnePlay, NoPlugin, Monitored
  <1>5. Together => CarriedRight'
    <2> SUFFICES ASSUME Together PROVE CarriedRight'
      OBVIOUS
    <2> USE DEF CarriedRight, InReach, Release, Right, Told
    <2>0. CarriedRight
      OBVIOUS
    <2>1. InReach(store)'
      BY <2>0, Carried
    <2>2. InReach(plug.buf)'
      <3>1. plug'.buf \in {plug.buf, NoStore}
        BY <1>0 DEF NoPlugin
      <3> QED BY <2>0, <3>1, Nothing DEF TypeOK
    <2>3. InReach(call.buf)'
      BY <2>0, Carried
    <2>4. (\A i \in 1 .. Len(events) :
             events[i].kind = "seek" => Told(events[i].of, events[i].pos))'
      BY <2>0, Carried
    <2>5. (mon.play # 0 => Right(rel[mon.play], mon.pos))'
      BY <2>0, Carried
    <2>6. (props.play # 0 => Right(rel[props.play], props.pos))'
      BY <2>0, Carried
    <2>7. (tick.pc = "position" => Told(tick.play, tick.got))'
      BY <2>0, Carried
    <2>8. (tick.pc = "wait" /\ tick.play # 0 => Right(rel[tick.play], tick.got))'
      BY <2>0, Carried
    <2>9. (call.pc \in {"read", "write"} => Right(call.key[1], call.pos))'
      BY <2>0, Carried
    <2>10. (asked # 0 => Right(Release, plug.scrub) /\ Right(Release, plug.start))'
      BY <1>0, <2>0, Carried DEF NoPlugin
    <2>11. (asked # 0 => \A i \in 1 .. Len(plug.todo) : Right(Release, plug.todo[i][2]))'
      <3>1. \A i \in 1 .. Len(plug'.todo) : plug'.todo[i][2] = plug.scrub
        BY <1>0 DEF NoPlugin
      <3> QED BY <1>0, <2>0, <3>1, Carried
    <2> QED BY <2>1, <2>2, <2>3, <2>4, <2>5, <2>6, <2>7, <2>8, <2>9, <2>10, <2>11
  <1> QED BY <1>1, <1>2, <1>3, <1>4, <1>5

LEMMA SetPropsKeeps ==
  ASSUME Base, SetProps
  PROVE  Base' /\ (Together => Together')
  <1> USE Constants
      DEF Base, Together, SetProps, PluginUnchanged, Plugin, kodi, service
  <1>1. TypeOK'
    <2>1. props' \in HandOvers
      BY DEF TypeOK, HandOvers, NoProps, Plugins
    <2>2. plug' \in Plugins
      BY DEF TypeOK, Plugins, NoPlugin
    <2> QED BY <2>1, <2>2 DEF TypeOK
  <1>2. InTheMiddle'
    BY DEF TypeOK, Players, HandOvers, Monitors, Plugins, Calls, Ticks, InTheMiddle
  <1>3. KodiWasThere'
    BY DEF TypeOK, Players, Positions, InTheMiddle, KodiWasThere, Larger
  <1>4. Together => Unmixed'
    BY DEF TypeOK, Players, HandOvers, Monitors, Plugins, Calls, Ticks, Unmixed, OnePlay, Monitored,
       InTheMiddle
  <1>5. Together => CarriedRight'
    <2> SUFFICES ASSUME Together PROVE CarriedRight'
      OBVIOUS
    <2> USE DEF CarriedRight, InReach, Release, Right, Told
    <2>0. CarriedRight
      OBVIOUS
    <2>1. InReach(store)'
      BY <2>0, Carried
    <2>2. InReach(plug.buf)'
      BY <2>0, Carried DEF TypeOK, Plugins, HandOvers, InTheMiddle
    <2>3. InReach(call.buf)'
      BY <2>0, Carried
    <2>4. (\A i \in 1 .. Len(events) :
             events[i].kind = "seek" => Told(events[i].of, events[i].pos))'
      BY <2>0, Carried
    <2>5. (mon.play # 0 => Right(rel[mon.play], mon.pos))'
      BY <2>0, Carried
    <2>6. (props.play # 0 => Right(rel[props.play], props.pos))'
      BY <2>0, Carried DEF TypeOK, Plugins, HandOvers, InTheMiddle
    <2>7. (tick.pc = "position" => Told(tick.play, tick.got))'
      BY <2>0, Carried
    <2>8. (tick.pc = "wait" /\ tick.play # 0 => Right(rel[tick.play], tick.got))'
      BY <2>0, Carried
    <2>9. (call.pc \in {"read", "write"} => Right(call.key[1], call.pos))'
      BY <2>0, Carried
    <2>10. (asked # 0 => Right(Release, plug.scrub) /\ Right(Release, plug.start))'
      BY <2>0, Carried DEF TypeOK, Plugins, HandOvers, InTheMiddle
    <2>11. (asked # 0 => \A i \in 1 .. Len(plug.todo) : Right(Release, plug.todo[i][2]))'
      BY <2>0, Carried DEF TypeOK, Plugins, HandOvers, InTheMiddle
    <2> QED BY <2>1, <2>2, <2>3, <2>4, <2>5, <2>6, <2>7, <2>8, <2>9, <2>10, <2>11
  <1> QED BY <1>1, <1>2, <1>3, <1>4, <1>5

LEMMA SetActiveKeeps ==
  ASSUME Base, SetActive
  PROVE  Base' /\ (Together => Together')
  <1> USE Constants
      DEF Base, Together, SetActive, PluginUnchanged, Plugin, kodi, service
  <1>1. TypeOK'
    <2>1. props' \in HandOvers
      BY DEF TypeOK, HandOvers, NoProps, Plugins
    <2>2. plug' \in Plugins
      BY DEF TypeOK, Plugins, NoPlugin
    <2> QED BY <2>1, <2>2 DEF TypeOK
  <1>2. InTheMiddle'
    BY DEF TypeOK, Players, HandOvers, Monitors, Plugins, Calls, Ticks, InTheMiddle
  <1>3. KodiWasThere'
    BY DEF TypeOK, Players, Positions, InTheMiddle, KodiWasThere, Larger
  <1>4. Together => Unmixed'
    BY DEF TypeOK, Players, HandOvers, Monitors, Plugins, Calls, Ticks, Unmixed, OnePlay, Monitored,
       InTheMiddle
  <1>5. Together => CarriedRight'
    <2> SUFFICES ASSUME Together PROVE CarriedRight'
      OBVIOUS
    <2> USE DEF CarriedRight, InReach, Release, Right, Told
    <2>0. CarriedRight
      OBVIOUS
    <2>1. InReach(store)'
      BY <2>0, Carried
    <2>2. InReach(plug.buf)'
      BY <2>0, Carried DEF TypeOK, Plugins, HandOvers, InTheMiddle
    <2>3. InReach(call.buf)'
      BY <2>0, Carried
    <2>4. (\A i \in 1 .. Len(events) :
             events[i].kind = "seek" => Told(events[i].of, events[i].pos))'
      BY <2>0, Carried
    <2>5. (mon.play # 0 => Right(rel[mon.play], mon.pos))'
      BY <2>0, Carried
    <2>6. (props.play # 0 => Right(rel[props.play], props.pos))'
      BY <2>0, Carried DEF TypeOK, Plugins, HandOvers, InTheMiddle
    <2>7. (tick.pc = "position" => Told(tick.play, tick.got))'
      BY <2>0, Carried
    <2>8. (tick.pc = "wait" /\ tick.play # 0 => Right(rel[tick.play], tick.got))'
      BY <2>0, Carried
    <2>9. (call.pc \in {"read", "write"} => Right(call.key[1], call.pos))'
      BY <2>0, Carried
    <2>10. (asked # 0 => Right(Release, plug.scrub) /\ Right(Release, plug.start))'
      BY <2>0, Carried DEF TypeOK, Plugins, HandOvers, InTheMiddle
    <2>11. (asked # 0 => \A i \in 1 .. Len(plug.todo) : Right(Release, plug.todo[i][2]))'
      BY <2>0, Carried DEF TypeOK, Plugins, HandOvers, InTheMiddle
    <2> QED BY <2>1, <2>2, <2>3, <2>4, <2>5, <2>6, <2>7, <2>8, <2>9, <2>10, <2>11
  <1> QED BY <1>1, <1>2, <1>3, <1>4, <1>5

LEMMA HandOverKeeps ==
  ASSUME Base, HandOver
  PROVE  Base' /\ (Together => Together')
  <1> USE Constants
      DEF Base, Together, HandOver, PluginDone, Opens, PluginUnchanged, Plugin, kodi, service
  <1>0. /\ plug' = NoPlugin /\ asked \in Plays
        /\ player' = [play |-> asked, pos |-> plug.start, shown |-> FALSE]
        /\ events' \in {events, Append(events, Event("stopped"))}
        /\ reached' = [reached EXCEPT ![Release] = Larger(reached[Release], plug.start)]
    BY Carried DEF InTheMiddle, Release
  <1>1. TypeOK'
    <2>1. player' \in Players
      <3>1. asked \in Plays /\ plug.start \in Positions
        BY DEF TypeOK, InTheMiddle, Plugins
      <3>2. \/ player' = player
            \/ asked # 0 /\ player' = [play |-> asked, pos |-> plug.start, shown |-> FALSE]
        OBVIOUS
      <3>3. asked # 0 => [play |-> asked, pos |-> plug.start, shown |-> FALSE] \in Players
        BY <3>1 DEF Players
      <3> QED BY <3>2, <3>3 DEF TypeOK
    <2>2. events' \in Seq(Events)
      <3>1. Event("stopped") \in Events /\ Event("error") \in Events
        BY DEF Events, Event
      <3>2. \A e \in Events : Append(events, e) \in Seq(Events)
        BY DEF TypeOK
      <3>3. events' \in {events, Append(events, Event("stopped")),
                         Append(events, Event("error"))}
        OBVIOUS
      <3>4. events \in Seq(Events)
        BY DEF TypeOK
      <3> HIDE DEF HandOver, Opens
      <3> QED BY <3>1, <3>2, <3>3, <3>4
    <2>3. reached' \in [Releases -> Positions]
      <3>1. asked \in Plays /\ plug.start \in Positions
        BY DEF TypeOK, InTheMiddle, Plugins
      <3>2. CASE asked # 0 /\ reached' = [reached EXCEPT ![rel[asked]] = Larger(@, plug.start)]
        <4>1. Larger(reached[rel[asked]], plug.start) \in Positions
          BY <3>1, <3>2 DEF TypeOK
        <4> QED BY <3>2, <4>1 DEF TypeOK
      <3> QED BY <3>1, <3>2 DEF TypeOK
    <2>4. plug' \in Plugins
      BY DEF TypeOK, Plugins, NoPlugin
    <2> QED BY <2>1, <2>2, <2>3, <2>4 DEF TypeOK
  <1>7. \A r \in Releases : reached[r] <= reached'[r] /\ reached'[r] \in Positions
    <2>1. reached \in [Releases -> Positions] /\ reached' \in [Releases -> Positions]
      BY <1>1 DEF TypeOK
    <2>5. \A r \in Releases : reached[r] \in Positions /\ reached[r] \in Nat
      BY <2>1
    <2>2. \A r \in Releases, at \in Positions :
            reached[r] <= Larger(reached[r], at) /\ reached[r] <= reached[r]
      BY <2>5
    <2>3. asked # 0 => plug.start \in Positions
      BY Carried
    <2>4. reached' = reached \/
            (asked # 0 /\ \A r \in Releases :
               reached'[r] \in {reached[r], Larger(reached[r], plug.start)})
      BY <1>0, <2>1 DEF Release
    <2> HIDE DEF HandOver, Opens
    <2> QED BY <2>1, <2>2, <2>3, <2>4
  <1>2. InTheMiddle'
    BY <1>0, Carried DEF InTheMiddle, NoPlugin
  <1>3. KodiWasThere'
    <2>1. \A r \in Releases : reached[r] <= reached'[r] /\ reached'[r] \in Positions
      BY <1>7
    <2>2. player'.play # 0 => player'.pos <= reached'[rel[player'.play]]
      BY <1>0, Carried, Constants DEF Release, KodiWasThere, TypeOK
    <2>3. \A r \in Releases : bookmark[r] \in Nat /\ reached[r] \in Nat /\ reached'[r] \in Nat
      BY <2>1, Carried
    <2>4. \A r \in Releases : bookmark[r] <= reached'[r]
      BY <2>1, <2>3 DEF KodiWasThere
    <2> QED BY <2>2, <2>4 DEF KodiWasThere
  <1>12. \A i \in 1 .. Len(events') :
           events'[i].kind = "seek" => i \in 1 .. Len(events) /\ events'[i] = events[i]
    BY <1>0, Silent DEF TypeOK
  <1>4. Together => Unmixed'
    BY <1>0, <1>12, Carried DEF Unmixed, OnePlay, NoPlugin, Monitored
  <1>5. Together => CarriedRight'
    <2> SUFFICES ASSUME Together PROVE CarriedRight'
      OBVIOUS
    <2> USE DEF CarriedRight, InReach, Release, Right, Told
    <2>0. CarriedRight
      OBVIOUS
    <2>20. /\ reached' \in [Releases -> Positions]
           /\ \A r \in Releases : reached[r] <= reached'[r]
      BY <1>1, <1>7 DEF TypeOK
    <2>21. \A r \in Releases, q \in Positions : q <= reached[r] => q <= reached'[r]
      <3>1. Positions \subseteq Nat
        BY Constants
      <3>2. \A r \in Releases : reached[r] \in Nat /\ reached'[r] \in Nat
        BY <2>20, <3>1, Carried
      <3> HIDE DEF HandOver, Opens, Base, Together
      <3> QED BY <2>20, <3>1, <3>2
    <2>1. InReach(store)'
      BY <2>0, Carried, <2>21
    <2>2. InReach(plug.buf)'
      <3>1. plug'.buf = NoStore
        BY <1>0 DEF NoPlugin
      <3> QED BY <3>1, <2>20, Nothing
    <2>3. InReach(call.buf)'
      BY <2>0, Carried, <2>21
    <2>4. (\A i \in 1 .. Len(events) :
             events[i].kind = "seek" => Told(events[i].of, events[i].pos))'
      BY <1>12, <2>0, <2>21, Carried
    <2>5. (mon.play # 0 => Right(rel[mon.play], mon.pos))'
      BY <2>0, Carried, <2>21
    <2>6. (props.play # 0 => Right(rel[props.play], props.pos))'
      BY <2>0, Carried, <2>21
    <2>7. (tick.pc = "position" => Told(tick.play, tick.got))'
      BY <2>0, Carried, <2>21
    <2>8. (tick.pc = "wait" /\ tick.play # 0 => Right(rel[tick.play], tick.got))'
      BY <2>0, Carried, <2>21
    <2>9. (call.pc \in {"read", "write"} => Right(call.key[1], call.pos))'
      <3>1. call.pc \in {"read", "write"} => call.key \in Keys
        BY DEF InTheMiddle, Keys
      <3> QED BY <2>0, <2>21, <3>1, Carried
    <2>10. (asked # 0 => Right(Release, plug.scrub) /\ Right(Release, plug.start))'
      <3>1. plug'.scrub = 0 /\ plug'.start = 0
        BY <1>0 DEF NoPlugin
      <3>4. Release \in Releases
        BY <1>0, Carried
      <3>5. \A q \in Positions : 0 <= q
        OBVIOUS
      <3>2. 0 <= reached'[Release]
        BY <2>20, <3>4, <3>5
      <3> QED BY <3>1, <3>2
    <2>11. (asked # 0 => \A i \in 1 .. Len(plug.todo) : Right(Release, plug.todo[i][2]))'
      BY <1>0 DEF NoPlugin
    <2> QED BY <2>1, <2>2, <2>3, <2>4, <2>5, <2>6, <2>7, <2>8, <2>9, <2>10, <2>11
  <1> QED BY <1>1, <1>2, <1>3, <1>4, <1>5

LEMMA CallbackKeeps ==
  ASSUME Base, Callback
  PROVE  Base' /\ (Together => Together')
  <1> USE Constants
      DEF Base, Together, Callback, Savable, Monitored, CallUnchanged, history
  <1>0. /\ Head(events) = events[1] /\ Head(events) \in Events /\ 1 \in 1 .. Len(events)
        /\ mon'.play = mon.play /\ mon'.pos \in {mon.pos, Head(events).pos}
        /\ (mon'.st # "idle" => mon.st # "idle")
        /\ (mon'.pos # mon.pos => mon.st # "idle")
    <2>1. Head(events) = events[1] /\ Head(events) \in Events /\ 1 \in 1 .. Len(events)
      BY DEF TypeOK
    <2>2. mon' = Notified(Head(events))
      OBVIOUS
    <2> QED BY <2>1, <2>2 DEF Notified, TypeOK, Monitors
  <1>9. \/ call' = call \/ call' = [call EXCEPT !.pc = "clean"]
        \/ /\ mon.play # 0 /\ call'.pc = "read" /\ call'.buf = call.buf
           /\ call'.key = <<rel[mon.play], "release">> /\ call'.pos \in {call.pos, mon.pos}
    BY DEF KeyOf, TypeOK, Calls
  <1>10. \/ mixed' = mixed /\ mon'.pos = mon.pos
         \/ /\ events[1].kind = "seek" /\ mon.st # "idle" /\ mon'.pos = events[1].pos
            /\ mixed' = IF mon.play # 0 /\ rel[mon.play] # rel[events[1].of]
                        THEN mixed \cup {rel[mon.play]} ELSE mixed
    <2>1. mon' = Notified(Head(events))
      OBVIOUS
    <2>2. CASE Head(events).kind = "seek" /\ mon.st # "idle"
      BY <1>0, <2>1, <2>2 DEF Notified, Notes, TypeOK, Monitors
    <2>3. CASE ~(Head(events).kind = "seek" /\ mon.st # "idle")
      BY <1>0, <2>1, <2>3 DEF Notified, TypeOK, Monitors
    <2> QED BY <2>2, <2>3
  <1>11. /\ mixed \subseteq mixed'
         /\ UNCHANGED <<player, bookmark, reached, store, asked, plug, rel, tick, props, overlap>>
    BY <1>10
  <1>12. \A i \in 1 .. Len(events') :
           i + 1 \in 1 .. Len(events) /\ events'[i] = events[i + 1]
    BY <1>0 DEF TypeOK
  <1>1. TypeOK'
    <2>1. events' \in Seq(Events)
      BY DEF TypeOK, Events, Event
    <2>2. mon' \in Monitors
      <3>1. Head(events) \in Events
        BY DEF TypeOK
      <3>2. /\ [mon EXCEPT !.st = "monitoring", !.tries = 0, !.av = TRUE] \in Monitors
            /\ [mon EXCEPT !.pos = Head(events).pos] \in Monitors
            /\ [mon EXCEPT !.st = "error"] \in Monitors /\ [mon EXCEPT !.st = "idle"] \in Monitors
        BY <3>1 DEF TypeOK, Monitors, Events
      <3>3. mon' = Notified(Head(events))
        OBVIOUS
      <3>4. Notified(Head(events)) \in
              {[mon EXCEPT !.st = "monitoring", !.tries = 0, !.av = TRUE],
               [mon EXCEPT !.pos = Head(events).pos], [mon EXCEPT !.st = "error"],
               [mon EXCEPT !.st = "idle"], mon}
        BY DEF Notified
      <3> QED BY <3>2, <3>3, <3>4 DEF TypeOK
    <2>3. call' \in Calls
      <3>1. mon.play # 0 => KeyOf(mon.play) \in Keys
        BY DEF TypeOK, Monitors, KeyOf, Keys
      <3>2. mon.pos \in Positions
        BY DEF TypeOK, Monitors
      <3>3. /\ mon.play # 0 => [call EXCEPT !.pc = "read", !.key = KeyOf(mon.play)] \in Calls
            /\ mon.play # 0 =>
                 [call EXCEPT !.pc = "read", !.key = KeyOf(mon.play), !.pos = mon.pos] \in Calls
            /\ [call EXCEPT !.pc = "clean"] \in Calls
        BY <3>1, <3>2 DEF TypeOK, Calls
      <3>4. \/ call' \in {call, [call EXCEPT !.pc = "clean"]}
            \/ mon.play # 0 /\ call' = [call EXCEPT !.pc = "read", !.key = KeyOf(mon.play)]
            \/ /\ mon.play # 0
               /\ call' = [call EXCEPT !.pc = "read", !.key = KeyOf(mon.play), !.pos = mon.pos]
        OBVIOUS
      <3> HIDE DEF Callback
      <3> QED BY <3>3, <3>4 DEF TypeOK
    <2>4. mixed' \subseteq Releases
      BY <1>10, Carried DEF TypeOK
    <2> QED BY <2>1, <2>2, <2>3, <2>4 DEF TypeOK
  <1>2. InTheMiddle'
    <2>1. /\ call'.pc = "none" => call'.pos = 0
          /\ call'.pc \in {"read", "write"} => call'.key \in Releases \X {"release"}
      <3>1. CASE call' = call
        BY <3>1 DEF InTheMiddle
      <3>2. CASE call' = [call EXCEPT !.pc = "clean"]
        BY <3>2 DEF TypeOK, Calls
      <3>3. CASE mon.play # 0 /\ call'.pc = "read" /\ call'.key = <<rel[mon.play], "release">>
        <4>1. rel[mon.play] \in Releases
          BY <3>3 DEF TypeOK, Monitors
        <4>2. <<rel[mon.play], "release">> \in Releases \X {"release"}
          BY <4>1
        <4>3. call'.pc = "read" /\ call'.key = <<rel[mon.play], "release">>
          BY <3>3
        <4> HIDE DEF Callback
        <4> QED BY <4>2, <4>3
      <3> QED BY <1>9, <3>1, <3>2, <3>3
    <2> QED BY <2>1 DEF InTheMiddle
  <1>3. KodiWasThere'
    BY DEF TypeOK, Players, Positions, InTheMiddle, KodiWasThere, Larger
  <1> HIDE DEF Callback
  <1>4. Together => Unmixed'
    BY <1>0, <1>10, <1>11, <1>12 DEF Unmixed, OnePlay, Monitored
  <1>5. Together => CarriedRight'
    <2> SUFFICES ASSUME Together PROVE CarriedRight'
      OBVIOUS
    <2> USE DEF CarriedRight, InReach, Release, Right, Told
    <2>0. CarriedRight
      OBVIOUS
    <2>1. InReach(store)'
      BY <1>11, <2>0
    <2>2. InReach(plug.buf)'
      BY <1>11, <2>0
    <2>3. InReach(call.buf)'
      BY <1>9, <1>11, <2>0, Carried DEF TypeOK, Calls
    <2>4. (\A i \in 1 .. Len(events) :
             events[i].kind = "seek" => Told(events[i].of, events[i].pos))'
      BY <1>11, <1>12, <2>0
    <2>5. (mon.play # 0 => Right(rel[mon.play], mon.pos))'
      BY <1>0, <1>10, <1>11, <2>0
    <2>6. (props.play # 0 => Right(rel[props.play], props.pos))'
      BY <1>11, <2>0
    <2>7. (tick.pc = "position" => Told(tick.play, tick.got))'
      BY <1>11, <2>0
    <2>8. (tick.pc = "wait" /\ tick.play # 0 => Right(rel[tick.play], tick.got))'
      BY <1>11, <2>0
    <2>9. (call.pc \in {"read", "write"} => Right(call.key[1], call.pos))'
      <3>1. CASE call' = call \/ call' = [call EXCEPT !.pc = "clean"]
        <4>1. call.pc = "none" /\ (call' = call \/ call'.pc = "clean")
          BY <3>1 DEF Callback, TypeOK, Calls
        <4> QED BY <4>1, <3>1
      <3>2. CASE /\ mon.play # 0 /\ call'.pos \in {call.pos, mon.pos}
                 /\ call'.key = <<rel[mon.play], "release">>
        <4>1. call'.key[1] = rel[mon.play] /\ call.pos = 0
          BY <3>2 DEF Callback, InTheMiddle
        <4> QED BY <1>11, <2>0, <3>2, <4>1, Carried
      <3> QED BY <1>9, <3>1, <3>2
    <2>10. (asked # 0 => Right(Release, plug.scrub) /\ Right(Release, plug.start))'
      BY <1>11, <2>0
    <2>11. (asked # 0 => \A i \in 1 .. Len(plug.todo) : Right(Release, plug.todo[i][2]))'
      BY <1>11, <2>0
    <2> QED BY <2>1, <2>2, <2>3, <2>4, <2>5, <2>6, <2>7, <2>8, <2>9, <2>10, <2>11
  <1> QED BY <1>1, <1>2, <1>3, <1>4, <1>5

LEMMA CallReadsKeeps ==
  ASSUME Base, CallReads
  PROVE  Base' /\ (Together => Together')
  <1> USE Constants
      DEF Base, Together, CallReads, CallUnchanged, history
  <1>0. \E at \in {call.pos, 0} :
          call' = [call EXCEPT !.pc = "write", !.pos = at, !.buf = store]
    OBVIOUS
  <1>1. TypeOK'
    <2>1. call' \in Calls
      <3>1. call \in Calls /\ call.pos \in Positions /\ store \in Files
        BY Carried DEF TypeOK
      <3>2. PICK at \in {call.pos, 0} :
              call' = [call EXCEPT !.pc = "write", !.pos = at, !.buf = store]
        BY <1>0
      <3>3. [call EXCEPT !.pc = "write", !.pos = at, !.buf = store] \in Calls
        BY <3>1 DEF Calls
      <3> QED BY <3>2, <3>3
    <2> QED BY <2>1 DEF TypeOK
  <1>2. InTheMiddle'
    BY DEF TypeOK, Players, HandOvers, Monitors, Plugins, Calls, Ticks, InTheMiddle
  <1>3. KodiWasThere'
    BY DEF TypeOK, Players, Positions, InTheMiddle, KodiWasThere, Larger
  <1>4. Together => Unmixed'
    BY DEF TypeOK, Players, HandOvers, Monitors, Plugins, Calls, Ticks, Unmixed, OnePlay, Monitored,
       InTheMiddle
  <1>5. Together => CarriedRight'
    <2> SUFFICES ASSUME Together PROVE CarriedRight'
      OBVIOUS
    <2> USE DEF CarriedRight, InReach, Release, Right, Told
    <2>0. CarriedRight
      OBVIOUS
    <2>1. InReach(store)'
      BY <2>0, Carried
    <2>2. InReach(plug.buf)'
      BY <2>0, Carried
    <2>3. InReach(call.buf)'
      <3>1. call'.buf = store
        BY <1>0 DEF TypeOK, Calls
      <3> QED BY <2>0, <3>1
    <2>4. (\A i \in 1 .. Len(events) :
             events[i].kind = "seek" => Told(events[i].of, events[i].pos))'
      BY <2>0, Carried
    <2>5. (mon.play # 0 => Right(rel[mon.play], mon.pos))'
      BY <2>0, Carried
    <2>6. (props.play # 0 => Right(rel[props.play], props.pos))'
      BY <2>0, Carried
    <2>7. (tick.pc = "position" => Told(tick.play, tick.got))'
      BY <2>0, Carried
    <2>8. (tick.pc = "wait" /\ tick.play # 0 => Right(rel[tick.play], tick.got))'
      BY <2>0, Carried
    <2>9. (call.pc \in {"read", "write"} => Right(call.key[1], call.pos))'
      <3>1. call'.key = call.key /\ call'.pos \in {call.pos, 0}
        BY <1>0 DEF TypeOK, Calls
      <3>2. call.key[1] \in Releases
        BY DEF InTheMiddle
      <3> QED BY <2>0, <3>1, <3>2, Carried
    <2>10. (asked # 0 => Right(Release, plug.scrub) /\ Right(Release, plug.start))'
      BY <2>0, Carried
    <2>11. (asked # 0 => \A i \in 1 .. Len(plug.todo) : Right(Release, plug.todo[i][2]))'
      BY <2>0, Carried
    <2> QED BY <2>1, <2>2, <2>3, <2>4, <2>5, <2>6, <2>7, <2>8, <2>9, <2>10, <2>11
  <1> QED BY <1>1, <1>2, <1>3, <1>4, <1>5

LEMMA CallWritesKeeps ==
  ASSUME Base, CallWrites
  PROVE  Base' /\ (Together => Together')
  <1> USE Constants
      DEF Base, Together, CallWrites, Written, CallUnchanged, history
  <1>1. TypeOK'
    <2>1. store' \in Files
      BY DEF TypeOK, Plugins, Calls, Files
    <2>2. call' \in Calls
      BY DEF TypeOK, Calls, NoCall
    <2> QED BY <2>1, <2>2 DEF TypeOK
  <1>2. InTheMiddle'
    BY DEF NoCall, NoProps, TypeOK, Players, HandOvers, Monitors, Plugins, Calls, Ticks,
       InTheMiddle
  <1>3. KodiWasThere'
    BY DEF NoCall, NoProps, TypeOK, Players, Positions, InTheMiddle, KodiWasThere, Larger
  <1>4. Together => Unmixed'
    BY DEF NoCall, NoProps, TypeOK, Players, HandOvers, Monitors, Plugins, Calls, Ticks,
       Unmixed, OnePlay, Monitored, InTheMiddle
  <1>5. Together => CarriedRight'
    <2> SUFFICES ASSUME Together PROVE CarriedRight'
      OBVIOUS
    <2> USE DEF CarriedRight, InReach, Release, Right, Told
    <2>0. CarriedRight
      OBVIOUS
    <2>1. InReach(store)'
      <3>1. /\ store' = [call.buf EXCEPT ![call.key] = call.pos]
            /\ call.key \in Keys /\ Right(call.key[1], call.pos)
        BY <2>0 DEF InTheMiddle, Keys
      <3> QED BY <2>0, <3>1, Carried DEF Files
    <2>2. InReach(plug.buf)'
      BY <2>0, Carried
    <2>3. InReach(call.buf)'
      BY Nothing, Carried DEF NoCall, TypeOK
    <2>4. (\A i \in 1 .. Len(events) :
             events[i].kind = "seek" => Told(events[i].of, events[i].pos))'
      BY <2>0, Carried
    <2>5. (mon.play # 0 => Right(rel[mon.play], mon.pos))'
      BY <2>0, Carried
    <2>6. (props.play # 0 => Right(rel[props.play], props.pos))'
      BY <2>0, Carried
    <2>7. (tick.pc = "position" => Told(tick.play, tick.got))'
      BY <2>0, Carried
    <2>8. (tick.pc = "wait" /\ tick.play # 0 => Right(rel[tick.play], tick.got))'
      BY <2>0, Carried
    <2>9. (call.pc \in {"read", "write"} => Right(call.key[1], call.pos))'
      BY DEF NoCall
    <2>10. (asked # 0 => Right(Release, plug.scrub) /\ Right(Release, plug.start))'
      BY <2>0, Carried
    <2>11. (asked # 0 => \A i \in 1 .. Len(plug.todo) : Right(Release, plug.todo[i][2]))'
      BY <2>0, Carried
    <2> QED BY <2>1, <2>2, <2>3, <2>4, <2>5, <2>6, <2>7, <2>8, <2>9, <2>10, <2>11
  <1> QED BY <1>1, <1>2, <1>3, <1>4, <1>5

LEMMA CallCleansKeeps ==
  ASSUME Base, CallCleans
  PROVE  Base' /\ (Together => Together')
  <1> USE Constants
      DEF Base, Together, CallCleans, CallUnchanged, history
  <1>1. TypeOK'
    <2>1. props' \in HandOvers
      BY DEF TypeOK, HandOvers, NoProps, Plugins
    <2>2. flag' \in BOOLEAN
      BY DEF TypeOK
    <2>3. call' \in Calls
      BY DEF TypeOK, Calls, NoCall
    <2> QED BY <2>1, <2>2, <2>3 DEF TypeOK
  <1>2. InTheMiddle'
    BY DEF NoCall, NoProps, TypeOK, Players, HandOvers, Monitors, Plugins, Calls, Ticks,
       InTheMiddle
  <1>3. KodiWasThere'
    BY DEF NoCall, NoProps, TypeOK, Players, Positions, InTheMiddle, KodiWasThere, Larger
  <1>4. Together => Unmixed'
    BY DEF NoCall, NoProps, TypeOK, Players, HandOvers, Monitors, Plugins, Calls, Ticks,
       Unmixed, OnePlay, Monitored, InTheMiddle
  <1>5. Together => CarriedRight'
    <2> SUFFICES ASSUME Together PROVE CarriedRight'
      OBVIOUS
    <2> USE DEF CarriedRight, InReach, Release, Right, Told
    <2>0. CarriedRight
      OBVIOUS
    <2>1. InReach(store)'
      BY <2>0, Carried
    <2>2. InReach(plug.buf)'
      BY <2>0, Carried
    <2>3. InReach(call.buf)'
      BY Nothing, Carried DEF NoCall, TypeOK
    <2>4. (\A i \in 1 .. Len(events) :
             events[i].kind = "seek" => Told(events[i].of, events[i].pos))'
      BY <2>0, Carried
    <2>5. (mon.play # 0 => Right(rel[mon.play], mon.pos))'
      BY <2>0, Carried
    <2>6. (props.play # 0 => Right(rel[props.play], props.pos))'
      BY DEF NoProps
    <2>7. (tick.pc = "position" => Told(tick.play, tick.got))'
      BY <2>0, Carried
    <2>8. (tick.pc = "wait" /\ tick.play # 0 => Right(rel[tick.play], tick.got))'
      BY <2>0, Carried
    <2>9. (call.pc \in {"read", "write"} => Right(call.key[1], call.pos))'
      BY DEF NoCall
    <2>10. (asked # 0 => Right(Release, plug.scrub) /\ Right(Release, plug.start))'
      BY <2>0, Carried
    <2>11. (asked # 0 => \A i \in 1 .. Len(plug.todo) : Right(Release, plug.todo[i][2]))'
      BY <2>0, Carried
    <2> QED BY <2>1, <2>2, <2>3, <2>4, <2>5, <2>6, <2>7, <2>8, <2>9, <2>10, <2>11
  <1> QED BY <1>1, <1>2, <1>3, <1>4, <1>5

LEMMA CheckActiveKeeps ==
  ASSUME Base, CheckActive
  PROVE  Base' /\ (Together => Together')
  <1> USE Constants
      DEF Base, Together, CheckActive, TakenOver, QuietTick, TickUnchanged, NoTick
  <1>0. \/ /\ props.active /\ mon'.play = props.play /\ mon'.pos = props.pos
           /\ tick'.pc = "drop"
        \/ mon' = mon /\ tick'.pc = "grace"
    BY DEF TypeOK, Ticks
  <1>8. UNCHANGED <<player, call, asked, plug>>
    OBVIOUS
  <1>1. TypeOK'
    <2>1. mon' \in Monitors
      <3>1. props.play \in Plays \cup {0} /\ props.pos \in Positions
        BY DEF TypeOK, HandOvers
      <3>2. TakenOver \in Monitors
        BY <3>1 DEF Monitors
      <3> QED BY <3>2 DEF TypeOK
    <2>2. tick' \in Ticks
      BY DEF TypeOK, Ticks, NoTick, Players
    <2> QED BY <2>1, <2>2 DEF TypeOK
  <1>2. InTheMiddle'
    BY <1>8 DEF InTheMiddle
  <1>3. KodiWasThere'
    BY DEF TypeOK, Players, Positions, InTheMiddle, KodiWasThere, Larger
  <1>4. Together => Unmixed'
    <2>1. UNCHANGED <<player, events, asked, plug, props, overlap, mixed>>
      OBVIOUS
    <2>2. CASE props.active /\ mon'.play = props.play
      BY <1>0, <2>1, <2>2 DEF Unmixed, OnePlay
    <2>3. CASE mon' = mon
      BY <1>0, <2>1, <2>3 DEF Unmixed, OnePlay, Monitored
    <2> QED BY <1>0, <2>2, <2>3
  <1>5. Together => CarriedRight'
    <2> SUFFICES ASSUME Together PROVE CarriedRight'
      OBVIOUS
    <2> USE DEF CarriedRight, InReach, Release, Right, Told
    <2>0. CarriedRight
      OBVIOUS
    <2>1. InReach(store)'
      BY <2>0, Carried
    <2>2. InReach(plug.buf)'
      BY <2>0, Carried
    <2>3. InReach(call.buf)'
      BY <2>0, Carried
    <2>4. (\A i \in 1 .. Len(events) :
             events[i].kind = "seek" => Told(events[i].of, events[i].pos))'
      BY <2>0, Carried
    <2>5. (mon.play # 0 => Right(rel[mon.play], mon.pos))'
      BY <1>0, <2>0, Carried
    <2>6. (props.play # 0 => Right(rel[props.play], props.pos))'
      BY <2>0, Carried
    <2>7. (tick.pc = "position" => Told(tick.play, tick.got))'
      BY <1>0, <2>0, Carried
    <2>8. (tick.pc = "wait" /\ tick.play # 0 => Right(rel[tick.play], tick.got))'
      BY <1>0, <2>0, Carried
    <2>9. (call.pc \in {"read", "write"} => Right(call.key[1], call.pos))'
      BY <2>0, Carried
    <2>10. (asked # 0 => Right(Release, plug.scrub) /\ Right(Release, plug.start))'
      BY <2>0, Carried
    <2>11. (asked # 0 => \A i \in 1 .. Len(plug.todo) : Right(Release, plug.todo[i][2]))'
      BY <2>0, Carried
    <2> QED BY <2>1, <2>2, <2>3, <2>4, <2>5, <2>6, <2>7, <2>8, <2>9, <2>10, <2>11
  <1> QED BY <1>1, <1>2, <1>3, <1>4, <1>5

LEMMA DropPropsKeeps ==
  ASSUME Base, DropProps
  PROVE  Base' /\ (Together => Together')
  <1> USE Constants
      DEF Base, Together, DropProps, NoProps, QuietTick, TickUnchanged, NoTick
  <1>0. tick'.pc \in {"grace"}
    BY DEF TypeOK, Ticks
  <1>1. TypeOK'
    <2>1. props' \in HandOvers
      BY DEF TypeOK, HandOvers, NoProps, Plugins
    <2>2. flag' \in BOOLEAN
      BY DEF TypeOK
    <2>3. tick' \in Ticks
      BY DEF TypeOK, Ticks, NoTick, Players
    <2> QED BY <2>1, <2>2, <2>3 DEF TypeOK
  <1>2. InTheMiddle'
    BY DEF TypeOK, Players, HandOvers, Monitors, Plugins, Calls, Ticks, InTheMiddle
  <1>3. KodiWasThere'
    BY DEF TypeOK, Players, Positions, InTheMiddle, KodiWasThere, Larger
  <1>4. Together => Unmixed'
    BY DEF TypeOK, Players, HandOvers, Monitors, Plugins, Calls, Ticks, Unmixed, OnePlay, Monitored,
       InTheMiddle
  <1>5. Together => CarriedRight'
    <2> SUFFICES ASSUME Together PROVE CarriedRight'
      OBVIOUS
    <2> USE DEF CarriedRight, InReach, Release, Right, Told
    <2>0. CarriedRight
      OBVIOUS
    <2>1. InReach(store)'
      BY <2>0, Carried
    <2>2. InReach(plug.buf)'
      BY <2>0, Carried
    <2>3. InReach(call.buf)'
      BY <2>0, Carried
    <2>4. (\A i \in 1 .. Len(events) :
             events[i].kind = "seek" => Told(events[i].of, events[i].pos))'
      BY <2>0, Carried
    <2>5. (mon.play # 0 => Right(rel[mon.play], mon.pos))'
      BY <2>0, Carried
    <2>6. (props.play # 0 => Right(rel[props.play], props.pos))'
      BY <2>0 DEF NoProps
    <2>7. (tick.pc = "position" => Told(tick.play, tick.got))'
      BY <1>0
    <2>8. (tick.pc = "wait" /\ tick.play # 0 => Right(rel[tick.play], tick.got))'
      BY <1>0
    <2>9. (call.pc \in {"read", "write"} => Right(call.key[1], call.pos))'
      BY <2>0, Carried
    <2>10. (asked # 0 => Right(Release, plug.scrub) /\ Right(Release, plug.start))'
      BY <2>0, Carried
    <2>11. (asked # 0 => \A i \in 1 .. Len(plug.todo) : Right(Release, plug.todo[i][2]))'
      BY <2>0, Carried
    <2> QED BY <2>1, <2>2, <2>3, <2>4, <2>5, <2>6, <2>7, <2>8, <2>9, <2>10, <2>11
  <1> QED BY <1>1, <1>2, <1>3, <1>4, <1>5

LEMMA GraceKeeps ==
  ASSUME Base, Grace
  PROVE  Base' /\ (Together => Together')
  <1> USE Constants
      DEF Base, Together, Grace, GetTime, NeverStarted, QuietTick, TickUnchanged, NoTick
  <1>0. /\ tick'.pc \in {"rest", "toidle", "position", "check"}
        /\ tick'.pc = "position" =>
             Monitored /\ player.shown /\ tick'.got = player.pos /\ tick'.play = player.play
    BY DEF TypeOK, Ticks
  <1>8. UNCHANGED <<player, call, asked, plug>>
    OBVIOUS
  <1>1. TypeOK'
    <2>1. tick' \in Ticks
      <3>1. player.pos \in Positions /\ player.play \in Plays \cup {0} /\ tick \in Ticks
        BY Carried DEF TypeOK, Players
      <3>2. \A pc \in {"rest", "toidle"} : [NoTick EXCEPT !.pc = pc] \in Ticks
        BY DEF NoTick, Ticks
      <3>3. [[tick EXCEPT !.got = player.pos, !.play = player.play] EXCEPT !.pc = "position"]
              \in Ticks
        BY <3>1 DEF Ticks
      <3>4. [tick EXCEPT !.pc = "check"] \in Ticks
        BY <3>1 DEF Ticks
      <3>5. \/ tick' = [NoTick EXCEPT !.pc = "rest"] \/ tick' = [NoTick EXCEPT !.pc = "toidle"]
            \/ tick' = [[tick EXCEPT !.got = player.pos, !.play = player.play]
                         EXCEPT !.pc = "position"]
            \/ tick' = [tick EXCEPT !.pc = "check"]
        OBVIOUS
      <3> HIDE DEF Grace, QuietTick, NoTick
      <3> QED BY <3>2, <3>3, <3>4, <3>5
    <2> QED BY <2>1 DEF TypeOK
  <1>2. InTheMiddle'
    BY <1>8 DEF InTheMiddle
  <1>3. KodiWasThere'
    BY DEF TypeOK, Players, Positions, InTheMiddle, KodiWasThere, Larger
  <1>4. Together => Unmixed'
    <2>1. UNCHANGED <<events, mon, props, rel, overlap, mixed>>
      OBVIOUS
    <2>2. player.shown => player.play # 0
      BY DEF InTheMiddle
    <2> HIDE DEF Grace
    <2> QED BY <1>0, <1>8, <2>1, <2>2 DEF Unmixed, OnePlay, Monitored
  <1>5. Together => CarriedRight'
    <2> SUFFICES ASSUME Together PROVE CarriedRight'
      OBVIOUS
    <2> USE DEF CarriedRight, InReach, Release, Right, Told
    <2>0. CarriedRight
      OBVIOUS
    <2>1. InReach(store)'
      BY <2>0, Carried
    <2>2. InReach(plug.buf)'
      BY <2>0, Carried
    <2>3. InReach(call.buf)'
      BY <2>0, Carried
    <2>4. (\A i \in 1 .. Len(events) :
             events[i].kind = "seek" => Told(events[i].of, events[i].pos))'
      BY <2>0, Carried
    <2>5. (mon.play # 0 => Right(rel[mon.play], mon.pos))'
      BY <2>0, Carried
    <2>6. (props.play # 0 => Right(rel[props.play], props.pos))'
      BY <2>0, Carried
    <2>7. (tick.pc = "position" => Told(tick.play, tick.got))'
      <3>1. player.shown => player.play # 0 /\ player.play \in Plays
        BY DEF InTheMiddle, TypeOK, Players
      <3>2. UNCHANGED <<reached, rel>>
        OBVIOUS
      <3> HIDE DEF Grace
      <3> QED BY <1>0, <3>1, <3>2 DEF KodiWasThere
    <2>8. (tick.pc = "wait" /\ tick.play # 0 => Right(rel[tick.play], tick.got))'
      BY <1>0
    <2>9. (call.pc \in {"read", "write"} => Right(call.key[1], call.pos))'
      BY <2>0, Carried
    <2>10. (asked # 0 => Right(Release, plug.scrub) /\ Right(Release, plug.start))'
      BY <2>0, Carried
    <2>11. (asked # 0 => \A i \in 1 .. Len(plug.todo) : Right(Release, plug.todo[i][2]))'
      BY <2>0, Carried
    <2> QED BY <2>1, <2>2, <2>3, <2>4, <2>5, <2>6, <2>7, <2>8, <2>9, <2>10, <2>11
  <1> QED BY <1>1, <1>2, <1>3, <1>4, <1>5

LEMMA SetPositionKeeps ==
  ASSUME Base, SetPosition
  PROVE  Base' /\ (Together => Together')
  <1> USE Constants
      DEF Base, Together, SetPosition, QuietTick, TickUnchanged, NoTick
  <1>0. /\ mon' = [mon EXCEPT !.pos = tick.got] /\ tick'.pc = "check"
        /\ mixed' = IF mon.play # 0 /\ rel[mon.play] # rel[tick.play]
                    THEN mixed \cup {rel[mon.play]} ELSE mixed
        /\ mon'.play = mon.play /\ mon'.st = mon.st /\ mon'.pos = tick.got
        /\ tick.pc = "position"
    BY DEF TypeOK, Monitors, Notes
  <1>8. UNCHANGED <<player, events, bookmark, reached, overlap, props, plug, call, asked, rel,
                    store>>
    OBVIOUS
  <1>9. mixed \subseteq mixed'
    BY <1>0
  <1>1. TypeOK'
    <2>1. mon' \in Monitors
      BY <1>0 DEF TypeOK, Monitors, Ticks
    <2>2. tick' \in Ticks
      BY DEF TypeOK, Ticks, NoTick, Players
    <2>3. mixed' \subseteq Releases
      BY <1>0, Carried DEF TypeOK
    <2> QED BY <2>1, <2>2, <2>3 DEF TypeOK
  <1>2. InTheMiddle'
    BY <1>8 DEF InTheMiddle
  <1>3. KodiWasThere'
    BY <1>8 DEF KodiWasThere
  <1> HIDE DEF SetPosition
  <1>4. Together => Unmixed'
    BY <1>0, <1>8 DEF Unmixed, OnePlay, Monitored
  <1>5. Together => CarriedRight'
    <2> SUFFICES ASSUME Together PROVE CarriedRight'
      OBVIOUS
    <2> USE DEF CarriedRight, InReach, Release, Right, Told
    <2>0. CarriedRight
      OBVIOUS
    <2>1. InReach(store)'
      BY <1>0, <1>8, <1>9, <2>0
    <2>2. InReach(plug.buf)'
      BY <1>0, <1>8, <1>9, <2>0
    <2>3. InReach(call.buf)'
      BY <1>0, <1>8, <1>9, <2>0
    <2>4. (\A i \in 1 .. Len(events) :
             events[i].kind = "seek" => Told(events[i].of, events[i].pos))'
      BY <1>0, <1>8, <1>9, <2>0
    <2>5. (mon.play # 0 => Right(rel[mon.play], mon.pos))'
      BY <1>0, <1>8, <1>9, <2>0
    <2>6. (props.play # 0 => Right(rel[props.play], props.pos))'
      BY <1>0, <1>8, <1>9, <2>0
    <2>7. (tick.pc = "position" => Told(tick.play, tick.got))'
      BY <1>0, <1>8, <1>9, <2>0
    <2>8. (tick.pc = "wait" /\ tick.play # 0 => Right(rel[tick.play], tick.got))'
      BY <1>0, <1>8, <1>9, <2>0
    <2>9. (call.pc \in {"read", "write"} => Right(call.key[1], call.pos))'
      BY <1>0, <1>8, <1>9, <2>0
    <2>10. (asked # 0 => Right(Release, plug.scrub) /\ Right(Release, plug.start))'
      BY <1>0, <1>8, <1>9, <2>0
    <2>11. (asked # 0 => \A i \in 1 .. Len(plug.todo) : Right(Release, plug.todo[i][2]))'
      BY <1>0, <1>8, <1>9, <2>0
    <2> QED BY <2>1, <2>2, <2>3, <2>4, <2>5, <2>6, <2>7, <2>8, <2>9, <2>10, <2>11
  <1> QED BY <1>1, <1>2, <1>3, <1>4, <1>5

LEMMA CheckErrorKeeps ==
  ASSUME Base, CheckError
  PROVE  Base' /\ (Together => Together')
  <1> USE Constants
      DEF Base, Together, CheckError, TriesLeft, QuietTick, TickUnchanged, NoTick
  <1>0. tick'.pc \in {"rest", "toidle", "retry"}
    BY DEF TypeOK, Ticks
  <1>1. TypeOK'
    <2>1. tick' \in Ticks
      BY DEF TypeOK, Ticks, NoTick, Players
    <2> QED BY <2>1 DEF TypeOK
  <1>2. InTheMiddle'
    BY DEF TypeOK, Players, HandOvers, Monitors, Plugins, Calls, Ticks, InTheMiddle
  <1>3. KodiWasThere'
    BY DEF TypeOK, Players, Positions, InTheMiddle, KodiWasThere, Larger
  <1>4. Together => Unmixed'
    BY <1>0 DEF Unmixed, OnePlay, Monitored
  <1>5. Together => CarriedRight'
    <2> SUFFICES ASSUME Together PROVE CarriedRight'
      OBVIOUS
    <2> USE DEF CarriedRight, InReach, Release, Right, Told
    <2>0. CarriedRight
      OBVIOUS
    <2>1. InReach(store)'
      BY <2>0, Carried
    <2>2. InReach(plug.buf)'
      BY <2>0, Carried
    <2>3. InReach(call.buf)'
      BY <2>0, Carried
    <2>4. (\A i \in 1 .. Len(events) :
             events[i].kind = "seek" => Told(events[i].of, events[i].pos))'
      BY <2>0, Carried
    <2>5. (mon.play # 0 => Right(rel[mon.play], mon.pos))'
      BY <2>0, Carried
    <2>6. (props.play # 0 => Right(rel[props.play], props.pos))'
      BY <2>0 DEF NoProps
    <2>7. (tick.pc = "position" => Told(tick.play, tick.got))'
      BY <1>0
    <2>8. (tick.pc = "wait" /\ tick.play # 0 => Right(rel[tick.play], tick.got))'
      BY <1>0
    <2>9. (call.pc \in {"read", "write"} => Right(call.key[1], call.pos))'
      BY <2>0, Carried
    <2>10. (asked # 0 => Right(Release, plug.scrub) /\ Right(Release, plug.start))'
      BY <2>0, Carried
    <2>11. (asked # 0 => \A i \in 1 .. Len(plug.todo) : Right(Release, plug.todo[i][2]))'
      BY <2>0, Carried
    <2> QED BY <2>1, <2>2, <2>3, <2>4, <2>5, <2>6, <2>7, <2>8, <2>9, <2>10, <2>11
  <1> QED BY <1>1, <1>2, <1>3, <1>4, <1>5

LEMMA BeginRetryKeeps ==
  ASSUME Base, BeginRetry
  PROVE  Base' /\ (Together => Together')
  <1> USE Constants
      DEF Base, Together, BeginRetry, QuietTick, TickUnchanged, NoTick
  <1>1. TypeOK'
    <2>1. mon' \in Monitors
      <3>1. mon.tries + 1 \in Nat
        BY DEF TypeOK, Monitors
      <3>2. [mon EXCEPT !.st = "monitoring", !.tries = mon.tries + 1] \in Monitors
        BY <3>1 DEF TypeOK, Monitors
      <3> QED BY <3>2
    <2>2. tick' \in Ticks
      <3>1. mon.pos \in Positions /\ mon.play \in Plays \cup {0}
        BY DEF TypeOK, Monitors
      <3> QED BY <3>1 DEF Ticks
    <2>3. overlap' \in BOOLEAN
      BY DEF TypeOK
    <2> QED BY <2>1, <2>2, <2>3 DEF TypeOK
  <1>2. InTheMiddle'
    BY DEF TypeOK, Players, HandOvers, Monitors, Plugins, Calls, Ticks, InTheMiddle
  <1>3. KodiWasThere'
    BY DEF TypeOK, Players, Positions, InTheMiddle, KodiWasThere, Larger
  <1>4. Together => Unmixed'
    <2>1. /\ mon'.play = mon.play /\ tick'.pc = "wait"
          /\ overlap' \/ (~overlap /\ Monitored)
      BY DEF TypeOK, Monitors, Monitored
    <2>2. UNCHANGED <<player, events, asked, props, plug, mixed>>
      OBVIOUS
    <2> HIDE DEF BeginRetry
    <2> QED BY <2>1, <2>2 DEF Unmixed, OnePlay, Monitored
  <1>5. Together => CarriedRight'
    <2> SUFFICES ASSUME Together PROVE CarriedRight'
      OBVIOUS
    <2> USE DEF CarriedRight, InReach, Release, Right, Told
    <2>0. CarriedRight
      OBVIOUS
    <2>1. InReach(store)'
      BY <2>0, Carried
    <2>2. InReach(plug.buf)'
      BY <2>0, Carried
    <2>3. InReach(call.buf)'
      BY <2>0, Carried
    <2>4. (\A i \in 1 .. Len(events) :
             events[i].kind = "seek" => Told(events[i].of, events[i].pos))'
      BY <2>0, Carried
    <2>5. (mon.play # 0 => Right(rel[mon.play], mon.pos))'
      BY <2>0, Carried DEF TypeOK, Monitors
    <2>6. (props.play # 0 => Right(rel[props.play], props.pos))'
      BY <2>0, Carried
    <2>7. (tick.pc = "position" => Told(tick.play, tick.got))'
      BY <2>0, Carried
    <2>8. (tick.pc = "wait" /\ tick.play # 0 => Right(rel[tick.play], tick.got))'
      BY <2>0, Carried
    <2>9. (call.pc \in {"read", "write"} => Right(call.key[1], call.pos))'
      BY <2>0, Carried
    <2>10. (asked # 0 => Right(Release, plug.scrub) /\ Right(Release, plug.start))'
      BY <2>0, Carried
    <2>11. (asked # 0 => \A i \in 1 .. Len(plug.todo) : Right(Release, plug.todo[i][2]))'
      BY <2>0, Carried
    <2> QED BY <2>1, <2>2, <2>3, <2>4, <2>5, <2>6, <2>7, <2>8, <2>9, <2>10, <2>11
  <1> QED BY <1>1, <1>2, <1>3, <1>4, <1>5

LEMMA RelaunchKeeps ==
  ASSUME Base, Relaunch
  PROVE  Base' /\ (Together => Together')
  <1> USE Constants
      DEF Base, Together, Relaunch, Opens, QuietTick, TickUnchanged, NoTick
  <1>0. \/ /\ tick.play # 0 /\ tick.play \in Plays
           /\ player' = [play |-> tick.play, pos |-> tick.got, shown |-> FALSE]
           /\ events' \in {events, Append(events, Event("stopped"))}
           /\ reached' =
                [reached EXCEPT ![rel[tick.play]] = Larger(reached[rel[tick.play]], tick.got)]
           /\ overlap' = (overlap \/ mon.st = "idle" \/ asked # tick.play)
        \/ /\ UNCHANGED <<player, reached>> /\ (overlap => overlap')
           /\ events' \in {events, Append(events, Event("error"))}
    BY Carried
  <1>9. tick'.pc \in {"await", "toidle"}
    BY DEF TypeOK, Ticks
  <1>10. overlap' \/ ~overlap
    BY <1>0
  <1>11. UNCHANGED <<plug, call, asked, mon, props, rel, store, bookmark>>
    OBVIOUS
  <1>1. TypeOK'
    <2>1. player' \in Players
      <3>1. tick.play \in Plays \cup {0} /\ tick.got \in Positions
        BY DEF TypeOK, Ticks
      <3>2. \/ player' = player
            \/ /\ tick.play # 0
               /\ player' = [play |-> tick.play, pos |-> tick.got, shown |-> FALSE]
        OBVIOUS
      <3>3. tick.play # 0 => [play |-> tick.play, pos |-> tick.got, shown |-> FALSE] \in Players
        BY <3>1 DEF Players
      <3> QED BY <3>2, <3>3 DEF TypeOK
    <2>2. events' \in Seq(Events)
      <3>1. Event("stopped") \in Events /\ Event("error") \in Events
        BY DEF Events, Event
      <3>2. \A e \in Events : Append(events, e) \in Seq(Events)
        BY DEF TypeOK
      <3>3. events' \in {events, Append(events, Event("stopped")),
                         Append(events, Event("error"))}
        OBVIOUS
      <3>4. events \in Seq(Events)
        BY DEF TypeOK
      <3> HIDE DEF Relaunch, Opens
      <3> QED BY <3>1, <3>2, <3>3, <3>4
    <2>3. reached' \in [Releases -> Positions]
      <3>1. tick.play \in Plays \cup {0} /\ tick.got \in Positions
        BY DEF TypeOK, Ticks
      <3>2. CASE /\ tick.play # 0
                 /\ reached' = [reached EXCEPT ![rel[tick.play]] = Larger(@, tick.got)]
        <4>1. Larger(reached[rel[tick.play]], tick.got) \in Positions
          BY <3>1, <3>2 DEF TypeOK
        <4> QED BY <3>2, <4>1 DEF TypeOK
      <3> QED BY <3>1, <3>2 DEF TypeOK
    <2>4. overlap' \in BOOLEAN
      BY DEF TypeOK
    <2>5. tick' \in Ticks
      BY DEF TypeOK, Ticks, NoTick, Players
    <2> QED BY <2>1, <2>2, <2>3, <2>4, <2>5 DEF TypeOK
  <1>7. \A r \in Releases : reached[r] <= reached'[r] /\ reached'[r] \in Positions
    <2>1. reached \in [Releases -> Positions] /\ reached' \in [Releases -> Positions]
      BY <1>1 DEF TypeOK
    <2>5. \A r \in Releases : reached[r] \in Positions /\ reached[r] \in Nat
      BY <2>1
    <2>2. \A r \in Releases, at \in Positions :
            reached[r] <= Larger(reached[r], at) /\ reached[r] <= reached[r]
      BY <2>5
    <2>3. tick.play # 0 => tick.got \in Positions
      BY Carried
    <2>4. reached' = reached \/
            (tick.play # 0 /\ \A r \in Releases :
               reached'[r] \in {reached[r], Larger(reached[r], tick.got)})
      BY <1>0, <2>1
    <2> HIDE DEF Relaunch, Opens
    <2> QED BY <2>1, <2>2, <2>3, <2>4
  <1>2. InTheMiddle'
    <2>1. player'.shown => player'.play # 0
      BY <1>0 DEF InTheMiddle
    <2> QED BY <2>1, <1>11 DEF InTheMiddle
  <1>3. KodiWasThere'
    <2>1. \A r \in Releases : reached[r] <= reached'[r] /\ reached'[r] \in Positions
      BY <1>7
    <2>2. player'.play # 0 => player'.pos <= reached'[rel[player'.play]]
      <3>1. CASE UNCHANGED <<player, reached>>
        BY <3>1, <1>11 DEF KodiWasThere
      <3>2. CASE /\ tick.play # 0 /\ player'.play = tick.play /\ player'.pos = tick.got
                 /\ LET r == rel[tick.play] IN
                      reached' = [reached EXCEPT ![r] = Larger(reached[r], tick.got)]
        <4>1. rel[tick.play] \in Releases /\ tick.got \in Positions
          BY <3>2, Carried
        <4>2. reached \in [Releases -> Positions]
          BY DEF TypeOK
        <4> QED BY <3>2, <4>1, <4>2, <1>11
      <3> QED BY <1>0, <3>1, <3>2
    <2>3. \A r \in Releases : bookmark[r] \in Nat /\ reached[r] \in Nat /\ reached'[r] \in Nat
      BY <2>1, Carried
    <2>4. \A r \in Releases : bookmark[r] <= reached'[r]
      BY <2>1, <2>3 DEF KodiWasThere
    <2> QED BY <2>2, <2>4 DEF KodiWasThere
  <1>12. \A i \in 1 .. Len(events') :
           events'[i].kind = "seek" => i \in 1 .. Len(events) /\ events'[i] = events[i]
    BY <1>0, Silent DEF TypeOK
  <1>4. Together => Unmixed'
    <2> SUFFICES ASSUME Together, ~overlap' PROVE OnePlay' /\ mixed' = {}
      BY DEF Unmixed
    <2>1. OnePlay /\ mixed = {} /\ (tick.play = asked \/ player' = player)
      BY <1>0, <1>10 DEF Unmixed
    <2>2. player'.play \in {0, asked}
      BY <1>0, <2>1 DEF OnePlay
    <2>3. mixed' = mixed
      OBVIOUS
    <2> HIDE DEF Relaunch, Opens
    <2> QED BY <1>9, <1>11, <1>12, <2>1, <2>2, <2>3 DEF OnePlay, Monitored
  <1>5. Together => CarriedRight'
    <2> SUFFICES ASSUME Together PROVE CarriedRight'
      OBVIOUS
    <2> USE DEF CarriedRight, InReach, Release, Right, Told
    <2>0. CarriedRight
      BY <1>10
    <2>20. /\ reached' \in [Releases -> Positions]
           /\ \A r \in Releases : reached[r] <= reached'[r]
      BY <1>1, <1>7 DEF TypeOK
    <2>21. \A r \in Releases, q \in Positions : q <= reached[r] => q <= reached'[r]
      <3>1. Positions \subseteq Nat
        BY Constants
      <3>2. \A r \in Releases : reached[r] \in Nat /\ reached'[r] \in Nat
        BY <2>20, <3>1, Carried
      <3> QED BY <2>20, <3>1, <3>2
    <2>1. InReach(store)'
      BY <2>0, Carried, <2>21
    <2>2. InReach(plug.buf)'
      BY <2>0, Carried, <2>21
    <2>3. InReach(call.buf)'
      BY <2>0, Carried, <2>21
    <2>4. (\A i \in 1 .. Len(events) :
             events[i].kind = "seek" => Told(events[i].of, events[i].pos))'
      BY <1>12, <2>0, <2>21, Carried
    <2>5. (mon.play # 0 => Right(rel[mon.play], mon.pos))'
      BY <2>0, Carried, <2>21
    <2>6. (props.play # 0 => Right(rel[props.play], props.pos))'
      BY <2>0, Carried, <2>21
    <2>7. (tick.pc = "position" => Told(tick.play, tick.got))'
      BY <1>9
    <2>8. (tick.pc = "wait" /\ tick.play # 0 => Right(rel[tick.play], tick.got))'
      BY <1>9
    <2>9. (call.pc \in {"read", "write"} => Right(call.key[1], call.pos))'
      <3>1. call.pc \in {"read", "write"} => call.key \in Keys
        BY DEF InTheMiddle, Keys
      <3> QED BY <2>0, <2>21, <3>1, Carried
    <2>10. (asked # 0 => Right(Release, plug.scrub) /\ Right(Release, plug.start))'
      BY <2>0, Carried, <2>21
    <2>11. (asked # 0 => \A i \in 1 .. Len(plug.todo) : Right(Release, plug.todo[i][2]))'
      BY <2>0, Carried, <2>21
    <2> QED BY <2>1, <2>2, <2>3, <2>4, <2>5, <2>6, <2>7, <2>8, <2>9, <2>10, <2>11
  <1> QED BY <1>1, <1>2, <1>3, <1>4, <1>5

LEMMA AwaitStartKeeps ==
  ASSUME Base, AwaitStart
  PROVE  Base' /\ (Together => Together')
  <1> USE Constants
      DEF Base, Together, AwaitStart, QuietTick, TickUnchanged, NoTick
  <1>0. tick'.pc \in {"rest", "toidle"}
    BY DEF TypeOK, Ticks
  <1>1. TypeOK'
    <2>1. tick' \in Ticks
      BY DEF TypeOK, Ticks, NoTick, Players
    <2> QED BY <2>1 DEF TypeOK
  <1>2. InTheMiddle'
    BY DEF TypeOK, Players, HandOvers, Monitors, Plugins, Calls, Ticks, InTheMiddle
  <1>3. KodiWasThere'
    BY DEF TypeOK, Players, Positions, InTheMiddle, KodiWasThere, Larger
  <1>4. Together => Unmixed'
    BY DEF TypeOK, Players, HandOvers, Monitors, Plugins, Calls, Ticks, Unmixed, OnePlay, Monitored,
       InTheMiddle
  <1>5. Together => CarriedRight'
    <2> SUFFICES ASSUME Together PROVE CarriedRight'
      OBVIOUS
    <2> USE DEF CarriedRight, InReach, Release, Right, Told
    <2>0. CarriedRight
      OBVIOUS
    <2>1. InReach(store)'
      BY <2>0, Carried
    <2>2. InReach(plug.buf)'
      BY <2>0, Carried
    <2>3. InReach(call.buf)'
      BY <2>0, Carried
    <2>4. (\A i \in 1 .. Len(events) :
             events[i].kind = "seek" => Told(events[i].of, events[i].pos))'
      BY <2>0, Carried
    <2>5. (mon.play # 0 => Right(rel[mon.play], mon.pos))'
      BY <2>0, Carried
    <2>6. (props.play # 0 => Right(rel[props.play], props.pos))'
      BY <2>0 DEF NoProps
    <2>7. (tick.pc = "position" => Told(tick.play, tick.got))'
      BY <1>0
    <2>8. (tick.pc = "wait" /\ tick.play # 0 => Right(rel[tick.play], tick.got))'
      BY <1>0
    <2>9. (call.pc \in {"read", "write"} => Right(call.key[1], call.pos))'
      BY <2>0, Carried
    <2>10. (asked # 0 => Right(Release, plug.scrub) /\ Right(Release, plug.start))'
      BY <2>0, Carried
    <2>11. (asked # 0 => \A i \in 1 .. Len(plug.todo) : Right(Release, plug.todo[i][2]))'
      BY <2>0, Carried
    <2> QED BY <2>1, <2>2, <2>3, <2>4, <2>5, <2>6, <2>7, <2>8, <2>9, <2>10, <2>11
  <1> QED BY <1>1, <1>2, <1>3, <1>4, <1>5

LEMMA ToIdleKeeps ==
  ASSUME Base, ToIdle
  PROVE  Base' /\ (Together => Together')
  <1> USE Constants
      DEF Base, Together, ToIdle, QuietTick, TickUnchanged, NoTick
  <1>0. tick'.pc \in {"clean"}
    BY DEF TypeOK, Ticks
  <1>1. TypeOK'
    <2>1. mon' \in Monitors
      BY DEF TypeOK, Monitors, HandOvers, Ticks
    <2>2. tick' \in Ticks
      BY DEF TypeOK, Ticks, NoTick, Players
    <2> QED BY <2>1, <2>2 DEF TypeOK
  <1>2. InTheMiddle'
    BY DEF TypeOK, Players, HandOvers, Monitors, Plugins, Calls, Ticks, InTheMiddle
  <1>3. KodiWasThere'
    BY DEF TypeOK, Players, Positions, InTheMiddle, KodiWasThere, Larger
  <1>4. Together => Unmixed'
    BY DEF TypeOK, Players, HandOvers, Monitors, Plugins, Calls, Ticks, Unmixed, OnePlay, Monitored,
       InTheMiddle
  <1>5. Together => CarriedRight'
    <2> SUFFICES ASSUME Together PROVE CarriedRight'
      OBVIOUS
    <2> USE DEF CarriedRight, InReach, Release, Right, Told
    <2>0. CarriedRight
      OBVIOUS
    <2>1. InReach(store)'
      BY <2>0, Carried
    <2>2. InReach(plug.buf)'
      BY <2>0, Carried
    <2>3. InReach(call.buf)'
      BY <2>0, Carried
    <2>4. (\A i \in 1 .. Len(events) :
             events[i].kind = "seek" => Told(events[i].of, events[i].pos))'
      BY <2>0, Carried
    <2>5. (mon.play # 0 => Right(rel[mon.play], mon.pos))'
      BY <2>0, Carried
    <2>6. (props.play # 0 => Right(rel[props.play], props.pos))'
      BY <2>0 DEF NoProps
    <2>7. (tick.pc = "position" => Told(tick.play, tick.got))'
      BY <1>0
    <2>8. (tick.pc = "wait" /\ tick.play # 0 => Right(rel[tick.play], tick.got))'
      BY <1>0
    <2>9. (call.pc \in {"read", "write"} => Right(call.key[1], call.pos))'
      BY <2>0, Carried
    <2>10. (asked # 0 => Right(Release, plug.scrub) /\ Right(Release, plug.start))'
      BY <2>0, Carried
    <2>11. (asked # 0 => \A i \in 1 .. Len(plug.todo) : Right(Release, plug.todo[i][2]))'
      BY <2>0, Carried
    <2> QED BY <2>1, <2>2, <2>3, <2>4, <2>5, <2>6, <2>7, <2>8, <2>9, <2>10, <2>11
  <1> QED BY <1>1, <1>2, <1>3, <1>4, <1>5

LEMMA CleanUpKeeps ==
  ASSUME Base, CleanUp
  PROVE  Base' /\ (Together => Together')
  <1> USE Constants
      DEF Base, Together, CleanUp, NoProps, QuietTick, TickUnchanged, NoTick
  <1>0. tick'.pc \in {"rest"}
    BY DEF TypeOK, Ticks
  <1>1. TypeOK'
    <2>1. props' \in HandOvers
      BY DEF TypeOK, HandOvers, NoProps, Plugins
    <2>2. flag' \in BOOLEAN
      BY DEF TypeOK
    <2>3. tick' \in Ticks
      BY DEF TypeOK, Ticks, NoTick, Players
    <2> QED BY <2>1, <2>2, <2>3 DEF TypeOK
  <1>2. InTheMiddle'
    BY DEF TypeOK, Players, HandOvers, Monitors, Plugins, Calls, Ticks, InTheMiddle
  <1>3. KodiWasThere'
    BY DEF TypeOK, Players, Positions, InTheMiddle, KodiWasThere, Larger
  <1>4. Together => Unmixed'
    BY DEF TypeOK, Players, HandOvers, Monitors, Plugins, Calls, Ticks, Unmixed, OnePlay, Monitored,
       InTheMiddle
  <1>5. Together => CarriedRight'
    <2> SUFFICES ASSUME Together PROVE CarriedRight'
      OBVIOUS
    <2> USE DEF CarriedRight, InReach, Release, Right, Told
    <2>0. CarriedRight
      OBVIOUS
    <2>1. InReach(store)'
      BY <2>0, Carried
    <2>2. InReach(plug.buf)'
      BY <2>0, Carried
    <2>3. InReach(call.buf)'
      BY <2>0, Carried
    <2>4. (\A i \in 1 .. Len(events) :
             events[i].kind = "seek" => Told(events[i].of, events[i].pos))'
      BY <2>0, Carried
    <2>5. (mon.play # 0 => Right(rel[mon.play], mon.pos))'
      BY <2>0, Carried
    <2>6. (props.play # 0 => Right(rel[props.play], props.pos))'
      BY <2>0 DEF NoProps
    <2>7. (tick.pc = "position" => Told(tick.play, tick.got))'
      BY <1>0
    <2>8. (tick.pc = "wait" /\ tick.play # 0 => Right(rel[tick.play], tick.got))'
      BY <1>0
    <2>9. (call.pc \in {"read", "write"} => Right(call.key[1], call.pos))'
      BY <2>0, Carried
    <2>10. (asked # 0 => Right(Release, plug.scrub) /\ Right(Release, plug.start))'
      BY <2>0, Carried
    <2>11. (asked # 0 => \A i \in 1 .. Len(plug.todo) : Right(Release, plug.todo[i][2]))'
      BY <2>0, Carried
    <2> QED BY <2>1, <2>2, <2>3, <2>4, <2>5, <2>6, <2>7, <2>8, <2>9, <2>10, <2>11
  <1> QED BY <1>1, <1>2, <1>3, <1>4, <1>5

-----------------------------------------------------------------------------
LEMMA Starts == Init => Inv
  <1> SUFFICES ASSUME Init PROVE Inv
    OBVIOUS
  <1> USE Constants DEF Init
  <1>1. PICK inKodi \in {0, 1}, inFile \in {0, 1} :
          /\ bookmark = [r \in Releases |-> IF r = First THEN inKodi ELSE 0]
          /\ store = [NoStore EXCEPT ![<<First, "url">>] = inFile]
    OBVIOUS
  <1>2. inKodi \in Positions /\ inFile \in Positions
    <2>1. 0 \in Positions /\ 1 \in Positions
      BY BoundsAssumption DEF Positions
    <2> QED BY <2>1
  <1>3. bookmark \in [Releases -> Positions] /\ store \in Files
    BY <1>1, <1>2 DEF Files
  <1>4. \A r \in Releases : <<r, "url">> \in Keys /\ <<r, "release">> \in Keys
    BY DEF Keys
  <1>5. /\ reached \in [Releases -> Positions]
        /\ \A r \in Releases : bookmark[r] <= reached[r] /\ store[<<r, "url">>] <= reached[r]
    BY <1>3, <1>4 DEF Files
  <1>6. NoPlugin \in Plugins
    BY DEF NoPlugin, Plugins, Changes
  <1>7. /\ NoPlay \in Players /\ NoProps \in HandOvers /\ NoCall \in Calls /\ NoTick \in Ticks
        /\ mon \in Monitors
    BY DEF NoPlay, Players, NoProps, HandOvers, NoCall, Calls, NoTick, Ticks, Monitors
  <1>8. TypeOK
    <2>1. rel \in [Plays -> Releases] /\ events \in Seq(Events) /\ asked \in Plays \cup {0}
      OBVIOUS
    <2>2. /\ plug \in Plugins /\ call \in Calls /\ tick \in Ticks /\ props \in HandOvers
          /\ player \in Players
      BY <1>6, <1>7
    <2> QED BY <1>3, <1>5, <1>7, <2>1, <2>2 DEF TypeOK
  <1>9. InTheMiddle
    BY DEF InTheMiddle, NoPlugin, NoCall, NoPlay
  <1>10. KodiWasThere
    BY <1>5 DEF KodiWasThere, NoPlay
  <1>11. OnePlay
    BY DEF Unmixed, OnePlay, Monitored, NoPlay, NoProps, NoPlugin
  <1>12. CarriedRight
    <2>1. InReach(store)
      <3>1. \A k \in Keys : k[1] \in Releases /\ (k = <<k[1], "url">> \/ store[k] = 0)
        BY <1>1, <1>3, <1>4 DEF Keys, NoStore, Files
      <3>2. \A r \in Releases : 0 <= reached[r]
        <4>1. \A q \in Positions : 0 <= q
          OBVIOUS
        <4> QED BY <1>5, <4>1
      <3> QED BY <1>5, <3>1, <3>2 DEF InReach, Right
    <2>2. InReach(NoStore)
      BY <1>5, Nothing DEF InReach, Right
    <2> QED BY <2>1, <2>2 DEF CarriedRight, NoPlugin, NoCall, NoProps, NoTick
  <1> QED BY <1>8, <1>9, <1>10, <1>11, <1>12 DEF Inv, Base, Together, Unmixed

LEMMA Stays ==
  ASSUME Base, UNCHANGED vars
  PROVE  Base' /\ (Together => Together')
  BY DEF Base, Together, vars, kodi, service, history, TypeOK, InTheMiddle, KodiWasThere, OnePlay,
         Monitored, Unmixed, CarriedRight, InReach, Right, Told, Release

LEMMA Step ==
  ASSUME Base, [Next]_vars
  PROVE  Base' /\ (Together => Together')
  <1>1. CASE Kodi
    BY <1>1, ShowsPicturesKeeps, PlaysOnKeeps, SeeksKeeps, StopsPlayingKeeps, FailsKeeps DEF Kodi
  <1>2. CASE PluginThread
    BY <1>2, AskPlayKeeps, ScrubKeeps, PlayFailsKeeps, LookUpKeeps, PluginReadsKeeps,
       PluginWritesKeeps, ChooseKeeps, SetPropsKeeps, SetActiveKeeps, HandOverKeeps
    DEF PluginThread
  <1>3. CASE Callbacks
    BY <1>3, CallbackKeeps, CallReadsKeeps, CallWritesKeeps, CallCleansKeeps DEF Callbacks
  <1>4. CASE Tick
    BY <1>4, CheckActiveKeeps, DropPropsKeeps, GraceKeeps, SetPositionKeeps, CheckErrorKeeps,
       BeginRetryKeeps, RelaunchKeeps, AwaitStartKeeps, ToIdleKeeps, CleanUpKeeps DEF Tick
  <1>5. CASE UNCHANGED vars
    BY <1>5, Stays
  <1> QED BY <1>1, <1>2, <1>3, <1>4, <1>5 DEF Next

LEMMA Invariance == Spec => []Inv
  <1>1. Inv /\ [Next]_vars => Inv'
    BY Step DEF Inv
  <1> QED BY <1>1, Starts, PTL DEF Spec

-----------------------------------------------------------------------------
(* What the runs check, for every value of the constants. *)

\* Every thread's state, and every position in Kodi, in the file, in the window
\* properties and on its way between them, stays one the code can hold; Kodi's bookmarks and
\* the position it plays at are none that was not played, overlapping plays or not.
THEOREM TypeCorrect == Spec => [](TypeOK /\ KodiWasThere)
  <1>1. Init => Base
    BY Starts DEF Inv
  <1>2. Base /\ [Next]_vars => Base'
    BY Step
  <1>3. Base => TypeOK /\ KodiWasThere
    BY DEF Base
  <1> QED BY <1>1, <1>2, <1>3, PTL DEF Spec

\* The position resume.json keeps for a release is never further than it was played or
\* known at, whatever hand-overs, callbacks, service loop and the two processes that write
\* the file do in between: unless its monitor was told where another one's play is, which
\* takes a play asked for before the last was through, or a retry of a play that is over.
THEOREM KeptPositionIsTrue == Spec => []KeptWasReached
  <1>1. Inv => KeptWasReached
    <2> SUFFICES ASSUME Inv PROVE KeptWasReached
      OBVIOUS
    <2>1. \A r \in Releases : <<r, "release">> \in Keys /\ <<r, "release">>[1] = r
      BY DEF Keys
    <2>2. InReach(store) /\ (mixed # {} => overlap)
      BY DEF Inv, Together, Unmixed, CarriedRight
    <2> QED BY <2>1, <2>2 DEF KeptWasReached, InReach, Right
  <1> QED BY <1>1, Invariance, PTL
==============================================================================
