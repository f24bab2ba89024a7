-------------------------- MODULE HlsProducerProofs --------------------------
(***************************************************************************)
(* Proofs about the fMP4 HLS producer, for any handlers, any length of the *)
(* film and any number of restarts: what is served and cached was whole,   *)
(* and the producer lives as its session assumes.                          *)
(***************************************************************************)
EXTENDS HlsProducer, TLAPS

WantsInit == {"init", "cache", "dead", "spawn", "again", "reply"}
WantsSegment == {"gate", "ready", "snap", "look", "head", "open"}
PCs == WantsInit \cup WantsSegment \cup {"idle", "send"}
Wants == Segments \cup {InitSeg}
Requests == [pc : PCs, want : Wants, snap : Nat, file : File, respawned : BOOLEAN,
             missed : BOOLEAN]

ProducerTypes ==
  /\ proc \in {"none", "running", "ok", "failed"}
  /\ start \in Segments /\ spawned \in 0 .. MaxSpawns
  /\ initReady \in BOOLEAN /\ closed \in BOOLEAN
  /\ canonical \in File /\ init \in File /\ segs \in [Segments -> File]
  /\ at \in Wants
  /\ ppc \in {"spawn", "await", "ready", "refused"} /\ cpc \in {"open", "kill", "closed"}
  /\ asked \in 0 .. MaxAsked /\ deaths \in 0 .. MaxDeaths

TypeOK == ProducerTypes /\ hs \in [Handlers -> Requests]

\* A request is about the file its states are for.
RightFile ==
  \A h \in Handlers :
    /\ hs[h].pc \in WantsInit => hs[h].want = InitSeg
    /\ hs[h].pc \in WantsSegment => hs[h].want \in Segments
    /\ hs[h].pc = "spawn" => hs[h].snap \in Segments

\* No request is served before prepare() is through or after close(); until then
\* ffmpeg has only been started at segment 0.
ServedInLife ==
  /\ closed <=> cpc # "open"
  /\ closed \/ ppc # "ready" => \A h \in Handlers : hs[h].pc = "idle"
  /\ ppc # "ready" => start = 0
  /\ cpc = "closed" => ~Alive /\ ~Exists(init)

\* What the running ffmpeg, or the last one, has left: a whole init.mp4 once it is
\* past it, then whole segments from its start up to where it is.
Current(f) == Exists(f) /\ f.gen = spawned
Whole(f) == Current(f) /\ f.whole
WritesInOrder ==
  /\ spawned = 0 => at = InitSeg /\ ~Alive
  /\ \A n \in Segments : segs[n].gen <= spawned
  /\ at # InitSeg => start <= at
  /\ at # InitSeg /\ cpc # "closed" =>
       Whole(init) /\ \A n \in start .. (at - 1) : Whole(segs[n])
  /\ \A n \in Segments : Current(segs[n]) => start <= n /\ n <= at
  /\ Exists(segs[start]) => at # InitSeg
  /\ proc = "ok" /\ cpc # "closed" /\ Current(segs[Last]) => Whole(segs[Last])
  /\ proc = "failed" => deaths > 0

\* What a handler concluded from the directory holds until the next restart, which
\* it is told of.
PastInit == at # InitSeg
Excused(n) == (n = Last /\ deaths > 0) \/ n = start - 1
GoodLook(r) ==
  r.respawned \/
    /\ r.pc = "cache" => PastInit
    /\ r.pc = "reply" => PastInit \/ Exists(canonical)
    /\ r.pc = "look" => r.snap = spawned
    /\ r.pc = "open" =>
         Excused(r.want) \/ (Whole(segs[r.want]) /\ (r.want < at \/ proc = "ok"))
    /\ r.pc = "send" /\ r.want \in Segments => Excused(r.want) \/ Whole(r.file)
    /\ r.pc = "send" /\ r.want = InitSeg =>
         r.file.whole \/ (Exists(canonical) /\ r.file = canonical)
LooksAreGood == \A h \in Handlers : GoodLook(hs[h])

Inv == TypeOK /\ RightFile /\ ServedInLife /\ WritesInOrder /\ LooksAreGood

-----------------------------------------------------------------------------
(* The types. *)

\* A request with some of its fields set is a request.
LEMMA FieldTypes ==
  ASSUME NEW r \in Requests, NEW pc \in PCs, NEW snap \in Nat, NEW f \in File, NEW b \in BOOLEAN
  PROVE  /\ [r EXCEPT !.pc = pc] \in Requests
         /\ [r EXCEPT !.respawned = b] \in Requests
         /\ [r EXCEPT !.pc = pc, !.snap = snap] \in Requests
         /\ [r EXCEPT !.pc = pc, !.file = f] \in Requests
         /\ [r EXCEPT !.pc = pc, !.respawned = b] \in Requests
         /\ [r EXCEPT !.pc = pc, !.snap = snap, !.respawned = b] \in Requests
         /\ [r EXCEPT !.file.whole = b] \in Requests
         /\ [r EXCEPT !.missed = b] \in Requests
<1>1. [r.file EXCEPT !.whole = b] \in File
  BY DEF Requests, File
<1> QED  BY <1>1 DEF Requests

\* A handler that takes a step stays a request, and the others are untouched.
LEMMA OneMoves ==
  ASSUME TypeOK, NEW h \in Handlers, NEW r \in Requests, hs' = [hs EXCEPT ![h] = r]
  PROVE  hs' \in [Handlers -> Requests]
BY DEF TypeOK

\* The states by name, and what the constants' types say.
LEMMA Places ==
  /\ {"idle", "init", "cache", "dead", "spawn", "again", "reply"} \subseteq PCs
  /\ {"gate", "ready", "snap", "look", "head", "open", "send"} \subseteq PCs
  /\ Absent \in File /\ 0 \in Segments /\ Segments \subseteq Nat
  /\ Idle \in Requests
<1>1. Absent \in File /\ 0 \in Segments /\ Segments \subseteq Nat
  BY SizesAssumption DEF Absent, File, Segments
<1>2. "idle" \in PCs
  BY DEF PCs
<1> QED  BY <1>1, <1>2 DEF PCs, WantsInit, WantsSegment, Idle, Requests, Wants

\* Every step keeps the producer's variables in their sets.
LEMMA ProducerTypesInv ==
  ASSUME Inv, [Next]_vars
  PROVE  ProducerTypes'
<1> USE SizesAssumption, Places DEF Inv, TypeOK, ProducerTypes, vars, producerVars
<1>1. ASSUME NEW n \in Segments, EnsureHeadedFor(n), ppc' \in {"spawn", "await", "ready",
     "refused"},
             UNCHANGED <<cpc, asked>>
      PROVE  ProducerTypes'
  <2>1. [segs EXCEPT ![n] = Absent] \in [Segments -> File]
    OBVIOUS
  <2>2. InitSeg \in Wants
    BY DEF Wants
  <2>3. CASE Restart(n)
    <3>1. proc' \in {"none", "running"} /\ deaths' \in 0 .. MaxDeaths
      BY <2>3 DEF Restart
    <3>2. start' \in Segments /\ spawned' = spawned + 1 /\ spawned < MaxSpawns /\ initReady' = FALSE
      BY <2>3, SMTT(30) DEF Restart
    <3>3. segs' \in [Segments -> File] /\ at' \in Wants /\ UNCHANGED init
      BY <2>1, <2>2, <2>3 DEF Restart, Unlinked
    <3>4. UNCHANGED <<closed, canonical>>
      BY <1>1 DEF EnsureHeadedFor
    <3>5. spawned' \in 0 .. MaxSpawns
      BY <3>2
    <3> QED  BY <1>1, <3>1, <3>2, <3>3, <3>4, <3>5
  <2> QED  BY <1>1, <2>3 DEF EnsureHeadedFor
<1>2. ASSUME WriteInit PROVE ProducerTypes'
  <2>1. [gen |-> spawned, whole |-> FALSE] \in File /\ [gen |-> spawned, whole |-> TRUE] \in File
    BY DEF File
  <2>2. init' \in File /\ at' \in Wants
    BY <1>2, <2>1 DEF WriteInit, Wants
  <2> QED  BY <1>2, <2>2 DEF WriteInit, FFmpegUnchanged
<1>3. ASSUME OpenSegment PROVE ProducerTypes'
  <2>1. [gen |-> spawned, whole |-> FALSE] \in File
    BY DEF File
  <2> QED  BY <1>3, <2>1 DEF OpenSegment, FFmpegUnchanged
<1>4. ASSUME CloseSegment PROVE ProducerTypes'
  <2>1. [segs[at] EXCEPT !.whole = TRUE] \in File
    BY <1>4 DEF CloseSegment, File
  <2>2. segs' \in [Segments -> File]
    BY <1>4, <2>1 DEF CloseSegment
  <2>3. at' \in Wants /\ proc' \in {"none", "running", "ok", "failed"}
    BY <1>4 DEF CloseSegment, Wants, Segments
  <2> QED  BY <1>4, <2>2, <2>3 DEF CloseSegment, FFmpegUnchanged
<1>5. ASSUME FFmpegFails PROVE ProducerTypes'
  BY <1>5 DEF FFmpegFails, FFmpegUnchanged
<1>13. ASSUME FFmpegEndsEarly PROVE ProducerTypes'
  <2>1. init' \in File
    <3>1. (init.whole \/ init.gen = spawned) \in BOOLEAN
      BY Zenon
    <3>2. init' = [init EXCEPT !.whole = init.whole \/ init.gen = spawned]
      BY <1>13 DEF FFmpegEndsEarly
    <3> QED  BY <3>1, <3>2 DEF File
  <2>2. segs' \in [Segments -> File]
    <3>1. CASE segs' = segs
      BY <3>1
    <3>2. CASE at \in Segments /\ segs' = [segs EXCEPT ![at].whole = TRUE]
      <4>1. [segs[at] EXCEPT !.whole = TRUE] \in File
        BY <3>2 DEF File
      <4> QED  BY <3>2, <4>1
    <3> QED  BY <1>13, <3>1, <3>2 DEF FFmpegEndsEarly
  <2>3. /\ proc' = "ok" /\ deaths' \in 0 .. MaxDeaths
        /\ UNCHANGED <<at, start, spawned, initReady, closed, canonical, ppc, cpc, asked>>
    BY <1>13 DEF FFmpegEndsEarly, FFmpegUnchanged
  <2> QED  BY <2>1, <2>2, <2>3
<1>6. ASSUME PrepareSpawn PROVE ProducerTypes'
  BY <1>1, <1>6 DEF PrepareSpawn
<1>7. ASSUME PrepareAwait \/ Close \/ Kill PROVE ProducerTypes'
  BY <1>7 DEF PrepareAwait, Close, Kill
<1>8. ASSUME NEW h \in Handlers, NEW want \in Wants, Request(h, want) PROVE ProducerTypes'
  BY <1>8 DEF Request
<1>9. ASSUME NEW h \in Handlers, SpawnForInit(h) PROVE ProducerTypes'
  BY <1>1, <1>9 DEF SpawnForInit, RightFile
<1>10. ASSUME NEW h \in Handlers, Head(h) PROVE ProducerTypes'
  BY <1>1, <1>10 DEF Head, RightFile, WantsSegment
<1>11. ASSUME NEW h \in Handlers, CacheInit(h) \/ InitTestAgain(h) \/ GateReady(h)
       PROVE ProducerTypes'
  BY <1>11 DEF CacheInit, InitTestAgain, GateReady
<1>12. CASE HandlerOnly \/ UNCHANGED vars
  BY <1>12 DEF HandlerOnly
<1> QED
  BY <1>2, <1>3, <1>4, <1>5, <1>6, <1>7, <1>8, <1>9, <1>10, <1>11, <1>12, <1>13
  DEF Next, FFmpeg, Wait, Wants, InitTest, SpawnIfDead, ReplyInit, Gate, Snapshot, Look, Open, Sent,
      GiveUp

\* Every step keeps the handlers' requests in their set.
LEMMA RequestsInv ==
  ASSUME Inv, [Next]_vars
  PROVE  hs' \in [Handlers -> Requests]
<1> USE SizesAssumption, Places DEF Inv, TypeOK, ProducerTypes
<1>1. ASSUME NEW h \in Handlers, NEW pc \in PCs, Goto(h, pc)
      PROVE  hs' \in [Handlers -> Requests]
  BY <1>1, FieldTypes DEF Goto
<1>2. ASSUME NEW h \in Handlers, NEW pc \in PCs, GotoAfterEnsure(h, pc)
      PROVE  hs' \in [Handlers -> Requests]
  <2>1. [hs[h] EXCEPT !.pc = pc, !.snap = 0, !.respawned = FALSE] \in Requests
    BY FieldTypes
  <2>2. \A g \in Handlers :
          [hs[g] EXCEPT !.respawned = @ \/ (hs[g] # Idle /\ spawned' # spawned)] \in Requests
    <3> TAKE g \in Handlers
    <3>1. (hs[g].respawned \/ (hs[g] # Idle /\ spawned' # spawned)) \in BOOLEAN
      BY Zenon
    <3> QED  BY <3>1, FieldTypes
  <2> QED  BY <1>2, <2>1, <2>2 DEF GotoAfterEnsure
<1>3. ASSUME OpenSegment PROVE hs' \in [Handlers -> Requests]
  <2>1. \A h \in Handlers : [hs[h] EXCEPT !.file.whole = FALSE] \in Requests
    BY FieldTypes
  <2> QED  BY <1>3, <2>1 DEF OpenSegment
<1>4. ASSUME NEW h \in Handlers, NEW want \in Wants, Request(h, want)
      PROVE  hs' \in [Handlers -> Requests]
  <2>1. [pc |-> IF want = InitSeg THEN "init" ELSE "gate", want |-> want, snap |-> 0,
         file |-> Absent, respawned |-> FALSE, missed |-> FALSE] \in Requests
    BY DEF Requests
  <2> QED  BY <1>4, <2>1 DEF Request
<1>5. ASSUME NEW h \in Handlers, InitTest(h) PROVE hs' \in [Handlers -> Requests]
  <2>1. [hs[h] EXCEPT !.pc = IF InitFileComplete THEN "cache" ELSE "dead", !.respawned = FALSE]
           \in Requests
    BY FieldTypes
  <2> QED  BY <1>5, <2>1 DEF InitTest
<1>6. ASSUME NEW h \in Handlers, SpawnIfDead(h) PROVE hs' \in [Handlers -> Requests]
  <2>1. [hs[h] EXCEPT !.pc = "again"] \in Requests
        /\ [hs[h] EXCEPT !.pc = "spawn", !.snap = start] \in Requests
    BY FieldTypes
  <2> QED  BY <1>6, <2>1 DEF SpawnIfDead
<1>7. ASSUME NEW h \in Handlers, ReplyInit(h) PROVE hs' \in [Handlers -> Requests]
  <2>1. [hs[h] EXCEPT !.pc = "send", !.file = IF Exists(canonical) THEN canonical ELSE init]
           \in Requests
    BY FieldTypes
  <2> QED  BY <1>7, <2>1 DEF ReplyInit
<1>8. ASSUME NEW h \in Handlers, Snapshot(h) PROVE hs' \in [Handlers -> Requests]
  <2>1. spawned \in Nat
    OBVIOUS
  <2>2. [hs[h] EXCEPT !.pc = "look", !.snap = spawned, !.respawned = FALSE] \in Requests
    BY <2>1, FieldTypes
  <2> QED  BY <1>8, <2>2 DEF Snapshot
<1>9. ASSUME NEW h \in Handlers, Open(h) PROVE hs' \in [Handlers -> Requests]
  <2>1. hs[h].want \in Segments
    BY <1>9 DEF Open, RightFile, WantsSegment
  <2>2. [hs[h] EXCEPT !.pc = "send", !.file = segs[hs[h].want]] \in Requests
    BY <2>1, FieldTypes
  <2> QED  BY <1>9, <2>2 DEF Open
<1>10. ASSUME NEW h \in Handlers, Sent(h) \/ GiveUp(h) PROVE hs' \in [Handlers -> Requests]
  BY <1>10 DEF Sent, GiveUp
<1>11. CASE UNCHANGED hs
  BY <1>11
<1>12. ASSUME CloseSegment PROVE hs' \in [Handlers -> Requests]
  <2>1. \A h \in Handlers : [hs[h] EXCEPT !.missed = TRUE] \in Requests
    BY FieldTypes
  <2> QED  BY <1>12, <2>1 DEF CloseSegment
<1> QED
  BY <1>1, <1>2, <1>3, <1>4, <1>5, <1>6, <1>7, <1>8, <1>9, <1>10, <1>11, <1>12
  DEF Next, FFmpeg, Wait, Wants, WriteInit, FFmpegFails, FFmpegEndsEarly,
    PrepareSpawn, PrepareAwait,
      Close, Kill, CacheInit, SpawnForInit, InitTestAgain, Gate, GateReady, Look, Head, vars

\* After a restart, the handler that asked for it goes on, and all others under way are
\* told.
LEMMA AfterEnsure ==
  ASSUME TypeOK, NEW h \in Handlers, NEW pc \in PCs, GotoAfterEnsure(h, pc), NEW g \in Handlers
  PROVE  /\ hs'[g].pc = IF g = h THEN pc ELSE hs[g].pc
         /\ hs'[g].want = hs[g].want /\ hs'[g].file = hs[g].file
         /\ g # h => hs'[g].snap = hs[g].snap
         /\ g = h => hs'[g].snap = 0
         /\ g # h /\ (hs[g].respawned \/ (hs[g].pc # "idle" /\ spawned' # spawned)) =>
              hs'[g].respawned
<1>1. hs[g] \in Requests
  BY DEF TypeOK
<1>2. CASE g = h
  BY <1>1, <1>2 DEF GotoAfterEnsure, Requests
<1>3. CASE g # h
  <2>1. hs'[g] = [hs[g] EXCEPT !.respawned = @ \/ (hs[g] # Idle /\ spawned' # spawned)]
    BY <1>3 DEF GotoAfterEnsure
  <2>2. hs'[g].respawned = (hs[g].respawned \/ (hs[g] # Idle /\ spawned' # spawned))
    BY <1>1, <2>1 DEF Requests
  <2>3. hs[g].pc # "idle" => hs[g] # Idle
    BY DEF Idle
  <2> QED  BY <1>1, <1>3, <2>1, <2>2, <2>3 DEF Requests
<1> QED  BY <1>2, <1>3

\* When ffmpeg opens a segment, requests keep all but, perhaps, the end of their file.
LEMMA AfterOpen ==
  ASSUME TypeOK, OpenSegment, NEW g \in Handlers
  PROVE  /\ hs'[g].pc = hs[g].pc /\ hs'[g].want = hs[g].want /\ hs'[g].snap = hs[g].snap
         /\ hs'[g].respawned = hs[g].respawned /\ hs'[g].file.gen = hs[g].file.gen
         /\ hs'[g].file = hs[g].file
            \/ (hs[g].want = at /\ hs[g].pc = "send" /\ hs[g].file.gen = segs[at].gen)
BY DEF OpenSegment, TypeOK, Requests, File

\* When ffmpeg finishes a segment, requests keep all the invariant looks at.
LEMMA AfterClose ==
  ASSUME TypeOK, CloseSegment, NEW g \in Handlers
  PROVE  /\ hs'[g].pc = hs[g].pc /\ hs'[g].want = hs[g].want /\ hs'[g].snap = hs[g].snap
         /\ hs'[g].respawned = hs[g].respawned /\ hs'[g].file = hs[g].file
BY DEF CloseSegment, TypeOK, Requests

\* Every step keeps a request about the file its state is for.
LEMMA RightFileInv ==
  ASSUME Inv, [Next]_vars
  PROVE  RightFile'
<1> USE SizesAssumption, Places DEF Inv, RightFile, WantsInit, WantsSegment
<1>1. ASSUME NEW h \in Handlers, NEW want \in Wants, Request(h, want) PROVE RightFile'
  BY <1>1 DEF Request, Wants, TypeOK
<1>2. ASSUME NEW h \in Handlers, InitTest(h) \/ ReplyInit(h) PROVE RightFile'
  BY <1>2 DEF InitTest, ReplyInit, TypeOK, Requests
<1>3. ASSUME NEW h \in Handlers, SpawnIfDead(h) PROVE RightFile'
  BY <1>3 DEF SpawnIfDead, TypeOK, ProducerTypes, Requests
<1>4. ASSUME NEW h \in Handlers, SpawnForInit(h) PROVE RightFile'
  <2>1. hs[h].pc = "spawn" /\ GotoAfterEnsure(h, "again")
    BY <1>4 DEF SpawnForInit
  <2> QED  BY <2>1, AfterEnsure
<1>5. ASSUME NEW h \in Handlers, Head(h) PROVE RightFile'
  <2>1. hs[h].pc = "head" /\ GotoAfterEnsure(h, "gate")
    BY <1>5 DEF Head
  <2> QED  BY <2>1, AfterEnsure
<1>6. ASSUME NEW h \in Handlers, InitTestAgain(h) \/ CacheInit(h) PROVE RightFile'
  <2>1. PICK pc \in {"reply", "init"} : Goto(h, pc)
    BY <1>6 DEF InitTestAgain, CacheInit
  <2>2. hs[h].pc \in {"cache", "again"}
    BY <1>6 DEF InitTestAgain, CacheInit
  <2> QED  BY <2>1, <2>2 DEF Goto, TypeOK, Requests
<1>7. ASSUME NEW h \in Handlers, Gate(h) \/ GateReady(h) \/ Look(h) PROVE RightFile'
  <2>1. PICK pc \in {"snap", "ready", "head", "open"} : Goto(h, pc)
    BY <1>7 DEF Gate, GateReady, Look
  <2>2. hs[h].pc \in {"gate", "ready", "look"}
    BY <1>7 DEF Gate, GateReady, Look
  <2> QED  BY <2>1, <2>2 DEF Goto, TypeOK, Requests
<1>8. ASSUME NEW h \in Handlers, Snapshot(h) \/ Open(h) \/ Sent(h) \/ GiveUp(h) PROVE RightFile'
  <2>1. \/ hs[h].pc = "snap" /\ hs'[h].pc = "look" /\ hs'[h].want = hs[h].want
        \/ hs'[h].pc \in {"send", "idle"}
    <3>1. CASE Snapshot(h)
      BY <3>1 DEF Snapshot, TypeOK, Requests
    <3>2. CASE Open(h)
      BY <3>2 DEF Open, TypeOK, Requests, Idle
    <3>3. CASE Sent(h) \/ GiveUp(h)
      BY <3>3 DEF Sent, GiveUp, TypeOK, Idle
    <3> QED  BY <1>8, <3>1, <3>2, <3>3
  <2>2. \A g \in Handlers \ {h} : hs'[g] = hs[g]
    BY <1>8 DEF Snapshot, Open, Sent, GiveUp, TypeOK
  <2> QED  BY <2>1, <2>2
<1>9. ASSUME OpenSegment PROVE RightFile'
  BY <1>9, AfterOpen
<1>10. CASE UNCHANGED hs
  BY <1>10
<1>11. ASSUME CloseSegment PROVE RightFile'
  BY <1>11, AfterClose
<1> QED
  BY <1>1, <1>2, <1>3, <1>4, <1>5, <1>6, <1>7, <1>8, <1>9, <1>10, <1>11
  DEF Next, FFmpeg, Wait, Wants, WriteInit, FFmpegFails, FFmpegEndsEarly,
    PrepareSpawn, PrepareAwait,
      Close, Kill, vars

-----------------------------------------------------------------------------
(* The invariant. *)

\* What ffmpeg has left once it is started elsewhere: nothing yet.
LEMMA EnsureWrites ==
  ASSUME Inv, NEW n \in Segments, EnsureHeadedFor(n), UNCHANGED cpc
  PROVE  WritesInOrder'
<1> USE SizesAssumption, Places DEF Inv, TypeOK, ProducerTypes, ServedInLife, WritesInOrder, InitSeg
<1>1. CASE Restart(n)
  <2>1. spawned' = spawned + 1 /\ start' = n /\ at' = InitSeg /\ segs' = [segs EXCEPT ![n] = Absent]
    BY <1>1 DEF Restart, Unlinked
  <2>2. \A k \in Segments : segs'[k].gen \in Nat /\ segs'[k].gen <= spawned
    BY <2>1 DEF Absent, File
  <2>3. ~Exists(segs'[start'])
    BY <2>1 DEF Exists, Absent
  <2>4. \A k \in Segments : ~Current(segs[k])'
    BY <2>1, <2>2 DEF Current, File
  <2>5. proc' \notin {"ok", "failed"} /\ spawned' # 0
    BY <1>1, <2>1 DEF Restart
  <2> QED  BY <2>1, <2>2, <2>3, <2>4, <2>5 DEF Current, Exists
<1>2. CASE UNCHANGED <<proc, start, spawned, initReady, init, segs, at, deaths>>
  BY <1>2 DEF Current, Whole, Exists, Alive
<1> QED  BY <1>1, <1>2 DEF EnsureHeadedFor

\* What a handler concluded, and one that a restart reached is told of it.
LEMMA EnsureLooks ==
  ASSUME Inv, NEW n \in Segments, EnsureHeadedFor(n), UNCHANGED cpc, NEW h \in Handlers,
         NEW pc \in {"again", "gate"}, GotoAfterEnsure(h, pc)
  PROVE  LooksAreGood'
<1> SUFFICES ASSUME NEW g \in Handlers PROVE GoodLook(hs[g])'
  BY DEF LooksAreGood
<1> USE SizesAssumption, Places DEF Inv, TypeOK, ProducerTypes, LooksAreGood
<1>1. CASE g = h
  <2>1. hs'[g].pc = pc
    BY <1>1, AfterEnsure
  <2> QED  BY <2>1 DEF GoodLook
<1>2. CASE g # h /\ Restart(n)
  <2>1. spawned' # spawned
    BY <1>2 DEF Restart
  <2>2. hs[g].pc = "idle" \/ hs'[g].respawned
    BY <1>2, <2>1, AfterEnsure
  <2>3. hs[g].pc = "idle" => hs'[g].pc = "idle"
    BY <1>2, AfterEnsure
  <2> QED  BY <2>2, <2>3 DEF GoodLook
<1>3. CASE g # h /\ UNCHANGED <<proc, start, spawned, initReady, init, segs, at, deaths>>
  <2>1. hs'[g].pc = hs[g].pc /\ hs'[g].want = hs[g].want /\ hs'[g].file = hs[g].file
        /\ hs'[g].snap = hs[g].snap /\ (hs[g].respawned => hs'[g].respawned)
    BY <1>3, AfterEnsure
  <2>2. UNCHANGED <<closed, canonical>>
    BY DEF EnsureHeadedFor
  <2> QED  BY <1>3, <2>1, <2>2 DEF GoodLook, PastInit, Excused, Whole, Current, Exists
<1> QED  BY <1>1, <1>2, <1>3 DEF EnsureHeadedFor

\* Every step keeps requests between prepare() and close().
LEMMA LifeInv ==
  ASSUME Inv, [Next]_vars
  PROVE  ServedInLife'
<1> USE SizesAssumption DEF Inv, TypeOK, ProducerTypes, ServedInLife, Requests, Alive, Exists,
     Absent, InitSeg, Segments, Idle, File, vars, producerVars
<1>1. ASSUME WriteInit PROVE ServedInLife'
  BY <1>1 DEF WriteInit, Alive, FFmpegUnchanged
<1>2. ASSUME OpenSegment PROVE ServedInLife'
  BY <1>2 DEF OpenSegment, Alive, FFmpegUnchanged
<1>3. ASSUME CloseSegment PROVE ServedInLife'
  <2>1. \A g \in Handlers : hs'[g].pc = hs[g].pc
    BY <1>3, AfterClose
  <2> QED  BY <1>3, <2>1 DEF CloseSegment, Alive, FFmpegUnchanged
<1>4. ASSUME FFmpegFails \/ FFmpegEndsEarly PROVE ServedInLife'
  BY <1>4 DEF FFmpegFails, FFmpegEndsEarly, Alive, FFmpegUnchanged
<1>5. ASSUME PrepareSpawn PROVE ServedInLife'
  BY <1>5 DEF PrepareSpawn, EnsureHeadedFor, MayStart, NeedsRestart, Restart, Unlinked, Alive
<1>6. ASSUME PrepareAwait PROVE ServedInLife'
  BY <1>6 DEF PrepareAwait, OutputsPresent
<1>7. ASSUME Close PROVE ServedInLife'
  BY <1>7 DEF Close
<1>8. ASSUME Kill PROVE ServedInLife'
  BY <1>8 DEF Kill
<1>9. ASSUME NEW h \in Handlers, NEW want \in Wants, Request(h, want)
      PROVE ServedInLife'
  BY <1>9 DEF Request
<1>10. ASSUME NEW h \in Handlers, InitTest(h)
      PROVE ServedInLife'
  BY <1>10 DEF InitTest, HandlerOnly, InitFileComplete
<1>11. ASSUME NEW h \in Handlers, CacheInit(h)
      PROVE ServedInLife'
  BY <1>11 DEF CacheInit, Goto
<1>12. ASSUME NEW h \in Handlers, SpawnIfDead(h)
      PROVE ServedInLife'
  BY <1>12 DEF SpawnIfDead, HandlerOnly, Alive
<1>13. ASSUME NEW h \in Handlers, SpawnForInit(h)
      PROVE ServedInLife'
  BY <1>13 DEF SpawnForInit, EnsureHeadedFor, MayStart, NeedsRestart, Restart, Unlinked, Alive,
       GotoAfterEnsure
<1>14. ASSUME NEW h \in Handlers, InitTestAgain(h)
      PROVE ServedInLife'
  BY <1>14 DEF InitTestAgain, Goto, InitFileComplete
<1>15. ASSUME NEW h \in Handlers, ReplyInit(h)
      PROVE ServedInLife'
  BY <1>15 DEF ReplyInit, HandlerOnly
<1>16. ASSUME NEW h \in Handlers, Gate(h)
      PROVE ServedInLife'
  BY <1>16 DEF Gate, Goto, HandlerOnly, InitFileComplete
<1>17. ASSUME NEW h \in Handlers, GateReady(h)
      PROVE ServedInLife'
  BY <1>17 DEF GateReady, Goto
<1>18. ASSUME NEW h \in Handlers, Snapshot(h)
      PROVE ServedInLife'
  BY <1>18 DEF Snapshot, HandlerOnly
<1>19. ASSUME NEW h \in Handlers, Look(h)
      PROVE ServedInLife'
  BY <1>19 DEF Look, Goto, HandlerOnly, NextSignals, TerminalExited, Fresh
<1>20. ASSUME NEW h \in Handlers, Head(h)
      PROVE ServedInLife'
  BY <1>20 DEF Head, EnsureHeadedFor, MayStart, NeedsRestart, Restart, Unlinked, Alive,
       GotoAfterEnsure
<1>21. ASSUME NEW h \in Handlers, Open(h)
      PROVE ServedInLife'
  BY <1>21 DEF Open, HandlerOnly, Readable
<1>22. ASSUME NEW h \in Handlers, Sent(h)
      PROVE ServedInLife'
  BY <1>22 DEF Sent, HandlerOnly
<1>23. ASSUME NEW h \in Handlers, GiveUp(h)
      PROVE ServedInLife'
  BY <1>23 DEF GiveUp, HandlerOnly
<1>24. CASE UNCHANGED vars
  BY <1>24
<1> QED  BY <1>1, <1>2, <1>3, <1>4, <1>5, <1>6, <1>7, <1>8, <1>9, <1>10, <1>11, <1>12, <1>13,
     <1>14, <1>15, <1>16, <1>17, <1>18, <1>19, <1>20, <1>21, <1>22, <1>23, <1>24 DEF Next, FFmpeg,
     Wait, Wants

\* Every step keeps what ffmpeg has left whole.
LEMMA WritesInv ==
  ASSUME Inv, [Next]_vars
  PROVE  WritesInOrder'
<1> USE SizesAssumption DEF Inv, TypeOK, ProducerTypes, ServedInLife, WritesInOrder, Current,
     Whole, Exists, Alive, Absent, InitSeg, Segments, Idle, File, vars, producerVars
<1>1. ASSUME WriteInit PROVE WritesInOrder'
  BY <1>1 DEF WriteInit, Alive, FFmpegUnchanged
<1>2. ASSUME OpenSegment PROVE WritesInOrder'
  BY <1>2 DEF OpenSegment, Alive, FFmpegUnchanged
<1>3. ASSUME CloseSegment PROVE WritesInOrder'
  <2>1. at' \in Segments /\ at' >= at /\ start <= at
    BY <1>3 DEF CloseSegment
  <2>2. segs' = [segs EXCEPT ![at].whole = TRUE] /\ segs[at].gen = spawned
    BY <1>3 DEF CloseSegment
  <2>3. \A n \in Segments : segs'[n].gen = segs[n].gen /\ (segs[n].whole => segs'[n].whole)
    BY <2>2
  <2>4. segs'[at].gen = spawned /\ segs'[at].whole /\ spawned # 0
    BY <1>3, <2>2 DEF CloseSegment
  <2>5. at' = at \/ (at' = at + 1 /\ proc' = proc)
    BY <1>3 DEF CloseSegment
  <2>6. proc' = "ok" => at' = at /\ at = Last
    BY <1>3 DEF CloseSegment
  <2>7. proc' # "failed" /\ UNCHANGED <<init, start, spawned, cpc, deaths>>
    BY <1>3 DEF CloseSegment, FFmpegUnchanged
  <2>8. Whole(init)' /\ cpc # "closed"
    BY <1>3, <2>7 DEF CloseSegment
  <2>0. \A n \in start .. (at - 1) : Whole(segs[n])
    <3>1. at # InitSeg /\ cpc # "closed" BY <1>3 DEF CloseSegment
    <3>2. WritesInOrder OBVIOUS
    <3> HIDE DEF Inv, Whole, InitSeg
    <3> QED  BY <3>1, <3>2, Zenon
  <2>9. ASSUME NEW n \in start .. (at' - 1) PROVE Whole(segs[n])'
    <3>0. n \in Int /\ start <= n /\ n < at' /\ at \in 0 .. Last /\ at' \in 0 .. Last
      BY <1>3, <2>1, <2>9 DEF CloseSegment
    <3>1. n \in Segments /\ (n = at \/ n \in start .. (at - 1))
      BY <2>5, <3>0
    <3>2. n # at => Whole(segs[n])
      <4> HIDE DEF Whole, Inv, WritesInOrder
      <4> QED  BY <2>0, <3>1, Zenon
    <3>3. CASE n = at
      BY <2>4, <2>7, <3>3
    <3>4. CASE n # at
      BY <2>3, <2>7, <3>1, <3>2, <3>4
    <3> QED  BY <3>3, <3>4
  <2>10. \A n \in Segments : Current(segs[n])' => start <= n /\ n <= at'
    BY <1>3, <2>1, <2>3, <2>7 DEF CloseSegment
  <2>11. proc' = "ok" => Whole(segs[Last])'
    BY <2>4, <2>6, <2>7
  <2>12. \A n \in Segments : segs'[n].gen <= spawned'
    BY <2>3, <2>7
  <2> QED  BY <1>3, <2>1, <2>7, <2>8, <2>9, <2>10, <2>11, <2>12 DEF CloseSegment
<1>4. ASSUME FFmpegFails PROVE WritesInOrder'
  BY <1>4 DEF FFmpegFails, Alive, FFmpegUnchanged
<1>25. ASSUME FFmpegEndsEarly PROVE WritesInOrder'
  <2>1. /\ Alive /\ ~(at = Last /\ segs[Last].gen = spawned)
        /\ proc' = "ok" /\ init' = [init EXCEPT !.whole = @ \/ init.gen = spawned]
        /\ UNCHANGED <<at, start, spawned, cpc>> /\ cpc # "closed"
    BY <1>25 DEF FFmpegEndsEarly, FFmpegUnchanged
  <2>2. \A n \in Segments : segs'[n].gen = segs[n].gen /\ (segs[n].whole => segs'[n].whole)
    BY <1>25 DEF FFmpegEndsEarly
  <2>3. Whole(init) => Whole(init)'
    BY <2>1
  <2>4. \A n \in Segments : Whole(segs[n]) => Whole(segs[n])'
    BY <2>1, <2>2
  <2>5. ASSUME at # InitSeg, NEW n \in start .. (at - 1) PROVE Whole(segs[n])'
    <3>1. n \in Segments
      BY <2>5 DEF Wants
    <3>2. Whole(segs[n])
      BY <2>1, <2>5
    <3> HIDE DEF Whole
    <3> QED  BY <2>4, <3>1, <3>2
  <2>6. \A n \in Segments : Current(segs[n])' <=> Current(segs[n])
    BY <2>1, <2>2
  <2>7. ~Current(segs[Last]) \/ Whole(segs[Last])
    BY <2>1 DEF Wants
  <2>8. Last \in Segments /\ start \in Segments
    OBVIOUS
  <2> QED  BY <2>1, <2>2, <2>3, <2>4, <2>5, <2>6, <2>7, <2>8
<1>5. ASSUME PrepareSpawn PROVE WritesInOrder'
  BY <1>5, EnsureWrites, Places DEF PrepareSpawn
<1>6. ASSUME PrepareAwait PROVE WritesInOrder'
  BY <1>6 DEF PrepareAwait, OutputsPresent
<1>7. ASSUME Close PROVE WritesInOrder'
  BY <1>7 DEF Close
<1>8. ASSUME Kill PROVE WritesInOrder'
  BY <1>8 DEF Kill
<1>9. ASSUME NEW h \in Handlers, NEW want \in Wants, Request(h, want)
      PROVE WritesInOrder'
  BY <1>9 DEF Request
<1>10. ASSUME NEW h \in Handlers, InitTest(h)
      PROVE WritesInOrder'
  BY <1>10 DEF InitTest, HandlerOnly, InitFileComplete
<1>11. ASSUME NEW h \in Handlers, CacheInit(h)
      PROVE WritesInOrder'
  BY <1>11 DEF CacheInit, Goto
<1>12. ASSUME NEW h \in Handlers, SpawnIfDead(h)
      PROVE WritesInOrder'
  BY <1>12 DEF SpawnIfDead, HandlerOnly, Alive
<1>13. ASSUME NEW h \in Handlers, SpawnForInit(h)
      PROVE WritesInOrder'
  BY <1>13, EnsureWrites DEF SpawnForInit, RightFile
<1>14. ASSUME NEW h \in Handlers, InitTestAgain(h)
      PROVE WritesInOrder'
  BY <1>14 DEF InitTestAgain, Goto, InitFileComplete
<1>15. ASSUME NEW h \in Handlers, ReplyInit(h)
      PROVE WritesInOrder'
  BY <1>15 DEF ReplyInit, HandlerOnly
<1>16. ASSUME NEW h \in Handlers, Gate(h)
      PROVE WritesInOrder'
  BY <1>16 DEF Gate, Goto, HandlerOnly, InitFileComplete
<1>17. ASSUME NEW h \in Handlers, GateReady(h)
      PROVE WritesInOrder'
  BY <1>17 DEF GateReady, Goto
<1>18. ASSUME NEW h \in Handlers, Snapshot(h)
      PROVE WritesInOrder'
  BY <1>18 DEF Snapshot, HandlerOnly
<1>19. ASSUME NEW h \in Handlers, Look(h)
      PROVE WritesInOrder'
  BY <1>19 DEF Look, Goto, HandlerOnly, NextSignals, TerminalExited, Fresh
<1>20. ASSUME NEW h \in Handlers, Head(h)
      PROVE WritesInOrder'
  BY <1>20, EnsureWrites DEF Head, RightFile, WantsSegment
<1>21. ASSUME NEW h \in Handlers, Open(h)
      PROVE WritesInOrder'
  BY <1>21 DEF Open, HandlerOnly, Readable
<1>22. ASSUME NEW h \in Handlers, Sent(h)
      PROVE WritesInOrder'
  BY <1>22 DEF Sent, HandlerOnly
<1>23. ASSUME NEW h \in Handlers, GiveUp(h)
      PROVE WritesInOrder'
  BY <1>23 DEF GiveUp, HandlerOnly
<1>24. CASE UNCHANGED vars
  BY <1>24
<1> QED  BY <1>1, <1>2, <1>3, <1>4, <1>5, <1>6, <1>7, <1>8, <1>9, <1>10, <1>11, <1>12, <1>13,
     <1>14, <1>15, <1>16, <1>17, <1>18, <1>19, <1>20, <1>21, <1>22, <1>23, <1>24, <1>25
     DEF Next, FFmpeg, Wait, Wants

\* Every step keeps what handlers concluded true, or tells them of a restart.
LEMMA LooksInv ==
  ASSUME Inv, [Next]_vars
  PROVE  LooksAreGood'
<1> USE SizesAssumption, Places DEF Inv, TypeOK, ProducerTypes, vars, producerVars
<1>1. ASSUME NEW h \in Handlers, hs' = [hs EXCEPT ![h] = hs'[h]], GoodLook(hs[h])',
             UNCHANGED <<proc, start, spawned, segs, at, deaths>>,
             canonical' = canonical \/ ~Exists(canonical)
      PROVE  LooksAreGood'
  <2>1. \A g \in Handlers \ {h} : hs'[g] = hs[g]
    BY <1>1
  <2> QED  BY <1>1, <2>1 DEF LooksAreGood, GoodLook, PastInit, Excused, Whole, Current, Exists
<1>2. ASSUME WriteInit \/ PrepareAwait \/ Close \/ Kill \/ FFmpegFails \/ UNCHANGED vars
      PROVE LooksAreGood'
  <2> SUFFICES ASSUME NEW g \in Handlers PROVE GoodLook(hs[g])'
    BY DEF LooksAreGood
  <2>1. GoodLook(hs[g])
    BY DEF LooksAreGood
  <2>2. CASE FFmpegFails
    BY <2>1, <2>2 DEF FFmpegFails, Alive, FFmpegUnchanged, GoodLook, PastInit, Excused, Whole,
                      Current, Exists
  <2>3. CASE WriteInit
    <3>1. ~PastInit /\ at = InitSeg /\ proc # "ok"
      BY <2>3 DEF WriteInit, PastInit, Alive
    <3>2. hs[g].pc = "open" => hs[g].want \in Segments /\ ~(hs[g].want < at)
      BY <3>1 DEF RightFile, WantsSegment, Segments, InitSeg
    <3>3. UNCHANGED <<hs, start, spawned, deaths, canonical>>
      BY <2>3 DEF WriteInit, FFmpegUnchanged
    <3> QED  BY <2>1, <3>1, <3>2, <3>3 DEF GoodLook, Excused, Whole, Current
  <2>4. CASE Close \/ Kill
    <3>1. hs[g].pc = "idle"
      BY <2>4 DEF Close, Kill, ServedInLife
    <3> QED  BY <2>4, <3>1 DEF Close, Kill, GoodLook
  <2>5. CASE PrepareAwait \/ UNCHANGED vars
    BY <2>1, <2>5 DEF PrepareAwait, GoodLook, PastInit, Excused, Whole, Current, Exists
  <2> QED  BY <1>2, <2>2, <2>3, <2>4, <2>5
<1>3. ASSUME CloseSegment PROVE LooksAreGood'
  <2> SUFFICES ASSUME NEW g \in Handlers PROVE GoodLook(hs[g])'
    BY DEF LooksAreGood
  <2>1. GoodLook(hs[g]) /\ hs'[g].file = hs[g].file
    BY <1>3, AfterClose DEF LooksAreGood
  <2>2. \A n \in Segments : Whole(segs[n]) => Whole(segs[n])'
    BY <1>3 DEF CloseSegment, FFmpegUnchanged, Whole, Current, Exists
  <2>3. at \in Segments /\ at' \in {at, at + 1} /\ proc # "ok"
    BY <1>3 DEF CloseSegment, Alive
  <2>4. UNCHANGED <<start, spawned, deaths, canonical>>
    BY <1>3 DEF CloseSegment, FFmpegUnchanged
  <2>5. \A n : Excused(n)' <=> Excused(n)
    BY <2>4 DEF Excused
  <2>6. PastInit => PastInit'
    BY <2>3 DEF PastInit, InitSeg, Segments
  <2>7. Whole(hs[g].file) => Whole(hs[g].file)'
    BY <2>1, <2>4 DEF Whole, Current
  <2>8. \A n \in Segments : n < at => n < at'
    BY <2>3 DEF Segments
  <2>9. hs[g].pc = "open" => hs[g].want \in Segments
    BY DEF RightFile, WantsSegment
  <2>10. /\ hs'[g].pc = hs[g].pc /\ hs'[g].want = hs[g].want /\ hs'[g].snap = hs[g].snap
         /\ hs'[g].respawned = hs[g].respawned
    BY <1>3, AfterClose
  <2> QED  BY <2>1, <2>2, <2>3, <2>4, <2>5, <2>6, <2>7, <2>8, <2>9, <2>10 DEF GoodLook
<1>17. ASSUME FFmpegEndsEarly PROVE LooksAreGood'
  <2> SUFFICES ASSUME NEW g \in Handlers PROVE GoodLook(hs[g])'
    BY DEF LooksAreGood
  <2>1. GoodLook(hs[g]) /\ hs'[g] = hs[g]
    BY <1>17 DEF LooksAreGood, FFmpegEndsEarly
  <2>2. /\ UNCHANGED <<start, spawned, at, canonical>> /\ proc' = "ok"
        /\ deaths > 0 => deaths' > 0
    BY <1>17 DEF FFmpegEndsEarly, FFmpegUnchanged
  <2>3. \A n \in Segments : Whole(segs[n]) => Whole(segs[n])'
    BY <1>17, <2>2 DEF FFmpegEndsEarly, Whole, Current, Exists
  <2>4. \A n : Excused(n) => Excused(n)'
    BY <2>2 DEF Excused
  <2>5. Whole(hs[g].file) => Whole(hs[g].file)'
    BY <2>1, <2>2 DEF Whole, Current
  <2>6. hs[g].pc = "open" => hs[g].want \in Segments
    BY DEF RightFile, WantsSegment
  <2> QED  BY <2>1, <2>2, <2>3, <2>4, <2>5, <2>6 DEF GoodLook, PastInit
<1>4. ASSUME OpenSegment PROVE LooksAreGood'
  <2> SUFFICES ASSUME NEW g \in Handlers PROVE GoodLook(hs[g])'
    BY DEF LooksAreGood
  <2>1. GoodLook(hs[g])
    BY DEF LooksAreGood
  <2>2. /\ segs[at].gen # spawned /\ at \in Segments
        /\ segs' = [segs EXCEPT ![at] = [gen |-> spawned, whole |-> FALSE]]
    BY <1>4 DEF OpenSegment
  <2>3. UNCHANGED <<start, spawned, deaths, canonical, at, proc>> /\ proc # "ok"
    BY <1>4 DEF OpenSegment, FFmpegUnchanged, Alive
  <2>4. hs[g].pc = "open" => hs[g].want \in Segments
    BY DEF RightFile, WantsSegment
  <2>5. CASE hs'[g].file = hs[g].file
    BY <1>4, <2>1, <2>2, <2>3, <2>4, <2>5, AfterOpen
       DEF GoodLook, PastInit, Excused, Whole, Current, Exists, Segments
  <2>6. CASE hs'[g].file # hs[g].file
    <3>1. hs[g].want = at /\ hs[g].pc = "send" /\ hs[g].file.gen = segs[at].gen
      BY <1>4, <2>6, AfterOpen
    <3>2. ~Whole(hs[g].file) /\ hs[g].want # InitSeg
      BY <2>2, <3>1 DEF Whole, Current, Segments, InitSeg
    <3> QED  BY <1>4, <2>1, <2>2, <2>3, <3>1, <3>2, AfterOpen DEF GoodLook, Excused
  <2> QED  BY <2>5, <2>6
<1>5. ASSUME PrepareSpawn PROVE LooksAreGood'
  <2>1. \A g \in Handlers : hs'[g].pc = "idle"
    BY <1>5 DEF PrepareSpawn, ServedInLife
  <2> QED  BY <2>1 DEF LooksAreGood, GoodLook
<1>6. ASSUME NEW h \in Handlers, SpawnForInit(h) \/ Head(h) PROVE LooksAreGood'
  BY <1>6, EnsureLooks DEF SpawnForInit, Head, RightFile, WantsSegment
<1>7. ASSUME NEW h \in Handlers, NEW want \in Wants, Request(h, want) PROVE LooksAreGood'
  <2>1. hs'[h].pc \in {"init", "gate"} /\ hs' = [hs EXCEPT ![h] = hs'[h]]
    BY <1>7 DEF Request
  <2> QED  BY <1>1, <1>7, <2>1 DEF Request, GoodLook
<1>8. ASSUME NEW h \in Handlers, InitTest(h) PROVE LooksAreGood'
  <2>1. hs'[h].pc = "dead" \/ (hs'[h].pc = "cache" /\ InitFileComplete)
    BY <1>8 DEF InitTest, Requests
  <2>2. hs' = [hs EXCEPT ![h] = hs'[h]]
    BY <1>8 DEF InitTest
  <2>3. InitFileComplete => PastInit
    BY DEF WritesInOrder, InitFileComplete, PastInit
  <2> QED  BY <1>1, <1>8, <2>1, <2>2, <2>3 DEF InitTest, HandlerOnly, GoodLook, PastInit
<1>9. ASSUME NEW h \in Handlers, CacheInit(h) PROVE LooksAreGood'
  <2>1. hs[h].pc = "cache" /\ hs'[h].pc = "reply" /\ hs'[h].respawned = hs[h].respawned
        /\ hs' = [hs EXCEPT ![h] = hs'[h]]
    BY <1>9 DEF CacheInit, Goto, Requests
  <2>2. hs[h].respawned \/ PastInit
    BY <2>1 DEF LooksAreGood, GoodLook
  <2>3. canonical' = canonical \/ ~Exists(canonical)
    BY <1>9 DEF CacheInit
  <2>4. UNCHANGED <<proc, start, spawned, segs, at, deaths>>
    BY <1>9 DEF CacheInit
  <2> QED  BY <1>1, <2>1, <2>2, <2>3, <2>4 DEF GoodLook, PastInit
<1>10. ASSUME NEW h \in Handlers, InitTestAgain(h) PROVE LooksAreGood'
  <2>1. /\ hs'[h].pc = "init" \/ (hs'[h].pc = "reply" /\ InitFileComplete)
        /\ hs' = [hs EXCEPT ![h] = hs'[h]]
    BY <1>10 DEF InitTestAgain, Goto, Requests
  <2>2. InitFileComplete => PastInit
    BY DEF WritesInOrder, InitFileComplete, PastInit
  <2> QED  BY <1>1, <1>10, <2>1, <2>2 DEF InitTestAgain, GoodLook, PastInit
<1>11. ASSUME NEW h \in Handlers, ReplyInit(h) PROVE LooksAreGood'
  <2>1. hs[h].pc = "reply" /\ hs'[h].want = InitSeg /\ hs'[h].respawned = hs[h].respawned
        /\ hs'[h].pc = "send" /\ hs'[h].file = IF Exists(canonical) THEN canonical ELSE init
    BY <1>11 DEF ReplyInit, Requests, RightFile, WantsInit
  <2>2. hs[h].respawned \/ PastInit \/ Exists(canonical)
    BY <2>1 DEF LooksAreGood, GoodLook
  <2>3. PastInit => init.whole
    BY <2>1 DEF ServedInLife, WritesInOrder, PastInit, Whole
  <2>4. InitSeg \notin Segments
    BY DEF InitSeg, Segments
  <2>5. hs' = [hs EXCEPT ![h] = hs'[h]]
    BY <1>11 DEF ReplyInit
  <2>6. UNCHANGED <<proc, start, spawned, segs, at, deaths, canonical>>
    BY <1>11 DEF ReplyInit, HandlerOnly
  <2>7. GoodLook(hs[h])'
    BY <2>1, <2>2, <2>3, <2>4, <2>6 DEF GoodLook
  <2> QED  BY <1>1, <2>5, <2>6, <2>7
<1>12. ASSUME NEW h \in Handlers, SpawnIfDead(h) \/ Gate(h) \/ GateReady(h) PROVE LooksAreGood'
  <2>1. /\ hs'[h].pc \in {"again", "spawn", "snap", "ready", "head"}
        /\ hs' = [hs EXCEPT ![h] = hs'[h]]
    BY <1>12 DEF SpawnIfDead, Gate, GateReady, Goto, Requests
  <2> QED  BY <1>1, <1>12, <2>1 DEF SpawnIfDead, Gate, GateReady, HandlerOnly, GoodLook
<1>13. ASSUME NEW h \in Handlers, Snapshot(h) PROVE LooksAreGood'
  <2>1. hs'[h].pc = "look" /\ hs'[h].snap = spawned /\ hs' = [hs EXCEPT ![h] = hs'[h]]
    BY <1>13 DEF Snapshot, Requests
  <2> QED  BY <1>1, <1>13, <2>1 DEF Snapshot, HandlerOnly, GoodLook
<1>14. ASSUME NEW h \in Handlers, Look(h) PROVE LooksAreGood'
  <2> DEFINE n == hs[h].want
  <2>1. /\ hs[h].pc = "look" /\ n \in Segments /\ hs'[h].want = n
        /\ hs'[h].respawned = hs[h].respawned /\ hs' = [hs EXCEPT ![h] = hs'[h]]
    BY <1>14 DEF Look, Goto, Requests, RightFile, WantsSegment
  <2>2. /\ hs'[h].pc \in {"open", "head"}
        /\ hs'[h].pc = "open" =>
             Exists(segs[n]) /\ (NextSignals(n, hs[h].snap) \/ TerminalExited(n, hs[h].snap))
    BY <1>14 DEF Look, Goto, Requests
  <2>3. hs[h].respawned \/ hs[h].snap = spawned
    BY <2>1 DEF LooksAreGood, GoodLook
  <2>4. cpc # "closed"
    BY <2>1 DEF ServedInLife
  <2>5. ASSUME NextSignals(n, spawned)
        PROVE  Excused(n) \/ (Whole(segs[n]) /\ n < at)
    <3>1. n < Last /\ Current(segs[n + 1]) /\ n + 1 \in Segments
      BY <2>1, <2>5 DEF NextSignals, Fresh, Current, WritesInOrder, Segments, File
    <3>2. start <= n + 1 /\ n + 1 <= at
      BY <3>1 DEF WritesInOrder
    <3>3. n # start - 1 => Whole(segs[n])
      BY <2>1, <2>4, <3>1, <3>2 DEF WritesInOrder, Segments, InitSeg, Wants
    <3> QED  BY <2>1, <3>2, <3>3 DEF Excused, Segments, Wants, InitSeg
  <2>6. ASSUME TerminalExited(n, spawned), Exists(segs[n])
        PROVE  Excused(n) \/ (Whole(segs[n]) /\ proc = "ok")
    BY <2>1, <2>4, <2>6 DEF TerminalExited, WritesInOrder, Excused, Current, Segments, File
  <2> HIDE DEF n
  <2>7. GoodLook(hs[h])'
    <3>1. UNCHANGED <<proc, start, spawned, segs, at, deaths>>
      BY <1>14 DEF Look, HandlerOnly
    <3> QED  BY <2>1, <2>2, <2>3, <2>5, <2>6, <3>1 DEF GoodLook, Excused, Whole, Current
  <2> QED  BY <1>1, <1>14, <2>1, <2>7 DEF Look, HandlerOnly
<1>15. ASSUME NEW h \in Handlers, Open(h) PROVE LooksAreGood'
  <2> DEFINE n == hs[h].want
  <2>1. hs[h].pc = "open" /\ n \in Segments /\ n # InitSeg
    BY <1>15 DEF Open, RightFile, WantsSegment, Segments, InitSeg
  <2>2. hs[h].respawned \/ Excused(n) \/ Whole(segs[n])
    BY <2>1 DEF LooksAreGood, GoodLook
  <2>3. \/ hs'[h].pc = "idle"
        \/ /\ hs'[h].pc = "send" /\ hs'[h].file = segs[n] /\ hs'[h].want = n
           /\ hs'[h].respawned = hs[h].respawned
    BY <1>15, <2>1 DEF Open, Requests, Idle
  <2>4. hs' = [hs EXCEPT ![h] = hs'[h]]
    BY <1>15 DEF Open
  <2>5. UNCHANGED <<proc, start, spawned, segs, at, deaths, canonical>>
    BY <1>15 DEF Open, HandlerOnly
  <2>6. GoodLook(hs[h])'
    BY <2>1, <2>2, <2>3, <2>5 DEF GoodLook, Excused, Whole, Current
  <2> QED  BY <1>1, <2>4, <2>5, <2>6
<1>16. ASSUME NEW h \in Handlers, Sent(h) \/ GiveUp(h) PROVE LooksAreGood'
  <2>1. hs'[h].pc = "idle" /\ hs' = [hs EXCEPT ![h] = hs'[h]]
    BY <1>16 DEF Sent, GiveUp, Idle
  <2> QED  BY <1>1, <1>16, <2>1 DEF Sent, GiveUp, HandlerOnly, GoodLook
<1> QED
  BY <1>2, <1>3, <1>4, <1>5, <1>6, <1>7, <1>8, <1>9, <1>10, <1>11, <1>12, <1>13, <1>14,
    <1>15, <1>16,
     <1>17
  DEF Next, FFmpeg, Wait, Wants

\* The strengthened invariant is inductive.
LEMMA InitInv == Init => Inv
<1> SUFFICES ASSUME Init PROVE Inv
  OBVIOUS
<1> USE SizesAssumption, Places DEF Init
<1>1. TypeOK
  <2>1. InitSeg \in Wants /\ hs \in [Handlers -> Requests] /\ segs \in [Segments -> File]
    BY DEF Wants
  <2>2. start \in Segments /\ spawned \in 0 .. MaxSpawns /\ asked \in 0 .. MaxAsked /\ deaths \in
       0 .. MaxDeaths
    OBVIOUS
  <2>3. canonical \in File /\ init \in File /\ at \in Wants
    BY <2>1
  <2> QED  BY <2>1, <2>2, <2>3 DEF TypeOK, ProducerTypes
<1>2. \A h \in Handlers : hs[h].pc = "idle" /\ hs[h].want = 0
  BY DEF Idle
<1>3. RightFile /\ ServedInLife /\ LooksAreGood
  BY <1>2 DEF RightFile, WantsInit, WantsSegment, ServedInLife, LooksAreGood, GoodLook, Alive
<1>4. WritesInOrder
  BY DEF WritesInOrder, Current, Exists, Absent, Alive
<1> QED  BY <1>1, <1>3, <1>4 DEF Inv

LEMMA StepInv == Inv /\ [Next]_vars => Inv'
BY ProducerTypesInv, RequestsInv, RightFileInv, LifeInv, WritesInv, LooksInv DEF Inv, TypeOK

\* The invariant holds of every state the producer reaches.
LEMMA Invariance == Spec => []Inv
BY InitInv, StepInv, PTL DEF Spec

-----------------------------------------------------------------------------
(* The theorems. *)

\* Type correctness of the producer, for any handlers and sizes.
THEOREM TypeCorrect == Spec => []TypeOK
BY Invariance, PTL DEF Inv

\* What a handler sends was finished when it was opened and is not cut while it is sent,
\* but for the named exceptions (stream_proxy_hls_segment.py: _segment_complete).
THEOREM SentIsWhole == Spec => []ServedWhole
<1>1. ASSUME Inv PROVE ServedWhole
  <2> SUFFICES ASSUME NEW h \in Handlers, hs[h].pc = "send", ~hs[h].respawned
               PROVE  \/ hs[h].file.whole
                      \/ hs[h].want = Last /\ deaths > 0
                      \/ hs[h].want = start - 1 /\ hs[h].want # InitSeg
                      \/ hs[h].want = InitSeg /\ hs[h].file = canonical
    BY DEF ServedWhole
  <2>1. hs[h].want \in Segments \/ hs[h].want = InitSeg
    BY <1>1 DEF Inv, TypeOK, Requests, Wants
  <2>2. hs[h].want \in Segments => hs[h].want # InitSeg
    BY SizesAssumption DEF Segments, InitSeg
  <2> QED  BY <1>1, <2>1, <2>2 DEF Inv, LooksAreGood, GoodLook, Excused, Whole
<1> QED  BY <1>1, Invariance, PTL

\* The init.mp4 kept for all later requests was whole when it was read, unless a restart
\* fell between the test and the read, and prepare() reports success only with a whole
\* one on disk (stream_proxy_hls.py: _cache_canonical_init_bytes, prepare).
THEOREM CanonicalIsWhole == Spec => InitIsWhole
<1>1. ASSUME Inv, [Next]_vars PROVE CachedWhole
  <2> SUFFICES ASSUME canonical' # canonical
               PROVE  canonical'.whole \/ \E h \in Handlers : hs[h].pc = "cache" /\ hs[h].respawned
    BY DEF CachedWhole
  <2>1. PICK h \in Handlers : CacheInit(h)
    BY <1>1 DEF Next, FFmpeg, Wait, WriteInit, OpenSegment, CloseSegment, FFmpegFails,
         FFmpegEndsEarly, FFmpegUnchanged,
                PrepareSpawn, EnsureHeadedFor, PrepareAwait, Close, Kill, Request, InitTest,
                     SpawnIfDead,
                SpawnForInit, InitTestAgain, ReplyInit, Gate, GateReady, Snapshot, Look, Head,
                     Open, Sent,
                GiveUp, HandlerOnly, vars
  <2>2. hs[h].pc = "cache" /\ canonical' = init
    BY <2>1 DEF CacheInit
  <2>3. hs[h].respawned \/ PastInit
    BY <1>1, <2>2 DEF Inv, LooksAreGood, GoodLook
  <2>4. PastInit => init.whole
    BY <1>1, <2>2 DEF Inv, ServedInLife, WritesInOrder, PastInit, Whole
  <2> QED  BY <2>2, <2>3, <2>4
<1>2. ASSUME Inv, [Next]_vars PROVE PreparedWhole
  <2> SUFFICES ASSUME ppc' = "ready", ppc # "ready" PROVE init.whole
    BY DEF PreparedWhole
  <2>1. Exists(segs[0]) /\ Exists(init)
    BY <1>2 DEF Next, FFmpeg, Wait, WriteInit, OpenSegment, CloseSegment, FFmpegFails,
         FFmpegEndsEarly, FFmpegUnchanged,
                PrepareSpawn, PrepareAwait, OutputsPresent, Close, Kill, Request, InitTest,
                     CacheInit,
                SpawnIfDead, SpawnForInit, InitTestAgain, ReplyInit, Gate, GateReady, Snapshot,
                     Look, Head,
                Open, Sent, GiveUp, HandlerOnly, vars
  <2>2. start = 0 /\ cpc # "closed"
    BY <1>2, <2>1 DEF Inv, ServedInLife
  <2> QED  BY <1>2, <2>1, <2>2 DEF Inv, WritesInOrder, Whole
<1>3. Spec => [][Next]_vars
  BY PTL DEF Spec
<1>4. Spec => [][CachedWhole /\ PreparedWhole]_vars
  BY <1>1, <1>2, <1>3, Invariance, PTL
<1> QED  BY <1>4 DEF InitIsWhole

\* The producer implements ProducerLife: ffmpeg starts, ends and is restarted until the
\* producer is closed, and a closed producer stays closed (stream_proxy_hls.py: close).
THEOREM Implements == Spec => ImplementsLife
<1> DEFINE life == IF Alive THEN "running" ELSE IF closed THEN "closed" ELSE "idle"
<1>1. Init => Life!Init
  BY DEF Init, Life!Init, Alive
<1>2. ASSUME Inv, [Next]_vars
      PROVE  [Life!Next]_life
  <2>1. ASSUME NEW n, EnsureHeadedFor(n) PROVE [Life!Next]_life
    BY <2>1 DEF EnsureHeadedFor, MayStart, Restart, Alive, Life!Next, Life!Start, Life!Exit
  <2>2. ASSUME CloseSegment \/ FFmpegFails \/ FFmpegEndsEarly \/ Kill PROVE [Life!Next]_life
    BY <1>2, <2>2 DEF CloseSegment, FFmpegFails, FFmpegEndsEarly, FFmpegUnchanged, Kill,
      Alive, Inv, ServedInLife,
         Life!Next,
                      Life!Exit, Life!Close
  <2>3. ASSUME Close PROVE [Life!Next]_life
    BY <1>2, <2>3 DEF Close, Alive, Inv, ServedInLife, Life!Next, Life!Close
  <2>4. CASE UNCHANGED <<proc, closed>>
    BY <2>4 DEF Alive
  <2> QED
    BY <1>2, <2>1, <2>2, <2>3, <2>4
    DEF Next, FFmpeg, Wait, WriteInit, OpenSegment, FFmpegUnchanged, PrepareSpawn, PrepareAwait,
         Request,
        InitTest, CacheInit, SpawnIfDead, SpawnForInit, InitTestAgain, ReplyInit, Gate, GateReady,
             Snapshot,
        Look, Head, Open, Sent, GiveUp, HandlerOnly, vars, producerVars
<1>3. Spec => [][Next]_vars
  BY PTL DEF Spec
<1> QED  BY <1>1, <1>2, <1>3, Invariance, PTL DEF Spec, ImplementsLife, Life!Spec
==============================================================================
