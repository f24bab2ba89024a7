--------------------------- MODULE SessionProofs ---------------------------
(***************************************************************************)
(* Proofs about ProxySessions, for any number of plays, handlers, stops    *)
(* and restarts: every variable keeps its type, and no session is released *)
(* twice or while a handler works on it; and about ReadAhead, the window a *)
(* pass-through session owns, for any readers, file length, cap and chunk. *)
(*                                                                         *)
(* The argument for the sessions: the lease count of one is the number of  *)
(* handlers that hold it plus the leases leaked on it; _cleanup_started is *)
(* only ever set when that count is zero, and is never set twice, so the   *)
(* thread that set it is the only one that ever runs _cleanup_session on   *)
(* it, and no handler can lease it afterwards.                             *)
(*                                                                         *)
(* And for the window: it and what is written from it are the file's bytes *)
(* at their offsets, all of it one inductive invariant, for each part      *)
(* needs the others.                                                       *)
(***************************************************************************)
EXTENDS ProxySessions, ReadAhead, FiniteSetTheorems, TLAPS

------------------------------------------------------------------------------
(* Type correctness.                                                        *)

(* The initial state has the right types. *)
LEMMA TypeInit == Init => TypeOK
  BY NamesDistinct DEF Init, TypeOK, PrepareSteps, HandlerSteps, Threads

(* Taking everything out of the tables keeps the types. *)
LEMMA TypeTakeAll ==
  ASSUME NEW t \in Threads, TypeOK, TakeAll(t)
  PROVE  /\ table' \subseteq Plays /\ pending' \subseteq Plays
         /\ legacy' \in Plays \union {NONE}
         /\ todo' \in [Threads -> SUBSET Plays]
  BY DEF TypeOK, TakeAll

(* Every step of a prepare keeps the types. *)
LEMMA TypePrepare ==
  ASSUME NEW p \in Plays, TypeOK, Accept(p) \/ Prepare(p)
  PROVE  TypeOK'
<1> p \in Threads
  BY DEF Threads
<1>1. CASE Accept(p)
  <2>1. TakeAll(p)
    BY <1>1 DEF Accept
  <2>2. /\ table' \subseteq Plays /\ pending' \subseteq Plays
        /\ legacy' \in Plays \union {NONE} /\ todo' \in [Threads -> SUBSET Plays]
    BY <2>1, TypeTakeAll
  <2> QED
    BY <1>1, <2>2 DEF Accept, Goto, TypeOK, PrepareSteps, contextVars
<1>2. CASE Build(p)
  BY <1>2, KindsKnown DEF Build, Goto, TypeOK, PrepareSteps, serverVars
<1>3. CASE AddPending(p)
  BY <1>3 DEF AddPending, Goto, TypeOK, PrepareSteps, contextVars
<1>4. ASSUME FallBack(p)
      PROVE  /\ pending' \subseteq Plays
             /\ ppc' \in [Plays -> PrepareSteps]
             /\ kind' \in [Plays -> {"none", "proxy", "remux", "hls"}]
             /\ producer' \in [Plays -> {"none", "idle", "running", "closed"}]
  BY <1>4 DEF FallBack, DropPending, Goto, TypeOK, PrepareSteps
<1>5. CASE MakeProducer(p)
  BY <1>4, <1>5 DEF MakeProducer, Goto, TypeOK, PrepareSteps
<1>6. CASE SpawnProducer(p)
  BY <1>4, <1>6 DEF SpawnProducer, Goto, TypeOK, PrepareSteps
<1>7. CASE AwaitProducer(p)
  BY <1>4, <1>7 DEF AwaitProducer, DropPending, Goto, TypeOK, PrepareSteps
<1>8. CASE CheckCancelled(p)
  BY <1>8 DEF CheckCancelled, Goto, TypeOK, PrepareSteps, serverVars, contextVars
<1>9. CASE Register(p)
  BY <1>9 DEF Register, Pruned, Goto, TypeOK, PrepareSteps, contextVars
<1>10. CASE Respond(p)
  BY <1>10 DEF Respond, Goto, TypeOK, PrepareSteps, serverVars, contextVars
<1>11. CASE ClientGone(p)
  BY <1>11 DEF ClientGone, Goto, TypeOK, PrepareSteps, contextVars
<1>12. CASE ClearAfterFailure(p)
  <2>1. TakeAll(p) \/ UNCHANGED <<table, pending, legacy, todo>>
    BY <1>12 DEF ClearAfterFailure
  <2>2. /\ table' \subseteq Plays /\ pending' \subseteq Plays
        /\ legacy' \in Plays \union {NONE} /\ todo' \in [Threads -> SUBSET Plays]
    BY <2>1, TypeTakeAll DEF TypeOK
  <2> QED
    BY <1>12, <2>2 DEF ClearAfterFailure, Goto, TypeOK, PrepareSteps, contextVars
<1> QED
  BY <1>1, <1>2, <1>3, <1>5, <1>6, <1>7, <1>8, <1>9, <1>10, <1>11, <1>12 DEF Prepare

(* One lease fewer is still a number of leases. *)
LEMMA FewerNat == \A n \in Nat : Fewer(n) \in Nat
  BY DEF Fewer

(* Every step of a GET handler keeps the types. *)
LEMMA TypeHandler ==
  ASSUME NEW h \in Handlers, TypeOK, Lease(h) \/ MistakenHls(h) \/ Serve(h) \/ EnsureProducer(h)
  PROVE  TypeOK'
<1> h \in Threads
  BY DEF Threads
<1>1. CASE Lease(h)
  BY <1>1 DEF Lease, Move, TypeOK, HandlerSteps, serverVars
<1>2. CASE SpawnRemux(h)
  BY <1>2 DEF SpawnRemux, Move, TypeOK, HandlerSteps, serverVars, contextVars
<1>3. CASE KeepOrKill(h)
  BY <1>3 DEF KeepOrKill, Move, TypeOK, HandlerSteps, serverVars
<1>4. CASE RemuxEnds(h)
  BY <1>4 DEF RemuxEnds, Move, TypeOK, HandlerSteps, serverVars, contextVars
<1>5. CASE Untrack(h)
  BY <1>5 DEF Untrack, Untracked, Move, TypeOK, HandlerSteps, serverVars
<1>6. CASE ReleaseLease(h)
  <2> DEFINE s == hctx[h]
  <2>1. leases' \in [Plays -> Nat]
    <3>1. leases' = [leases EXCEPT ![s] = Fewer(leases[s])]
      BY <1>6 DEF ReleaseLease
    <3>2. CASE s \in Plays
      <4>1. Fewer(leases[s]) \in Nat
        BY <3>2, FewerNat DEF TypeOK
      <4> HIDE DEF s
      <4> QED
        BY <3>1, <4>1 DEF TypeOK
    <3>3. CASE s \notin Plays
      <4>1. leases' = leases
        BY <3>1, <3>3 DEF TypeOK
      <4> QED
        BY <4>1 DEF TypeOK
    <3> QED
      BY <3>2, <3>3
  <2>2. s \in Plays \union {NONE}
    BY DEF TypeOK
  <2>3. /\ started' = [started EXCEPT ![s] = TRUE] \/ started' = started
        /\ doing' = [doing EXCEPT ![h] = s] \/ doing' = doing
        /\ hctx' = [hctx EXCEPT ![h] = NONE] /\ hpc' = [hpc EXCEPT ![h] = "idle"]
        /\ UNCHANGED <<serverVars, kind, leaked, deferred, released, producer, active,
                       ppc, home, live, todo, stops>>
    BY <1>6 DEF ReleaseLease, Move
  <2> HIDE DEF s
  <2>4. [started EXCEPT ![s] = TRUE] \in [Plays -> BOOLEAN]
    BY DEF TypeOK
  <2>5. [doing EXCEPT ![h] = s] \in [Threads -> Plays \union {NONE}]
    BY <2>2 DEF TypeOK
  <2>6. started' \in [Plays -> BOOLEAN] /\ doing' \in [Threads -> Plays \union {NONE}]
    BY <2>3, <2>4, <2>5 DEF TypeOK
  <2> QED
    BY <2>1, <2>3, <2>6 DEF TypeOK, HandlerSteps, serverVars
<1>7. CASE EnsureProducer(h)
  BY <1>7 DEF EnsureProducer, TypeOK, serverVars, threadVars
<1>8. CASE MistakenHls(h)
  BY <1>8 DEF MistakenHls, TypeOK, serverVars, threadVars
<1> QED
  BY <1>1, <1>2, <1>3, <1>4, <1>5, <1>6, <1>7, <1>8 DEF Serve

(* Cleaning up keeps the types. *)
LEMMA TypeCleanup ==
  ASSUME NEW t \in Threads, TypeOK, Cleanup(t)
  PROVE  TypeOK'
<1>1. CASE CleanupOrDefer(t)
  <2>1. PICK s \in todo[t] :
          /\ todo' = [todo EXCEPT ![t] = @ \ {s}]
          /\ deferred' = [deferred EXCEPT ![s] = TRUE] \/ deferred' = deferred
          /\ started' = [started EXCEPT ![s] = TRUE] \/ started' = started
          /\ doing' = [doing EXCEPT ![t] = s] \/ doing' = doing
    BY <1>1 DEF CleanupOrDefer
  <2>2. s \in Plays
    BY DEF TypeOK
  <2>3. UNCHANGED <<serverVars, kind, leases, leaked, released, producer, active,
                    ppc, home, hpc, hctx, live, stops>>
    BY <1>1 DEF CleanupOrDefer
  <2>4. /\ todo' \in [Threads -> SUBSET Plays]
        /\ deferred' \in [Plays -> BOOLEAN]
        /\ started' \in [Plays -> BOOLEAN]
        /\ doing' \in [Threads -> Plays \union {NONE}]
    BY <2>1, <2>2 DEF TypeOK
  <2> QED
    BY <2>3, <2>4 DEF TypeOK, serverVars
<1>2. CASE CleanupSession(t)
  BY <1>2 DEF CleanupSession, Closed, TypeOK, serverVars
<1> QED
  BY <1>1, <1>2 DEF Cleanup

(* The callbacks, the service loop and the processes keep the types. *)
LEMMA TypeOthers ==
  ASSUME TypeOK, PlayerStops \/ ListenerDies \/ Restart \/ FfmpegExits
  PROVE  TypeOK'
<1> Player \in Threads /\ Service \in Threads
  BY DEF Threads
<1>1. CASE PlayerStops
  BY <1>1 DEF PlayerStops, TakeAll, TypeOK, contextVars
<1>2. CASE ListenerDies
  BY <1>2 DEF ListenerDies, TypeOK, contextVars, threadVars
<1>3. CASE StopClears
  BY <1>3 DEF StopClears, TakeAll, TypeOK, contextVars
<1>4. CASE StopCloses
  BY <1>4 DEF StopCloses, TypeOK, contextVars, threadVars
<1>5. CASE StartAgain
  BY <1>5 DEF StartAgain, TypeOK, contextVars, threadVars
<1>6. CASE FfmpegExits
  BY <1>6 DEF FfmpegExits, TypeOK, serverVars
<1> QED
  BY <1>1, <1>2, <1>3, <1>4, <1>5, <1>6 DEF Restart

(* Every step keeps the types. *)
LEMMA TypeNext == TypeOK /\ [Next]_vars => TypeOK'
<1> SUFFICES ASSUME TypeOK, [Next]_vars PROVE TypeOK'
  OBVIOUS
<1>1. CASE UNCHANGED vars
  BY <1>1 DEF TypeOK, vars, serverVars, contextVars, threadVars
<1>2. CASE \E p \in Plays : Accept(p) \/ Prepare(p)
  BY <1>2, TypePrepare
<1>3. CASE \E h \in Handlers : Lease(h) \/ MistakenHls(h) \/ Serve(h) \/ EnsureProducer(h)
  BY <1>3, TypeHandler
<1>4. CASE \E t \in Threads : Cleanup(t)
  BY <1>4, TypeCleanup
<1>5. CASE PlayerStops \/ ListenerDies \/ Restart \/ FfmpegExits
  BY <1>5, TypeOthers
<1> QED
  BY <1>1, <1>2, <1>3, <1>4, <1>5 DEF Next

(* Every variable of ProxySessions always holds a value of its kind. *)
THEOREM TypeCorrect == Spec => []TypeOK
  BY TypeInit, TypeNext, PTL DEF Spec

------------------------------------------------------------------------------
(* Nothing is released twice, nor under a handler.                          *)

(* The handlers that hold a lease on s. *)
Users(s) == {h \in Handlers : hctx[h] = s}

(* A handler holds a lease exactly while it is at work, and _active_handlers counts them,
   besides the leases nobody will give back. *)
Leased ==
  /\ \A h \in Handlers : (hpc[h] = "idle") <=> (hctx[h] = NONE)
  /\ \A s \in Plays : leases[s] = Cardinality(Users(s)) + leaked[s]

(* _cleanup_started is set on unleased sessions only, before the release it
   announces, by the one thread that then runs it. *)
Claimed ==
  /\ \A s \in Plays : started[s] => leases[s] = 0
  /\ \A s \in Plays : released[s] <= 1 /\ (released[s] > 0 => started[s])
  /\ \A t \in Threads : doing[t] # NONE => started[doing[t]] /\ released[doing[t]] = 0
  /\ \A t, u \in Threads : doing[t] # NONE /\ doing[t] = doing[u] => t = u

SafeInv == TypeOK /\ Leased /\ Claimed

(* What the argument looks at. *)
claimVars == <<leases, leaked, started, released, doing>>

(* Initially nobody holds or releases anything. *)
LEMMA SafeInit == Init => SafeInv
<1> SUFFICES ASSUME Init PROVE SafeInv
  OBVIOUS
<1>1. TypeOK
  BY TypeInit
<1>2. ASSUME NEW s \in Plays PROVE leases[s] = Cardinality(Users(s)) + leaked[s]
  <2>1. Users(s) = {}
    BY NamesDistinct DEF Init, Users
  <2> QED
    BY <2>1, FS_EmptySet DEF Init
<1>3. Leased
  BY <1>2 DEF Init, Leased
<1>4. Claimed
  BY DEF Init, Claimed
<1> QED
  BY <1>1, <1>3, <1>4 DEF SafeInv

(* A step that touches neither leases nor claims keeps both, wherever a busy
   handler goes as long as it stays busy. *)
LEMMA SafeFrame ==
  ASSUME SafeInv, TypeOK', UNCHANGED claimVars, UNCHANGED hctx,
         \A h \in Handlers : (hpc'[h] = "idle") <=> (hpc[h] = "idle")
  PROVE  SafeInv'
<1>1. Leased'
  BY DEF SafeInv, Leased, Users, claimVars
<1>2. Claimed'
  BY DEF SafeInv, Claimed, claimVars
<1> QED
  BY <1>1, <1>2 DEF SafeInv

(* A GET that leases a session adds itself to the count; sessions being torn
   down are refused. *)
LEMMA SafeLease ==
  ASSUME NEW h \in Handlers, SafeInv, TypeOK', Lease(h)
  PROVE  SafeInv'
<1>0. PICK s \in Plays :
        /\ ~started[s]
        /\ leases' = [leases EXCEPT ![s] = leases[s] + 1]
        /\ hctx' = [hctx EXCEPT ![h] = s]
        /\ hpc' = [hpc EXCEPT ![h] = IF kind[s] = "remux" THEN "spawn" ELSE "body"]
  <2>1. table \subseteq Plays
    BY DEF SafeInv, TypeOK
  <2> QED
    BY <2>1 DEF Lease, Move, TornDown
<1>1. /\ ~started[s]
      /\ leases' = [leases EXCEPT ![s] = leases[s] + 1]
      /\ hctx' = [hctx EXCEPT ![h] = s]
      /\ hpc'[h] # "idle"
      /\ \A g \in Handlers \ {h} : hpc'[g] = hpc[g]
  BY <1>0 DEF SafeInv, TypeOK
<1>2. UNCHANGED <<leaked, started, released, doing>> /\ hpc[h] = "idle"
  BY DEF Lease
<1>3. hctx[h] = NONE
  BY <1>2 DEF SafeInv, Leased
<1>4. \A g \in Handlers : (hpc'[g] = "idle") <=> (hctx'[g] = NONE)
  BY <1>1, <1>3, NamesDistinct DEF SafeInv, Leased, TypeOK
<1>5. ASSUME NEW r \in Plays PROVE leases'[r] = Cardinality(Users(r)') + leaked'[r]
  <2>1. CASE r = s
    <3>1. Users(r)' = Users(r) \union {h}
      BY <1>1, <2>1 DEF Users, SafeInv, TypeOK
    <3>2. h \notin Users(r)
      BY <1>3, NamesDistinct DEF Users
    <3>3. IsFiniteSet(Users(r))
      BY FS_Subset, HandlersFinite DEF Users
    <3>4. Cardinality(Users(r) \union {h}) = Cardinality(Users(r)) + 1
      BY <3>2, <3>3, FS_AddElement
    <3>5. Cardinality(Users(r)) \in Nat
      BY <3>3, FS_CardinalityType
    <3> QED
      BY <1>1, <1>2, <2>1, <3>1, <3>4, <3>5 DEF SafeInv, Leased, TypeOK
  <2>2. CASE r # s
    <3>1. Users(r)' = Users(r)
      BY <1>1, <1>3, <2>2, NamesDistinct DEF Users, SafeInv, TypeOK
    <3> QED
      BY <1>1, <1>2, <2>2, <3>1 DEF SafeInv, Leased, TypeOK
  <2> QED
    BY <2>1, <2>2
<1>6. Leased'
  BY <1>4, <1>5 DEF Leased
<1>7. Claimed'
  BY <1>1, <1>2 DEF SafeInv, Claimed, TypeOK
<1> QED
  BY <1>6, <1>7 DEF SafeInv

(* A mistaken HLS request adds to the count a lease that nobody holds. *)
LEMMA SafeMistaken ==
  ASSUME NEW h \in Handlers, SafeInv, TypeOK', MistakenHls(h)
  PROVE  SafeInv'
<1>1. PICK s \in Plays :
        /\ ~started[s]
        /\ leases' = [leases EXCEPT ![s] = leases[s] + 1]
        /\ leaked' = [leaked EXCEPT ![s] = leaked[s] + 1]
  <2>1. table \subseteq Plays
    BY DEF SafeInv, TypeOK
  <2> QED
    BY <2>1 DEF MistakenHls, TornDown
<1>2. UNCHANGED <<started, released, doing, hpc, hctx>>
  BY DEF MistakenHls, threadVars
<1>3. ASSUME NEW r \in Plays PROVE leases'[r] = Cardinality(Users(r)') + leaked'[r]
  <2>1. IsFiniteSet(Users(r)) /\ Users(r)' = Users(r)
    BY <1>2, FS_Subset, HandlersFinite DEF Users
  <2>2. Cardinality(Users(r)) \in Nat
    BY <2>1, FS_CardinalityType
  <2>3. leases[r] = Cardinality(Users(r)) + leaked[r]
    BY DEF SafeInv, Leased
  <2> QED
    BY <1>1, <2>1, <2>2, <2>3 DEF SafeInv, TypeOK
<1>4. Leased'
  BY <1>2, <1>3 DEF SafeInv, Leased
<1>5. Claimed'
  BY <1>1, <1>2 DEF SafeInv, Claimed, TypeOK
<1> QED
  BY <1>4, <1>5 DEF SafeInv

(* A handler that leaves takes itself off the count; if it was the last one and
   a teardown waits for it, it claims that teardown. *)
LEMMA SafeRelease ==
  ASSUME NEW h \in Handlers, SafeInv, TypeOK', ReleaseLease(h)
  PROVE  SafeInv'
<1>0. PICK s : s = hctx[h]
  OBVIOUS
<1>1. /\ leases' = [leases EXCEPT ![s] = Fewer(leases[s])]
      /\ \/ /\ LastOut(s)
            /\ started' = [started EXCEPT ![s] = TRUE]
            /\ doing' = [doing EXCEPT ![h] = s]
         \/ UNCHANGED <<started, doing>>
      /\ hctx' = [hctx EXCEPT ![h] = NONE]
      /\ hpc' = [hpc EXCEPT ![h] = "idle"]
      /\ UNCHANGED <<released, leaked>>
      /\ hpc[h] # "idle"
  BY <1>0 DEF ReleaseLease, Move
<1>2. s \in Plays /\ s # NONE
  BY <1>0, <1>1, NamesDistinct DEF SafeInv, Leased, TypeOK
<1>3. /\ IsFiniteSet(Users(s)) /\ h \in Users(s)
      /\ Users(s)' = Users(s) \ {h}
  <2>1. IsFiniteSet(Users(s))
    BY FS_Subset, HandlersFinite DEF Users
  <2>2. h \in Users(s)
    BY <1>0 DEF Users
  <2>3. \A g \in Handlers : hctx'[g] = IF g = h THEN NONE ELSE hctx[g]
    BY <1>1 DEF SafeInv, TypeOK
  <2>4. Users(s)' = Users(s) \ {h}
    BY <1>2, <2>3 DEF Users
  <2> QED
    BY <2>1, <2>2, <2>4
<1>4. /\ Cardinality(Users(s)) \in Nat /\ Cardinality(Users(s)) # 0
      /\ Cardinality(Users(s)') = Cardinality(Users(s)) - 1
  BY <1>3, FS_RemoveElement, FS_EmptySet, FS_CardinalityType
<1>5. leases[s] = Cardinality(Users(s)) + leaked[s] /\ leaked[s] \in Nat
  BY <1>2 DEF SafeInv, Leased, TypeOK
<1>6. \A g \in Handlers : (hpc'[g] = "idle") <=> (hctx'[g] = NONE)
  BY <1>1 DEF SafeInv, Leased, TypeOK
<1>7. ASSUME NEW r \in Plays PROVE leases'[r] = Cardinality(Users(r)') + leaked'[r]
  <2>1. CASE r = s
    BY <1>1, <1>2, <1>4, <1>5, <2>1 DEF SafeInv, TypeOK, Fewer
  <2>2. CASE r # s
    <3>1. \A g \in Handlers : hctx'[g] = IF g = h THEN NONE ELSE hctx[g]
      BY <1>1 DEF SafeInv, TypeOK
    <3>2. Users(r)' = Users(r)
      BY <1>0, <2>2, <3>1, NamesDistinct DEF Users
    <3> QED
      BY <1>1, <2>2, <3>2 DEF SafeInv, Leased, TypeOK
  <2> QED
    BY <2>1, <2>2
<1>8. Leased'
  BY <1>6, <1>7 DEF Leased
<1>9. Claimed'
  <2>1. ~started[s]
    BY <1>2, <1>4, <1>5 DEF SafeInv, Claimed
  <2>2. \A t \in Threads : doing[t] # s
    BY <1>2, <2>1 DEF SafeInv, Claimed
  <2>3. released[s] = 0
    BY <1>2, <2>1 DEF SafeInv, Claimed, TypeOK
  <2>4. CASE UNCHANGED <<started, doing>>
    BY <1>1, <1>2, <2>1, <2>4 DEF SafeInv, Claimed, TypeOK
  <2>5. CASE /\ LastOut(s)
             /\ started' = [started EXCEPT ![s] = TRUE]
             /\ doing' = [doing EXCEPT ![h] = s]
    <3>1. leases'[s] = 0
      BY <1>1, <1>2, <2>5 DEF LastOut, Fewer, SafeInv, TypeOK
    <3> QED
      BY <1>1, <1>2, <2>2, <2>3, <2>5, <3>1 DEF SafeInv, Claimed, TypeOK
  <2> QED
    BY <1>1, <2>4, <2>5
<1> QED
  BY <1>8, <1>9 DEF SafeInv

(* Taking a session on for clean-up claims it only if nobody has, and nobody
   holds it. *)
LEMMA SafeCleanupOrDefer ==
  ASSUME NEW t \in Threads, SafeInv, TypeOK', CleanupOrDefer(t)
  PROVE  SafeInv'
<1>1. PICK s \in todo[t] :
        \/ UNCHANGED <<started, doing>>
        \/ /\ ~started[s] /\ leases[s] = 0
           /\ started' = [started EXCEPT ![s] = TRUE]
           /\ doing' = [doing EXCEPT ![t] = s]
  BY DEF CleanupOrDefer, TornDown
<1>2. s \in Plays /\ s # NONE
  BY NamesDistinct DEF SafeInv, TypeOK
<1>3. UNCHANGED <<leases, leaked, released, hpc, hctx>> /\ doing[t] = NONE
  BY DEF CleanupOrDefer
<1>4. CASE UNCHANGED <<started, doing>>
  BY <1>3, <1>4, SafeFrame DEF claimVars
<1>5. CASE /\ ~started[s] /\ leases[s] = 0
           /\ started' = [started EXCEPT ![s] = TRUE]
           /\ doing' = [doing EXCEPT ![t] = s]
  <2>1. Leased'
    BY <1>3 DEF SafeInv, Leased, Users
  <2>2. \A u \in Threads : doing[u] # s
    BY <1>2, <1>5 DEF SafeInv, Claimed
  <2>3. released[s] = 0
    BY <1>2, <1>5 DEF SafeInv, Claimed, TypeOK
  <2>4. Claimed'
    BY <1>2, <1>3, <1>5, <2>2, <2>3 DEF SafeInv, Claimed, TypeOK
  <2> QED
    BY <2>1, <2>4 DEF SafeInv
<1> QED
  BY <1>1, <1>4, <1>5

(* Running the release it claimed, a thread makes it the session's only one. *)
LEMMA SafeCleanupSession ==
  ASSUME NEW t \in Threads, SafeInv, TypeOK', CleanupSession(t)
  PROVE  SafeInv'
<1> DEFINE s == doing[t]
<1>1. /\ s # NONE
      /\ released' = [released EXCEPT ![s] = released[s] + 1]
      /\ doing' = [doing EXCEPT ![t] = NONE]
      /\ UNCHANGED <<leases, leaked, started, hpc, hctx>>
  BY DEF CleanupSession
<1>2. s \in Plays /\ started[s] /\ released[s] = 0
  BY <1>1 DEF SafeInv, TypeOK, Claimed
<1>3. \A u \in Threads \ {t} : doing[u] # s
  BY <1>1 DEF SafeInv, Claimed
<1>4. Leased'
  BY <1>1 DEF SafeInv, Leased, Users
<1>5. Claimed'
  BY <1>1, <1>2, <1>3 DEF SafeInv, Claimed, TypeOK
<1> QED
  BY <1>4, <1>5 DEF SafeInv

(* Every step keeps the invariant. *)
LEMMA SafeNext == SafeInv /\ [Next]_vars => SafeInv'
<1> SUFFICES ASSUME SafeInv, [Next]_vars PROVE SafeInv'
  OBVIOUS
<1>0. TypeOK'
  BY TypeNext DEF SafeInv
<1>1. CASE UNCHANGED vars
  BY <1>0, <1>1, SafeFrame DEF vars, contextVars, threadVars, claimVars
<1>2. ASSUME NEW p \in Plays, Accept(p) \/ Prepare(p) PROVE SafeInv'
  <2>1. UNCHANGED claimVars /\ UNCHANGED <<hpc, hctx>>
    BY <1>2 DEF Accept, Prepare, Build, AddPending, MakeProducer, SpawnProducer,
                AwaitProducer, CheckCancelled, Register, Respond, ClientGone,
                ClearAfterFailure, contextVars, claimVars
  <2> QED
    BY <1>0, <2>1, SafeFrame
<1>3. ASSUME NEW h \in Handlers, Lease(h) \/ MistakenHls(h) \/ Serve(h) \/ EnsureProducer(h)
      PROVE  SafeInv'
  <2>1. CASE Lease(h)
    BY <1>0, <2>1, SafeLease
  <2>2. CASE ReleaseLease(h)
    BY <1>0, <2>2, SafeRelease
  <2>3. CASE EnsureProducer(h)
    BY <1>0, <2>3, SafeFrame DEF EnsureProducer, threadVars, claimVars
  <2>4. CASE SpawnRemux(h) \/ KeepOrKill(h) \/ RemuxEnds(h) \/ Untrack(h)
    <3>1. UNCHANGED claimVars /\ UNCHANGED hctx
      BY <2>4 DEF SpawnRemux, KeepOrKill, RemuxEnds, Untrack, contextVars, claimVars
    <3>2. \A g \in Handlers : (hpc'[g] = "idle") <=> (hpc[g] = "idle")
      BY <2>4 DEF SpawnRemux, KeepOrKill, RemuxEnds, Untrack, Move, SafeInv, TypeOK
    <3> QED
      BY <1>0, <3>1, <3>2, SafeFrame
  <2> QED
    BY <1>3, <2>1, <2>2, <2>3, <2>4, SafeMistaken, <1>0 DEF Serve
<1>4. ASSUME NEW t \in Threads, Cleanup(t) PROVE SafeInv'
  BY <1>0, <1>4, SafeCleanupOrDefer, SafeCleanupSession DEF Cleanup
<1>5. CASE PlayerStops \/ ListenerDies \/ Restart \/ FfmpegExits
  <2>1. UNCHANGED claimVars /\ UNCHANGED <<hpc, hctx>>
    BY <1>5 DEF PlayerStops, ListenerDies, Restart, StopClears, StopCloses, StartAgain,
                FfmpegExits, contextVars, threadVars, claimVars
  <2> QED
    BY <1>0, <2>1, SafeFrame
<1> QED
  BY <1>1, <1>2, <1>3, <1>4, <1>5 DEF Next

(* The invariant holds in every reachable state. *)
LEMMA SafeAlways == Spec => []SafeInv
  BY SafeInit, SafeNext, PTL DEF Spec

(* What a session owns is released at most once, whoever races to do it. *)
THEOREM ReleasedOnce == Spec => []CleanedOnce
<1>1. SafeInv => CleanedOnce
  BY NamesDistinct DEF SafeInv, Claimed, CleanedOnce
<1> QED
  BY <1>1, SafeAlways, PTL

(* No session is released, or being released, while a GET handler works on it. *)
THEOREM NeverReleasedInUse == Spec => []NotCleanedInUse
<1>1. SafeInv => NotCleanedInUse
  <2> SUFFICES ASSUME SafeInv, NEW h \in Handlers, NEW s \in Plays, hctx[h] = s
               PROVE  released[s] = 0 /\ \A t \in Threads : doing[t] # s
    BY DEF NotCleanedInUse
  <2>1. IsFiniteSet(Users(s)) /\ h \in Users(s)
    BY FS_Subset, HandlersFinite DEF Users
  <2>2. leases[s] # 0
    <3>1. Cardinality(Users(s)) \in Nat /\ Cardinality(Users(s)) # 0
      BY <2>1, FS_EmptySet, FS_CardinalityType
    <3> QED
      BY <3>1 DEF SafeInv, Leased, TypeOK
  <2>3. ~started[s]
    BY <2>2 DEF SafeInv, Claimed
  <2> QED
    BY <2>3, NamesDistinct DEF SafeInv, Claimed, TypeOK
<1> QED
  BY <1>1, SafeAlways, PTL

------------------------------------------------------------------------------
(* The table stays within its bound and serves the bare path.               *)

(* Initially the table is empty. *)
LEMMA LegacyInit == Init => LegacyIsRegistered
  BY FS_EmptySet, BoundsAssumption DEF Init, LegacyIsRegistered

(* A table that loses sessions, and the bare path with them, stays in bounds. *)
LEMMA LegacyShrink ==
  ASSUME TypeOK, LegacyIsRegistered, table' \subseteq table,
         legacy' # NONE => legacy' \in table'
  PROVE  LegacyIsRegistered'
<1>1. IsFiniteSet(table)
  BY PlaysFinite, FS_Subset DEF TypeOK
<1>2. IsFiniteSet(table') /\ Cardinality(table') <= Cardinality(table)
  BY <1>1, FS_Subset
<1>3. Cardinality(table) \in Nat /\ Cardinality(table') \in Nat
  BY <1>1, <1>2, FS_CardinalityType
<1> QED
  BY <1>2, <1>3, BoundsAssumption DEF LegacyIsRegistered

(* Every step keeps both: only Register adds, and it prunes. *)
LEMMA LegacyNext == TypeOK /\ LegacyIsRegistered /\ [Next]_vars => LegacyIsRegistered'
<1> SUFFICES ASSUME TypeOK, LegacyIsRegistered, [Next]_vars PROVE LegacyIsRegistered'
  OBVIOUS
<1>1. CASE UNCHANGED <<table, legacy>>
  BY <1>1 DEF LegacyIsRegistered
<1>2. CASE table' = {} /\ legacy' = NONE
  BY <1>2, LegacyShrink
<1>3. ASSUME NEW p \in Plays, Register(p) PROVE LegacyIsRegistered'
  <2>1. CASE HasServer(p)
    BY <1>3, <2>1 DEF Register, Pruned, LegacyIsRegistered
  <2>2. CASE ~HasServer(p)
    BY <1>1, <1>3, <2>2 DEF Register
  <2> QED
    BY <2>1, <2>2
<1>4. ASSUME NEW p \in Plays, ClientGone(p) PROVE LegacyIsRegistered'
  <2>1. CASE UNCHANGED <<table, legacy>>
    BY <1>1, <2>1
  <2>2. CASE table' = table \ {p} /\ legacy' = IF legacy = p THEN NONE ELSE legacy
    <3>1. legacy' # NONE => legacy' \in table'
      BY <2>2 DEF LegacyIsRegistered
    <3> QED
      BY <2>2, <3>1, LegacyShrink
  <2> QED
    BY <1>4, <2>1, <2>2 DEF ClientGone
<1>5. ASSUME NEW p \in Plays, Accept(p) \/ Prepare(p) PROVE LegacyIsRegistered'
  <2>1. CASE Accept(p) \/ ClearAfterFailure(p)
    BY <1>1, <1>2, <2>1 DEF Accept, ClearAfterFailure, TakeAll
  <2>2. CASE \/ Build(p) \/ AddPending(p) \/ MakeProducer(p) \/ SpawnProducer(p)
             \/ AwaitProducer(p) \/ CheckCancelled(p) \/ Respond(p)
    BY <1>1, <2>2 DEF Build, AddPending, MakeProducer, SpawnProducer, AwaitProducer,
                      CheckCancelled, Respond, serverVars
  <2> QED
    BY <1>3, <1>4, <1>5, <2>1, <2>2 DEF Prepare
<1>6. ASSUME NEW h \in Handlers, Lease(h) \/ MistakenHls(h) \/ Serve(h) \/ EnsureProducer(h)
      PROVE  LegacyIsRegistered'
  BY <1>1, <1>6 DEF Lease, MistakenHls, Serve, SpawnRemux, KeepOrKill, RemuxEnds, Untrack,
                    ReleaseLease, EnsureProducer, serverVars
<1>7. ASSUME NEW t \in Threads, Cleanup(t) PROVE LegacyIsRegistered'
  BY <1>1, <1>7 DEF Cleanup, CleanupOrDefer, CleanupSession, serverVars
<1>8. CASE PlayerStops \/ ListenerDies \/ Restart \/ FfmpegExits
  BY <1>1, <1>2, <1>8 DEF PlayerStops, ListenerDies, Restart, StopClears, StopCloses,
                          StartAgain, FfmpegExits, TakeAll, serverVars
<1>9. CASE UNCHANGED vars
  BY <1>1, <1>9 DEF vars, serverVars
<1> QED
  BY <1>5, <1>6, <1>7, <1>8, <1>9 DEF Next

(* The bare path serves a registered session or none, and the table never
   holds more sessions than it may. *)
THEOREM TableBounded == Spec => []LegacyIsRegistered
  BY TypeCorrect, LegacyInit, LegacyNext, PTL DEF Spec

------------------------------------------------------------------------------
(* One ffmpeg process serves a remux session.                               *)

(* A handler that is not the one moved stays where it was. *)
LEMMA MoveOthers ==
  ASSUME TypeOK, NEW h \in Handlers, NEW place, Move(h, place)
  PROVE  hpc'[h] = place /\ \A g \in Handlers \ {h} : hpc'[g] = hpc[g]
  BY DEF Move, TypeOK

(* Whatever starts no process, tracks none and puts no handler at the pipe
   keeps the tracked process the only one. *)
LEMMA OneFrame ==
  ASSUME OneFfmpeg, UNCHANGED <<active, hctx>>, live' \subseteq live,
         \A h \in Handlers : hpc'[h] = "remux" => hpc[h] = "remux"
  PROVE  OneFfmpeg'
  BY DEF OneFfmpeg

(* Every step keeps it: the compare-and-swap refuses a second process while the
   tracked one runs, and a handler drops only its own handle. *)
LEMMA OneNext == SafeInv /\ OneFfmpeg /\ [Next]_vars => OneFfmpeg'
<1> SUFFICES ASSUME SafeInv, OneFfmpeg, [Next]_vars PROVE OneFfmpeg'
  OBVIOUS
<1> TypeOK
  BY DEF SafeInv
<1>1. CASE UNCHANGED <<active, hctx, hpc>> /\ live' \subseteq live
  BY <1>1, OneFrame
<1>2. ASSUME NEW h \in Handlers, Lease(h) PROVE OneFfmpeg'
  <2>1. PICK s : hctx' = [hctx EXCEPT ![h] = s] /\ UNCHANGED <<active, live>>
    BY <1>2 DEF Lease
  <2>2. hpc'[h] # "remux" /\ \A g \in Handlers \ {h} : hpc'[g] = hpc[g]
    <3>1. PICK place \in {"spawn", "body"} : Move(h, place)
      BY <1>2 DEF Lease
    <3> QED
      BY <3>1, MoveOthers
  <2>3. \A g \in Handlers \ {h} : hctx'[g] = hctx[g]
    BY <2>1 DEF TypeOK
  <2> QED
    BY <2>1, <2>2, <2>3 DEF OneFfmpeg
<1>3. ASSUME NEW h \in Handlers, SpawnRemux(h) PROVE OneFfmpeg'
  <2>1. PICK place \in {"cas", "body"} : Move(h, place)
    BY <1>3 DEF SpawnRemux
  <2>2. hpc'[h] # "remux" /\ \A g \in Handlers \ {h} : hpc'[g] = hpc[g]
    BY <2>1, MoveOthers
  <2>3. UNCHANGED <<active, hctx>> /\ live' \subseteq live \union {h}
    BY <1>3 DEF SpawnRemux, contextVars
  <2> QED
    BY <2>2, <2>3 DEF OneFfmpeg
<1>4. ASSUME NEW h \in Handlers, KeepOrKill(h) PROVE OneFfmpeg'
  <2>1. PICK s : s = hctx[h]
    OBVIOUS
  <2>2. s \in Plays
    BY <1>4, <2>1 DEF KeepOrKill, SafeInv, Leased, TypeOK
  <2>3. UNCHANGED hctx
    BY <1>4 DEF KeepOrKill
  <2>4. CASE Occupied(s)
    <3>1. Move(h, "body") /\ UNCHANGED active /\ live' \subseteq live
      BY <1>4, <2>1, <2>4 DEF KeepOrKill
    <3>2. hpc'[h] = "body" /\ \A g \in Handlers \ {h} : hpc'[g] = hpc[g]
      BY <3>1, MoveOthers
    <3> QED
      BY <2>3, <3>1, <3>2 DEF OneFfmpeg
  <2>5. CASE ~Occupied(s)
    <3>1. Move(h, "remux") /\ active' = [active EXCEPT ![s] = h] /\ live' = live
      BY <1>4, <2>1, <2>5 DEF KeepOrKill
    <3>2. hpc'[h] = "remux" /\ \A g \in Handlers \ {h} : hpc'[g] = hpc[g]
      BY <3>1, MoveOthers
    <3>3. active'[s] = h /\ \A r \in Plays \ {s} : active'[r] = active[r]
      BY <2>2, <3>1 DEF TypeOK
    <3>4. \A g \in Handlers : hctx[g] = s /\ hpc[g] = "remux" => g \notin live
      BY <2>2, <2>5, NamesDistinct DEF OneFfmpeg, Occupied, TypeOK
    <3> QED
      BY <2>1, <2>3, <3>1, <3>2, <3>3, <3>4 DEF OneFfmpeg
  <2> QED
    BY <2>4, <2>5
<1>5. ASSUME NEW h \in Handlers, RemuxEnds(h) PROVE OneFfmpeg'
  <2>1. Move(h, "finish") /\ UNCHANGED <<active, hctx>> /\ live' \subseteq live
    BY <1>5 DEF RemuxEnds, contextVars
  <2>2. hpc'[h] = "finish" /\ \A g \in Handlers \ {h} : hpc'[g] = hpc[g]
    BY <2>1, MoveOthers
  <2> QED
    BY <2>1, <2>2, OneFrame
<1>6. ASSUME NEW h \in Handlers, Untrack(h) PROVE OneFfmpeg'
  <2>1. PICK s : s = hctx[h]
    OBVIOUS
  <2>2. /\ Move(h, "body") /\ UNCHANGED <<hctx, live>>
        /\ active' = [active EXCEPT ![s] = Untracked(h, s)]
    BY <1>6, <2>1 DEF Untrack
  <2>3. hpc'[h] = "body" /\ \A g \in Handlers \ {h} : hpc'[g] = hpc[g]
    BY <2>2, MoveOthers
  <2>4. \A r \in Plays, g \in Handlers \ {h} : active[r] = g => active'[r] = g
    BY <2>2 DEF Untracked, TypeOK
  <2> QED
    BY <2>2, <2>3, <2>4 DEF OneFfmpeg
<1>7. ASSUME NEW h \in Handlers, ReleaseLease(h) PROVE OneFfmpeg'
  <2>1. /\ Move(h, "idle") /\ UNCHANGED <<active, live>>
        /\ hctx' = [hctx EXCEPT ![h] = NONE]
    BY <1>7 DEF ReleaseLease
  <2>2. hpc'[h] = "idle" /\ \A g \in Handlers \ {h} : hpc'[g] = hpc[g]
    BY <2>1, MoveOthers
  <2>3. \A g \in Handlers \ {h} : hctx'[g] = hctx[g]
    BY <2>1 DEF TypeOK
  <2> QED
    BY <2>1, <2>2, <2>3 DEF OneFfmpeg
<1>8. ASSUME NEW p \in Plays, Accept(p) \/ Prepare(p) PROVE OneFfmpeg'
  <2>1. UNCHANGED <<active, hctx, hpc, live>>
    BY <1>8 DEF Accept, Prepare, Build, AddPending, MakeProducer, SpawnProducer,
                AwaitProducer, CheckCancelled, Register, Respond, ClientGone,
                ClearAfterFailure, contextVars
  <2> QED
    BY <1>1, <2>1
<1>9. ASSUME NEW t \in Threads, Cleanup(t) PROVE OneFfmpeg'
  BY <1>1, <1>9 DEF Cleanup, CleanupOrDefer, CleanupSession
<1>10. CASE PlayerStops \/ ListenerDies \/ Restart \/ FfmpegExits
  BY <1>1, <1>10 DEF PlayerStops, ListenerDies, Restart, StopClears, StopCloses,
                     StartAgain, FfmpegExits, contextVars, threadVars
<1>11. CASE UNCHANGED vars
  BY <1>1, <1>11 DEF vars, contextVars, threadVars
<1>12. ASSUME NEW h \in Handlers, EnsureProducer(h) PROVE OneFfmpeg'
  BY <1>1, <1>12 DEF EnsureProducer, threadVars
<1>13. ASSUME NEW h \in Handlers, MistakenHls(h) PROVE OneFfmpeg'
  BY <1>1, <1>13 DEF MistakenHls, threadVars
<1> QED
  BY <1>2, <1>3, <1>4, <1>5, <1>6, <1>7, <1>8, <1>9, <1>10, <1>11, <1>12, <1>13 DEF Next, Serve

(* However many range requests race on a remux session, the process of every
   handler at its pipe is the one the session tracks. *)
THEOREM OneProcess == Spec => []OneFfmpeg
<1>1. Init => OneFfmpeg
  BY DEF Init, OneFfmpeg
<1> QED
  BY <1>1, SafeAlways, OneNext, PTL DEF Spec

------------------------------------------------------------------------------
(* A closed producer stays closed.                                          *)

(* A prepare that has not come to make its producer has none: nobody else can
   have made one, or closed one, for its session. *)
NotMadeYet ==
  \A p \in Plays : ppc[p] \in {"idle", "build", "pend", "make"} => producer[p] = "none"

(* A prepare that moves on leaves the other prepares where they are. *)
LEMMA GotoOthers ==
  ASSUME TypeOK, NEW p \in Plays, NEW place, Goto(p, place)
  PROVE  ppc'[p] = place /\ \A q \in Plays \ {p} : ppc'[q] = ppc[q]
  BY DEF Goto, TypeOK

(* The steps of a prepare: each goes to one place and changes no producer but
   its own. *)
LEMMA PrepareMoves ==
  ASSUME TypeOK, NEW p \in Plays, Accept(p) \/ Prepare(p)
  PROVE  \A q \in Plays \ {p} : ppc'[q] = ppc[q] /\ producer'[q] = producer[q]
<1>1. \E place : Goto(p, place)
  <2>1. CASE Accept(p)
    BY <2>1 DEF Accept
  <2>2. CASE Build(p)
    BY <2>2 DEF Build
  <2>3. CASE AddPending(p)
    BY <2>3 DEF AddPending
  <2>4. CASE MakeProducer(p) \/ SpawnProducer(p) \/ AwaitProducer(p)
    BY <2>4 DEF MakeProducer, SpawnProducer, AwaitProducer, FallBack
  <2>5. CASE CheckCancelled(p)
    BY <2>5 DEF CheckCancelled
  <2>6. CASE Register(p)
    BY <2>6 DEF Register
  <2>7. CASE Respond(p) \/ ClientGone(p) \/ ClearAfterFailure(p)
    BY <2>7 DEF Respond, ClientGone, ClearAfterFailure
  <2> QED
    BY <2>1, <2>2, <2>3, <2>4, <2>5, <2>6, <2>7 DEF Prepare
<1>2. UNCHANGED producer \/ \E v : producer' = [producer EXCEPT ![p] = v]
  BY DEF Accept, Prepare, Build, AddPending, MakeProducer, SpawnProducer, AwaitProducer,
         FallBack, CheckCancelled, Register, Respond, ClientGone, ClearAfterFailure,
         contextVars
<1> QED
  BY <1>1, <1>2, GotoOthers DEF TypeOK

(* Every step keeps it. *)
LEMMA NotMadeNext == TypeOK /\ NotMadeYet /\ [Next]_vars => NotMadeYet'
<1> SUFFICES ASSUME TypeOK, NotMadeYet, [Next]_vars PROVE NotMadeYet'
  OBVIOUS
<1>1. CASE UNCHANGED <<ppc, producer>>
  BY <1>1 DEF NotMadeYet
<1>2. ASSUME NEW p \in Plays, Accept(p) \/ Prepare(p) PROVE NotMadeYet'
  <2>1. \A q \in Plays \ {p} : ppc'[q] = ppc[q] /\ producer'[q] = producer[q]
    BY <1>2, PrepareMoves
  <2>2. ppc'[p] \in {"idle", "build", "pend", "make"} => producer'[p] = "none"
    <3>1. CASE Accept(p)
      BY <3>1 DEF Accept, contextVars, NotMadeYet
    <3>2. CASE Build(p)
      BY <3>2 DEF Build, NotMadeYet
    <3>3. CASE AddPending(p)
      BY <3>3 DEF AddPending, contextVars, NotMadeYet
    <3>4. CASE MakeProducer(p) \/ SpawnProducer(p) \/ AwaitProducer(p)
      <4>1. \E place \in {"spawn", "wait", "check", "fail"} : Goto(p, place)
        BY <3>4 DEF MakeProducer, SpawnProducer, AwaitProducer, FallBack
      <4>2. ppc'[p] \in {"spawn", "wait", "check", "fail"}
        BY <4>1, GotoOthers
      <4> QED
        BY <4>2
    <3>5. CASE CheckCancelled(p) \/ Register(p) \/ Respond(p) \/ ClientGone(p)
            \/ ClearAfterFailure(p)
      <4>1. \E place \in {"fail", "register", "respond", "done", "gone", "failed"} : Goto(p, place)
        BY <3>5 DEF CheckCancelled, Register, Respond, ClientGone, ClearAfterFailure
      <4>2. ppc'[p] \in {"fail", "register", "respond", "done", "gone", "failed"}
        BY <4>1, GotoOthers
      <4> QED
        BY <4>2
    <3> QED
      BY <1>2, <3>1, <3>2, <3>3, <3>4, <3>5 DEF Prepare
  <2> QED
    BY <2>1, <2>2 DEF NotMadeYet
<1>3. ASSUME UNCHANGED ppc, NEW s \in Plays, NEW v, producer' = [producer EXCEPT ![s] = v],
             producer[s] = "none" => v = "none"
      PROVE  NotMadeYet'
  BY <1>3 DEF NotMadeYet, TypeOK
<1>4. ASSUME NEW h \in Handlers, Lease(h) \/ MistakenHls(h) \/ Serve(h) PROVE NotMadeYet'
  BY <1>1, <1>4 DEF Lease, MistakenHls, Serve, SpawnRemux, KeepOrKill, RemuxEnds, Untrack,
                    ReleaseLease, contextVars, threadVars
<1>5. ASSUME NEW h \in Handlers, EnsureProducer(h) PROVE NotMadeYet'
  <2>1. PICK s : s = hctx[h]
    OBVIOUS
  <2>2. producer[s] = "idle" /\ producer' = [producer EXCEPT ![s] = "running"] /\ UNCHANGED ppc
    BY <1>5, <2>1 DEF EnsureProducer, threadVars
  <2>3. CASE s \in Plays
    BY <1>3, <2>2, <2>3
  <2>4. CASE s \notin Plays
    BY <2>2, <2>4 DEF NotMadeYet, TypeOK
  <2> QED
    BY <2>3, <2>4
<1>6. ASSUME NEW t \in Threads, Cleanup(t) PROVE NotMadeYet'
  <2>1. CASE CleanupOrDefer(t)
    BY <1>1, <2>1 DEF CleanupOrDefer
  <2>2. CASE CleanupSession(t)
    <3>1. PICK s : s = doing[t]
      OBVIOUS
    <3>2. producer' = [producer EXCEPT ![s] = Closed(s)] /\ UNCHANGED ppc /\ s # NONE
      BY <2>2, <3>1 DEF CleanupSession
    <3>3. s \in Plays
      BY <3>1, <3>2 DEF TypeOK
    <3>4. producer[s] = "none" => Closed(s) = "none"
      BY DEF Closed
    <3> QED
      BY <1>3, <3>2, <3>3, <3>4
  <2> QED
    BY <1>6, <2>1, <2>2 DEF Cleanup
<1>7. CASE PlayerStops \/ ListenerDies \/ Restart
  BY <1>1, <1>7 DEF PlayerStops, ListenerDies, Restart, StopClears, StopCloses,
                    StartAgain, contextVars, threadVars
<1>8. CASE FfmpegExits
  <2>1. CASE UNCHANGED producer
    BY <1>1, <1>8, <2>1 DEF FfmpegExits
  <2>2. ASSUME NEW s \in Plays, producer[s] = "running",
               producer' = [producer EXCEPT ![s] = "idle"]
        PROVE  NotMadeYet'
    BY <1>3, <1>8, <2>2 DEF FfmpegExits
  <2> QED
    BY <1>8, <2>1, <2>2 DEF FfmpegExits
<1>9. CASE UNCHANGED vars
  BY <1>1, <1>9 DEF vars, contextVars, threadVars
<1> QED
  BY <1>2, <1>4, <1>5, <1>6, <1>7, <1>8, <1>9 DEF Next

(* Only three kinds of steps change a producer once it is closed: none of them
   can be taken, or they leave it closed. *)
LEMMA ClosedNext ==
  ASSUME TypeOK, NotMadeYet, [Next]_vars,
         NEW s \in Plays, producer[s] = "closed", started[s]
  PROVE  producer'[s] = "closed"
<1>1. CASE UNCHANGED producer
  BY <1>1
<1>2. ASSUME NEW p \in Plays, Accept(p) \/ Prepare(p) PROVE producer'[s] = "closed"
  <2>1. CASE p # s
    BY <1>2, <2>1, PrepareMoves
  <2>2. CASE p = s
    <3>1. ~FallBack(s) \/ UNCHANGED producer
      BY DEF FallBack
    <3>2. CASE MakeProducer(s)
      BY <1>1, <3>1, <3>2 DEF MakeProducer, NotMadeYet
    <3>3. CASE SpawnProducer(s)
      BY <1>1, <3>1, <3>3 DEF SpawnProducer, MaySpawn
    <3>4. CASE AwaitProducer(s)
      BY <1>1, <3>1, <3>4 DEF AwaitProducer
    <3>5. CASE Accept(s) \/ Build(s) \/ AddPending(s) \/ CheckCancelled(s) \/ Register(s)
               \/ Respond(s) \/ ClientGone(s) \/ ClearAfterFailure(s)
      BY <1>1, <3>5 DEF Accept, Build, AddPending, CheckCancelled, Register, Respond,
                        ClientGone, ClearAfterFailure, contextVars
    <3> QED
      BY <1>2, <2>2, <3>2, <3>3, <3>4, <3>5 DEF Prepare
  <2> QED
    BY <2>1, <2>2
<1>3. ASSUME NEW h \in Handlers, Lease(h) \/ MistakenHls(h) \/ Serve(h)
      PROVE  producer'[s] = "closed"
  BY <1>1, <1>3 DEF Lease, MistakenHls, Serve, SpawnRemux, KeepOrKill, RemuxEnds, Untrack,
                    ReleaseLease, contextVars, threadVars
<1>4. ASSUME NEW h \in Handlers, EnsureProducer(h) PROVE producer'[s] = "closed"
  <2>1. PICK r : r = hctx[h]
    OBVIOUS
  <2>2. producer[r] = "idle" /\ producer' = [producer EXCEPT ![r] = "running"]
    BY <1>4, <2>1 DEF EnsureProducer
  <2> QED
    BY <2>2 DEF TypeOK
<1>5. ASSUME NEW t \in Threads, Cleanup(t) PROVE producer'[s] = "closed"
  <2>1. CASE CleanupOrDefer(t)
    BY <1>1, <2>1 DEF CleanupOrDefer
  <2>2. CASE CleanupSession(t)
    <3>1. PICK r : r = doing[t]
      OBVIOUS
    <3>2. producer' = [producer EXCEPT ![r] = Closed(r)]
      BY <2>2, <3>1 DEF CleanupSession
    <3> QED
      BY <3>2 DEF TypeOK, Closed
  <2> QED
    BY <1>5, <2>1, <2>2 DEF Cleanup
<1>6. CASE PlayerStops \/ ListenerDies \/ Restart
  BY <1>1, <1>6 DEF PlayerStops, ListenerDies, Restart, StopClears, StopCloses,
                    StartAgain, contextVars, threadVars
<1>7. CASE FfmpegExits
  BY <1>7 DEF FfmpegExits, TypeOK
<1>8. CASE UNCHANGED vars
  BY <1>1, <1>8 DEF vars, contextVars
<1> QED
  BY <1>2, <1>3, <1>4, <1>5, <1>6, <1>7, <1>8 DEF Next

(* Neither a late request, nor a prepare that was about to start it, brings a
   producer back whose session was torn down. *)
THEOREM NeverRevived == Spec => ClosedStaysClosed
<1> DEFINE Kept == \A s \in Plays :
                     producer[s] = "closed" /\ started[s] => producer'[s] = "closed"
<1>1. Init => NotMadeYet
  BY DEF Init, NotMadeYet
<1>2. Spec => []NotMadeYet
  BY <1>1, TypeCorrect, NotMadeNext, PTL DEF Spec
<1>3. TypeOK /\ NotMadeYet /\ [Next]_vars => [Kept]_vars
  BY ClosedNext
<1>4. Spec => [][Kept]_vars
  BY <1>2, <1>3, TypeCorrect, PTL DEF Spec
<1> QED
  BY <1>4 DEF ClosedStaysClosed

-----------------------------------------------------------------------------
(* ReadAhead.                                                              *)

\* A window that is n bytes of the file from offset b on.
Run(b, n) == [base |-> b, data |-> Bytes(b, n)]

\* A legal window: a run of the file within the cap.
GoodWindow(w) ==
  \E b, n \in Nat : w = Run(b, n) /\ n <= Cap /\ b + n <= N

\* What a handler holds: its position, and the bytes it writes from there.
GoodRequest(r) ==
  /\ r.pc \in {"idle", "range", "write", "free", "mark", "upstream"}
  /\ r.cur \in Offsets /\ r.end \in Offsets
  /\ \E n \in Nat : r.body = Bytes(r.cur, n) /\ r.cur + n <= r.end + 1

Requests == [pc : {"idle", "range", "write", "free", "mark", "upstream"},
             cur : Offsets, end : Offsets, body : Seq(Offsets)]

-----------------------------------------------------------------------------
(* Runs of file bytes. *)

\* n bytes of the file are a sequence of length n of offsets.
LEMMA BytesType ==
  ASSUME NEW o \in Nat, NEW n \in Nat, o + n <= N
  PROVE  Bytes(o, n) \in Seq(Offsets) /\ Len(Bytes(o, n)) = n
<1>1. \A i \in 1 .. n : o + i - 1 \in Offsets
  BY SizesAssumption DEF Offsets
<1>2. Bytes(o, n) \in [1 .. n -> Offsets]
  BY <1>1 DEF Bytes
<1> QED  BY <1>2

\* The front of a run is a run.
LEMMA FrontBytes ==
  ASSUME NEW o \in Nat, NEW n \in Nat, NEW k \in Nat, k <= n
  PROVE  SubSeq(Bytes(o, n), 1, k) = Bytes(o, k)
<1>1. SubSeq(Bytes(o, n), 1, k) = [i \in 1 .. k |-> Bytes(o, n)[i]]
  OBVIOUS
<1>2. \A i \in 1 .. k : Bytes(o, n)[i] = o + i - 1
  BY DEF Bytes
<1> QED  BY <1>1, <1>2 DEF Bytes

\* The rest of a run is a run.
LEMMA RestBytes ==
  ASSUME NEW o \in Nat, NEW n \in Nat, NEW m \in Nat, m <= n
  PROVE  SubSeq(Bytes(o, n), m + 1, n) = Bytes(o + m, n - m)
<1>1. SubSeq(Bytes(o, n), m + 1, n) = [i \in 1 .. (n - m) |-> Bytes(o, n)[i + m]]
  OBVIOUS
<1>2. \A i \in 1 .. (n - m) : Bytes(o, n)[i + m] = (o + m) + i - 1
  BY DEF Bytes
<1> QED  BY <1>1, <1>2 DEF Bytes

\* Adjacent runs make a run.
LEMMA CatBytes ==
  ASSUME NEW o \in Nat, NEW n \in Nat, NEW k \in Nat, o + n + k <= N
  PROVE  Bytes(o, n) \o Bytes(o + n, k) = Bytes(o, n + k)
<1>1. Bytes(o, n) \in Seq(Offsets) /\ Len(Bytes(o, n)) = n
  BY BytesType, SizesAssumption
<1>2. Bytes(o + n, k) \in Seq(Offsets) /\ Len(Bytes(o + n, k)) = k
  <2>1. o + n \in Nat /\ (o + n) + k <= N
    OBVIOUS
  <2> QED  BY <2>1, BytesType
<1>3. Bytes(o, n) \o Bytes(o + n, k) =
        [i \in 1 .. (n + k) |-> IF i <= n THEN Bytes(o, n)[i] ELSE Bytes(o + n, k)[i - n]]
  BY <1>1, <1>2
<1>4. \A i \in 1 .. (n + k) :
        (IF i <= n THEN Bytes(o, n)[i] ELSE Bytes(o + n, k)[i - n]) = o + i - 1
  BY DEF Bytes
<1> QED  BY <1>3, <1>4 DEF Bytes

-----------------------------------------------------------------------------
(* The methods of the buffer turn legal windows into legal windows. *)

\* The length and the end of a run.
LEMMA RunFacts ==
  ASSUME NEW b \in Nat, NEW n \in Nat, b + n <= N
  PROVE  /\ Run(b, n).base = b /\ Run(b, n).data = Bytes(b, n)
         /\ Len(Run(b, n).data) = n /\ WindowEnd(Run(b, n)) = b + n
<1>1. Run(b, n).base = b /\ Run(b, n).data = Bytes(b, n)
  BY DEF Run
<1>2. Len(Bytes(b, n)) = n
  BY BytesType
<1> QED  BY <1>1, <1>2 DEF WindowEnd

\* An empty window at o is legal.
LEMMA EmptyGood ==
  ASSUME NEW o \in Ends
  PROVE  GoodWindow([base |-> o, data |-> <<>>])
<1>1. Bytes(o, 0) = <<>>
  BY DEF Bytes
<1>2. [base |-> o, data |-> <<>>] = Run(o, 0)
  BY <1>1 DEF Run
<1> QED  BY <1>2, SizesAssumption DEF GoodWindow, Ends

\* Trimming a run from the front leaves the rest of it.
LEMMA TrimRun ==
  ASSUME NEW b \in Nat, NEW n \in Nat, b + n <= N, NEW m \in Nat, m <= n
  PROVE  Trim(Run(b, n), m) = Run(b + m, n - m)
<1>2. SubSeq(Bytes(b, n), m + 1, n) = Bytes(b + m, n - m)
  BY RestBytes, Zenon
<1> QED  BY <1>2, RunFacts DEF Trim, Run

\* So trimming keeps a window legal.
LEMMA TrimGood ==
  ASSUME NEW b \in Nat, NEW n \in Nat, n <= Cap, b + n <= N, NEW m \in Nat, m <= n
  PROVE  GoodWindow(Trim(Run(b, n), m))
BY TrimRun, SizesAssumption DEF GoodWindow

\* append keeps a window legal if its chunk is the file's bytes at its offset.
LEMMA AppendGood ==
  ASSUME NEW w, GoodWindow(w), NEW o \in Offsets, NEW c \in Nat, o + c <= N
  PROVE  GoodWindow(AppendChunk(w, o, Bytes(o, c)))
<1>1. PICK b \in Nat, n \in Nat : w = Run(b, n) /\ n <= Cap /\ b + n <= N
  BY DEF GoodWindow
<1>2. w.base = b /\ w.data = Bytes(b, n) /\ Len(w.data) = n /\ WindowEnd(w) = b + n
  BY <1>1, RunFacts
<1>3. CASE ~(o = WindowEnd(w) /\ Room(w) > 0)
  BY <1>3 DEF AppendChunk
<1>4. CASE o = WindowEnd(w) /\ Room(w) > 0
  <2>1. Len(Bytes(o, c)) = c
    BY BytesType DEF Offsets
  <2> DEFINE k == Least(Room(w), c)
  <2>2. Room(w) \in Nat /\ k \in Nat /\ k <= c /\ n + k <= Cap /\ b + n + k <= N
    BY <1>1, <1>2, <1>4, SizesAssumption DEF Room, Least
  <2> HIDE DEF k
  <2>3. SubSeq(Bytes(o, c), 1, k) = Bytes(o, k)
    <3>1. o \in Nat /\ k <= c
      BY <2>2 DEF Offsets
    <3> QED  BY <2>2, <3>1, FrontBytes, Zenon
  <2>4. AppendChunk(w, o, Bytes(o, c)) = [w EXCEPT !.data = @ \o Bytes(o, k)]
    BY <1>4, <2>1, <2>3 DEF AppendChunk, k
  <2>5. Bytes(b, n) \o Bytes(b + n, k) = Bytes(b, n + k)
    BY <1>1, <2>2, CatBytes
  <2>6. AppendChunk(w, o, Bytes(o, c)) = Run(b, n + k)
    BY <1>1, <1>2, <1>4, <2>4, <2>5 DEF Run
  <2> QED  BY <2>2, <2>6 DEF GoodWindow
<1> QED  BY <1>3, <1>4

\* free_behind keeps a window legal.
LEMMA FreeGood ==
  ASSUME NEW w, GoodWindow(w), NEW o \in Ends
  PROVE  GoodWindow(FreeBehind(w, o))
<1>1. PICK b \in Nat, n \in Nat : w = Run(b, n) /\ n <= Cap /\ b + n <= N
  BY DEF GoodWindow
<1>2. w.base = b /\ Len(w.data) = n
  BY <1>1, RunFacts
<1>3. CASE o > b
  <2>1. Least(o - b, n) \in Nat /\ Least(o - b, n) <= n
    BY <1>3 DEF Least, Ends
  <2>2. GoodWindow(Trim(Run(b, n), Least(o - b, n)))
    BY <1>1, <2>1, TrimGood
  <2> QED  BY <1>1, <1>2, <1>3, <2>2 DEF FreeBehind
<1>4. CASE ~(o > b)
  BY <1>2, <1>4 DEF FreeBehind
<1> QED  BY <1>3, <1>4

\* update_served_high_water keeps a window legal.
LEMMA HighWaterGood ==
  ASSUME NEW w, GoodWindow(w), NEW o \in Ends
  PROVE  GoodWindow(HighWater(w, o))
<1>1. PICK b \in Nat, n \in Nat : w = Run(b, n) /\ n <= Cap /\ b + n <= N
  BY DEF GoodWindow
<1>2. w.base = b /\ WindowEnd(w) = b + n
  BY <1>1, RunFacts
<1>3. CASE o >= b + n
  BY <1>2, <1>3, EmptyGood DEF HighWater
<1>4. CASE o < b + n /\ o > b
  <2>1. o - b \in Nat /\ o - b <= n
    BY <1>4 DEF Ends
  <2>2. GoodWindow(Trim(Run(b, n), o - b))
    BY <1>1, <2>1, TrimGood
  <2> QED  BY <1>1, <1>2, <1>4, <2>2 DEF HighWater, Ends
<1>5. CASE o < b + n /\ ~(o > b)
  BY <1>2, <1>5 DEF HighWater, Ends
<1> QED  BY <1>3, <1>4, <1>5 DEF Ends

\* note_seek keeps a window legal.
LEMMA NoteSeekGood ==
  ASSUME NEW w, GoodWindow(w), NEW o \in Offsets
  PROVE  GoodWindow(NoteSeek(w, o))
<1>1. PICK b \in Nat, n \in Nat : w = Run(b, n) /\ n <= Cap /\ b + n <= N
  BY DEF GoodWindow
<1>2. w.base = b /\ WindowEnd(w) = b + n
  BY <1>1, RunFacts
<1>3. CASE o = b
  BY <1>2, <1>3 DEF NoteSeek
<1>4. CASE o # b /\ b < o /\ o <= b + n
  <2>1. o - b \in Nat /\ o - b <= n
    BY <1>4 DEF Offsets
  <2>2. GoodWindow(Trim(Run(b, n), o - b))
    BY <1>1, <2>1, TrimGood
  <2> QED  BY <1>1, <1>2, <1>4, <2>2 DEF NoteSeek
<1>5. CASE o # b /\ ~(b < o /\ o <= b + n)
  <2>1. o \in Ends
    BY SizesAssumption DEF Offsets, Ends
  <2> QED  BY <1>2, <1>5, <2>1, EmptyGood DEF NoteSeek
<1> QED  BY <1>3, <1>4, <1>5

\* A hit is a run of the file from the position read at, within the range asked.
LEMMA ReadGood ==
  ASSUME NEW w, GoodWindow(w), NEW s \in Offsets, NEW e \in Offsets, s <= e + 1
  PROVE  \E n \in Nat : ReadPrefix(w, s, e) = Bytes(s, n) /\ s + n <= e + 1
<1>1. PICK b \in Nat, n \in Nat : w = Run(b, n) /\ n <= Cap /\ b + n <= N
  BY DEF GoodWindow
<1>2. w.base = b /\ w.data = Bytes(b, n) /\ Len(w.data) = n
  BY <1>1, RunFacts
<1>3. CASE s = b
  <2> DEFINE k == Least(e - s + 1, n)
  <2>1. k \in Nat /\ k <= n /\ s + k <= e + 1
    BY SizesAssumption DEF Least, Offsets
  <2>2. ReadPrefix(w, s, e) = SubSeq(Bytes(b, n), 1, k)
    BY <1>2, <1>3 DEF ReadPrefix
  <2> HIDE DEF k
  <2>3. SubSeq(Bytes(b, n), 1, k) = Bytes(b, k)
    BY <2>1, FrontBytes, Zenon
  <2> QED  BY <1>3, <2>1, <2>2, <2>3
<1>4. CASE s # b
  <2>1. ReadPrefix(w, s, e) = <<>>
    BY <1>2, <1>4 DEF ReadPrefix
  <2>2. Bytes(s, 0) = <<>> /\ s + 0 <= e + 1
    BY DEF Bytes, Offsets
  <2> QED  BY <2>1, <2>2
<1> QED  BY <1>3, <1>4

-----------------------------------------------------------------------------
(* The invariant. *)

DaemonOK ==
  /\ stopped \in BOOLEAN /\ aborting \in BOOLEAN
  /\ dpc \in {"defer", "loop", "full", "room", "fetch", "append", "wait", "done"}
  /\ at \in Offsets
  /\ want \in 0 .. Chunk
  /\ dpc \in {"fetch", "append"} => at + want <= N

HandlersOK ==
  /\ hs = [h \in Readers |-> hs[h]]
  /\ \A h \in Readers : GoodRequest(hs[h]) /\ hs[h] \in Requests

Inv == GoodWindow(window) /\ DaemonOK /\ HandlersOK

\* An idle handler's request is a good one.
LEMMA IdleGood == GoodRequest(Idle) /\ Idle \in Requests
<1>1. Bytes(0, 0) = <<>>
  BY DEF Bytes
<1>2. Idle.body = Bytes(Idle.cur, 0) /\ Idle.cur + 0 <= Idle.end + 1
  BY <1>1 DEF Idle
<1> QED  BY <1>2, SizesAssumption DEF GoodRequest, Requests, Idle, Offsets

\* So is one that has moved on within its range.
LEMMA AdvancedGood ==
  ASSUME NEW h \in Readers, HandlersOK, NEW cur \in Nat, cur <= hs[h].end + 1,
         NEW pc \in {"range", "upstream"}
  PROVE  /\ GoodRequest(Advanced(h, cur, pc)) /\ Advanced(h, cur, pc) \in Requests
<1> DEFINE new == [pc |-> pc, cur |-> cur, end |-> hs[h].end, body |-> <<>>]
<1>1. hs[h].end \in Offsets
  BY DEF HandlersOK, GoodRequest
<1>2. CASE cur > hs[h].end
  BY <1>2, IdleGood DEF Advanced
<1>3. CASE ~(cur > hs[h].end)
  <2>1. cur \in Offsets /\ cur + 0 <= hs[h].end + 1
    BY <1>1, <1>3, SizesAssumption DEF Offsets
  <2>2. Bytes(cur, 0) = <<>>
    BY DEF Bytes
  <2>3. new.body = Bytes(new.cur, 0) /\ new.cur + 0 <= new.end + 1
    BY <2>1, <2>2
  <2>4. GoodRequest(new) /\ new \in Requests
    BY <1>1, <2>1, <2>3 DEF GoodRequest, Requests
  <2> QED  BY <1>3, <2>4 DEF Advanced
<1> QED  BY <1>2, <1>3

\* A handler's step keeps the invariant if its request and the window stay good.
LEMMA BecomeGood ==
  ASSUME Inv, NEW h \in Readers, NEW new, GoodRequest(new), new \in Requests,
         Become(h, new), GoodWindow(window)'
  PROVE  Inv'
<1>1. HandlersOK'
  BY DEF Inv, HandlersOK, Become
<1>2. DaemonOK'
  BY DEF Inv, DaemonOK, Become
<1> QED  BY <1>1, <1>2 DEF Inv

\* Where the request of a handler has been served to.
LEMMA ServedToType ==
  ASSUME Inv, NEW h \in Readers
  PROVE  ServedTo(h) \in Ends /\ ServedTo(h) <= hs[h].end + 1 /\ hs[h].cur <= hs[h].end + 1
<1>1. PICK n \in Nat : hs[h].body = Bytes(hs[h].cur, n) /\ hs[h].cur + n <= hs[h].end + 1
  BY DEF Inv, HandlersOK, GoodRequest
<1>2. hs[h].cur \in Offsets /\ hs[h].end \in Offsets
  BY DEF Inv, HandlersOK, GoodRequest
<1>3. hs[h].cur \in Nat /\ hs[h].cur + n <= N
  BY <1>1, <1>2, SizesAssumption DEF Offsets
<1>4. Len(hs[h].body) = n
  BY <1>1, <1>3, BytesType
<1> QED  BY <1>1, <1>2, <1>3, <1>4, SizesAssumption DEF ServedTo, Ends, Offsets

-----------------------------------------------------------------------------
(* The steps. *)

\* The daemon's steps but the append leave the window and the handlers alone.
LEMMA DaemonGood ==
  ASSUME Inv, Daemon PROVE Inv'
<1>1. WindowEnd(window) \in Nat
  <2>1. PICK b \in Nat, n \in Nat : window = Run(b, n) /\ n <= Cap /\ b + n <= N
    BY DEF Inv, GoodWindow
  <2> QED  BY <2>1, RunFacts
<1>2. CASE DeferEnds
  BY <1>2 DEF Inv, DeferEnds, DaemonOK, HandlersOK
<1>3. CASE NextFetch
  BY <1>1, <1>3, SizesAssumption DEF Inv, NextFetch, DaemonOK, HandlersOK, Offsets
<1>4. CASE CheckFull
  BY <1>4 DEF Inv, CheckFull, DaemonOK, HandlersOK
<1>5. CASE ComputeWant
  <2>1. PICK b \in Nat, n \in Nat : window = Run(b, n) /\ n <= Cap /\ b + n <= N
    BY DEF Inv, GoodWindow
  <2>2. Len(window.data) \in Nat
    BY <2>1, RunFacts
  <2> DEFINE k == Least(Least(Chunk, Cap - Len(window.data)), N - at)
  <2>3. k \in Int /\ k <= Chunk /\ (k > 0 => at + k <= N)
    BY <2>2, SizesAssumption DEF Least, Inv, DaemonOK, Offsets
  <2>4. \/ k <= 0 /\ dpc' = "wait" /\ want' = want
        \/ ~(k <= 0) /\ dpc' = "fetch" /\ want' = k
    BY <1>5 DEF ComputeWant
  <2>5. DaemonOK'
    BY <1>5, <2>3, <2>4, SizesAssumption DEF Inv, ComputeWant, DaemonOK, Offsets
  <2> QED  BY <1>5, <2>5 DEF Inv, ComputeWant, HandlersOK
<1>6. CASE FetchAnswers
  BY <1>6 DEF Inv, FetchAnswers, DaemonOK, HandlersOK
<1>7. CASE FetchFails
  BY <1>7 DEF Inv, FetchFails, DaemonOK, HandlersOK
<1>8. CASE AppendFetched
  <2>1. at \in Offsets /\ want \in Nat /\ at + want <= N
    BY <1>8, SizesAssumption DEF Inv, DaemonOK, AppendFetched
  <2>2. GoodWindow(AppendChunk(window, at, Bytes(at, want)))
    BY <2>1, AppendGood DEF Inv
  <2>3. GoodWindow(window')
    BY <1>8, <2>2 DEF AppendFetched
  <2>4. DaemonOK' /\ HandlersOK'
    BY <1>8 DEF Inv, AppendFetched, DaemonOK, HandlersOK
  <2> QED  BY <2>3, <2>4 DEF Inv, GoodWindow
<1>9. CASE Backoff
  BY <1>9 DEF Inv, Backoff, DaemonOK, HandlersOK
<1> QED  BY <1>2, <1>3, <1>4, <1>5, <1>6, <1>7, <1>8, <1>9 DEF Daemon

\* Every step of a handler.
LEMMA ServeGood ==
  ASSUME Inv, NEW h \in Readers, ServeWindow(h) PROVE Inv'
<1>1. GoodRequest(hs[h]) /\ hs[h] \in Requests /\ HandlersOK
  BY DEF Inv, HandlersOK
<1>2. hs[h].cur \in Nat /\ hs[h].end \in Nat /\ hs[h].end <= N - 1
  BY <1>1, SizesAssumption DEF GoodRequest, Offsets
<1>3. ASSUME NEW start \in Offsets, NEW end \in Offsets, Request(h, start, end)
      PROVE  Inv'
  <2> DEFINE new == [pc |-> "range", cur |-> start, end |-> end, body |-> <<>>]
  <2>1. GoodWindow(window)'
    BY <1>3, NoteSeekGood DEF Inv, Request
  <2>2. new.body = Bytes(new.cur, 0) /\ new.cur + 0 <= new.end + 1
    BY <1>3 DEF Request, Bytes, Offsets
  <2>3. GoodRequest(new) /\ new \in Requests
    BY <2>2 DEF GoodRequest, Requests
  <2> QED  BY <1>3, <2>1, <2>3, BecomeGood DEF Request
<1>4. CASE ReadWindow(h)
  <2> DEFINE body == ReadPrefix(window, hs[h].cur, hs[h].end)
             new == IF body = <<>> THEN [hs[h] EXCEPT !.pc = "upstream"]
                    ELSE [hs[h] EXCEPT !.pc = "write", !.body = body]
  <2>1. hs[h].cur \in Offsets /\ hs[h].end \in Offsets /\ hs[h].cur <= hs[h].end + 1
    BY <1>1, ServedToType DEF GoodRequest
  <2>2. PICK n \in Nat : body = Bytes(hs[h].cur, n) /\ hs[h].cur + n <= hs[h].end + 1
    BY <2>1, ReadGood DEF Inv
  <2>3. body \in Seq(Offsets)
    <3>1. hs[h].cur + n <= N
      BY <1>2, <2>2, SizesAssumption
    <3> QED  BY <1>2, <2>2, <3>1, BytesType
  <2> HIDE DEF body
  <2>4. GoodRequest(new) /\ new \in Requests
    BY <1>1, <2>1, <2>2, <2>3 DEF GoodRequest, Requests
  <2>5. Become(h, new) /\ GoodWindow(window)'
    BY <1>4 DEF ReadWindow, Inv, GoodWindow, body
  <2> HIDE DEF new
  <2> QED  BY <2>4, <2>5, BecomeGood
<1>5. CASE WriteHit(h)
  <2>1. GoodRequest([hs[h] EXCEPT !.pc = "free"]) /\ [hs[h] EXCEPT !.pc = "free"] \in Requests
    BY <1>1 DEF GoodRequest, Requests
  <2>2. GoodWindow(window)'
    BY <1>5 DEF WriteHit, Inv, GoodWindow
  <2> QED  BY <1>5, <2>1, <2>2, BecomeGood DEF WriteHit
<1>6. CASE FreeServed(h)
  <2>1. GoodRequest([hs[h] EXCEPT !.pc = "mark"]) /\ [hs[h] EXCEPT !.pc = "mark"] \in Requests
    BY <1>1 DEF GoodRequest, Requests
  <2>2. GoodWindow(window)'
    BY <1>6, FreeGood, ServedToType DEF FreeServed, Inv
  <2> QED  BY <1>6, <2>1, <2>2, BecomeGood DEF FreeServed
<1>7. CASE MarkServed(h)
  <2>1. ServedTo(h) \in Nat /\ ServedTo(h) <= hs[h].end + 1
    BY ServedToType DEF Ends
  <2>2. /\ GoodRequest(Advanced(h, ServedTo(h), "upstream"))
        /\ Advanced(h, ServedTo(h), "upstream") \in Requests
    BY <1>1, <2>1, AdvancedGood
  <2>3. GoodWindow(window)'
    BY <1>7, HighWaterGood, ServedToType DEF MarkServed, Inv
  <2> QED  BY <1>7, <2>2, <2>3, BecomeGood DEF MarkServed
<1>8. ASSUME NEW n \in 1 .. Chunk, Relay(h, n)
      PROVE  Inv'
  <2>1. /\ hs[h].cur + n \in Nat /\ hs[h].cur + n <= hs[h].end + 1
        /\ hs[h].cur + n \in Ends
    BY <1>2, <1>8, SizesAssumption DEF Relay, Ends
  <2>2. /\ GoodRequest(Advanced(h, hs[h].cur + n, "upstream"))
        /\ Advanced(h, hs[h].cur + n, "upstream") \in Requests
    BY <1>1, <2>1, AdvancedGood
  <2>3. GoodWindow(window)'
    BY <1>8, <2>1, HighWaterGood DEF Relay, Inv
  <2> QED  BY <1>8, <2>2, <2>3, BecomeGood DEF Relay
<1>9. ASSUME NEW n \in 0 .. Chunk, NEW next \in {"range", "upstream"}, ServeAside(h, n, next)
      PROVE  Inv'
  <2>1. hs[h].cur + n \in Nat /\ hs[h].cur + n <= hs[h].end + 1
    BY <1>2, <1>9 DEF ServeAside
  <2>2. /\ GoodRequest(Advanced(h, hs[h].cur + n, next))
        /\ Advanced(h, hs[h].cur + n, next) \in Requests
    BY <1>1, <2>1, AdvancedGood
  <2>3. GoodWindow(window)'
    BY <1>9 DEF ServeAside, Inv, GoodWindow
  <2> QED  BY <1>9, <2>2, <2>3, BecomeGood DEF ServeAside
<1>10. CASE GiveUp(h)
  <2>1. GoodWindow(window)'
    BY <1>10 DEF GiveUp, Inv, GoodWindow
  <2> QED  BY <1>10, <2>1, IdleGood, BecomeGood DEF GiveUp
<1> QED  BY <1>3, <1>4, <1>5, <1>6, <1>7, <1>8, <1>9, <1>10 DEF ServeWindow

\* The invariant holds in every execution.
LEMMA Invariance == WindowSpec => []Inv
<1>1. WindowInit => Inv
  <2> SUFFICES ASSUME WindowInit PROVE Inv
    OBVIOUS
  <2>1. GoodWindow(window)
    <3>1. 0 \in Ends
      BY SizesAssumption DEF Ends
    <3> QED  BY <3>1, EmptyGood DEF WindowInit
  <2>2. DaemonOK
    <3>1. 0 \in Offsets /\ 0 \in 0 .. Chunk
      BY SizesAssumption DEF Offsets
    <3> QED  BY <3>1 DEF WindowInit, DaemonOK
  <2>3. HandlersOK
    BY IdleGood DEF WindowInit, HandlersOK
  <2> QED  BY <2>1, <2>2, <2>3 DEF Inv
<1>2. Inv /\ [WindowNext]_windowVars => Inv'
  <2> SUFFICES ASSUME Inv, [WindowNext]_windowVars PROVE Inv'
    OBVIOUS
  <2>1. CASE Daemon
    BY <2>1, DaemonGood
  <2>2. CASE StopBuffer
    BY <2>2 DEF Inv, StopBuffer, GoodWindow, DaemonOK, HandlersOK
  <2>3. CASE AbortRequested
    BY <2>3 DEF Inv, AbortRequested, GoodWindow, DaemonOK, HandlersOK
  <2>4. CASE \E h \in Readers : ServeWindow(h)
    BY <2>4, ServeGood
  <2>5. CASE UNCHANGED windowVars
    BY <2>5 DEF Inv, windowVars, GoodWindow, DaemonOK, HandlersOK
  <2> QED  BY <2>1, <2>2, <2>3, <2>4, <2>5 DEF WindowNext
<1> QED  BY <1>1, <1>2, PTL DEF WindowSpec

-----------------------------------------------------------------------------
(* The theorems. *)

\* The window never exceeds its cap nor the file, and no request its end.
THEOREM WindowTypeCorrect == WindowSpec => []WindowTypeOK
<1>1. Inv => WindowTypeOK
  <2> SUFFICES ASSUME Inv PROVE WindowTypeOK
    OBVIOUS
  <2>1. PICK b \in Nat, n \in Nat : window = Run(b, n) /\ n <= Cap /\ b + n <= N
    BY DEF Inv, GoodWindow
  <2>2. /\ window.base = b /\ window.data = Bytes(b, n)
        /\ Len(window.data) = n /\ WindowEnd(window) = b + n
    BY <2>1, RunFacts
  <2>3. window \in [base : Ends, data : Seq(Offsets)]
    BY <2>1, BytesType, SizesAssumption DEF Run, Ends
  <2>4. hs \in [Readers -> Requests]
    BY DEF Inv, HandlersOK
  <2>5. \A h \in Readers : ServedTo(h) <= hs[h].end + 1
    BY ServedToType
  <2> QED  BY <2>1, <2>2, <2>3, <2>4, <2>5 DEF WindowTypeOK, Inv, DaemonOK, Requests
<1> QED  BY <1>1, Invariance, PTL

\* Whatever seeks and reads come between the daemon's look at the end of the
\* window and its append, the window is a run of the file from its base on.
THEOREM WindowIsARun == WindowSpec => []WindowIsFile
<1>1. Inv => WindowIsFile
  <2> SUFFICES ASSUME Inv PROVE WindowIsFile
    OBVIOUS
  <2>1. PICK b \in Nat, n \in Nat : window = Run(b, n) /\ n <= Cap /\ b + n <= N
    BY DEF Inv, GoodWindow
  <2> QED  BY <2>1, RunFacts DEF WindowIsFile
<1> QED  BY <1>1, Invariance, PTL

\* What a handler writes from the window are the bytes at its own position,
\* also when other handlers move the window between its read and its write.
THEOREM HitsAreExact == WindowSpec => []HitIsExact
<1>1. Inv => HitIsExact
  <2> SUFFICES ASSUME Inv, NEW h \in Readers
               PROVE  hs[h].body = Bytes(hs[h].cur, Len(hs[h].body))
    BY DEF HitIsExact
  <2>1. PICK n \in Nat : hs[h].body = Bytes(hs[h].cur, n) /\ hs[h].cur + n <= hs[h].end + 1
    BY DEF Inv, HandlersOK, GoodRequest
  <2>2. hs[h].cur \in Nat /\ hs[h].cur + n <= N
    BY <2>1, SizesAssumption DEF Inv, HandlersOK, GoodRequest, Offsets
  <2>3. Len(hs[h].body) = n
    BY <2>1, <2>2, BytesType
  <2> QED  BY <2>1, <2>3
<1> QED  BY <1>1, Invariance, PTL

-----------------------------------------------------------------------------
(* What each method may throw away. *)

HeldIn(w, o) == w.base <= o /\ o < WindowEnd(w)

\* A trim loses only what is behind its new base.
LEMMA TrimKeeps ==
  ASSUME NEW b \in Nat, NEW n \in Nat, b + n <= N, NEW m \in Nat, m <= n, NEW o \in Offsets,
         HeldIn(Run(b, n), o), ~HeldIn(Trim(Run(b, n), m), o)
  PROVE  o < b + m
<1>1. Trim(Run(b, n), m) = Run(b + m, n - m)
  BY TrimRun
<1>2. Run(b, n).base = b /\ WindowEnd(Run(b, n)) = b + n
  BY RunFacts
<1>3. b + m \in Nat /\ n - m \in Nat /\ (b + m) + (n - m) <= N
  OBVIOUS
<1>4. Run(b + m, n - m).base = b + m /\ WindowEnd(Run(b + m, n - m)) = (b + m) + (n - m)
  BY <1>3, RunFacts
<1> QED  BY <1>1, <1>2, <1>4 DEF HeldIn, Offsets

\* An append loses nothing.
LEMMA AppendKeeps ==
  ASSUME NEW w, GoodWindow(w), NEW f \in Offsets, NEW c \in Nat, f + c <= N,
         NEW o \in Offsets, HeldIn(w, o)
  PROVE  HeldIn(AppendChunk(w, f, Bytes(f, c)), o)
<1>1. PICK b \in Nat, n \in Nat : w = Run(b, n) /\ n <= Cap /\ b + n <= N
  BY DEF GoodWindow
<1>2. w.base = b /\ WindowEnd(w) = b + n
  BY <1>1, RunFacts
<1>3. GoodWindow(AppendChunk(w, f, Bytes(f, c)))
  BY AppendGood
<1>4. PICK d \in Nat, l \in Nat : AppendChunk(w, f, Bytes(f, c)) = Run(d, l) /\ d + l <= N
  BY <1>3 DEF GoodWindow
<1>5. CASE ~(f = WindowEnd(w) /\ Room(w) > 0)
  BY <1>5 DEF AppendChunk
<1>6. CASE f = WindowEnd(w) /\ Room(w) > 0
  <2> DEFINE tail == SubSeq(Bytes(f, c), 1, Least(Room(w), Len(Bytes(f, c))))
  <2>1. AppendChunk(w, f, Bytes(f, c)) = [base |-> b, data |-> Bytes(b, n) \o tail]
    BY <1>1, <1>2, <1>6 DEF AppendChunk, Run
  <2>2. Bytes(b, n) \in Seq(Offsets) /\ Len(Bytes(b, n)) = n
    BY <1>1, BytesType
  <2>3. tail \in Seq(Offsets) /\ Len(tail) \in Nat
    <3>1. Bytes(f, c) \in Seq(Offsets) /\ Len(Bytes(f, c)) = c
      BY BytesType DEF Offsets
    <3>2. Least(Room(w), Len(Bytes(f, c))) \in Nat /\ Least(Room(w), Len(Bytes(f, c))) <= c
      BY <1>1, <1>2, <1>6, <3>1, RunFacts, SizesAssumption DEF Least, Room
    <3> QED  BY <3>1, <3>2
  <2> HIDE DEF tail
  <2>4. Len(Bytes(b, n) \o tail) = n + Len(tail)
    BY <2>2, <2>3
  <2>5. WindowEnd([base |-> b, data |-> Bytes(b, n) \o tail]) = b + (n + Len(tail))
    BY <2>4 DEF WindowEnd
  <2> QED  BY <1>2, <2>1, <2>3, <2>5 DEF HeldIn, Offsets
<1> QED  BY <1>5, <1>6

\* free_behind loses only what is behind the offset it is given.
LEMMA FreeKeeps ==
  ASSUME NEW w, GoodWindow(w), NEW s \in Ends, NEW o \in Offsets,
         HeldIn(w, o), ~HeldIn(FreeBehind(w, s), o)
  PROVE  o < s
<1>1. PICK b \in Nat, n \in Nat : w = Run(b, n) /\ n <= Cap /\ b + n <= N
  BY DEF GoodWindow
<1>2. w.base = b /\ Len(w.data) = n
  BY <1>1, RunFacts
<1>3. s > b
  BY <1>2 DEF FreeBehind
<1> DEFINE m == Least(s - b, n)
<1>4. m \in Nat /\ m <= n /\ b + m <= s
  BY <1>3 DEF Least, Ends
<1>5. FreeBehind(w, s) = Trim(Run(b, n), m)
  BY <1>1, <1>2, <1>3 DEF FreeBehind
<1> HIDE DEF m
<1>6. o < b + m
  BY <1>1, <1>4, <1>5, TrimKeeps
<1> QED  BY <1>4, <1>6 DEF Offsets, Ends

\* So does update_served_high_water.
LEMMA HighWaterKeeps ==
  ASSUME NEW w, GoodWindow(w), NEW s \in Ends, NEW o \in Offsets,
         HeldIn(w, o), ~HeldIn(HighWater(w, s), o)
  PROVE  o < s
<1>1. PICK b \in Nat, n \in Nat : w = Run(b, n) /\ n <= Cap /\ b + n <= N
  BY DEF GoodWindow
<1>2. w.base = b /\ WindowEnd(w) = b + n
  BY <1>1, RunFacts
<1>3. CASE s >= b + n
  BY <1>2, <1>3 DEF HeldIn, Offsets, Ends
<1>4. CASE s < b + n
  <2>1. s > b
    BY <1>2, <1>4 DEF HighWater, Ends
  <2>2. s - b \in Nat /\ s - b <= n
    BY <1>4, <2>1 DEF Ends
  <2>3. HighWater(w, s) = Trim(Run(b, n), s - b)
    BY <1>1, <1>2, <1>4, <2>1 DEF HighWater, Ends
  <2>4. o < b + (s - b)
    BY <1>1, <2>2, <2>3, TrimKeeps
  <2> QED  BY <2>2, <2>4 DEF Offsets, Ends
<1> QED  BY <1>3, <1>4 DEF Ends

\* note_seek loses what is behind its target, or the target is outside.
LEMMA NoteSeekKeeps ==
  ASSUME NEW w, GoodWindow(w), NEW s \in Offsets, NEW o \in Offsets,
         HeldIn(w, o), ~HeldIn(NoteSeek(w, s), o)
  PROVE  o < s \/ s < w.base \/ s > WindowEnd(w)
<1>1. PICK b \in Nat, n \in Nat : w = Run(b, n) /\ n <= Cap /\ b + n <= N
  BY DEF GoodWindow
<1>2. w.base = b /\ WindowEnd(w) = b + n
  BY <1>1, RunFacts
<1>3. s # b
  BY <1>2 DEF NoteSeek
<1>4. CASE b < s /\ s <= b + n
  <2>1. s - b \in Nat /\ s - b <= n
    BY <1>4 DEF Offsets
  <2>2. NoteSeek(w, s) = Trim(Run(b, n), s - b)
    BY <1>1, <1>2, <1>3, <1>4 DEF NoteSeek
  <2>3. o < b + (s - b)
    BY <1>1, <2>1, <2>2, TrimKeeps
  <2> QED  BY <2>1, <2>3 DEF Offsets
<1>5. CASE ~(b < s /\ s <= b + n)
  BY <1>2, <1>3, <1>5 DEF Offsets
<1> QED  BY <1>4, <1>5

\* A byte leaves the window only if a handler was served past it or sought out.
THEOREM LeadIsKept == WindowSpec => LeadSurvives
<1> DEFINE Kept == \A o \in Offsets :
                     Held(o) /\ ~Held(o)' =>
                       \E h \in Readers : hs'[h] # hs[h] /\ (SoughtOut(h) \/ Passed(h, o))
<1>1. Inv /\ [WindowNext]_windowVars => [Kept]_windowVars
  <2> SUFFICES ASSUME Inv, [WindowNext]_windowVars, NEW o \in Offsets,
                      HeldIn(window, o), ~HeldIn(window', o)
               PROVE  \E h \in Readers : hs'[h] # hs[h] /\ (SoughtOut(h) \/ Passed(h, o))
    BY DEF Held, HeldIn, WindowEnd
  <2>1. GoodWindow(window)
    BY DEF Inv
  <2>2. window' # window
    OBVIOUS
  <2>3. ~Daemon
    <3>1. ~AppendFetched
      <4> SUFFICES ASSUME AppendFetched PROVE FALSE
        OBVIOUS
      <4>1. at \in Offsets /\ want \in Nat /\ at + want <= N
        BY SizesAssumption DEF Inv, DaemonOK, AppendFetched
      <4> QED  BY <2>1, <4>1, AppendKeeps DEF AppendFetched
    <3> QED  BY <2>2, <3>1 DEF Daemon, DeferEnds, NextFetch, CheckFull, ComputeWant,
                               FetchAnswers, FetchFails, Backoff
  <2>4. PICK h \in Readers : ServeWindow(h)
    BY <2>2, <2>3 DEF WindowNext, StopBuffer, AbortRequested, windowVars
  <2>5. hs = [i \in Readers |-> hs[i]] /\ GoodRequest(hs[h]) /\ hs[h] \in Requests /\ HandlersOK
    BY DEF Inv, HandlersOK
  <2>6. hs[h].cur \in Nat /\ hs[h].end \in Nat /\ hs[h].end <= N - 1
    BY <2>5, SizesAssumption DEF GoodRequest, Offsets
  <2>7. \A new : Become(h, new) => hs'[h] = new
    BY <2>5 DEF Become
  <2>8. ASSUME NEW start \in Offsets, NEW end \in Offsets, Request(h, start, end)
        PROVE  hs'[h] # hs[h] /\ (SoughtOut(h) \/ Passed(h, o))
    <3>1. o < start \/ start < window.base \/ start > WindowEnd(window)
      BY <2>1, <2>8, NoteSeekKeeps DEF Request
    <3>2. hs'[h] = [pc |-> "range", cur |-> start, end |-> end, body |-> <<>>]
      BY <2>7, <2>8 DEF Request
    <3>3. hs'[h].pc = "range" /\ hs'[h].cur = start /\ hs[h].pc = "idle"
      BY <2>8, <3>2 DEF Request
    <3> QED  BY <3>1, <3>3 DEF SoughtOut, Passed
  <2>9. ASSUME FreeServed(h)
        PROVE  hs'[h] # hs[h] /\ Passed(h, o)
    <3>1. o < ServedTo(h)
      BY <2>1, <2>9, FreeKeeps, ServedToType DEF FreeServed
    <3>2. hs[h].pc = "free" /\ hs'[h] = [hs[h] EXCEPT !.pc = "mark"]
      BY <2>7, <2>9 DEF FreeServed
    <3>3. hs'[h].pc = "mark"
      BY <2>5, <3>2 DEF Requests
    <3> QED  BY <3>1, <3>2, <3>3 DEF Passed
  <2>10. ASSUME MarkServed(h)
         PROVE  hs'[h] # hs[h] /\ Passed(h, o)
    <3>1. o < ServedTo(h)
      BY <2>1, <2>10, HighWaterKeeps, ServedToType DEF MarkServed
    <3>2. hs[h].pc = "mark" /\ hs'[h] = Advanced(h, ServedTo(h), "upstream")
      BY <2>7, <2>10 DEF MarkServed
    <3>3. hs'[h].pc \in {"idle", "upstream"}
      BY <3>2 DEF Advanced, Idle
    <3> QED  BY <3>1, <3>2, <3>3 DEF Passed
  <2>11. ASSUME NEW n \in 1 .. Chunk, Relay(h, n)
         PROVE  hs'[h] # hs[h] /\ Passed(h, o)
    <3>1. n \in Nat /\ n > 0 /\ hs[h].cur + n <= hs[h].end + 1 /\ hs[h].cur + n \in Ends
      BY <2>6, <2>11, SizesAssumption DEF Relay, Ends
    <3>2. o < hs[h].cur + n
      BY <2>1, <2>11, <3>1, HighWaterKeeps DEF Relay
    <3>3. hs[h].pc = "upstream" /\ hs'[h] = Advanced(h, hs[h].cur + n, "upstream")
      BY <2>7, <2>11 DEF Relay
    <3>4. CASE hs[h].cur + n > hs[h].end
      <4>1. hs'[h] = Idle /\ Idle.pc = "idle"
        BY <3>3, <3>4 DEF Advanced, Idle
      <4>2. o <= hs[h].end
        BY <2>6, <3>1, <3>2 DEF Offsets
      <4> QED  BY <3>3, <4>1, <4>2 DEF Passed
    <3>5. CASE ~(hs[h].cur + n > hs[h].end)
      <4>1. hs'[h].cur = hs[h].cur + n
        BY <3>3, <3>5 DEF Advanced
      <4>2. hs'[h].cur # hs[h].cur
        BY <2>6, <3>1, <4>1
      <4> QED  BY <3>2, <3>3, <4>1, <4>2 DEF Passed
    <3> QED  BY <3>4, <3>5
  <2> QED  BY <2>2, <2>4, <2>8, <2>9, <2>10, <2>11
           DEF ServeWindow, ReadWindow, WriteHit, ServeAside, GiveUp
<1>2. WindowSpec => [][WindowNext]_windowVars
  BY PTL DEF WindowSpec
<1>3. WindowSpec => [][Kept]_windowVars
  BY <1>1, <1>2, Invariance, PTL
<1> QED  BY <1>3 DEF LeadSurvives
==============================================================================
