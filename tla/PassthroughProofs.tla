------------------------- MODULE PassthroughProofs -------------------------
(* Proofs about the pass-through serve loop, for every set of handlers and *)
(* sources and every bound.                                                *)
EXTENDS Passthrough, WellFoundedInduction, SequenceTheorems, TLAPS

\* A probed candidate is one of the list the selection captured.
ProbeInList ==
  \A h \in Handlers : hs[h].pc = "probe" => hs[h].i <= Len(hs[h].list)

TypeInv == TypeOK /\ ProbeInList

\* Every set of numbers a selection takes the first of has one.
LEMMA LowestIn ==
  ASSUME NEW S \in SUBSET Nat, S # {}
  PROVE  Lowest(S) \in S /\ \A y \in S : Lowest(S) <= y
  <1>1. PICK x \in S : \A y \in S : ~ (<<y, x>> \in OpToRel(<, Nat))
    BY NatLessThanWellFounded, WFMin
  <1>2. \A y \in S : <<y, x>> \in OpToRel(<, Nat) <=> y < x
    BY DEF OpToRel
  <1>3. \A y \in S : ~ (y < x) BY <1>1, <1>2, Zenon
  <1>4. \A y \in S : x <= y BY <1>3
  <1>5. QED BY <1>4 DEF Lowest

-----------------------------------------------------------------------------
(* The helpers on the request record keep it a request record.             *)

\* The types of the fields, for the steps that compute with them.
LEMMA FieldTypes ==
  ASSUME NEW s \in Requests
  PROVE  /\ s.start \in Nat /\ s.end \in Nat /\ s.cur \in Nat /\ s.streamed \in Nat
         /\ s.skipped \in Nat /\ s.falls \in Nat /\ s.await \in Nat /\ s.tries \in Nat
         /\ s.lad \in Nat /\ s.w \in Nat /\ s.gap \in Nat /\ s.wire \in Nat
         /\ s.i \in Positions /\ s.standby \in Nat /\ s.first \in Nat
         /\ s.lastFall \in Int /\ s.stalls \in Int /\ s.owed \in Int
         /\ s.pc \in PCs /\ s.result \in Results /\ s.reason \in Reasons
         /\ s.src \in Sources /\ s.prim \in Sources /\ s.list \in Seq(Sources)
         /\ s.feeders \subseteq Sources /\ s.pending \in Sources \cup {NoSource}
         /\ s.barred \subseteq Sources /\ s.tripped \in BOOLEAN /\ s.failLie \in BOOLEAN
  BY DEF Requests

\* A request nobody is serving is a request record.
LEMMA IdleTyped == Idle \in Requests
  <1>1. 1 \in Positions /\ -1 \in Int BY DEF Positions
  <1>2. <<>> \in Seq(Sources) /\ Primary \in Sources BY SourcesAssumption
  <1>3. "idle" \in PCs /\ "NONE" \in Results /\ "unknown" \in Reasons
    BY DEF PCs, Results, Reasons
  <1>4. QED BY <1>1, <1>2, <1>3 DEF Idle, Requests

\* Closing a request.
LEMMA CloseTyped ==
  ASSUME NEW s \in Requests, NEW why \in Reasons PROVE Close(s, why) \in Requests
  <1>1. "closing" \in PCs BY DEF PCs
  <1>2. QED BY <1>1 DEF Close, Requests

\* Moving to another blocking point.
LEMMA GotoTyped ==
  ASSUME NEW s \in Requests, NEW p \in PCs PROVE [s EXCEPT !.pc = p] \in Requests
  BY DEF Requests

LEMMA ForgetScanTyped ==
  ASSUME NEW s \in Requests PROVE ForgetScan(s) \in Requests
  <1>1. <<>> \in Seq(Sources) /\ Primary \in Sources BY SourcesAssumption
  <1> DEFINE e == <<>>
             p == Primary
             n == 1
             x == {}
  <1>2. ForgetScan(s) = [s EXCEPT !.list = e, !.first = 0, !.i = n, !.standby = 0, !.prim = p,
                                  !.pass = "scan", !.via = "cutover", !.barred = x]
    BY DEF ForgetScan
  <1>3. e \in Seq(Sources) /\ p \in Sources /\ n \in Positions /\ x \subseteq Sources
    BY <1>1 DEF Positions
  <1> HIDE DEF e, p, n, x
  <1>4. [s EXCEPT !.list = e, !.first = 0, !.i = n, !.standby = 0, !.prim = p,
                   !.pass = "scan", !.via = "cutover", !.barred = x] \in Requests
    BY <1>3 DEF Requests
  <1>5. QED BY <1>2, <1>4

LEMMA NextPassTyped ==
  ASSUME NEW s \in Requests PROVE NextPass(s) \in Requests
  <1>1. "prelude" \in PCs /\ "NONE" \in Results BY DEF PCs, Results
  <1>2. QED BY <1>1 DEF NextPass, Requests

LEMMA MarkDeliveredTyped ==
  ASSUME NEW s \in Requests, NEW k \in Nat PROVE MarkDelivered(s, k) \in Requests
  <1> DEFINE o == s.owed - 1
  <1>1. o \in Int BY FieldTypes
  <1>2. MarkDelivered(s, k) =
          IF s.pending # NoSource /\ k > 0
          THEN [s EXCEPT !.owed = o, !.pending = NoSource] ELSE s
    BY DEF MarkDelivered
  <1> HIDE DEF o
  <1>3. [s EXCEPT !.owed = o, !.pending = NoSource] \in Requests
    BY <1>1 DEF Requests
  <1>4. QED BY <1>2, <1>3

\* The field updates ReadStep makes before it looks at the result.
LEMMA ReadStepTyped ==
  ASSUME NEW s \in Requests, NEW res \in Results, NEW k \in Nat
  PROVE  ReadStep(s, res, k) \in Requests
  <1> DEFINE c == s.cur + k
             m == s.streamed + k
             r == s.real \/ k > 0
             p == (k > 0)
             o == s.owed - (IF s.deferred THEN 1 ELSE 0)
             u == [s EXCEPT !.cur = c, !.streamed = m, !.w = 0, !.src = Primary,
                            !.result = res, !.real = r, !.progressed = p, !.owed = o,
                            !.deferred = FALSE, !.tries = 0, !.lad = 0]
             t == MarkDelivered(u, k)
  <1>1. c \in Nat /\ m \in Nat /\ o \in Int BY FieldTypes
  <1>2. r \in BOOLEAN /\ p \in BOOLEAN OBVIOUS
  <1>3. ReadStep(s, res, k) =
          IF t.cur > t.end THEN Close(t, "complete")
          ELSE IF res \in {"RECOVERABLE", "UPSTREAM_ERROR"}
          THEN [t EXCEPT !.pc = "select", !.via = "cutover"]
          ELSE [t EXCEPT !.pc = "retry"]
    BY DEF ReadStep
  <1>4. u \in Requests
    <2> HIDE DEF c, m, r, p, o
    <2>1. QED BY <1>1, <1>2, SourcesAssumption DEF Requests
  <1>5. t \in Requests BY <1>4, MarkDeliveredTyped
  <1> HIDE DEF t
  <1>6. "complete" \in Reasons BY DEF Reasons
  <1>7. "select" \in PCs /\ "retry" \in PCs BY DEF PCs
  <1>8. [t EXCEPT !.pc = "select", !.via = "cutover"] \in Requests
    BY <1>5, <1>7 DEF Requests
  <1>9. [t EXCEPT !.pc = "retry"] \in Requests BY <1>5, <1>7, GotoTyped
  <1>10. Close(t, "complete") \in Requests BY <1>5, <1>6, CloseTyped
  <1>11. QED BY <1>3, <1>8, <1>9, <1>10

LEMMA LadderDoneTyped ==
  ASSUME NEW s \in Requests, NEW res \in Results PROVE LadderDone(s, res) \in Requests
  <1> DEFINE c == s.cur + s.lad
             m == s.streamed + s.lad
             r == s.real \/ s.lad > 0
             p == s.progressed \/ s.lad > 0
             u == [s EXCEPT !.cur = c, !.streamed = m, !.lad = 0, !.tries = 0,
                            !.result = res, !.real = r, !.progressed = p]
             t == MarkDelivered(u, s.lad)
  <1>1. c \in Nat /\ m \in Nat /\ s.lad \in Nat BY FieldTypes
  <1>2. r \in BOOLEAN /\ p \in BOOLEAN OBVIOUS
  <1>3. LadderDone(s, res) =
          IF t.cur > t.end THEN Close(t, "complete") ELSE [t EXCEPT !.pc = "after"]
    BY DEF LadderDone
  <1>4. u \in Requests
    <2> HIDE DEF c, m, r, p
    <2>1. QED BY <1>1, <1>2 DEF Requests
  <1>5. t \in Requests BY <1>1, <1>4, MarkDeliveredTyped
  <1> HIDE DEF t
  <1>6. "complete" \in Reasons BY DEF Reasons
  <1>7. "after" \in PCs BY DEF PCs
  <1>8. [t EXCEPT !.pc = "after"] \in Requests BY <1>5, <1>7, GotoTyped
  <1>9. Close(t, "complete") \in Requests BY <1>5, <1>6, CloseTyped
  <1>10. QED BY <1>3, <1>8, <1>9

LEMMA LadderStepTyped ==
  ASSUME NEW s \in Requests, NEW res \in Results, NEW k \in Nat
  PROVE  LadderStep(s, res, k) \in Requests
  <1> DEFINE l == s.lad + k
             p == Primary
             t == [s EXCEPT !.w = 0, !.src = p, !.lad = l, !.result = res]
  <1>1. l \in Nat /\ p \in Sources BY SourcesAssumption, FieldTypes
  <1>2. t \in Requests
    <2> HIDE DEF l, p
    <2>1. QED BY <1>1 DEF Requests
  <1>3. LadderStep(s, res, k) =
          IF Pos(t) > t.end \/ res \notin Retryable \/ t.tries = LadderLength
          THEN LadderDone(t, res) ELSE [t EXCEPT !.pc = "retry"]
    BY DEF LadderStep
  <1> HIDE DEF t
  <1>4. "retry" \in PCs BY DEF PCs
  <1>5. [t EXCEPT !.pc = "retry"] \in Requests BY <1>2, <1>4, GotoTyped
  <1>6. QED BY <1>2, <1>3, <1>5, LadderDoneTyped

LEMMA ReturnTyped ==
  ASSUME NEW s \in Requests, NEW res \in Results, NEW k \in Nat
  PROVE  Return(s, res, k) \in Requests
  BY ReadStepTyped, LadderStepTyped DEF Return

LEMMA NoteFallthroughTyped ==
  ASSUME NEW s \in Requests PROVE NoteFallthrough(s) \in Requests
  <1> DEFINE f == Least(s.falls + 1, FallthroughMax + 1)
             l == s.streamed
  <1>1. f \in Nat /\ l \in Int BY BoundsAssumption, FieldTypes DEF Least
  <1>2. NoteFallthrough(s) = IF s.streamed = s.lastFall THEN [s EXCEPT !.falls = f]
                             ELSE [s EXCEPT !.falls = 1, !.lastFall = l]
    BY DEF NoteFallthrough
  <1> HIDE DEF f, l
  <1>3. [s EXCEPT !.falls = f] \in Requests BY <1>1 DEF Requests
  <1>4. [s EXCEPT !.falls = 1, !.lastFall = l] \in Requests BY <1>1 DEF Requests
  <1>5. QED BY <1>2, <1>3, <1>4

LEMMA NoMatchTyped ==
  ASSUME NEW s \in Requests PROVE NoMatch(s) \in Requests
  <1> DEFINE t == ForgetScan(s)
             n == NoteFallthrough(t)
  <1>1. t \in Requests BY ForgetScanTyped
  <1>2. n \in Requests BY <1>1, NoteFallthroughTyped
  <1>3. NoMatch(s) = IF s.via = "await" THEN [t EXCEPT !.pc = "stall"]
                     ELSE [(IF pool # <<>> THEN n ELSE t) EXCEPT !.pc = "retry"]
    BY DEF NoMatch
  <1> HIDE DEF t, n
  <1>4. "stall" \in PCs /\ "retry" \in PCs BY DEF PCs
  <1>5. /\ [t EXCEPT !.pc = "stall"] \in Requests
        /\ [t EXCEPT !.pc = "retry"] \in Requests
        /\ [n EXCEPT !.pc = "retry"] \in Requests
    BY <1>1, <1>2, <1>4, GotoTyped
  <1>6. CASE pool # <<>> BY <1>3, <1>5, <1>6
  <1>7. CASE pool = <<>> BY <1>3, <1>5, <1>7
  <1>8. QED BY <1>6, <1>7

LEMMA BeginPendingTyped ==
  ASSUME NEW s \in Requests, NEW c \in Sources PROVE BeginPending(s, c) \in Requests
  <1> DEFINE n == NextPass(ForgetScan(s))
             d == n.deferred \/ s.pending # NoSource
             f == n.failLie \/ (s.pending # NoSource /\ s.pending \in s.feeders)
             o == n.owed + 1
  <1>1. n \in Requests BY ForgetScanTyped, NextPassTyped
  <1> DEFINE m == -1
  <1>2. BeginPending(s, c) =
          [n EXCEPT !.await = 0, !.falls = 0, !.lastFall = m, !.deferred = d,
                    !.failLie = f, !.pending = c, !.feeders = {}, !.owed = o]
    BY DEF BeginPending
  <1> HIDE DEF n
  <1>3. o \in Int /\ m \in Int BY <1>1, FieldTypes
  <1>4. d \in BOOLEAN /\ f \in BOOLEAN OBVIOUS
  <1> HIDE DEF d, f, o, m
  <1>5. [n EXCEPT !.await = 0, !.falls = 0, !.lastFall = m, !.deferred = d,
                   !.failLie = f, !.pending = c, !.feeders = {}, !.owed = o] \in Requests
    BY <1>1, <1>3, <1>4 DEF Requests
  <1>6. QED BY <1>2, <1>5

LEMMA PutTyped ==
  ASSUME NEW s \in Requests, NEW from \in SUBSET Sources, NEW k \in Nat
  PROVE  Fed(s, from) \in Requests /\ Put(s, from, k) \in Requests
  <1> DEFINE f == IF s.pending = NoSource THEN {} ELSE s.feeders \cup from
             u == [s EXCEPT !.feeders = f]
  <1>1. f \subseteq Sources BY FieldTypes
  <1>2. Fed(s, from) = u BY DEF Fed
  <1>3. u \in Requests
    <2> HIDE DEF f
    <2>1. QED BY <1>1 DEF Requests
  <1> HIDE DEF u
  <1> DEFINE v == u.w + k
             x == u.wire + k
  <1>4. Put(s, from, k) = [u EXCEPT !.w = v, !.wire = x] BY <1>2 DEF Put
  <1>5. v \in Nat /\ x \in Nat BY <1>3, FieldTypes
  <1> HIDE DEF v, x
  <1>6. [u EXCEPT !.w = v, !.wire = x] \in Requests BY <1>3, <1>5 DEF Requests
  <1>7. QED BY <1>2, <1>3, <1>4, <1>6

LEMMA NewRequestTyped ==
  ASSUME NEW a \in Nat, NEW b \in Nat, awaiting.count \in Nat
  PROVE  NewRequest(a, b) \in Requests
  <1> DEFINE p == IF a = 0 THEN "prefix" ELSE "prelude"
             n == awaiting.count
             z == Idle
  <1>1. p \in PCs /\ n \in Nat BY DEF PCs
  <1>2. NewRequest(a, b) = [z EXCEPT !.pc = p, !.start = a, !.end = b, !.cur = a, !.await = n]
    BY DEF NewRequest
  <1>3. z \in Requests BY IdleTyped
  <1> HIDE DEF p, n, z
  <1>4. [z EXCEPT !.pc = p, !.start = a, !.end = b, !.cur = a, !.await = n] \in Requests
    BY <1>1, <1>3 DEF Requests
  <1>5. QED BY <1>2, <1>4

-----------------------------------------------------------------------------
(* Every action keeps the type invariant.                                  *)

\* What a handler's own step leaves to show: the new record, and the shared
\* variables.
LEMMA BecomeTyped ==
  ASSUME TypeInv, NEW h \in Handlers, NEW t \in Requests, Become(h, t),
         t.pc = "probe" => t.i <= Len(t.list)
  PROVE  hs' \in [Handlers -> Requests] /\ ProbeInList'
  BY DEF Become, TypeInv, TypeOK, ProbeInList

\* The shared variables' part of TypeOK.
SharedOK ==
  /\ remote \in Sources
  /\ pool \in Seq(Sources) /\ merging \in Seq(Sources)
  /\ failed \subseteq Sources /\ validated \subseteq Sources
  /\ resolved \subseteq Sources /\ unmeasured \subseteq Sources
  /\ inRam \subseteq Sources /\ servedBy \subseteq Sources
  /\ misses \in [Sources -> Nat]
  /\ awaiting \in [count : Nat, byte : Int]
  /\ down \in BOOLEAN /\ stallFlag \in BOOLEAN /\ aborted \in BOOLEAN

LEMMA TypeInit == Init => TypeInv
  <1> SUFFICES ASSUME Init PROVE TypeInv OBVIOUS
  <1>1. hs \in [Handlers -> Requests] BY IdleTyped DEF Init
  <1>2. SharedOK
    <2>1. /\ remote \in Sources /\ pool \in Seq(Sources) /\ merging \in Seq(Sources)
    BY SourcesAssumption DEF Init
  <2>2. /\ failed \subseteq Sources /\ validated \subseteq Sources
        /\ resolved \subseteq Sources /\ unmeasured \subseteq Sources
        /\ servedBy \subseteq Sources
    BY DEF Init
  <2>7. inRam \subseteq Sources BY SourcesAssumption DEF Init
  <2>3. misses \in [Sources -> Nat] BY DEF Init
  <2>4. awaiting \in [count : Nat, byte : Int] BY DEF Init
  <2>5. down \in BOOLEAN /\ stallFlag \in BOOLEAN /\ aborted \in BOOLEAN BY DEF Init
  <2>6. QED BY <2>1, <2>2, <2>3, <2>4, <2>5, <2>7 DEF SharedOK
  <1>3. ProbeInList BY DEF Init, ProbeInList, Idle
  <1>4. QED BY <1>1, <1>2, <1>3 DEF TypeInv, TypeOK, SharedOK

LEMMA StepTyped ==
  ASSUME TypeInv, NEW h \in Handlers, NEW t \in Requests, Become(h, t),
         t.pc = "probe" => t.i <= Len(t.list), SharedOK'
  PROVE  TypeInv'
  BY BecomeTyped DEF TypeInv, TypeOK, SharedOK

\* A handler's record is typed, and so are the shared variables.
LEMMA TypeFacts ==
  ASSUME TypeInv, NEW h \in Handlers
  PROVE  hs[h] \in Requests /\ SharedOK
  BY DEF TypeInv, TypeOK, SharedOK

\* No return from an upstream read and no failed selection leads to a probe.
LEMMA ReadStepPc ==
  ASSUME NEW s \in Requests, NEW res \in Results, NEW k \in Nat
  PROVE  ReadStep(s, res, k).pc \in {"closing", "select", "retry"}
  <1>1. s.pc \in PCs BY FieldTypes
  <1>2. QED BY DEF Requests, MarkDelivered, ReadStep, Close

LEMMA LadderDonePc ==
  ASSUME NEW s \in Requests, NEW res \in Results
  PROVE  LadderDone(s, res).pc \in {"closing", "after"}
  BY DEF Requests, MarkDelivered, LadderDone, Close

LEMMA LadderStepPc ==
  ASSUME NEW s \in Requests, NEW res \in Results, NEW k \in Nat
  PROVE  LadderStep(s, res, k).pc \in {"closing", "after", "retry"}
  <1> DEFINE l == s.lad + k
             p == Primary
             t == [s EXCEPT !.w = 0, !.src = p, !.lad = l, !.result = res]
  <1>1. l \in Nat /\ p \in Sources BY SourcesAssumption, FieldTypes
  <1>2. t \in Requests
    <2> HIDE DEF l, p
    <2>1. QED BY <1>1 DEF Requests
  <1>3. LadderStep(s, res, k) =
          IF Pos(t) > t.end \/ res \notin Retryable \/ t.tries = LadderLength
          THEN LadderDone(t, res) ELSE [t EXCEPT !.pc = "retry"]
    BY DEF LadderStep
  <1> HIDE DEF t
  <1>4. [t EXCEPT !.pc = "retry"].pc = "retry" BY <1>2 DEF Requests
  <1>5. QED BY <1>2, <1>3, <1>4, LadderDonePc

LEMMA ReturnPc ==
  ASSUME NEW s \in Requests, NEW res \in Results, NEW k \in Nat
  PROVE  Return(s, res, k).pc \notin {"probe", "idle"}
  BY ReadStepPc, LadderStepPc DEF Return

LEMMA NoMatchPc ==
  ASSUME NEW s \in Requests PROVE NoMatch(s).pc \in {"stall", "retry"}
  <1> DEFINE t == ForgetScan(s)
             n == NoteFallthrough(t)
  <1>1. t \in Requests /\ n \in Requests BY ForgetScanTyped, NoteFallthroughTyped
  <1>2. NoMatch(s) = IF s.via = "await" THEN [t EXCEPT !.pc = "stall"]
                     ELSE [(IF pool # <<>> THEN n ELSE t) EXCEPT !.pc = "retry"]
    BY DEF NoMatch
  <1> HIDE DEF t, n
  <1>3. /\ [t EXCEPT !.pc = "stall"].pc = "stall"
        /\ [t EXCEPT !.pc = "retry"].pc = "retry"
        /\ [n EXCEPT !.pc = "retry"].pc = "retry"
    BY <1>1 DEF Requests
  <1>4. CASE pool # <<>> BY <1>2, <1>3, <1>4
  <1>5. CASE pool = <<>> BY <1>2, <1>3, <1>5
  <1>6. QED BY <1>4, <1>5

LEMMA RequestTyped ==
  ASSUME TypeInv, NEW h \in Handlers, NEW a \in 0..(N - 1), NEW b \in 0..(N - 1),
         Request(h, a, b)
  PROVE  TypeInv'
  <1> DEFINE t == NewRequest(a, b)
  <1>1. a \in Nat /\ b \in Nat /\ awaiting.count \in Nat
    BY BoundsAssumption DEF TypeInv, TypeOK
  <1>2. t \in Requests BY <1>1, NewRequestTyped
  <1>3. t.pc # "probe" BY DEF NewRequest, Idle
  <1>4. Become(h, t) BY DEF Request
  <1>5. SharedOK' BY TypeFacts DEF SharedOK, Request, poolVars
  <1> HIDE DEF t
  <1>6. QED BY <1>2, <1>3, <1>4, <1>5, StepTyped

LEMMA PrefetchPrefixTyped ==
  ASSUME TypeInv, NEW h \in Handlers, PrefetchPrefix(h) PROVE TypeInv'
  <1> DEFINE s == hs[h]
  <1>1. s \in Requests /\ SharedOK BY TypeFacts
  <1>2. PICK k \in 0..Least(PrefixMax, s.end + 1) :
          LET u == [s EXCEPT !.pc = "prelude", !.cur = @ + k, !.streamed = @ + k,
                             !.wire = @ + k]
          IN /\ Become(h, IF u.cur > u.end THEN Close(u, "complete") ELSE u)
             /\ servedBy' = IF k = 0 THEN servedBy ELSE servedBy \cup {remote}
    BY DEF PrefetchPrefix
  <1>3. k \in Nat BY <1>1, FieldTypes, BoundsAssumption DEF Least
  <1> DEFINE c == s.cur + k
             m == s.streamed + k
             x == s.wire + k
             u == [s EXCEPT !.pc = "prelude", !.cur = c, !.streamed = m, !.wire = x]
             t == IF u.cur > u.end THEN Close(u, "complete") ELSE u
  <1>4. c \in Nat /\ m \in Nat /\ x \in Nat BY <1>1, <1>3, FieldTypes
  <1>5. Become(h, t) BY <1>2
  <1>6. SharedOK'
    BY <1>1, <1>2 DEF SharedOK, PrefetchPrefix, ctxVars, poolVars
  <1> HIDE DEF s, c, m, x
  <1>7. "prelude" \in PCs /\ "complete" \in Reasons BY DEF PCs, Reasons
  <1>8. u \in Requests /\ u.pc = "prelude" BY <1>1, <1>4, <1>7 DEF Requests
  <1> HIDE DEF u
  <1>9. t \in Requests /\ t.pc # "probe"
    <2>1. Close(u, "complete") \in Requests BY <1>7, <1>8, CloseTyped
    <2>2. Close(u, "complete").pc = "closing" BY <1>8 DEF Close, Requests
    <2>3. QED BY <1>8, <2>1, <2>2
  <1> HIDE DEF t
  <1>10. QED BY <1>5, <1>6, <1>9, StepTyped

LEMMA PreludeTyped ==
  ASSUME TypeInv, NEW h \in Handlers, Prelude(h) PROVE TypeInv'
  <1> DEFINE s == hs[h]
  <1>1. s \in Requests /\ SharedOK BY TypeFacts
  <1>2. PICK k \in 0..Least(PrefixMax, s.end - Pos(s) + 1), from \in SUBSET inRam :
          LET u == IF k = 0 THEN s ELSE Put(s, from, k)
          IN /\ from = {} <=> k = 0
             /\ Become(h, IF Pos(u) > u.end THEN Return(u, "NONE", u.w)
                          ELSE [u EXCEPT !.pc = "open"])
             /\ servedBy' = servedBy \cup from
    BY DEF Prelude
  <1> DEFINE u == IF k = 0 THEN s ELSE Put(s, from, k)
             t == IF Pos(u) > u.end THEN Return(u, "NONE", u.w)
                  ELSE [u EXCEPT !.pc = "open"]
  <1>3. k \in Nat /\ from \in SUBSET Sources
    BY <1>1, FieldTypes, BoundsAssumption DEF Least, Pos, SharedOK
  <1>4. u \in Requests BY <1>1, <1>3, PutTyped
  <1>5. Become(h, t) BY <1>2
  <1>6. SharedOK' BY <1>1, <1>2 DEF SharedOK, Prelude, ctxVars, poolVars
  <1> HIDE DEF u
  <1>7. "open" \in PCs /\ "NONE" \in Results BY DEF PCs, Results
  <1>8. u.w \in Nat BY <1>4, FieldTypes
  <1>9. Return(u, "NONE", u.w) \in Requests /\ Return(u, "NONE", u.w).pc # "probe"
    BY <1>4, <1>7, <1>8, ReturnTyped, ReturnPc
  <1>10. [u EXCEPT !.pc = "open"] \in Requests /\ [u EXCEPT !.pc = "open"].pc = "open"
    BY <1>4, <1>7 DEF Requests
  <1>11. t \in Requests /\ t.pc # "probe" BY <1>9, <1>10
  <1> HIDE DEF t
  <1>12. QED BY <1>5, <1>6, <1>11, StepTyped

LEMMA OpenOkTyped ==
  ASSUME TypeInv, NEW h \in Handlers, OpenOk(h) PROVE TypeInv'
  <1> DEFINE s == hs[h]
             r == remote
             t == [s EXCEPT !.pc = "body", !.src = r]
  <1>1. s \in Requests /\ SharedOK BY TypeFacts
  <1>2. Become(h, t) /\ r \in Sources BY <1>1 DEF OpenOk, SharedOK
  <1>3. SharedOK' BY <1>1 DEF SharedOK, OpenOk, poolVars
  <1>4. "body" \in PCs BY DEF PCs
  <1> HIDE DEF s, r
  <1>5. t \in Requests /\ t.pc = "body" BY <1>1, <1>2, <1>4 DEF Requests
  <1> HIDE DEF t
  <1>6. QED BY <1>2, <1>3, <1>5, StepTyped

LEMMA OpenFailsTyped ==
  ASSUME TypeInv, NEW h \in Handlers, OpenFails(h) PROVE TypeInv'
  <1> DEFINE s == hs[h]
  <1>1. s \in Requests /\ SharedOK BY TypeFacts
  <1>2. s.w \in Nat BY <1>1, FieldTypes
  <1>3. PICK res \in Results, k \in {0, s.w} : Become(h, Return(s, res, k))
    BY DEF OpenFails, Results
  <1>4. SharedOK' BY <1>1 DEF SharedOK, OpenFails, poolVars
  <1>5. Return(s, res, k) \in Requests /\ Return(s, res, k).pc # "probe"
    BY <1>1, <1>2, ReturnTyped, ReturnPc
  <1> HIDE DEF s
  <1>6. QED BY <1>3, <1>4, <1>5, StepTyped

LEMMA ChunkTyped ==
  ASSUME TypeInv, NEW h \in Handlers, Chunk(h) PROVE TypeInv'
  <1> DEFINE s == hs[h]
             t == Put(s, {s.src}, 1)
  <1>1. s \in Requests /\ SharedOK BY TypeFacts
  <1>2. Become(h, t) /\ s.pc = "body" BY DEF Chunk
  <1>3. s.src \in Sources BY <1>1, FieldTypes
  <1>4. SharedOK' BY <1>1, <1>3 DEF SharedOK, Chunk, ctxVars, poolVars
  <1>5. t \in Requests BY <1>1, <1>3, PutTyped
  <1>6. t.pc = "body" BY <1>1, <1>2 DEF Put, Fed, Requests
  <1> HIDE DEF t
  <1>7. QED BY <1>2, <1>4, <1>5, <1>6, StepTyped

LEMMA BodyEndsTyped ==
  ASSUME TypeInv, NEW h \in Handlers, BodyEnds(h) PROVE TypeInv'
  <1> DEFINE s == hs[h]
  <1>1. s \in Requests /\ SharedOK BY TypeFacts
  <1>2. s.w \in Nat BY <1>1, FieldTypes
  <1>3. PICK res \in Results : Become(h, Return(s, res, s.w))
    BY DEF BodyEnds, Results
  <1>4. SharedOK' BY <1>1 DEF SharedOK, BodyEnds, ctxVars, poolVars
  <1>5. Return(s, res, s.w) \in Requests /\ Return(s, res, s.w).pc # "probe"
    BY <1>1, <1>2, ReturnTyped, ReturnPc
  <1> HIDE DEF s
  <1>6. QED BY <1>3, <1>4, <1>5, StepTyped

\* Closing a request with a reason leads to the finally block.
LEMMA ClosePc ==
  ASSUME NEW s \in Requests, NEW why \in Reasons
  PROVE  Close(s, why) \in Requests /\ Close(s, why).pc = "closing"
  <1>1. Close(s, why) \in Requests BY CloseTyped
  <1>2. Close(s, why).pc = "closing" BY DEF Close, Requests
  <1>3. QED BY <1>1, <1>2

LEMMA WatchdogTyped ==
  ASSUME TypeInv, NEW h \in Handlers, Watchdog(h) PROVE TypeInv'
  <1> DEFINE s == hs[h]
             u == [s EXCEPT !.tripped = TRUE]
  <1>1. s \in Requests /\ SharedOK BY TypeFacts
  <1>2. s.w \in Nat BY <1>1, FieldTypes
  <1>3. \/ Become(h, Return(s, "RECOVERABLE", s.w))
        \/ Become(h, Close(u, "passthrough_stall"))
    BY DEF Watchdog
  <1>4. SharedOK' BY <1>1 DEF SharedOK, Watchdog, poolVars
  <1>5. "RECOVERABLE" \in Results /\ "passthrough_stall" \in Reasons BY DEF Results, Reasons
  <1> HIDE DEF s
  <1>6. u \in Requests BY <1>1 DEF Requests
  <1> HIDE DEF u
  <1>7. CASE Become(h, Return(s, "RECOVERABLE", s.w))
    <2>1. Return(s, "RECOVERABLE", s.w) \in Requests
          /\ Return(s, "RECOVERABLE", s.w).pc # "probe"
      BY <1>1, <1>2, <1>5, ReturnTyped, ReturnPc
    <2>2. QED BY <1>4, <1>7, <2>1, StepTyped
  <1>8. CASE Become(h, Close(u, "passthrough_stall"))
    <2>1. Close(u, "passthrough_stall") \in Requests
          /\ Close(u, "passthrough_stall").pc = "closing"
      BY <1>5, <1>6, ClosePc
    <2>2. QED BY <1>4, <1>8, <2>1, StepTyped
  <1>9. QED BY <1>3, <1>7, <1>8

LEMMA DisconnectTyped ==
  ASSUME TypeInv, NEW h \in Handlers, Disconnect(h) PROVE TypeInv'
  <1> DEFINE s == hs[h]
             why == IF stallFlag THEN "passthrough_stall" ELSE "client_disconnected"
  <1>1. s \in Requests /\ SharedOK BY TypeFacts
  <1>2. PICK from \in SUBSET (inRam \cup {s.src}) : Become(h, Close(Fed(s, from), why))
    BY DEF Disconnect
  <1> DEFINE u == Fed(s, from)
  <1>3. SharedOK' BY <1>1 DEF SharedOK, Disconnect, ctxVars, poolVars
  <1>4. why \in Reasons BY DEF Reasons
  <1>8. s.src \in Sources /\ inRam \subseteq Sources BY <1>1, FieldTypes DEF SharedOK
  <1>5. from \in SUBSET Sources BY <1>8
  <1>6. u \in Requests BY <1>1, <1>5, PutTyped
  <1> HIDE DEF why
  <1>7. Close(u, why) \in Requests /\ Close(u, why).pc = "closing" BY <1>4, <1>6, ClosePc
  <1>9. QED BY <1>2, <1>3, <1>7, StepTyped

LEMMA RetryTyped ==
  ASSUME TypeInv, NEW h \in Handlers, Retry(h) PROVE TypeInv'
  <1> DEFINE s == hs[h]
             n == s.tries + 1
             g == [s EXCEPT !.pc = "after"]
             r == [s EXCEPT !.pc = "prelude", !.tries = n, !.result = "NONE"]
  <1>1. s \in Requests /\ SharedOK BY TypeFacts
  <1>2. PICK t \in {g, LadderDone(s, "UPSTREAM_ERROR"), LadderDone(s, s.result), r} :
          Become(h, t)
    BY DEF Retry
  <1>3. SharedOK' BY <1>1 DEF SharedOK, Retry, ctxVars, poolVars
  <1>4. n \in Nat /\ s.result \in Results BY <1>1, FieldTypes
  <1>5. "after" \in PCs /\ "prelude" \in PCs /\ "NONE" \in Results
        /\ "UPSTREAM_ERROR" \in Results
    BY DEF PCs, Results
  <1> HIDE DEF s, n
  <1>6. g \in Requests /\ g.pc = "after" BY <1>1, <1>5 DEF Requests
  <1>7. r \in Requests /\ r.pc = "prelude" BY <1>1, <1>4, <1>5 DEF Requests
  <1>8. /\ LadderDone(s, "UPSTREAM_ERROR") \in Requests
        /\ LadderDone(s, s.result) \in Requests
        /\ LadderDone(s, "UPSTREAM_ERROR").pc # "probe"
        /\ LadderDone(s, s.result).pc # "probe"
    BY <1>1, <1>4, <1>5, LadderDoneTyped, LadderDonePc
  <1> HIDE DEF g, r
  <1>9. t \in Requests /\ t.pc # "probe" BY <1>6, <1>7, <1>8
  <1>10. QED BY <1>2, <1>3, <1>9, StepTyped

LEMMA ProgressTyped ==
  ASSUME TypeInv, NEW h \in Handlers, Progress(h) PROVE TypeInv'
  <1> DEFINE s == hs[h]
             c == BumpedCount(s)
             m == -1
             t1 == [s EXCEPT !.pc = "stall", !.await = 0, !.falls = 0,
                             !.lastFall = m, !.stalls = m]
             t2 == [s EXCEPT !.await = c, !.pc = "select", !.via = "await"]
             t3 == [s EXCEPT !.await = c, !.pc = "stall"]
  <1>1. s \in Requests /\ SharedOK BY TypeFacts
  <1>2. c \in Nat /\ m \in Int /\ s.cur \in Int
    BY <1>1, FieldTypes, BoundsAssumption DEF BumpedCount, Least, SharedOK
  <1>3. PICK t \in {t1, t2, t3} : Become(h, t) BY DEF Progress
  <1>4. awaiting' \in [count : Nat, byte : Int]
    <2>1. CASE s.progressed
      <3>1. awaiting' = [awaiting EXCEPT !.count = 0] BY <2>1 DEF Progress
      <3>2. QED BY <1>1, <3>1 DEF SharedOK
    <2>2. CASE ~ s.progressed
      <3>1. awaiting' = IF s.result = "AWAITING" THEN [count |-> c, byte |-> s.cur]
                        ELSE [count |-> 0, byte |-> -1]
        BY <2>2 DEF Progress
      <3>2. QED BY <1>2, <3>1
    <2>3. QED BY <2>1, <2>2
  <1>5. SharedOK' BY <1>1, <1>4 DEF SharedOK, Progress, poolVars
  <1>6. "stall" \in PCs /\ "select" \in PCs BY DEF PCs
  <1> HIDE DEF s, c, m
  <1>7. t1 \in Requests /\ t1.pc = "stall" BY <1>1, <1>2, <1>6 DEF Requests
  <1>8. t2 \in Requests /\ t2.pc = "select" BY <1>1, <1>2, <1>6 DEF Requests
  <1>9. t3 \in Requests /\ t3.pc = "stall" BY <1>1, <1>2, <1>6 DEF Requests
  <1> HIDE DEF t1, t2, t3
  <1>10. t \in Requests /\ t.pc # "probe" BY <1>7, <1>8, <1>9
  <1>11. QED BY <1>3, <1>5, <1>10, StepTyped

LEMMA StallWaitTyped ==
  ASSUME TypeInv, NEW h \in Handlers, StallWait(h) PROVE TypeInv'
  <1> DEFINE s == hs[h]
             u == NextPass(s)
             n == IF u.stalls = -1 THEN 1 ELSE u.stalls + 1
             t == [u EXCEPT !.stalls = n]
  <1>1. s \in Requests /\ SharedOK BY TypeFacts
  <1>2. Become(h, Close(s, "client_disconnected")) \/ Become(h, t)
    BY DEF StallWait
  <1>3. SharedOK' BY <1>1 DEF SharedOK, StallWait, ctxVars, poolVars
  <1>4. "client_disconnected" \in Reasons BY DEF Reasons
  <1>5. Close(s, "client_disconnected") \in Requests
        /\ Close(s, "client_disconnected").pc = "closing"
    BY <1>1, <1>4, ClosePc
  <1>6. u \in Requests /\ u.pc = "prelude"
    <2>1. u.pc = "prelude" BY <1>1 DEF NextPass, Requests
    <2>2. QED BY <1>1, <2>1, NextPassTyped
  <1> HIDE DEF u
  <1>7. n \in Int BY <1>6, FieldTypes
  <1> HIDE DEF n
  <1>8. t \in Requests /\ t.pc = "prelude" BY <1>6, <1>7 DEF Requests
  <1> HIDE DEF t
  <1>9. QED BY <1>2, <1>3, <1>5, <1>8, StepTyped

LEMMA StallDoneTyped ==
  ASSUME TypeInv, NEW h \in Handlers, StallDone(h) PROVE TypeInv'
  <1> DEFINE t == [hs[h] EXCEPT !.pc = "giveup"]
  <1>1. hs[h] \in Requests /\ SharedOK BY TypeFacts
  <1>2. Become(h, t) BY DEF StallDone
  <1>3. SharedOK' BY <1>1 DEF SharedOK, StallDone, ctxVars, poolVars
  <1>4. "giveup" \in PCs BY DEF PCs
  <1>5. t \in Requests /\ t.pc = "giveup" BY <1>1, <1>4 DEF Requests
  <1> HIDE DEF t
  <1>6. QED BY <1>2, <1>3, <1>5, StepTyped

LEMMA GiveUpTyped ==
  ASSUME TypeInv, NEW h \in Handlers, GiveUp(h) PROVE TypeInv'
  <1> DEFINE s == hs[h]
             t == [s EXCEPT !.pc = "skip"]
  <1>1. s \in Requests /\ SharedOK BY TypeFacts
  <1>2. (\E why \in Reasons : Become(h, Close(s, why))) \/ Become(h, t)
    BY DEF GiveUp, Reasons
  <1>3. SharedOK' BY <1>1 DEF SharedOK, GiveUp, ctxVars, poolVars
  <1>4. "skip" \in PCs BY DEF PCs
  <1> HIDE DEF s
  <1>5. t \in Requests /\ t.pc = "skip" BY <1>1, <1>4 DEF Requests
  <1> HIDE DEF t
  <1>6. ASSUME NEW why \in Reasons, Become(h, Close(s, why)) PROVE TypeInv'
    <2>1. Close(s, why) \in Requests /\ Close(s, why).pc = "closing" BY <1>1, ClosePc
    <2>2. QED BY <1>3, <1>6, <2>1, StepTyped
  <1>7. CASE Become(h, t) BY <1>3, <1>5, <1>7, StepTyped
  <1>8. QED BY <1>2, <1>6, <1>7

LEMMA SkipProbeTyped ==
  ASSUME TypeInv, NEW h \in Handlers, SkipProbe(h) PROVE TypeInv'
  <1> DEFINE s == hs[h]
             t(z) == [s EXCEPT !.pc = "fill", !.gap = z]
  <1>1. s \in Requests /\ SharedOK BY TypeFacts
  <1>2. (\E why \in Reasons : Become(h, Close(s, why)))
        \/ (\E z \in SkipSizes : Become(h, t(z)))
    BY DEF SkipProbe, Reasons
  <1>3. SharedOK' BY <1>1 DEF SharedOK, SkipProbe, ctxVars, poolVars
  <1>4. "fill" \in PCs BY DEF PCs
  <1> HIDE DEF s
  <1>5. ASSUME NEW z \in SkipSizes PROVE t(z) \in Requests /\ t(z).pc = "fill"
    <2>1. z \in Nat BY BoundsAssumption
    <2>2. QED BY <1>1, <1>4, <2>1 DEF Requests
  <1> HIDE DEF t
  <1>6. ASSUME NEW why \in Reasons, Become(h, Close(s, why)) PROVE TypeInv'
    <2>1. Close(s, why) \in Requests /\ Close(s, why).pc = "closing" BY <1>1, ClosePc
    <2>2. QED BY <1>3, <1>6, <2>1, StepTyped
  <1>7. ASSUME NEW z \in SkipSizes, Become(h, t(z)) PROVE TypeInv'
    BY <1>3, <1>5, <1>7, StepTyped
  <1>8. QED BY <1>2, <1>6, <1>7

LEMMA ZeroFillTyped ==
  ASSUME TypeInv, NEW h \in Handlers, ZeroFill(h) PROVE TypeInv'
  <1> DEFINE s == hs[h]
             u == NextPass(s)
             x == u.wire + s.gap
             c == u.cur + s.gap
             k == u.skipped + s.gap
             t == [u EXCEPT !.wire = x, !.cur = c, !.skipped = k, !.gap = 0]
  <1>1. s \in Requests /\ SharedOK BY TypeFacts
  <1>2. Become(h, t) BY DEF ZeroFill
  <1>3. SharedOK' BY <1>1 DEF SharedOK, ZeroFill, ctxVars, poolVars
  <1>4. u \in Requests /\ u.pc = "prelude"
    <2>1. u.pc = "prelude" BY <1>1 DEF NextPass, Requests
    <2>2. QED BY <1>1, <2>1, NextPassTyped
  <1> HIDE DEF u
  <1>5. x \in Nat /\ c \in Nat /\ k \in Nat BY <1>1, <1>4, FieldTypes
  <1> HIDE DEF x, c, k
  <1>6. t \in Requests /\ t.pc = "prelude" BY <1>4, <1>5 DEF Requests
  <1> HIDE DEF t
  <1>7. QED BY <1>2, <1>3, <1>6, StepTyped

LEMMA FinalizeTyped ==
  ASSUME TypeInv, NEW h \in Handlers, Finalize(h) PROVE TypeInv'
  <1> DEFINE s == hs[h]
             z == Idle
             blame == s.pending # NoSource /\ s.reason # "client_disconnected"
             r == s.reason
             ok == s.tripped
             o == s.owed - (IF s.deferred THEN 1 ELSE 0) - (IF blame THEN 1 ELSE 0)
             f == s.failLie \/ (blame /\ s.pending \in s.feeders)
             t == [z EXCEPT !.reason = r, !.tripped = ok, !.owed = o, !.failLie = f]
  <1>1. s \in Requests /\ SharedOK BY TypeFacts
  <1>2. Become(h, t) BY DEF Finalize
  <1>3. SharedOK' BY <1>1 DEF SharedOK, Finalize, ctxVars, poolVars
  <1>4. r \in Reasons /\ o \in Int BY <1>1, FieldTypes
  <1>5. ok \in BOOLEAN BY <1>1 DEF Requests
  <1>6. f \in BOOLEAN OBVIOUS
  <1>7. z \in Requests /\ z.pc = "idle" BY IdleTyped DEF Idle
  <1> HIDE DEF s, z, r, ok, o, f, blame
  <1>8. t \in Requests /\ t.pc = "idle" BY <1>4, <1>5, <1>6, <1>7 DEF Requests
  <1> HIDE DEF t
  <1>9. QED BY <1>2, <1>3, <1>8, StepTyped

LEMMA SelectTyped ==
  ASSUME TypeInv, NEW h \in Handlers, Select(h) PROVE TypeInv'
  <1> DEFINE s == hs[h]
             ok == Selectable
             p == pool
             l == Lowest(ok)
             at == IF p[l] \in resolved THEN [first |-> l, i |-> l, standby |-> 0]
                   ELSE [first |-> 0, i |-> l + 1, standby |-> l]
             f == at.first
             i == at.i
             b == at.standby
             r == remote
             x == failed
             t == [s EXCEPT !.pc = "scan", !.list = p, !.first = f, !.i = i, !.standby = b,
                            !.prim = r, !.barred = x]
  <1>1. s \in Requests /\ SharedOK BY TypeFacts
  <1>2. Become(h, IF ok = {} THEN NoMatch(s) ELSE t) BY DEF Select
  <1>3. SharedOK' BY <1>1 DEF SharedOK, Select, ctxVars, poolVars
  <1>4. NoMatch(s) \in Requests /\ NoMatch(s).pc # "probe"
    BY <1>1, NoMatchTyped, NoMatchPc
  <1>5. CASE ok = {} BY <1>2, <1>3, <1>4, <1>5, StepTyped
  <1>6. CASE ok # {}
    <2>1. p \in Seq(Sources) /\ r \in Sources /\ x \subseteq Sources BY <1>1 DEF SharedOK
    <2>2. ok \subseteq Positions BY <2>1 DEF Positions, Selectable
    <2>3. ok \in SUBSET Nat BY <2>2 DEF Positions
    <2>4. l \in Nat \ {0} BY <1>6, <2>2, <2>3, LowestIn DEF Positions
    <2>5. i \in Positions /\ f \in Nat /\ b \in Nat
      <3> HIDE DEF l
      <3> QED BY <2>4 DEF Positions
    <2>6. Become(h, t) BY <1>2, <1>6
    <2>7. "scan" \in PCs BY DEF PCs
    <2> HIDE DEF s, p, i, r, f, b, x
    <2>8. t \in Requests /\ t.pc = "scan" BY <1>1, <2>1, <2>5, <2>7 DEF Requests
    <2> HIDE DEF t
    <2>9. QED BY <1>3, <2>6, <2>8, StepTyped
  <1>7. QED BY <1>5, <1>6

\* A look changes only what is barred.
LEMMA LookTyped ==
  ASSUME NEW s \in Requests
  PROVE  /\ Look(s) \in Requests
         /\ Look(s).list = s.list /\ Look(s).pc = s.pc /\ Look(s).pass = s.pass
         /\ Look(s).i = s.i /\ Look(s).first = s.first /\ Look(s).standby = s.standby
         /\ Look(s).prim = s.prim /\ Look(s).barred = s.barred \cap failed
  <1> DEFINE b == s.barred \cap failed
  <1>1. Look(s) = [s EXCEPT !.barred = b] BY DEF Look
  <1>2. b \subseteq Sources BY FieldTypes
  <1> HIDE DEF b
  <1>3. [s EXCEPT !.barred = b] \in Requests BY <1>2 DEF Requests
  <1>4. QED BY <1>1, <1>3 DEF Requests, b

LEMMA ScanTyped ==
  ASSUME TypeInv, NEW h \in Handlers, Scan(h) PROVE TypeInv'
  <1> DEFINE s == hs[h]
             rest == s.i..Len(s.list)
             fit == { j \in rest : Live(s, j) /\ ~Unfit(s, j) }
             seen == IF fit = {} THEN rest ELSE s.i..(Lowest(fit) - 1)
             waiting == { j \in seen : s.list[j] \notin resolved \cup failed }
             first == IF s.standby # 0 \/ waiting = {} THEN s.standby ELSE Lowest(waiting)
             n == Lowest(fit)
             l == Look(s)
             tp == [l EXCEPT !.pc = "probe", !.pass = "scan", !.i = n, !.standby = first]
             tr == [l EXCEPT !.pc = "refresh", !.i = first, !.standby = first]
  <1>1. s \in Requests /\ SharedOK BY TypeFacts
  <1>2. /\ failed' = failed \cup { s.list[j] : j \in { k \in seen : Live(s, k) /\ Unfit(s, k) } }
        /\ Become(h, CASE fit # {} -> tp
                       [] fit = {} /\ first # 0 -> tr
                       [] OTHER -> NoMatch(s))
    BY DEF Scan
  <1>3. s.i \in Nat \ {0} /\ s.list \in Seq(Sources) /\ s.standby \in Nat
    BY <1>1, FieldTypes DEF Positions
  <1>4. rest \in SUBSET Nat /\ fit \in SUBSET Nat /\ rest \subseteq DOMAIN s.list
        /\ fit \subseteq rest
    BY <1>3
  <1>5. fit # {} => n \in fit BY <1>4, LowestIn
  <1>6. seen \subseteq rest
    <2>1. CASE fit = {}
      <3>1. seen = rest BY <2>1
      <3> HIDE DEF seen, rest
      <3>2. QED BY <3>1
    <2>2. CASE fit # {}
      <3>1. n \in Nat /\ n \in s.i..Len(s.list) BY <1>4, <1>5, <2>2
      <3>2. seen = s.i..(n - 1) BY <2>2
      <3> HIDE DEF seen, rest, fit, n
      <3>3. seen = s.i..(n - 1) /\ rest = s.i..Len(s.list) BY <3>2 DEF rest
      <3>4. Len(s.list) \in Nat BY <1>3
      <3> HIDE DEF s
      <3>5. QED BY <1>3, <3>1, <3>3, <3>4
    <2>3. QED BY <2>1, <2>2
  <1>7. waiting \in SUBSET Nat BY <1>4, <1>6
  <1>8. first \in Nat
    <2>1. CASE s.standby # 0 \/ waiting = {} BY <1>3, <2>1
    <2>2. CASE ~(s.standby # 0 \/ waiting = {})
      <3>1. Lowest(waiting) \in waiting BY <1>7, <2>2, LowestIn
      <3>2. QED BY <1>7, <2>2, <3>1
    <2>3. QED BY <2>1, <2>2
  <1>9. failed' \subseteq Sources
    <2>1. \A j \in seen : s.list[j] \in Sources BY <1>3, <1>4, <1>6
    <2>2. QED BY <1>1, <1>2, <2>1 DEF SharedOK
  <1>10. SharedOK' BY <1>1, <1>9 DEF SharedOK, Scan, ctxVars
  <1>11. "probe" \in PCs /\ "refresh" \in PCs BY DEF PCs
  <1>16. l \in Requests /\ l.list = s.list BY <1>1, LookTyped
  <1>12. CASE fit # {}
    <2>1. n \in Positions /\ n <= Len(s.list)
      BY <1>3, <1>4, <1>5, <1>12 DEF Positions
    <2>2. Become(h, tp) BY <1>2, <1>12
    <2> DEFINE len == Len(s.list)
               lst == s.list
    <2>3. n <= len /\ len = Len(lst) BY <2>1
    <2> HIDE DEF s, n, first, len, lst, l
    <2>4. tp \in Requests /\ tp.i = n /\ tp.list = s.list
      BY <1>16, <1>8, <1>11, <2>1 DEF Requests
    <2>5. tp.i <= Len(tp.list) BY <2>1, <2>4
    <2> HIDE DEF tp
    <2>6. QED BY <1>10, <2>2, <2>4, <2>5, StepTyped
  <1>13. CASE fit = {} /\ first # 0
    <2>1. first \in Positions BY <1>8, <1>13 DEF Positions
    <2>2. Become(h, tr) BY <1>2, <1>13
    <2> HIDE DEF s, first, l
    <2>3. tr \in Requests /\ tr.pc = "refresh" BY <1>16, <1>8, <1>11, <2>1 DEF Requests
    <2> HIDE DEF tr
    <2>4. QED BY <1>10, <2>2, <2>3, StepTyped
  <1>14. CASE fit = {} /\ first = 0
    <2>1. NoMatch(s) \in Requests /\ NoMatch(s).pc # "probe"
      BY <1>1, NoMatchTyped, NoMatchPc
    <2>2. Become(h, NoMatch(s)) BY <1>2, <1>14
    <2>3. QED BY <1>10, <2>1, <2>2, StepTyped
  <1>15. QED BY <1>12, <1>13, <1>14

LEMMA RefreshTyped ==
  ASSUME TypeInv, NEW h \in Handlers, Refresh(h) PROVE TypeInv'
  <1> DEFINE s == hs[h]
             todo == { j \in s.i..Len(s.list) :
                         j = s.standby \/ s.list[j] \notin resolved \cup failed }
             j == Lowest(todo)
             c == s.list[j]
             n == j + 1
             r == remote
             l == Look(s)
             t1 == [l EXCEPT !.i = n]
             t2 == [l EXCEPT !.pc = "probe", !.pass = "refresh", !.i = j, !.prim = r]
  <1>1. s \in Requests /\ SharedOK /\ s.pc = "refresh" BY TypeFacts DEF Refresh
  <1>2. s.i \in Nat \ {0} /\ s.list \in Seq(Sources) /\ r \in Sources
    BY <1>1, FieldTypes DEF Positions, SharedOK
  <1>3. todo \in SUBSET Nat /\ todo \subseteq DOMAIN s.list BY <1>2
  <1>4. todo # {} => /\ j \in Positions /\ j <= Len(s.list) /\ n \in Positions /\ c \in Sources
    <2> SUFFICES ASSUME todo # {} PROVE
          j \in Positions /\ j <= Len(s.list) /\ n \in Positions /\ c \in Sources
      OBVIOUS
    <2>1. j \in todo BY <1>3, LowestIn
    <2>2. j \in DOMAIN s.list BY <1>3, <2>1
    <2> HIDE DEF j
    <2>3. QED BY <1>2, <2>2 DEF Positions
  <1>5. \/ todo = {} /\ Become(h, NoMatch(s))
           /\ UNCHANGED <<failed, resolved, unmeasured>>
        \/ /\ todo # {} /\ Become(h, t1)
           /\ \/ UNCHANGED <<failed, resolved, unmeasured>>
              \/ Condemn(c)
              \/ Blip(c) /\ failed' = failed \cup {c}
        \/ todo # {} /\ Usable(c) /\ Become(h, t2)
    BY DEF Refresh
  <1>6. failed' \subseteq Sources /\ resolved' \subseteq Sources
        /\ unmeasured' \subseteq Sources
    <2> HIDE DEF c, todo
    <2>1. QED BY <1>1, <1>4, <1>5 DEF SharedOK, Condemn, Blip, Usable
  <1>7. SharedOK' BY <1>1, <1>6 DEF SharedOK, Refresh, ctxVars
  <1>8. "probe" \in PCs BY DEF PCs
  <1>13. l \in Requests /\ l.list = s.list /\ l.pc = s.pc BY <1>1, LookTyped
  <1>9. CASE todo = {}
    <2>1. NoMatch(s) \in Requests /\ NoMatch(s).pc # "probe"
      BY <1>1, NoMatchTyped, NoMatchPc
    <2>2. Become(h, NoMatch(s)) BY <1>5, <1>9
    <2>3. QED BY <1>7, <2>1, <2>2, StepTyped
  <1>10. CASE todo # {} /\ Become(h, t1)
    <2>1. n \in Positions BY <1>4, <1>10
    <2>2. Become(h, t1) BY <1>10
    <2> HIDE DEF s, n, l
    <2>3. t1 \in Requests /\ t1.pc = "refresh" BY <1>1, <1>13, <2>1 DEF Requests
    <2> HIDE DEF t1
    <2>4. QED BY <1>7, <2>2, <2>3, StepTyped
  <1>11. CASE todo # {} /\ Become(h, t2)
    <2>1. j \in Positions /\ j <= Len(s.list) BY <1>4, <1>11
    <2>2. Become(h, t2) BY <1>11
    <2> HIDE DEF s, j, r, l
    <2>3. t2 \in Requests /\ t2.i = j /\ t2.list = s.list
      BY <1>13, <1>2, <1>8, <2>1 DEF Requests
    <2>4. t2.i <= Len(t2.list) BY <2>1, <2>3
    <2> HIDE DEF t2
    <2>5. QED BY <1>7, <2>2, <2>3, <2>4, StepTyped
  <1>12. QED BY <1>5, <1>9, <1>10, <1>11

LEMMA ActivateTyped ==
  ASSUME TypeInv, NEW h \in Handlers, NEW c \in Sources, Activate(h, c),
         UNCHANGED <<merging, aborted, servedBy>>
  PROVE  TypeInv'
  <1> DEFINE s == hs[h]
             t == BeginPending(s, c)
  <1>1. s \in Requests /\ SharedOK BY TypeFacts
  <1>2. Become(h, t) BY DEF Activate
  <1>3. t \in Requests BY <1>1, BeginPendingTyped
  <1>4. t.pc # "probe"
    <2> DEFINE n == NextPass(ForgetScan(s))
    <2>1. n \in Requests BY <1>1, ForgetScanTyped, NextPassTyped
    <2>2. ForgetScan(s) \in Requests BY <1>1, ForgetScanTyped
    <2>3. n.pc = "prelude" BY <2>2 DEF NextPass, Requests
    <2>4. t.pc = n.pc
      <3> HIDE DEF n
      <3>1. \A u : u \in Requests => BeginPending(s, c) = BeginPending(s, c) OBVIOUS
      <3>2. QED BY <2>1 DEF BeginPending, Requests, n
    <2>5. QED BY <2>3, <2>4
  <1>5. /\ pool' \in Seq(Sources) /\ failed' \subseteq Sources
        /\ validated' \subseteq Sources /\ misses' \in [Sources -> Nat]
    <2>1. CASE Demotes(c)
      <3>1. /\ pool' = Append(pool, remote)
            /\ validated' = validated \cup {remote, c}
            /\ failed' = failed \ {remote}
            /\ misses' = [misses EXCEPT ![c] = 0, ![remote] = 0]
        BY <2>1 DEF Activate
      <3>2. misses' \in [Sources -> Nat] BY <1>1, <3>1 DEF SharedOK
      <3>3. pool' \in Seq(Sources) BY <1>1, <3>1 DEF SharedOK
      <3>4. failed' \subseteq Sources /\ validated' \subseteq Sources
        BY <1>1, <3>1 DEF SharedOK
      <3>5. QED BY <3>2, <3>3, <3>4
    <2>2. CASE ~ Demotes(c)
      <3>1. /\ UNCHANGED <<pool, failed>>
            /\ validated' = validated \cup {c}
            /\ misses' = [misses EXCEPT ![c] = 0]
        BY <2>2 DEF Activate
      <3>2. misses' \in [Sources -> Nat] BY <1>1, <3>1 DEF SharedOK
      <3>3. QED BY <1>1, <3>1, <3>2 DEF SharedOK
    <2>3. QED BY <2>1, <2>2
  <1>6. remote' \in Sources /\ inRam' \subseteq Sources BY <1>1 DEF Activate, SharedOK
  <1>7. awaiting' \in [count : Nat, byte : Int] BY DEF Activate
  <1>8. SharedOK' BY <1>1, <1>5, <1>6, <1>7 DEF SharedOK, Activate
  <1> HIDE DEF t
  <1>9. QED BY <1>2, <1>3, <1>4, <1>8, StepTyped

LEMMA ProbeTyped ==
  ASSUME TypeInv, NEW h \in Handlers, Probe(h) PROVE TypeInv'
  <1> DEFINE s == hs[h]
             c == s.list[s.i]
             p == s.pass
             n == s.i + 1
             t == [s EXCEPT !.pc = p, !.i = n]
  <1>1. s \in Requests /\ SharedOK BY TypeFacts
  <1>2. s.pc = "probe" BY DEF Probe
  <1>3. s.i \in Nat \ {0} /\ s.list \in Seq(Sources) /\ s.i <= Len(s.list)
    BY <1>1, <1>2, FieldTypes DEF Positions, TypeInv, ProbeInList
  <1>4. c \in Sources /\ n \in Positions BY <1>3 DEF Positions
  <1>5. p \in {"scan", "refresh"} BY <1>1 DEF Requests
  <1>6. UNCHANGED <<merging, aborted, servedBy>> BY DEF Probe
  <1>7. \/ Activate(h, c)
        \/ /\ failed' \in {failed, failed \cup {c}}
           /\ \E m \in Nat : misses' = [misses EXCEPT ![c] = m]
           /\ Become(h, t)
           /\ UNCHANGED <<ctxVars, pool, validated, resolved, unmeasured, inRam>>
    <2>1. misses[c] \in Nat BY <1>1, <1>4 DEF SharedOK
    <2>2. 0 \in Nat /\ Least(misses[c] + 1, MissMax + 1) \in Nat
      BY <2>1, BoundsAssumption DEF Least
    <2>3. QED BY <2>2 DEF Probe
  <1>8. CASE Activate(h, c) BY <1>4, <1>6, <1>8, ActivateTyped
  <1>9. ASSUME failed' \in {failed, failed \cup {c}},
               NEW m \in Nat, misses' = [misses EXCEPT ![c] = m], Become(h, t),
               UNCHANGED <<ctxVars, pool, validated, resolved, unmeasured, inRam>>
        PROVE  TypeInv'
    <2>1. failed' \subseteq Sources BY <1>1, <1>4, <1>9 DEF SharedOK
    <2>2. misses' \in [Sources -> Nat] BY <1>1, <1>9 DEF SharedOK
    <2>3. SharedOK' BY <1>1, <1>6, <1>9, <2>1, <2>2 DEF SharedOK, ctxVars
    <2>4. p \in PCs BY <1>5 DEF PCs
    <2>5. Become(h, t) BY <1>9
    <2> HIDE DEF s, p, n
    <2>6. t \in Requests /\ t.pc = p BY <1>1, <1>4, <2>4 DEF Requests
    <2>7. t.pc # "probe" BY <1>5, <2>6
    <2> HIDE DEF t
    <2>8. QED BY <2>3, <2>5, <2>6, <2>7, StepTyped
  <1>10. QED BY <1>7, <1>8, <1>9

\* The steps of the other actors leave every request as it is.
LEMMA OthersTyped ==
  ASSUME TypeInv, MergeCopy \/ MergeSwap \/ WarmResolve \/ WarmValidate \/ KodiAbort \/ Halted
  PROVE  TypeInv'
  <1>1. SharedOK BY DEF TypeInv, TypeOK, SharedOK
  <1>2. UNCHANGED hs
    BY DEF MergeCopy, MergeSwap, WarmResolve, WarmValidate, KodiAbort, Halted, vars
  <1>3. CASE MergeCopy
    <2>1. \A c \in LateSources : Merged(c) \in Seq(Sources)
      BY <1>1, SourcesAssumption DEF Merged, SharedOK
    <2>2. merging' \in Seq(Sources) BY <1>3, <2>1 DEF MergeCopy
    <2>3. SharedOK' BY <1>1, <1>3, <2>2 DEF SharedOK, MergeCopy, ctxVars, poolVars
    <2>4. QED BY <1>2, <2>3 DEF TypeInv, TypeOK, SharedOK, ProbeInList
  <1>4. CASE MergeSwap
    <2>1. SharedOK' BY <1>1, <1>4 DEF SharedOK, MergeSwap, ctxVars
    <2>2. QED BY <1>2, <2>1 DEF TypeInv, TypeOK, SharedOK, ProbeInList
  <1>5. CASE WarmResolve
    <2>1. PICK c \in Range(pool) \ (resolved \cup failed) :
            Condemn(c) \/ Usable(c) \/ (Blip(c) /\ UNCHANGED failed)
      BY <1>5 DEF WarmResolve
    <2>2. c \in Sources BY <1>1, <2>1 DEF SharedOK, Range
    <2>3. failed' \subseteq Sources /\ resolved' \subseteq Sources
          /\ unmeasured' \subseteq Sources
      BY <1>1, <2>1, <2>2 DEF SharedOK, Condemn, Blip, Usable
    <2>4. SharedOK' BY <1>1, <1>5, <2>3 DEF SharedOK, WarmResolve, ctxVars
    <2>5. QED BY <1>2, <2>4 DEF TypeInv, TypeOK, SharedOK, ProbeInList
  <1>6. CASE WarmValidate
    <2>1. PICK c \in Same : /\ validated' = validated \cup {c}
                            /\ misses' = [misses EXCEPT ![c] = 0]
      BY <1>6 DEF WarmValidate
    <2>2. c \in Sources BY SourcesAssumption
    <2>3. validated' \subseteq Sources /\ misses' \in [Sources -> Nat]
      BY <1>1, <2>1, <2>2 DEF SharedOK
    <2>4. SharedOK' BY <1>1, <1>6, <2>3 DEF SharedOK, WarmValidate, ctxVars
    <2>5. QED BY <1>2, <2>4 DEF TypeInv, TypeOK, SharedOK, ProbeInList
  <1>7. CASE KodiAbort \/ Halted
    <2>1. SharedOK'
      BY <1>1, <1>7 DEF SharedOK, KodiAbort, Halted, ctxVars, poolVars, vars
    <2>2. QED BY <1>2, <2>1 DEF TypeInv, TypeOK, SharedOK, ProbeInList
  <1>8. QED BY <1>3, <1>4, <1>5, <1>6, <1>7

LEMMA TypeStep == TypeInv /\ [Next]_vars => TypeInv'
  <1> SUFFICES ASSUME TypeInv, [Next]_vars PROVE TypeInv' OBVIOUS
  <1>1. ASSUME NEW h \in Handlers, NEW a \in 0..(N - 1), NEW b \in 0..(N - 1),
               Request(h, a, b)
        PROVE  TypeInv'
    BY <1>1, RequestTyped
  <1>2. ASSUME NEW h \in Handlers, HandlerStep(h) PROVE TypeInv'
    BY <1>2, PrefetchPrefixTyped, PreludeTyped, OpenOkTyped, OpenFailsTyped, ChunkTyped,
       BodyEndsTyped, WatchdogTyped, RetryTyped, ProgressTyped, StallWaitTyped,
       StallDoneTyped, GiveUpTyped, SkipProbeTyped, ZeroFillTyped, FinalizeTyped,
       SelectTyped, ScanTyped, RefreshTyped, ProbeTyped DEF HandlerStep
  <1>3. ASSUME NEW h \in Handlers, Disconnect(h) PROVE TypeInv'
    BY <1>3, DisconnectTyped
  <1>4. CASE MergeCopy \/ MergeSwap \/ WarmResolve \/ WarmValidate \/ KodiAbort \/ Halted
    BY <1>4, OthersTyped
  <1>5. CASE UNCHANGED vars
    BY <1>5 DEF vars, ctxVars, poolVars, TypeInv, TypeOK, ProbeInList
  <1>6. QED BY <1>1, <1>2, <1>3, <1>4, <1>5 DEF Next

\* Every variable stays in its domain, for every number of handlers and sources.
THEOREM TypeCorrect == Spec => []TypeOK
  <1>1. Init => TypeInv BY TypeInit
  <1>2. TypeInv /\ [Next]_vars => TypeInv' BY TypeStep
  <1>3. TypeInv => TypeOK BY DEF TypeInv
  <1>4. QED BY <1>1, <1>2, <1>3, PTL DEF Spec

-----------------------------------------------------------------------------
(* No foreign bytes.  The session stays on a byte-identical source, only   *)
(* such sources are ever marked validated, and a response was opened on    *)
(* one: together these survive every step, NoForeignBytes alone does not.  *)

SafeInv ==
  /\ remote \in Same
  /\ validated \subseteq Same
  /\ \A h \in Handlers : hs[h].src \in Same
  /\ inRam \cup servedBy \subseteq Same

\* Where the response in progress was opened is forgotten when the read
\* returns, and untouched by every other helper.
LEMMA ReturnSrc ==
  ASSUME NEW s \in Requests, NEW res \in Results, NEW k \in Nat
  PROVE  Return(s, res, k).src = Primary
  <1>1. ReadStep(s, res, k).src = Primary
    BY DEF Requests, MarkDelivered, ReadStep, Close
  <1>2. LadderStep(s, res, k).src = Primary
    <2> DEFINE l == s.lad + k
               p == Primary
               t == [s EXCEPT !.w = 0, !.src = p, !.lad = l, !.result = res]
    <2>1. l \in Nat /\ p \in Sources BY SourcesAssumption, FieldTypes
    <2>2. LadderStep(s, res, k) =
            IF Pos(t) > t.end \/ res \notin Retryable \/ t.tries = LadderLength
            THEN LadderDone(t, res) ELSE [t EXCEPT !.pc = "retry"]
      BY DEF LadderStep
    <2> HIDE DEF l
    <2>3. t \in Requests /\ t.src = Primary
      <3> HIDE DEF p
      <3>1. t \in Requests /\ t.src = p BY <2>1 DEF Requests
      <3>2. QED BY <3>1 DEF p
    <2> HIDE DEF t
    <2>4. [t EXCEPT !.pc = "retry"].src = Primary BY <2>3 DEF Requests
    <2>5. LadderDone(t, res).src = Primary
      BY <2>3 DEF Requests, MarkDelivered, LadderDone, Close
    <2>6. QED BY <2>2, <2>4, <2>5
  <1>3. QED BY <1>1, <1>2 DEF Return

LEMMA HelperSrc ==
  ASSUME NEW s \in Requests
  PROVE  /\ \A why \in Reasons : Close(s, why).src = s.src
         /\ \A res \in Results : LadderDone(s, res).src = s.src
         /\ ForgetScan(s).src = s.src /\ NextPass(s).src = s.src
         /\ NoteFallthrough(s).src = s.src
         /\ \A c \in SUBSET Sources, k \in Nat :
              Fed(s, c).src = s.src /\ Put(s, c, k).src = s.src
  <1>1. \A why \in Reasons : Close(s, why).src = s.src BY DEF Close, Requests
  <1>2. \A res \in Results : LadderDone(s, res).src = s.src
    BY DEF Requests, MarkDelivered, LadderDone, Close
  <1>3. ForgetScan(s).src = s.src /\ NextPass(s).src = s.src
    BY DEF ForgetScan, NextPass, Requests
  <1>4. NoteFallthrough(s).src = s.src BY DEF NoteFallthrough, Requests
  <1>5. ASSUME NEW c \in SUBSET Sources, NEW k \in Nat
        PROVE  Fed(s, c).src = s.src /\ Put(s, c, k).src = s.src
    BY DEF Fed, Put, Requests
  <1>6. QED BY <1>1, <1>2, <1>3, <1>4, <1>5

LEMMA NoMatchSrc ==
  ASSUME NEW s \in Requests PROVE NoMatch(s).src = s.src
  <1> DEFINE t == ForgetScan(s)
             n == NoteFallthrough(t)
  <1>1. t \in Requests /\ n \in Requests BY ForgetScanTyped, NoteFallthroughTyped
  <1>2. t.src = s.src /\ n.src = s.src BY <1>1, HelperSrc
  <1>3. NoMatch(s) = IF s.via = "await" THEN [t EXCEPT !.pc = "stall"]
                     ELSE [(IF pool # <<>> THEN n ELSE t) EXCEPT !.pc = "retry"]
    BY DEF NoMatch
  <1> HIDE DEF t, n
  <1>4. /\ [t EXCEPT !.pc = "stall"].src = s.src
        /\ [t EXCEPT !.pc = "retry"].src = s.src
        /\ [n EXCEPT !.pc = "retry"].src = s.src
    BY <1>1, <1>2 DEF Requests
  <1>5. CASE pool # <<>> BY <1>3, <1>4, <1>5
  <1>6. CASE pool = <<>> BY <1>3, <1>4, <1>6
  <1>7. QED BY <1>5, <1>6

LEMMA BeginPendingSrc ==
  ASSUME NEW s \in Requests, NEW c \in Sources PROVE BeginPending(s, c).src = s.src
  <1> DEFINE n == NextPass(ForgetScan(s))
  <1>1. n \in Requests BY ForgetScanTyped, NextPassTyped
  <1>2. n.src = s.src BY ForgetScanTyped, HelperSrc
  <1>3. BeginPending(s, c).src = n.src BY <1>1 DEF BeginPending, Requests
  <1>4. QED BY <1>2, <1>3

LEMMA StepSafe ==
  ASSUME TypeInv, SafeInv, NEW h \in Handlers, NEW t, Become(h, t), t.src \in Same,
         remote' \in Same, validated' \subseteq Same, inRam' \cup servedBy' \subseteq Same
  PROVE  SafeInv'
  BY DEF Become, TypeInv, TypeOK, SafeInv

LEMMA SafeFacts ==
  ASSUME TypeInv, SafeInv, NEW h \in Handlers
  PROVE  hs[h] \in Requests /\ hs[h].src \in Same /\ Primary \in Same
  BY SourcesAssumption DEF TypeInv, TypeOK, SafeInv

LEMMA RequestSafe ==
  ASSUME TypeInv, SafeInv, NEW h \in Handlers, NEW a \in 0..(N - 1), NEW b \in 0..(N - 1),
         Request(h, a, b)
  PROVE  SafeInv'
  <1>1. NewRequest(a, b).src = Primary BY DEF NewRequest, Idle
  <1>2. Become(h, NewRequest(a, b)) BY DEF Request
  <1>3. remote' \in Same /\ validated' \subseteq Same /\ inRam' \cup servedBy' \subseteq Same
    BY DEF SafeInv, Request, poolVars
  <1>4. QED BY <1>1, <1>2, <1>3, SafeFacts, StepSafe

LEMMA PrefetchPrefixSafe ==
  ASSUME TypeInv, SafeInv, NEW h \in Handlers, PrefetchPrefix(h) PROVE SafeInv'
  <1> DEFINE s == hs[h]
  <1>1. s \in Requests /\ s.src \in Same /\ Primary \in Same BY SafeFacts
  <1>2. PICK k : LET u == [s EXCEPT !.pc = "prelude", !.cur = @ + k, !.streamed = @ + k,
                                    !.wire = @ + k]
                 IN Become(h, IF u.cur > u.end THEN Close(u, "complete") ELSE u)
    BY DEF PrefetchPrefix
  <1> DEFINE u == [s EXCEPT !.pc = "prelude", !.cur = @ + k, !.streamed = @ + k,
                            !.wire = @ + k]
             t == IF u.cur > u.end THEN Close(u, "complete") ELSE u
  <1>3. u.src = s.src /\ Close(u, "complete").src = s.src BY <1>1 DEF Close, Requests
  <1>4. t.src \in Same BY <1>1, <1>3
  <1>5. remote' \in Same /\ validated' \subseteq Same /\ inRam' \cup servedBy' \subseteq Same
    BY DEF SafeInv, PrefetchPrefix, ctxVars, poolVars
  <1>6. Become(h, t) BY <1>2
  <1> HIDE DEF t
  <1>7. QED BY <1>4, <1>5, <1>6, StepSafe

LEMMA PreludeSafe ==
  ASSUME TypeInv, SafeInv, NEW h \in Handlers, Prelude(h) PROVE SafeInv'
  <1> DEFINE s == hs[h]
  <1>1. s \in Requests /\ s.src \in Same /\ Primary \in Same BY SafeFacts
  <1>2. PICK k \in 0..Least(PrefixMax, s.end - Pos(s) + 1), from \in SUBSET inRam :
          LET u == IF k = 0 THEN s ELSE Put(s, from, k)
          IN /\ Become(h, IF Pos(u) > u.end THEN Return(u, "NONE", u.w)
                          ELSE [u EXCEPT !.pc = "open"])
             /\ servedBy' = servedBy \cup from
    BY DEF Prelude
  <1> DEFINE u == IF k = 0 THEN s ELSE Put(s, from, k)
             t == IF Pos(u) > u.end THEN Return(u, "NONE", u.w)
                  ELSE [u EXCEPT !.pc = "open"]
  <1>3. k \in Nat /\ from \in SUBSET Sources
    BY <1>1, FieldTypes, BoundsAssumption DEF Least, Pos, TypeInv, TypeOK
  <1>4. u \in Requests /\ u.src = s.src BY <1>1, <1>3, PutTyped, HelperSrc
  <1>5. Become(h, t) BY <1>2
  <1> HIDE DEF u
  <1>6. u.w \in Nat /\ "NONE" \in Results BY <1>4, FieldTypes DEF Results
  <1>7. Return(u, "NONE", u.w).src = Primary BY <1>4, <1>6, ReturnSrc
  <1>8. [u EXCEPT !.pc = "open"].src = s.src BY <1>4 DEF Requests
  <1>9. t.src \in Same BY <1>1, <1>7, <1>8
  <1>10. remote' \in Same /\ validated' \subseteq Same /\ inRam' \cup servedBy' \subseteq Same
    BY <1>2 DEF SafeInv, Prelude, ctxVars, poolVars
  <1> HIDE DEF t
  <1>11. QED BY <1>5, <1>9, <1>10, StepSafe

LEMMA OpenOkSafe ==
  ASSUME TypeInv, SafeInv, NEW h \in Handlers, OpenOk(h) PROVE SafeInv'
  <1> DEFINE s == hs[h]
  <1>1. s \in Requests /\ s.src \in Same /\ Primary \in Same BY SafeFacts
  <1> DEFINE r == remote
             t == [s EXCEPT !.pc = "body", !.src = r]
  <1>2. Become(h, t) /\ r \in Same BY DEF OpenOk, SafeInv
  <1>3. t.src = r
    <2> HIDE DEF s, r
    <2>1. QED BY <1>1 DEF Requests
  <1>4. remote' \in Same /\ validated' \subseteq Same /\ inRam' \cup servedBy' \subseteq Same
    BY DEF SafeInv, OpenOk, ctxVars, poolVars
  <1> HIDE DEF t
  <1>5. QED BY <1>2, <1>3, <1>4, StepSafe

LEMMA OpenFailsSafe ==
  ASSUME TypeInv, SafeInv, NEW h \in Handlers, OpenFails(h) PROVE SafeInv'
  <1> DEFINE s == hs[h]
  <1>1. s \in Requests /\ s.src \in Same /\ Primary \in Same BY SafeFacts
  <1>2. s.w \in Nat BY <1>1, FieldTypes
  <1>3. PICK res \in Results, k \in {0, s.w} : Become(h, Return(s, res, k))
    BY DEF OpenFails, Results
  <1>4. Return(s, res, k).src \in Same BY <1>1, <1>2, ReturnSrc
  <1>5. remote' \in Same /\ validated' \subseteq Same /\ inRam' \cup servedBy' \subseteq Same
    BY DEF SafeInv, OpenFails, ctxVars, poolVars
  <1> HIDE DEF s
  <1>6. QED BY <1>3, <1>4, <1>5, StepSafe

LEMMA ChunkSafe ==
  ASSUME TypeInv, SafeInv, NEW h \in Handlers, Chunk(h) PROVE SafeInv'
  <1> DEFINE s == hs[h]
  <1>1. s \in Requests /\ s.src \in Same /\ Primary \in Same BY SafeFacts
  <1>2. s.src \in Sources BY <1>1, FieldTypes
  <1> DEFINE from == {s.src}
  <1>7. from \in SUBSET Sources BY <1>2
  <1> HIDE DEF from
  <1>3. Put(s, from, 1).src = s.src BY <1>1, <1>7, HelperSrc
  <1>4. Become(h, Put(s, from, 1)) BY DEF Chunk, from
  <1>5. remote' \in Same /\ validated' \subseteq Same /\ inRam' \cup servedBy' \subseteq Same
    BY <1>1 DEF SafeInv, Chunk, ctxVars, poolVars
  <1>6. QED BY <1>1, <1>3, <1>4, <1>5, StepSafe

LEMMA BodyEndsSafe ==
  ASSUME TypeInv, SafeInv, NEW h \in Handlers, BodyEnds(h) PROVE SafeInv'
  <1> DEFINE s == hs[h]
  <1>1. s \in Requests /\ s.src \in Same /\ Primary \in Same BY SafeFacts
  <1>2. s.w \in Nat BY <1>1, FieldTypes
  <1>3. PICK res \in Results, k \in {0, s.w} : Become(h, Return(s, res, k))
    BY DEF BodyEnds, Results
  <1>4. Return(s, res, k).src \in Same BY <1>1, <1>2, ReturnSrc
  <1>5. remote' \in Same /\ validated' \subseteq Same /\ inRam' \cup servedBy' \subseteq Same
    BY DEF SafeInv, BodyEnds, ctxVars, poolVars
  <1> HIDE DEF s
  <1>6. QED BY <1>3, <1>4, <1>5, StepSafe

LEMMA WatchdogSafe ==
  ASSUME TypeInv, SafeInv, NEW h \in Handlers, Watchdog(h) PROVE SafeInv'
  <1> DEFINE s == hs[h]
  <1>1. s \in Requests /\ s.src \in Same /\ Primary \in Same BY SafeFacts
  <1> DEFINE u == [s EXCEPT !.tripped = TRUE]
  <1>2. s.w \in Nat BY <1>1, FieldTypes
  <1>3. PICK t \in {Return(s, "RECOVERABLE", s.w), Close(u, "passthrough_stall")} : Become(h, t)
    BY DEF Watchdog
  <1>4. Return(s, "RECOVERABLE", s.w).src = Primary
    BY <1>1, <1>2, ReturnSrc DEF Results
  <1>5. Close(u, "passthrough_stall").src = s.src BY <1>1 DEF Close, Requests
  <1>6. t.src \in Same BY <1>1, <1>3, <1>4, <1>5
  <1>7. remote' \in Same /\ validated' \subseteq Same /\ inRam' \cup servedBy' \subseteq Same
    BY DEF SafeInv, Watchdog, ctxVars, poolVars
  <1> HIDE DEF u
  <1>8. QED BY <1>3, <1>6, <1>7, StepSafe

LEMMA DisconnectSafe ==
  ASSUME TypeInv, SafeInv, NEW h \in Handlers, Disconnect(h) PROVE SafeInv'
  <1> DEFINE s == hs[h]
  <1>1. s \in Requests /\ s.src \in Same /\ Primary \in Same BY SafeFacts
  <1> DEFINE why == IF stallFlag THEN "passthrough_stall" ELSE "client_disconnected"
  <1>2. PICK from \in SUBSET (inRam \cup {s.src}) : Become(h, Close(Fed(s, from), why))
    BY DEF Disconnect
  <1> DEFINE u == Fed(s, from)
  <1>3. why \in Reasons BY DEF Reasons
  <1>9. s.src \in Sources BY <1>1, FieldTypes
  <1>10. inRam \subseteq Sources BY DEF TypeInv, TypeOK
  <1>4. from \in SUBSET Sources BY <1>9, <1>10
  <1>5. u \in Requests /\ u.src = s.src BY <1>1, <1>4, PutTyped, HelperSrc
  <1> HIDE DEF why
  <1>6. Close(u, why).src \in Same BY <1>1, <1>3, <1>5, HelperSrc
  <1>7. remote' \in Same /\ validated' \subseteq Same /\ inRam' \cup servedBy' \subseteq Same
    BY DEF SafeInv, Disconnect, ctxVars, poolVars
  <1>8. QED BY <1>2, <1>6, <1>7, StepSafe

LEMMA RetrySafe ==
  ASSUME TypeInv, SafeInv, NEW h \in Handlers, Retry(h) PROVE SafeInv'
  <1> DEFINE s == hs[h]
  <1>1. s \in Requests /\ s.src \in Same /\ Primary \in Same BY SafeFacts
  <1> DEFINE g == [s EXCEPT !.pc = "after"]
             r == [s EXCEPT !.pc = "prelude", !.tries = @ + 1, !.result = "NONE"]
  <1>2. PICK t \in {g, LadderDone(s, "UPSTREAM_ERROR"), LadderDone(s, s.result), r} :
          Become(h, t)
    BY DEF Retry
  <1>3. s.result \in Results /\ "UPSTREAM_ERROR" \in Results
    BY <1>1, FieldTypes DEF Results
  <1>4. g.src = s.src /\ r.src = s.src BY <1>1 DEF Requests
  <1> HIDE DEF g, r
  <1>5. /\ LadderDone(s, "UPSTREAM_ERROR").src = s.src
        /\ LadderDone(s, s.result).src = s.src
    BY <1>1, <1>3, HelperSrc
  <1>6. t.src = s.src BY <1>2, <1>4, <1>5
  <1>7. remote' \in Same /\ validated' \subseteq Same /\ inRam' \cup servedBy' \subseteq Same
    BY DEF SafeInv, Retry, ctxVars, poolVars
  <1>8. QED BY <1>1, <1>2, <1>6, <1>7, StepSafe

LEMMA ProgressSafe ==
  ASSUME TypeInv, SafeInv, NEW h \in Handlers, Progress(h) PROVE SafeInv'
  <1> DEFINE s == hs[h]
  <1>1. s \in Requests /\ s.src \in Same /\ Primary \in Same BY SafeFacts
  <1> DEFINE c == BumpedCount(s)
             t1 == [s EXCEPT !.pc = "stall", !.await = 0, !.falls = 0,
                             !.lastFall = -1, !.stalls = -1]
             t2 == [s EXCEPT !.await = c, !.pc = "select", !.via = "await"]
             t3 == [s EXCEPT !.await = c, !.pc = "stall"]
  <1>2. PICK t \in {t1, t2, t3} : Become(h, t) BY DEF Progress
  <1> HIDE DEF c
  <1>3. t1.src = s.src /\ t2.src = s.src /\ t3.src = s.src BY <1>1 DEF Requests
  <1>4. t.src \in Same BY <1>1, <1>2, <1>3
  <1>5. remote' \in Same /\ validated' \subseteq Same /\ inRam' \cup servedBy' \subseteq Same
    BY DEF SafeInv, Progress, ctxVars, poolVars
  <1> HIDE DEF t1, t2, t3
  <1>6. QED BY <1>2, <1>4, <1>5, StepSafe

LEMMA StallWaitSafe ==
  ASSUME TypeInv, SafeInv, NEW h \in Handlers, StallWait(h) PROVE SafeInv'
  <1> DEFINE s == hs[h]
  <1>1. s \in Requests /\ s.src \in Same /\ Primary \in Same BY SafeFacts
  <1> DEFINE u == NextPass(s)
             n == IF u.stalls = -1 THEN 1 ELSE u.stalls + 1
             t == [u EXCEPT !.stalls = n]
  <1>2. Become(h, Close(s, "client_disconnected")) \/ Become(h, t) BY DEF StallWait
  <1>3. u \in Requests /\ u.src = s.src BY <1>1, NextPassTyped, HelperSrc
  <1>4. Close(s, "client_disconnected").src = s.src BY <1>1, HelperSrc DEF Reasons
  <1> HIDE DEF u, n
  <1>5. t.src = s.src BY <1>3 DEF Requests
  <1>6. remote' \in Same /\ validated' \subseteq Same /\ inRam' \cup servedBy' \subseteq Same
    BY DEF SafeInv, StallWait, ctxVars, poolVars
  <1> HIDE DEF t
  <1>7. QED BY <1>1, <1>2, <1>4, <1>5, <1>6, StepSafe

LEMMA StallDoneSafe ==
  ASSUME TypeInv, SafeInv, NEW h \in Handlers, StallDone(h) PROVE SafeInv'
  <1> DEFINE s == hs[h]
  <1>1. s \in Requests /\ s.src \in Same /\ Primary \in Same BY SafeFacts
  <1>2. [s EXCEPT !.pc = "giveup"].src = s.src BY <1>1 DEF Requests
  <1>3. Become(h, [s EXCEPT !.pc = "giveup"]) BY DEF StallDone
  <1>4. remote' \in Same /\ validated' \subseteq Same /\ inRam' \cup servedBy' \subseteq Same
    BY DEF SafeInv, StallDone, ctxVars, poolVars
  <1> HIDE DEF s
  <1>5. QED BY <1>1, <1>2, <1>3, <1>4, StepSafe

LEMMA GiveUpSafe ==
  ASSUME TypeInv, SafeInv, NEW h \in Handlers, GiveUp(h) PROVE SafeInv'
  <1> DEFINE s == hs[h]
  <1>1. s \in Requests /\ s.src \in Same /\ Primary \in Same BY SafeFacts
  <1> DEFINE t == [s EXCEPT !.pc = "skip"]
  <1>2. (\E why \in Reasons : Become(h, Close(s, why))) \/ Become(h, t)
    BY DEF GiveUp, Reasons
  <1>3. t.src = s.src BY <1>1 DEF Requests
  <1>4. \A why \in Reasons : Close(s, why).src = s.src BY <1>1, HelperSrc
  <1>5. remote' \in Same /\ validated' \subseteq Same /\ inRam' \cup servedBy' \subseteq Same
    BY DEF SafeInv, GiveUp, ctxVars, poolVars
  <1> HIDE DEF s, t
  <1>6. ASSUME NEW why \in Reasons, Become(h, Close(s, why)) PROVE SafeInv'
    BY <1>1, <1>4, <1>5, <1>6, StepSafe
  <1>7. CASE Become(h, t) BY <1>1, <1>3, <1>5, <1>7, StepSafe
  <1>8. QED BY <1>2, <1>6, <1>7

LEMMA SkipProbeSafe ==
  ASSUME TypeInv, SafeInv, NEW h \in Handlers, SkipProbe(h) PROVE SafeInv'
  <1> DEFINE s == hs[h]
  <1>1. s \in Requests /\ s.src \in Same /\ Primary \in Same BY SafeFacts
  <1> DEFINE t(z) == [s EXCEPT !.pc = "fill", !.gap = z]
  <1>2. (\E why \in Reasons : Become(h, Close(s, why)))
        \/ (\E z \in SkipSizes : Become(h, t(z)))
    BY DEF SkipProbe, Reasons
  <1>3. \A z \in SkipSizes : t(z).src = s.src BY <1>1 DEF Requests
  <1>4. \A why \in Reasons : Close(s, why).src = s.src BY <1>1, HelperSrc
  <1>5. remote' \in Same /\ validated' \subseteq Same /\ inRam' \cup servedBy' \subseteq Same
    BY DEF SafeInv, SkipProbe, ctxVars, poolVars
  <1> HIDE DEF s, t
  <1>6. ASSUME NEW why \in Reasons, Become(h, Close(s, why)) PROVE SafeInv'
    BY <1>1, <1>4, <1>5, <1>6, StepSafe
  <1>7. ASSUME NEW z \in SkipSizes, Become(h, t(z)) PROVE SafeInv'
    BY <1>1, <1>3, <1>5, <1>7, StepSafe
  <1>8. QED BY <1>2, <1>6, <1>7

LEMMA ZeroFillSafe ==
  ASSUME TypeInv, SafeInv, NEW h \in Handlers, ZeroFill(h) PROVE SafeInv'
  <1> DEFINE s == hs[h]
  <1>1. s \in Requests /\ s.src \in Same /\ Primary \in Same BY SafeFacts
  <1> DEFINE u == NextPass(s)
             g == s.gap
             t == [u EXCEPT !.wire = @ + g, !.cur = @ + g, !.skipped = @ + g, !.gap = 0]
  <1>2. Become(h, t) BY DEF ZeroFill
  <1>3. u \in Requests /\ u.src = s.src BY <1>1, NextPassTyped, HelperSrc
  <1> HIDE DEF u, g
  <1>4. t.src = s.src BY <1>3 DEF Requests
  <1>5. remote' \in Same /\ validated' \subseteq Same /\ inRam' \cup servedBy' \subseteq Same
    BY DEF SafeInv, ZeroFill, ctxVars, poolVars
  <1> HIDE DEF t
  <1>6. QED BY <1>1, <1>2, <1>4, <1>5, StepSafe

LEMMA FinalizeSafe ==
  ASSUME TypeInv, SafeInv, NEW h \in Handlers, Finalize(h) PROVE SafeInv'
  <1> DEFINE s == hs[h]
  <1>1. s \in Requests /\ s.src \in Same /\ Primary \in Same BY SafeFacts
  <1> DEFINE z == Idle
             blame == s.pending # NoSource /\ s.reason # "client_disconnected"
             t == [z EXCEPT !.reason = s.reason, !.tripped = s.tripped,
                     !.owed = s.owed - (IF s.deferred THEN 1 ELSE 0)
                                     - (IF blame THEN 1 ELSE 0),
                     !.failLie = s.failLie \/ (blame /\ s.pending \in s.feeders)]
  <1>2. Become(h, t) BY DEF Finalize
  <1>3. t.src = Primary BY DEF Idle
  <1>4. remote' \in Same /\ validated' \subseteq Same /\ inRam' \cup servedBy' \subseteq Same
    BY DEF SafeInv, Finalize, ctxVars, poolVars
  <1> HIDE DEF t
  <1>5. QED BY <1>1, <1>2, <1>3, <1>4, StepSafe

LEMMA SelectSafe ==
  ASSUME TypeInv, SafeInv, NEW h \in Handlers, Select(h) PROVE SafeInv'
  <1> DEFINE s == hs[h]
  <1>1. s \in Requests /\ s.src \in Same /\ Primary \in Same BY SafeFacts
  <1>2. PICK f, i, b : \/ Become(h, NoMatch(s))
                       \/ Become(h, [s EXCEPT !.pc = "scan", !.list = pool, !.first = f,
                                             !.i = i, !.standby = b, !.prim = remote,
                                             !.barred = failed])
    BY DEF Select
  <1> DEFINE t == [s EXCEPT !.pc = "scan", !.list = pool, !.first = f, !.i = i,
                            !.standby = b, !.prim = remote, !.barred = failed]
  <1>3. t.src = s.src BY <1>1 DEF Requests
  <1>4. NoMatch(s).src = s.src BY <1>1, NoMatchSrc
  <1>5. remote' \in Same /\ validated' \subseteq Same /\ inRam' \cup servedBy' \subseteq Same
    BY DEF SafeInv, Select, ctxVars, poolVars
  <1>7. Become(h, NoMatch(s)) \/ Become(h, t) BY <1>2
  <1> HIDE DEF t
  <1>6. QED BY <1>1, <1>7, <1>3, <1>4, <1>5, StepSafe

LEMMA ScanSafe ==
  ASSUME TypeInv, SafeInv, NEW h \in Handlers, Scan(h) PROVE SafeInv'
  <1> DEFINE s == hs[h]
  <1>1. s \in Requests /\ s.src \in Same /\ Primary \in Same BY SafeFacts
  <1>2. PICK i, b :
          \/ Become(h, NoMatch(s))
          \/ Become(h, [Look(s) EXCEPT !.pc = "probe", !.pass = "scan", !.i = i, !.standby = b])
          \/ Become(h, [Look(s) EXCEPT !.pc = "refresh", !.i = b, !.standby = b])
    BY DEF Scan
  <1> DEFINE t1 == [Look(s) EXCEPT !.pc = "probe", !.pass = "scan", !.i = i, !.standby = b]
             t2 == [Look(s) EXCEPT !.pc = "refresh", !.i = b, !.standby = b]
  <1>3. t1.src = s.src /\ t2.src = s.src BY <1>1 DEF Look, Requests
  <1>4. NoMatch(s).src = s.src BY <1>1, NoMatchSrc
  <1>5. remote' \in Same /\ validated' \subseteq Same /\ inRam' \cup servedBy' \subseteq Same
    BY DEF SafeInv, Scan, ctxVars, poolVars
  <1>6. Become(h, NoMatch(s)) \/ Become(h, t1) \/ Become(h, t2) BY <1>2
  <1> HIDE DEF t1, t2
  <1>7. QED BY <1>1, <1>3, <1>4, <1>5, <1>6, StepSafe

LEMMA RefreshSafe ==
  ASSUME TypeInv, SafeInv, NEW h \in Handlers, Refresh(h) PROVE SafeInv'
  <1> DEFINE s == hs[h]
  <1>1. s \in Requests /\ s.src \in Same /\ Primary \in Same BY SafeFacts
  <1>2. PICK n, j :
          \/ Become(h, NoMatch(s))
          \/ Become(h, [Look(s) EXCEPT !.i = n])
          \/ Become(h, [Look(s) EXCEPT !.pc = "probe", !.pass = "refresh", !.i = j,
                                       !.prim = remote])
    BY DEF Refresh
  <1> DEFINE t1 == [Look(s) EXCEPT !.i = n]
             t2 == [Look(s) EXCEPT !.pc = "probe", !.pass = "refresh", !.i = j,
                                   !.prim = remote]
  <1>3. t1.src = s.src /\ t2.src = s.src BY <1>1 DEF Look, Requests
  <1>4. NoMatch(s).src = s.src BY <1>1, NoMatchSrc
  <1>5. remote' \in Same /\ validated' \subseteq Same /\ inRam' \cup servedBy' \subseteq Same
    BY DEF SafeInv, Refresh, ctxVars, poolVars
  <1>6. Become(h, NoMatch(s)) \/ Become(h, t1) \/ Become(h, t2) BY <1>2
  <1> HIDE DEF t1, t2
  <1>7. QED BY <1>1, <1>3, <1>4, <1>5, <1>6, StepSafe

\* The heart of the argument: a candidate is activated on a match only, and
\* a match is either a full fingerprint or an earlier one.
LEMMA ProbeSafe ==
  ASSUME TypeInv, SafeInv, NEW h \in Handlers, Probe(h) PROVE SafeInv'
  <1> DEFINE s == hs[h]
             c == s.list[s.i]
             t == [s EXCEPT !.pc = s.pass, !.i = @ + 1]
  <1>1. s \in Requests /\ s.src \in Same /\ Primary \in Same BY SafeFacts
  <1>2. PICK v \in Verdicts(c, s.prim) :
          \/ v = "match" /\ Activate(h, c)
          \/ Become(h, t) /\ UNCHANGED <<remote, validated, inRam>>
    BY DEF Probe, ctxVars
  <1>3. servedBy' \subseteq Same BY DEF Probe, SafeInv
  <1>4. v = "match" => c \in Same
    <2> HIDE DEF c
    <2>1. QED BY <1>2 DEF Verdicts, SafeInv
  <1>5. CASE v = "match" /\ Activate(h, c)
    <2>1. c \in Same BY <1>4, <1>5
    <2>2. c \in Sources BY <2>1, SourcesAssumption
    <2>3. BeginPending(s, c).src = s.src BY <1>1, <2>2, BeginPendingSrc
    <2>4. Become(h, BeginPending(s, c)) /\ remote' = c BY <1>5 DEF Activate
    <2>5. validated' \subseteq validated \cup {remote, c} BY <1>5 DEF Activate
    <2>6. validated' \subseteq Same BY <2>1, <2>5 DEF SafeInv
    <2>7. inRam' = inRam \cup {c} BY <1>5 DEF Activate
    <2>8. inRam' \cup servedBy' \subseteq Same BY <1>3, <2>1, <2>7 DEF SafeInv
    <2> HIDE DEF s, c
    <2>9. QED BY <1>1, <2>1, <2>3, <2>4, <2>6, <2>8, StepSafe
  <1>6. CASE Become(h, t) /\ UNCHANGED <<remote, validated, inRam>>
    <2>1. t.src = s.src BY <1>1 DEF Requests
    <2>2. /\ remote' \in Same /\ validated' \subseteq Same
          /\ inRam' \cup servedBy' \subseteq Same
      BY <1>3, <1>6 DEF SafeInv
    <2>3. Become(h, t) BY <1>6
    <2> HIDE DEF t
    <2>4. QED BY <1>1, <2>1, <2>2, <2>3, StepSafe
  <1>7. QED BY <1>2, <1>5, <1>6

LEMMA SafeInit == Init => SafeInv
  BY SourcesAssumption DEF Init, SafeInv, Idle

LEMMA SafeStep == TypeInv /\ SafeInv /\ [Next]_vars => SafeInv'
  <1> SUFFICES ASSUME TypeInv, SafeInv, [Next]_vars PROVE SafeInv' OBVIOUS
  <1>1. ASSUME NEW h \in Handlers, NEW a \in 0..(N - 1), NEW b \in 0..(N - 1),
               Request(h, a, b)
        PROVE  SafeInv'
    BY <1>1, RequestSafe
  <1>2. ASSUME NEW h \in Handlers, HandlerStep(h) PROVE SafeInv'
    BY <1>2, PrefetchPrefixSafe, PreludeSafe, OpenOkSafe, OpenFailsSafe, ChunkSafe,
       BodyEndsSafe, WatchdogSafe, RetrySafe, ProgressSafe, StallWaitSafe,
       StallDoneSafe, GiveUpSafe, SkipProbeSafe, ZeroFillSafe, FinalizeSafe,
       SelectSafe, ScanSafe, RefreshSafe, ProbeSafe DEF HandlerStep
  <1>3. ASSUME NEW h \in Handlers, Disconnect(h) PROVE SafeInv'
    BY <1>3, DisconnectSafe
  <1>4. CASE MergeCopy \/ MergeSwap \/ WarmResolve \/ KodiAbort
    BY <1>4 DEF MergeCopy, MergeSwap, WarmResolve, KodiAbort, SafeInv, ctxVars, poolVars
  <1>5. CASE WarmValidate
    BY <1>5 DEF WarmValidate, SafeInv, ctxVars
  <1>6. CASE Halted \/ UNCHANGED vars
    BY <1>6 DEF Halted, vars, ctxVars, poolVars, SafeInv
  <1>7. QED BY <1>1, <1>2, <1>3, <1>4, <1>5, <1>6 DEF Next

\* No client ever receives a byte of a file other than the one it asked for,
\* however many handlers cut over at once.
THEOREM OnlySameBytes == Spec => []NoForeignBytes
  <1>1. Init => TypeInv /\ SafeInv BY TypeInit, SafeInit
  <1>2. TypeInv /\ SafeInv /\ [Next]_vars => TypeInv' /\ SafeInv' BY TypeStep, SafeStep
  <1>3. SafeInv => NoForeignBytes BY DEF SafeInv, NoForeignBytes
  <1>4. QED BY <1>1, <1>2, <1>3, PTL DEF Spec
-----------------------------------------------------------------------------
(* Delivery and toasts.  Both are about the requests one by one: what is on *)
(* the wire, and which toasts are owed and whom they blame, is settled by   *)
(* the request itself, whatever the other handlers, the merges and the      *)
(* warmer do; of the session it needs only that a pool that holds a source  *)
(* never becomes empty again.                                               *)

Reads == {"prelude", "open", "body"}
One(b) == IF b THEN 1 ELSE 0
Pending(s) == s.pending # NoSource

\* What every active request keeps: its offsets stay in the range and agree with the
\* wire, and the toasts owed are those of its pending and its superseded candidate.
Sound(s) ==
  /\ s.start <= s.end /\ Pos(s) <= s.end + 1
  /\ s.result # "MISMATCH" => s.wire = Pos(s) - s.start
  /\ s.tries = 0 => s.lad = 0
  /\ s.owed = One(s.deferred) + One(Pending(s))

\* Where in the loop it can be in the middle of what.
InPlace(s) ==
  /\ s.pc \in Reads => s.result # "MISMATCH" /\ (s.deferred => s.tries = 0)
  /\ s.pc \notin {"body", "closing"} => Pos(s) <= s.end
  /\ s.pc \notin {"open", "body", "closing"} => s.w = 0
  /\ s.pc \notin Reads \cup {"retry", "closing"} => s.tries = 0
  /\ s.pc \notin Reads \cup {"closing"} => ~s.deferred
  /\ s.result = "MISMATCH" =>
       /\ s.pc \in {"retry", "after", "stall", "giveup", "closing"}
       /\ s.tries = 0
  /\ s.pc = "prefix" => s.cur = 0
  /\ s.pc = "fill" => s.cur + s.gap <= s.end
  /\ s.pc = "closing" /\ s.reason = "complete" =>
       s.result # "MISMATCH" /\ Pos(s) = s.end + 1

Served(s) ==
  IF s.pc = "idle" THEN OneToastPerCutover(s) ELSE Sound(s) /\ InPlace(s)
DeliveryInv == \A h \in Handlers : Served(hs[h])

\* A pending candidate whose bytes reached the request has bytes unaccounted for, and is
\* not blamed at the end but for the reasons NoFalseBlame excepts.
Excused(s) ==
  \/ s.reason = "protocol_mismatch"
  \/ s.reason = "passthrough_stall" /\ ~s.tripped
Fair(s) ==
  IF s.pc = "idle" THEN s.failLie => Excused(s)
  ELSE /\ ~s.failLie
       /\ s.pc # "closing" => ~s.tripped
       /\ Pending(s) /\ s.pc = "closing" /\ s.pending \in s.feeders =>
            s.reason = "client_disconnected" \/ Excused(s)
       /\ Pending(s) /\ s.pc # "closing" /\ s.result # "MISMATCH" =>
            (s.pending \in s.feeders => s.lad + s.w > 0)
\* What the request relies on of the session's pool p.
Owns(s, p) ==
  (Pending(s) /\ s.pc # "idle") \/ s.pc \in {"scan", "refresh", "probe"} => p # <<>>
ToastInv == \A h \in Handlers : Fair(hs[h]) /\ Owns(hs[h], pool)

Offsets(s) == <<s.start, s.end, s.cur, s.lad, s.w, s.tries, s.wire, s.gap, s.src>>
Toasts(s) == <<s.deferred, s.owed, s.pending, s.feeders, s.tripped, s.failLie>>

\* The fields the helpers leave, and those they set.
LEMMA CloseFields ==
  ASSUME NEW s \in Requests, NEW why, NEW t, t = Close(s, why)
  PROVE  /\ Offsets(t) = Offsets(s) /\ Toasts(t) = Toasts(s) /\ t.result = s.result
         /\ t.pc = "closing" /\ t.reason = why
  BY DEF Close, Requests, Offsets, Toasts

LEMMA GotoFields ==
  ASSUME NEW s \in Requests, NEW p, NEW t, t = [s EXCEPT !.pc = p]
  PROVE  /\ Offsets(t) = Offsets(s) /\ Toasts(t) = Toasts(s) /\ t.result = s.result
         /\ t.pc = p /\ t.reason = s.reason
  BY DEF Requests, Offsets, Toasts

LEMMA ForgetScanFields ==
  ASSUME NEW s \in Requests, NEW t, t = ForgetScan(s)
  PROVE  /\ Offsets(t) = Offsets(s) /\ Toasts(t) = Toasts(s) /\ t.result = s.result
         /\ t.pc = s.pc /\ t.reason = s.reason
  BY DEF ForgetScan, Requests, Offsets, Toasts

LEMMA NextPassFields ==
  ASSUME NEW s \in Requests, NEW t, t = NextPass(s)
  PROVE  /\ Toasts(t) = Toasts(s) /\ t.result = "NONE" /\ t.pc = "prelude" /\ t.tries = 0
         /\ t.start = s.start /\ t.end = s.end /\ t.cur = s.cur /\ t.lad = s.lad /\ t.w = s.w
         /\ t.wire = s.wire /\ t.gap = s.gap /\ t.src = s.src /\ t.reason = s.reason
  BY DEF NextPass, Requests, Toasts

\* The success toast goes out when a pending candidate's bytes are accounted for.
LEMMA MarkDeliveredFields ==
  ASSUME NEW s \in Requests, NEW k \in Nat, NEW t, t = MarkDelivered(s, k)
  PROVE  /\ Offsets(t) = Offsets(s) /\ t.result = s.result /\ t.pc = s.pc /\ t.reason = s.reason
         /\ t.deferred = s.deferred /\ t.failLie = s.failLie /\ t.tripped = s.tripped
         /\ Pending(s) /\ k > 0 => t.pending = NoSource /\ t.owed = s.owed - 1
         /\ ~(Pending(s) /\ k > 0) => Toasts(t) = Toasts(s)
  <1>1. CASE Pending(s) /\ k > 0
    <2> DEFINE o == s.owed - 1
    <2>1. t = [s EXCEPT !.owed = o, !.pending = NoSource]
      BY <1>1 DEF MarkDelivered, Pending
    <2> HIDE DEF o
    <2>2. /\ Offsets(t) = Offsets(s) /\ t.result = s.result /\ t.pc = s.pc
          /\ t.reason = s.reason /\ t.deferred = s.deferred /\ t.failLie = s.failLie
          /\ t.tripped = s.tripped
      BY <2>1 DEF Requests, Offsets
    <2>3. t.pending = NoSource /\ t.owed = o BY <2>1 DEF Requests
    <2> QED BY <1>1, <2>2, <2>3 DEF o
  <1>2. CASE ~(Pending(s) /\ k > 0)
    BY <1>2 DEF MarkDelivered, Pending, Toasts
  <1> QED BY <1>1, <1>2

LEMMA ReadStepFields ==
  ASSUME NEW s \in Requests, NEW res \in Results, NEW k \in Nat, NEW t, t = ReadStep(s, res, k)
  PROVE  /\ t.start = s.start /\ t.end = s.end /\ t.cur = s.cur + k /\ t.lad = 0 /\ t.w = 0
         /\ t.tries = 0 /\ t.wire = s.wire /\ t.result = res
         /\ ~t.deferred /\ t.failLie = s.failLie /\ t.tripped = s.tripped
         /\ Pending(s) /\ k > 0 => ~Pending(t) /\ t.owed = s.owed - One(s.deferred) - 1
         /\ ~(Pending(s) /\ k > 0) => /\ t.pending = s.pending /\ t.feeders = s.feeders
                                      /\ t.owed = s.owed - One(s.deferred)
         /\ IF t.cur > t.end THEN t.pc = "closing" /\ t.reason = "complete"
            ELSE IF res \in {"RECOVERABLE", "UPSTREAM_ERROR"} THEN t.pc = "select"
            ELSE t.pc = "retry"
  <1> DEFINE c == s.cur + k
             m == s.streamed + k
             r == s.real \/ k > 0
             p == (k > 0)
             o == s.owed - (IF s.deferred THEN 1 ELSE 0)
             u == [s EXCEPT !.cur = c, !.streamed = m, !.w = 0, !.src = Primary,
                            !.result = res, !.real = r, !.progressed = p, !.owed = o,
                            !.deferred = FALSE, !.tries = 0, !.lad = 0]
             v == MarkDelivered(u, k)
  <1>1. c \in Nat /\ m \in Nat /\ o \in Int BY FieldTypes
  <1>2. r \in BOOLEAN /\ p \in BOOLEAN OBVIOUS
  <1>3. t = IF v.cur > v.end THEN Close(v, "complete")
            ELSE IF res \in {"RECOVERABLE", "UPSTREAM_ERROR"}
            THEN [v EXCEPT !.pc = "select", !.via = "cutover"]
            ELSE [v EXCEPT !.pc = "retry"]
    BY DEF ReadStep
  <1>4. /\ u \in Requests
        /\ u.start = s.start /\ u.end = s.end /\ u.cur = c /\ u.lad = 0 /\ u.w = 0
        /\ u.tries = 0 /\ u.wire = s.wire /\ u.result = res
        /\ ~u.deferred /\ u.failLie = s.failLie /\ u.tripped = s.tripped
        /\ u.pending = s.pending /\ u.feeders = s.feeders /\ u.owed = o
    <2> HIDE DEF c, m, r, p, o
    <2>1. u \in Requests BY <1>1, <1>2, SourcesAssumption DEF Requests
    <2>2. u.start = s.start /\ u.end = s.end /\ u.cur = c /\ u.lad = 0 /\ u.w = 0
      BY DEF Requests
    <2>3. /\ u.tries = 0 /\ u.wire = s.wire /\ u.result = res
          /\ ~u.deferred /\ u.failLie = s.failLie /\ u.tripped = s.tripped
      BY DEF Requests
    <2>4. u.pending = s.pending /\ u.feeders = s.feeders /\ u.owed = o
      BY DEF Requests
    <2> QED BY <2>1, <2>2, <2>3, <2>4
  <1> HIDE DEF u
  <1>5. v \in Requests BY <1>4, MarkDeliveredTyped
  <1>6. /\ Offsets(v) = Offsets(u) /\ v.result = res /\ ~v.deferred /\ v.failLie = s.failLie
        /\ v.tripped = s.tripped
        /\ Pending(u) /\ k > 0 => v.pending = NoSource /\ v.owed = o - 1
        /\ ~(Pending(u) /\ k > 0) => Toasts(v) = Toasts(u)
    BY <1>4, MarkDeliveredFields
  <1> HIDE DEF v
  <1>7. /\ Offsets(t) = Offsets(v) /\ Toasts(t) = Toasts(v) /\ t.result = v.result
        /\ IF v.cur > v.end THEN t.pc = "closing" /\ t.reason = "complete"
           ELSE IF res \in {"RECOVERABLE", "UPSTREAM_ERROR"} THEN t.pc = "select"
           ELSE t.pc = "retry"
    <2>1. CASE v.cur > v.end
      BY <1>3, <1>5, <2>1, CloseFields
    <2>2. CASE ~(v.cur > v.end) /\ res \in {"RECOVERABLE", "UPSTREAM_ERROR"}
      <3>1. t = [v EXCEPT !.pc = "select", !.via = "cutover"]
        BY <1>3, <2>2
      <3> QED BY <1>5, <2>2, <3>1 DEF Requests, Offsets, Toasts
    <2>3. CASE ~(v.cur > v.end) /\ res \notin {"RECOVERABLE", "UPSTREAM_ERROR"}
      BY <1>3, <1>5, <2>3, GotoFields
    <2> QED BY <2>1, <2>2, <2>3
  <1> QED BY <1>4, <1>6, <1>7 DEF Offsets, Toasts, One, Pending, o, c

LEMMA LadderDoneFields ==
  ASSUME NEW s \in Requests, NEW res \in Results, NEW t, t = LadderDone(s, res)
  PROVE  /\ t.start = s.start /\ t.end = s.end /\ t.cur = s.cur + s.lad /\ t.lad = 0
         /\ t.w = s.w /\ t.tries = 0 /\ t.wire = s.wire /\ t.result = res
         /\ t.deferred = s.deferred /\ t.failLie = s.failLie /\ t.tripped = s.tripped
         /\ Pending(s) /\ s.lad > 0 => ~Pending(t) /\ t.owed = s.owed - 1
         /\ ~(Pending(s) /\ s.lad > 0) => /\ t.pending = s.pending /\ t.feeders = s.feeders
                                          /\ t.owed = s.owed
         /\ IF t.cur > t.end THEN t.pc = "closing" /\ t.reason = "complete" ELSE t.pc = "after"
  <1> DEFINE c == s.cur + s.lad
             m == s.streamed + s.lad
             r == s.real \/ s.lad > 0
             p == s.progressed \/ s.lad > 0
             u == [s EXCEPT !.cur = c, !.streamed = m, !.lad = 0, !.tries = 0,
                            !.result = res, !.real = r, !.progressed = p]
             v == MarkDelivered(u, s.lad)
  <1>1. c \in Nat /\ m \in Nat /\ s.lad \in Nat BY FieldTypes
  <1>2. r \in BOOLEAN /\ p \in BOOLEAN OBVIOUS
  <1>3. t = IF v.cur > v.end THEN Close(v, "complete") ELSE [v EXCEPT !.pc = "after"]
    BY DEF LadderDone
  <1>4. /\ u \in Requests
        /\ u.start = s.start /\ u.end = s.end /\ u.cur = c /\ u.lad = 0 /\ u.w = s.w
        /\ u.tries = 0 /\ u.wire = s.wire /\ u.result = res /\ Toasts(u) = Toasts(s)
    <2> HIDE DEF c, m, r, p
    <2>1. u \in Requests BY <1>1, <1>2 DEF Requests
    <2>2. u.start = s.start /\ u.end = s.end /\ u.cur = c /\ u.lad = 0 /\ u.w = s.w
      BY DEF Requests
    <2>3. u.tries = 0 /\ u.wire = s.wire /\ u.result = res /\ Toasts(u) = Toasts(s)
      BY DEF Requests, Toasts
    <2> QED BY <2>1, <2>2, <2>3
  <1> HIDE DEF u
  <1>5. v \in Requests BY <1>1, <1>4, MarkDeliveredTyped
  <1>6. /\ Offsets(v) = Offsets(u) /\ v.result = res /\ v.deferred = u.deferred
        /\ v.failLie = u.failLie /\ v.tripped = u.tripped
        /\ Pending(u) /\ s.lad > 0 => v.pending = NoSource /\ v.owed = u.owed - 1
        /\ ~(Pending(u) /\ s.lad > 0) => Toasts(v) = Toasts(u)
    BY <1>1, <1>4, MarkDeliveredFields
  <1> HIDE DEF v
  <1>7. /\ Offsets(t) = Offsets(v) /\ Toasts(t) = Toasts(v) /\ t.result = v.result
        /\ IF v.cur > v.end THEN t.pc = "closing" /\ t.reason = "complete" ELSE t.pc = "after"
    BY <1>3, <1>5, CloseFields, GotoFields
  <1> QED BY <1>4, <1>6, <1>7 DEF Offsets, Toasts, Pending, c

LEMMA LadderStepFields ==
  ASSUME NEW s \in Requests, NEW res \in Results, NEW k \in Nat, NEW t,
         t = LadderStep(s, res, k)
  PROVE  \E u \in Requests :
           /\ u.start = s.start /\ u.end = s.end /\ u.cur = s.cur /\ u.lad = s.lad + k
           /\ u.w = 0 /\ u.tries = s.tries /\ u.wire = s.wire /\ u.result = res
           /\ Toasts(u) = Toasts(s)
           /\ \/ t = LadderDone(u, res)
              \/ res \in Retryable /\ Pos(u) <= u.end /\ t = [u EXCEPT !.pc = "retry"]
  <1> DEFINE l == s.lad + k
             u == [s EXCEPT !.w = 0, !.src = Primary, !.lad = l, !.result = res]
  <1>1. l \in Nat /\ Primary \in Sources BY FieldTypes, SourcesAssumption
  <1>2. \/ t = LadderDone(u, res)
        \/ res \in Retryable /\ ~(Pos(u) > u.end) /\ t = [u EXCEPT !.pc = "retry"]
    BY DEF LadderStep
  <1> HIDE DEF l
  <1>3. u \in Requests BY <1>1 DEF Requests
  <1>4. /\ u.start = s.start /\ u.end = s.end /\ u.cur = s.cur /\ u.lad = l
        /\ u.w = 0 /\ u.tries = s.tries /\ u.wire = s.wire /\ u.result = res
    BY DEF Requests
  <1>5. Toasts(u) = Toasts(s) BY DEF Requests, Toasts
  <1> HIDE DEF u
  <1>6. Pos(u) \in Nat /\ u.end \in Nat BY <1>3, FieldTypes DEF Pos
  <1> QED BY <1>2, <1>3, <1>4, <1>5, <1>6 DEF l

LEMMA NoteFallthroughFields ==
  ASSUME NEW s \in Requests, NEW t, t = NoteFallthrough(s)
  PROVE  /\ Offsets(t) = Offsets(s) /\ Toasts(t) = Toasts(s) /\ t.result = s.result
         /\ t.pc = s.pc /\ t.reason = s.reason
  BY DEF NoteFallthrough, Requests, Offsets, Toasts

LEMMA NoMatchFields ==
  ASSUME NEW s \in Requests, NEW t, t = NoMatch(s)
  PROVE  /\ Offsets(t) = Offsets(s) /\ Toasts(t) = Toasts(s) /\ t.result = s.result
         /\ t.pc \in {"stall", "retry"} /\ t.reason = s.reason
  <1> DEFINE f == ForgetScan(s)
             n == NoteFallthrough(f)
  <1>1. f \in Requests /\ n \in Requests BY ForgetScanTyped, NoteFallthroughTyped
  <1>2. /\ Offsets(f) = Offsets(s) /\ Toasts(f) = Toasts(s) /\ f.result = s.result
        /\ f.reason = s.reason
        /\ Offsets(n) = Offsets(s) /\ Toasts(n) = Toasts(s) /\ n.result = s.result
        /\ n.reason = s.reason
    BY <1>1, ForgetScanFields, NoteFallthroughFields
  <1>3. \/ t = [f EXCEPT !.pc = "stall"] \/ t = [n EXCEPT !.pc = "retry"]
        \/ t = [f EXCEPT !.pc = "retry"]
    BY DEF NoMatch
  <1> HIDE DEF f, n
  <1>4. CASE t = [f EXCEPT !.pc = "stall"] BY <1>1, <1>2, <1>4, GotoFields
  <1>5. CASE t = [n EXCEPT !.pc = "retry"] BY <1>1, <1>2, <1>5, GotoFields
  <1>6. CASE t = [f EXCEPT !.pc = "retry"] BY <1>1, <1>2, <1>6, GotoFields
  <1> QED BY <1>3, <1>4, <1>5, <1>6

\* A cutover: the new candidate is pending, the one it supersedes is owed a failure toast.
LEMMA BeginPendingFields ==
  ASSUME NEW s \in Requests, NEW c \in Sources, NEW t, t = BeginPending(s, c)
  PROVE  /\ t.start = s.start /\ t.end = s.end /\ t.cur = s.cur /\ t.lad = s.lad /\ t.w = s.w
         /\ t.wire = s.wire /\ t.tries = 0 /\ t.result = "NONE" /\ t.pc = "prelude"
         /\ (t.deferred <=> s.deferred \/ Pending(s))
         /\ t.owed = s.owed + 1 /\ t.pending = c /\ t.feeders = {} /\ t.tripped = s.tripped
         /\ (~s.failLie /\ ~(Pending(s) /\ s.pending \in s.feeders) => ~t.failLie)
  <1> DEFINE f == ForgetScan(s)
             n == NextPass(f)
             d == n.deferred \/ s.pending # NoSource
             lie == n.failLie \/ (s.pending # NoSource /\ s.pending \in s.feeders)
             o == n.owed + 1
  <1>1. f \in Requests /\ n \in Requests BY ForgetScanTyped, NextPassTyped
  <1>2. /\ n.start = s.start /\ n.end = s.end /\ n.cur = s.cur /\ n.lad = s.lad /\ n.w = s.w
        /\ n.wire = s.wire /\ n.tries = 0 /\ n.result = "NONE" /\ n.pc = "prelude"
        /\ Toasts(n) = Toasts(s)
    BY <1>1, ForgetScanFields, NextPassFields DEF Offsets
  <1>3. t = [n EXCEPT !.await = 0, !.falls = 0, !.lastFall = -1, !.deferred = d,
                      !.failLie = lie, !.pending = c, !.feeders = {}, !.owed = o]
    BY DEF BeginPending
  <1>4. (d <=> s.deferred \/ Pending(s))
        /\ (~s.failLie /\ ~(Pending(s) /\ s.pending \in s.feeders) => ~lie)
    BY <1>2 DEF Toasts, Pending
  <1>5. o = s.owed + 1 BY <1>2 DEF Toasts
  <1> HIDE DEF f, n, d, lie, o
  <1>6. /\ t.start = n.start /\ t.end = n.end /\ t.cur = n.cur /\ t.lad = n.lad /\ t.w = n.w
        /\ t.wire = n.wire /\ t.tries = n.tries /\ t.result = n.result /\ t.pc = n.pc
    BY <1>1, <1>3 DEF Requests
  <1>7. /\ t.deferred = d /\ t.failLie = lie /\ t.pending = c /\ t.feeders = {} /\ t.owed = o
        /\ t.tripped = n.tripped
    BY <1>1, <1>3 DEF Requests
  <1> QED BY <1>2, <1>4, <1>5, <1>6, <1>7 DEF Toasts

LEMMA FedFields ==
  ASSUME NEW s \in Requests, NEW from \in SUBSET Sources, NEW t, t = Fed(s, from)
  PROVE  /\ Offsets(t) = Offsets(s) /\ t.result = s.result /\ t.pc = s.pc
         /\ t.reason = s.reason /\ t.deferred = s.deferred /\ t.owed = s.owed
         /\ t.pending = s.pending /\ t.tripped = s.tripped /\ t.failLie = s.failLie
         /\ (Pending(s) => t.feeders = s.feeders \cup from)
  <1>1. CASE Pending(s) BY <1>1 DEF Fed, Requests, Offsets, Pending
  <1>2. CASE ~Pending(s) BY <1>2 DEF Fed, Requests, Offsets, Pending
  <1> QED BY <1>1, <1>2

LEMMA PutFields ==
  ASSUME NEW s \in Requests, NEW from \in SUBSET Sources, NEW k \in Nat,
         NEW t, t = Put(s, from, k)
  PROVE  /\ t.start = s.start /\ t.end = s.end /\ t.cur = s.cur /\ t.lad = s.lad
         /\ t.w = s.w + k /\ t.tries = s.tries /\ t.wire = s.wire + k /\ t.src = s.src
         /\ t.result = s.result /\ t.pc = s.pc /\ t.reason = s.reason
         /\ t.deferred = s.deferred /\ t.owed = s.owed
         /\ t.pending = s.pending /\ t.tripped = s.tripped /\ t.failLie = s.failLie
         /\ (Pending(s) => t.feeders = s.feeders \cup from)
  <1> DEFINE f == Fed(s, from)
             w == f.w + k
             wr == f.wire + k
  <1>1. f \in Requests BY PutTyped DEF Put
  <1>2. /\ Offsets(f) = Offsets(s) /\ f.result = s.result /\ f.pc = s.pc
        /\ f.reason = s.reason /\ f.deferred = s.deferred /\ f.owed = s.owed
        /\ f.pending = s.pending /\ f.tripped = s.tripped /\ f.failLie = s.failLie
        /\ (Pending(s) => f.feeders = s.feeders \cup from)
    BY FedFields
  <1>3. t = [f EXCEPT !.w = w, !.wire = wr] BY DEF Put
  <1>4. w = s.w + k /\ wr = s.wire + k BY <1>2 DEF Offsets
  <1> HIDE DEF f, w, wr
  <1>5. /\ t.start = f.start /\ t.end = f.end /\ t.cur = f.cur /\ t.lad = f.lad
        /\ t.w = w /\ t.tries = f.tries /\ t.wire = wr /\ t.src = f.src
    BY <1>1, <1>3 DEF Requests
  <1>6. /\ t.result = f.result /\ t.pc = f.pc /\ t.reason = f.reason /\ Toasts(t) = Toasts(f)
    BY <1>1, <1>3 DEF Requests, Toasts
  <1> QED BY <1>2, <1>4, <1>5, <1>6 DEF Offsets, Toasts

LEMMA NewRequestFields ==
  ASSUME NEW a \in Nat, NEW b \in Nat, NEW t, t = NewRequest(a, b)
  PROVE  /\ t.pc = IF a = 0 THEN "prefix" ELSE "prelude"
         /\ t.start = a /\ t.end = b /\ t.cur = a /\ t.lad = 0 /\ t.w = 0 /\ t.tries = 0
         /\ t.wire = 0 /\ t.result = "NONE" /\ t.reason = "unknown"
         /\ ~t.deferred /\ t.owed = 0 /\ ~Pending(t) /\ ~t.tripped /\ ~t.failLie
  BY DEF NewRequest, Idle, Pending

\* A request in the middle of an upstream read, and what its toasts rest on there.
Reading(s) ==
  /\ Sound(s) /\ s.result # "MISMATCH" /\ (s.deferred => s.tries = 0)
FedByPending(s) ==
  /\ ~s.tripped /\ ~s.failLie
  /\ Pending(s) => (s.pending \in s.feeders => s.lad + s.w > 0)

\* What a request is worth after a step of its own.
Better(s, t) ==
  /\ Sound(t) /\ InPlace(t) /\ t.pc # "idle"
  /\ FedByPending(s) => Fair(t)
  /\ Pending(t) => t.pending = s.pending
  /\ t.pc \in {"closing", "select", "retry", "after"}

LEMMA ReadStepServed ==
  ASSUME NEW s \in Requests, Reading(s), s.tries = 0, NEW res \in Results, NEW k \in Nat,
         IF res = "MISMATCH" THEN k = 0 /\ Pos(s) <= s.end ELSE k = s.w,
         NEW t, t = ReadStep(s, res, k)
  PROVE  Better(s, t)
  <1>1. /\ t.start = s.start /\ t.end = s.end /\ t.cur = s.cur + k /\ t.lad = 0 /\ t.w = 0
        /\ t.tries = 0 /\ t.wire = s.wire /\ t.result = res
        /\ ~t.deferred /\ t.failLie = s.failLie /\ t.tripped = s.tripped
        /\ Pending(s) /\ k > 0 => ~Pending(t) /\ t.owed = s.owed - One(s.deferred) - 1
        /\ ~(Pending(s) /\ k > 0) => /\ t.pending = s.pending /\ t.feeders = s.feeders
                                     /\ t.owed = s.owed - One(s.deferred)
        /\ IF t.cur > t.end THEN t.pc = "closing" /\ t.reason = "complete"
           ELSE IF res \in {"RECOVERABLE", "UPSTREAM_ERROR"} THEN t.pc = "select"
           ELSE t.pc = "retry"
    BY ReadStepFields
  <1>2. /\ s.start \in Nat /\ s.end \in Nat /\ s.cur \in Nat /\ s.w \in Nat /\ s.lad \in Nat
        /\ s.wire \in Nat /\ s.owed \in Int
    BY FieldTypes
  <1>3. /\ s.start <= s.end /\ s.cur + s.w <= s.end + 1 /\ s.wire = s.cur + s.w - s.start
        /\ s.lad = 0 /\ s.owed = One(s.deferred) + One(Pending(s))
    BY <1>2 DEF Reading, Sound, Pos
  <1>4. t.owed = One(Pending(t))
    BY <1>1, <1>2, <1>3 DEF One, Pending
  <1>5. Sound(t) BY <1>1, <1>2, <1>3, <1>4 DEF Sound, Pos, One
  <1>6. t.cur > t.end => res # "MISMATCH" /\ Pos(t) = t.end + 1
    BY <1>1, <1>2, <1>3 DEF Pos
  <1>7. t.pc \in {"closing", "select", "retry"} /\ (t.pc # "closing" => t.cur <= t.end)
        /\ (t.pc = "closing" => t.reason = "complete" /\ t.cur > t.end)
        /\ (res = "MISMATCH" => t.pc = "retry")
    BY <1>1, <1>2, <1>6
  <1>8. InPlace(t) BY <1>1, <1>2, <1>6, <1>7 DEF InPlace, Pos, Reads
  <1>9. ASSUME FedByPending(s) PROVE Fair(t)
    <2>1. CASE Pending(s) /\ k > 0
      BY <1>1, <1>7, <1>9, <2>1 DEF FedByPending, Fair
    <2>2. CASE ~(Pending(s) /\ k > 0)
      <3>1. Pending(t) /\ res # "MISMATCH" => s.pending \notin s.feeders
        BY <1>1, <1>2, <1>3, <1>9, <2>2 DEF FedByPending, Pending
      <3> QED BY <1>1, <1>7, <1>9, <2>2, <3>1 DEF FedByPending, Fair
    <2> QED BY <2>1, <2>2
  <1> QED BY <1>1, <1>5, <1>7, <1>8, <1>9 DEF Better

LEMMA LadderDoneServed ==
  ASSUME NEW s \in Requests, Sound(s), ~s.deferred, s.w = 0, NEW res \in Results,
         res = "MISMATCH" => Pos(s) <= s.end, s.result = "MISMATCH" => res = "MISMATCH",
         NEW t, t = LadderDone(s, res)
  PROVE  /\ Sound(t) /\ InPlace(t)
         /\ t.pc \in {"closing", "after"}
         /\ (Pending(t) => t.pending = s.pending)
         /\ (~s.tripped /\ ~s.failLie
               /\ (Pending(s) /\ res # "MISMATCH" =>
                     (s.pending \in s.feeders => s.lad > 0)) => Fair(t))
  <1>1. /\ t.start = s.start /\ t.end = s.end /\ t.cur = s.cur + s.lad /\ t.lad = 0
        /\ t.w = s.w /\ t.tries = 0 /\ t.wire = s.wire /\ t.result = res
        /\ t.deferred = s.deferred /\ t.failLie = s.failLie /\ t.tripped = s.tripped
        /\ Pending(s) /\ s.lad > 0 => ~Pending(t) /\ t.owed = s.owed - 1
        /\ ~(Pending(s) /\ s.lad > 0) => /\ t.pending = s.pending /\ t.feeders = s.feeders
                                         /\ t.owed = s.owed
        /\ IF t.cur > t.end THEN t.pc = "closing" /\ t.reason = "complete" ELSE t.pc = "after"
    BY LadderDoneFields
  <1>2. /\ s.start \in Nat /\ s.end \in Nat /\ s.cur \in Nat /\ s.lad \in Nat
        /\ s.wire \in Nat /\ s.owed \in Int
    BY FieldTypes
  <1>3. /\ s.start <= s.end /\ s.cur + s.lad <= s.end + 1
        /\ res # "MISMATCH" => s.wire = s.cur + s.lad - s.start
        /\ res = "MISMATCH" => s.cur + s.lad <= s.end
        /\ s.owed = One(Pending(s))
    BY <1>2 DEF Sound, Pos, One
  <1>4. t.owed = One(Pending(t))
    BY <1>1, <1>2, <1>3 DEF One, Pending
  <1>5. Sound(t) BY <1>1, <1>2, <1>3, <1>4 DEF Sound, Pos, One
  <1>6. t.cur > t.end => res # "MISMATCH" /\ Pos(t) = t.end + 1
    BY <1>1, <1>2, <1>3 DEF Pos
  <1>7. InPlace(t) BY <1>1, <1>2, <1>6 DEF InPlace, Pos, Reads
  <1>8. ASSUME ~s.tripped, ~s.failLie,
               Pending(s) /\ res # "MISMATCH" => (s.pending \in s.feeders => s.lad > 0)
        PROVE  Fair(t)
    <2>1. CASE Pending(s) /\ s.lad > 0
      BY <1>1, <1>8, <2>1 DEF Fair
    <2>2. CASE ~(Pending(s) /\ s.lad > 0)
      <3>1. Pending(t) /\ res # "MISMATCH" => t.pending \notin t.feeders
        BY <1>1, <1>8, <2>2 DEF Pending
      <3>2. t.pc = "closing" => res # "MISMATCH" BY <1>1, <1>6
      <3>3. t.pc \in {"closing", "after"} BY <1>1
      <3> QED BY <1>1, <1>8, <2>2, <3>1, <3>2, <3>3 DEF Fair
    <2> QED BY <2>1, <2>2
  <1> QED BY <1>1, <1>5, <1>7, <1>8

LEMMA LadderStepServed ==
  ASSUME NEW s \in Requests, Reading(s), s.tries # 0, NEW res \in Results, NEW k \in Nat,
         IF res = "MISMATCH" THEN k = 0 /\ Pos(s) <= s.end ELSE k = s.w,
         NEW t, t = LadderStep(s, res, k)
  PROVE  Better(s, t)
  <1>1. PICK u \in Requests :
           /\ u.start = s.start /\ u.end = s.end /\ u.cur = s.cur /\ u.lad = s.lad + k
           /\ u.w = 0 /\ u.tries = s.tries /\ u.wire = s.wire /\ u.result = res
           /\ Toasts(u) = Toasts(s)
           /\ \/ t = LadderDone(u, res)
              \/ res \in Retryable /\ Pos(u) <= u.end /\ t = [u EXCEPT !.pc = "retry"]
    BY LadderStepFields
  <1>2. /\ s.start \in Nat /\ s.end \in Nat /\ s.cur \in Nat /\ s.lad \in Nat /\ s.w \in Nat
        /\ s.wire \in Nat /\ s.owed \in Int /\ s.tries \in Nat
    BY FieldTypes
  <1>3. /\ u.deferred = s.deferred /\ u.owed = s.owed /\ u.pending = s.pending
        /\ u.feeders = s.feeders /\ u.tripped = s.tripped /\ u.failLie = s.failLie
        /\ (Pending(u) <=> Pending(s)) /\ ~s.deferred
    BY <1>1 DEF Toasts, Pending, Reading
  <1>4. Sound(u) /\ (res = "MISMATCH" => Pos(u) <= u.end)
    <2>1. /\ s.start <= s.end /\ s.cur + s.lad + s.w <= s.end + 1
          /\ s.wire = s.cur + s.lad + s.w - s.start
          /\ s.owed = One(s.deferred) + One(Pending(s))
      BY <1>2 DEF Reading, Sound, Pos
    <2>2. Pos(u) = s.cur + s.lad + k BY <1>1, <1>2 DEF Pos
    <2>3. res = "MISMATCH" => Pos(u) <= u.end BY <1>1, <1>2, <2>2 DEF Pos
    <2>4. Pos(u) <= u.end + 1 BY <1>1, <1>2, <2>1, <2>2, <2>3
    <2>5. u.result # "MISMATCH" => u.wire = Pos(u) - u.start
      BY <1>1, <1>2, <2>1, <2>2
    <2> QED BY <1>1, <1>3, <2>1, <2>3, <2>4, <2>5 DEF Sound, One
  <1>5. ASSUME FedByPending(s)
        PROVE  /\ ~u.tripped /\ ~u.failLie
               /\ Pending(u) /\ res # "MISMATCH" => (u.pending \in u.feeders => u.lad > 0)
    BY <1>1, <1>2, <1>3, <1>5 DEF FedByPending
  <1>6. CASE t = LadderDone(u, res)
    <2>1. /\ Sound(t) /\ InPlace(t) /\ t.pc \in {"closing", "after"}
          /\ (Pending(t) => t.pending = u.pending)
          /\ (FedByPending(s) => Fair(t))
      BY <1>1, <1>3, <1>4, <1>5, <1>6, LadderDoneServed
    <2> QED BY <1>3, <2>1 DEF Better
  <1>7. CASE res \in Retryable /\ Pos(u) <= u.end /\ t = [u EXCEPT !.pc = "retry"]
    <2>1. /\ Offsets(t) = Offsets(u) /\ Toasts(t) = Toasts(u) /\ t.result = u.result
          /\ t.pc = "retry"
      BY <1>7, GotoFields
    <2>2. /\ t.start = u.start /\ t.end = u.end /\ t.cur = u.cur /\ t.lad = u.lad /\ t.w = 0
          /\ t.tries = u.tries /\ t.wire = u.wire /\ t.result = res /\ Pos(t) = Pos(u)
      BY <1>1, <2>1 DEF Offsets, Pos
    <2>3. /\ t.deferred = u.deferred /\ t.owed = u.owed /\ t.pending = u.pending
          /\ t.feeders = u.feeders /\ t.tripped = u.tripped /\ t.failLie = u.failLie
          /\ (Pending(t) <=> Pending(u))
      BY <2>1 DEF Toasts, Pending
    <2>4. res # "MISMATCH" BY <1>7 DEF Retryable
    <2>5. Sound(t) BY <1>1, <1>4, <2>1, <2>2, <2>3, <2>4 DEF Sound, One
    <2>6. InPlace(t) BY <1>3, <1>7, <2>1, <2>2, <2>3, <2>4 DEF InPlace, Reads
    <2>7. ASSUME FedByPending(s) PROVE Fair(t)
      <3>1. t.lad + t.w = u.lad BY <1>1, <1>2, <2>2
      <3> QED BY <1>1, <1>5, <2>1, <2>3, <2>4, <2>7, <3>1 DEF Fair
    <2> QED BY <1>3, <2>1, <2>3, <2>5, <2>6, <2>7 DEF Better
  <1> QED BY <1>1, <1>6, <1>7

LEMMA ReturnServed ==
  ASSUME NEW s \in Requests, Reading(s), NEW res \in Results, NEW k \in Nat,
         IF res = "MISMATCH" THEN k = 0 /\ Pos(s) <= s.end ELSE k = s.w,
         NEW t, t = Return(s, res, k)
  PROVE  Better(s, t)
  BY ReadStepServed, LadderStepServed DEF Return

-----------------------------------------------------------------------------
(* Every step of a handler serves its client right.                        *)

\* A handler's step to the record t does.
Right(h, t) ==
  /\ Become(h, t) /\ Served(t)
  /\ pool # <<>> => pool' # <<>>
  /\ Fair(hs[h]) /\ Owns(hs[h], pool) => Fair(t) /\ Owns(t, pool')

\* Nothing a decision taken between two reads could get wrong has changed.
Same3(s, t) == Offsets(t) = Offsets(s) /\ Toasts(t) = Toasts(s) /\ t.result = s.result

LEMMA SameFields ==
  ASSUME NEW s, NEW t, Same3(s, t)
  PROVE  /\ Sound(s) => Sound(t)
         /\ Pos(t) = Pos(s) /\ t.start = s.start /\ t.end = s.end /\ t.cur = s.cur
         /\ t.lad = s.lad /\ t.w = s.w /\ t.tries = s.tries /\ t.wire = s.wire
         /\ t.gap = s.gap /\ t.src = s.src /\ t.result = s.result
         /\ t.deferred = s.deferred /\ t.owed = s.owed /\ t.pending = s.pending
         /\ t.feeders = s.feeders /\ t.tripped = s.tripped /\ t.failLie = s.failLie
  BY DEF Same3, Offsets, Toasts, Sound, Pos, Pending

\* The steps between two reads.
Between == {"select", "scan", "refresh", "probe", "after", "stall", "giveup", "skip", "retry"}

LEMMA MovesOn ==
  ASSUME NEW s, NEW t, Same3(s, t), Sound(s), InPlace(s), s.tries = 0,
         s.pc \in Between, t.pc \in Between,
         s.result = "MISMATCH" => t.pc \in {"retry", "after", "stall", "giveup"}
  PROVE  Served(t) /\ (Fair(s) => Fair(t))
  <1>1. /\ Sound(t) /\ Pos(t) = Pos(s) /\ t.end = s.end /\ t.cur = s.cur /\ t.w = s.w
        /\ t.lad = s.lad /\ t.tries = 0 /\ t.result = s.result
        /\ t.deferred = s.deferred /\ t.pending = s.pending /\ t.feeders = s.feeders
        /\ t.tripped = s.tripped /\ t.failLie = s.failLie
    BY SameFields
  <1>2. Pos(s) <= s.end /\ s.w = 0 /\ ~(s.pc # "retry" /\ s.deferred)
    BY DEF InPlace, Between, Reads
  <1>3. ~s.deferred BY DEF InPlace, Between, Reads
  <1>4. t.pc # "idle" /\ t.pc # "closing" /\ s.pc # "idle" /\ s.pc # "closing"
    BY DEF Between
  <1>5. InPlace(t) BY <1>1, <1>2, <1>3 DEF InPlace, Between, Reads
  <1>6. Fair(s) => Fair(t) BY <1>1, <1>4 DEF Fair, Pending
  <1> QED BY <1>1, <1>4, <1>5, <1>6 DEF Served

\* A request that is closed for another reason than that it is complete.
LEMMA Closes ==
  ASSUME NEW s \in Requests, Sound(s), s.result = "MISMATCH" => s.tries = 0,
         NEW why, why # "complete", NEW t, t = Close(s, why)
  PROVE  Served(t) /\ t.pc = "closing"
  <1>1. Same3(s, t) /\ t.pc = "closing" /\ t.reason = why
    BY CloseFields DEF Same3
  <1>2. Sound(t) /\ t.tries = s.tries /\ t.result = s.result BY <1>1, SameFields
  <1>3. InPlace(t) BY <1>1, <1>2 DEF InPlace, Reads
  <1> QED BY <1>1, <1>2, <1>3 DEF Served

LEMMA ServedFacts ==
  ASSUME TypeInv, DeliveryInv, NEW h \in Handlers
  PROVE  /\ hs[h] \in Requests /\ remote \in Sources
         /\ (hs[h].pc # "idle" => Sound(hs[h]) /\ InPlace(hs[h]))
  BY TypeFacts DEF SharedOK, DeliveryInv, Served

\* A step that goes on to decide, in a session it leaves alone.
LEMMA DecidesRight ==
  ASSUME TypeInv, DeliveryInv, NEW h \in Handlers, hs[h].pc \in Between, hs[h].tries = 0,
         NEW t, Become(h, t), Same3(hs[h], t), t.pc \in Between,
         hs[h].result = "MISMATCH" => t.pc \in {"retry", "after", "stall", "giveup"},
         t.pc \in {"scan", "refresh", "probe"} =>
           pool # <<>> \/ hs[h].pc \in {"scan", "refresh", "probe"},
         UNCHANGED pool
  PROVE  Right(h, t)
  <1> DEFINE s == hs[h]
  <1>1. s.pc # "idle" /\ s.pc # "closing" /\ t.pc # "body" BY DEF Between
  <1>2. Served(t) /\ (Fair(s) => Fair(t)) BY <1>1, MovesOn, ServedFacts
  <1>3. t.pending = s.pending BY SameFields
  <1>4. Owns(s, pool) => Owns(t, pool')
    BY <1>1, <1>3 DEF Owns, Pending
  <1> QED BY <1>2, <1>4 DEF Right

\* A step that returns from an upstream read, in a session it leaves alone.
LEMMA ReturnsRight ==
  ASSUME TypeInv, DeliveryInv, NEW h \in Handlers, hs[h].pc \in Reads,
         NEW u \in Requests, Reading(u), NEW t, Become(h, t), Better(u, t),
         u.pending = hs[h].pending,
         Fair(hs[h]) /\ Owns(hs[h], pool) => FedByPending(u),
         UNCHANGED pool
  PROVE  Right(h, t)
  <1> DEFINE s == hs[h]
  <1>1. s.pc # "idle" /\ s.pc # "closing" BY DEF Reads
  <1>2. Served(t) BY DEF Better, Served
  <1>3. ASSUME Fair(s), Owns(s, pool) PROVE Fair(t) /\ Owns(t, pool')
    <2>1. Fair(t) BY <1>3 DEF Better
    <2>2. Pending(t) => Pending(s) BY DEF Better, Pending
    <2>3. t.pc \notin {"scan", "refresh", "probe"} BY DEF Better
    <2> QED BY <1>1, <1>3, <2>1, <2>2, <2>3 DEF Owns
  <1> QED BY <1>2, <1>3 DEF Right

LEMMA RequestRight ==
  ASSUME TypeInv, DeliveryInv, NEW h \in Handlers, NEW a \in 0..(N - 1),
         NEW b \in 0..(N - 1), Request(h, a, b)
  PROVE  \E t : Right(h, t)
  <1> DEFINE t == NewRequest(a, b)
  <1>1. a \in Nat /\ b \in Nat /\ a <= b BY BoundsAssumption DEF Request
  <1>2. Become(h, t) /\ UNCHANGED pool BY DEF Request, poolVars
  <1>3. /\ t.pc = IF a = 0 THEN "prefix" ELSE "prelude"
        /\ t.start = a /\ t.end = b /\ t.cur = a /\ t.lad = 0 /\ t.w = 0 /\ t.tries = 0
        /\ t.wire = 0 /\ t.result = "NONE" /\ t.reason = "unknown"
        /\ ~t.deferred /\ t.owed = 0 /\ ~Pending(t) /\ ~t.tripped /\ ~t.failLie
    BY <1>1, NewRequestFields
  <1> HIDE DEF t
  <1>4. Sound(t) BY <1>1, <1>3 DEF Sound, Pos, One
  <1>5. InPlace(t) BY <1>1, <1>3 DEF InPlace, Pos, Reads
  <1>6. Fair(t) BY <1>3 DEF Fair
  <1>7. Owns(t, pool') BY <1>2, <1>3 DEF Owns
  <1>8. Served(t) BY <1>3, <1>4, <1>5 DEF Served
  <1> QED BY <1>2, <1>6, <1>7, <1>8 DEF Right

LEMMA PrefetchPrefixRight ==
  ASSUME TypeInv, DeliveryInv, NEW h \in Handlers, PrefetchPrefix(h)
  PROVE  \E t : Right(h, t)
  <1> DEFINE s == hs[h]
  <1>1. s.pc = "prefix" /\ UNCHANGED pool
    BY DEF PrefetchPrefix, ctxVars, poolVars
  <1>2. s \in Requests /\ Sound(s) /\ InPlace(s) BY <1>1, ServedFacts
  <1>3. PICK k \in 0..Least(PrefixMax, s.end + 1) :
          LET u == [s EXCEPT !.pc = "prelude", !.cur = @ + k, !.streamed = @ + k,
                             !.wire = @ + k]
          IN Become(h, IF u.cur > u.end THEN Close(u, "complete") ELSE u)
    BY DEF PrefetchPrefix
  <1>4. /\ s.start \in Nat /\ s.end \in Nat /\ s.cur \in Nat /\ s.streamed \in Nat
        /\ s.wire \in Nat /\ s.lad \in Nat /\ s.w \in Nat /\ s.owed \in Int
    BY <1>2, FieldTypes
  <1>5. k \in Nat /\ k <= s.end + 1
    BY <1>4, BoundsAssumption DEF Least
  <1> DEFINE c == s.cur + k
             m == s.streamed + k
             x == s.wire + k
             u == [s EXCEPT !.pc = "prelude", !.cur = c, !.streamed = m, !.wire = x]
             t == IF u.cur > u.end THEN Close(u, "complete") ELSE u
  <1>6. Become(h, t) BY <1>3
  <1>7. c \in Nat /\ m \in Nat /\ x \in Nat /\ "prelude" \in PCs
    BY <1>4, <1>5 DEF PCs
  <1>8. /\ u \in Requests /\ u.pc = "prelude" /\ u.cur = c /\ u.wire = x
        /\ u.start = s.start /\ u.end = s.end /\ u.lad = s.lad /\ u.w = s.w
        /\ u.tries = s.tries /\ u.result = s.result /\ Toasts(u) = Toasts(s)
    <2> HIDE DEF s, c, m, x
    <2>1. u \in Requests /\ u.pc = "prelude" BY <1>2, <1>7 DEF Requests
    <2>2. u.cur = c /\ u.wire = x /\ u.start = s.start /\ u.end = s.end /\ u.lad = s.lad
      BY <1>2 DEF Requests
    <2>3. u.w = s.w /\ u.tries = s.tries /\ u.result = s.result
      BY <1>2 DEF Requests
    <2>4. Toasts(u) = Toasts(s) BY <1>2 DEF Requests, Toasts
    <2> QED BY <2>1, <2>2, <2>3, <2>4
  <1> HIDE DEF u
  <1>9. /\ u.deferred = s.deferred /\ u.owed = s.owed /\ u.pending = s.pending
        /\ u.feeders = s.feeders /\ u.tripped = s.tripped /\ u.failLie = s.failLie
        /\ (Pending(u) <=> Pending(s))
    BY <1>8 DEF Toasts, Pending
  <1>10. s.cur = 0 /\ s.w = 0 /\ s.tries = 0 /\ s.lad = 0 /\ ~s.deferred
         /\ s.result # "MISMATCH"
    BY <1>1, <1>2 DEF InPlace, Sound, Reads
  <1>11. Sound(u)
    <2>1. s.start <= s.end /\ s.wire = 0 - s.start /\ s.owed = One(s.deferred) + One(Pending(s))
      BY <1>2, <1>4, <1>10 DEF Sound, Pos
    <2>2. Pos(u) = k /\ u.wire = s.wire + k BY <1>4, <1>5, <1>8, <1>10 DEF Pos
    <2> QED BY <1>4, <1>5, <1>8, <1>9, <1>10, <2>1, <2>2 DEF Sound, One
  <1>12. CASE u.cur > u.end
    <2>1. t = Close(u, "complete") BY <1>12
    <2>2. Same3(u, t) /\ t.pc = "closing" /\ t.reason = "complete"
      BY <1>8, <2>1, CloseFields DEF Same3
    <2> HIDE DEF t
    <2>3. /\ Sound(t) /\ Pos(t) = Pos(u) /\ t.end = u.end /\ t.tries = u.tries
          /\ t.result = u.result /\ t.pending = u.pending /\ t.feeders = u.feeders
          /\ t.tripped = u.tripped /\ t.failLie = u.failLie
      BY <1>11, <2>2, SameFields
    <2>4. Pos(u) = u.end + 1 BY <1>4, <1>5, <1>8, <1>10, <1>12 DEF Pos
    <2>5. InPlace(t) BY <1>8, <1>10, <2>2, <2>3, <2>4 DEF InPlace, Reads
    <2>6. ASSUME Fair(s), Owns(s, pool) PROVE Fair(t) /\ Owns(t, pool')
      <3>1. Pending(s) => s.pending \notin s.feeders
        BY <1>1, <1>10, <2>6 DEF Fair
      <3>2. Fair(t) BY <1>1, <1>9, <2>2, <2>3, <2>6, <3>1 DEF Fair, Pending
      <3>3. Owns(t, pool') BY <1>1, <1>9, <2>2, <2>3, <2>6 DEF Owns, Pending
      <3> QED BY <3>2, <3>3
    <2> QED BY <1>1, <1>6, <2>2, <2>3, <2>5, <2>6 DEF Right, Served
  <1>13. CASE ~(u.cur > u.end)
    <2>1. t = u BY <1>13
    <2>2. InPlace(u)
      BY <1>4, <1>5, <1>8, <1>9, <1>10, <1>13 DEF InPlace, Reads, Pos
    <2>3. ASSUME Fair(s), Owns(s, pool) PROVE Fair(u) /\ Owns(u, pool')
      <3>1. Fair(u) BY <1>1, <1>8, <1>9, <1>10, <2>3 DEF Fair
      <3>2. Owns(u, pool') BY <1>1, <1>8, <1>9, <2>3 DEF Owns
      <3> QED BY <3>1, <3>2
    <2> QED BY <1>1, <1>6, <1>8, <1>11, <2>1, <2>2, <2>3 DEF Right, Served
  <1> QED BY <1>12, <1>13

LEMMA PreludeRight ==
  ASSUME TypeInv, DeliveryInv, NEW h \in Handlers, Prelude(h)
  PROVE  \E t : Right(h, t)
  <1> DEFINE s == hs[h]
  <1>1. s.pc = "prelude" /\ UNCHANGED pool
    BY DEF Prelude, ctxVars, poolVars
  <1>2. s \in Requests /\ Sound(s) /\ InPlace(s) BY <1>1, ServedFacts
  <1>3. PICK k \in 0..Least(PrefixMax, s.end - Pos(s) + 1), from \in SUBSET inRam :
          LET u == IF k = 0 THEN s ELSE Put(s, from, k)
          IN Become(h, IF Pos(u) > u.end THEN Return(u, "NONE", u.w)
                       ELSE [u EXCEPT !.pc = "open"])
    BY DEF Prelude
  <1>4. /\ s.start \in Nat /\ s.end \in Nat /\ s.cur \in Nat /\ s.wire \in Nat
        /\ s.lad \in Nat /\ s.w \in Nat /\ Pos(s) \in Nat
    <2>1. /\ s.start \in Nat /\ s.end \in Nat /\ s.cur \in Nat /\ s.wire \in Nat
          /\ s.lad \in Nat /\ s.w \in Nat
      BY <1>2, FieldTypes
    <2>2. Pos(s) \in Nat BY <2>1 DEF Pos
    <2> QED BY <2>1, <2>2
  <1>5. k \in Nat /\ k <= s.end - Pos(s) + 1
    BY <1>4, BoundsAssumption DEF Least
  <1>14. from \in SUBSET Sources BY DEF TypeInv, TypeOK
  <1> DEFINE u == IF k = 0 THEN s ELSE Put(s, from, k)
             t == IF Pos(u) > u.end THEN Return(u, "NONE", u.w)
                  ELSE [u EXCEPT !.pc = "open"]
  <1>6. Become(h, t) BY <1>3
  <1>7. /\ u \in Requests /\ u.start = s.start /\ u.end = s.end /\ u.cur = s.cur
        /\ u.lad = s.lad /\ u.w = s.w + k /\ u.tries = s.tries /\ u.wire = s.wire + k
        /\ u.result = s.result /\ u.pc = s.pc
        /\ u.deferred = s.deferred /\ u.owed = s.owed
        /\ u.pending = s.pending /\ u.tripped = s.tripped /\ u.failLie = s.failLie
        /\ (k = 0 => u.feeders = s.feeders)
    <2>1. CASE k = 0 BY <1>2, <1>4, <2>1
    <2>2. CASE k # 0 BY <1>2, <1>5, <1>14, <2>2, PutTyped, PutFields
    <2> QED BY <2>1, <2>2
  <1> HIDE DEF u
  <1>8. s.w = 0 /\ s.result # "MISMATCH" /\ (s.deferred => s.tries = 0)
    BY <1>1, <1>2 DEF InPlace, Reads
  <1>9. Pos(u) = Pos(s) + k /\ (Pending(u) <=> Pending(s)) /\ u.w \in Nat
    BY <1>4, <1>5, <1>7 DEF Pos, Pending
  <1>10. Reading(u)
    <2>1. /\ s.start <= s.end /\ Pos(s) <= s.end + 1 /\ s.wire = Pos(s) - s.start
          /\ (s.tries = 0 => s.lad = 0) /\ s.owed = One(s.deferred) + One(Pending(s))
      BY <1>2, <1>8 DEF Sound
    <2>2. Pos(u) <= u.end + 1 /\ u.wire = Pos(u) - u.start
      BY <1>4, <1>5, <1>7, <1>9, <2>1
    <2>3. Sound(u) BY <1>7, <1>9, <2>1, <2>2 DEF Sound, One
    <2> QED BY <1>7, <1>8, <2>3 DEF Reading
  <1>11. ASSUME Fair(s), Owns(s, pool) PROVE FedByPending(u)
    <2>1. ~s.tripped /\ ~s.failLie BY <1>1, <1>11 DEF Fair
    <2>2. Pending(s) => (s.pending \in s.feeders => s.lad + s.w > 0)
      BY <1>1, <1>8, <1>11 DEF Fair
    <2>3. CASE k = 0 BY <1>4, <1>7, <1>9, <2>1, <2>2, <2>3 DEF FedByPending
    <2>4. CASE k # 0
      <3>1. u.lad + u.w > 0 BY <1>4, <1>5, <1>7, <2>4
      <3> QED BY <1>7, <2>1, <3>1 DEF FedByPending
    <2> QED BY <2>3, <2>4
  <1>12. CASE Pos(u) > u.end
    <2>1. t = Return(u, "NONE", u.w) BY <1>12
    <2>2. Better(u, t) BY <1>7, <1>9, <1>10, <2>1, ReturnServed DEF Results
    <2>3. Right(h, t) BY <1>1, <1>6, <1>7, <1>10, <1>11, <2>2, ReturnsRight DEF Reads
    <2> QED BY <2>3
  <1>13. CASE ~(Pos(u) > u.end)
    <2>1. t = [u EXCEPT !.pc = "open"] BY <1>13
    <2> HIDE DEF t
    <2>2. Same3(u, t) /\ t.pc = "open" BY <1>7, <2>1, GotoFields DEF Same3
    <2>3. /\ Sound(t) /\ Pos(t) = Pos(u) /\ t.end = u.end /\ t.w = u.w /\ t.lad = u.lad
          /\ t.tries = u.tries /\ t.result = u.result /\ t.deferred = u.deferred
          /\ t.pending = u.pending /\ t.feeders = u.feeders
          /\ t.tripped = u.tripped /\ t.failLie = u.failLie
      BY <1>10, <2>2, SameFields DEF Reading
    <2>4. Pos(u) <= u.end BY <1>4, <1>5, <1>7, <1>9, <1>13
    <2>5. InPlace(t) BY <1>7, <1>8, <2>2, <2>3, <2>4 DEF InPlace, Reads
    <2>6. ASSUME Fair(s), Owns(s, pool) PROVE Fair(t) /\ Owns(t, pool')
      <3>1. Fair(t) BY <1>11, <2>2, <2>3, <2>6 DEF Fair, FedByPending, Pending
      <3>2. Owns(t, pool') BY <1>1, <1>7, <2>2, <2>3, <2>6 DEF Owns, Pending
      <3> QED BY <3>1, <3>2
    <2> QED BY <1>1, <1>6, <2>2, <2>3, <2>5, <2>6 DEF Right, Served
  <1> QED BY <1>12, <1>13

LEMMA OpenOkRight ==
  ASSUME TypeInv, DeliveryInv, NEW h \in Handlers, OpenOk(h)
  PROVE  \E t : Right(h, t)
  <1> DEFINE s == hs[h]
             r == remote
             t == [s EXCEPT !.pc = "body", !.src = r]
  <1>1. s.pc = "open" /\ UNCHANGED pool BY DEF OpenOk, poolVars
  <1>2. s \in Requests /\ Sound(s) /\ InPlace(s) BY <1>1, ServedFacts
  <1>3. Become(h, t) BY DEF OpenOk
  <1>4. /\ t.pc = "body" /\ t.src = r /\ Toasts(t) = Toasts(s) /\ t.result = s.result
        /\ t.start = s.start /\ t.end = s.end /\ t.cur = s.cur /\ t.lad = s.lad /\ t.w = s.w
        /\ t.tries = s.tries /\ t.wire = s.wire
    <2> HIDE DEF s, r
    <2>1. t.pc = "body" /\ t.src = r /\ t.result = s.result /\ Toasts(t) = Toasts(s)
      BY <1>2 DEF Requests, Toasts
    <2>2. /\ t.start = s.start /\ t.end = s.end /\ t.cur = s.cur /\ t.lad = s.lad
          /\ t.w = s.w /\ t.tries = s.tries /\ t.wire = s.wire
      BY <1>2 DEF Requests
    <2> QED BY <2>1, <2>2
  <1> HIDE DEF t
  <1>5. /\ t.deferred = s.deferred /\ t.owed = s.owed /\ t.pending = s.pending
        /\ t.feeders = s.feeders /\ t.tripped = s.tripped /\ t.failLie = s.failLie
        /\ Pos(t) = Pos(s) /\ (Pending(t) <=> Pending(s))
    BY <1>4 DEF Toasts, Pos, Pending
  <1>6. Sound(t) /\ InPlace(t)
    BY <1>1, <1>2, <1>4, <1>5 DEF Sound, InPlace, Reads, One
  <1>7. ASSUME Fair(s), Owns(s, pool) PROVE Fair(t) /\ Owns(t, pool')
    <2>1. Fair(t) BY <1>1, <1>4, <1>5, <1>7 DEF Fair
    <2>2. Owns(t, pool') BY <1>1, <1>4, <1>5, <1>7 DEF Owns
    <2> QED BY <2>1, <2>2
  <1> QED BY <1>1, <1>3, <1>4, <1>6, <1>7 DEF Right, Served

\* The bytes of a read are accounted for when it returns, whichever way it ends: a
\* break of the Range contract reports none, but stops before the last byte.
LEMMA ReadEnds ==
  ASSUME TypeInv, DeliveryInv, NEW h \in Handlers, hs[h].pc \in {"open", "body"},
         NEW res \in Results, NEW k \in Nat,
         IF res = "MISMATCH" THEN k = 0 /\ hs[h].pc = "open" ELSE k = hs[h].w,
         Become(h, Return(hs[h], res, k)), UNCHANGED pool
  PROVE  \E t : Right(h, t)
  <1> DEFINE s == hs[h]
             t == Return(s, res, k)
  <1>1. s.pc \in Reads /\ s.pc # "idle" /\ s.pc # "closing" BY DEF Reads
  <1>2. s \in Requests /\ Sound(s) /\ InPlace(s) BY <1>1, ServedFacts
  <1>3. Reading(s) BY <1>1, <1>2 DEF Reading, InPlace
  <1>4. s.pc = "open" => Pos(s) <= s.end BY <1>2 DEF InPlace
  <1>5. Better(s, t) BY <1>2, <1>3, <1>4, ReturnServed
  <1>6. Fair(s) => FedByPending(s) BY <1>1, <1>3 DEF Fair, FedByPending, Reading
  <1> HIDE DEF t
  <1>7. Become(h, t) BY DEF t
  <1>8. Right(h, t) BY <1>1, <1>2, <1>3, <1>5, <1>6, <1>7, ReturnsRight
  <1> QED BY <1>8

LEMMA OpenFailsRight ==
  ASSUME TypeInv, DeliveryInv, NEW h \in Handlers, OpenFails(h)
  PROVE  \E t : Right(h, t)
  <1> DEFINE s == hs[h]
  <1>1. s.pc = "open" /\ UNCHANGED pool BY DEF OpenFails, poolVars
  <1>2. s.w \in Nat BY ServedFacts, FieldTypes
  <1>3. PICK res \in Results, k \in {0, s.w} :
          /\ Become(h, Return(s, res, k))
          /\ IF res = "MISMATCH" THEN k = 0 ELSE k = s.w
    BY <1>2 DEF OpenFails, Results
  <1> HIDE DEF s
  <1>4. k \in Nat BY <1>2
  <1> QED BY <1>1, <1>3, <1>4, ReadEnds DEF s

LEMMA ChunkRight ==
  ASSUME TypeInv, DeliveryInv, NEW h \in Handlers, Chunk(h)
  PROVE  \E t : Right(h, t)
  <1> DEFINE s == hs[h]
             from == {s.src}
             t == Put(s, from, 1)
  <1>1. s.pc = "body" /\ Pos(s) <= s.end /\ UNCHANGED pool
    BY DEF Chunk, ctxVars, poolVars
  <1>2. s \in Requests /\ Sound(s) /\ InPlace(s) BY <1>1, ServedFacts
  <1>3. Become(h, t) BY DEF Chunk
  <1>4. /\ s.src \in Sources /\ s.start \in Nat /\ s.end \in Nat /\ s.cur \in Nat
        /\ s.wire \in Nat /\ s.lad \in Nat /\ s.w \in Nat
    BY <1>2, FieldTypes
  <1>11. from \in SUBSET Sources BY <1>4
  <1> HIDE DEF from
  <1>12. s \in Requests /\ 1 \in Nat BY <1>2
  <1> HIDE DEF s
  <1>5. /\ t.start = s.start /\ t.end = s.end /\ t.cur = s.cur /\ t.lad = s.lad
        /\ t.w = s.w + 1 /\ t.tries = s.tries /\ t.wire = s.wire + 1 /\ t.src = s.src
        /\ t.result = s.result /\ t.pc = s.pc
        /\ t.deferred = s.deferred /\ t.owed = s.owed
        /\ t.pending = s.pending /\ t.tripped = s.tripped /\ t.failLie = s.failLie
    BY <1>11, <1>12, PutFields
  <1> USE DEF s
  <1> HIDE DEF t
  <1>6. Pos(t) = Pos(s) + 1 /\ (Pending(t) <=> Pending(s)) BY <1>4, <1>5 DEF Pos, Pending
  <1>7. s.result # "MISMATCH" BY <1>1, <1>2 DEF InPlace, Reads
  <1>8. Sound(t)
    <2>1. s.wire = Pos(s) - s.start /\ Pos(s) \in Nat BY <1>2, <1>4, <1>7 DEF Sound, Pos
    <2>2. t.wire = Pos(t) - t.start /\ Pos(t) <= t.end + 1
      BY <1>1, <1>4, <1>5, <1>6, <2>1
    <2> QED BY <1>2, <1>5, <1>6, <2>2 DEF Sound, One
  <1>9. InPlace(t) BY <1>1, <1>2, <1>5, <1>6 DEF InPlace, Reads
  <1>10. ASSUME Fair(s), Owns(s, pool) PROVE Fair(t) /\ Owns(t, pool')
    <2>1. t.lad + t.w > 0 BY <1>4, <1>5
    <2>2. Fair(t) BY <1>1, <1>5, <1>6, <1>10, <2>1 DEF Fair
    <2>3. Owns(t, pool') BY <1>1, <1>5, <1>6, <1>10 DEF Owns
    <2> QED BY <2>2, <2>3
  <1> QED BY <1>1, <1>3, <1>5, <1>8, <1>9, <1>10 DEF Right, Served

LEMMA BodyEndsRight ==
  ASSUME TypeInv, DeliveryInv, NEW h \in Handlers, BodyEnds(h)
  PROVE  \E t : Right(h, t)
  <1> DEFINE s == hs[h]
  <1>1. s.pc = "body" /\ UNCHANGED pool
    BY DEF BodyEnds, ctxVars, poolVars
  <1>2. s.w \in Nat BY ServedFacts, FieldTypes
  <1>3. PICK res \in Results \ {"MISMATCH"} : Become(h, Return(s, res, s.w))
    BY DEF BodyEnds, Results
  <1> HIDE DEF s
  <1> QED BY <1>1, <1>2, <1>3, ReadEnds DEF s

LEMMA WatchdogRight ==
  ASSUME TypeInv, DeliveryInv, NEW h \in Handlers, Watchdog(h)
  PROVE  \E t : Right(h, t)
  <1> DEFINE s == hs[h]
             u == [s EXCEPT !.tripped = TRUE]
             t == Close(u, "passthrough_stall")
  <1>1. s.pc = "body" /\ UNCHANGED pool BY DEF Watchdog, poolVars
  <1>2. s \in Requests /\ Sound(s) /\ InPlace(s) BY <1>1, ServedFacts
  <1>3. s.w \in Nat BY <1>2, FieldTypes
  <1>4. CASE pool # <<>>
    <2>1. Become(h, Return(s, "RECOVERABLE", s.w)) BY <1>4 DEF Watchdog
    <2> HIDE DEF s
    <2> QED BY <1>1, <1>3, <2>1, ReadEnds DEF s, Results
  <1>5. CASE pool = <<>>
    <2>1. Become(h, t) BY <1>5 DEF Watchdog
    <2>2. /\ u \in Requests /\ Offsets(u) = Offsets(s) /\ u.result = s.result
          /\ u.deferred = s.deferred /\ u.owed = s.owed /\ u.pending = s.pending
          /\ u.failLie = s.failLie
      <3> HIDE DEF s
      <3>1. u \in Requests BY <1>2 DEF Requests
      <3>2. Offsets(u) = Offsets(s) BY <1>2 DEF Requests, Offsets
      <3>3. /\ u.result = s.result /\ u.deferred = s.deferred /\ u.owed = s.owed
            /\ u.pending = s.pending /\ u.failLie = s.failLie
        BY <1>2 DEF Requests
      <3> QED BY <3>1, <3>2, <3>3
    <2> HIDE DEF u
    <2>3. Sound(u) /\ u.result # "MISMATCH"
      BY <1>1, <1>2, <2>2 DEF InPlace, Reads, Sound, Offsets, Pos, Pending
    <2>4. /\ Served(t) /\ t.pc = "closing" /\ t.pending = u.pending
          /\ t.failLie = u.failLie
      BY <2>2, <2>3, Closes, CloseFields DEF Toasts
    <2>5. ASSUME Fair(s), Owns(s, pool) PROVE Fair(t) /\ Owns(t, pool')
      <3>1. ~Pending(t) BY <1>1, <1>5, <2>2, <2>4, <2>5 DEF Owns, Pending
      <3>2. Fair(t) BY <1>1, <2>2, <2>4, <2>5, <3>1 DEF Fair
      <3>3. Owns(t, pool') BY <2>4, <3>1 DEF Owns
      <3> QED BY <3>2, <3>3
    <2> HIDE DEF t
    <2> QED BY <1>1, <2>1, <2>4, <2>5 DEF Right
  <1> QED BY <1>4, <1>5

\* A client that goes away: what reached it is on the wire, and its last cutover owes
\* no toast, unless the stall flag, which is not this request's, makes that a stall.
LEMMA DisconnectRight ==
  ASSUME TypeInv, DeliveryInv, NEW h \in Handlers, Disconnect(h)
  PROVE  \E t : Right(h, t)
  <1> DEFINE s == hs[h]
             why == IF stallFlag THEN "passthrough_stall" ELSE "client_disconnected"
  <1>1. s.pc \in {"prefix", "prelude", "body", "fill"} /\ UNCHANGED pool
    BY DEF Disconnect, ctxVars, poolVars
  <1>2. s \in Requests /\ Sound(s) /\ InPlace(s) BY <1>1, ServedFacts
  <1>3. PICK from \in SUBSET (inRam \cup {s.src}) : Become(h, Close(Fed(s, from), why))
    BY DEF Disconnect
  <1> DEFINE u == Fed(s, from)
             t == Close(u, why)
  <1>4. from \in SUBSET Sources
    <2>1. s.src \in Sources BY <1>2, FieldTypes
    <2>2. inRam \subseteq Sources BY DEF TypeInv, TypeOK
    <2> QED BY <2>1, <2>2
  <1>5. /\ u \in Requests /\ Offsets(u) = Offsets(s) /\ u.result = s.result
        /\ u.deferred = s.deferred /\ u.owed = s.owed
        /\ u.pending = s.pending /\ u.tripped = s.tripped /\ u.failLie = s.failLie
    <2> HIDE DEF s
    <2> QED BY <1>2, <1>4, PutTyped, FedFields
  <1>6. Become(h, t) BY <1>3
  <1>7. why # "complete" OBVIOUS
  <1>8. Sound(u)
    BY <1>2, <1>5 DEF Sound, Offsets, Pos, Pending
  <1>9. u.result # "MISMATCH" BY <1>1, <1>2, <1>5 DEF InPlace, Reads
  <1>10. why \in {"client_disconnected", "passthrough_stall"} OBVIOUS
  <1> HIDE DEF why, u
  <1>11. /\ Served(t) /\ t.pc = "closing" /\ t.reason = why /\ t.pending = u.pending
         /\ t.tripped = u.tripped /\ t.failLie = u.failLie
    BY <1>5, <1>7, <1>8, <1>9, Closes, CloseFields DEF Toasts
  <1> HIDE DEF t
  <1>12. ASSUME Fair(s), Owns(s, pool) PROVE Fair(t) /\ Owns(t, pool')
    <2>1. Fair(t) BY <1>1, <1>5, <1>10, <1>11, <1>12 DEF Fair, Excused
    <2>2. Owns(t, pool') BY <1>1, <1>5, <1>11, <1>12 DEF Owns, Pending
    <2> QED BY <2>1, <2>2
  <1> QED BY <1>1, <1>6, <1>11, <1>12 DEF Right

LEMMA RetryRight ==
  ASSUME TypeInv, DeliveryInv, NEW h \in Handlers, Retry(h)
  PROVE  \E t : Right(h, t)
  <1> DEFINE s == hs[h]
             r == s.tries + 1
             next == [s EXCEPT !.pc = "prelude", !.tries = r, !.result = "NONE"]
  <1>1. s.pc = "retry" /\ UNCHANGED pool
    BY DEF Retry, ctxVars, poolVars
  <1>2. s \in Requests /\ Sound(s) /\ InPlace(s) BY <1>1, ServedFacts
  <1>3. s.w = 0 /\ ~s.deferred /\ Pos(s) <= s.end /\ (s.result = "MISMATCH" => s.tries = 0)
    BY <1>1, <1>2 DEF InPlace, Reads
  <1>4. s.tries \in Nat /\ s.result \in Results BY <1>2, FieldTypes
  <1>5. \/ s.tries = 0 /\ Become(h, [s EXCEPT !.pc = "after"])
        \/ /\ s.result # "MISMATCH"
           /\ \/ \E res \in Results \ {"MISMATCH"} : Become(h, LadderDone(s, res))
              \/ Become(h, next)
    BY <1>3, <1>4 DEF Retry, Retryable, Results
  <1>6. CASE s.tries = 0 /\ Become(h, [s EXCEPT !.pc = "after"])
    <2> DEFINE t == [s EXCEPT !.pc = "after"]
    <2>1. Same3(s, t) /\ t.pc = "after" BY <1>2, GotoFields DEF Same3
    <2> HIDE DEF t
    <2>2. Right(h, t) BY <1>1, <1>6, <2>1, DecidesRight DEF Between, t
    <2> QED BY <2>2
  <1>7. ASSUME s.result # "MISMATCH", NEW res \in Results \ {"MISMATCH"},
               Become(h, LadderDone(s, res))
        PROVE  \E t : Right(h, t)
    <2> DEFINE t == LadderDone(s, res)
    <2>1. /\ Sound(t) /\ InPlace(t)
          /\ t.pc \in {"closing", "after"}
          /\ (Pending(t) => t.pending = s.pending)
          /\ (~s.tripped /\ ~s.failLie
                /\ (Pending(s) /\ res # "MISMATCH" =>
                      (s.pending \in s.feeders => s.lad > 0)) => Fair(t))
      BY <1>2, <1>3, <1>7, LadderDoneServed
    <2> HIDE DEF t
    <2>2. ASSUME Fair(s), Owns(s, pool) PROVE Fair(t) /\ Owns(t, pool')
      <3>1. s.lad \in Nat BY <1>2, FieldTypes
      <3>2. Fair(t) BY <1>1, <1>3, <1>7, <2>1, <2>2, <3>1 DEF Fair
      <3>3. Owns(t, pool')
        BY <1>1, <2>1, <2>2 DEF Owns, Pending
      <3> QED BY <3>2, <3>3
    <2>3. Right(h, t) BY <1>1, <1>7, <2>1, <2>2 DEF Right, Served, t
    <2> QED BY <2>3
  <1>8. CASE s.result # "MISMATCH" /\ Become(h, next)
    <2> DEFINE t == next
    <2>1. /\ t.pc = "prelude" /\ t.tries = r /\ t.result = "NONE" /\ Toasts(t) = Toasts(s)
          /\ t.start = s.start /\ t.end = s.end /\ t.cur = s.cur /\ t.lad = s.lad
          /\ t.w = s.w /\ t.wire = s.wire
      <3> HIDE DEF s, r
      <3>1. t.pc = "prelude" /\ t.tries = r /\ t.result = "NONE" /\ Toasts(t) = Toasts(s)
        BY <1>2 DEF Requests, Toasts
      <3>2. /\ t.start = s.start /\ t.end = s.end /\ t.cur = s.cur /\ t.lad = s.lad
            /\ t.w = s.w /\ t.wire = s.wire
        BY <1>2 DEF Requests
      <3> QED BY <3>1, <3>2
    <2> HIDE DEF t
    <2>2. /\ t.deferred = s.deferred /\ t.owed = s.owed /\ t.pending = s.pending
          /\ t.feeders = s.feeders /\ t.tripped = s.tripped /\ t.failLie = s.failLie
          /\ Pos(t) = Pos(s) /\ (Pending(t) <=> Pending(s)) /\ t.tries # 0
      BY <1>4, <2>1 DEF Toasts, Pos, Pending
    <2>3. Sound(t) /\ InPlace(t)
      BY <1>2, <1>3, <1>8, <2>1, <2>2 DEF Sound, InPlace, Reads, One
    <2>4. ASSUME Fair(s), Owns(s, pool) PROVE Fair(t) /\ Owns(t, pool')
      <3>1. Fair(t) BY <1>1, <1>8, <2>1, <2>2, <2>4 DEF Fair
      <3>2. Owns(t, pool')
        BY <1>1, <2>1, <2>2, <2>4 DEF Owns
      <3> QED BY <3>1, <3>2
    <2>5. Right(h, t) BY <1>1, <1>8, <2>1, <2>3, <2>4 DEF Right, Served, t
    <2> QED BY <2>5
  <1> QED BY <1>5, <1>6, <1>7, <1>8

LEMMA ProgressRight ==
  ASSUME TypeInv, DeliveryInv, NEW h \in Handlers, Progress(h)
  PROVE  \E t : Right(h, t)
  <1> DEFINE s == hs[h]
             c == BumpedCount(s)
             t1 == [s EXCEPT !.pc = "stall", !.await = 0, !.falls = 0,
                             !.lastFall = -1, !.stalls = -1]
             t2 == [s EXCEPT !.await = c, !.pc = "select", !.via = "await"]
             t3 == [s EXCEPT !.await = c, !.pc = "stall"]
  <1>1. s.pc = "after" /\ UNCHANGED pool BY DEF Progress, poolVars
  <1>2. s \in Requests /\ InPlace(s) BY <1>1, ServedFacts
  <1>3. s.tries = 0 BY <1>1, <1>2 DEF InPlace, Reads
  <1>4. c >= AwaitMax => s.result # "MISMATCH"
    BY BoundsAssumption DEF BumpedCount
  <1>5. \/ Become(h, t1) \/ Become(h, t3) \/ (Become(h, t2) /\ s.result # "MISMATCH")
    BY <1>4 DEF Progress
  <1> HIDE DEF c
  <1>6. Same3(s, t1) /\ Same3(s, t2) /\ Same3(s, t3)
    <2> HIDE DEF s
    <2>1. Same3(s, t1) BY <1>2 DEF Requests, Offsets, Toasts, Same3
    <2>2. Same3(s, t2) BY <1>2 DEF Requests, Offsets, Toasts, Same3
    <2>3. Same3(s, t3) BY <1>2 DEF Requests, Offsets, Toasts, Same3
    <2> QED BY <2>1, <2>2, <2>3
  <1>7. t1.pc = "stall" /\ t2.pc = "select" /\ t3.pc = "stall"
    <2> HIDE DEF s
    <2> QED BY <1>2 DEF Requests
  <1> HIDE DEF t1, t2, t3
  <1>8. CASE Become(h, t1)
    BY <1>1, <1>3, <1>6, <1>7, <1>8, DecidesRight DEF Between
  <1>9. CASE Become(h, t3)
    BY <1>1, <1>3, <1>6, <1>7, <1>9, DecidesRight DEF Between
  <1>10. CASE Become(h, t2) /\ s.result # "MISMATCH"
    BY <1>1, <1>3, <1>6, <1>7, <1>10, DecidesRight DEF Between
  <1> QED BY <1>5, <1>8, <1>9, <1>10

LEMMA StallWaitRight ==
  ASSUME TypeInv, DeliveryInv, NEW h \in Handlers, StallWait(h)
  PROVE  \E t : Right(h, t)
  <1> DEFINE s == hs[h]
             u == NextPass(s)
             n == IF u.stalls = -1 THEN 1 ELSE u.stalls + 1
             next == [u EXCEPT !.stalls = n]
             gone == Close(s, "client_disconnected")
  <1>1. s.pc = "stall" /\ s.result # "MISMATCH" /\ UNCHANGED pool
    BY DEF StallWait, Stalled, ctxVars, poolVars
  <1>2. s \in Requests /\ Sound(s) /\ InPlace(s) BY <1>1, ServedFacts
  <1>3. Become(h, gone) \/ Become(h, next) BY DEF StallWait
  <1>4. s.w = 0 /\ ~s.deferred /\ Pos(s) <= s.end /\ s.tries = 0
    BY <1>1, <1>2 DEF InPlace, Reads
  <1>5. Fair(s) /\ Owns(s, pool) =>
          /\ ~s.tripped /\ ~s.failLie
          /\ Pending(s) => (s.pending \in s.feeders => s.lad + s.w > 0)
          /\ Pending(s) => pool # <<>>
    BY <1>1 DEF Fair, Owns
  <1>6. CASE Become(h, gone)
    <2> DEFINE t == gone
    <2>1. /\ Served(t) /\ t.pc = "closing" /\ t.reason = "client_disconnected"
          /\ t.pending = s.pending /\ t.tripped = s.tripped /\ t.failLie = s.failLie
      BY <1>1, <1>2, Closes, CloseFields DEF Toasts
    <2> HIDE DEF t
    <2>2. Fair(s) /\ Owns(s, pool) => Fair(t) /\ Owns(t, pool')
      BY <1>1, <1>5, <2>1 DEF Fair, Owns, Pending
    <2>3. Right(h, t) BY <1>1, <1>6, <2>1, <2>2 DEF Right, t
    <2> QED BY <2>3
  <1>7. CASE Become(h, next)
    <2> DEFINE t == next
    <2>1. /\ u \in Requests /\ Toasts(u) = Toasts(s) /\ u.result = "NONE" /\ u.pc = "prelude"
          /\ u.tries = 0 /\ u.start = s.start /\ u.end = s.end /\ u.cur = s.cur
          /\ u.lad = s.lad /\ u.w = s.w /\ u.wire = s.wire
      BY <1>2, NextPassTyped, NextPassFields
    <2> HIDE DEF u, n
    <2>2. /\ Toasts(t) = Toasts(u) /\ t.result = u.result /\ t.pc = u.pc
          /\ t.tries = u.tries /\ t.start = u.start /\ t.end = u.end /\ t.cur = u.cur
          /\ t.lad = u.lad /\ t.w = u.w /\ t.wire = u.wire
      BY <2>1 DEF Requests, Toasts
    <2> HIDE DEF t
    <2>3. /\ t.deferred = s.deferred /\ t.owed = s.owed /\ t.pending = s.pending
          /\ t.feeders = s.feeders /\ t.tripped = s.tripped /\ t.failLie = s.failLie
          /\ Pos(t) = Pos(s) /\ (Pending(t) <=> Pending(s))
      BY <2>1, <2>2 DEF Toasts, Pos, Pending
    <2>4. Sound(t) /\ InPlace(t)
      BY <1>1, <1>2, <1>4, <2>1, <2>2, <2>3 DEF Sound, InPlace, Reads, One
    <2>5. Fair(s) /\ Owns(s, pool) => Fair(t) /\ Owns(t, pool')
      BY <1>1, <1>5, <2>1, <2>2, <2>3 DEF Fair, Owns
    <2>6. Right(h, t) BY <1>1, <1>7, <2>1, <2>2, <2>4, <2>5 DEF Right, Served, t
    <2> QED BY <2>6
  <1> QED BY <1>3, <1>6, <1>7

LEMMA StallDoneRight ==
  ASSUME TypeInv, DeliveryInv, NEW h \in Handlers, StallDone(h)
  PROVE  \E t : Right(h, t)
  <1> DEFINE s == hs[h]
             t == [s EXCEPT !.pc = "giveup"]
  <1>1. s.pc = "stall" /\ UNCHANGED pool /\ Become(h, t)
    BY DEF StallDone, ctxVars, poolVars
  <1>2. s \in Requests /\ InPlace(s) BY <1>1, ServedFacts
  <1>3. s.tries = 0 BY <1>1, <1>2 DEF InPlace, Reads
  <1>4. Same3(s, t) /\ t.pc = "giveup" BY <1>2, GotoFields DEF Same3
  <1> HIDE DEF t
  <1> QED BY <1>1, <1>3, <1>4, DecidesRight DEF Between

\* Giving up blames a pending candidate that fed nothing, or broke the contract.
LEMMA EndsRight ==
  ASSUME TypeInv, DeliveryInv, NEW h \in Handlers, hs[h].pc \in {"giveup", "skip"},
         NEW why, why # "complete", hs[h].result = "MISMATCH" => why = "protocol_mismatch",
         Become(h, Close(hs[h], why)), UNCHANGED pool
  PROVE  \E t : Right(h, t)
  <1> DEFINE s == hs[h]
             t == Close(s, why)
  <1>1. s \in Requests /\ Sound(s) /\ InPlace(s) BY ServedFacts
  <1>2. s.w = 0 /\ s.tries = 0 BY <1>1 DEF InPlace, Reads
  <1>3. s.lad = 0 BY <1>1, <1>2 DEF Sound
  <1>4. /\ Served(t) /\ t.pc = "closing" /\ t.reason = why /\ t.pending = s.pending
        /\ t.feeders = s.feeders /\ t.tripped = s.tripped /\ t.failLie = s.failLie
    BY <1>1, <1>2, Closes, CloseFields DEF Toasts
  <1> HIDE DEF t
  <1>5. ASSUME Fair(s), Owns(s, pool) PROVE Fair(t) /\ Owns(t, pool')
    <2>1. ~(s.lad + s.w > 0) BY <1>2, <1>3
    <2>2. Fair(t) BY <1>4, <1>5, <2>1 DEF Fair, Excused, Pending
    <2>3. Owns(t, pool') BY <1>4, <1>5 DEF Owns, Pending
    <2> QED BY <2>2, <2>3
  <1>6. Right(h, t) BY <1>4, <1>5 DEF Right, t
  <1> QED BY <1>6

LEMMA GiveUpRight ==
  ASSUME TypeInv, DeliveryInv, NEW h \in Handlers, GiveUp(h)
  PROVE  \E t : Right(h, t)
  <1> DEFINE s == hs[h]
             t == [s EXCEPT !.pc = "skip"]
  <1>1. s.pc = "giveup" /\ UNCHANGED pool
    BY DEF GiveUp, ctxVars, poolVars
  <1>2. \/ \E why : /\ why # "complete" /\ (s.result = "MISMATCH" => why = "protocol_mismatch")
                    /\ Become(h, Close(s, why))
        \/ s.result # "MISMATCH" /\ Become(h, t)
    BY DEF GiveUp
  <1>3. s \in Requests /\ InPlace(s) BY <1>1, ServedFacts
  <1>4. s.tries = 0 BY <1>1, <1>3 DEF InPlace, Reads
  <1>5. Same3(s, t) /\ t.pc = "skip" BY <1>3, GotoFields DEF Same3
  <1> HIDE DEF t
  <1>6. CASE s.result # "MISMATCH" /\ Become(h, t)
    BY <1>1, <1>4, <1>5, <1>6, DecidesRight DEF Between
  <1> QED BY <1>1, <1>2, <1>6, EndsRight

LEMMA SkipProbeRight ==
  ASSUME TypeInv, DeliveryInv, NEW h \in Handlers, SkipProbe(h)
  PROVE  \E t : Right(h, t)
  <1> DEFINE s == hs[h]
             fill(z) == [s EXCEPT !.pc = "fill", !.gap = z]
  <1>1. s.pc = "skip" /\ UNCHANGED pool
    BY DEF SkipProbe, ctxVars, poolVars
  <1>2. s \in Requests /\ Sound(s) /\ InPlace(s) BY <1>1, ServedFacts
  <1>3. s.w = 0 /\ ~s.deferred /\ Pos(s) <= s.end /\ s.tries = 0 /\ s.result # "MISMATCH"
    BY <1>1, <1>2 DEF InPlace, Reads
  <1>4. \/ \E why : why # "complete" /\ Become(h, Close(s, why))
        \/ \E z \in SkipSizes : s.cur + z <= s.end /\ Become(h, fill(z))
    BY DEF SkipProbe
  <1>5. ASSUME NEW z \in SkipSizes, s.cur + z <= s.end, Become(h, fill(z))
        PROVE  \E t : Right(h, t)
    <2> DEFINE t == fill(z)
    <2>1. /\ t.pc = "fill" /\ t.gap = z /\ t.result = s.result /\ Toasts(t) = Toasts(s)
          /\ t.start = s.start /\ t.end = s.end /\ t.cur = s.cur /\ t.lad = s.lad
          /\ t.w = s.w /\ t.wire = s.wire /\ t.tries = s.tries
      <3> HIDE DEF s
      <3>1. t.pc = "fill" /\ t.gap = z /\ t.result = s.result /\ Toasts(t) = Toasts(s)
        BY <1>2 DEF Requests, Toasts
      <3>2. /\ t.start = s.start /\ t.end = s.end /\ t.cur = s.cur /\ t.lad = s.lad
            /\ t.w = s.w /\ t.wire = s.wire /\ t.tries = s.tries
        BY <1>2 DEF Requests
      <3> QED BY <3>1, <3>2
    <2> HIDE DEF t
    <2>2. /\ t.deferred = s.deferred /\ t.owed = s.owed /\ t.pending = s.pending
          /\ t.feeders = s.feeders /\ t.tripped = s.tripped /\ t.failLie = s.failLie
          /\ Pos(t) = Pos(s) /\ (Pending(t) <=> Pending(s))
      BY <2>1 DEF Toasts, Pos, Pending
    <2>3. Sound(t) /\ InPlace(t)
      BY <1>2, <1>3, <1>5, <2>1, <2>2 DEF Sound, InPlace, Reads, One
    <2>4. Fair(s) /\ Owns(s, pool) => Fair(t) /\ Owns(t, pool')
      BY <1>1, <2>1, <2>2 DEF Fair, Owns
    <2>5. Right(h, t) BY <1>1, <1>5, <2>1, <2>3, <2>4 DEF Right, Served, t
    <2> QED BY <2>5
  <1>6. ASSUME NEW why, why # "complete", Become(h, Close(s, why))
        PROVE  \E t : Right(h, t)
    BY <1>1, <1>3, <1>6, EndsRight
  <1> HIDE DEF s, fill
  <1> QED BY <1>4, <1>5, <1>6

LEMMA ZeroFillRight ==
  ASSUME TypeInv, DeliveryInv, NEW h \in Handlers, ZeroFill(h)
  PROVE  \E t : Right(h, t)
  <1> DEFINE s == hs[h]
             u == NextPass(s)
             g == s.gap
             x == u.wire + g
             c == u.cur + g
             m == u.skipped + g
             t == [u EXCEPT !.wire = x, !.cur = c, !.skipped = m, !.gap = 0]
  <1>1. s.pc = "fill" /\ UNCHANGED pool /\ Become(h, t)
    BY DEF ZeroFill, ctxVars, poolVars
  <1>2. s \in Requests /\ Sound(s) /\ InPlace(s) BY <1>1, ServedFacts
  <1>3. s.w = 0 /\ ~s.deferred /\ s.tries = 0 /\ s.result # "MISMATCH" /\ s.cur + g <= s.end
    BY <1>1, <1>2 DEF InPlace, Reads
  <1>4. /\ s.start \in Nat /\ s.end \in Nat /\ s.cur \in Nat /\ s.wire \in Nat /\ g \in Nat
        /\ s.owed \in Int
    BY <1>2, FieldTypes
  <1>5. /\ u \in Requests /\ Toasts(u) = Toasts(s) /\ u.result = "NONE" /\ u.pc = "prelude"
        /\ u.tries = 0 /\ u.start = s.start /\ u.end = s.end /\ u.cur = s.cur
        /\ u.lad = s.lad /\ u.w = s.w /\ u.wire = s.wire
    BY <1>2, NextPassTyped, NextPassFields
  <1>6. x = s.wire + g /\ c = s.cur + g BY <1>5
  <1> HIDE DEF u, g, x, c, m
  <1>7. /\ t.pc = u.pc /\ t.result = u.result /\ t.start = u.start /\ t.end = u.end
        /\ t.cur = c /\ t.lad = u.lad /\ t.w = u.w /\ t.wire = x /\ t.tries = u.tries
    BY <1>5 DEF Requests
  <1>8. Toasts(t) = Toasts(u) BY <1>5 DEF Requests, Toasts
  <1> HIDE DEF t
  <1>9. /\ t.deferred = s.deferred /\ t.owed = s.owed /\ t.pending = s.pending
        /\ t.feeders = s.feeders /\ t.tripped = s.tripped /\ t.failLie = s.failLie
        /\ (Pending(t) <=> Pending(s))
    BY <1>5, <1>8 DEF Toasts, Pending
  <1>10. s.lad = 0 /\ Pos(s) = s.cur /\ Pos(t) = s.cur + g
    BY <1>2, <1>3, <1>4, <1>5, <1>6, <1>7 DEF Sound, Pos
  <1>11. Sound(t)
    <2>1. s.wire = s.cur - s.start BY <1>2, <1>3, <1>10 DEF Sound
    <2>2. t.wire = Pos(t) - t.start /\ Pos(t) <= t.end + 1
      BY <1>3, <1>4, <1>5, <1>6, <1>7, <1>10, <2>1
    <2> QED BY <1>2, <1>5, <1>7, <1>9, <1>10, <2>2 DEF Sound, One
  <1>12. InPlace(t) BY <1>3, <1>5, <1>7, <1>9, <1>10 DEF InPlace, Reads
  <1>13. Fair(s) /\ Owns(s, pool) => Fair(t) /\ Owns(t, pool')
    BY <1>1, <1>3, <1>5, <1>7, <1>9 DEF Fair, Owns
  <1> QED BY <1>1, <1>5, <1>7, <1>11, <1>12, <1>13 DEF Right, Served

\* The end of a request: the toasts still owed go out, but the one about the last
\* candidate when the client went away.
LEMMA FinalizeRight ==
  ASSUME TypeInv, DeliveryInv, NEW h \in Handlers, Finalize(h)
  PROVE  \E t : Right(h, t)
  <1> DEFINE s == hs[h]
             blame == s.pending # NoSource /\ s.reason # "client_disconnected"
             o == s.owed - (IF s.deferred THEN 1 ELSE 0) - (IF blame THEN 1 ELSE 0)
             lie == s.failLie \/ (blame /\ s.pending \in s.feeders)
             t == [Idle EXCEPT !.reason = s.reason, !.tripped = s.tripped,
                               !.owed = o, !.failLie = lie]
  <1>1. s.pc = "closing" /\ Become(h, t) /\ UNCHANGED pool BY DEF Finalize, poolVars
  <1>2. s \in Requests /\ Sound(s) BY <1>1, ServedFacts
  <1>3. /\ t.pc = "idle" /\ t.reason = s.reason /\ t.tripped = s.tripped /\ t.owed = o
        /\ t.failLie = lie /\ ~Pending(t)
    <2> HIDE DEF o, lie, s
    <2> QED BY DEF Idle, Pending
  <1>4. s.owed = One(s.deferred) + One(Pending(s)) BY <1>2 DEF Sound
  <1>5. o = 0 \/ (o = 1 /\ s.reason = "client_disconnected")
    BY <1>4 DEF One, Pending
  <1>6. Fair(s) => (lie => Excused(s)) BY <1>1 DEF Fair, Pending
  <1> HIDE DEF t, o, lie, blame
  <1>7. Served(t) BY <1>3, <1>5 DEF Served, OneToastPerCutover
  <1>8. Fair(s) => Fair(t) BY <1>3, <1>6 DEF Fair, Excused
  <1>9. Owns(t, pool') BY <1>3 DEF Owns
  <1> QED BY <1>1, <1>7, <1>8, <1>9 DEF Right

\* A selection that finds nothing goes back to the step that asked.
LEMMA NoMatchRight ==
  ASSUME TypeInv, DeliveryInv, NEW h \in Handlers,
         hs[h].pc \in {"select", "scan", "refresh", "probe"}, Become(h, NoMatch(hs[h])),
         UNCHANGED pool
  PROVE  \E t : Right(h, t)
  <1> DEFINE s == hs[h]
             t == NoMatch(s)
  <1>1. s \in Requests /\ InPlace(s) BY ServedFacts
  <1>2. s.tries = 0 BY <1>1 DEF InPlace, Reads
  <1>3. Same3(s, t) /\ t.pc \in {"stall", "retry"} BY <1>1, NoMatchFields DEF Same3
  <1> HIDE DEF t
  <1>4. Become(h, t) BY DEF t
  <1>5. Right(h, t) BY <1>2, <1>3, <1>4, DecidesRight DEF Between
  <1> QED BY <1>5

\* A selection in progress moves to another candidate.
LEMMA LooksRight ==
  ASSUME TypeInv, DeliveryInv, NEW h \in Handlers,
         hs[h].pc \in {"select", "scan", "refresh", "probe"},
         NEW t, Become(h, t), Same3(hs[h], t), t.pc \in {"scan", "refresh", "probe"},
         hs[h].pc = "select" => pool # <<>>,
         UNCHANGED pool
  PROVE  \E u : Right(h, u)
  <1> DEFINE s == hs[h]
  <1>1. s \in Requests /\ InPlace(s) BY ServedFacts
  <1>2. s.tries = 0 /\ s.result # "MISMATCH" BY <1>1 DEF InPlace, Reads
  <1>3. Right(h, t) BY <1>2, DecidesRight DEF Between
  <1> QED BY <1>3

LEMMA SelectRight ==
  ASSUME TypeInv, DeliveryInv, NEW h \in Handlers, Select(h)
  PROVE  \E t : Right(h, t)
  <1> DEFINE s == hs[h]
             p == pool
             r == remote
             x == failed
  <1>1. s.pc = "select" /\ UNCHANGED pool BY DEF Select, ctxVars, poolVars
  <1>2. s \in Requests BY ServedFacts
  <1>3. PICK f, i, b :
          \/ Become(h, NoMatch(s))
          \/ /\ p # <<>>
             /\ Become(h, [s EXCEPT !.pc = "scan", !.list = p, !.first = f, !.i = i,
                                    !.standby = b, !.prim = r, !.barred = x])
    <2>1. Selectable # {} => pool # <<>> BY DEF Selectable
    <2> QED BY <2>1 DEF Select
  <1> DEFINE t == [s EXCEPT !.pc = "scan", !.list = p, !.first = f, !.i = i,
                            !.standby = b, !.prim = r, !.barred = x]
  <1>4. Become(h, NoMatch(s)) \/ (pool # <<>> /\ Become(h, t)) BY <1>3
  <1> HIDE DEF p, r, x
  <1>5. Same3(s, t) /\ t.pc = "scan"
    <2> HIDE DEF s
    <2> QED BY <1>2 DEF Requests, Offsets, Toasts, Same3
  <1> HIDE DEF t
  <1>6. CASE Become(h, NoMatch(s)) BY <1>1, <1>6, NoMatchRight
  <1>7. CASE pool # <<>> /\ Become(h, t) BY <1>1, <1>5, <1>7, LooksRight
  <1> QED BY <1>4, <1>6, <1>7

\* A look leaves what the client is served.
LEMMA LookFields ==
  ASSUME NEW s \in Requests PROVE Same3(s, Look(s))
  <1> DEFINE b == s.barred \cap failed
             t == [s EXCEPT !.barred = b]
  <1>1. Look(s) = t BY DEF Look
  <1> HIDE DEF b
  <1>2. Same3(s, t) BY DEF Requests, Offsets, Toasts, Same3
  <1>3. QED BY <1>1, <1>2

LEMMA ScanRight ==
  ASSUME TypeInv, DeliveryInv, NEW h \in Handlers, Scan(h)
  PROVE  \E t : Right(h, t)
  <1> DEFINE s == hs[h]
             l == Look(s)
  <1>1. s.pc = "scan" /\ UNCHANGED pool BY DEF Scan, ctxVars
  <1>2. s \in Requests BY ServedFacts
  <1>9. l \in Requests /\ l.pc = s.pc /\ Same3(s, l) BY <1>2, LookTyped, LookFields
  <1>3. PICK i, b :
          \/ Become(h, NoMatch(s))
          \/ Become(h, [l EXCEPT !.pc = "probe", !.pass = "scan", !.i = i, !.standby = b])
          \/ Become(h, [l EXCEPT !.pc = "refresh", !.i = b, !.standby = b])
    BY DEF Scan
  <1> DEFINE t1 == [l EXCEPT !.pc = "probe", !.pass = "scan", !.i = i, !.standby = b]
             t2 == [l EXCEPT !.pc = "refresh", !.i = b, !.standby = b]
  <1>4. Same3(s, t1) /\ t1.pc = "probe" /\ Same3(s, t2) /\ t2.pc = "refresh"
    <2> HIDE DEF s, l
    <2>1. Same3(s, t1) /\ t1.pc = "probe" BY <1>9 DEF Requests, Offsets, Toasts, Same3
    <2>2. Same3(s, t2) /\ t2.pc = "refresh" BY <1>9 DEF Requests, Offsets, Toasts, Same3
    <2> QED BY <2>1, <2>2
  <1>5. Become(h, NoMatch(s)) \/ Become(h, t1) \/ Become(h, t2) BY <1>3
  <1> HIDE DEF t1, t2
  <1>6. CASE Become(h, NoMatch(s)) BY <1>1, <1>6, NoMatchRight
  <1>7. CASE Become(h, t1) BY <1>1, <1>4, <1>7, <1>9, LooksRight
  <1>8. CASE Become(h, t2) BY <1>1, <1>4, <1>8, LooksRight
  <1> QED BY <1>5, <1>6, <1>7, <1>8

LEMMA RefreshRight ==
  ASSUME TypeInv, DeliveryInv, NEW h \in Handlers, Refresh(h)
  PROVE  \E t : Right(h, t)
  <1> DEFINE s == hs[h]
             l == Look(s)
             r == remote
  <1>1. s.pc = "refresh" /\ UNCHANGED pool BY DEF Refresh, ctxVars
  <1>2. s \in Requests BY ServedFacts
  <1>9. l \in Requests /\ l.pc = s.pc /\ Same3(s, l) BY <1>2, LookTyped, LookFields
  <1>3. PICK n, j :
          \/ Become(h, NoMatch(s))
          \/ Become(h, [l EXCEPT !.i = n])
          \/ Become(h, [l EXCEPT !.pc = "probe", !.pass = "refresh", !.i = j, !.prim = r])
    BY DEF Refresh
  <1> HIDE DEF r
  <1> DEFINE t1 == [l EXCEPT !.i = n]
             t2 == [l EXCEPT !.pc = "probe", !.pass = "refresh", !.i = j, !.prim = r]
  <1>4. Same3(s, t1) /\ t1.pc = l.pc /\ Same3(s, t2) /\ t2.pc = "probe"
    <2> HIDE DEF s, l
    <2>1. Same3(s, t1) /\ t1.pc = l.pc BY <1>9 DEF Requests, Offsets, Toasts, Same3
    <2>2. Same3(s, t2) /\ t2.pc = "probe" BY <1>9 DEF Requests, Offsets, Toasts, Same3
    <2> QED BY <2>1, <2>2
  <1>5. Become(h, NoMatch(s)) \/ Become(h, t1) \/ Become(h, t2) BY <1>3
  <1> HIDE DEF t1, t2
  <1>6. CASE Become(h, NoMatch(s)) BY <1>1, <1>6, NoMatchRight
  <1>7. CASE Become(h, t1) BY <1>1, <1>4, <1>7, <1>9, LooksRight
  <1>8. CASE Become(h, t2) BY <1>1, <1>4, <1>8, LooksRight
  <1> QED BY <1>5, <1>6, <1>7, <1>8

\* A cutover starts the story of its own candidate, and ends that of the last one.
LEMMA ProbeRight ==
  ASSUME TypeInv, DeliveryInv, NEW h \in Handlers, Probe(h)
  PROVE  \E t : Right(h, t)
  <1> DEFINE s == hs[h]
             c == s.list[s.i]
             p == s.pass
             n == s.i + 1
             next == [s EXCEPT !.pc = p, !.i = n]
             t == BeginPending(s, c)
  <1>1. s.pc = "probe" BY DEF Probe
  <1>2. s \in Requests /\ Sound(s) /\ InPlace(s) BY <1>1, ServedFacts
  <1>3. Activate(h, c) \/ (Become(h, next) /\ UNCHANGED pool)
    BY DEF Probe, ctxVars
  <1>4. s.w = 0 /\ s.tries = 0 /\ ~s.deferred /\ s.result # "MISMATCH" /\ Pos(s) <= s.end
    BY <1>1, <1>2 DEF InPlace, Reads
  <1>5. CASE Become(h, next) /\ UNCHANGED pool
    <2>1. p \in {"scan", "refresh"} BY <1>2 DEF Requests
    <2> HIDE DEF p, n
    <2>2. Same3(s, next) /\ next.pc = p
      <3> HIDE DEF s
      <3> QED BY <1>2 DEF Requests, Offsets, Toasts, Same3
    <2> HIDE DEF next
    <2> QED BY <1>1, <1>5, <2>1, <2>2, LooksRight
  <1>6. CASE Activate(h, c)
    <2>1. c \in Sources
      BY <1>1, <1>2, FieldTypes DEF TypeInv, ProbeInList, Positions
    <2>2. /\ t.start = s.start /\ t.end = s.end /\ t.cur = s.cur /\ t.lad = s.lad /\ t.w = s.w
          /\ t.wire = s.wire /\ t.tries = 0 /\ t.result = "NONE" /\ t.pc = "prelude"
          /\ (t.deferred <=> s.deferred \/ Pending(s))
          /\ t.owed = s.owed + 1 /\ t.pending = c /\ t.feeders = {} /\ t.tripped = s.tripped
          /\ (~s.failLie /\ ~(Pending(s) /\ s.pending \in s.feeders) => ~t.failLie)
      BY <1>2, <2>1, BeginPendingFields
    <2>3. Become(h, t) BY <1>6 DEF Activate
    <2>4. pool # <<>> => pool' # <<>>
      <3>1. UNCHANGED pool \/ pool' = Append(pool, remote) BY <1>6 DEF Activate
      <3>2. pool \in Seq(Sources) /\ remote \in Sources BY TypeFacts DEF SharedOK
      <3> HIDE DEF s, c, t
      <3>3. Append(pool, remote) # <<>> BY <3>2, AppendProperties
      <3> QED BY <3>1, <3>3
    <2> HIDE DEF t, c
    <2>5. Pending(t) /\ Pos(t) = Pos(s)
      BY <2>1, <2>2, SourcesAssumption DEF Pending, Pos
    <2>6. s.lad = 0 BY <1>2, <1>4 DEF Sound
    <2>7. Sound(t) /\ InPlace(t)
      <3>1. s.owed = One(Pending(s)) BY <1>2, <1>4 DEF Sound, One
      <3>2. t.owed = One(t.deferred) + One(Pending(t))
        BY <1>4, <2>2, <2>5, <3>1 DEF One
      <3> QED BY <1>2, <1>4, <2>2, <2>5, <2>6, <3>2 DEF Sound, InPlace, Reads
    <2>8. ASSUME Fair(s), Owns(s, pool) PROVE Fair(t) /\ Owns(t, pool')
      <3>1. ~(s.lad + s.w > 0) /\ ~(t.lad + t.w > 0) BY <1>4, <2>2, <2>6
      <3>2. ~(Pending(s) /\ s.pending \in s.feeders) BY <1>1, <1>4, <2>8, <3>1 DEF Fair
      <3>3. ~s.tripped /\ ~s.failLie BY <1>1, <2>8 DEF Fair
      <3>4. Fair(t) BY <2>2, <3>1, <3>2, <3>3 DEF Fair
      <3>5. pool' # <<>> BY <1>1, <2>4, <2>8 DEF Owns
      <3>6. Owns(t, pool') BY <3>5 DEF Owns
      <3> QED BY <3>4, <3>6
    <2> QED BY <2>2, <2>3, <2>4, <2>7, <2>8 DEF Right, Served
  <1> QED BY <1>3, <1>5, <1>6

-----------------------------------------------------------------------------
(* The theorems.                                                           *)

LEMMA HandlerRight ==
  ASSUME TypeInv, DeliveryInv, NEW h \in Handlers, HandlerStep(h) \/ Disconnect(h)
  PROVE  \E t : Right(h, t)
  BY PrefetchPrefixRight, PreludeRight, OpenOkRight, OpenFailsRight, ChunkRight,
     BodyEndsRight, WatchdogRight, RetryRight, ProgressRight, StallWaitRight,
     StallDoneRight, GiveUpRight, SkipProbeRight, ZeroFillRight, FinalizeRight,
     SelectRight, ScanRight, RefreshRight, ProbeRight, DisconnectRight DEF HandlerStep

\* Every step of the system is one handler's, serving it right, or leaves all requests
\* and what they rely on alone.
LEMMA StepRight ==
  ASSUME TypeInv, DeliveryInv, [Next]_vars
  PROVE  \/ \E h \in Handlers : \E t : Right(h, t)
         \/ UNCHANGED hs /\ (pool # <<>> => pool' # <<>>)
  <1>1. ASSUME NEW h \in Handlers, NEW a \in 0..(N - 1), NEW b \in 0..(N - 1),
               Request(h, a, b)
        PROVE  \E t : Right(h, t)
    BY <1>1, RequestRight
  <1>2. ASSUME NEW h \in Handlers, HandlerStep(h) \/ Disconnect(h) PROVE \E t : Right(h, t)
    BY <1>2, HandlerRight
  <1>3. CASE MergeCopy \/ MergeSwap
    BY <1>3 DEF MergeCopy, MergeSwap, ctxVars, poolVars
  <1>4. CASE WarmResolve \/ WarmValidate \/ KodiAbort \/ Halted \/ UNCHANGED vars
    BY <1>4 DEF WarmResolve, WarmValidate, KodiAbort, Halted, vars, ctxVars, poolVars
  <1> QED BY <1>1, <1>2, <1>3, <1>4 DEF Next

LEMMA OneRecord ==
  ASSUME TypeInv, NEW h \in Handlers, NEW t, Become(h, t)
  PROVE  hs'[h] = t /\ \A g \in Handlers : g # h => hs'[g] = hs[g]
  BY DEF Become, TypeInv, TypeOK

LEMMA DeliveryInit == Init => DeliveryInv /\ ToastInv
  <1> SUFFICES ASSUME Init, NEW h \in Handlers
               PROVE  Served(hs[h]) /\ Fair(hs[h]) /\ Owns(hs[h], pool)
    BY DEF DeliveryInv, ToastInv
  <1>1. hs[h] = Idle BY DEF Init
  <1>2. Idle.pc = "idle" /\ Idle.owed = 0 /\ ~Idle.failLie BY DEF Idle
  <1> QED BY <1>1, <1>2 DEF Served, OneToastPerCutover, Fair, Owns

LEMMA DeliveryStep == TypeInv /\ DeliveryInv /\ [Next]_vars => DeliveryInv'
  <1> SUFFICES ASSUME TypeInv, DeliveryInv, [Next]_vars PROVE DeliveryInv' OBVIOUS
  <1>1. ASSUME NEW h \in Handlers, NEW t, Right(h, t) PROVE DeliveryInv'
    <2>1. Become(h, t) /\ Served(t) BY <1>1 DEF Right
    <2>2. hs'[h] = t /\ \A g \in Handlers : g # h => hs'[g] = hs[g] BY <2>1, OneRecord
    <2>3. \A g \in Handlers : Served(hs'[g]) BY <2>1, <2>2 DEF DeliveryInv
    <2> QED BY <2>3 DEF DeliveryInv, Served, Sound, InPlace, OneToastPerCutover, Pos, One,
                        Pending, Reads
  <1>2. CASE UNCHANGED hs
    BY <1>2 DEF DeliveryInv, Served, Sound, InPlace, OneToastPerCutover, Pos, One,
                Pending, Reads
  <1> QED BY <1>1, <1>2, StepRight

LEMMA ToastStep ==
  TypeInv /\ DeliveryInv /\ ToastInv /\ [Next]_vars => ToastInv'
  <1> SUFFICES ASSUME TypeInv, DeliveryInv, ToastInv, [Next]_vars PROVE ToastInv' OBVIOUS
  <1>1. ASSUME NEW h \in Handlers, NEW t, Right(h, t) PROVE ToastInv'
    <2>1. Become(h, t) /\ Fair(t) /\ Owns(t, pool') /\ (pool # <<>> => pool' # <<>>)
      BY <1>1 DEF Right, ToastInv
    <2>2. hs'[h] = t /\ \A g \in Handlers : g # h => hs'[g] = hs[g] BY <2>1, OneRecord
    <2>3. \A g \in Handlers : Fair(hs'[g]) BY <2>1, <2>2 DEF ToastInv
    <2>4. \A g \in Handlers : Owns(hs'[g], pool') BY <2>1, <2>2 DEF ToastInv, Owns
    <2> QED BY <2>3, <2>4 DEF ToastInv, Fair, Owns, Excused, Pending
  <1>2. CASE UNCHANGED hs /\ (pool # <<>> => pool' # <<>>)
    BY <1>2 DEF ToastInv, Fair, Owns, Excused, Pending
  <1> QED BY <1>1, <1>2, StepRight

\* What is on the wire of a request is exactly the requested bytes up to where its next
\* read starts, whatever cutovers, ladder attempts, zero-fills, short reads, merges and
\* other handlers come in between.
THEOREM WireIsContiguous == Spec => []Contiguous
  <1>1. Init => TypeInv /\ DeliveryInv BY TypeInit, DeliveryInit
  <1>2. TypeInv /\ DeliveryInv /\ [Next]_vars => TypeInv' /\ DeliveryInv'
    BY TypeStep, DeliveryStep
  <1>3. DeliveryInv => Contiguous BY DEF DeliveryInv, Served, Sound, Contiguous
  <1> QED BY <1>1, <1>2, <1>3, PTL DEF Spec

\* A request closed as complete has put its whole range on the wire.
THEOREM CompleteIsWhole == Spec => []CompleteMeansDelivered
  <1>1. Init => TypeInv /\ DeliveryInv BY TypeInit, DeliveryInit
  <1>2. TypeInv /\ DeliveryInv /\ [Next]_vars => TypeInv' /\ DeliveryInv'
    BY TypeStep, DeliveryStep
  <1>3. TypeInv /\ DeliveryInv => CompleteMeansDelivered
    <2> SUFFICES ASSUME TypeInv, DeliveryInv, NEW h \in Handlers,
                        hs[h].pc = "closing", hs[h].reason = "complete"
                 PROVE  hs[h].wire = hs[h].end - hs[h].start + 1
      BY DEF CompleteMeansDelivered
    <2>1. Sound(hs[h]) /\ InPlace(hs[h]) BY DEF DeliveryInv, Served
    <2>2. hs[h].start \in Nat /\ hs[h].end \in Nat BY ServedFacts, FieldTypes
    <2>3. Pos(hs[h]) = hs[h].end + 1 /\ hs[h].wire = Pos(hs[h]) - hs[h].start
      BY <2>1 DEF Sound, InPlace
    <2> QED BY <2>2, <2>3
  <1> QED BY <1>1, <1>2, <1>3, PTL DEF Spec

\* Each cutover of a request gets exactly one outcome toast, with any number of handlers
\* cutting over the same session: only a client that goes away leaves its last one open.
THEOREM OneToastEach == Spec => [](\A h \in Handlers : OneToastPerCutover(hs[h]))
  <1>1. Init => TypeInv /\ DeliveryInv BY TypeInit, DeliveryInit
  <1>2. TypeInv /\ DeliveryInv /\ [Next]_vars => TypeInv' /\ DeliveryInv'
    BY TypeStep, DeliveryStep
  <1>3. DeliveryInv => \A h \in Handlers : OneToastPerCutover(hs[h])
    BY DEF DeliveryInv, Served, Sound, OneToastPerCutover, One, Pending
  <1> QED BY <1>1, <1>2, <1>3, PTL DEF Spec

\* With any number of handlers cutting over the same session, a failure toast names no
\* source whose bytes reached the request: a cutover resolves or supersedes a candidate
\* only with every byte of a read accounted for.  The two exceptions are the code's.
THEOREM ToastsAreTrue == Spec => []ToastsTrue
  <1>1. Init => TypeInv /\ DeliveryInv /\ ToastInv BY TypeInit, DeliveryInit
  <1>2. TypeInv /\ DeliveryInv /\ ToastInv /\ [Next]_vars
          => TypeInv' /\ DeliveryInv' /\ ToastInv'
    BY TypeStep, DeliveryStep, ToastStep
  <1>3. DeliveryInv /\ ToastInv => ToastsTrue
    BY DEF DeliveryInv, Served, Sound, OneToastPerCutover, One, Pending,
           ToastInv, Fair, Excused, ToastsTrue, NoFalseBlame
  <1> QED BY <1>1, <1>2, <1>3, PTL DEF Spec

-----------------------------------------------------------------------------
(* Condemned sources.  What a selection probes was seen not condemned at its *)
(* beginning or at a look since, so it is not barred: that is a fact about   *)
(* its own request only, whatever the other threads condemn meanwhile.       *)

Looking == {"scan", "refresh", "probe"}

\* A handler's step that leaves the search for a candidate, or never was in one.
Rests(h) == \E t : Become(h, t) /\ t.pc \notin Looking

LEMMA ReturnRests ==
  ASSUME NEW s \in Requests, NEW res \in Results, NEW k \in Nat
  PROVE  Return(s, res, k).pc \notin Looking
  BY ReadStepPc, LadderStepPc DEF Return, Looking

LEMMA NoMatchRests ==
  ASSUME NEW h, hs[h] \in Requests, Become(h, NoMatch(hs[h]))
  PROVE  Rests(h)
  BY NoMatchPc DEF Rests, Looking

LEMMA CloseRests ==
  ASSUME NEW s \in Requests, NEW why PROVE Close(s, why).pc \notin Looking
  BY DEF Close, Requests, Looking

LEMMA RequestRests ==
  ASSUME TypeInv, NEW h \in Handlers, NEW a, NEW b, Request(h, a, b) PROVE Rests(h)
  <1>1. NewRequest(a, b).pc \notin Looking BY DEF NewRequest, Idle, Looking
  <1> QED BY <1>1 DEF Request, Rests

LEMMA PrefetchPrefixRests ==
  ASSUME TypeInv, NEW h \in Handlers, PrefetchPrefix(h) PROVE Rests(h)
  <1> DEFINE s == hs[h]
  <1>1. s \in Requests BY TypeFacts
  <1>2. PICK k : LET u == [s EXCEPT !.pc = "prelude", !.cur = @ + k, !.streamed = @ + k,
                                    !.wire = @ + k]
                 IN Become(h, IF u.cur > u.end THEN Close(u, "complete") ELSE u)
    BY DEF PrefetchPrefix
  <1> DEFINE u == [s EXCEPT !.pc = "prelude", !.cur = @ + k, !.streamed = @ + k,
                            !.wire = @ + k]
             t == IF u.cur > u.end THEN Close(u, "complete") ELSE u
  <1>3. u.pc = "prelude" /\ Close(u, "complete").pc = "closing"
    BY <1>1 DEF Close, Requests
  <1>4. t.pc \notin Looking BY <1>3 DEF Looking
  <1>5. Become(h, t) BY <1>2
  <1> HIDE DEF t
  <1> QED BY <1>4, <1>5 DEF Rests

LEMMA OpenOkRests ==
  ASSUME TypeInv, NEW h \in Handlers, OpenOk(h) PROVE Rests(h)
  <1> DEFINE s == hs[h]
             r == remote
             t == [s EXCEPT !.pc = "body", !.src = r]
  <1>1. s \in Requests /\ Become(h, t) BY TypeFacts DEF OpenOk
  <1> HIDE DEF s, r
  <1>2. t.pc = "body" BY <1>1 DEF Requests
  <1> HIDE DEF t
  <1> QED BY <1>1, <1>2 DEF Rests, Looking

LEMMA PreludeRests ==
  ASSUME TypeInv, NEW h \in Handlers, Prelude(h) PROVE Rests(h)
  <1> DEFINE s == hs[h]
  <1>1. s \in Requests /\ inRam \subseteq Sources BY TypeFacts DEF SharedOK
  <1>2. PICK k \in 0..Least(PrefixMax, s.end - Pos(s) + 1), from \in SUBSET inRam :
          LET u == IF k = 0 THEN s ELSE Put(s, from, k)
          IN Become(h, IF Pos(u) > u.end THEN Return(u, "NONE", u.w)
                       ELSE [u EXCEPT !.pc = "open"])
    BY DEF Prelude
  <1> DEFINE u == IF k = 0 THEN s ELSE Put(s, from, k)
             n == u.w
             t == IF Pos(u) > u.end THEN Return(u, "NONE", n) ELSE [u EXCEPT !.pc = "open"]
  <1>3. k \in Nat /\ from \in SUBSET Sources BY <1>1
  <1>4. u \in Requests BY <1>1, <1>3, PutTyped
  <1>5. Become(h, t) BY <1>2
  <1> HIDE DEF u
  <1>6. n \in Nat /\ "NONE" \in Results BY <1>4, FieldTypes DEF Results
  <1>7. Return(u, "NONE", n).pc \notin Looking BY <1>4, <1>6, ReturnRests
  <1>8. [u EXCEPT !.pc = "open"].pc \notin Looking BY <1>4 DEF Requests, Looking
  <1>9. t.pc \notin Looking BY <1>7, <1>8
  <1> HIDE DEF t
  <1> QED BY <1>5, <1>9 DEF Rests

LEMMA OpenFailsRests ==
  ASSUME TypeInv, NEW h \in Handlers, OpenFails(h) PROVE Rests(h)
  <1> DEFINE s == hs[h]
  <1>1. s \in Requests /\ s.w \in Nat BY TypeFacts, FieldTypes
  <1>2. PICK res \in Results, k \in {0, s.w} : Become(h, Return(s, res, k))
    BY DEF OpenFails, Results
  <1>3. Return(s, res, k).pc \notin Looking BY <1>1, ReturnRests
  <1> HIDE DEF s
  <1> QED BY <1>2, <1>3 DEF Rests

LEMMA ChunkRests ==
  ASSUME TypeInv, NEW h \in Handlers, Chunk(h) PROVE Rests(h)
  <1> DEFINE s == hs[h]
             from == {s.src}
             t == Put(s, from, 1)
  <1>1. s \in Requests /\ Become(h, t) /\ s.pc = "body" BY TypeFacts DEF Chunk
  <1> HIDE DEF from
  <1>2. t.pc = "body" BY <1>1 DEF Put, Fed, Requests
  <1> HIDE DEF t
  <1> QED BY <1>1, <1>2 DEF Rests, Looking

LEMMA BodyEndsRests ==
  ASSUME TypeInv, NEW h \in Handlers, BodyEnds(h) PROVE Rests(h)
  <1> DEFINE s == hs[h]
  <1>1. s \in Requests /\ s.w \in Nat BY TypeFacts, FieldTypes
  <1>2. PICK res \in Results : Become(h, Return(s, res, s.w)) BY DEF BodyEnds, Results
  <1>3. Return(s, res, s.w).pc \notin Looking BY <1>1, ReturnRests
  <1> HIDE DEF s
  <1> QED BY <1>2, <1>3 DEF Rests

LEMMA WatchdogRests ==
  ASSUME TypeInv, NEW h \in Handlers, Watchdog(h) PROVE Rests(h)
  <1> DEFINE s == hs[h]
             u == [s EXCEPT !.tripped = TRUE]
  <1>1. s \in Requests /\ s.w \in Nat BY TypeFacts, FieldTypes
  <1>2. \/ Become(h, Return(s, "RECOVERABLE", s.w))
        \/ Become(h, Close(u, "passthrough_stall"))
    BY DEF Watchdog
  <1> HIDE DEF s
  <1>3. u \in Requests /\ "RECOVERABLE" \in Results BY <1>1 DEF Requests, Results
  <1> HIDE DEF u
  <1>4. Return(s, "RECOVERABLE", s.w).pc \notin Looking BY <1>1, <1>3, ReturnRests
  <1>5. Close(u, "passthrough_stall").pc \notin Looking BY <1>3, CloseRests
  <1> QED BY <1>2, <1>4, <1>5 DEF Rests

LEMMA DisconnectRests ==
  ASSUME TypeInv, NEW h \in Handlers, Disconnect(h) PROVE Rests(h)
  <1> DEFINE s == hs[h]
             why == IF stallFlag THEN "passthrough_stall" ELSE "client_disconnected"
  <1>1. s \in Requests /\ s.src \in Sources /\ inRam \subseteq Sources
    BY TypeFacts, FieldTypes DEF SharedOK
  <1>2. PICK from \in SUBSET (inRam \cup {s.src}) : Become(h, Close(Fed(s, from), why))
    BY DEF Disconnect
  <1>3. from \in SUBSET Sources BY <1>1
  <1> DEFINE u == Fed(s, from)
  <1>4. u \in Requests BY <1>1, <1>3, PutTyped
  <1> HIDE DEF u, why
  <1>5. Close(u, why).pc \notin Looking BY <1>4, CloseRests
  <1>6. Become(h, Close(u, why)) BY <1>2 DEF u
  <1> QED BY <1>5, <1>6 DEF Rests

LEMMA RetryRests ==
  ASSUME TypeInv, NEW h \in Handlers, Retry(h) PROVE Rests(h)
  <1> DEFINE s == hs[h]
             a == [s EXCEPT !.pc = "after"]
             b == [s EXCEPT !.pc = "prelude", !.tries = @ + 1, !.result = "NONE"]
  <1>1. s \in Requests /\ s.result \in Results BY TypeFacts, FieldTypes
  <1>2. \/ Become(h, a) \/ Become(h, b)
        \/ Become(h, LadderDone(s, "UPSTREAM_ERROR"))
        \/ Become(h, LadderDone(s, s.result))
    BY DEF Retry
  <1>3. a.pc = "after" /\ b.pc = "prelude" BY <1>1 DEF Requests
  <1>4. "UPSTREAM_ERROR" \in Results BY DEF Results
  <1> HIDE DEF a, b, s
  <1>5. /\ LadderDone(s, "UPSTREAM_ERROR").pc \notin Looking
        /\ LadderDone(s, s.result).pc \notin Looking
    BY <1>1, <1>4, LadderDonePc DEF Looking
  <1> QED BY <1>2, <1>3, <1>5 DEF Rests, Looking

LEMMA ProgressRests ==
  ASSUME TypeInv, NEW h \in Handlers, Progress(h) PROVE Rests(h)
  <1> DEFINE s == hs[h]
             c == BumpedCount(s)
             t1 == [s EXCEPT !.pc = "stall", !.await = 0, !.falls = 0,
                             !.lastFall = -1, !.stalls = -1]
             t2 == [s EXCEPT !.await = c, !.pc = "select", !.via = "await"]
             t3 == [s EXCEPT !.await = c, !.pc = "stall"]
  <1>1. s \in Requests BY TypeFacts
  <1>2. Become(h, t1) \/ Become(h, t2) \/ Become(h, t3) BY DEF Progress
  <1> HIDE DEF s, c
  <1>3. t1.pc = "stall" /\ t2.pc = "select" /\ t3.pc = "stall" BY <1>1 DEF Requests
  <1> HIDE DEF t1, t2, t3
  <1> QED BY <1>2, <1>3 DEF Rests, Looking

LEMMA StallWaitRests ==
  ASSUME TypeInv, NEW h \in Handlers, StallWait(h) PROVE Rests(h)
  <1> DEFINE s == hs[h]
             n == IF s.stalls = -1 THEN 1 ELSE s.stalls + 1
             t == [NextPass(s) EXCEPT !.stalls = n]
  <1>1. s \in Requests BY TypeFacts
  <1>2. Become(h, Close(s, "client_disconnected")) \/ Become(h, t)
    <2>1. NextPass(s).stalls = s.stalls BY <1>1 DEF NextPass, Requests
    <2> QED BY <2>1 DEF StallWait
  <1> HIDE DEF n
  <1>3. t.pc = "prelude" BY <1>1 DEF NextPass, Requests
  <1>4. Close(s, "client_disconnected").pc \notin Looking BY <1>1, CloseRests
  <1> HIDE DEF t, s
  <1> QED BY <1>2, <1>3, <1>4 DEF Rests, Looking

LEMMA StallDoneRests ==
  ASSUME TypeInv, NEW h \in Handlers, StallDone(h) PROVE Rests(h)
  <1> DEFINE t == [hs[h] EXCEPT !.pc = "giveup"]
  <1>1. hs[h] \in Requests /\ Become(h, t) BY TypeFacts DEF StallDone
  <1>2. t.pc = "giveup" BY <1>1 DEF Requests
  <1> HIDE DEF t
  <1> QED BY <1>1, <1>2 DEF Rests, Looking

LEMMA GiveUpRests ==
  ASSUME TypeInv, NEW h \in Handlers, GiveUp(h) PROVE Rests(h)
  <1> DEFINE s == hs[h]
             t == [s EXCEPT !.pc = "skip"]
  <1>1. s \in Requests BY TypeFacts
  <1>2. PICK why : Become(h, Close(s, why)) \/ Become(h, t) BY DEF GiveUp
  <1>3. t.pc = "skip" /\ Close(s, why).pc \notin Looking
    BY <1>1, CloseRests DEF Requests
  <1> HIDE DEF t, s
  <1> QED BY <1>2, <1>3 DEF Rests, Looking

LEMMA SkipProbeRests ==
  ASSUME TypeInv, NEW h \in Handlers, SkipProbe(h) PROVE Rests(h)
  <1> DEFINE s == hs[h]
  <1>1. s \in Requests BY TypeFacts
  <1>2. PICK why, z : \/ Become(h, Close(s, why))
                     \/ Become(h, [s EXCEPT !.pc = "fill", !.gap = z])
    BY DEF SkipProbe
  <1> DEFINE t == [s EXCEPT !.pc = "fill", !.gap = z]
  <1>3. t.pc = "fill" /\ Close(s, why).pc \notin Looking
    BY <1>1, CloseRests DEF Requests
  <1>4. Become(h, Close(s, why)) \/ Become(h, t) BY <1>2
  <1> HIDE DEF t, s
  <1> QED BY <1>3, <1>4 DEF Rests, Looking

LEMMA ZeroFillRests ==
  ASSUME TypeInv, NEW h \in Handlers, ZeroFill(h) PROVE Rests(h)
  <1> DEFINE s == hs[h]
             z == s.gap
             t == [NextPass(s) EXCEPT !.wire = @ + z, !.cur = @ + z, !.skipped = @ + z,
                                      !.gap = 0]
  <1>1. s \in Requests /\ Become(h, t) BY TypeFacts DEF ZeroFill
  <1> HIDE DEF z
  <1>2. t.pc = "prelude" BY <1>1 DEF NextPass, Requests
  <1> HIDE DEF t
  <1> QED BY <1>1, <1>2 DEF Rests, Looking

LEMMA FinalizeRests ==
  ASSUME TypeInv, NEW h \in Handlers, Finalize(h) PROVE Rests(h)
  <1>1. PICK r, d, o, f : Become(h, [Idle EXCEPT !.reason = r, !.tripped = d, !.owed = o,
                                                 !.failLie = f])
    BY DEF Finalize
  <1> DEFINE t == [Idle EXCEPT !.reason = r, !.tripped = d, !.owed = o, !.failLie = f]
  <1>2. t.pc = "idle" BY DEF Idle
  <1>3. Become(h, t) BY <1>1
  <1> HIDE DEF t
  <1> QED BY <1>2, <1>3 DEF Rests, Looking

\* The candidate a probe is at, and those the search can still come back to, are not barred.
Wary(s) ==
  s.pc \in Looking =>
    /\ s.pc = "probe" => s.list[s.i] \notin s.barred
    /\ s.standby # 0 => s.list[s.standby] \notin s.barred
    /\ s.first # 0 => s.list[s.first] \notin s.barred

WaryInv == \A h \in Handlers : Wary(hs[h])

CondemnStep ==
  /\ failed \cap Range(pool) \subseteq failed'
  /\ \A h \in Handlers :
       hs[h].pc = "probe" /\ hs'[h].pc = "prelude" => remote' \notin hs[h].barred

\* Only the request that takes the step can start or end a probe.
LEMMA WaryStep ==
  ASSUME TypeInv, WaryInv, NEW h \in Handlers, NEW t, Become(h, t), Wary(t),
         failed \cap Range(pool) \subseteq failed',
         hs[h].pc = "probe" /\ t.pc = "prelude" => remote' \notin hs[h].barred
  PROVE  WaryInv' /\ CondemnStep
  <1>1. hs'[h] = t /\ \A g \in Handlers : g # h => hs'[g] = hs[g] BY OneRecord
  <1>2. \A g \in Handlers : Wary(hs'[g]) BY <1>1 DEF WaryInv
  <1>3. WaryInv' BY <1>2 DEF WaryInv, Wary, Looking
  <1>4. ASSUME NEW g \in Handlers, hs[g].pc = "probe", hs'[g].pc = "prelude"
        PROVE  remote' \notin hs[g].barred
    <2>1. g = h BY <1>1, <1>4
    <2> QED BY <1>1, <1>4, <2>1
  <1> QED BY <1>3, <1>4 DEF CondemnStep

LEMMA WaryRests ==
  ASSUME TypeInv, WaryInv, NEW h \in Handlers, Rests(h), hs[h].pc # "probe",
         failed \cap Range(pool) \subseteq failed'
  PROVE  WaryInv' /\ CondemnStep
  <1>1. PICK t : Become(h, t) /\ t.pc \notin Looking BY DEF Rests
  <1>2. Wary(t) BY <1>1 DEF Wary
  <1> QED BY <1>1, <1>2, WaryStep

\* The steps that are not about a candidate.
LEMMA RestingFacts ==
  ASSUME TypeInv, NEW h \in Handlers,
         \/ \E a, b \in 0..(N - 1) : Request(h, a, b)
         \/ PrefetchPrefix(h) \/ Prelude(h) \/ OpenOk(h) \/ OpenFails(h) \/ Chunk(h)
         \/ BodyEnds(h) \/ Watchdog(h) \/ Retry(h) \/ Progress(h) \/ StallWait(h)
         \/ StallDone(h) \/ GiveUp(h) \/ SkipProbe(h) \/ ZeroFill(h) \/ Finalize(h)
         \/ Disconnect(h)
  PROVE  /\ Rests(h) /\ hs[h].pc # "probe"
         /\ UNCHANGED <<pool, merging, failed, remote>>
  <1>1. Rests(h)
    BY RequestRests, PrefetchPrefixRests, PreludeRests, OpenOkRests, OpenFailsRests,
       ChunkRests, BodyEndsRests, WatchdogRests, RetryRests, ProgressRests, StallWaitRests,
       StallDoneRests, GiveUpRests, SkipProbeRests, ZeroFillRests, FinalizeRests,
       DisconnectRests, Zenon
  <1>2. UNCHANGED <<pool, merging, failed, remote>>
    <2>1. CASE \E a, b \in 0..(N - 1) : Request(h, a, b) BY <2>1 DEF Request, poolVars
    <2>2. CASE PrefetchPrefix(h) \/ Prelude(h) \/ OpenOk(h) \/ OpenFails(h) \/ Chunk(h)
      BY <2>2 DEF PrefetchPrefix, Prelude, OpenOk, OpenFails, Chunk, poolVars, ctxVars
    <2>3. CASE BodyEnds(h) \/ Watchdog(h) \/ Retry(h) \/ Progress(h) \/ StallWait(h)
      BY <2>3 DEF BodyEnds, Watchdog, Retry, Progress, StallWait, poolVars, ctxVars
    <2>4. CASE StallDone(h) \/ GiveUp(h) \/ SkipProbe(h) \/ ZeroFill(h) \/ Finalize(h)
               \/ Disconnect(h)
      BY <2>4 DEF StallDone, GiveUp, SkipProbe, ZeroFill, Finalize, Disconnect, poolVars,
                  ctxVars
    <2> QED BY <2>1, <2>2, <2>3, <2>4
  <1>3. hs[h].pc # "probe"
    <2>1. CASE \E a, b \in 0..(N - 1) : Request(h, a, b) BY <2>1 DEF Request
    <2>2. CASE PrefetchPrefix(h) \/ Prelude(h) \/ OpenOk(h) \/ OpenFails(h) \/ Chunk(h)
      BY <2>2 DEF PrefetchPrefix, Prelude, OpenOk, OpenFails, Chunk
    <2>3. CASE BodyEnds(h) \/ Watchdog(h) \/ Retry(h) \/ Progress(h) \/ StallWait(h)
      BY <2>3 DEF BodyEnds, Watchdog, Retry, Progress, StallWait
    <2>4. CASE StallDone(h) \/ GiveUp(h) \/ SkipProbe(h) \/ ZeroFill(h) \/ Finalize(h)
               \/ Disconnect(h)
      BY <2>4 DEF StallDone, GiveUp, SkipProbe, ZeroFill, Finalize, Disconnect
    <2> QED BY <2>1, <2>2, <2>3, <2>4
  <1> QED BY <1>1, <1>2, <1>3


LEMMA RestingWary ==
  ASSUME TypeInv, WaryInv, NEW h \in Handlers,
         \/ \E a, b \in 0..(N - 1) : Request(h, a, b)
         \/ PrefetchPrefix(h) \/ Prelude(h) \/ OpenOk(h) \/ OpenFails(h) \/ Chunk(h)
         \/ BodyEnds(h) \/ Watchdog(h) \/ Retry(h) \/ Progress(h) \/ StallWait(h)
         \/ StallDone(h) \/ GiveUp(h) \/ SkipProbe(h) \/ ZeroFill(h) \/ Finalize(h)
         \/ Disconnect(h)
  PROVE  WaryInv' /\ CondemnStep
  <1>1. Rests(h) /\ hs[h].pc # "probe" /\ UNCHANGED failed BY RestingFacts
  <1> QED BY <1>1, WaryRests

\* The selection bars what is condemned as it begins.
LEMMA SelectWary ==
  ASSUME TypeInv, WaryInv, NEW h \in Handlers, Select(h)
  PROVE  WaryInv' /\ CondemnStep
  <1> DEFINE s == hs[h]
             ok == Selectable
             i == Lowest(ok)
             at == IF pool[i] \in resolved THEN [first |-> i, i |-> i, standby |-> 0]
                   ELSE [first |-> 0, i |-> i + 1, standby |-> i]
             f == at.first
             n == at.i
             b == at.standby
             p == pool
             r == remote
             x == failed
             t == [s EXCEPT !.pc = "scan", !.list = p, !.first = f, !.i = n,
                            !.standby = b, !.prim = r, !.barred = x]
  <1>1. s \in Requests /\ s.pc = "select" /\ pool \in Seq(Sources)
    BY TypeFacts DEF Select, SharedOK
  <1>2. Become(h, NoMatch(s)) \/ (ok # {} /\ Become(h, t)) BY DEF Select
  <1>3. UNCHANGED failed BY DEF Select, poolVars
  <1>4. CASE Become(h, NoMatch(s)) BY <1>1, <1>3, <1>4, NoMatchRests, WaryRests
  <1>5. CASE ok # {} /\ Become(h, t)
    <2>1. ok \in SUBSET Nat BY <1>1 DEF Selectable
    <2>2. i \in ok BY <1>5, <2>1, LowestIn
    <2>3. p[i] \notin x BY <2>2 DEF Selectable
    <2>4. f \in {0, i} /\ b \in {0, i}
      <3>1. CASE pool[i] \in resolved BY <3>1
      <3>2. CASE pool[i] \notin resolved BY <3>2
      <3> QED BY <3>1, <3>2
    <2>5. Become(h, t) BY <1>5
    <2> HIDE DEF s, f, n, b, p, r, x, i
    <2>6. /\ t.pc = "scan" /\ t.list = p /\ t.first = f /\ t.standby = b /\ t.barred = x
      BY <1>1 DEF Requests
    <2> HIDE DEF t
    <2>7. Wary(t) BY <2>3, <2>4, <2>6 DEF Wary
    <2> QED BY <1>3, <2>5, <2>6, <2>7, WaryStep
  <1> QED BY <1>2, <1>4, <1>5

\* The first pass moves to a candidate it just saw not condemned, or saw so at its start.
LEMMA ScanWary ==
  ASSUME TypeInv, WaryInv, NEW h \in Handlers, Scan(h)
  PROVE  WaryInv' /\ CondemnStep
  <1> DEFINE s == hs[h]
             l == Look(s)
             rest == s.i..Len(s.list)
             fit == { j \in rest : Live(s, j) /\ ~Unfit(s, j) }
             seen == IF fit = {} THEN rest ELSE s.i..(Lowest(fit) - 1)
             waiting == { j \in seen : s.list[j] \notin resolved \cup failed }
             first == IF s.standby # 0 \/ waiting = {} THEN s.standby ELSE Lowest(waiting)
             n == Lowest(fit)
             bad == { j \in seen : Live(s, j) /\ Unfit(s, j) }
             tp == [l EXCEPT !.pc = "probe", !.pass = "scan", !.i = n, !.standby = first]
             tr == [l EXCEPT !.pc = "refresh", !.i = first, !.standby = first]
             none == NoMatch(s)
  <1>1. s \in Requests /\ s.pc = "scan" /\ Wary(s) BY TypeFacts DEF Scan, WaryInv
  <1>2. /\ failed' = failed \cup { s.list[j] : j \in bad }
        /\ Become(h, CASE fit # {} -> tp
                       [] fit = {} /\ first # 0 -> tr
                       [] OTHER -> none)
    BY DEF Scan
  <1>3. failed \subseteq failed' BY <1>2
  <1>4. /\ s.i \in Nat \ {0} /\ Len(s.list) \in Nat /\ s.standby \in Nat
    BY <1>1, FieldTypes DEF Positions
  <1>5. /\ l \in Requests /\ l.list = s.list /\ l.first = s.first
        /\ l.barred = s.barred \cap failed
    BY <1>1, LookTyped
  <1>6. /\ (s.standby # 0 => s.list[s.standby] \notin s.barred)
        /\ (s.first # 0 => s.list[s.first] \notin s.barred)
    BY <1>1 DEF Wary, Looking
  <1>7. fit \in SUBSET Nat /\ fit \subseteq rest BY <1>4
  <1>8. fit # {} => n \in fit
    <2> HIDE DEF fit
    <2> QED BY <1>7, LowestIn
  <1>9. fit # {} => s.list[n] \notin l.barred
    <2> SUFFICES ASSUME fit # {} PROVE s.list[n] \notin l.barred OBVIOUS
    <2>1. s.list[n] \notin failed \/ n = s.first BY <1>8 DEF Live
    <2>2. n # 0
      <3>1. n \in rest BY <1>7, <1>8
      <3> HIDE DEF n
      <3> QED BY <1>4, <3>1
    <2> HIDE DEF n, l
    <2> QED BY <1>5, <1>6, <2>1, <2>2
  <1>10. seen \in SUBSET Nat
    <2>1. fit # {} => n \in Nat BY <1>7, <1>8
    <2>2. fit # {} => seen = s.i..(n - 1) OBVIOUS
    <2>3. fit = {} => seen = rest OBVIOUS
    <2> HIDE DEF seen, fit, n
    <2> QED BY <1>4, <2>1, <2>2, <2>3
  <1>11. first # 0 => s.list[first] \notin l.barred
    <2>1. CASE s.standby # 0 \/ waiting = {}
      <3>1. first = s.standby BY <2>1
      <3> HIDE DEF first, l
      <3> QED BY <1>5, <1>6, <3>1
    <2>2. CASE ~(s.standby # 0 \/ waiting = {})
      <3>1. first = Lowest(waiting) BY <2>2
      <3>2. waiting \in SUBSET Nat BY <1>10
      <3>3. first \in waiting BY <2>2, <3>1, <3>2, LowestIn
      <3>4. s.list[first] \notin failed BY <3>3
      <3> HIDE DEF first, l
      <3> QED BY <1>5, <3>4
    <2> QED BY <2>1, <2>2
  <1> HIDE DEF seen, fit, waiting
  <1>12. Become(h, none) \/ (fit # {} /\ Become(h, tp)) \/ (first # 0 /\ Become(h, tr))
    <2> HIDE DEF tp, tr, none, first
    <2> QED BY <1>2
  <1> HIDE DEF n, first
  <1>13. CASE Become(h, none) BY <1>1, <1>3, <1>13, NoMatchRests, WaryRests
  <1>14. CASE fit # {} /\ Become(h, tp)
    <2> HIDE DEF l, s
    <2>1. /\ tp.pc = "probe" /\ tp.i = n /\ tp.standby = first /\ tp.list = s.list
          /\ tp.first = s.first /\ tp.barred = l.barred
      BY <1>5 DEF Requests
    <2> HIDE DEF tp
    <2>2. Wary(tp) BY <1>5, <1>6, <1>9, <1>11, <1>14, <2>1 DEF Wary
    <2>3. hs[h].pc # "probe" BY <1>1 DEF s
    <2> QED BY <1>3, <1>14, <2>2, <2>3, WaryStep
  <1>15. CASE first # 0 /\ Become(h, tr)
    <2> HIDE DEF l, s
    <2>1. /\ tr.pc = "refresh" /\ tr.i = first /\ tr.standby = first /\ tr.list = s.list
          /\ tr.first = s.first /\ tr.barred = l.barred
      BY <1>5 DEF Requests
    <2> HIDE DEF tr
    <2>2. Wary(tr) BY <1>5, <1>6, <1>11, <2>1 DEF Wary
    <2>3. hs[h].pc # "probe" BY <1>1 DEF s
    <2> QED BY <1>3, <1>15, <2>2, <2>3, WaryStep
  <1> QED BY <1>12, <1>13, <1>14, <1>15

LEMMA RefreshWary ==
  ASSUME TypeInv, WaryInv, NEW h \in Handlers, Refresh(h)
  PROVE  WaryInv' /\ CondemnStep
  <1> DEFINE s == hs[h]
             l == Look(s)
             q == s.list
             todo == { k \in s.i..Len(q) : k = s.standby \/ q[k] \notin resolved \cup failed }
             j == Lowest(todo)
             c == q[j]
             n == j + 1
             r == remote
             t1 == [l EXCEPT !.i = n]
             t2 == [l EXCEPT !.pc = "probe", !.pass = "refresh", !.i = j, !.prim = r]
             none == NoMatch(s)
  <1>1. s \in Requests /\ s.pc = "refresh" /\ Wary(s) BY TypeFacts DEF Refresh, WaryInv
  <1>2. /\ s.i \in Nat \ {0} /\ Len(q) \in Nat /\ s.standby \in Nat
    BY <1>1, FieldTypes DEF Positions
  <1>3. /\ l \in Requests /\ l.list = s.list /\ l.first = s.first /\ l.pc = s.pc
        /\ l.standby = s.standby /\ l.barred = s.barred \cap failed
    BY <1>1, LookTyped
  <1>4. /\ (s.standby # 0 => s.list[s.standby] \notin s.barred)
        /\ (s.first # 0 => s.list[s.first] \notin s.barred)
    BY <1>1 DEF Wary, Looking
  <1>5. todo # {} => q[j] \notin l.barred
    <2>1. todo \in SUBSET Nat BY <1>2
    <2>2. todo # {} => j \in todo BY <2>1, LowestIn
    <2>3. todo # {} => j # 0 /\ (j = s.standby \/ q[j] \notin failed)
      <3>1. ASSUME NEW k \in todo
            PROVE  k \in s.i..Len(q) /\ (k = s.standby \/ q[k] \notin failed)
        OBVIOUS
      <3> HIDE DEF todo, q, s, j
      <3>2. ASSUME NEW k \in todo PROVE k # 0 BY <1>2, <3>1
      <3> QED BY <2>2, <3>1, <3>2
    <2>4. todo # {} => q[j] \notin failed \/ q[j] \notin s.barred
      <3>1. q = s.list OBVIOUS
      <3> HIDE DEF todo, j, q, s
      <3> QED BY <1>4, <2>3, <3>1
    <2> HIDE DEF todo, j, l, q, s
    <2> QED BY <1>3, <2>4
  <1>6. /\ \/ Become(h, none)
           \/ Become(h, t1)
           \/ todo # {} /\ Become(h, t2)
        /\ failed \subseteq failed'
    <2>1. \/ todo = {} /\ Become(h, none) /\ UNCHANGED failed
          \/ todo # {} /\ Become(h, t1)
             /\ (UNCHANGED failed \/ Condemn(c) \/ (Blip(c) /\ failed' = failed \cup {c}))
          \/ todo # {} /\ Usable(c) /\ Become(h, t2)
      BY DEF Refresh
    <2> HIDE DEF c, t1, t2, todo, none
    <2> QED BY <2>1 DEF Condemn, Usable
  <1> HIDE DEF todo
  <1>7. CASE Become(h, none) BY <1>1, <1>6, <1>7, NoMatchRests, WaryRests
  <1>8. CASE Become(h, t1)
    <2> HIDE DEF l, s, n, q
    <2>1. /\ t1.pc = l.pc /\ t1.standby = l.standby /\ t1.list = l.list
          /\ t1.first = l.first /\ t1.barred = l.barred
      BY <1>3 DEF Requests
    <2> HIDE DEF t1
    <2>2. Wary(t1) BY <1>1, <1>3, <1>4, <2>1 DEF Wary
    <2>3. hs[h].pc # "probe" BY <1>1 DEF s
    <2> QED BY <1>6, <1>8, <2>2, <2>3, WaryStep
  <1>9. CASE todo # {} /\ Become(h, t2)
    <2>4. q = s.list OBVIOUS
    <2> HIDE DEF l, s, j, q, r
    <2>1. /\ t2.pc = "probe" /\ t2.i = j /\ t2.standby = l.standby /\ t2.list = l.list
          /\ t2.first = l.first /\ t2.barred = l.barred
      BY <1>3 DEF Requests
    <2> HIDE DEF t2
    <2>2. Wary(t2) BY <1>3, <1>4, <1>5, <1>9, <2>1, <2>4 DEF Wary
    <2>3. hs[h].pc # "probe" BY <1>1 DEF s
    <2> QED BY <1>6, <1>9, <2>2, <2>3, WaryStep
  <1> QED BY <1>6, <1>7, <1>8, <1>9

\* A match is followed without another look; what it demotes was not in the pool.
LEMMA ProbeWary ==
  ASSUME TypeInv, WaryInv, NEW h \in Handlers, Probe(h)
  PROVE  WaryInv' /\ CondemnStep
  <1> DEFINE s == hs[h]
             c == s.list[s.i]
             p == s.pass
             n == s.i + 1
             t == [s EXCEPT !.pc = p, !.i = n]
             u == BeginPending(s, c)
  <1>1. s \in Requests /\ s.pc = "probe" /\ Wary(s) BY TypeFacts DEF Probe, WaryInv
  <1>2. c \in Sources
    <2>1. s.i <= Len(s.list) BY <1>1 DEF TypeInv, ProbeInList
    <2> QED BY <1>1, <2>1, FieldTypes DEF Positions
  <1>3. c \notin s.barred /\ p \in {"scan", "refresh"}
    BY <1>1 DEF Wary, Looking, Requests
  <1>4. Activate(h, c) \/ (failed \subseteq failed' /\ Become(h, t))
    <2> HIDE DEF c, t
    <2> QED BY DEF Probe, c, t
  <1>5. CASE Activate(h, c)
    <2>1. Become(h, u) /\ remote' = c BY <1>5 DEF Activate
    <2>2. failed \cap Range(pool) \subseteq failed' BY <1>5 DEF Activate, Demotes
    <2>3. u.pc = "prelude" BY <1>1, <1>2, BeginPendingFields
    <2> HIDE DEF u
    <2>4. Wary(u) BY <2>3 DEF Wary, Looking
    <2> QED BY <1>3, <2>1, <2>2, <2>4, WaryStep
  <1>6. CASE failed \subseteq failed' /\ Become(h, t)
    <2>2. /\ (s.standby # 0 => s.list[s.standby] \notin s.barred)
          /\ (s.first # 0 => s.list[s.first] \notin s.barred)
      BY <1>1 DEF Wary, Looking
    <2>3. t.pc = p /\ t.list = s.list /\ t.standby = s.standby /\ t.first = s.first
          /\ t.barred = s.barred
      <3> HIDE DEF p, n, s
      <3> QED BY <1>1 DEF Requests
    <2> HIDE DEF t, p
    <2>4. Wary(t) BY <1>3, <2>2, <2>3 DEF Wary
    <2>5. t.pc # "prelude" BY <1>3, <2>3
    <2> QED BY <1>6, <2>4, <2>5, WaryStep
  <1> QED BY <1>4, <1>5, <1>6

LEMMA OthersWary ==
  ASSUME TypeInv, WaryInv,
         MergeCopy \/ MergeSwap \/ WarmResolve \/ WarmValidate \/ KodiAbort \/ UNCHANGED vars
  PROVE  WaryInv' /\ CondemnStep
  <1>1. UNCHANGED hs
    BY DEF MergeCopy, MergeSwap, WarmResolve, WarmValidate, KodiAbort, vars
  <1>2. failed \subseteq failed'
    <2>1. CASE WarmResolve BY <2>1 DEF WarmResolve, Condemn, Usable
    <2>2. CASE MergeCopy \/ MergeSwap \/ WarmValidate \/ KodiAbort \/ UNCHANGED vars
      BY <2>2 DEF MergeCopy, MergeSwap, WarmValidate, KodiAbort, vars, poolVars
    <2> QED BY <2>1, <2>2
  <1>3. WaryInv' BY <1>1 DEF WaryInv, Wary, Looking
  <1> QED BY <1>1, <1>2, <1>3 DEF CondemnStep

\* A source that is condemned stays so while the list holds it, and no selection moves the
\* session to one that was condemned all along: for any number of requests that select,
\* condemn and demote at the same time, and whatever is pushed and warmed meanwhile.
THEOREM CondemnedStays == Spec => CondemnedForGood
  <1>1. Init => TypeInv /\ WaryInv
    <2> SUFFICES ASSUME Init PROVE WaryInv BY TypeInit
    <2>1. Idle.pc = "idle" BY DEF Idle
    <2> QED BY <2>1 DEF Init, WaryInv, Wary, Looking
  <1>2. TypeInv /\ WaryInv /\ [Next]_vars => WaryInv' /\ CondemnStep
    <2> SUFFICES ASSUME TypeInv, WaryInv, [Next]_vars PROVE WaryInv' /\ CondemnStep
      OBVIOUS
    <2>1. ASSUME NEW h \in Handlers,
                 (\E a, b \in 0..(N - 1) : Request(h, a, b)) \/ HandlerStep(h) \/ Disconnect(h)
          PROVE  WaryInv' /\ CondemnStep
      <3>1. CASE Select(h) BY <3>1, SelectWary
      <3>2. CASE Scan(h) BY <3>2, ScanWary
      <3>3. CASE Refresh(h) BY <3>3, RefreshWary
      <3>4. CASE Probe(h) BY <3>4, ProbeWary
      <3>5. CASE ~(Select(h) \/ Scan(h) \/ Refresh(h) \/ Probe(h))
        BY <2>1, <3>5, RestingWary DEF HandlerStep
      <3> QED BY <3>1, <3>2, <3>3, <3>4, <3>5
    <2>2. CASE MergeCopy \/ MergeSwap \/ WarmResolve \/ WarmValidate \/ KodiAbort
               \/ UNCHANGED vars
      BY <2>2, OthersWary
    <2> QED BY <2>1, <2>2 DEF Next, Halted
  <1>3. TypeInv /\ [Next]_vars => TypeInv' BY TypeStep
  <1>4. CondemnStep =>
          [/\ failed \cap Range(pool) \subseteq failed'
           /\ \A h \in Handlers : hs[h].pc = "probe" /\ hs'[h].pc = "prelude"
                                    => remote' \notin hs[h].barred]_vars
    BY DEF CondemnStep
  <1> QED BY <1>1, <1>2, <1>3, <1>4, PTL DEF Spec, CondemnedForGood

-----------------------------------------------------------------------------
(* Sessions nothing is pushed to.  What the pool loses to a merge it cannot *)
(* lose here, and what is condemned is in the pool.                         *)

PooledInv ==
  /\ merging = <<>> /\ failed \subseteq Range(pool)
  /\ \A h \in Handlers : hs[h].pc \in Looking => Range(hs[h].list) \subseteq Range(pool)

LEMMA AppendKeeps ==
  ASSUME NEW q \in Seq(Sources), NEW c \in Sources PROVE Range(q) \subseteq Range(Append(q, c))
  <1> DEFINE a == Append(q, c)
  <1>1. /\ Len(q) \in Nat /\ DOMAIN q = 1..Len(q) /\ DOMAIN a = 1..(Len(q) + 1)
        /\ \A i \in 1..Len(q) : a[i] = q[i]
    BY AppendProperties, LenProperties
  <1> HIDE DEF a
  <1>2. ASSUME NEW i \in DOMAIN q PROVE i \in DOMAIN a /\ a[i] = q[i] BY <1>1
  <1>3. Range(q) \subseteq Range(a) BY <1>2 DEF Range
  <1> QED BY <1>3 DEF a

LEMMA PooledStep ==
  ASSUME TypeInv, PooledInv, NEW h \in Handlers, NEW t, Become(h, t), UNCHANGED merging,
         Range(pool) \subseteq Range(pool'), failed' \subseteq Range(pool'),
         t.pc \in Looking => Range(t.list) \subseteq Range(pool')
  PROVE  PooledInv'
  <1>1. hs'[h] = t /\ \A g \in Handlers : g # h => hs'[g] = hs[g] BY OneRecord
  <1>2. ASSUME NEW g \in Handlers, hs'[g].pc \in Looking
        PROVE  Range(hs'[g].list) \subseteq Range(pool')
    <2>1. CASE g = h BY <1>1, <1>2, <2>1
    <2>2. CASE g # h
      <3>1. hs'[g] = hs[g] BY <1>1, <2>2
      <3>2. Range(hs[g].list) \subseteq Range(pool) BY <1>2, <3>1 DEF PooledInv
      <3> QED BY <3>1, <3>2
    <2> QED BY <2>1, <2>2
  <1>3. \A g \in Handlers : hs'[g].pc \in Looking => Range(hs'[g].list) \subseteq Range(pool')
    BY <1>2
  <1> QED BY <1>3 DEF PooledInv, Looking, Range

LEMMA RestsPooled ==
  ASSUME TypeInv, PooledInv, NEW h \in Handlers, Rests(h), UNCHANGED <<pool, merging, failed>>
  PROVE  PooledInv'
  <1>1. PICK t : Become(h, t) /\ t.pc \notin Looking BY DEF Rests
  <1>2. Range(pool) \subseteq Range(pool') /\ failed' \subseteq Range(pool') BY DEF PooledInv
  <1> QED BY <1>1, <1>2, PooledStep

\* A step of the search that condemns only sources of its own list.
LEMMA SearchPooled ==
  ASSUME TypeInv, PooledInv, NEW h \in Handlers, NEW t, Become(h, t),
         hs[h].pc \in Looking, UNCHANGED <<pool, merging>>,
         failed' \subseteq failed \cup Range(hs[h].list),
         t.pc \in Looking => t.list = hs[h].list
  PROVE  PooledInv'
  <1>1. Range(hs[h].list) \subseteq Range(pool) BY DEF PooledInv
  <1>2. failed' \subseteq Range(pool) BY <1>1 DEF PooledInv
  <1>3. Range(pool') = Range(pool) OBVIOUS
  <1>4. t.pc \in Looking => Range(t.list) \subseteq Range(pool') BY <1>1, <1>3
  <1> QED BY <1>2, <1>3, <1>4, PooledStep

LEMMA SelectPooled ==
  ASSUME TypeInv, PooledInv, NEW h \in Handlers, Select(h) PROVE PooledInv'
  <1> DEFINE s == hs[h]
             p == pool
             r == remote
             x == failed
  <1>1. s \in Requests BY TypeFacts
  <1>2. PICK f, i, b :
          \/ Become(h, NoMatch(s))
          \/ Become(h, [s EXCEPT !.pc = "scan", !.list = p, !.first = f, !.i = i,
                                 !.standby = b, !.prim = r, !.barred = x])
    BY DEF Select
  <1> DEFINE t == [s EXCEPT !.pc = "scan", !.list = p, !.first = f, !.i = i,
                            !.standby = b, !.prim = r, !.barred = x]
  <1>3. UNCHANGED <<pool, merging, failed>> BY DEF Select, poolVars
  <1>4. CASE Become(h, NoMatch(s)) BY <1>1, <1>3, <1>4, NoMatchRests, RestsPooled
  <1>5. CASE Become(h, t)
    <2> HIDE DEF s, p, r, x
    <2>1. t.list = p BY <1>1 DEF Requests
    <2> HIDE DEF t
    <2>2. Range(t.list) \subseteq Range(pool') BY <1>3, <2>1 DEF p
    <2>3. Range(pool) \subseteq Range(pool') /\ failed' \subseteq Range(pool')
      BY <1>3 DEF PooledInv
    <2> QED BY <1>3, <1>5, <2>2, <2>3, PooledStep
  <1> QED BY <1>2, <1>4, <1>5

LEMMA ScanPooled ==
  ASSUME TypeInv, PooledInv, NEW h \in Handlers, Scan(h) PROVE PooledInv'
  <1> DEFINE s == hs[h]
             l == Look(s)
             rest == s.i..Len(s.list)
             fit == { j \in rest : Live(s, j) /\ ~Unfit(s, j) }
             seen == IF fit = {} THEN rest ELSE s.i..(Lowest(fit) - 1)
             waiting == { j \in seen : s.list[j] \notin resolved \cup failed }
             first == IF s.standby # 0 \/ waiting = {} THEN s.standby ELSE Lowest(waiting)
             n == Lowest(fit)
             bad == { j \in seen : Live(s, j) /\ Unfit(s, j) }
             tp == [l EXCEPT !.pc = "probe", !.pass = "scan", !.i = n, !.standby = first]
             tr == [l EXCEPT !.pc = "refresh", !.i = first, !.standby = first]
             none == NoMatch(s)
  <1>1. s \in Requests /\ s.pc = "scan" /\ s.pc \in Looking BY TypeFacts DEF Scan, Looking
  <1>2. /\ failed' = failed \cup { s.list[j] : j \in bad }
        /\ Become(h, CASE fit # {} -> tp
                       [] fit = {} /\ first # 0 -> tr
                       [] OTHER -> none)
    BY DEF Scan
  <1>3. UNCHANGED <<pool, merging>> BY DEF Scan
  <1>4. seen \subseteq DOMAIN s.list
    <2>1. /\ s.i \in Nat \ {0} /\ Len(s.list) \in Nat /\ DOMAIN s.list = 1..Len(s.list)
      BY <1>1, FieldTypes DEF Positions
    <2>2. fit \in SUBSET Nat /\ rest \subseteq 1..Len(s.list) /\ fit \subseteq rest BY <2>1
    <2> HIDE DEF fit
    <2>3. fit # {} => n \in rest BY <2>2, LowestIn
    <2> HIDE DEF n
    <2>4. fit # {} => seen = s.i..(n - 1) BY DEF n
    <2>5. fit # {} => s.i..(n - 1) \subseteq 1..Len(s.list) BY <2>1, <2>3
    <2>6. fit = {} => seen = rest OBVIOUS
    <2> HIDE DEF seen, rest
    <2> QED BY <2>1, <2>2, <2>4, <2>5, <2>6
  <1> HIDE DEF seen
  <1>5. { s.list[j] : j \in bad } \subseteq Range(s.list) BY <1>4 DEF Range
  <1>6. tp.list = s.list /\ tr.list = s.list
    <2>1. l \in Requests /\ l.list = s.list BY <1>1, LookTyped
    <2> HIDE DEF n, first, l
    <2> QED BY <2>1 DEF Requests
  <1>7. none.pc \notin Looking BY <1>1, NoMatchPc DEF Looking
  <1>8. Become(h, tp) \/ Become(h, tr) \/ Become(h, none)
    <2> HIDE DEF tp, tr, none, fit, first
    <2> QED BY <1>2
  <1>9. failed' \subseteq failed \cup Range(hs[h].list) BY <1>2, <1>5
  <1> HIDE DEF tp, tr, none
  <1> QED BY <1>1, <1>3, <1>6, <1>7, <1>8, <1>9, SearchPooled

LEMMA RefreshPooled ==
  ASSUME TypeInv, PooledInv, NEW h \in Handlers, Refresh(h) PROVE PooledInv'
  <1> DEFINE s == hs[h]
             l == Look(s)
             todo == { k \in s.i..Len(s.list) :
                         k = s.standby \/ s.list[k] \notin resolved \cup failed }
             j == Lowest(todo)
             c == s.list[j]
             n == j + 1
             r == remote
             t1 == [l EXCEPT !.i = n]
             t2 == [l EXCEPT !.pc = "probe", !.pass = "refresh", !.i = j, !.prim = r]
             none == NoMatch(s)
  <1>1. s \in Requests /\ s.pc \in Looking BY TypeFacts DEF Refresh, Looking
  <1>2. \/ failed' = failed /\ Become(h, none)
        \/ todo # {} /\ failed' \subseteq failed \cup {c} /\ (Become(h, t1) \/ Become(h, t2))
    <2>1. \/ todo = {} /\ Become(h, none) /\ UNCHANGED failed
          \/ todo # {} /\ Become(h, t1)
             /\ (UNCHANGED failed \/ Condemn(c) \/ (Blip(c) /\ failed' = failed \cup {c}))
          \/ todo # {} /\ Usable(c) /\ Become(h, t2)
      BY DEF Refresh
    <2> HIDE DEF c, t1, t2, todo, none
    <2> QED BY <2>1 DEF Condemn, Usable
  <1>3. UNCHANGED <<pool, merging>> BY DEF Refresh
  <1>4. todo # {} => c \in Range(s.list)
    <2>1. s.i \in Nat \ {0} /\ Len(s.list) \in Nat /\ DOMAIN s.list = 1..Len(s.list)
      BY <1>1, FieldTypes DEF Positions
    <2>2. todo \in SUBSET Nat /\ todo \subseteq DOMAIN s.list BY <2>1
    <2> HIDE DEF todo
    <2>3. todo # {} => j \in DOMAIN s.list BY <2>2, LowestIn
    <2> HIDE DEF j
    <2> QED BY <2>3 DEF Range
  <1>5. t1.list = s.list /\ t2.list = s.list
    <2>1. l \in Requests /\ l.list = s.list BY <1>1, LookTyped
    <2> HIDE DEF j, n, l, r
    <2> QED BY <2>1 DEF Requests
  <1>6. none.pc \notin Looking BY <1>1, NoMatchPc DEF Looking
  <1>7. failed' \subseteq failed \cup Range(hs[h].list) BY <1>2, <1>4
  <1> HIDE DEF t1, t2, none, c, todo
  <1> QED BY <1>1, <1>2, <1>3, <1>5, <1>6, <1>7, SearchPooled

LEMMA ProbePooled ==
  ASSUME TypeInv, PooledInv, NEW h \in Handlers, Probe(h) PROVE PooledInv'
  <1> DEFINE s == hs[h]
             c == s.list[s.i]
             p == s.pass
             n == s.i + 1
             t == [s EXCEPT !.pc = p, !.i = n]
             u == BeginPending(s, c)
  <1>1. s \in Requests /\ s.pc = "probe" /\ s.pc \in Looking /\ SharedOK
    BY TypeFacts DEF Probe, Looking
  <1>2. c \in Sources /\ c \in Range(s.list)
    <2>1. s.pc = "probe" => s.i <= Len(s.list) BY DEF TypeInv, ProbeInList
    <2>2. s.i \in Nat \ {0} /\ s.list \in Seq(Sources) BY <1>1, FieldTypes DEF Positions
    <2> QED BY <1>1, <2>1, <2>2 DEF Range
  <1>3. UNCHANGED merging BY DEF Probe
  <1>4. \/ Activate(h, c)
        \/ failed' \subseteq failed \cup {c} /\ Become(h, t) /\ UNCHANGED pool
    BY DEF Probe
  <1>5. CASE Activate(h, c)
    <2>1. Become(h, u) BY <1>5 DEF Activate
    <2>2. u.pc \notin Looking BY <1>1, <1>2, BeginPendingFields DEF Looking
    <2>3. /\ failed' \subseteq failed
          /\ UNCHANGED pool \/ pool' = Append(pool, remote)
      BY <1>5 DEF Activate
    <2>4. Range(pool) \subseteq Range(pool')
      <3>1. ASSUME pool' = Append(pool, remote) PROVE Range(pool) \subseteq Range(pool')
        BY <1>1, <3>1, AppendKeeps DEF SharedOK
      <3> QED BY <2>3, <3>1
    <2>5. failed' \subseteq Range(pool') BY <2>3, <2>4 DEF PooledInv
    <2> HIDE DEF u
    <2> QED BY <1>3, <2>1, <2>2, <2>4, <2>5, PooledStep
  <1>6. CASE failed' \subseteq failed \cup {c} /\ Become(h, t) /\ UNCHANGED pool
    <2>1. t.list = s.list
      <3> HIDE DEF p, n
      <3> QED BY <1>1 DEF Requests
    <2>2. failed' \subseteq failed \cup Range(hs[h].list) BY <1>2, <1>6
    <2> HIDE DEF t
    <2> QED BY <1>1, <1>3, <1>6, <2>1, <2>2, SearchPooled
  <1> QED BY <1>4, <1>5, <1>6

LEMMA PooledNext ==
  ASSUME LateSources = {}, TypeInv, PooledInv, [Next]_vars
  PROVE  PooledInv' /\ Range(pool) \subseteq Range(pool')
  <1>1. SharedOK BY DEF TypeInv, TypeOK, SharedOK
  <1>2. ~MergeCopy /\ ~MergeSwap BY DEF MergeCopy, MergeSwap, PooledInv
  <1>3. ASSUME NEW h \in Handlers,
               (\E a, b \in 0..(N - 1) : Request(h, a, b)) \/ HandlerStep(h) \/ Disconnect(h)
        PROVE  PooledInv' /\ Range(pool) \subseteq Range(pool')
    <2>1. CASE Select(h)
      BY <2>1, SelectPooled DEF Select, poolVars
    <2>2. CASE Scan(h) BY <2>2, ScanPooled DEF Scan
    <2>3. CASE Refresh(h) BY <2>3, RefreshPooled DEF Refresh
    <2>4. CASE Probe(h)
      <3>1. UNCHANGED pool \/ pool' = Append(pool, remote) BY <2>4 DEF Probe, Activate
      <3>2. ASSUME pool' = Append(pool, remote) PROVE Range(pool) \subseteq Range(pool')
        BY <1>1, <3>2, AppendKeeps DEF SharedOK
      <3> QED BY <2>4, <3>1, <3>2, ProbePooled
    <2>5. CASE ~(Select(h) \/ Scan(h) \/ Refresh(h) \/ Probe(h))
      <3>1. Rests(h) /\ UNCHANGED <<pool, merging, failed>>
        BY <1>3, <2>5, RestingFacts DEF HandlerStep
      <3> QED BY <3>1, RestsPooled
    <2> QED BY <2>1, <2>2, <2>3, <2>4, <2>5
  <1>4. CASE WarmResolve \/ WarmValidate \/ KodiAbort \/ UNCHANGED vars
    <2>1. UNCHANGED <<hs, pool, merging>>
      BY <1>4 DEF WarmResolve, WarmValidate, KodiAbort, vars, poolVars
    <2>2. failed' \subseteq failed \cup Range(pool)
      <3>1. CASE WarmResolve BY <3>1 DEF WarmResolve, Condemn, Usable
      <3>2. CASE WarmValidate \/ KodiAbort \/ UNCHANGED vars
        BY <3>2 DEF WarmValidate, KodiAbort, vars, poolVars
      <3> QED BY <1>4, <3>1, <3>2
    <2> QED BY <2>1, <2>2 DEF PooledInv, Looking, Range
  <1> QED BY <1>2, <1>3, <1>4 DEF Next, Halted

\* Without pushes no source is ever lost: only a merge that overlaps a cutover loses one.
THEOREM NothingLostUnpushed == ASSUME LateSources = {} PROVE Spec => PoolOnlyGrows
  <1>1. Init => TypeInv /\ PooledInv
    <2> SUFFICES ASSUME Init PROVE PooledInv BY TypeInit
    <2>1. Idle.pc = "idle" BY DEF Idle
    <2> QED BY <2>1 DEF Init, PooledInv, Looking
  <1>2. TypeInv /\ [Next]_vars => TypeInv' BY TypeStep
  <1>3. TypeInv /\ PooledInv /\ [Next]_vars => PooledInv' /\ Range(pool) \subseteq Range(pool')
    BY PooledNext
  <1>4. Range(pool) \subseteq Range(pool') => [Range(pool) \subseteq Range(pool')]_vars OBVIOUS
  <1> QED BY <1>1, <1>2, <1>3, <1>4, PTL DEF Spec, PoolOnlyGrows

\* ... and no condemned source is ever absolved: what is condemned is in the list, and a
\* demotion absolves only a source the list does not hold.
THEOREM NeverAbsolvedUnpushed ==
  ASSUME LateSources = {} PROVE Spec => [][failed \subseteq failed']_vars
  <1>1. Init => TypeInv /\ PooledInv
    <2> SUFFICES ASSUME Init PROVE PooledInv BY TypeInit
    <2>1. Idle.pc = "idle" BY DEF Idle
    <2> QED BY <2>1 DEF Init, PooledInv, Looking
  <1>2. TypeInv /\ [Next]_vars => TypeInv' BY TypeStep
  <1>3. TypeInv /\ PooledInv /\ [Next]_vars => PooledInv' BY PooledNext
  <1>4. PooledInv /\ [/\ failed \cap Range(pool) \subseteq failed'
                      /\ \A h \in Handlers : hs[h].pc = "probe" /\ hs'[h].pc = "prelude"
                                               => remote' \notin hs[h].barred]_vars
        => [failed \subseteq failed']_vars
    BY DEF PooledInv
  <1>5. Spec => CondemnedForGood BY CondemnedStays
  <1> QED BY <1>1, <1>2, <1>3, <1>4, <1>5, PTL DEF Spec, CondemnedForGood
=============================================================================
