------------------------------ MODULE GapConceal ------------------------------
(***************************************************************************)
(* How an unreadable gap of a Matroska file is hidden from the player      *)
(* (ebml_conceal*.py, stream_proxy_handler_conceal.py): a tracker follows  *)
(* the elements in the bytes sent; a gap is planned from its snapshot as   *)
(* Void elements that end where the file's own structure goes on; the plan *)
(* is kept for the session, and every later request of the range replays   *)
(* it.                                                                     *)
(*                                                                         *)
(* The file is its elements, each with its id, the offsets of its header,  *)
(* payload and end (NoEnd: unknown size).  A byte sent is <<"orig">> (the  *)
(* file's own), <<"zero">>, <<"track">> or <<"void", s, e>>: a header byte *)
(* of a Void over [s, e).  Headers are of HeaderLen bytes, and one of      *)
(* which a byte is lost is taken for malformed.                            *)
(***************************************************************************)
EXTENDS Integers, Sequences, FiniteSets, SequencesExt

CONSTANTS
    Files,      \* records [len, elements]
    Gaps,       \* sets of offsets that may be unreadable
    Requests, Starts,
    Chunk,      \* bytes of one upstream read
    MaxSpan,    \* _EBML_CONCEAL_MAX_SPAN
    MaxPlans    \* ConcealPlanStore's bound

NoEnd == 1000000
HeaderLen == 2
Nothing == [id |-> "nothing"]

ASSUME ConcealAssumption ==
    /\ Chunk \in Nat \ {0} /\ MaxSpan \in Nat /\ MaxPlans \in Nat \ {0} /\ Starts \subseteq Nat
    /\ \A f \in Files : f.len \in Nat /\ f.len < NoEnd
    /\ \A f \in Files : \A e \in f.elements :
          /\ e.start \in Nat /\ e.pay = e.start + HeaderLen /\ e.pay <= f.len
          /\ e.end \in e.pay..f.len \cup {NoEnd}
    /\ \A g \in Gaps : g \subseteq Nat

VARIABLES
    file, missing,
    store,      \* ConcealPlanStore: the plans, oldest first
    container,  \* _EBML_CONTAINER_KEY: FALSE once byte 0 proved to be no EBML
    rq

concealVars == <<file, missing, store, container, rq>>

Least(S) == CHOOSE x \in S : \A y \in S : x <= y

-----------------------------------------------------------------------------
(* EbmlStreamTracker: one byte at a time.                                  *)

Descends == {"segment", "cluster", "group"}
Allowed(parent, id) ==
    CASE parent = "root"    -> id \in {"ebml", "segment"}
      [] parent = "segment" -> id \in {"info", "cluster", "cues", "void"}
      [] parent = "cluster" -> id \in {"timestamp", "simple", "group", "void"}
      [] parent = "group"   -> id \in {"block", "duration", "void"}
Innermost(stack) == IF stack = <<>> THEN "root" ELSE Last(stack).id

Tracker(start) ==
    [mode |-> IF start = 0 THEN "synced" ELSE "scan", first |-> start, stack |-> <<>>,
     leaf |-> Nothing, held |-> 0, from |-> start, seen |-> FALSE, ebml |-> "unknown"]

\* _enter_scan: the first bytes of the file are no EBML, or the structure is lost.
Lost(tr, at) ==
    IF tr.ebml = "unknown" /\ tr.first = 0
    THEN [tr EXCEPT !.mode = "off", !.ebml = "no", !.stack = <<>>, !.leaf = Nothing, !.held = 0]
    ELSE [tr EXCEPT !.mode = "scan", !.from = at, !.stack = <<>>, !.leaf = Nothing, !.held = 0]

\* _pop_finished
Finished(stack, pos) ==
    LET open == {i \in DOMAIN stack : \A j \in i..Len(stack) : stack[j].end <= pos}
    IN  IF open = {} THEN stack ELSE SubSeq(stack, 1, Least(open) - 1)

\* _close_to_parent: masters of unknown size end where an element they cannot hold begins.
Parents(stack, id) ==
    {n \in 0..Len(stack) : /\ Allowed(Innermost(SubSeq(stack, 1, n)), id)
                           /\ \A j \in (n + 1)..Len(stack) :
                                 stack[j].end = NoEnd /\ ~Allowed(stack[j].id, id)}

\* _on_element, _bounds_error, _accept
OnElement(tr, e) ==
    LET ns == Parents(tr.stack, e.id)
        stack == SubSeq(tr.stack, 1, Least(ns))
        parentEnd == IF stack = <<>> THEN NoEnd ELSE Last(stack).end
        sized == e.end # NoEnd
    IN  IF ns = {} \/ (~sized /\ e.id \notin {"segment", "cluster"})
           \/ (parentEnd # NoEnd /\ e.end > parentEnd) \/ (sized /\ e.end > file.len)
        THEN Lost(tr, e.start)
        ELSE [tr EXCEPT !.held = 0,
                !.ebml = IF e.id = "ebml" /\ e.start = 0 THEN "yes" ELSE @,
                !.seen = @ \/ e.id = "cluster",
                !.leaf = IF e.id \notin Descends /\ e.end # e.pay THEN e ELSE Nothing,
                !.stack = Finished(IF e.id \in Descends THEN Append(stack, e) ELSE stack, e.pay)]

HeaderAt(s, byte) ==
    IF byte[1] = "void" /\ byte[2] = s
    THEN {[id |-> "void", start |-> s, pay |-> s + HeaderLen, end |-> byte[3]]}
    ELSE IF byte = <<"orig">> THEN {e \in file.elements : e.start = s} ELSE {}

\* feed, _feed_header
FeedSynced(tr, o, byte) ==
    LET s == o - tr.held  E == HeaderAt(s, byte)
    IN  IF tr.mode # "synced" THEN tr
        ELSE IF tr.leaf # Nothing
        THEN IF o + 1 < tr.leaf.end THEN tr
             ELSE [tr EXCEPT !.leaf = Nothing, !.stack = Finished(@, o + 1)]
        ELSE IF E = {} THEN Lost(tr, s)
        ELSE IF tr.held + 1 < HeaderLen THEN [tr EXCEPT !.held = @ + 1]
        ELSE OnElement(tr, CHOOSE e \in E : TRUE)

\* n bytes, from the offset at on.
FedSynced(tr, at, n, out) ==
    LET after[k \in 0..n] ==
            IF k = 0 THEN tr ELSE FeedSynced(after[k - 1], at + k - 1, out[at + k - 1])
    IN  after[n]

\* verify_cluster: a Cluster's header, its timestamp and the header of a second child (or
\* the Cluster's end) stand in the bytes up to o.
ClusterAt(c, bytes, o) ==
    LET intact(e) == \A x \in e.start..(e.pay - 1) : x <= o /\ bytes[x] = <<"orig">>
        stamps == {e \in file.elements : e.start = c.pay /\ e.id = "timestamp"}
    IN  /\ c.id = "cluster" /\ intact(c)
        /\ \E t \in stamps :
             /\ intact(t)
             /\ \/ t.end = c.end
                \/ \E e \in file.elements :
                     e.start = t.end /\ Allowed("cluster", e.id) /\ intact(e) /\ e.end <= c.end
                \/ \A x \in t.end..(t.end + HeaderLen - 1) :
                     x <= o /\ bytes[x][1] = "void" /\ bytes[x][2] = t.end

\* _scan_for_cluster, ClusterScanner: where Clusters stand in the bytes up to o.
ClusterStarts(from, bytes, o) ==
    {c.start : c \in {e \in file.elements : e.start >= from /\ ClusterAt(e, bytes, o)}}

\* _feed_scan: the search for the next Cluster, from which the bytes are fed again.
Feed(tr, o, out) ==
    LET found == ClusterStarts(tr.from, out, o)
        at == Least(found)
        synced == [tr EXCEPT !.mode = "synced", !.ebml = "yes", !.leaf = Nothing, !.held = 0,
                     !.stack = <<[id |-> "segment", start |-> 0, pay |-> 0, end |-> NoEnd]>>]
    IN  IF tr.mode # "scan" THEN FeedSynced(tr, o, out[o])
        ELSE IF found = {} THEN tr ELSE FedSynced(synced, at, o + 1 - at, out)

-----------------------------------------------------------------------------
(* plan_concealment.                                                       *)

NoPlan == [kind |-> "unrepaired"]
MkPlan(kind, s, e, voids, fix) ==
    [kind |-> kind, start |-> s, end |-> e, voids |-> voids, fix |-> fix]
Span(p) == p.start..(p.end - 1)
VoidOver(s, e) == IF s = e THEN {} ELSE {<<s, e>>}

\* A wrong rendering: one byte of a Void's header is written.
RenderShort(p, o) ==
    IF \E w \in p.voids : w[1] = o
    THEN LET w == CHOOSE w \in p.voids : w[1] = o IN <<"void", w[1], w[2]>>
    ELSE IF o \in p.fix THEN <<"track">> ELSE <<"zero">>

\* ConcealPlan.render
Render(p, o) ==
    LET v == {w \in p.voids : o \in w[1]..(w[1] + HeaderLen - 1)}
    IN  IF v # {} THEN LET w == CHOOSE w \in v : TRUE IN <<"void", w[1], w[2]>>
        ELSE IF o \in p.fix THEN <<"track">> ELSE <<"zero">>

\* _ebml_lookahead_find_cluster: the first Cluster that one read from there shows, if the
\* read gets so far.
Clusters(from, limit) ==
    LET bytes == [x \in 0..file.len |-> IF x \in missing THEN <<"zero">> ELSE <<"orig">>]
        stop == IF limit < file.len THEN limit ELSE file.len
        cs == ClusterStarts(from, bytes, stop - 1)
    IN  IF cs = {} \/ missing \cap (from..Least(cs)) # {} THEN {} ELSE {Least(cs)}

\* _plan_leaf, _plan_masters, _plan_resume; the plans are several only by the look-ahead,
\* which may also fail.
Plans(tr, g, gapEnd) ==
    LET ok == /\ tr.mode = "synced" /\ tr.held = 0
              /\ tr.stack # <<>> /\ tr.stack[1].id = "segment"
        leaf == tr.leaf
        fix == IF leaf # Nothing /\ leaf.id \in {"simple", "block"} /\ g = leaf.pay
                  /\ leaf.end - leaf.pay >= 4 THEN {g} ELSE {}
        b == IF leaf = Nothing THEN g ELSE leaf.end
        n == Len(tr.stack)
        \* the innermost masters that end at all: each is closed by a Void
        sized == {i \in 2..n : \A j \in i..n : tr.stack[j].end # NoEnd}
        over == {i \in sized : tr.stack[i].end >= gapEnd}
        last == IF over = {} THEN 0 ELSE CHOOSE i \in over : \A j \in over : j <= i
        start(i) == IF i = n THEN b ELSE tr.stack[i + 1].end
        voids(I) == UNION {VoidOver(start(i), tr.stack[i].end) : i \in I}
        fit(V) == \A w \in V : w[2] - w[1] >= HeaderLen      \* void_header
        up == IF sized = {} THEN b ELSE tr.stack[Least(sized)].end
        from == IF up > gapEnd THEN up ELSE gapEnd
    IN  IF ~ok \/ (leaf # Nothing /\ leaf.id \notin {"simple", "block", "timestamp", "duration",
                                                     "void"})
        THEN {NoPlan}
        ELSE IF leaf # Nothing /\ leaf.end >= gapEnd
        THEN {MkPlan("payload", g, gapEnd, {}, fix)}
        ELSE IF over # {}
        THEN LET e == tr.stack[last].end  V == voids({i \in sized : i >= last})
             IN  IF e - g > MaxSpan \/ ~fit(V) THEN {NoPlan} ELSE {MkPlan("void", g, e, V, fix)}
        ELSE IF ~tr.seen \/ from - g >= MaxSpan THEN {NoPlan}
        ELSE LET V(c) == voids(sized) \cup VoidOver(up, c)
             IN  {NoPlan} \cup {MkPlan("void", g, c, V(c), fix) :
                      c \in {c \in Clusters(from, tr.stack[1].end) : c - g <= MaxSpan /\ fit(V(c))}}

-----------------------------------------------------------------------------
(* ConcealPlanStore.                                                       *)

Stored == {store[i] : i \in DOMAIN store}
Covering(o) == {p \in Stored : o \in Span(p)}
NextStarts(o) == {p.start : p \in {q \in Stored : q.start > o}}
Overlapping(p) == {q \in Stored : p.start < q.end /\ q.start < p.end}
Added(p) == LET s == Append(store, p) IN IF Len(s) > MaxPlans THEN Tail(s) ELSE s

\* A wrong bound: the read runs on into the next plan.
BoundAtEnd(r) == rq[r].end

\* _ebml_read_bound
BoundAt(r) == LET after == NextStarts(rq[r].cur)
              IN  IF after = {} \/ Least(after) > rq[r].end THEN rq[r].end ELSE Least(after) - 1

-----------------------------------------------------------------------------
(* A request.  known: the plans stored when its bounds were last taken;    *)
(* plain: it has sent literal zeros over a gap; used: the plans it sent.   *)

Idle == [pc |-> "idle"]
Become(r, s) == rq' = [rq EXCEPT ![r] = s]

\* Bytes reach the client through the tap.
Sent(s, n, bytes) ==
    LET new == s.cur..(s.cur + n - 1)
        out == [o \in DOMAIN s.out \cup new |-> IF o \in new THEN bytes[o] ELSE s.out[o]]
        after[k \in 0..n] == IF k = 0 THEN s.tr ELSE Feed(after[k - 1], s.cur + k - 1, out)
    IN  [s EXCEPT !.out = out, !.cur = @ + n, !.tr = after[n]]
SentPlan(s, p) ==
    LET to == IF p.end <= s.end + 1 THEN p.end ELSE s.end + 1
        t == Sent(s, to - s.cur, [o \in Span(p) |-> Render(p, o)])
    IN  [t EXCEPT !.pc = IF t.cur > t.end THEN "end" ELSE "loop", !.used = @ \cup {p}]

ConcealInit ==
    /\ file \in Files
    /\ missing \in {g \in Gaps : \A o \in g : o < file.len}
    /\ store = <<>> /\ container = TRUE
    /\ rq = [r \in Requests |-> Idle]

\* _ebml_conceal_begin
Ask(r) ==
    /\ rq[r].pc = "idle"
    /\ \E s \in Starts :
         /\ s < file.len
         /\ Become(r, [pc |-> "loop", first |-> s, cur |-> s, end |-> file.len - 1, bound |-> 0,
                       skip |-> 0, plan |-> NoPlan, out |-> <<>>, tr |-> Tracker(s),
                       tapped |-> container, known |-> {}, plain |-> FALSE, used |-> {}])
    /\ UNCHANGED <<file, missing, store, container>>

\* _serve_proxy_conceal_replay_step
Replay(r) ==
    /\ rq[r].pc = "loop"
    /\ IF Covering(rq[r].cur) # {}
       THEN Become(r, [SentPlan(rq[r], CHOOSE p \in Covering(rq[r].cur) : TRUE)
                          EXCEPT !.known = Stored])
       ELSE Become(r, [rq[r] EXCEPT !.pc = "read", !.bound = BoundAt(r), !.known = Stored])
    /\ UNCHANGED <<file, missing, store, container>>

\* _serve_proxy_read_step: a chunk of the upstream read that stops at the bound.
ReadChunk(r) ==
    /\ rq[r].pc = "read" /\ rq[r].cur \notin missing
    /\ LET s == rq[r]
           stops == {o \in s.cur..(s.cur + Chunk) : o = s.cur + Chunk \/ o = s.bound + 1
                                                    \/ o \in missing}
           t == Sent(s, Least(stops) - s.cur, [o \in 0..file.len |-> <<"orig">>])
       IN  \E pc \in {"read", "loop"} :
             /\ t.cur > s.bound => pc = "loop"      \* the read may also end early
             /\ Become(r, [t EXCEPT !.pc = IF t.cur > t.end THEN "end" ELSE pc])
    /\ UNCHANGED <<file, missing, store, container>>

\* _find_skip_offset: a later byte of the request that can be read, or none.
Skips(s) ==
    LET targets == {o \in (s.cur + 1)..s.end : o \notin missing}
    IN  IF targets = {} THEN {s.end + 1 - s.cur}
        ELSE {Least(targets) - s.cur, Least(targets) - s.cur + 1}

\* _serve_proxy_zerofill_step: the skip probe, clipped, and the plan.
PlanGap(r) ==
    /\ rq[r].pc = "read" /\ rq[r].cur \in missing
    /\ LET s == rq[r]
       IN  \E k \in Skips(s) :
             LET skip == IF k <= s.bound + 1 - s.cur THEN k ELSE s.bound + 1 - s.cur
             IN  \E p \in IF s.tapped /\ s.tr.ebml # "no" THEN Plans(s.tr, s.cur, s.cur + skip)
                          ELSE {NoPlan} :
                   Become(r, [s EXCEPT !.skip = skip, !.plan = p,
                                       !.pc = IF p = NoPlan THEN "fill" ELSE "commit"])
    /\ UNCHANGED <<file, missing, store, container>>

\* _ebml_commit_refusal, ConcealPlanStore.add, _ebml_replay_concurrent; a zero-fill budget
\* may refuse any plan.
Commit(r) ==
    /\ rq[r].pc = "commit"
    /\ LET s == rq[r]  p == s.plan
           refused == \E n \in NextStarts(s.cur) : p.end > n
       IN  \/ Become(r, [s EXCEPT !.pc = "fill"]) /\ UNCHANGED store
           \/ /\ ~refused /\ Overlapping(p) = {}
              /\ store' = Added(p)
              /\ Become(r, SentPlan(s, p))
           \/ /\ ~refused /\ Covering(s.cur) # {}
              /\ Become(r, SentPlan(s, CHOOSE q \in Covering(s.cur) : TRUE))
              /\ UNCHANGED store
    /\ UNCHANGED <<file, missing, container>>

\* _ebml_refresh_read_bound: the store is looked at again before plain zeros.
Refresh(r) ==
    /\ rq[r].pc = "fill"
    /\ LET s == [rq[r] EXCEPT !.bound = BoundAt(r), !.known = Stored]
       IN  Become(r, IF Covering(s.cur) # {} THEN [s EXCEPT !.pc = "loop"]
                     ELSE [s EXCEPT !.pc = "zeros",
                              !.skip = IF @ <= s.bound + 1 - s.cur THEN @ ELSE s.bound + 1 - s.cur])
    /\ UNCHANGED <<file, missing, store, container>>

WriteZeros(r) ==
    /\ rq[r].pc = "zeros"
    /\ LET t == Sent(rq[r], rq[r].skip, [o \in 0..file.len |-> <<"zero">>])
       IN  Become(r, [t EXCEPT !.pc = IF t.cur > t.end THEN "end" ELSE "loop", !.plain = TRUE])
    /\ UNCHANGED <<file, missing, store, container>>

\* _ebml_conceal_end: the verdict on the container is the session's.
EndConceal(r) ==
    /\ rq[r].pc = "end"
    /\ container' = (container /\ (rq[r].tapped => rq[r].tr.ebml # "no"))
    /\ Become(r, [rq[r] EXCEPT !.pc = "over"])
    /\ UNCHANGED <<file, missing, store>>

\* The articles become readable after all.
Heals ==
    /\ missing # {} /\ missing' = {}
    /\ UNCHANGED <<file, store, container, rq>>

AllServed == (\A r \in Requests : rq[r].pc = "over") /\ UNCHANGED concealVars

ConcealNext ==
    \/ Heals \/ AllServed
    \/ \E r \in Requests : \/ Ask(r) \/ Replay(r) \/ ReadChunk(r) \/ PlanGap(r) \/ Commit(r)
                           \/ Refresh(r) \/ WriteZeros(r) \/ EndConceal(r)

-----------------------------------------------------------------------------
\* From the moment a request has looked at the stored plans, every byte it sends inside one
\* of them is that plan's: a repeated range is the same bytes, whichever of two requests
\* planned the gap and whatever has become readable since.
SameStep ==
    \A r \in Requests : rq[r].pc # "idle" =>
        \A o \in DOMAIN rq'[r].out \ DOMAIN rq[r].out : \A p \in rq[r].known :
            o \in Span(p) => rq'[r].out[o] = Render(p, o)
SameBytesAgain == [][SameStep]_concealVars

Original(o) == FedSynced(Tracker(0), 0, o, [x \in 0..file.len |-> <<"orig">>])

\* A player that reads the file from its start finds it well formed, and past each repair
\* finds every element where the file has it (the Cluster of unknown size before it may be
\* another one, for its successor's header ends it) - unless plain zeros were sent, or a
\* plan that another request stored was entered in its middle.
RepairedIsReadable ==
    \A r \in Requests : rq[r].pc # "idle" =>
        LET s == rq[r] IN
        s.first = 0 /\ ~s.plain
        /\ (\A p \in s.used : \A o \in DOMAIN s.out \cap Span(p) : s.out[o] = Render(p, o))
        /\ Original(s.cur).mode = "synced" =>
            /\ s.tr.mode = "synced"
            /\ s.cur > 0 /\ s.out[s.cur - 1] = <<"orig">> =>
                 LET t == Original(s.cur)
                 IN  /\ s.tr.held = t.held
                     /\ t.held = 0 => s.tr.stack = t.stack /\ s.tr.leaf = t.leaf
=============================================================================
