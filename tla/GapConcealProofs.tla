-------------------------- MODULE GapConcealProofs --------------------------
(***************************************************************************)
(* Proofs about GapConceal, for any files, gaps, requests and chunk sizes: *)
(* a stored plan is sent as it is, a repeated range is the same bytes, and *)
(* a file that is well formed stays so to a player that reads it through   *)
(* its repairs.  GapConceal is a topic of MCDecisions, which stays with    *)
(* the one it chose: the theorems are of MCDecisions' Init and Next.       *)
(*                                                                         *)
(* The argument: the tracker of a request goes through the file like the   *)
(* file's own, or has lost its place; a plan, however the gap lies, is     *)
(* filled with Voids that end where the file's masters do; so the tracker  *)
(* that goes through it comes out in step.                                 *)
(***************************************************************************)
EXTENDS MCDecisions, TLAPS, WellFoundedInduction, SequenceTheorems

\* A step of MCDecisions keeps its topic and is a step of it.
LEMMA ConcealSteps ==
  ASSUME [Next]_vars
  PROVE  UNCHANGED topic /\ (topic = "conceal" => ConcealNext \/ UNCHANGED concealVars)
  BY DEF Next, vars

\* A set of numbers has a first one.
LEMMA First ==
  ASSUME NEW S \in SUBSET Nat, S # {}
  PROVE  \E i \in S : \A j \in S : i <= j
  <1>1. PICK i \in S : \A j \in S : ~ (<<j, i>> \in OpToRel(<, Nat))
    BY NatLessThanWellFounded, WFMin
  <1>2. \A j \in S : <<j, i>> \in OpToRel(<, Nat) <=> j < i BY DEF OpToRel
  <1>3. \A j \in S : ~ (j < i) BY <1>1, <1>2, Zenon
  <1> QED BY <1>3

\* A set of numbers up to n has a last one.
LEMMA Highest ==
  ASSUME NEW n \in Nat, NEW S \in SUBSET (1..n), S # {}
  PROVE  \E i \in S : \A j \in S : j <= i
  <1> DEFINE U == {k \in Nat : \A j \in S : j <= k}
  <1>1. U \in SUBSET Nat /\ n \in U OBVIOUS
  <1>2. PICK i \in U : \A k \in U : i <= k
    <2> HIDE DEF U
    <2> QED BY <1>1, First
  <1>3. i \in Nat /\ \A j \in S : j <= i BY <1>2
  <1>4. i \in S
    <2> SUFFICES ASSUME i \notin S PROVE FALSE OBVIOUS
    <2>1. \A j \in S : j <= i - 1 BY <1>3
    <2>2. PICK j \in S : TRUE OBVIOUS
    <2>3. i - 1 \in Nat BY <1>3, <2>1, <2>2
    <2>4. i - 1 \in U BY <2>1, <2>3
    <2>5. i <= i - 1 BY <1>2, <2>4
    <2> QED BY <1>3, <2>5
  <1> QED BY <1>3, <1>4

-----------------------------------------------------------------------------
(* What a tracker knows are elements of the file, and Voids.               *)

\* The recursions of the tracker have solutions: by the shortest run of bytes for which
\* there were none.
LEMMA FedRecursion ==
  ASSUME NEW n \in Nat, NEW tr, NEW at, NEW out
  PROVE  \E t : /\ t[0] = tr
                /\ \A k \in 1..n : t[k] = FeedSynced(t[k - 1], at + k - 1, out[at + k - 1])
                /\ FedSynced(tr, at, n, out) = t[n]
  <1> DEFINE Step(t, k) == FeedSynced(t, at + k - 1, out[at + k - 1])
             Solves(t, m) == t = [k \in 0..m |-> IF k = 0 THEN tr ELSE Step(t[k - 1], k)]
             Lacking == {m \in Nat : ~ \E t : Solves(t, m)}
  <1>4. FedSynced(tr, at, n, out) = (CHOOSE t : Solves(t, n))[n] BY Zenon DEF FedSynced
  <1>s. \A t, k : Step(t, k) = FeedSynced(t, at + k - 1, out[at + k - 1]) OBVIOUS
  <1> HIDE DEF Step
  <1>1. ASSUME Lacking # {} PROVE FALSE
    <2>1. PICK m \in Lacking : \A k \in Lacking : m <= k
      <3>1. Lacking \in SUBSET Nat OBVIOUS
      <3> HIDE DEF Lacking
      <3> QED BY <1>1, <3>1, First
    <2>2. m \in Nat /\ ~ \E t : Solves(t, m) BY <2>1
    <2>3. CASE m = 0
      <3>1. Solves([k \in 0..0 |-> tr], 0) OBVIOUS
      <3> QED BY <2>2, <2>3, <3>1
    <2>4. CASE m # 0
      <3>1. m - 1 \in Nat /\ ~ (m - 1 \in Lacking)
        <4>1. m - 1 \in Nat BY <2>2, <2>4
        <4> HIDE DEF Lacking
        <4> QED BY <2>1, <2>2, <4>1
      <3>2. PICK u : Solves(u, m - 1) BY <3>1
      <3> DEFINE v == [k \in 0..m |-> IF k = m THEN Step(u[m - 1], m) ELSE u[k]]
      <3>3. \A k \in 0..m : v[k] = IF k = 0 THEN tr ELSE Step(v[k - 1], k)
        <4> TAKE k \in 0..m
        <4>1. CASE k = m
          <5>1. v[m - 1] = u[m - 1] BY <2>2, <2>4, <3>1
          <5> QED BY <2>4, <4>1, <5>1
        <4>2. CASE k # m
          <5>1. k \in 0..(m - 1) /\ v[k] = u[k] BY <2>2, <4>2
          <5>2. CASE k = 0 BY <3>2, <5>1, <5>2
          <5>3. CASE k # 0
            <6>1. k - 1 \in 0..m /\ k - 1 # m BY <2>2, <5>1, <5>3
            <6>2. v[k - 1] = u[k - 1] BY <6>1
            <6>3. u[k] = Step(u[k - 1], k) BY <3>2, <5>1, <5>3
            <6> QED BY <5>1, <5>3, <6>2, <6>3
          <5> QED BY <5>2, <5>3
        <4> QED BY <4>1, <4>2
      <3>4. v = [k \in 0..m |-> v[k]] OBVIOUS
      <3>5. Solves(v, m)
        <4> HIDE DEF v
        <4> QED BY <3>3, <3>4
      <3> QED BY <2>2, <3>5
    <2> QED BY <2>3, <2>4
  <1>2. \E t : Solves(t, n) BY <1>1
  <1> DEFINE after == CHOOSE t : Solves(t, n)
  <1>3. Solves(after, n)
    <2> HIDE DEF Solves
    <2> QED BY <1>2
  <1> HIDE DEF after
  <1>5. after[0] = tr BY <1>3
  <1>6. \A k \in 1..n : after[k] = Step(after[k - 1], k) BY <1>3
  <1> QED BY <1>4, <1>5, <1>6, <1>s DEF after

BytesSent(s, n, bytes) ==
  [o \in DOMAIN s.out \cup s.cur..(s.cur + n - 1) |->
     IF o \in s.cur..(s.cur + n - 1) THEN bytes[o] ELSE s.out[o]]
Onward(s, n, out, tr) == [s EXCEPT !.out = out, !.cur = @ + n, !.tr = tr]

\* Likewise of the tap: the bytes are fed one by one.
LEMMA SentRecursion ==
  ASSUME NEW n \in Nat, NEW s, NEW bytes
  PROVE  \E t : /\ t[0] = s.tr
                /\ \A k \in 1..n :
                      t[k] = Feed(t[k - 1], s.cur + k - 1, BytesSent(s, n, bytes))
                /\ Sent(s, n, bytes) = Onward(s, n, BytesSent(s, n, bytes), t[n])
  <1> DEFINE tr == s.tr
             out == BytesSent(s, n, bytes)
             Step(t, k) == Feed(t, s.cur + k - 1, out)
             Solves(t, m) == t = [k \in 0..m |-> IF k = 0 THEN tr ELSE Step(t[k - 1], k)]
             Lacking == {m \in Nat : ~ \E t : Solves(t, m)}
  <1>4. Sent(s, n, bytes) = Onward(s, n, out, (CHOOSE t : Solves(t, n))[n])
    BY Zenon DEF Sent, BytesSent, Onward
  <1>s. \A t, k : Step(t, k) = Feed(t, s.cur + k - 1, out) OBVIOUS
  <1> HIDE DEF Step, tr, out
  <1>1. ASSUME Lacking # {} PROVE FALSE
    <2>1. PICK m \in Lacking : \A k \in Lacking : m <= k
      <3>1. Lacking \in SUBSET Nat OBVIOUS
      <3> HIDE DEF Lacking
      <3> QED BY <1>1, <3>1, First
    <2>2. m \in Nat /\ ~ \E t : Solves(t, m) BY <2>1
    <2>3. CASE m = 0
      <3>1. Solves([k \in 0..0 |-> tr], 0) OBVIOUS
      <3> QED BY <2>2, <2>3, <3>1
    <2>4. CASE m # 0
      <3>1. m - 1 \in Nat /\ ~ (m - 1 \in Lacking)
        <4>1. m - 1 \in Nat BY <2>2, <2>4
        <4> HIDE DEF Lacking
        <4> QED BY <2>1, <2>2, <4>1
      <3>2. PICK u : Solves(u, m - 1) BY <3>1
      <3> DEFINE v == [k \in 0..m |-> IF k = m THEN Step(u[m - 1], m) ELSE u[k]]
      <3>3. \A k \in 0..m : v[k] = IF k = 0 THEN tr ELSE Step(v[k - 1], k)
        <4> TAKE k \in 0..m
        <4>1. CASE k = m
          <5>1. v[m - 1] = u[m - 1] BY <2>2, <2>4, <3>1
          <5> QED BY <2>4, <4>1, <5>1
        <4>2. CASE k # m
          <5>1. k \in 0..(m - 1) /\ v[k] = u[k] BY <2>2, <4>2
          <5>2. CASE k = 0 BY <3>2, <5>1, <5>2
          <5>3. CASE k # 0
            <6>1. k - 1 \in 0..m /\ k - 1 # m BY <2>2, <5>1, <5>3
            <6>2. v[k - 1] = u[k - 1] BY <6>1
            <6>3. u[k] = Step(u[k - 1], k) BY <3>2, <5>1, <5>3
            <6> QED BY <5>1, <5>3, <6>2, <6>3
          <5> QED BY <5>2, <5>3
        <4> QED BY <4>1, <4>2
      <3>4. v = [k \in 0..m |-> v[k]] OBVIOUS
      <3>5. Solves(v, m)
        <4> HIDE DEF v
        <4> QED BY <3>3, <3>4
      <3> QED BY <2>2, <3>5
    <2> QED BY <2>3, <2>4
  <1>2. \E t : Solves(t, n) BY <1>1
  <1> DEFINE after == CHOOSE t : Solves(t, n)
  <1>3. Solves(after, n)
    <2> HIDE DEF Solves
    <2> QED BY <1>2
  <1> HIDE DEF after
  <1>5. after[0] = s.tr BY <1>3 DEF tr
  <1>6. \A k \in 1..n : after[k] = Step(after[k - 1], k) BY <1>3
  <1> QED BY <1>4, <1>5, <1>6, <1>s DEF after, out

Masters(f) == f.elements \cup {[id |-> "segment", start |-> 0, pay |-> 0, end |-> NoEnd]}
IsTracker(tr) ==
  {"mode", "first", "stack", "leaf", "held", "from", "seen", "ebml"} \subseteq DOMAIN tr
IsByte(byte) == byte[1] = "void" => byte[3] \in Int
\* A tracker fed with the bytes from lo to pos.
TrackerOK(f, tr, lo, pos) ==
  /\ IsTracker(tr) /\ tr.stack \in Seq(Masters(f))
  /\ tr.leaf = Nothing \/ tr.leaf.end \in Int
  /\ tr.held \in Nat /\ lo <= pos - tr.held /\ tr.from \in Int /\ lo <= tr.from

LEMMA LeastIs ==
  ASSUME NEW S \in SUBSET Nat, S # {}
  PROVE  Least(S) \in S /\ \A y \in S : Least(S) <= y
  <1>1. \E x \in S : \A y \in S : x <= y BY First
  <1> QED BY <1>1 DEF Least

LEMMA FileIs ==
  ASSUME file \in Files
  PROVE  /\ file.len \in Nat /\ file.len < NoEnd
         /\ \A e \in file.elements :
               /\ e.start \in Nat /\ e.pay \in Nat /\ e.end \in Nat
               /\ e.pay = e.start + HeaderLen /\ e.pay <= e.end
               /\ e.end = NoEnd \/ e.end <= file.len
         /\ \A m \in Masters(file) :
               m.start \in Nat /\ m.pay \in Nat /\ m.end \in Nat /\ m.pay <= m.end
  <1>1. file.len \in Nat /\ file.len < NoEnd BY ConcealAssumption
  <1>2. \A e \in file.elements :
           /\ e.start \in Nat /\ e.pay \in Nat /\ e.end \in Nat
           /\ e.pay = e.start + HeaderLen /\ e.pay <= e.end
           /\ e.end = NoEnd \/ e.end <= file.len
    <2> TAKE e \in file.elements
    <2>1. /\ e.start \in Nat /\ e.pay = e.start + HeaderLen /\ e.pay <= file.len
          /\ e.end \in e.pay..file.len \cup {NoEnd}
      BY ConcealAssumption
    <2>2. e.pay \in Nat BY <2>1 DEF HeaderLen
    <2>3. CASE e.end = NoEnd
      \* The file is shorter than NoEnd, its elements start in it.
      <3> QED BY <1>1, <2>1, <2>2, <2>3, SMT DEF NoEnd, HeaderLen
    <2>4. CASE e.end \in e.pay..file.len BY <1>1, <2>1, <2>2, <2>4
    <2> QED BY <2>1, <2>3, <2>4
  <1>3. \A m \in Masters(file) : m.start \in Nat /\ m.pay \in Nat /\ m.end \in Nat /\ m.pay <= m.end
    BY <1>2, SMT DEF Masters, NoEnd
  <1> QED BY <1>1, <1>2, <1>3

LEMMA PrefixIs ==
  ASSUME NEW M, NEW stack \in Seq(M), NEW m \in 0..Len(stack)
  PROVE  /\ SubSeq(stack, 1, m) \in Seq(M) /\ Len(SubSeq(stack, 1, m)) = m
         /\ \A i \in 1..m : SubSeq(stack, 1, m)[i] = stack[i]
  <1>1. Len(stack) \in Nat /\ DOMAIN stack = 1..Len(stack) BY LenProperties
  <1>2. m \in Nat /\ m <= Len(stack) BY <1>1
  <1>3. \A i \in 1..m : stack[i] \in M BY <1>1, <1>2, ElementOfSeq
  <1> DEFINE few == SubSeq(stack, 1, m)
  <1>4. /\ few \in Seq(M) /\ Len(few) = IF 1 <= m THEN m - 1 + 1 ELSE 0
        /\ \A i \in 1..(m - 1 + 1) : few[i] = stack[1 + i - 1]
    BY <1>2, <1>3, SubSeqProperties
  <1>5. m - 1 + 1 = m /\ \A i \in 1..m : 1 + i - 1 = i BY <1>2
  <1> HIDE DEF few
  <1>6. few \in Seq(M) /\ Len(few) = m /\ \A i \in 1..m : few[i] = stack[i]
    BY <1>2, <1>4, <1>5
  <1> QED BY <1>6 DEF few

\* _pop_finished: the masters below the first of those at the top that are over.
LEMMA FinishedIs ==
  ASSUME NEW M, NEW stack \in Seq(M), NEW pos
  PROVE  \E m \in 0..Len(stack) :
           /\ Finished(stack, pos) = SubSeq(stack, 1, m)
           /\ \A j \in (m + 1)..Len(stack) : stack[j].end <= pos
           /\ m # 0 => ~(stack[m].end <= pos)
           /\ Finished(stack, pos) \in Seq(M)
  <1> DEFINE open == {i \in DOMAIN stack : \A j \in i..Len(stack) : stack[j].end <= pos}
  <1>1. Len(stack) \in Nat /\ DOMAIN stack = 1..Len(stack) BY LenProperties
  <1>2. CASE open = {}
    <2>1. Finished(stack, pos) = stack BY <1>2 DEF Finished
    <2>2. SubSeq(stack, 1, Len(stack)) = stack BY <1>1, SubSeqProperties
    <2>3. Len(stack) # 0 => ~(stack[Len(stack)].end <= pos)
      <3> SUFFICES ASSUME Len(stack) # 0, stack[Len(stack)].end <= pos PROVE FALSE OBVIOUS
      <3>1. Len(stack) \in DOMAIN stack BY <1>1
      <3>2. \A j \in Len(stack)..Len(stack) : j = Len(stack)
        <4> DEFINE n == Len(stack)
        <4>1. n \in Nat BY <1>1
        <4> HIDE DEF n
        <4>2. \A j \in n..n : j = n BY <4>1
        <4> QED BY <4>2 DEF n
      <3> QED BY <1>2, <3>1, <3>2
    <2> DEFINE m == Len(stack)
    <2>4. m \in 0..Len(stack) /\ \A j \in (m + 1)..Len(stack) : FALSE BY <1>1
    <2>5. Finished(stack, pos) = SubSeq(stack, 1, m) BY <2>1, <2>2
    <2>6. m # 0 => ~(stack[m].end <= pos) BY <2>3
    <2>7. Finished(stack, pos) \in Seq(M) BY <2>1
    <2> HIDE DEF m
    <2> QED BY <2>4, <2>5, <2>6, <2>7
  <1>3. CASE open # {}
    <2>1. open \in SUBSET Nat BY <1>1
    <2> DEFINE l == Least(open)
               m == l - 1
    <2>2. l \in open /\ \A y \in open : l <= y
      <3> HIDE DEF open
      <3> QED BY <1>3, <2>1, LeastIs
    <2>3. Finished(stack, pos) = SubSeq(stack, 1, m) BY <1>3 DEF Finished
    <2> HIDE DEF l
    <2>7. l \in 1..Len(stack) BY <1>1, <2>2
    <2>4. m \in 0..Len(stack) /\ m + 1 = l BY <1>1, <2>7
    <2> HIDE DEF m
    <2>5. \A j \in (m + 1)..Len(stack) : stack[j].end <= pos BY <2>2, <2>4
    <2>6. m # 0 => ~(stack[m].end <= pos)
      <3> SUFFICES ASSUME m # 0, stack[m].end <= pos PROVE FALSE OBVIOUS
      <3>1. \A j \in m..Len(stack) : j = m \/ j \in (m + 1)..Len(stack) BY <1>1, <2>4
      <3>2. m \in open BY <1>1, <2>4, <2>5, <3>1
      <3> HIDE DEF open
      <3>3. m + 1 <= m BY <2>2, <2>4, <3>2
      <3> QED BY <1>1, <2>4, <3>3
    <2> QED BY <2>3, <2>4, <2>5, <2>6, PrefixIs
  <1> QED BY <1>2, <1>3

\* The element whose header ends with a byte.
LEMMA HeaderIs ==
  ASSUME file \in Files, NEW s, NEW byte, IsByte(byte), NEW e \in HeaderAt(s, byte)
  PROVE  e.start = s /\ e.end \in Int /\ (e.id \in Descends => e \in file.elements)
  BY FileIs DEF HeaderAt, IsByte, Descends

LEMMA LostOK ==
  ASSUME NEW lo \in Int, NEW pos \in Int, NEW at \in Int, lo <= pos, lo <= at,
         NEW tr, IsTracker(tr),         tr.from \in Int, lo <= tr.from
  PROVE  TrackerOK(file, Lost(tr, at), lo, pos)
  BY DEF TrackerOK, Lost, IsTracker

LEMMA OnElementOK ==
  ASSUME NEW lo \in Int, NEW pos \in Int, NEW at \in Int, lo <= at, lo <= pos,
         NEW tr, TrackerOK(file, tr, lo, at),
         NEW e, e.start \in Int, lo <= e.start, e.end \in Int,
         e.id \in Descends => e \in file.elements
  PROVE  TrackerOK(file, OnElement(tr, e), lo, pos)
  <1> DEFINE ns == Parents(tr.stack, e.id)
             stack == SubSeq(tr.stack, 1, Least(ns))
             parentEnd == IF stack = <<>> THEN NoEnd ELSE Last(stack).end
             sized == e.end # NoEnd
             bad == ns = {} \/ (~sized /\ e.id \notin {"segment", "cluster"})
                    \/ (parentEnd # NoEnd /\ e.end > parentEnd) \/ (sized /\ e.end > file.len)
             on == IF e.id \in Descends THEN Append(stack, e) ELSE stack
  <1>1. OnElement(tr, e) =
          IF bad THEN Lost(tr, e.start)
          ELSE [tr EXCEPT !.held = 0,
                  !.ebml = IF e.id = "ebml" /\ e.start = 0 THEN "yes" ELSE @,
                  !.seen = @ \/ e.id = "cluster",
                  !.leaf = IF e.id \notin Descends /\ e.end # e.pay THEN e ELSE Nothing,
                  !.stack = Finished(on, e.pay)]
    BY DEF OnElement
  <1>2. tr.stack \in Seq(Masters(file)) /\ IsTracker(tr) /\ tr.from \in Int /\ lo <= tr.from
    BY DEF TrackerOK
  <1>3. CASE bad BY <1>1, <1>2, <1>3, LostOK
  <1>4. CASE ~bad
    <2>1. Least(ns) \in 0..Len(tr.stack)
      <3>1. Len(tr.stack) \in Nat BY <1>2, LenProperties
      <3>2. ns \in SUBSET (0..Len(tr.stack)) BY DEF Parents
      <3>3. ns # {} BY <1>4
      <3> HIDE DEF ns
      <3>4. ns \in SUBSET Nat BY <3>1, <3>2
      <3> QED BY <3>2, <3>3, <3>4, LeastIs
    <2>2. stack \in Seq(Masters(file)) BY <1>2, <2>1, PrefixIs
    <2> HIDE DEF bad, stack
    <2>3. on \in Seq(Masters(file))
      <3>1. CASE e.id \in Descends
        <4>1. e \in Masters(file) BY <3>1 DEF Masters
        <4> QED BY <2>2, <3>1, <4>1, AppendProperties
      <3>2. CASE e.id \notin Descends BY <2>2, <3>2
      <3> QED BY <3>1, <3>2
    <2> HIDE DEF on
    <2> DEFINE q == Finished(on, e.pay)
    <2>4. q \in Seq(Masters(file)) BY <2>3, FinishedIs
    <2> HIDE DEF q
    <2>5. OnElement(tr, e) =
            [tr EXCEPT !.held = 0,
               !.ebml = IF e.id = "ebml" /\ e.start = 0 THEN "yes" ELSE @,
               !.seen = @ \/ e.id = "cluster",
               !.leaf = IF e.id \notin Descends /\ e.end # e.pay THEN e ELSE Nothing,
               !.stack = q]
      BY <1>1, <1>4 DEF q
    <2> QED BY <1>2, <2>4, <2>5 DEF TrackerOK, IsTracker
  <1> QED BY <1>3, <1>4

LEMMA FeedSyncedOK ==
  ASSUME file \in Files, NEW lo \in Int, NEW o \in Int, lo <= o, NEW tr, TrackerOK(file, tr, lo, o),
         NEW byte, IsByte(byte)
  PROVE  TrackerOK(file, FeedSynced(tr, o, byte), lo, o + 1)
  <1> DEFINE s == o - tr.held
             E == HeaderAt(s, byte)
  <1>1. /\ IsTracker(tr) /\ tr.stack \in Seq(Masters(file))
        /\ tr.leaf = Nothing \/ tr.leaf.end \in Int
        /\ tr.held \in Nat /\ lo <= s /\ tr.from \in Int /\ lo <= tr.from /\ s \in Int
    BY DEF TrackerOK
  <1>2. CASE FeedSynced(tr, o, byte) = tr BY <1>1, <1>2 DEF TrackerOK
  <1>3. CASE FeedSynced(tr, o, byte) = [tr EXCEPT !.leaf = Nothing, !.stack = Finished(@, o + 1)]
    <2> DEFINE q == Finished(tr.stack, o + 1)
    <2>1. q \in Seq(Masters(file)) BY <1>1, FinishedIs
    <2> HIDE DEF q
    <2>2. FeedSynced(tr, o, byte) = [tr EXCEPT !.leaf = Nothing, !.stack = q] BY <1>3 DEF q
    <2> QED BY <1>1, <2>1, <2>2 DEF TrackerOK, IsTracker
  <1>4. CASE FeedSynced(tr, o, byte) = Lost(tr, s) BY <1>1, <1>4, LostOK
  <1>5. CASE FeedSynced(tr, o, byte) = [tr EXCEPT !.held = @ + 1]
    BY <1>1, <1>5 DEF TrackerOK, IsTracker
  <1>6. CASE E # {} /\ FeedSynced(tr, o, byte) = OnElement(tr, CHOOSE e \in E : TRUE)
    <2> DEFINE e == CHOOSE e \in E : TRUE
    <2>1. e \in E BY <1>6
    <2>2. e.start = s /\ e.end \in Int /\ (e.id \in Descends => e \in file.elements)
      BY <2>1, HeaderIs
    <2> HIDE DEF e
    <2>3. FeedSynced(tr, o, byte) = OnElement(tr, e) BY <1>6 DEF e
    <2>4. TrackerOK(file, OnElement(tr, e), lo, o + 1) BY <1>1, <2>2, OnElementOK
    <2> QED BY <2>3, <2>4
  <1> QED BY <1>2, <1>3, <1>4, <1>5, <1>6 DEF FeedSynced

\* The same of all the bytes of a run.
LEMMA FedSyncedOK ==
  ASSUME file \in Files, NEW lo \in Int, NEW at \in Int, lo <= at,
         NEW tr, TrackerOK(file, tr, lo, at),
         NEW n \in Nat, NEW out, \A x \in at..(at + n - 1) : IsByte(out[x])
  PROVE  TrackerOK(file, FedSynced(tr, at, n, out), lo, at + n)
  <1>1. PICK t : /\ t[0] = tr
                 /\ \A k \in 1..n : t[k] = FeedSynced(t[k - 1], at + k - 1, out[at + k - 1])
                 /\ FedSynced(tr, at, n, out) = t[n]
    BY FedRecursion
  <1> DEFINE Bad == {k \in 0..n : ~TrackerOK(file, t[k], lo, at + k)}
  <1>2. ASSUME Bad # {} PROVE FALSE
    <2>1. PICK k \in Bad : \A m \in Bad : k <= m
      <3>1. Bad \in SUBSET Nat OBVIOUS
      <3> HIDE DEF Bad
      <3> QED BY <1>2, <3>1, First
    <2>2. k # 0
      <3>1. at + 0 = at OBVIOUS
      <3> QED BY <1>1, <2>1, <3>1
    <2>3. k \in 1..n /\ k - 1 \in 0..n BY <2>1, <2>2
    <2>4. ~ (k - 1 \in Bad)
      <3> HIDE DEF Bad
      <3> QED BY <2>1, <2>3
    <2> DEFINE o == at + k - 1
    <2>5. o \in Int /\ lo <= o /\ o + 1 = at + k /\ o = at + (k - 1) /\ o \in at..(at + n - 1)
      BY <2>3
    <2>6. TrackerOK(file, t[k - 1], lo, o) BY <2>3, <2>4, <2>5
    <2>7. IsByte(out[o]) BY <2>5
    <2>8. t[k] = FeedSynced(t[k - 1], o, out[o]) BY <1>1, <2>3
    <2> HIDE DEF o
    <2>9. TrackerOK(file, t[k], lo, o + 1) BY <2>5, <2>6, <2>7, <2>8, FeedSyncedOK
    <2> QED BY <2>1, <2>5, <2>9
  <1>3. n \in 0..n OBVIOUS
  <1>4. TrackerOK(file, t[n], lo, at + n) BY <1>2, <1>3
  <1> QED BY <1>1, <1>4

\* A Cluster is found where the bytes up to here hold its header.
LEMMA ClusterStartsAre ==
  ASSUME file \in Files, NEW from, NEW bytes, NEW o \in Int
  PROVE  /\ ClusterStarts(from, bytes, o) \in SUBSET Nat
         /\ \A x \in ClusterStarts(from, bytes, o) : x >= from /\ x <= o
  <1> SUFFICES ASSUME NEW x \in ClusterStarts(from, bytes, o)
               PROVE  x \in Nat /\ x >= from /\ x <= o
    OBVIOUS
  <1>1. PICK c \in file.elements : c.start >= from /\ ClusterAt(c, bytes, o) /\ x = c.start
    BY DEF ClusterStarts
  <1>2. \A y \in c.start..(c.pay - 1) : y <= o BY <1>1 DEF ClusterAt
  <1>3. c.start \in Nat /\ c.pay = c.start + HeaderLen BY <1>1, FileIs
  <1>4. c.start \in c.start..(c.pay - 1) BY <1>3 DEF HeaderLen
  <1> QED BY <1>1, <1>2, <1>3, <1>4

LEMMA FeedOK ==
  ASSUME file \in Files, NEW lo \in Int, NEW o \in Int, lo <= o, NEW tr, TrackerOK(file, tr, lo, o),
         NEW out, \A x \in lo..o : IsByte(out[x])
  PROVE  TrackerOK(file, Feed(tr, o, out), lo, o + 1)
  <1> DEFINE starts == ClusterStarts(tr.from, out, o)
             at == Least(starts)
             stack == <<[id |-> "segment", start |-> 0, pay |-> 0, end |-> NoEnd]>>
             synced == [tr EXCEPT !.mode = "synced", !.ebml = "yes", !.leaf = Nothing, !.held = 0,
                          !.stack = stack]
  <1>1. CASE tr.mode # "scan"
    <2>1. Feed(tr, o, out) = FeedSynced(tr, o, out[o]) BY <1>1 DEF Feed
    <2>2. IsByte(out[o]) BY o \in lo..o
    <2> QED BY <2>1, <2>2, FeedSyncedOK
  <1>2. CASE tr.mode = "scan" /\ starts = {}
    <2>1. Feed(tr, o, out) = tr BY <1>2 DEF Feed
    <2> QED BY <2>1 DEF TrackerOK
  <1>3. CASE tr.mode = "scan" /\ starts # {}
    <2>1. Feed(tr, o, out) = FedSynced(synced, at, o + 1 - at, out) BY <1>3 DEF Feed
    <2>2. starts \in SUBSET Nat /\ \A x \in starts : x >= tr.from /\ x <= o BY ClusterStartsAre
    <2>3. at \in starts
      <3> HIDE DEF starts
      <3> QED BY <1>3, <2>2, LeastIs
    <2>4. at \in Nat /\ at >= tr.from /\ at <= o BY <2>2, <2>3
    <2> HIDE DEF starts, at
    <2>5. IsTracker(tr) /\ tr.from \in Int /\ lo <= tr.from BY DEF TrackerOK
    <2>6. stack \in Seq(Masters(file))
      <3> DEFINE m == [id |-> "segment", start |-> 0, pay |-> 0, end |-> NoEnd]
      <3>1. m \in Masters(file) BY DEF Masters
      <3> HIDE DEF m
      <3>2. <<m>> \in Seq(Masters(file)) BY <3>1
      <3> QED BY <3>2 DEF m
    <2> HIDE DEF stack
    <2>7. TrackerOK(file, synced, lo, at) BY <2>4, <2>5, <2>6 DEF TrackerOK, IsTracker
    <2> HIDE DEF synced
    <2>8. o + 1 - at \in Nat /\ at + (o + 1 - at) = o + 1 BY <2>4
    <2>9. \A x \in at..(at + (o + 1 - at) - 1) : IsByte(out[x])
      <3>1. at + (o + 1 - at) - 1 = o BY <2>4
      <3>2. \A x \in at..o : x \in lo..o BY <2>4, <2>5
      <3> QED BY <3>1, <3>2
    <2>10. lo <= at /\ at \in Int BY <2>4, <2>5
    <2>11. TrackerOK(file, FedSynced(synced, at, o + 1 - at, out), lo, at + (o + 1 - at))
      BY <2>7, <2>8, <2>9, <2>10, FedSyncedOK
    <2> QED BY <2>1, <2>8, <2>11
  <1> QED BY <1>1, <1>2, <1>3

\* The bytes a request has sent run from its first to before the next.
SentOfRange(f, s) ==
  /\ {"pc", "first", "cur", "end", "bound", "skip", "plan", "out", "tr", "tapped", "known",
      "plain", "used"} \subseteq DOMAIN s
  /\ s.first \in Nat /\ s.cur \in Nat /\ s.first <= s.cur
  /\ DOMAIN s.out = s.first..(s.cur - 1) /\ \A o \in DOMAIN s.out : IsByte(s.out[o])
  /\ TrackerOK(f, s.tr, s.first, s.cur)

LEMMA SentOK ==
  ASSUME file \in Files, NEW s, SentOfRange(file, s), NEW n \in Nat, NEW bytes,
         \A o \in s.cur..(s.cur + n - 1) : IsByte(bytes[o])
  PROVE  /\ SentOfRange(file, Sent(s, n, bytes))
         /\ Sent(s, n, bytes).cur = s.cur + n
         /\ \A o \in DOMAIN s.out : Sent(s, n, bytes).out[o] = s.out[o]
         /\ \A o \in DOMAIN Sent(s, n, bytes).out \ DOMAIN s.out :
               o \in s.cur..(s.cur + n - 1) /\ Sent(s, n, bytes).out[o] = bytes[o]
         /\ \A f \in {"pc", "first", "end", "bound", "skip", "plan", "tapped", "known", "plain",
                      "used"} : Sent(s, n, bytes)[f] = s[f]
  <1> DEFINE new == s.cur..(s.cur + n - 1)
             out == BytesSent(s, n, bytes)
  <1>0. PICK t : /\ t[0] = s.tr
                 /\ \A k \in 1..n :
                       t[k] = Feed(t[k - 1], s.cur + k - 1, BytesSent(s, n, bytes))
                 /\ Sent(s, n, bytes) = Onward(s, n, BytesSent(s, n, bytes), t[n])
    BY SentRecursion
  <1>1. /\ t[0] = s.tr
        /\ \A k \in 1..n : t[k] = Feed(t[k - 1], s.cur + k - 1, out)
        /\ Sent(s, n, bytes) = Onward(s, n, out, t[n])
    BY <1>0
  <1>2. /\ s.first \in Nat /\ s.cur \in Nat /\ s.first <= s.cur
        /\ DOMAIN s.out = s.first..(s.cur - 1) /\ \A o \in DOMAIN s.out : IsByte(s.out[o])
        /\ TrackerOK(file, s.tr, s.first, s.cur)
    BY DEF SentOfRange
  <1>3. \A o \in DOMAIN s.out : o \in DOMAIN out /\ o \notin new /\ out[o] = s.out[o]
    BY <1>2 DEF BytesSent
  <1>4. \A o \in new : o \in DOMAIN out /\ o \notin DOMAIN s.out /\ out[o] = bytes[o]
    BY <1>2 DEF BytesSent
  <1>5. DOMAIN out = s.first..(s.cur + n - 1) BY <1>2 DEF BytesSent
  <1>6. DOMAIN out = DOMAIN s.out \cup new BY DEF BytesSent
  <1> HIDE DEF out
  <1>7. \A o \in DOMAIN out : IsByte(out[o]) BY <1>2, <1>3, <1>4, <1>6
  <1> DEFINE Bad == {k \in 0..n : ~TrackerOK(file, t[k], s.first, s.cur + k)}
  <1>8. ASSUME Bad # {} PROVE FALSE
    <2>1. PICK k \in Bad : \A m \in Bad : k <= m
      <3>1. Bad \in SUBSET Nat OBVIOUS
      <3> HIDE DEF Bad
      <3> QED BY <1>8, <3>1, First
    <2>2. k # 0
      <3>1. s.cur + 0 = s.cur BY <1>2
      <3> QED BY <1>1, <1>2, <2>1, <3>1
    <2>3. k \in 1..n /\ k - 1 \in 0..n BY <2>1, <2>2
    <2>4. ~ (k - 1 \in Bad)
      <3> HIDE DEF Bad
      <3> QED BY <2>1, <2>3
    <2> DEFINE o == s.cur + k - 1
    <2>5. o \in Int /\ s.first <= o /\ o + 1 = s.cur + k /\ o = s.cur + (k - 1)
      BY <1>2, <2>3
    <2>6. TrackerOK(file, t[k - 1], s.first, o) BY <2>3, <2>4, <2>5
    <2>7. \A x \in s.first..o : IsByte(out[x])
      <3>1. \A x \in s.first..o : x \in s.first..(s.cur + n - 1) BY <1>2, <2>3
      <3> QED BY <1>5, <1>7, <3>1
    <2>8. t[k] = Feed(t[k - 1], o, out) BY <1>1, <2>3
    <2> HIDE DEF o
    <2> DEFINE before == t[k - 1]
               lo == s.first
    <2>9. lo \in Int /\ lo <= o /\ TrackerOK(file, before, lo, o) /\ \A x \in lo..o : IsByte(out[x])
      BY <1>2, <2>5, <2>6, <2>7
    <2>10. t[k] = Feed(before, o, out) BY <2>8
    <2> HIDE DEF before, lo
    <2>11. TrackerOK(file, t[k], lo, o + 1) BY <2>5, <2>9, <2>10, FeedOK
    <2> QED BY <2>1, <2>5, <2>11 DEF lo
  <1>9. TrackerOK(file, t[n], s.first, s.cur + n) BY <1>8, n \in 0..n
  <1> HIDE DEF Bad, new
  <1> DEFINE u == Sent(s, n, bytes)
  <1>10. u = [s EXCEPT !.out = out, !.cur = s.cur + n, !.tr = t[n]] BY <1>1 DEF Onward
  <1>11. {"pc", "first", "cur", "end", "bound", "skip", "plan", "out", "tr", "tapped", "known",
          "plain", "used"} \subseteq DOMAIN s
    BY DEF SentOfRange
  <1> HIDE DEF u
  <1>12. /\ DOMAIN u = DOMAIN s /\ u.out = out /\ u.cur = s.cur + n /\ u.tr = t[n]
         /\ \A f \in {"pc", "first", "end", "bound", "skip", "plan", "tapped", "known", "plain",
                      "used"} : u[f] = s[f]
    BY <1>10, <1>11
  <1>13. u.first = s.first BY <1>12
  <1>14. SentOfRange(file, u) BY <1>2, <1>5, <1>7, <1>9, <1>11, <1>12, <1>13 DEF SentOfRange
  <1> QED BY <1>3, <1>4, <1>6, <1>12, <1>14 DEF u, new

-----------------------------------------------------------------------------
(* What is planned begins with the gap, and ends beyond it.                *)

\* What a plan is, wherever its gap lies.
PlanOK(p) ==
  /\ p # NoPlan /\ p.start \in Nat /\ p.end \in Nat /\ p.start < p.end
  /\ \A w \in p.voids : w[2] \in Int

LEMMA RenderIs ==
  ASSUME NEW p, PlanOK(p), NEW o
  PROVE  IsByte(Render(p, o))
  <1> DEFINE v == {w \in p.voids : o \in w[1]..(w[1] + HeaderLen - 1)}
             w == CHOOSE w \in v : TRUE
  <1>1. CASE v = {} BY <1>1 DEF Render, IsByte
  <1>2. CASE v # {}
    <2>1. w \in v BY <1>2
    <2>2. Render(p, o) = <<"void", w[1], w[2]>> BY <1>2 DEF Render
    <2>3. w[2] \in Int BY <2>1 DEF PlanOK
    <2> HIDE DEF w
    <2> QED BY <2>2, <2>3 DEF IsByte
  <1> QED BY <1>1, <1>2

LEMMA ClustersAre ==
  ASSUME file \in Files, NEW from, NEW limit \in Nat, NEW c \in Clusters(from, limit)
  PROVE  c \in Nat /\ c >= from
  <1> DEFINE bytes == [x \in 0..file.len |-> IF x \in missing THEN <<"zero">> ELSE <<"orig">>]
             stop == IF limit < file.len THEN limit ELSE file.len
             cs == ClusterStarts(from, bytes, stop - 1)
  <1>1. stop - 1 \in Int BY FileIs
  <1>2. cs # {} /\ c = Least(cs) BY DEF Clusters
  <1> HIDE DEF bytes, stop
  <1>3. cs \in SUBSET Nat /\ \A x \in cs : x >= from BY <1>1, ClusterStartsAre
  <1> HIDE DEF cs
  <1>4. Least(cs) \in cs BY <1>2, <1>3, LeastIs
  <1> QED BY <1>2, <1>3, <1>4

LEMMA PlansAre ==
  ASSUME file \in Files, NEW lo, NEW pos, NEW tr, TrackerOK(file, tr, lo, pos),
         NEW g \in Nat, NEW gapEnd \in Nat, g < gapEnd,
         NEW p \in Plans(tr, g, gapEnd), p # NoPlan
  PROVE  p.start = g /\ PlanOK(p)
  <1> DEFINE leaf == tr.leaf
             fix == IF leaf # Nothing /\ leaf.id \in {"simple", "block"} /\ g = leaf.pay
                       /\ leaf.end - leaf.pay >= 4 THEN {g} ELSE {}
             b == IF leaf = Nothing THEN g ELSE leaf.end
             n == Len(tr.stack)
             sized == {i \in 2..n : \A j \in i..n : tr.stack[j].end # NoEnd}
             over == {i \in sized : tr.stack[i].end >= gapEnd}
             last == IF over = {} THEN 0 ELSE CHOOSE i \in over : \A j \in over : j <= i
             start(i) == IF i = n THEN b ELSE tr.stack[i + 1].end
             voids(I) == UNION {VoidOver(start(i), tr.stack[i].end) : i \in I}
             up == IF sized = {} THEN b ELSE tr.stack[Least(sized)].end
             from == IF up > gapEnd THEN up ELSE gapEnd
             e == tr.stack[last].end
             V == voids({i \in sized : i >= last})
             W(c) == voids(sized) \cup VoidOver(up, c)
  <1>1. \/ leaf # Nothing /\ leaf.end >= gapEnd /\ p = MkPlan("payload", g, gapEnd, {}, fix)
        \/ over # {} /\ p = MkPlan("void", g, e, V, fix)
        \/ tr.stack # <<>> /\ \E c \in Clusters(from, tr.stack[1].end) :
              p = MkPlan("void", g, c, W(c), fix)
    BY Zenon DEF Plans
  <1>2. /\ tr.stack \in Seq(Masters(file)) /\ n \in Nat
        /\ \A i \in 1..n : tr.stack[i] \in Masters(file)
    <2>1. tr.stack \in Seq(Masters(file)) BY DEF TrackerOK
    <2> QED BY <2>1, LenProperties, ElementOfSeq
  <1>3. \A i \in 1..n : tr.stack[i].end \in Nat BY <1>2, FileIs
  <1>4. sized \in SUBSET (1..n) /\ over \in SUBSET (1..n) BY <1>2
  <1>5. \A I \in SUBSET (1..n) : \A w \in voids(I) : w[2] \in Int
    <2> SUFFICES ASSUME NEW I \in SUBSET (1..n), NEW w \in voids(I) PROVE w[2] \in Int
      OBVIOUS
    <2>1. PICK i \in I : w \in VoidOver(start(i), tr.stack[i].end) BY Zenon
    <2> HIDE DEF start
    <2>2. w = <<start(i), tr.stack[i].end>> BY <2>1 DEF VoidOver
    <2> QED BY <1>3, <2>2
  <1> HIDE DEF voids, fix, from, up, sized, over
  <1>6. CASE p = MkPlan("payload", g, gapEnd, {}, fix)
    BY <1>6 DEF MkPlan, PlanOK
  <1>7. CASE over # {} /\ p = MkPlan("void", g, e, V, fix)
    <2>1. last \in over
      <3>1. \E i \in over : \A j \in over : j <= i BY <1>2, <1>4, <1>7, Highest
      <3> QED BY <1>7, <3>1
    <2>2. e \in Nat /\ e >= gapEnd
      <3>1. last \in 1..n BY <1>4, <2>1
      <3>2. e >= gapEnd BY <2>1 DEF over
      <3> QED BY <1>3, <3>1, <3>2
    <2>3. {i \in sized : i >= last} \in SUBSET (1..n) BY <1>4
    <2>4. \A w \in V : w[2] \in Int BY <1>5, <2>3
    <2> HIDE DEF e, V
    <2> QED BY <1>7, <2>2, <2>4 DEF MkPlan, PlanOK
  <1>8. ASSUME tr.stack # <<>>, NEW c \in Clusters(from, tr.stack[1].end),
               p = MkPlan("void", g, c, W(c), fix)
        PROVE  p.start = g /\ PlanOK(p)
    <2>1. n # 0 BY <1>2, <1>8, EmptySeq
    <2>2. tr.stack[1].end \in Nat BY <1>2, <1>3, <2>1
    <2>3. c \in Nat /\ c >= from BY <1>8, <2>2, ClustersAre
    <2>4. c > g
      <3>1. leaf = Nothing \/ leaf.end \in Int BY DEF TrackerOK
      <3>2. up \in Int
        <4>1. b \in Int BY <3>1
        <4>2. sized # {} => Least(sized) \in 1..n
          <5>1. sized \in SUBSET Nat BY <1>2, <1>4
          <5> QED BY <1>4, <5>1, LeastIs
        <4> HIDE DEF b
        <4> QED BY <1>3, <4>1, <4>2 DEF up
      <3> QED BY <2>3, <3>2 DEF from
    <2>5. \A w \in W(c) : w[2] \in Int
      <3>1. \A w \in voids(sized) : w[2] \in Int BY <1>4, <1>5
      <3>2. \A w \in VoidOver(up, c) : w[2] = c BY DEF VoidOver
      <3> QED BY <2>3, <3>1, <3>2
    <2> HIDE DEF W
    <2> QED BY <1>8, <2>3, <2>4, <2>5 DEF MkPlan, PlanOK
  <1> QED BY <1>1, <1>6, <1>7, <1>8

\* A request and the plans it has looked at: nothing it may still read or zero below its
\* bound is planned.
Clear(s) == \A p \in s.known : p.start > s.bound \/ p.end <= s.cur
AskedOK(f, s) ==
  /\ s.pc \in {"loop", "read", "commit", "fill", "zeros", "end", "over"}
  /\ SentOfRange(f, s)
  /\ s.end = f.len - 1 /\ s.bound \in Int /\ s.skip \in Int
  /\ \A p \in s.known : PlanOK(p)
  /\ s.pc \in {"loop", "read", "commit", "fill", "zeros"} => s.cur <= s.end
  /\ s.pc \in {"read", "commit", "fill", "zeros"} =>
       s.cur <= s.bound /\ s.bound <= s.end /\ Clear(s)
  /\ s.pc = "commit" => PlanOK(s.plan) /\ s.plan.start = s.cur
  /\ s.pc \in {"commit", "fill", "zeros"} => 1 <= s.skip
  /\ s.pc = "zeros" => s.skip <= s.bound + 1 - s.cur

NoneOverlap(P) == \A p, q \in P : p = q \/ p.end <= q.start \/ q.end <= p.start
Held(st) == {st[i] : i \in DOMAIN st}
StoreOK(st) == st \in Seq(Held(st)) /\ (\A p \in Held(st) : PlanOK(p)) /\ NoneOverlap(Held(st))
Repairs ==
  /\ file \in Files /\ missing \in SUBSET Nat /\ StoreOK(store)
  /\ DOMAIN rq = Requests /\ rq = [r \in Requests |-> rq[r]]
  /\ \A r \in Requests : rq[r] = Idle \/ AskedOK(file, rq[r])

\* From s to t, what was sent inside a plan of P is that plan's.
Faithful(s, t, P) ==
  \A o \in DOMAIN t.out \ DOMAIN s.out : \A p \in P : o \in Span(p) => t.out[o] = Render(p, o)

LEMMA SentPlanOK ==
  ASSUME file \in Files, NEW s, AskedOK(file, s), s.cur <= s.end,
         NEW p, PlanOK(p), s.cur \in Span(p)
  PROVE  /\ AskedOK(file, SentPlan(s, p))
         /\ SentPlan(s, p).pc \in {"loop", "end"} /\ SentPlan(s, p).known = s.known
         /\ \A o \in DOMAIN SentPlan(s, p).out \ DOMAIN s.out :
               o \in Span(p) /\ SentPlan(s, p).out[o] = Render(p, o)
  <1> DEFINE to == IF p.end <= s.end + 1 THEN p.end ELSE s.end + 1
             n == to - s.cur
             bytes == [o \in Span(p) |-> Render(p, o)]
             t == Sent(s, n, bytes)
             u == SentPlan(s, p)
  <1>1. SentOfRange(file, s) /\ s.cur \in Nat /\ s.end \in Int
    BY FileIs DEF AskedOK, SentOfRange
  <1>2. p.start \in Nat /\ p.end \in Nat /\ p.start <= s.cur /\ s.cur < p.end
    BY DEF PlanOK, Span
  <1>3. n \in Nat /\ \A o \in s.cur..(s.cur + n - 1) : o \in Span(p)
    BY <1>1, <1>2 DEF Span
  <1>4. \A o \in s.cur..(s.cur + n - 1) : bytes[o] = Render(p, o) BY <1>3
  <1>5. u = [t EXCEPT !.pc = IF t.cur > t.end THEN "end" ELSE "loop", !.used = @ \cup {p}]
    BY Zenon DEF SentPlan
  <1> HIDE DEF u, t, n, bytes
  <1>6. /\ SentOfRange(file, t) /\ t.cur = s.cur + n
        /\ \A o \in DOMAIN t.out \ DOMAIN s.out :
              o \in s.cur..(s.cur + n - 1) /\ t.out[o] = bytes[o]
        /\ \A f \in {"pc", "first", "end", "bound", "skip", "plan", "tapped", "known", "plain",
                     "used"} : t[f] = s[f]
    <2>1. \A o \in s.cur..(s.cur + n - 1) : IsByte(bytes[o]) BY <1>4, RenderIs
    <2> QED BY <1>1, <1>3, <2>1, SentOK DEF t
  <1>7. /\ DOMAIN u = DOMAIN t /\ u.first = t.first /\ u.cur = t.cur /\ u.out = t.out
        /\ u.tr = t.tr /\ u.end = s.end /\ u.bound = s.bound /\ u.skip = s.skip
        /\ u.known = s.known /\ u.pc = IF t.cur > t.end THEN "end" ELSE "loop"
    BY <1>5, <1>6 DEF SentOfRange
  <1>8. SentOfRange(file, u) BY <1>6, <1>7 DEF SentOfRange
  <1>9. u.pc \in {"loop", "end"} /\ (u.pc = "loop" => u.cur <= u.end)
    <2>1. t.cur \in Nat /\ t.end \in Int BY <1>1, <1>6 DEF SentOfRange
    <2>2. u.end = t.end BY <1>6, <1>7
    <2> QED BY <1>7, <2>1, <2>2
  <1>10. AskedOK(file, u) BY <1>7, <1>8, <1>9 DEF AskedOK
  <1>11. \A o \in DOMAIN u.out \ DOMAIN s.out : o \in Span(p) /\ u.out[o] = Render(p, o)
    BY <1>3, <1>4, <1>6, <1>7
  <1> QED BY <1>7, <1>9, <1>10, <1>11 DEF u

\* What is sent below the bound is in no plan.
LEMMA SentPlainOK ==
  ASSUME file \in Files, NEW s, AskedOK(file, s), s.pc \in {"read", "commit", "fill", "zeros"},
         NEW n \in Nat, n <= s.bound + 1 - s.cur, NEW bytes,
         \A o \in s.cur..(s.cur + n - 1) : IsByte(bytes[o])
  PROVE  /\ SentOfRange(file, Sent(s, n, bytes))
         /\ Sent(s, n, bytes).cur = s.cur + n
         /\ Faithful(s, Sent(s, n, bytes), s.known)
         /\ \A f \in {"pc", "first", "end", "bound", "skip", "plan", "tapped", "known", "plain",
                      "used"} : Sent(s, n, bytes)[f] = s[f]
  <1> DEFINE t == Sent(s, n, bytes)
  <1>1. SentOfRange(file, s) /\ s.cur \in Nat /\ s.bound \in Int /\ Clear(s)
        /\ \A p \in s.known : PlanOK(p)
    BY DEF AskedOK, SentOfRange
  <1>2. /\ SentOfRange(file, t) /\ t.cur = s.cur + n
        /\ \A o \in DOMAIN t.out \ DOMAIN s.out : o \in s.cur..(s.cur + n - 1)
        /\ \A f \in {"pc", "first", "end", "bound", "skip", "plan", "tapped", "known", "plain",
                     "used"} : t[f] = s[f]
    BY <1>1, SentOK
  <1> HIDE DEF t
  <1>3. ASSUME NEW o \in s.cur..(s.cur + n - 1), NEW p \in s.known, o \in Span(p) PROVE FALSE
    <2>1. p.start \in Nat /\ p.end \in Nat BY <1>1 DEF PlanOK
    <2>2. p.start <= o /\ o < p.end /\ o <= s.bound /\ s.cur <= o BY <1>1, <1>3, <2>1 DEF Span
    <2>3. p.start > s.bound \/ p.end <= s.cur BY <1>1 DEF Clear
    <2> QED BY <1>1, <2>1, <2>2, <2>3
  <1>4. Faithful(s, t, s.known) BY <1>2, <1>3 DEF Faithful
  <1> QED BY <1>2, <1>4 DEF t

\* What a request's step must keep, and what it may send.
LEMMA Covers ==
  ASSUME NEW o, Covering(o) # {}
  PROVE  LET p == CHOOSE q \in Covering(o) : TRUE IN p \in Held(store) /\ o \in Span(p)
  BY DEF Covering, Stored, Held

\* Of the plans that do not overlap, one holds a byte.
LEMMA OnePlan ==
  ASSUME NEW P, NoneOverlap(P), \A p \in P : PlanOK(p), NEW p \in P, NEW q \in P,
         NEW o, o \in Span(p), o \in Span(q)
  PROVE  p = q
  <1>1. PlanOK(p) /\ PlanOK(q) OBVIOUS
  <1> QED BY <1>1 DEF NoneOverlap, PlanOK, Span

\* _ebml_read_bound, where no plan covers.
LEMMA BoundIs ==
  ASSUME StoreOK(store), NEW r, rq[r].cur \in Nat, rq[r].end \in Int, rq[r].cur <= rq[r].end,
         Covering(rq[r].cur) = {}
  PROVE  /\ BoundAt(r) \in Int /\ rq[r].cur <= BoundAt(r) /\ BoundAt(r) <= rq[r].end
         /\ \A p \in Held(store) : p.start > BoundAt(r) \/ p.end <= rq[r].cur
  <1> DEFINE after == NextStarts(rq[r].cur)
             cur == rq[r].cur
             end == rq[r].end
  <1>1. \A p \in Held(store) : PlanOK(p) BY DEF StoreOK
  <1>2. \A x \in after : x \in Nat /\ x > cur BY <1>1 DEF NextStarts, Stored, Held, PlanOK
  <1>3. \A p \in Held(store) : p.start > cur => p.start \in after
    BY DEF NextStarts, Stored, Held
  <1>4. \A p \in Held(store) : p.start > cur \/ p.end <= cur
    <2> TAKE p \in Held(store)
    <2>1. cur \notin Span(p) BY DEF Covering, Stored, Held
    <2>2. p.start \in Nat /\ p.end \in Nat BY <1>1 DEF PlanOK
    <2> QED BY <2>1, <2>2 DEF Span
  <1>5. BoundAt(r) = IF after = {} \/ Least(after) > end THEN end ELSE Least(after) - 1
    BY DEF BoundAt
  <1> HIDE DEF after
  <1>6. after # {} => Least(after) \in after /\ \A y \in after : Least(after) <= y
    <2>1. after \in SUBSET Nat BY <1>2
    <2> QED BY <2>1, LeastIs
  <1>7. cur \in Nat /\ end \in Int /\ cur <= end OBVIOUS
  <1> HIDE DEF cur, end
  <1>8. BoundAt(r) \in Int /\ cur <= BoundAt(r) /\ BoundAt(r) <= end
    BY <1>2, <1>5, <1>6, <1>7
  <1>9. \A x \in after : x > BoundAt(r) BY <1>2, <1>5, <1>6, <1>7
  <1> QED BY <1>3, <1>4, <1>8, <1>9 DEF cur, end

LEMMA AskOK ==
  ASSUME Repairs, NEW r \in Requests, Ask(r)
  PROVE  AskedOK(file, rq'[r]) /\ rq'[r].known = {}
  <1>1. PICK s \in Starts :
          /\ s < file.len
          /\ rq' = [rq EXCEPT ![r] =
                [pc |-> "loop", first |-> s, cur |-> s, end |-> file.len - 1, bound |-> 0,
                 skip |-> 0, plan |-> NoPlan, out |-> <<>>, tr |-> Tracker(s),
                 tapped |-> container, known |-> {}, plain |-> FALSE, used |-> {}]]
    BY DEF Ask, Become
  <1> DEFINE u == rq'[r]
  <1>2. u = [pc |-> "loop", first |-> s, cur |-> s, end |-> file.len - 1, bound |-> 0,
             skip |-> 0, plan |-> NoPlan, out |-> <<>>, tr |-> Tracker(s),
             tapped |-> container, known |-> {}, plain |-> FALSE, used |-> {}]
    BY <1>1 DEF Repairs
  <1>3. s \in Nat /\ file.len \in Nat BY ConcealAssumption, FileIs DEF Repairs
  <1> HIDE DEF u
  <1>4. TrackerOK(file, Tracker(s), s, s)
    <2>1. <<>> \in Seq(Masters(file)) BY EmptySeq
    <2> QED BY <1>3, <2>1 DEF Tracker, TrackerOK, IsTracker
  <1>5. DOMAIN <<>> = s..(s - 1)
    <2>1. DOMAIN <<>> = {} OBVIOUS
    <2> QED BY <1>3, <2>1
  <1> DEFINE tr == Tracker(s)
             none == <<>>
  <1>6. u.tr = tr /\ u.out = none /\ u.first = s /\ u.cur = s /\ DOMAIN none = s..(s - 1)
    BY <1>2, <1>5
  <1> HIDE DEF tr, none
  <1>7. SentOfRange(file, u)
    <2>1. {"pc", "first", "cur", "end", "bound", "skip", "plan", "out", "tr", "tapped", "known",
           "plain", "used"} \subseteq DOMAIN u
      BY <1>2
    <2>2. \A o \in DOMAIN u.out : FALSE BY <1>3, <1>6
    <2>3. TrackerOK(file, u.tr, u.first, u.cur) BY <1>4, <1>6 DEF tr
    <2> QED BY <1>3, <1>6, <2>1, <2>2, <2>3 DEF SentOfRange
  <1>8. /\ u.pc = "loop" /\ u.end = file.len - 1 /\ u.bound = 0 /\ u.skip = 0 /\ u.known = {}
        /\ u.cur <= u.end
    BY <1>1, <1>2, <1>3
  <1> QED BY <1>7, <1>8 DEF AskedOK, u

\* The request r at one step from s: what the invariant says of it, and what it sent.
StepOK(r, s, P) ==
  AskedOK(file, rq'[r]) /\ Faithful(s, rq'[r], P) /\ rq'[r].known \in {s.known, Stored}

LEMMA ReplayOK ==
  ASSUME Repairs, NEW r \in Requests, Replay(r)
  PROVE  StepOK(r, rq[r], rq[r].known \cap Held(store))
  <1> DEFINE s == rq[r]
             u == rq'[r]
  <1>1. s.pc = "loop" /\ AskedOK(file, s)
    BY DEF Replay, Repairs, Idle
  <1>2. /\ file \in Files /\ StoreOK(store) /\ s.cur \in Nat /\ s.end \in Int /\ s.cur <= s.end
        /\ \A p \in Held(store) : PlanOK(p)
    BY <1>1, FileIs DEF Repairs, StoreOK, AskedOK, SentOfRange
  <1>3. CASE Covering(s.cur) # {}
    <2> DEFINE p == CHOOSE p \in Covering(s.cur) : TRUE
               t == SentPlan(s, p)
    <2>1. p \in Held(store) /\ s.cur \in Span(p) BY <1>3, Covers
    <2>2. u = [t EXCEPT !.known = Stored] BY <1>3 DEF Replay, Become, Repairs
    <2> HIDE DEF p
    <2>3. /\ AskedOK(file, t) /\ t.pc \in {"loop", "end"}
          /\ \A o \in DOMAIN t.out \ DOMAIN s.out : o \in Span(p) /\ t.out[o] = Render(p, o)
      BY <1>1, <1>2, <2>1, SentPlanOK
    <2> HIDE DEF t, u
    <2>4. /\ DOMAIN u = DOMAIN t /\ u.known = Stored /\ u.pc = t.pc /\ u.first = t.first
          /\ u.cur = t.cur /\ u.end = t.end /\ u.out = t.out /\ u.tr = t.tr
          /\ u.bound = t.bound /\ u.skip = t.skip
      BY <2>2, <2>3 DEF AskedOK, SentOfRange
    <2>5. SentOfRange(file, u) BY <2>3, <2>4 DEF AskedOK, SentOfRange
    <2>6. \A q \in u.known : PlanOK(q) BY <1>2, <2>4 DEF Stored, Held
    <2>7. AskedOK(file, u) BY <2>3, <2>4, <2>5, <2>6 DEF AskedOK
    <2>8. \A q \in Held(store) : \A o : o \in Span(q) /\ o \in Span(p) => q = p
      BY <1>2, <2>1, OnePlan DEF StoreOK
    <2>9. Faithful(s, u, s.known \cap Held(store))
      BY <2>3, <2>4, <2>8 DEF Faithful
    <2> QED BY <2>4, <2>7, <2>9 DEF StepOK, u
  <1>4. CASE Covering(s.cur) = {}
    <2>1. u = [s EXCEPT !.pc = "read", !.bound = BoundAt(r), !.known = Stored]
      BY <1>4 DEF Replay, Become, Repairs
    <2> DEFINE bound == BoundAt(r)
    <2>2. /\ bound \in Int /\ s.cur <= bound /\ bound <= s.end
          /\ \A p \in Held(store) : p.start > bound \/ p.end <= s.cur
      BY <1>2, <1>4, BoundIs
    <2> HIDE DEF bound, u
    <2>3. u = [s EXCEPT !.pc = "read", !.bound = bound, !.known = Stored] BY <2>1 DEF bound
    <2>4. /\ DOMAIN u = DOMAIN s /\ u.known = Stored /\ u.pc = "read" /\ u.first = s.first
          /\ u.cur = s.cur /\ u.end = s.end /\ u.out = s.out /\ u.tr = s.tr
          /\ u.bound = bound /\ u.skip = s.skip
      BY <1>1, <2>3 DEF AskedOK, SentOfRange
    <2>5. SentOfRange(file, u) BY <1>1, <2>4 DEF AskedOK, SentOfRange
    <2>6. \A q \in u.known : PlanOK(q) /\ (q.start > u.bound \/ q.end <= u.cur)
      BY <1>2, <2>2, <2>4 DEF Stored, Held
    <2>7. AskedOK(file, u) BY <1>1, <1>2, <2>2, <2>4, <2>5, <2>6 DEF AskedOK, Clear
    <2>8. Faithful(s, u, s.known \cap Held(store)) BY <2>4 DEF Faithful
    <2> QED BY <2>4, <2>7, <2>8 DEF StepOK, u
  <1> QED BY <1>3, <1>4

LEMMA ReadOK ==
  ASSUME Repairs, NEW r \in Requests, ReadChunk(r)
  PROVE  StepOK(r, rq[r], rq[r].known)
  <1> DEFINE s == rq[r]
             u == rq'[r]
             stops == {o \in s.cur..(s.cur + Chunk) : o = s.cur + Chunk \/ o = s.bound + 1
                                                      \/ o \in missing}
             n == Least(stops) - s.cur
             bytes == [o \in 0..file.len |-> <<"orig">>]
             t == Sent(s, n, bytes)
  <1>1. s.pc = "read" /\ AskedOK(file, s) /\ file \in Files
    BY DEF ReadChunk, Repairs, Idle
  <1>2. /\ s.cur \in Nat /\ s.end \in Int /\ s.bound \in Int /\ s.cur <= s.bound
        /\ s.bound <= s.end /\ s.end = file.len - 1 /\ file.len \in Nat
    BY <1>1, FileIs DEF AskedOK, SentOfRange
  <1>3. n \in Nat /\ n <= s.bound + 1 - s.cur
    <2>1. Chunk \in Nat /\ s.cur + Chunk \in stops BY <1>2, ConcealAssumption
    <2>2. stops \in SUBSET Nat /\ \A o \in stops : o >= s.cur BY <1>2, <2>1
    <2>3. s.bound + 1 <= s.cur + Chunk => s.bound + 1 \in stops BY <1>2, <2>1
    <2> HIDE DEF stops
    <2> DEFINE l == Least(stops)
    <2>4. l \in stops /\ \A o \in stops : l <= o BY <2>1, <2>2, LeastIs
    <2> HIDE DEF l
    <2>5. l \in Nat /\ s.cur <= l BY <2>2, <2>4
    <2>6. l <= s.bound + 1
      <3>1. CASE s.bound + 1 <= s.cur + Chunk BY <2>3, <2>4, <3>1
      <3>2. CASE ~(s.bound + 1 <= s.cur + Chunk) BY <1>2, <2>1, <2>4, <2>5, <3>2
      <3> QED BY <3>1, <3>2
    <2> QED BY <1>2, <2>5, <2>6 DEF l
  <1>4. \A o \in s.cur..(s.cur + n - 1) : IsByte(bytes[o])
    <2> SUFFICES ASSUME NEW o \in s.cur..(s.cur + n - 1) PROVE IsByte(bytes[o]) OBVIOUS
    <2> HIDE DEF n
    <2>1. o \in 0..file.len BY <1>2, <1>3
    <2> QED BY <2>1 DEF IsByte
  <1>5. PICK pc \in {"read", "loop"} :
          /\ t.cur > s.bound => pc = "loop"
          /\ u = [t EXCEPT !.pc = IF t.cur > t.end THEN "end" ELSE pc]
    BY DEF ReadChunk, Become, Repairs
  <1> HIDE DEF n, bytes
  <1>6. /\ SentOfRange(file, t) /\ t.cur = s.cur + n /\ Faithful(s, t, s.known)
        /\ \A f \in {"pc", "first", "end", "bound", "skip", "plan", "tapped", "known", "plain",
                     "used"} : t[f] = s[f]
    BY <1>1, <1>3, <1>4, SentPlainOK
  <1> HIDE DEF t, u
  <1>7. /\ DOMAIN u = DOMAIN t /\ u.known = s.known /\ u.first = t.first
        /\ u.cur = s.cur + n /\ u.end = s.end /\ u.out = t.out /\ u.tr = t.tr
        /\ u.bound = s.bound /\ u.skip = s.skip /\ t.cur = u.cur
        /\ u.pc = IF t.cur > t.end THEN "end" ELSE pc
    BY <1>5, <1>6 DEF SentOfRange
  <1>8. SentOfRange(file, u) BY <1>6, <1>7 DEF SentOfRange
  <1>9. /\ u.pc \in {"read", "loop", "end"} /\ (u.pc # "end" => u.cur <= u.end)
        /\ u.pc = "read" => u.cur <= u.bound
    <2>1. u.cur \in Nat /\ t.end = u.end BY <1>2, <1>3, <1>6, <1>7
    <2> QED BY <1>2, <1>5, <1>7, <2>1
  <1>10. \A p \in u.known : PlanOK(p) /\ (p.start > u.bound \/ p.end <= u.cur)
    <2> TAKE p \in u.known
    <2>1. PlanOK(p) /\ (p.start > s.bound \/ p.end <= s.cur)
      BY <1>1, <1>7 DEF AskedOK, Clear
    <2>2. p.start \in Nat /\ p.end \in Nat BY <2>1 DEF PlanOK
    <2> QED BY <1>2, <1>3, <1>7, <2>1, <2>2
  <1>11. AskedOK(file, u) BY <1>1, <1>2, <1>7, <1>8, <1>9, <1>10 DEF AskedOK, Clear
  <1>12. Faithful(s, u, s.known) BY <1>6, <1>7 DEF Faithful
  <1> QED BY <1>7, <1>11, <1>12 DEF StepOK, u

LEMMA SkipsAre ==
  ASSUME NEW s, s.cur \in Nat, s.end \in Int, s.cur <= s.end, NEW k \in Skips(s)
  PROVE  k \in Int /\ 1 <= k
  <1> DEFINE targets == {o \in (s.cur + 1)..s.end : o \notin missing}
  <1>1. targets \in SUBSET Nat OBVIOUS
  <1>2. k = s.end + 1 - s.cur \/ (targets # {} /\ (k = Least(targets) - s.cur
                                                  \/ k = Least(targets) - s.cur + 1))
    BY DEF Skips
  <1>3. \A o \in targets : o > s.cur OBVIOUS
  <1> HIDE DEF targets
  <1>4. targets # {} => Least(targets) \in targets BY <1>1, LeastIs
  <1> DEFINE l == Least(targets)
  <1>5. targets # {} => l \in Nat /\ l > s.cur BY <1>1, <1>3, <1>4
  <1>6. k = s.end + 1 - s.cur \/ (targets # {} /\ (k = l - s.cur \/ k = l - s.cur + 1))
    BY <1>2
  <1> HIDE DEF l
  <1> QED BY <1>5, <1>6

LEMMA PlanGapOK ==
  ASSUME Repairs, NEW r \in Requests, PlanGap(r)
  PROVE  StepOK(r, rq[r], rq[r].known)
  <1> DEFINE s == rq[r]
             u == rq'[r]
  <1>1. s.pc = "read" /\ AskedOK(file, s) /\ file \in Files
    BY DEF PlanGap, Repairs, Idle
  <1>2. /\ s.cur \in Nat /\ s.end \in Int /\ s.bound \in Int /\ s.cur <= s.bound
        /\ s.bound <= s.end /\ TrackerOK(file, s.tr, s.first, s.cur)
    BY <1>1, FileIs DEF AskedOK, SentOfRange
  <1>3. PICK k \in Skips(s) :
          LET skip == IF k <= s.bound + 1 - s.cur THEN k ELSE s.bound + 1 - s.cur
          IN  \E p \in IF s.tapped /\ s.tr.ebml # "no" THEN Plans(s.tr, s.cur, s.cur + skip)
                       ELSE {NoPlan} :
                u = [s EXCEPT !.skip = skip, !.plan = p,
                              !.pc = IF p = NoPlan THEN "fill" ELSE "commit"]
    BY DEF PlanGap, Become, Repairs
  <1>4. k \in Int /\ 1 <= k BY <1>2, SkipsAre
  <1> DEFINE skip == IF k <= s.bound + 1 - s.cur THEN k ELSE s.bound + 1 - s.cur
  <1>5. PICK p \in Plans(s.tr, s.cur, s.cur + skip) \cup {NoPlan} :
          u = [s EXCEPT !.skip = skip, !.plan = p,
                        !.pc = IF p = NoPlan THEN "fill" ELSE "commit"]
    BY <1>3
  <1>6. skip \in Int /\ 1 <= skip BY <1>2, <1>4
  <1> HIDE DEF skip, u
  <1>7. p # NoPlan => p.start = s.cur /\ PlanOK(p)
    <2>1. s.cur + skip \in Nat /\ s.cur < s.cur + skip BY <1>2, <1>6
    <2> QED BY <1>1, <1>2, <1>5, <2>1, PlansAre
  <1>8. /\ DOMAIN u = DOMAIN s /\ u.known = s.known /\ u.first = s.first
        /\ u.cur = s.cur /\ u.end = s.end /\ u.out = s.out /\ u.tr = s.tr
        /\ u.bound = s.bound /\ u.skip = skip /\ u.plan = p
        /\ u.pc = IF p = NoPlan THEN "fill" ELSE "commit"
    BY <1>1, <1>5 DEF AskedOK, SentOfRange
  <1>9. SentOfRange(file, u) BY <1>1, <1>8 DEF AskedOK, SentOfRange
  <1>10. AskedOK(file, u) BY <1>1, <1>2, <1>6, <1>7, <1>8, <1>9 DEF AskedOK, Clear
  <1>11. Faithful(s, u, s.known) BY <1>8 DEF Faithful
  <1> QED BY <1>8, <1>10, <1>11 DEF StepOK, u

LEMMA RefreshOK ==
  ASSUME Repairs, NEW r \in Requests, Refresh(r)
  PROVE  StepOK(r, rq[r], rq[r].known)
  <1> DEFINE s == rq[r]
             u == rq'[r]
             bound == BoundAt(r)
             v == [s EXCEPT !.bound = bound, !.known = Stored]
  <1>1. s.pc = "fill" /\ AskedOK(file, s) /\ file \in Files /\ StoreOK(store)
    BY DEF Refresh, Repairs, Idle
  <1>2. /\ s.cur \in Nat /\ s.end \in Int /\ s.cur <= s.end /\ s.skip \in Int /\ 1 <= s.skip
        /\ \A p \in Held(store) : PlanOK(p)
    BY <1>1, FileIs DEF AskedOK, SentOfRange, StoreOK
  <1>3. u = IF Covering(s.cur) # {} THEN [v EXCEPT !.pc = "loop"]
            ELSE [v EXCEPT !.pc = "zeros",
                     !.skip = IF @ <= v.bound + 1 - v.cur THEN @ ELSE v.bound + 1 - v.cur]
    <2>1. v.cur = s.cur BY <1>1 DEF AskedOK, SentOfRange
    <2> QED BY <2>1 DEF Refresh, Become, Repairs
  <1>4. bound \in Int
    <2>1. NextStarts(s.cur) \in SUBSET Nat BY <1>2 DEF NextStarts, Stored, Held, PlanOK
    <2>2. NextStarts(s.cur) # {} => Least(NextStarts(s.cur)) \in Nat BY <2>1, LeastIs
    <2> QED BY <1>2, <2>2 DEF BoundAt
  <1> HIDE DEF bound
  <1>5. /\ DOMAIN v = DOMAIN s /\ v.known = Stored /\ v.first = s.first
        /\ v.cur = s.cur /\ v.end = s.end /\ v.out = s.out /\ v.tr = s.tr
        /\ v.bound = bound /\ v.skip = s.skip
    BY <1>1 DEF AskedOK, SentOfRange
  <1> HIDE DEF u, v
  <1>6. /\ DOMAIN u = DOMAIN s /\ u.known = Stored /\ u.first = s.first
        /\ u.cur = s.cur /\ u.end = s.end /\ u.out = s.out /\ u.tr = s.tr
        /\ u.bound = bound
        /\ u.pc = IF Covering(s.cur) # {} THEN "loop" ELSE "zeros"
        /\ u.skip = IF Covering(s.cur) # {} \/ s.skip <= bound + 1 - s.cur THEN s.skip
                    ELSE bound + 1 - s.cur
    <2>1. {"pc", "skip"} \subseteq DOMAIN v BY <1>1, <1>5 DEF AskedOK, SentOfRange
    <2> QED BY <1>3, <1>5, <2>1
  <1>7. SentOfRange(file, u) BY <1>1, <1>6 DEF AskedOK, SentOfRange
  <1>8. Faithful(s, u, s.known) BY <1>6 DEF Faithful
  <1>9. \A q \in u.known : PlanOK(q) BY <1>2, <1>6 DEF Stored, Held
  <1>10. CASE Covering(s.cur) # {}
    <2>1. AskedOK(file, u) BY <1>1, <1>2, <1>4, <1>6, <1>7, <1>9, <1>10 DEF AskedOK
    <2> QED BY <1>6, <1>8, <2>1 DEF StepOK, u
  <1>11. CASE Covering(s.cur) = {}
    <2>1. /\ s.cur <= bound /\ bound <= s.end
          /\ \A p \in Held(store) : p.start > bound \/ p.end <= s.cur
      BY <1>1, <1>2, <1>11, BoundIs DEF bound
    <2>2. \A q \in u.known : q.start > u.bound \/ q.end <= u.cur
      BY <1>6, <2>1 DEF Stored, Held
    <2>3. u.skip \in Int /\ 1 <= u.skip /\ u.skip <= u.bound + 1 - u.cur
      BY <1>2, <1>4, <1>6, <1>11, <2>1
    <2>4. AskedOK(file, u)
      BY <1>1, <1>2, <1>4, <1>6, <1>7, <1>9, <1>11, <2>1, <2>2, <2>3 DEF AskedOK, Clear
    <2> QED BY <1>6, <1>8, <2>4 DEF StepOK, u
  <1> QED BY <1>10, <1>11

LEMMA CommitOK ==
  ASSUME Repairs, NEW r \in Requests, Commit(r)
  PROVE  /\ StepOK(r, rq[r], rq[r].known \cap Held(store))
         /\ StoreOK(store')
  <1> DEFINE s == rq[r]
             u == rq'[r]
             plan == s.plan
             known == s.known \cap Held(store)
  <1>1. s.pc = "commit" /\ AskedOK(file, s) /\ file \in Files /\ StoreOK(store)
    BY DEF Commit, Repairs, Idle
  <1>2. /\ s.cur \in Nat /\ s.end \in Int /\ s.cur <= s.end /\ PlanOK(plan) /\ plan.start = s.cur
        /\ \A p \in Held(store) : PlanOK(p)
    BY <1>1, FileIs DEF AskedOK, SentOfRange, StoreOK
  <1>3. CASE u = [s EXCEPT !.pc = "fill"] /\ UNCHANGED store
    <2> HIDE DEF u
    <2>1. /\ DOMAIN u = DOMAIN s /\ u.known = s.known /\ u.first = s.first
          /\ u.cur = s.cur /\ u.end = s.end /\ u.out = s.out /\ u.tr = s.tr
          /\ u.bound = s.bound /\ u.pc = "fill" /\ u.skip = s.skip
      BY <1>1, <1>3 DEF AskedOK, SentOfRange
    <2>2. SentOfRange(file, u) BY <1>1, <2>1 DEF AskedOK, SentOfRange
    <2>3. AskedOK(file, u) BY <1>1, <2>1, <2>2 DEF AskedOK, Clear
    <2>4. Faithful(s, u, known) BY <2>1 DEF Faithful
    <2> QED BY <1>1, <1>3, <2>1, <2>3, <2>4 DEF StepOK, u
  <1>4. CASE Overlapping(plan) = {} /\ store' = Added(plan) /\ u = SentPlan(s, plan)
    <2>1. s.cur \in Span(plan) BY <1>2 DEF PlanOK, Span
    <2>2. /\ AskedOK(file, u) /\ u.known = s.known
          /\ \A o \in DOMAIN u.out \ DOMAIN s.out : o \in Span(plan) /\ u.out[o] = Render(plan, o)
      BY <1>1, <1>2, <1>4, <2>1, SentPlanOK
    <2> HIDE DEF u, plan
    <2>3. \A q \in Held(store) : plan.end <= q.start \/ q.end <= plan.start
      <3> TAKE q \in Held(store)
      <3>1. ~(plan.start < q.end /\ q.start < plan.end) BY <1>4 DEF Overlapping, Stored, Held
      <3>2. /\ plan.start \in Nat /\ plan.end \in Nat /\ q.start \in Nat /\ q.end \in Nat
        BY <1>2 DEF PlanOK
      <3> QED BY <3>1, <3>2
    <2>4. \A q \in Held(store), o \in Span(plan) : o \notin Span(q)
      <3> TAKE q \in Held(store), o \in Span(plan)
      <3>1. /\ plan.start \in Nat /\ plan.end \in Nat /\ q.start \in Nat /\ q.end \in Nat
        BY <1>2 DEF PlanOK
      <3> QED BY <2>3, <3>1 DEF Span
    <2>5. Faithful(s, u, known) BY <2>2, <2>4 DEF Faithful
    <2> DEFINE all == Held(store) \cup {plan}
               longer == Append(store, plan)
    <2>6. store' \in Seq(all) /\ Held(store') \in SUBSET all
      <3>1. store \in Seq(all)
        <4>1. store \in Seq(Held(store)) BY <1>1 DEF StoreOK
        <4>2. Len(store) \in Nat /\ store \in [1..Len(store) -> Held(store)] BY <4>1, LenProperties
        <4>3. store \in [1..Len(store) -> all] BY <4>2
        <4> HIDE DEF all
        <4> QED BY <4>2, <4>3
      <3> HIDE DEF all
      <3>2. plan \in all BY DEF all
      <3>3. longer \in Seq(all) /\ Len(longer) = Len(store) + 1 /\ Len(store) \in Nat
        BY <3>1, <3>2, AppendProperties, LenProperties
      <3> HIDE DEF longer
      <3>4. store' = longer \/ store' = Tail(longer) BY <1>4 DEF Added, longer
      <3>5. longer # <<>>
        <4>1. Len(longer) # 0 BY <3>3
        <4> QED BY <3>3, <4>1, EmptySeq
      <3>6. store' \in Seq(all) BY <3>3, <3>4, <3>5, HeadTailProperties
      <3>7. DOMAIN store' = 1..Len(store') BY <3>6, LenProperties
      <3> QED BY <3>6, <3>7, ElementOfSeq DEF Held
    <2>7. store' \in Seq(Held(store'))
      <3>1. DOMAIN store' = 1..Len(store') /\ Len(store') \in Nat
            /\ store' \in [1..Len(store') -> all]
        <4> HIDE DEF all
        <4> QED BY <2>6, LenProperties
      <3> HIDE DEF all
      <3>2. store' \in [1..Len(store') -> Held(store')] BY <3>1 DEF Held
      <3> QED BY <3>1, <3>2
    <2>8. \A p \in all : PlanOK(p) BY <1>2
    <2>9. NoneOverlap(all)
      <3>1. NoneOverlap(Held(store)) BY <1>1 DEF StoreOK
      <3> QED BY <2>3, <3>1 DEF NoneOverlap
    <2>10. StoreOK(store') BY <2>6, <2>7, <2>8, <2>9 DEF StoreOK, NoneOverlap
    <2> QED BY <2>2, <2>5, <2>10 DEF StepOK, u
  <1>5. CASE /\ Covering(s.cur) # {} /\ u = SentPlan(s, CHOOSE q \in Covering(s.cur) : TRUE)
             /\ UNCHANGED store
    <2> DEFINE p == CHOOSE q \in Covering(s.cur) : TRUE
    <2>1. p \in Held(store) /\ s.cur \in Span(p) BY <1>5, Covers
    <2>2. u = SentPlan(s, p) BY <1>5
    <2> HIDE DEF p
    <2>3. /\ AskedOK(file, u) /\ u.known = s.known
          /\ \A o \in DOMAIN u.out \ DOMAIN s.out : o \in Span(p) /\ u.out[o] = Render(p, o)
      BY <1>1, <1>2, <2>1, <2>2, SentPlanOK
    <2> HIDE DEF u
    <2>4. \A q \in Held(store) : \A o : o \in Span(q) /\ o \in Span(p) => q = p
      BY <1>1, <1>2, <2>1, OnePlan DEF StoreOK
    <2>5. Faithful(s, u, known) BY <2>3, <2>4 DEF Faithful
    <2> QED BY <1>1, <1>5, <2>3, <2>5 DEF StepOK, u
  <1> QED BY <1>3, <1>4, <1>5 DEF Commit, Become, Repairs

LEMMA ZerosOK ==
  ASSUME Repairs, NEW r \in Requests, WriteZeros(r)
  PROVE  StepOK(r, rq[r], rq[r].known)
  <1> DEFINE s == rq[r]
             u == rq'[r]
             n == s.skip
             bytes == [o \in 0..file.len |-> <<"zero">>]
             t == Sent(s, n, bytes)
  <1>1. s.pc = "zeros" /\ AskedOK(file, s) /\ file \in Files
    BY DEF WriteZeros, Repairs, Idle
  <1>2. /\ s.cur \in Nat /\ s.end \in Int /\ s.bound \in Int /\ s.cur <= s.bound
        /\ s.bound <= s.end /\ s.end = file.len - 1 /\ file.len \in Nat
        /\ n \in Nat /\ n <= s.bound + 1 - s.cur
    BY <1>1, FileIs DEF AskedOK, SentOfRange
  <1>3. u = [t EXCEPT !.pc = IF t.cur > t.end THEN "end" ELSE "loop", !.plain = TRUE]
    BY DEF WriteZeros, Become, Repairs
  <1> HIDE DEF n
  <1>4. \A o \in s.cur..(s.cur + n - 1) : IsByte(bytes[o])
    <2> SUFFICES ASSUME NEW o \in s.cur..(s.cur + n - 1) PROVE IsByte(bytes[o]) OBVIOUS
    <2>1. o \in 0..file.len BY <1>2
    <2> QED BY <2>1 DEF IsByte
  <1> HIDE DEF bytes
  <1>5. /\ SentOfRange(file, t) /\ t.cur = s.cur + n /\ Faithful(s, t, s.known)
        /\ \A f \in {"pc", "first", "end", "bound", "skip", "plan", "tapped", "known", "plain",
                     "used"} : t[f] = s[f]
    BY <1>1, <1>2, <1>4, SentPlainOK
  <1> HIDE DEF t, u
  <1>6. /\ DOMAIN u = DOMAIN t /\ u.known = s.known /\ u.first = t.first
        /\ u.cur = s.cur + n /\ u.end = s.end /\ u.out = t.out /\ u.tr = t.tr
        /\ u.bound = s.bound /\ u.skip = s.skip /\ t.cur = u.cur
        /\ u.pc = IF t.cur > t.end THEN "end" ELSE "loop"
    BY <1>3, <1>5 DEF SentOfRange
  <1>7. SentOfRange(file, u) BY <1>5, <1>6 DEF SentOfRange
  <1>8. u.pc \in {"loop", "end"} /\ (u.pc = "loop" => u.cur <= u.end)
    <2>1. t.end = u.end BY <1>5, <1>6
    <2> QED BY <1>2, <1>6, <2>1
  <1>9. AskedOK(file, u) BY <1>1, <1>6, <1>7, <1>8 DEF AskedOK
  <1>10. Faithful(s, u, s.known) BY <1>5, <1>6 DEF Faithful
  <1> QED BY <1>6, <1>9, <1>10 DEF StepOK, u

LEMMA EndOK ==
  ASSUME Repairs, NEW r \in Requests, EndConceal(r)
  PROVE  StepOK(r, rq[r], rq[r].known)
  <1> DEFINE s == rq[r]
             u == rq'[r]
  <1>1. s.pc = "end" /\ AskedOK(file, s) /\ u = [s EXCEPT !.pc = "over"]
    BY DEF EndConceal, Become, Repairs, Idle
  <1> HIDE DEF u
  <1>2. /\ DOMAIN u = DOMAIN s /\ u.known = s.known /\ u.first = s.first
        /\ u.cur = s.cur /\ u.end = s.end /\ u.out = s.out /\ u.tr = s.tr
        /\ u.bound = s.bound /\ u.skip = s.skip /\ u.pc = "over"
    BY <1>1 DEF AskedOK, SentOfRange
  <1>3. SentOfRange(file, u) BY <1>1, <1>2 DEF AskedOK, SentOfRange
  <1>4. AskedOK(file, u) BY <1>1, <1>2, <1>3 DEF AskedOK
  <1>5. Faithful(s, u, s.known) BY <1>2 DEF Faithful
  <1> QED BY <1>2, <1>4, <1>5 DEF StepOK, u

LEMMA RepairsFirst == ConcealInit => Repairs
  <1> SUFFICES ASSUME ConcealInit PROVE Repairs OBVIOUS
  <1>1. file \in Files /\ missing \in SUBSET Nat BY ConcealAssumption DEF ConcealInit
  <1>2. StoreOK(store)
    <2> DEFINE none == <<>>
    <2>1. store = none /\ none \in Seq({}) /\ DOMAIN none = {} BY EmptySeq DEF ConcealInit
    <2> HIDE DEF none
    <2>2. Held(store) = {} BY <2>1 DEF Held
    <2> QED BY <2>1, <2>2 DEF StoreOK, NoneOverlap
  <1> QED BY <1>1, <1>2 DEF ConcealInit, Repairs

\* A step of a request, and what it does to the others.
LEMMA RequestStep ==
  ASSUME Repairs, NEW r \in Requests,
         \/ Ask(r) \/ Replay(r) \/ ReadChunk(r) \/ PlanGap(r) \/ Commit(r)
         \/ Refresh(r) \/ WriteZeros(r) \/ EndConceal(r)
  PROVE  /\ Repairs'
         /\ \A q \in Requests : rq[q].pc # "idle" =>
               /\ Faithful(rq[q], rq'[q], rq[q].known \cap Held(store))
               /\ rq'[q].known \in {rq[q].known, Stored}
         /\ \A q \in Requests : rq[q].pc = "idle" => rq'[q] = rq[q] \/ rq'[q].known = {}
  <1>1. /\ file' = file /\ missing' = missing
        /\ \E s : rq' = [rq EXCEPT ![r] = s]
    BY DEF Ask, Replay, ReadChunk, PlanGap, Commit, Refresh, WriteZeros, EndConceal, Become
  <1>2. /\ DOMAIN rq' = Requests /\ rq' = [q \in Requests |-> rq'[q]]
        /\ \A q \in Requests \ {r} : rq'[q] = rq[q]
    BY <1>1 DEF Repairs
  <1>3. StoreOK(store')
    <2>1. CASE Commit(r) BY <2>1, CommitOK
    <2>2. CASE store' = store BY <2>2 DEF Repairs
    <2> QED BY <2>1, <2>2 DEF Ask, Replay, ReadChunk, PlanGap, Refresh, WriteZeros, EndConceal
  <1> DEFINE P == rq[r].known \cap Held(store)
  <1>4. CASE Ask(r)
    <2>1. rq[r].pc = "idle" BY <1>4 DEF Ask
    <2>2. AskedOK(file, rq'[r]) /\ rq'[r].known = {} BY <1>4, AskOK
    <2>3. \A q \in Requests : rq'[q] = Idle \/ AskedOK(file, rq'[q]) BY <1>2, <2>2 DEF Repairs
    <2>4. Repairs' BY <1>1, <1>2, <1>3, <2>3 DEF Repairs
    <2> QED BY <1>2, <2>1, <2>2, <2>4 DEF Faithful
  <1>5. CASE ~Ask(r)
    <2>1. StepOK(r, rq[r], P)
      <3>1. CASE Replay(r) BY <3>1, ReplayOK
      <3>2. CASE Commit(r) BY <3>2, CommitOK
      <3>3. CASE StepOK(r, rq[r], rq[r].known) BY <3>3 DEF StepOK, Faithful
      <3> QED BY <1>5, <3>1, <3>2, <3>3, ReadOK, PlanGapOK, RefreshOK, ZerosOK, EndOK
    <2>2. rq[r].pc # "idle"
      BY <1>5 DEF Replay, ReadChunk, PlanGap, Commit, Refresh, WriteZeros, EndConceal
    <2>3. \A q \in Requests : rq'[q] = Idle \/ AskedOK(file, rq'[q])
      BY <1>2, <2>1 DEF Repairs, StepOK
    <2>4. Repairs' BY <1>1, <1>2, <1>3, <2>3 DEF Repairs
    <2> QED BY <1>2, <2>1, <2>2, <2>4 DEF Faithful, StepOK
  <1> QED BY <1>4, <1>5

LEMMA RepairsStep ==
  ASSUME Repairs, ConcealNext \/ UNCHANGED concealVars
  PROVE  /\ Repairs'
         /\ \A q \in Requests : rq[q].pc # "idle" =>
               /\ Faithful(rq[q], rq'[q], rq[q].known \cap Held(store))
               /\ rq'[q].known \in {rq[q].known, Stored}
         /\ \A q \in Requests : rq[q].pc = "idle" => rq'[q] = rq[q] \/ rq'[q].known = {}
  <1>1. CASE rq' = rq /\ store' = store /\ file' = file /\ missing' \in {missing, {}}
    BY <1>1 DEF Repairs, Faithful
  <1>2. CASE Heals BY <1>1, <1>2 DEF Heals
  <1>3. CASE UNCHANGED concealVars BY <1>1, <1>3 DEF concealVars
  <1> QED BY <1>2, <1>3, RequestStep DEF ConcealNext, AllServed

\* From the moment a request has looked at the stored plans, what it sends inside one that is
\* stored still is that plan's, whichever request planned the gap and whatever has become
\* readable since (stream_proxy_handler_conceal.py, ConcealPlanStore).
StoredIsSent ==
  \A r \in Requests : rq[r].pc # "idle" =>
      \A o \in DOMAIN rq'[r].out \ DOMAIN rq[r].out : \A p \in rq[r].known \cap Stored :
          o \in Span(p) => rq'[r].out[o] = Render(p, o)

THEOREM StoredPlanIsSent ==
  Init /\ [][Next]_vars => [][topic = "conceal" => StoredIsSent]_vars
  <1> DEFINE Inv == topic = "conceal" => Repairs
  <1>1. Init => Inv BY RepairsFirst DEF Init
  <1>2. Inv /\ [Next]_vars => Inv' BY ConcealSteps, RepairsStep
  <1>3. Inv /\ [Next]_vars => [topic = "conceal" => StoredIsSent]_vars
    <2> SUFFICES ASSUME Inv, [Next]_vars, topic = "conceal" PROVE StoredIsSent OBVIOUS
    <2>1. ConcealNext \/ UNCHANGED concealVars BY ConcealSteps
    <2>2. \A r \in Requests : rq[r].pc # "idle" =>
            Faithful(rq[r], rq'[r], rq[r].known \cap Held(store))
      BY <2>1, RepairsStep
    <2> QED BY <2>2 DEF StoredIsSent, Faithful, Held, Stored
  <1> QED BY <1>1, <1>2, <1>3, PTL

\* So as long as the store forgets no plan (it holds 64), a repeated range is the same bytes.
THEOREM RepairedTheSame ==
  Init /\ [][Next]_vars /\ [][topic = "conceal" => Stored \subseteq Stored']_vars => SameRepair
  <1> DEFINE KnownStored == \A r \in Requests : rq[r].pc # "idle" => rq[r].known \subseteq Stored
             Inv == topic = "conceal" => Repairs /\ KnownStored
             Keeps == [topic = "conceal" => Stored \subseteq Stored']_vars
  <1>1. Init => Inv BY RepairsFirst DEF Init, ConcealInit, Idle
  <1>2. Inv /\ [Next]_vars /\ Keeps => Inv'
    <2> SUFFICES ASSUME Inv, [Next]_vars, Keeps, topic' = "conceal" PROVE Repairs' /\ KnownStored'
      OBVIOUS
    <2>1. topic = "conceal" /\ (ConcealNext \/ UNCHANGED concealVars) BY ConcealSteps
    <2>2. Stored \subseteq Stored'
      <3>1. CASE UNCHANGED vars BY <3>1 DEF vars, concealVars, Stored
      <3> QED BY <2>1, <3>1
    <2>3. ASSUME NEW r \in Requests, rq'[r].pc # "idle" PROVE rq'[r].known \subseteq Stored'
      <3>1. CASE rq[r].pc # "idle"
        <4>1. rq'[r].known \in {rq[r].known, Stored} BY <2>1, <3>1, RepairsStep
        <4> QED BY <2>1, <2>2, <3>1, <4>1
      <3>2. CASE rq[r].pc = "idle"
        <4>1. rq'[r] = rq[r] \/ rq'[r].known = {} BY <2>1, <3>2, RepairsStep
        <4> QED BY <2>3, <3>2, <4>1
      <3> QED BY <3>1, <3>2
    <2> QED BY <2>1, <2>3, RepairsStep
  <1>3. Inv /\ [Next]_vars => [topic = "conceal" => SameStep]_vars
    <2> SUFFICES ASSUME Inv, [Next]_vars, topic = "conceal" PROVE SameStep OBVIOUS
    <2>1. ConcealNext \/ UNCHANGED concealVars BY ConcealSteps
    <2>2. ASSUME NEW r \in Requests, rq[r].pc # "idle" PROVE Faithful(rq[r], rq'[r], rq[r].known)
      <3>1. Faithful(rq[r], rq'[r], rq[r].known \cap Held(store)) BY <2>1, <2>2, RepairsStep
      <3>2. rq[r].known \subseteq Held(store) BY <2>2 DEF Stored, Held
      <3> QED BY <3>1, <3>2 DEF Faithful
    <2> QED BY <2>2 DEF SameStep, Faithful
  <1> QED BY <1>1, <1>2, <1>3, PTL DEF SameRepair

-----------------------------------------------------------------------------
(* The tracker of the file itself: what is true of Original.               *)

LEMMA FedNone ==
  ASSUME NEW tr, NEW at, NEW out
  PROVE  FedSynced(tr, at, 0, out) = tr
  BY FedRecursion

LEMMA FedNext ==
  ASSUME NEW n \in Nat, NEW tr, NEW at \in Int, NEW out
  PROVE  FedSynced(tr, at, n + 1, out) = FeedSynced(FedSynced(tr, at, n, out), at + n, out[at + n])
  <1>1. PICK t : /\ t[0] = tr
                 /\ \A k \in 1..n : t[k] = FeedSynced(t[k - 1], at + k - 1, out[at + k - 1])
                 /\ FedSynced(tr, at, n, out) = t[n]
    BY FedRecursion
  <1>2. PICK u : /\ u[0] = tr
                 /\ \A k \in 1..(n + 1) : u[k] = FeedSynced(u[k - 1], at + k - 1, out[at + k - 1])
                 /\ FedSynced(tr, at, n + 1, out) = u[n + 1]
    <2>1. n + 1 \in Nat OBVIOUS
    <2> QED BY <2>1, FedRecursion
  <1> DEFINE Differ == {k \in 0..n : t[k] # u[k]}
  <1>3. ASSUME Differ # {} PROVE FALSE
    <2>1. PICK k \in Differ : \A m \in Differ : k <= m
      <3>1. Differ \in SUBSET Nat OBVIOUS
      <3> HIDE DEF Differ
      <3> QED BY <1>3, <3>1, First
    <2>2. k # 0 BY <1>1, <1>2, <2>1
    <2>3. k \in 1..n /\ k \in 1..(n + 1) /\ k - 1 \in 0..n BY <2>1, <2>2
    <2>4. ~ (k - 1 \in Differ)
      <3> HIDE DEF Differ
      <3> QED BY <2>1, <2>3
    <2>5. t[k - 1] = u[k - 1] BY <2>3, <2>4
    <2>6. t[k] = u[k] BY <1>1, <1>2, <2>3, <2>5
    <2> QED BY <2>1, <2>6
  <1>4. t[n] = u[n]
    <2>1. n \in 0..n OBVIOUS
    <2> QED BY <1>3, <2>1
  <1>5. u[n + 1] = FeedSynced(u[n], at + n, out[at + n])
    <2>1. n + 1 \in 1..(n + 1) /\ n + 1 - 1 = n /\ at + (n + 1) - 1 = at + n OBVIOUS
    <2> QED BY <1>2, <2>1
  <1> QED BY <1>1, <1>2, <1>4, <1>5

LEMMA OriginalNext ==
  ASSUME file \in Files
  PROVE  /\ Original(0) = Tracker(0)
         /\ \A k \in 0..(file.len - 1) : Original(k + 1) = FeedSynced(Original(k), k, <<"orig">>)
  <1>1. Original(0) = Tracker(0) BY FedNone DEF Original
  <1>2. ASSUME NEW k \in 0..(file.len - 1)
        PROVE  Original(k + 1) = FeedSynced(Original(k), k, <<"orig">>)
    <2> DEFINE bytes == [x \in 0..file.len |-> <<"orig">>]
               first == Tracker(0)
    <2>1. file.len \in Nat BY FileIs
    <2>2. k \in Nat /\ bytes[k] = <<"orig">> /\ 0 + k = k BY <2>1
    <2>3. Original(k + 1) = FedSynced(first, 0, k + 1, bytes) BY DEF Original
    <2>4. Original(k) = FedSynced(first, 0, k, bytes) BY DEF Original
    <2> HIDE DEF bytes, first
    <2>5. FedSynced(first, 0, k + 1, bytes)
            = FeedSynced(FedSynced(first, 0, k, bytes), 0 + k, bytes[0 + k])
      BY <2>2, FedNext
    <2> QED BY <2>2, <2>3, <2>4, <2>5
  <1> QED BY <1>1, <1>2

\* Where an element finds its parent: below it, on the stack, only masters that it ends.
Above(stack, n) == IF n = 0 THEN "root" ELSE stack[n].id
Taken(stack, e, n) ==
  /\ n \in 0..Len(stack) /\ Allowed(Above(stack, n), e.id)
  /\ \A j \in (n + 1)..Len(stack) : stack[j].end = NoEnd /\ ~Allowed(stack[j].id, e.id)
  /\ e.end = NoEnd => e.id \in {"segment", "cluster"}
  /\ n # 0 => stack[n].end = NoEnd \/ ~(e.end > stack[n].end)
  /\ e.end # NoEnd => ~(e.end > file.len)
Opened(stack, e, n) ==
  LET under == SubSeq(stack, 1, n) IN IF e.id \in Descends THEN Append(under, e) ELSE under

LEMMA InnermostIs ==
  ASSUME NEW M, NEW stack \in Seq(M), NEW n \in 0..Len(stack)
  PROVE  /\ Innermost(SubSeq(stack, 1, n)) = Above(stack, n)
         /\ (SubSeq(stack, 1, n) = <<>>) <=> n = 0
         /\ n # 0 => Last(SubSeq(stack, 1, n)) = stack[n]
  <1> DEFINE few == SubSeq(stack, 1, n)
  <1>1. few \in Seq(M) /\ Len(few) = n /\ \A i \in 1..n : few[i] = stack[i] BY PrefixIs
  <1>2. n \in Nat BY LenProperties
  <1> HIDE DEF few
  <1>3. few = <<>> <=> n = 0 BY <1>1, EmptySeq
  <1>4. n # 0 => Last(few) = stack[n] BY <1>1, <1>2 DEF Last
  <1>5. Innermost(few) = Above(stack, n) BY <1>3, <1>4 DEF Innermost, Above
  <1> QED BY <1>3, <1>4, <1>5 DEF few

LEMMA ParentsAre ==
  ASSUME NEW M, NEW stack \in Seq(M), NEW id, NEW n
  PROVE  n \in Parents(stack, id) <=>
           /\ n \in 0..Len(stack) /\ Allowed(Above(stack, n), id)
           /\ \A j \in (n + 1)..Len(stack) : stack[j].end = NoEnd /\ ~Allowed(stack[j].id, id)
  BY InnermostIs DEF Parents

\* There is one such place at most.
LEMMA OneParent ==
  ASSUME NEW M, NEW stack \in Seq(M), NEW id, NEW n \in Parents(stack, id)
  PROVE  Parents(stack, id) = {n}
  <1>1. Len(stack) \in Nat BY LenProperties
  <1>2. ASSUME NEW m \in Parents(stack, id), NEW k \in Parents(stack, id), m < k PROVE FALSE
    <2>1. /\ m \in 0..Len(stack) /\ k \in 0..Len(stack) /\ Allowed(Above(stack, k), id)
          /\ \A j \in (m + 1)..Len(stack) : ~Allowed(stack[j].id, id)
      BY <1>2, ParentsAre
    <2>2. k \in (m + 1)..Len(stack) /\ k # 0 BY <1>1, <1>2, <2>1
    <2>3. Above(stack, k) = stack[k].id BY <2>2 DEF Above
    <2> QED BY <2>1, <2>2, <2>3
  <1>3. \A m \in Parents(stack, id) : m \in 0..Len(stack) BY ParentsAre
  <1>4. \A m \in Parents(stack, id) : m \in Nat BY <1>1, <1>3
  <1>5. \A m \in Parents(stack, id) : m = n BY <1>2, <1>4
  <1> QED BY <1>5

Accepted(tr, e, n) ==
  [tr EXCEPT !.held = 0,
     !.ebml = IF e.id = "ebml" /\ e.start = 0 THEN "yes" ELSE @,
     !.seen = @ \/ e.id = "cluster",
     !.leaf = IF e.id \notin Descends /\ e.end # e.pay THEN e ELSE Nothing,
     !.stack = Finished(Opened(tr.stack, e, n), e.pay)]

LEMMA OnElementIs ==
  ASSUME NEW M, NEW tr, tr.stack \in Seq(M), NEW e, NEW n, Taken(tr.stack, e, n)
  PROVE  OnElement(tr, e) = Accepted(tr, e, n)
  <1> DEFINE ns == Parents(tr.stack, e.id)
             stack == SubSeq(tr.stack, 1, Least(ns))
             parentEnd == IF stack = <<>> THEN NoEnd ELSE Last(stack).end
             sized == e.end # NoEnd
             bad == ns = {} \/ (~sized /\ e.id \notin {"segment", "cluster"})
                    \/ (parentEnd # NoEnd /\ e.end > parentEnd) \/ (sized /\ e.end > file.len)
             on == IF e.id \in Descends THEN Append(stack, e) ELSE stack
  <1>1. OnElement(tr, e) =
          IF bad THEN Lost(tr, e.start)
          ELSE [tr EXCEPT !.held = 0,
                  !.ebml = IF e.id = "ebml" /\ e.start = 0 THEN "yes" ELSE @,
                  !.seen = @ \/ e.id = "cluster",
                  !.leaf = IF e.id \notin Descends /\ e.end # e.pay THEN e ELSE Nothing,
                  !.stack = Finished(on, e.pay)]
    BY DEF OnElement
  <1>2. n \in ns BY ParentsAre DEF Taken
  <1>3. ns = {n} /\ n \in 0..Len(tr.stack) BY <1>2, OneParent DEF Taken
  <1>4. Least(ns) = n
    <2>1. Len(tr.stack) \in Nat BY LenProperties
    <2>2. ns \in SUBSET Nat BY <1>3, <2>1
    <2> HIDE DEF ns
    <2> QED BY <1>3, <2>2, LeastIs
  <1>5. stack = SubSeq(tr.stack, 1, n) BY <1>4
  <1>6. on = Opened(tr.stack, e, n) BY <1>5 DEF Opened
  <1>7. ~bad
    <2>1. parentEnd = IF n = 0 THEN NoEnd ELSE tr.stack[n].end BY <1>3, <1>5, InnermostIs
    <2> HIDE DEF parentEnd, ns
    <2> QED BY <1>2, <2>1 DEF Taken
  <1> HIDE DEF bad, on
  <1> QED BY <1>1, <1>6, <1>7 DEF Accepted

LEMMA OnElementTaken ==
  ASSUME NEW M, NEW tr, tr.stack \in Seq(M), IsTracker(tr), NEW e, OnElement(tr, e).mode = "synced"
  PROVE  \E n : Taken(tr.stack, e, n)
  <1> DEFINE ns == Parents(tr.stack, e.id)
             n == Least(ns)
             stack == SubSeq(tr.stack, 1, n)
             parentEnd == IF stack = <<>> THEN NoEnd ELSE Last(stack).end
             sized == e.end # NoEnd
             bad == ns = {} \/ (~sized /\ e.id \notin {"segment", "cluster"})
                    \/ (parentEnd # NoEnd /\ e.end > parentEnd) \/ (sized /\ e.end > file.len)
  <1>1. bad => OnElement(tr, e) = Lost(tr, e.start) BY DEF OnElement
  <1>2. Lost(tr, e.start).mode # "synced" BY DEF Lost, IsTracker
  <1>3. ~bad
    <2> HIDE DEF bad
    <2> QED BY <1>1, <1>2
  <1>4. n \in ns
    <2>1. Len(tr.stack) \in Nat BY LenProperties
    <2>2. ns \in SUBSET (0..Len(tr.stack)) BY DEF Parents
    <2>3. ns # {} BY <1>3
    <2> HIDE DEF ns
    <2> QED BY <2>1, <2>2, <2>3, LeastIs
  <1> HIDE DEF n
  <1>5. /\ n \in 0..Len(tr.stack) /\ Allowed(Above(tr.stack, n), e.id)
        /\ \A j \in (n + 1)..Len(tr.stack) :
              tr.stack[j].end = NoEnd /\ ~Allowed(tr.stack[j].id, e.id)
    BY <1>4, ParentsAre
  <1>6. parentEnd = IF n = 0 THEN NoEnd ELSE tr.stack[n].end BY <1>5, InnermostIs
  <1> HIDE DEF parentEnd, ns
  <1>7. Taken(tr.stack, e, n) BY <1>3, <1>5, <1>6 DEF Taken
  <1> QED BY <1>7

\* The stack after an element: its parents, and it, less those that are over.
On(stack, e, n, i) == IF i <= n THEN stack[i] ELSE e
Depth(e, n) == IF e.id \in Descends THEN n + 1 ELSE n

LEMMA OpenedIs ==
  ASSUME NEW M, NEW stack \in Seq(M), NEW n \in 0..Len(stack), NEW e,
         e.id \in Descends => e \in M
  PROVE  /\ Opened(stack, e, n) \in Seq(M) /\ Len(Opened(stack, e, n)) = Depth(e, n)
         /\ \A i \in 1..Depth(e, n) : Opened(stack, e, n)[i] = On(stack, e, n, i)
  <1> DEFINE under == SubSeq(stack, 1, n)
  <1>1. under \in Seq(M) /\ Len(under) = n /\ \A i \in 1..n : under[i] = stack[i] BY PrefixIs
  <1>2. n \in Nat BY LenProperties
  <1>3. Opened(stack, e, n) = IF e.id \in Descends THEN Append(under, e) ELSE under BY DEF Opened
  <1> HIDE DEF under
  <1>4. CASE e.id \in Descends
    <2>1. /\ Append(under, e) \in Seq(M) /\ Len(Append(under, e)) = n + 1
          /\ \A i \in 1..n : Append(under, e)[i] = under[i]
          /\ Append(under, e)[n + 1] = e
      BY <1>1, <1>4, AppendProperties
    <2>2. \A i \in 1..(n + 1) : i \in 1..n \/ (i = n + 1 /\ ~(i <= n)) BY <1>2
    <2>3. \A i \in 1..n : i <= n BY <1>2
    <2> QED BY <1>1, <1>3, <1>4, <2>1, <2>2, <2>3 DEF Depth, On
  <1>5. CASE e.id \notin Descends
    <2>1. \A i \in 1..n : i <= n BY <1>2
    <2> QED BY <1>1, <1>3, <1>5, <2>1 DEF Depth, On
  <1> QED BY <1>4, <1>5

LevelId(i) == IF i = 1 THEN "segment" ELSE IF i = 2 THEN "cluster" ELSE "group"
\* Segment, Cluster, BlockGroup: there are no deeper stacks.
Levels(stack) ==
  /\ Len(stack) <= 3
  /\ \A i \in 1..Len(stack) : stack[i].id = LevelId(i) /\ (i = 3 => stack[i].end # NoEnd)

LEMMA TakenLevel ==
  ASSUME NEW M, NEW stack \in Seq(M), Levels(stack), NEW e, NEW n, Taken(stack, e, n)
  PROVE  /\ n \in 0..3 /\ n <= Len(stack)
         /\ e.id \in Descends => n < 3 /\ e.id = LevelId(n + 1)
         /\ e.id = "cluster" => n = 1
         /\ e.id \in Descends \/ e.id = "ebml" \/ n >= 1
  <1>1. Len(stack) \in Nat BY LenProperties
  <1>2. n \in 0..Len(stack) /\ Allowed(Above(stack, n), e.id) BY DEF Taken
  <1>3. n \in 0..3 /\ n <= Len(stack) BY <1>1, <1>2 DEF Levels
  <1>4. n # 0 => stack[n].id = LevelId(n) BY <1>1, <1>2 DEF Levels
  <1>5. CASE n = 0 BY <1>2, <1>3, <1>5 DEF Above, Allowed, Descends, LevelId
  <1>6. CASE n = 1
    <2>1. Allowed("segment", e.id) BY <1>2, <1>4, <1>6 DEF Above, LevelId
    <2> QED BY <1>3, <1>6, <2>1 DEF Allowed, Descends, LevelId
  <1>7. CASE n = 2
    <2>1. Allowed("cluster", e.id) BY <1>2, <1>4, <1>7 DEF Above, LevelId
    <2> QED BY <1>3, <1>7, <2>1 DEF Allowed, Descends, LevelId
  <1>8. CASE n = 3
    <2>1. Allowed("group", e.id) BY <1>2, <1>4, <1>8 DEF Above, LevelId
    <2> QED BY <1>3, <1>8, <2>1 DEF Allowed, Descends, LevelId
  <1> QED BY <1>3, <1>5, <1>6, <1>7, <1>8

\* The file as its own tracker reads it, at each offset.
Nested(stack) == \A i, j \in 1..Len(stack) : i < j => stack[j].end <= stack[i].end
Shape(t, k) ==
  /\ IsTracker(t) /\ t.mode = "synced" /\ t.stack \in Seq(file.elements)
  /\ Levels(t.stack) /\ Nested(t.stack)
  /\ t.held \in {0, 1} /\ t.held <= k
  /\ \A i \in 1..Len(t.stack) : t.stack[i].end > k - t.held
  /\ t.leaf # Nothing =>
       /\ t.leaf \in file.elements /\ t.leaf.id \notin Descends /\ t.held = 0
       /\ t.leaf.end <= file.len /\ t.leaf.pay <= k /\ k < t.leaf.end
       /\ \A i \in 1..Len(t.stack) : t.leaf.end <= t.stack[i].end

\* What is left of a nested stack ends after the offset, and nothing else does.
LEMMA FinishedNested ==
  ASSUME file \in Files, NEW stack \in Seq(file.elements), Nested(stack), NEW pos \in Int
  PROVE  \E m \in 0..Len(stack) :
           /\ Finished(stack, pos) = SubSeq(stack, 1, m)
           /\ Finished(stack, pos) \in Seq(file.elements) /\ Len(Finished(stack, pos)) = m
           /\ \A i \in 1..m : Finished(stack, pos)[i] = stack[i] /\ stack[i].end > pos
           /\ \A j \in (m + 1)..Len(stack) : stack[j].end <= pos
  <1>1. PICK m \in 0..Len(stack) :
           /\ Finished(stack, pos) = SubSeq(stack, 1, m)
           /\ \A j \in (m + 1)..Len(stack) : stack[j].end <= pos
           /\ m # 0 => ~(stack[m].end <= pos)
           /\ Finished(stack, pos) \in Seq(file.elements)
    BY FinishedIs
  <1>2. Len(SubSeq(stack, 1, m)) = m /\ \A i \in 1..m : SubSeq(stack, 1, m)[i] = stack[i]
    BY PrefixIs
  <1>3. Len(stack) \in Nat /\ m \in Nat /\ m <= Len(stack) BY LenProperties
  <1>4. ASSUME NEW i \in 1..m PROVE stack[i].end > pos
    <2>1. i \in 1..Len(stack) /\ m \in 1..Len(stack) BY <1>3
    <2>2. stack[i].end \in Nat /\ stack[m].end \in Nat BY <2>1, FileIs, ElementOfSeq
    <2>3. i = m \/ stack[m].end <= stack[i].end BY <1>3, <2>1 DEF Nested
    <2>4. stack[m].end > pos BY <1>1, <1>3, <2>2
    <2> QED BY <2>2, <2>3, <2>4
  <1> QED BY <1>1, <1>2, <1>4

LEMMA PrefixNested ==
  ASSUME NEW M, NEW a \in Seq(M), NEW b \in Seq(M), Len(b) <= Len(a),
         \A i \in 1..Len(b) : b[i] = a[i]
  PROVE  (Levels(a) => Levels(b)) /\ (Nested(a) => Nested(b))
  <1>1. Len(a) \in Nat /\ Len(b) \in Nat BY LenProperties
  <1>2. \A i \in 1..Len(b) : i \in 1..Len(a) BY <1>1
  <1>3. Levels(a) => Levels(b) BY <1>1, <1>2 DEF Levels
  <1>4. Nested(a) => Nested(b) BY <1>2 DEF Nested
  <1> QED BY <1>3, <1>4

\* What a byte does to a tracker that is in step.
LEMMA FeedLeaf ==
  ASSUME NEW tr, IsTracker(tr), tr.mode = "synced", tr.leaf # Nothing, NEW o, NEW byte
  PROVE  LET t == FeedSynced(tr, o, byte) IN
         /\ IsTracker(t) /\ t.mode = "synced" /\ t.held = tr.held
         /\ o + 1 < tr.leaf.end => t = tr
         /\ ~(o + 1 < tr.leaf.end) => t.leaf = Nothing /\ t.stack = Finished(tr.stack, o + 1)
  BY DEF FeedSynced, IsTracker

LEMMA FeedFirst ==
  ASSUME NEW tr, IsTracker(tr), tr.mode = "synced", tr.leaf = Nothing, tr.held = 0,
         NEW o \in Int, NEW byte, HeaderAt(o, byte) # {}
  PROVE  LET t == FeedSynced(tr, o, byte) IN
         /\ IsTracker(t) /\ t.mode = "synced" /\ t.held = 1 /\ t.leaf = Nothing
         /\ t.stack = tr.stack
  BY DEF FeedSynced, IsTracker, HeaderLen

LEMMA FeedSecond ==
  ASSUME NEW tr, tr.mode = "synced", tr.leaf = Nothing, tr.held = 1,
         NEW o \in Int, NEW byte, HeaderAt(o - 1, byte) # {}
  PROVE  FeedSynced(tr, o, byte) = OnElement(tr, CHOOSE e \in HeaderAt(o - 1, byte) : TRUE)
  BY DEF FeedSynced, HeaderLen

LEMMA FeedLost ==
  ASSUME NEW tr, IsTracker(tr), tr.mode = "synced", tr.leaf = Nothing,
         NEW o, NEW byte, HeaderAt(o - tr.held, byte) = {}
  PROVE  FeedSynced(tr, o, byte).mode # "synced"
  BY DEF FeedSynced, Lost, IsTracker

\* An element that finds its place.
LEMMA MastersToo ==
  ASSUME NEW stack \in Seq(file.elements)
  PROVE  stack \in Seq(Masters(file))
  <1>1. Len(stack) \in Nat /\ stack \in [1..Len(stack) -> file.elements] BY LenProperties
  <1>2. file.elements \subseteq Masters(file) BY DEF Masters
  <1>3. stack \in [1..Len(stack) -> Masters(file)] BY <1>1, <1>2
  <1> QED BY <1>1, <1>3, SeqDef

Placed(stack, e, n, t) ==
  /\ IsTracker(t) /\ t.mode = "synced" /\ t.held = 0
  /\ t.leaf = IF e.id \notin Descends /\ e.end # e.pay THEN e ELSE Nothing
  /\ t.stack = Finished(Opened(stack, e, n), e.pay)

LEMMA TakenIs ==
  ASSUME NEW tr, IsTracker(tr), tr.mode = "synced", tr.stack \in Seq(Masters(file)),
         NEW e, NEW n, Taken(tr.stack, e, n)
  PROVE  Placed(tr.stack, e, n, OnElement(tr, e))
  <1>1. OnElement(tr, e) = Accepted(tr, e, n) BY OnElementIs
  <1> QED BY <1>1 DEF Accepted, Placed, IsTracker

LEMMA OpenedIn ==
  ASSUME file \in Files, NEW M \in SUBSET Masters(file),
         NEW stack \in Seq(M), Levels(stack), Nested(stack), NEW e \in M, NEW n, Taken(stack, e, n)
  PROVE  LET new == Opened(stack, e, n) IN
         /\ new \in Seq(M) /\ Levels(new) /\ Nested(new)
         /\ \A i \in 1..Len(new) : e.end <= new[i].end
  <1> DEFINE new == Opened(stack, e, n)
             d == Depth(e, n)
  <1>1. Len(stack) \in Nat BY LenProperties
  <1>2. n \in 0..3 /\ n <= Len(stack) /\ n \in 0..Len(stack) BY <1>1, TakenLevel DEF Taken
  <1>3. e.id \in Descends => n < 3 /\ e.id = LevelId(n + 1) BY TakenLevel
  <1>4. new \in Seq(M) /\ Len(new) = d /\ \A i \in 1..d : new[i] = On(stack, e, n, i)
    <2>1. e.id \in Descends => e \in M OBVIOUS
    <2> HIDE DEF new, d
    <2>2. /\ Opened(stack, e, n) \in Seq(M)
          /\ Len(Opened(stack, e, n)) = Depth(e, n)
          /\ \A i \in 1..Depth(e, n) : Opened(stack, e, n)[i] = On(stack, e, n, i)
      <3>1. n \in 0..Len(stack) BY <1>2
      <3> QED BY <2>1, <3>1, OpenedIs
    <2> QED BY <2>2 DEF new, d
  <1>5. d \in 0..3 /\ (d = n \/ (d = n + 1 /\ e.id \in Descends)) BY <1>2, <1>3 DEF Depth
  <1>6. \A i \in 1..n : i \in 1..Len(stack) BY <1>1, <1>2
  <1>7. ASSUME NEW i \in 1..d
        PROVE  /\ i <= n => i \in 1..Len(stack) /\ new[i] = stack[i]
               /\ ~(i <= n) => i = n + 1 /\ new[i] = e /\ e.id \in Descends
    BY <1>2, <1>4, <1>5, <1>6 DEF On
  <1> HIDE DEF new, d
  <1>8. \A i \in 1..Len(stack) : stack[i] \in M BY ElementOfSeq
  <1>9. \A x \in M : x.end \in Nat /\ x.end <= NoEnd BY FileIs, SMT DEF NoEnd, Masters
  <1>10. n # 0 => e.end <= stack[n].end
    <2> SUFFICES ASSUME n # 0 PROVE e.end <= stack[n].end OBVIOUS
    <2>1. stack[n] \in M BY <1>2, <1>6, <1>8
    <2>2. stack[n].end = NoEnd \/ ~(e.end > stack[n].end) BY DEF Taken
    <2>3. e.end \in Nat /\ stack[n].end \in Nat /\ e.end <= NoEnd BY <1>9, <2>1
    <2> QED BY <2>2, <2>3, SMT DEF NoEnd
  <1>11. ASSUME NEW i \in 1..d PROVE e.end <= new[i].end
    <2>1. CASE ~(i <= n) BY <1>7, <1>9, <2>1
    <2>2. CASE i <= n
      <3>1. i \in 1..Len(stack) /\ n \in 1..Len(stack) /\ n # 0 BY <1>2, <1>6, <2>2
      <3>2. i = n \/ stack[n].end <= stack[i].end BY <1>2, <2>2, <3>1 DEF Nested
      <3>3. e.end <= stack[n].end BY <1>10, <3>1
      <3>4. e.end \in Nat /\ stack[n].end \in Nat /\ stack[i].end \in Nat BY <1>8, <1>9, <3>1
      <3> QED BY <1>7, <2>2, <3>2, <3>3, <3>4
    <2> QED BY <2>1, <2>2
  <1>12. Levels(new)
    <2>1. ASSUME NEW i \in 1..d
          PROVE  new[i].id = LevelId(i) /\ (i = 3 => new[i].end # NoEnd)
      <3>1. CASE i <= n BY <1>7, <3>1 DEF Levels
      <3>2. CASE ~(i <= n)
        <4>1. new[i] = e /\ e.id \in Descends /\ i = n + 1 /\ e.id = LevelId(i)
          BY <1>3, <1>7, <3>2
        <4>2. i = 3 => e.id = "group" BY <4>1 DEF LevelId
        <4>3. e.end = NoEnd => e.id \in {"segment", "cluster"} BY DEF Taken
        <4> QED BY <4>1, <4>2, <4>3
      <3> QED BY <3>1, <3>2
    <2> QED BY <1>4, <1>5, <2>1 DEF Levels
  <1>13. Nested(new)
    <2>1. ASSUME NEW i \in 1..d, NEW j \in 1..d, i < j PROVE new[j].end <= new[i].end
      <3>1. CASE j <= n
        <4>1. i <= n BY <1>2, <1>5, <2>1, <3>1
        <4>2. i \in 1..Len(stack) /\ j \in 1..Len(stack) BY <1>7, <3>1, <4>1
        <4> QED BY <1>7, <2>1, <3>1, <4>1, <4>2 DEF Nested
      <3>2. CASE ~(j <= n) BY <1>7, <1>11, <3>2
      <3> QED BY <3>1, <3>2
    <2> QED BY <1>4, <2>1 DEF Nested
  <1> QED BY <1>4, <1>11, <1>12, <1>13 DEF new, d

LEMMA OpenedShape ==
  ASSUME file \in Files, NEW stack \in Seq(file.elements), Levels(stack), Nested(stack),
         NEW e \in file.elements, NEW n, Taken(stack, e, n)
  PROVE  LET new == Opened(stack, e, n) IN
         /\ new \in Seq(file.elements) /\ Levels(new) /\ Nested(new)
         /\ \A i \in 1..Len(new) : e.end <= new[i].end
  <1>1. file.elements \in SUBSET Masters(file) BY DEF Masters
  <1> QED BY <1>1, OpenedIn

LEMMA OpenedMasters ==
  ASSUME file \in Files, NEW stack \in Seq(Masters(file)), Levels(stack), Nested(stack),
         NEW e \in Masters(file), NEW n, Taken(stack, e, n)
  PROVE  LET new == Opened(stack, e, n) IN
         new \in Seq(Masters(file)) /\ Levels(new) /\ Nested(new)
  <1>1. Masters(file) \in SUBSET Masters(file) OBVIOUS
  <1> QED BY <1>1, OpenedIn

\* An offset where an element may begin or end, and a file that is read from end to end:
\* each element begins where the one before it ends or its parent's header does.
Boundary(k) == Original(k).held = 0 /\ Original(k).leaf = Nothing
WellFormed ==
  /\ \A k \in 0..file.len : Original(k).mode = "synced"
  /\ \A e \in file.elements : Boundary(e.start)
  /\ \A d, e \in file.elements :
        d.start = e.start \/ (d.id = "segment" /\ e.id = "segment") => d = e
  /\ \A e \in file.elements : e.id = "segment" => e.end \in {file.len, NoEnd}

LEMMA OrigHeader ==
  ASSUME NEW s
  PROVE  HeaderAt(s, <<"orig">>) = {e \in file.elements : e.start = s}
  BY DEF HeaderAt

\* An element that is read from its header on.
LEMMA ElementShape ==
  ASSUME file \in Files, NEW k \in Nat, NEW t, Shape(t, k), t.held = 1,
         NEW e \in file.elements, e.start = k - 1, NEW n, Taken(t.stack, e, n)
  PROVE  Shape(OnElement(t, e), k + 1)
  <1> DEFINE u == OnElement(t, e)
  <1>0. /\ IsTracker(t) /\ t.mode = "synced"
        /\ t.stack \in Seq(file.elements) /\ t.stack \in Seq(Masters(file))
    BY MastersToo DEF Shape
  <1>2. Levels(t.stack) /\ Nested(t.stack) BY DEF Shape
  <1>1. Placed(t.stack, e, n, u) BY <1>0, TakenIs
  <1> HIDE DEF u
  <1>3. IsTracker(u) /\ u.mode = "synced" /\ u.held = 0 BY <1>1 DEF Placed
  <1>4. e.pay = k + 1 /\ e.end \in Nat /\ e.pay <= e.end /\ (e.end = NoEnd \/ e.end <= file.len)
    <2>1. e.pay = e.start + HeaderLen BY FileIs
    <2>2. e.pay = k + 1 BY <2>1, SMT DEF HeaderLen
    <2> QED BY <2>2, FileIs
  <1>5. u.leaf = IF e.id \notin Descends /\ e.end # e.pay THEN e ELSE Nothing
    BY <1>1 DEF Placed
  <1>6. u.stack = Finished(Opened(t.stack, e, n), e.pay) BY <1>1 DEF Placed
  <1> DEFINE new == Opened(t.stack, e, n)
  <1>8. /\ new \in Seq(file.elements) /\ Levels(new) /\ Nested(new)
        /\ \A i \in 1..Len(new) : e.end <= new[i].end
    BY <1>0, <1>2, OpenedShape
  <1>9. PICK m \in 0..Len(new) :
           /\ u.stack \in Seq(file.elements) /\ Len(u.stack) = m
           /\ \A i \in 1..m : u.stack[i] = new[i] /\ new[i].end > k + 1
    <2>1. k + 1 \in Int OBVIOUS
    <2>2. u.stack = Finished(new, k + 1) BY <1>4, <1>6
    <2> HIDE DEF new
    <2>3. PICK m \in 0..Len(new) :
             /\ Finished(new, k + 1) \in Seq(file.elements) /\ Len(Finished(new, k + 1)) = m
             /\ \A i \in 1..m : Finished(new, k + 1)[i] = new[i] /\ new[i].end > k + 1
      BY <1>8, <2>1, FinishedNested
    <2> QED BY <2>2, <2>3
  <1> HIDE DEF new
  <1>10. Len(new) \in Nat BY <1>8, LenProperties
  <1>11. Levels(u.stack) /\ Nested(u.stack) BY <1>8, <1>9, <1>10, PrefixNested
  <1>12. \A i \in 1..Len(u.stack) : u.stack[i].end > k + 1 - u.held BY <1>3, <1>9
  <1>13. ASSUME u.leaf # Nothing
         PROVE  /\ u.leaf \in file.elements /\ u.leaf.id \notin Descends
                /\ u.leaf.end <= file.len /\ u.leaf.pay <= k + 1 /\ k + 1 < u.leaf.end
                /\ \A i \in 1..Len(u.stack) : u.leaf.end <= u.stack[i].end
    <2>1. u.leaf = e /\ e.id \notin Descends /\ e.end # e.pay BY <1>5, <1>13
    <2>2. e.end # NoEnd BY <2>1 DEF Taken, Descends
    <2>3. \A i \in 1..m : i \in 1..Len(new) BY <1>10
    <2>4. \A i \in 1..Len(u.stack) : e.end <= u.stack[i].end BY <1>8, <1>9, <2>3
    <2>5. e.end <= file.len BY <1>4, <2>2
    <2> QED BY <1>4, <2>1, <2>4, <2>5
  <1>14. Shape(u, k + 1) BY <1>3, <1>9, <1>11, <1>12, <1>13 DEF Shape
  <1> QED BY <1>14 DEF u

LEMMA ShapeStep ==
  ASSUME file \in Files, NEW k \in Nat, k < file.len, NEW t, Shape(t, k),
         FeedSynced(t, k, <<"orig">>).mode = "synced"
  PROVE  Shape(FeedSynced(t, k, <<"orig">>), k + 1)
  <1> DEFINE u == FeedSynced(t, k, <<"orig">>)
  <1>1. /\ IsTracker(t) /\ t.mode = "synced" /\ t.stack \in Seq(file.elements)
        /\ Levels(t.stack) /\ Nested(t.stack) /\ t.held \in {0, 1} /\ t.held <= k
        /\ \A i \in 1..Len(t.stack) : t.stack[i].end > k - t.held
    BY DEF Shape
  <1>2. file.len \in Nat BY FileIs
  <1>3. \A i \in 1..Len(t.stack) : t.stack[i] \in file.elements /\ t.stack[i].end \in Nat
    <2>1. \A i \in 1..Len(t.stack) : t.stack[i] \in file.elements BY <1>1, ElementOfSeq
    <2> QED BY <2>1, FileIs
  <1>4. CASE t.leaf # Nothing
    <2>1. /\ t.leaf \in file.elements /\ t.leaf.id \notin Descends /\ t.held = 0
          /\ t.leaf.end <= file.len /\ t.leaf.pay <= k /\ k < t.leaf.end
          /\ \A i \in 1..Len(t.stack) : t.leaf.end <= t.stack[i].end
      BY <1>4 DEF Shape
    <2>2. t.leaf.end \in Nat /\ t.leaf.pay \in Nat BY <2>1, FileIs
    <2>3. /\ IsTracker(u) /\ u.mode = "synced" /\ u.held = t.held
          /\ k + 1 < t.leaf.end => u = t
          /\ ~(k + 1 < t.leaf.end) => u.leaf = Nothing /\ u.stack = Finished(t.stack, k + 1)
      BY <1>1, <1>4, FeedLeaf
    <2> HIDE DEF u
    <2>4. CASE k + 1 < t.leaf.end
      <3>1. t.leaf.pay <= k + 1 BY <2>1, <2>2
      <3>2. \A i \in 1..Len(t.stack) : t.stack[i].end > k + 1 - t.held
        BY <1>3, <2>1, <2>2, <2>4
      <3>3. t.held <= k + 1 BY <2>1
      <3>4. Shape(t, k + 1) BY <1>1, <2>1, <2>4, <3>1, <3>2, <3>3 DEF Shape
      <3> QED BY <2>3, <2>4, <3>4 DEF u
    <2>5. CASE ~(k + 1 < t.leaf.end)
      <3>1. PICK m \in 0..Len(t.stack) :
               /\ u.stack \in Seq(file.elements) /\ Len(u.stack) = m
               /\ \A i \in 1..m : u.stack[i] = t.stack[i] /\ t.stack[i].end > k + 1
        <4>1. k + 1 \in Int /\ u.stack = Finished(t.stack, k + 1) BY <2>3, <2>5
        <4>2. PICK m \in 0..Len(t.stack) :
                 /\ Finished(t.stack, k + 1) \in Seq(file.elements)
                 /\ Len(Finished(t.stack, k + 1)) = m
                 /\ \A i \in 1..m : /\ Finished(t.stack, k + 1)[i] = t.stack[i]
                                    /\ t.stack[i].end > k + 1
          BY <1>1, <4>1, FinishedNested
        <4> QED BY <4>1, <4>2
      <3>2. Len(t.stack) \in Nat BY <1>1, LenProperties
      <3>3. Levels(u.stack) /\ Nested(u.stack) BY <1>1, <3>1, <3>2, PrefixNested
      <3>4. \A i \in 1..Len(u.stack) : u.stack[i].end > k + 1 - u.held
        BY <2>1, <2>3, <3>1
      <3>5. u.held \in {0, 1} /\ u.held <= k + 1 BY <2>1, <2>3
      <3>6. IsTracker(u) /\ u.mode = "synced" /\ u.leaf = Nothing BY <2>3, <2>5
      <3>7. Shape(u, k + 1) BY <3>1, <3>3, <3>4, <3>5, <3>6 DEF Shape
      <3> QED BY <3>7 DEF u
    <2> QED BY <2>4, <2>5 DEF u
  <1>5. CASE t.leaf = Nothing /\ t.held = 0
    <2>1. k - t.held = k BY <1>5
    <2>2. HeaderAt(k, <<"orig">>) # {} BY <1>1, <1>5, <2>1, FeedLost
    <2>3. /\ IsTracker(u) /\ u.mode = "synced" /\ u.held = 1 /\ u.leaf = Nothing
          /\ u.stack = t.stack
      BY <1>1, <1>5, <2>2, FeedFirst
    <2> HIDE DEF u
    <2>4. \A i \in 1..Len(u.stack) : u.stack[i].end > k + 1 - u.held
      BY <1>1, <1>3, <1>5, <2>3
    <2>5. u.held \in {0, 1} /\ u.held <= k + 1 BY <2>3
    <2> QED BY <1>1, <2>3, <2>4, <2>5 DEF Shape, u
  <1>6. CASE t.leaf = Nothing /\ t.held = 1
    <2> DEFINE e == CHOOSE e \in HeaderAt(k - 1, <<"orig">>) : TRUE
    <2>1. HeaderAt(k - 1, <<"orig">>) # {} BY <1>1, <1>6, FeedLost
    <2>2. u = OnElement(t, e) BY <1>1, <1>6, <2>1, FeedSecond
    <2>3. e \in file.elements /\ e.start = k - 1 BY <2>1, OrigHeader
    <2> HIDE DEF e
    <2>4. OnElement(t, e).mode = "synced" BY <2>2
    <2>5. PICK n : Taken(t.stack, e, n) BY <1>1, <2>4, OnElementTaken
    <2>6. Shape(OnElement(t, e), k + 1) BY <1>6, <2>3, <2>5, ElementShape
    <2> QED BY <2>2, <2>6
  <1> QED BY <1>1, <1>4, <1>5, <1>6

LEMMA ShapeHolds ==
  ASSUME file \in Files, WellFormed
  PROVE  \A k \in 0..file.len : Shape(Original(k), k)
  <1> DEFINE Bad == {k \in 0..file.len : ~Shape(Original(k), k)}
  <1>1. file.len \in Nat BY FileIs
  <1>2. ASSUME Bad # {} PROVE FALSE
    <2>1. PICK k \in Bad : \A m \in Bad : k <= m
      <3>1. Bad \in SUBSET Nat BY <1>1
      <3> HIDE DEF Bad
      <3> QED BY <1>2, <3>1, First
    <2>2. CASE k = 0
      <3>1. Original(0) = Tracker(0) BY OriginalNext
      <3>2. Shape(Tracker(0), 0)
        <4>1. <<>> \in Seq(file.elements) /\ Len(<<>>) = 0 BY EmptySeq
        <4> QED BY <4>1 DEF Shape, Tracker, IsTracker, Levels, Nested
      <3> QED BY <2>1, <2>2, <3>1, <3>2
    <2>3. CASE k # 0
      <3>1. k \in 0..file.len BY <2>1
      <3>2. k - 1 \in 0..(file.len - 1) /\ k - 1 \in Nat /\ k - 1 < file.len /\ k - 1 + 1 = k
        BY <1>1, <2>3, <3>1
      <3>3. ~ (k - 1 \in Bad)
        <4> HIDE DEF Bad
        <4> QED BY <2>1, <3>1, <3>2
      <3>4. Shape(Original(k - 1), k - 1) BY <1>1, <3>1, <3>2, <3>3
      <3>5. Original(k) = FeedSynced(Original(k - 1), k - 1, <<"orig">>)
        BY <3>2, OriginalNext
      <3>6. Original(k).mode = "synced" BY <3>1 DEF WellFormed
      <3>7. Shape(Original(k), k)
        <4> HIDE DEF Bad
        <4> QED BY <3>2, <3>4, <3>5, <3>6, ShapeStep
      <3> QED BY <2>1, <3>7
    <2> QED BY <2>2, <2>3
  <1> QED BY <1>2

LEMMA ShapeAt ==
  ASSUME file \in Files, WellFormed, NEW k \in 0..file.len
  PROVE  /\ Shape(Original(k), k) /\ IsTracker(Original(k)) /\ Original(k).mode = "synced"
         /\ Original(k).stack \in Seq(file.elements) /\ Levels(Original(k).stack)
         /\ Nested(Original(k).stack) /\ Original(k).held \in {0, 1} /\ Original(k).held <= k
         /\ Original(k).leaf # Nothing => Original(k).held = 0
  BY ShapeHolds DEF Shape

\* How the file goes on: in a leaf, before a header, in one.
LEMMA FileLeaf ==
  ASSUME file \in Files, WellFormed, NEW k \in 0..(file.len - 1), Original(k).leaf # Nothing
  PROVE  /\ k + 1 < Original(k).leaf.end => Original(k + 1) = Original(k)
         /\ ~(k + 1 < Original(k).leaf.end) =>
              Boundary(k + 1) /\ Original(k + 1).stack = Finished(Original(k).stack, k + 1)
  <1>1. file.len \in Nat BY FileIs
  <1>2. k \in 0..file.len BY <1>1
  <1>3. IsTracker(Original(k)) /\ Original(k).mode = "synced" /\ Original(k).held = 0
    BY <1>2, ShapeAt
  <1>4. Original(k + 1) = FeedSynced(Original(k), k, <<"orig">>) BY OriginalNext
  <1> QED BY <1>3, <1>4, FeedLeaf DEF Boundary

LEMMA FileFirst ==
  ASSUME file \in Files, WellFormed, NEW k \in 0..(file.len - 1), Boundary(k)
  PROVE  /\ Original(k + 1).held = 1 /\ Original(k + 1).leaf = Nothing
         /\ Original(k + 1).stack = Original(k).stack
         /\ \E e \in file.elements : e.start = k
  <1>1. file.len \in Nat BY FileIs
  <1>2. k \in 0..file.len /\ k + 1 \in 0..file.len /\ k \in Int BY <1>1
  <1>3. IsTracker(Original(k)) /\ Original(k).mode = "synced" BY <1>2, ShapeAt
  <1>4. Original(k).held = 0 /\ Original(k).leaf = Nothing BY DEF Boundary
  <1>5. Original(k + 1) = FeedSynced(Original(k), k, <<"orig">>) BY OriginalNext
  <1>6. Original(k + 1).mode = "synced" BY <1>2, ShapeAt
  <1>7. k - Original(k).held = k BY <1>2, <1>4
  <1>8. HeaderAt(k, <<"orig">>) # {} BY <1>3, <1>4, <1>5, <1>6, <1>7, FeedLost
  <1>9. \E e \in file.elements : e.start = k BY <1>8, OrigHeader
  <1>10. /\ FeedSynced(Original(k), k, <<"orig">>).held = 1
         /\ FeedSynced(Original(k), k, <<"orig">>).leaf = Nothing
         /\ FeedSynced(Original(k), k, <<"orig">>).stack = Original(k).stack
    BY <1>2, <1>3, <1>4, <1>8, FeedFirst
  <1> QED BY <1>5, <1>9, <1>10

LEMMA FileSecond ==
  ASSUME file \in Files, WellFormed, NEW k \in 0..(file.len - 1), Original(k).held = 1
  PROVE  \E e \in file.elements : \E n :
           /\ e.start = k - 1 /\ e.pay = k + 1 /\ Taken(Original(k).stack, e, n)
           /\ Original(k + 1) = OnElement(Original(k), e)
  <1>1. file.len \in Nat BY FileIs
  <1>2. k \in 0..file.len /\ k + 1 \in 0..file.len /\ k \in Int BY <1>1
  <1>3. /\ IsTracker(Original(k)) /\ Original(k).mode = "synced"
        /\ Original(k).stack \in Seq(file.elements)
        /\ Original(k).leaf # Nothing => Original(k).held = 0
    BY <1>2, ShapeAt
  <1>4. Original(k).leaf = Nothing BY <1>3
  <1>5. Original(k + 1) = FeedSynced(Original(k), k, <<"orig">>) BY OriginalNext
  <1>6. Original(k + 1).mode = "synced" BY <1>2, ShapeAt
  <1> DEFINE e == CHOOSE e \in HeaderAt(k - 1, <<"orig">>) : TRUE
  <1>7. HeaderAt(k - 1, <<"orig">>) # {} BY <1>3, <1>4, <1>5, <1>6, FeedLost
  <1>8. Original(k + 1) = OnElement(Original(k), e) BY <1>2, <1>3, <1>4, <1>5, <1>7, FeedSecond
  <1>9. e \in file.elements /\ e.start = k - 1 BY <1>7, OrigHeader
  <1> HIDE DEF e
  <1>10. e.pay = k + 1
    <2>1. e.pay = e.start + HeaderLen BY <1>9, FileIs
    <2> QED BY <1>2, <1>9, <2>1, SMT DEF HeaderLen
  <1>11. OnElement(Original(k), e).mode = "synced" BY <1>6, <1>8
  <1>12. PICK n : Taken(Original(k).stack, e, n) BY <1>3, <1>11, OnElementTaken
  <1> QED BY <1>8, <1>9, <1>10, <1>12

\* A leaf is read to its end.
LEMMA LeafRun ==
  ASSUME file \in Files, WellFormed, NEW k \in 0..file.len, NEW e, e = Original(k).leaf,
         e # Nothing
  PROVE  /\ e \in file.elements /\ e.end \in 0..file.len /\ k < e.end
         /\ \A j \in k..(e.end - 1) : Original(j) = Original(k)
         /\ Boundary(e.end) /\ Original(e.end).stack = Finished(Original(k).stack, e.end)
  <1>1. file.len \in Nat /\ k \in Nat BY FileIs
  <1>2. e \in file.elements /\ e.end \in 0..file.len /\ k < e.end
    <2>1. e \in file.elements /\ e.end <= file.len /\ k < e.end BY ShapeHolds DEF Shape
    <2>2. e.end \in Nat BY <2>1, FileIs
    <2> QED BY <2>1, <2>2, <1>1
  <1> DEFINE Bad == {j \in k..(e.end - 1) : Original(j) # Original(k)}
  <1>3. ASSUME Bad # {} PROVE FALSE
    <2>1. PICK j \in Bad : \A m \in Bad : j <= m
      <3>1. Bad \in SUBSET Nat BY <1>1, <1>2
      <3> HIDE DEF Bad
      <3> QED BY <1>3, <3>1, First
    <2>2. j \in k..(e.end - 1) /\ Original(j) # Original(k) BY <2>1
    <2>3. j # k BY <2>2
    <2>4. /\ j - 1 \in k..(e.end - 1) /\ j - 1 \in 0..(file.len - 1)
          /\ j - 1 + 1 < e.end /\ j - 1 + 1 = j
      BY <1>1, <1>2, <2>2, <2>3
    <2>5. ~(j - 1 \in Bad)
      <3> HIDE DEF Bad
      <3> QED BY <1>1, <1>2, <2>1, <2>2, <2>4
    <2>6. Original(j - 1) = Original(k) BY <2>4, <2>5
    <2>7. Original(j - 1 + 1) = Original(j - 1) BY <2>4, <2>6, FileLeaf
    <2> QED BY <2>2, <2>4, <2>6, <2>7
  <1>4. \A j \in k..(e.end - 1) : Original(j) = Original(k) BY <1>3
  <1>5. Boundary(e.end) /\ Original(e.end).stack = Finished(Original(k).stack, e.end)
    <2>1. /\ e.end - 1 \in k..(e.end - 1) /\ e.end - 1 \in 0..(file.len - 1)
          /\ e.end - 1 + 1 = e.end
      BY <1>1, <1>2
    <2>2. Original(e.end - 1) = Original(k) BY <1>4, <2>1
    <2>3. ~(e.end - 1 + 1 < e.end) BY <1>2, <2>1
    <2> QED BY <2>1, <2>2, <2>3, FileLeaf
  <1> QED BY <1>2, <1>4, <1>5

LEMMA FinishedMasters ==
  ASSUME file \in Files, NEW stack \in Seq(Masters(file)), Nested(stack), NEW pos \in Int
  PROVE  \E m \in 0..Len(stack) :
           /\ Finished(stack, pos) \in Seq(Masters(file)) /\ Len(Finished(stack, pos)) = m
           /\ \A i \in 1..m : Finished(stack, pos)[i] = stack[i] /\ stack[i].end > pos
           /\ \A j \in (m + 1)..Len(stack) : stack[j].end <= pos
  <1>1. PICK m \in 0..Len(stack) :
           /\ Finished(stack, pos) = SubSeq(stack, 1, m)
           /\ \A j \in (m + 1)..Len(stack) : stack[j].end <= pos
           /\ m # 0 => ~(stack[m].end <= pos)
           /\ Finished(stack, pos) \in Seq(Masters(file))
    BY FinishedIs
  <1>2. Len(SubSeq(stack, 1, m)) = m /\ \A i \in 1..m : SubSeq(stack, 1, m)[i] = stack[i]
    BY PrefixIs
  <1>3. Len(stack) \in Nat /\ m \in Nat /\ m <= Len(stack) BY LenProperties
  <1>4. ASSUME NEW i \in 1..m PROVE stack[i].end > pos
    <2>1. i \in 1..Len(stack) /\ m \in 1..Len(stack) BY <1>3
    <2>2. stack[i].end \in Nat /\ stack[m].end \in Nat BY <2>1, FileIs, ElementOfSeq
    <2>3. i = m \/ stack[m].end <= stack[i].end BY <1>3, <2>1 DEF Nested
    <2>4. stack[m].end > pos BY <1>1, <1>3, <2>2
    <2> QED BY <2>2, <2>3, <2>4
  <1> QED BY <1>1, <1>2, <1>4

\* What two stacks leave is the same when all that tells them apart is over.
LEMMA SameFinished ==
  ASSUME file \in Files, NEW a \in Seq(Masters(file)), NEW b \in Seq(Masters(file)),
         Nested(a), Nested(b), NEW pos \in Int, NEW i \in Nat, i <= Len(a), i <= Len(b),
         \A h \in 1..i : a[h] = b[h],
         \A h \in (i + 1)..Len(a) : a[h].end <= pos,
         \A h \in (i + 1)..Len(b) : b[h].end <= pos
  PROVE  Finished(a, pos) = Finished(b, pos)
  <1>1. PICK m \in 0..Len(a) :
           /\ Finished(a, pos) \in Seq(Masters(file)) /\ Len(Finished(a, pos)) = m
           /\ \A h \in 1..m : Finished(a, pos)[h] = a[h] /\ a[h].end > pos
           /\ \A h \in (m + 1)..Len(a) : a[h].end <= pos
    BY FinishedMasters
  <1>2. PICK n \in 0..Len(b) :
           /\ Finished(b, pos) \in Seq(Masters(file)) /\ Len(Finished(b, pos)) = n
           /\ \A h \in 1..n : Finished(b, pos)[h] = b[h] /\ b[h].end > pos
           /\ \A h \in (n + 1)..Len(b) : b[h].end <= pos
    BY FinishedMasters
  <1>3. Len(a) \in Nat /\ Len(b) \in Nat BY LenProperties
  <1>4. /\ \A h \in 1..Len(a) : a[h].end \in Nat
        /\ \A h \in 1..Len(b) : b[h].end \in Nat
    BY FileIs, ElementOfSeq
  <1>5. m <= i
    <2> SUFFICES ASSUME ~(m <= i) PROVE FALSE OBVIOUS
    <2>1. m \in (i + 1)..Len(a) /\ m \in 1..m /\ m \in 1..Len(a) BY <1>3
    <2> QED BY <1>1, <1>4, <2>1
  <1>6. n <= i
    <2> SUFFICES ASSUME ~(n <= i) PROVE FALSE OBVIOUS
    <2>1. n \in (i + 1)..Len(b) /\ n \in 1..n /\ n \in 1..Len(b) BY <1>3
    <2> QED BY <1>2, <1>4, <2>1
  <1>7. ~(m < n)
    <2> SUFFICES ASSUME m < n PROVE FALSE OBVIOUS
    <2>1. m + 1 \in (m + 1)..Len(a) /\ m + 1 \in 1..n /\ m + 1 \in 1..i /\ m + 1 \in 1..Len(a)
      BY <1>3, <1>6
    <2>2. a[m + 1].end <= pos /\ b[m + 1].end > pos /\ a[m + 1] = b[m + 1] BY <1>1, <1>2, <2>1
    <2> QED BY <1>4, <2>1, <2>2
  <1>8. ~(n < m)
    <2> SUFFICES ASSUME n < m PROVE FALSE OBVIOUS
    <2>1. n + 1 \in (n + 1)..Len(b) /\ n + 1 \in 1..m /\ n + 1 \in 1..i /\ n + 1 \in 1..Len(b)
      BY <1>3, <1>5
    <2>2. b[n + 1].end <= pos /\ a[n + 1].end > pos /\ a[n + 1] = b[n + 1] BY <1>1, <1>2, <2>1
    <2> QED BY <1>4, <2>1, <2>2
  <1>9. m = n BY <1>3, <1>7, <1>8
  <1>10. \A h \in 1..m : Finished(a, pos)[h] = Finished(b, pos)[h]
    <2>1. \A h \in 1..m : h \in 1..i BY <1>3, <1>5
    <2> QED BY <1>1, <1>2, <1>9, <2>1
  <1> QED BY <1>1, <1>2, <1>9, <1>10, SeqEqual

\* The first i masters of two stacks are the same.
SameTo(a, b, i) == i <= Len(a) /\ i <= Len(b) /\ \A h \in 1..i : a[h] = b[h]

LEMMA FinishedTo ==
  ASSUME file \in Files, NEW a \in Seq(file.elements), NEW b \in Seq(file.elements),
         Nested(a), Nested(b), NEW i \in Nat \ {0}, SameTo(a, b, i), NEW pos \in Int
  PROVE  /\ pos < b[i].end => SameTo(Finished(a, pos), b, i)
         /\ pos = b[i].end => Finished(a, pos) = Finished(SubSeq(b, 1, i), pos)
  <1>1. Len(a) \in Nat /\ Len(b) \in Nat BY LenProperties
  <1>2. i <= Len(a) /\ i <= Len(b) /\ \A h \in 1..i : a[h] = b[h] BY DEF SameTo
  <1>3. i \in 1..Len(a) /\ i \in 1..Len(b) /\ i \in 0..Len(b) /\ i \in 1..i BY <1>1, <1>2
  <1>4. \A h \in 1..Len(a) : a[h].end \in Nat BY FileIs, ElementOfSeq
  <1>5. CASE pos < b[i].end
    <2>1. PICK m \in 0..Len(a) :
             /\ Len(Finished(a, pos)) = m
             /\ \A h \in 1..m : Finished(a, pos)[h] = a[h]
             /\ \A h \in (m + 1)..Len(a) : a[h].end <= pos
      BY FinishedNested
    <2>2. a[i] = b[i] /\ b[i].end \in Nat BY <1>2, <1>3, <1>4
    <2>3. ~(a[i].end <= pos) BY <1>5, <2>2
    <2>4. i <= m BY <1>1, <1>3, <2>1, <2>3
    <2>5. \A h \in 1..i : h \in 1..m BY <1>1, <2>4
    <2> QED BY <1>2, <1>5, <2>1, <2>4, <2>5 DEF SameTo
  <1>6. CASE pos = b[i].end
    <2> DEFINE c == SubSeq(b, 1, i)
    <2>1. c \in Seq(file.elements) /\ Len(c) = i /\ \A h \in 1..i : c[h] = b[h]
      BY <1>3, PrefixIs
    <2> HIDE DEF c
    <2>2. Nested(c) BY <1>1, <1>2, <2>1, PrefixNested
    <2>3. \A h \in (i + 1)..Len(a) : a[h].end <= pos
      <3>1. ASSUME NEW h \in (i + 1)..Len(a) PROVE a[h].end <= pos
        <4>1. h \in 1..Len(a) /\ i < h BY <1>1
        <4>2. a[h].end <= a[i].end BY <1>3, <4>1 DEF Nested
        <4> QED BY <1>2, <1>3, <1>6, <4>2
      <3> QED BY <3>1
    <2>4. \A h \in (i + 1)..Len(c) : c[h].end <= pos BY <2>1
    <2>5. a \in Seq(Masters(file)) /\ c \in Seq(Masters(file)) BY <2>1, MastersToo
    <2>6. \A h \in 1..i : a[h] = c[h] BY <1>2, <2>1
    <2>7. Finished(a, pos) = Finished(c, pos)
      <3>1. i \in Nat /\ i <= Len(a) /\ i <= Len(c) /\ Nested(a) /\ pos \in Int
        BY <1>2, <2>1
      <3> QED BY <2>2, <2>3, <2>4, <2>5, <2>6, <3>1, SameFinished
    <2> QED BY <1>6, <2>7 DEF c
  <1> QED BY <1>5, <1>6

\* A header in a master that ends is of an element that ends no later.
LEMMA WithinMaster ==
  ASSUME file \in Files, NEW stack \in Seq(file.elements), Levels(stack), Nested(stack),
         NEW e \in file.elements, NEW n, Taken(stack, e, n),
         NEW i \in 1..Len(stack), stack[i].end # NoEnd
  PROVE  /\ SameTo(Opened(stack, e, n), stack, i) /\ e.end <= stack[i].end
         /\ Opened(stack, e, n) \in Seq(file.elements) /\ Nested(Opened(stack, e, n))
  <1> DEFINE new == Opened(stack, e, n)
  <1>1. Len(stack) \in Nat BY LenProperties
  <1>2. n \in 0..Len(stack) /\ \A j \in (n + 1)..Len(stack) : stack[j].end = NoEnd BY DEF Taken
  <1>3. i <= n BY <1>1, <1>2
  <1>4. /\ new \in Seq(file.elements) /\ Nested(new)
        /\ \A h \in 1..Len(new) : e.end <= new[h].end
    BY OpenedShape
  <1>5. Len(new) = Depth(e, n) /\ \A h \in 1..Depth(e, n) : new[h] = On(stack, e, n, h)
    BY <1>2, OpenedIs
  <1> HIDE DEF new
  <1>6. n <= Len(new) BY <1>1, <1>2, <1>5 DEF Depth
  <1>7. \A h \in 1..i : h \in 1..Depth(e, n) /\ h <= n BY <1>1, <1>2, <1>3, <1>5, <1>6
  <1>8. \A h \in 1..i : new[h] = stack[h] BY <1>5, <1>7 DEF On
  <1>9. i \in 1..i /\ i \in 1..Len(new) /\ i <= Len(new) /\ i <= Len(stack)
    <2>1. Len(new) \in Nat BY <1>4, LenProperties
    <2> QED BY <1>1, <1>2, <1>3, <1>6, <2>1
  <1> QED BY <1>4, <1>8, <1>9 DEF SameTo, new

\* So a master of known size is left where it ends, and not before.
LEMMA MasterStep ==
  ASSUME file \in Files, WellFormed, NEW j \in 0..(file.len - 1),
         NEW i \in 1..Len(Original(j).stack), NEW end, end = Original(j).stack[i].end,
         end # NoEnd, j + 1 <= end
  PROVE  /\ j + 1 < end => SameTo(Original(j + 1).stack, Original(j).stack, i)
         /\ j + 1 = end => /\ Boundary(j + 1)
                           /\ Original(j + 1).stack
                                = Finished(SubSeq(Original(j).stack, 1, i), j + 1)
  <1> DEFINE t == Original(j)
             u == Original(j + 1)
  <1>1. file.len \in Nat BY FileIs
  <1>2. /\ j \in 0..file.len /\ j + 1 \in 0..file.len /\ j \in Int /\ j + 1 \in Int
        /\ j + 1 - 1 = j
    BY <1>1
  <1>3. /\ t.stack \in Seq(file.elements) /\ Levels(t.stack) /\ Nested(t.stack)
        /\ t.held \in {0, 1} /\ Shape(t, j)
    BY <1>2, ShapeAt
  <1>4. Len(t.stack) \in Nat BY <1>3, LenProperties
  <1>5. t.stack[i] \in file.elements /\ end \in Nat BY <1>3, FileIs, ElementOfSeq
  <1>6. SameTo(t.stack, t.stack, i) /\ i \in Nat \ {0} BY <1>4 DEF SameTo
  <1>7. CASE t.leaf # Nothing
    <2>1. t.leaf.end <= end /\ j < t.leaf.end /\ t.leaf \in file.elements
      BY <1>3, <1>7 DEF Shape
    <2>2. t.leaf.end \in Nat BY <2>1, FileIs
    <2>3. CASE j + 1 < t.leaf.end
      <3>1. u = t BY <1>7, <2>3, FileLeaf
      <3>2. j + 1 < end BY <1>2, <1>5, <2>1, <2>2, <2>3
      <3> QED BY <1>6, <3>1, <3>2
    <2>4. CASE ~(j + 1 < t.leaf.end)
      <3>1. Boundary(j + 1) /\ u.stack = Finished(t.stack, j + 1) BY <1>7, <2>4, FileLeaf
      <3> HIDE DEF t, u
      <3>2. /\ j + 1 < t.stack[i].end => SameTo(Finished(t.stack, j + 1), t.stack, i)
            /\ j + 1 = t.stack[i].end =>
                 Finished(t.stack, j + 1) = Finished(SubSeq(t.stack, 1, i), j + 1)
        BY <1>2, <1>3, <1>6, FinishedTo
      <3> QED BY <3>1, <3>2 DEF t, u
    <2> QED BY <2>3, <2>4
  <1>8. CASE t.leaf = Nothing /\ t.held = 0
    <2>1. Boundary(j) BY <1>8 DEF Boundary
    <2>2. u.held = 1 /\ u.stack = t.stack /\ \E e \in file.elements : e.start = j
      BY <2>1, FileFirst
    <2>3. CASE j + 1 < end BY <1>6, <2>2, <2>3
    <2>4. CASE j + 1 = end
      <3>1. PICK d \in file.elements : d.start = j BY <2>2
      <3>2. d.pay <= file.len /\ d.pay = d.start + HeaderLen BY FileIs, ConcealAssumption
      <3>3. j + 1 \in 0..(file.len - 1) BY <1>1, <1>2, <3>1, <3>2, SMT DEF HeaderLen
      <3>4. PICK e \in file.elements : \E n :
               /\ e.start = j + 1 - 1 /\ e.pay = j + 1 + 1 /\ Taken(u.stack, e, n)
        BY <2>2, <3>3, FileSecond
      <3>5. e.end <= end BY <1>3, <2>2, <3>4, WithinMaster
      <3>6. e.pay <= e.end /\ e.end \in Nat BY FileIs
      <3> QED BY <1>2, <1>5, <2>4, <3>4, <3>5, <3>6
    <2> QED BY <1>5, <2>3, <2>4
  <1>9. CASE t.leaf = Nothing /\ t.held = 1
    <2>1. PICK e \in file.elements : \E n :
             /\ e.start = j - 1 /\ e.pay = j + 1 /\ Taken(t.stack, e, n)
             /\ u = OnElement(t, e)
      BY <1>9, FileSecond
    <2>2. PICK n : e.pay = j + 1 /\ Taken(t.stack, e, n) /\ u = OnElement(t, e) BY <2>1
    <2>3. /\ SameTo(Opened(t.stack, e, n), t.stack, i) /\ e.end <= end
          /\ Opened(t.stack, e, n) \in Seq(file.elements) /\ Nested(Opened(t.stack, e, n))
      BY <1>3, <2>2, WithinMaster
    <2>4. IsTracker(t) /\ t.mode = "synced" /\ t.stack \in Seq(Masters(file))
      <3>1. IsTracker(t) /\ t.mode = "synced" BY <1>2, ShapeAt
      <3> QED BY <1>3, <3>1, MastersToo
    <2> HIDE DEF t, u
    <2>10. Placed(t.stack, e, n, OnElement(t, e)) BY <2>2, <2>4, TakenIs
    <2>5. u.stack = Finished(Opened(t.stack, e, n), j + 1) BY <2>2, <2>10 DEF Placed
    <2>6. u.held = 0 BY <2>2, <2>10 DEF Placed
    <2>7. u.leaf = IF e.id \notin Descends /\ e.end # e.pay THEN e ELSE Nothing
      BY <2>2, <2>10 DEF Placed
    <2> DEFINE new == Opened(t.stack, e, n)
    <2>8. /\ j + 1 < t.stack[i].end => SameTo(Finished(new, j + 1), t.stack, i)
          /\ j + 1 = t.stack[i].end =>
               Finished(new, j + 1) = Finished(SubSeq(t.stack, 1, i), j + 1)
      BY <1>2, <1>3, <1>6, <2>3, FinishedTo
    <2> HIDE DEF new
    <2>9. j + 1 = end => Boundary(j + 1)
      <3> SUFFICES ASSUME j + 1 = end PROVE Boundary(j + 1) OBVIOUS
      <3>1. e.pay <= e.end /\ e.end \in Nat BY FileIs
      <3>2. e.end = e.pay BY <1>5, <2>2, <2>3, <3>1
      <3> QED BY <2>6, <2>7, <3>2 DEF Boundary, u
    <2> QED BY <2>5, <2>8, <2>9 DEF t, u, new
  <1> QED BY <1>3, <1>7, <1>8, <1>9

LEMMA MasterEnd ==
  ASSUME file \in Files, WellFormed, NEW k \in 0..file.len, Original(k).held = 0,
         NEW i \in 1..Len(Original(k).stack), NEW end, end = Original(k).stack[i].end, end # NoEnd
  PROVE  /\ end \in 0..file.len /\ k < end /\ Boundary(end)
         /\ Original(end).stack = Finished(SubSeq(Original(k).stack, 1, i), end)
  <1> DEFINE a == Original(k).stack
  <1>1. file.len \in Nat /\ k \in Nat BY FileIs
  <1>2. a \in Seq(file.elements) BY ShapeAt
  <1>3. Len(a) \in Nat BY <1>2, LenProperties
  <1>4. a[i] \in file.elements BY <1>2, ElementOfSeq
  <1>5. end \in Nat /\ end <= file.len BY <1>4, FileIs
  <1>6. k < end
    <2>1. \A h \in 1..Len(a) : a[h].end > k - Original(k).held BY ShapeHolds DEF Shape
    <2> QED BY <1>1, <1>5, <2>1
  <1> DEFINE Bad == {j \in k..(end - 1) : ~SameTo(Original(j).stack, a, i)}
  <1>7. ASSUME Bad # {} PROVE FALSE
    <2>1. PICK j \in Bad : \A m \in Bad : j <= m
      <3>1. Bad \in SUBSET Nat BY <1>1, <1>5
      <3> HIDE DEF Bad
      <3> QED BY <1>7, <3>1, First
    <2>2. j \in k..(end - 1) /\ ~SameTo(Original(j).stack, a, i) BY <2>1
    <2>3. j # k
      <3>1. SameTo(a, a, i) BY <1>3 DEF SameTo
      <3> QED BY <2>2, <3>1
    <2>4. /\ j - 1 \in k..(end - 1) /\ j - 1 \in 0..(file.len - 1) /\ j - 1 < j
          /\ j - 1 + 1 < end /\ j - 1 + 1 <= end /\ j - 1 + 1 = j
      BY <1>1, <1>5, <2>2, <2>3
    <2>5. ~(j - 1 \in Bad)
      <3> HIDE DEF Bad
      <3> QED BY <1>1, <1>5, <2>1, <2>2, <2>4
    <2>6. SameTo(Original(j - 1).stack, a, i) BY <2>4, <2>5
    <2> HIDE DEF a, Bad
    <2>7. i \in 1..Len(Original(j - 1).stack) /\ Original(j - 1).stack[i] = a[i]
      <3>1. Original(j - 1).stack \in Seq(file.elements) BY <1>1, <2>4, ShapeAt
      <3>2. Len(Original(j - 1).stack) \in Nat BY <3>1, LenProperties
      <3>3. i \in 1..i BY <1>3 DEF a
      <3> QED BY <1>3, <2>6, <3>2, <3>3 DEF SameTo, a
    <2>8. end = Original(j - 1).stack[i].end BY <2>7 DEF a
    <2>9. SameTo(Original(j - 1 + 1).stack, Original(j - 1).stack, i)
      BY <2>4, <2>7, <2>8, MasterStep
    <2>10. SameTo(Original(j).stack, a, i) BY <2>4, <2>6, <2>9 DEF SameTo
    <2> QED BY <2>2, <2>10
  <1> HIDE DEF a
  <1>8. /\ end - 1 \in k..(end - 1) /\ end - 1 \in 0..(file.len - 1)
        /\ end - 1 + 1 = end /\ end - 1 + 1 <= end
    BY <1>1, <1>5, <1>6
  <1> DEFINE b == Original(end - 1).stack
  <1>9. SameTo(b, a, i) BY <1>7, <1>8
  <1>10. b \in Seq(file.elements)
    <2>1. end - 1 \in 0..file.len BY <1>1, <1>5, <1>6
    <2> QED BY <2>1, ShapeAt
  <1>11. Len(b) \in Nat /\ i \in 1..i /\ i \in Nat
    BY <1>3, <1>10, LenProperties DEF a
  <1>12. i \in 1..Len(b) /\ b[i] = a[i] /\ i \in 0..Len(b) /\ i \in 0..Len(a)
    BY <1>3, <1>9, <1>11 DEF SameTo, a
  <1>13. end = b[i].end BY <1>12 DEF a
  <1>14. /\ Boundary(end - 1 + 1)
         /\ Original(end - 1 + 1).stack = Finished(SubSeq(b, 1, i), end - 1 + 1)
    BY <1>8, <1>12, <1>13, MasterStep
  <1> HIDE DEF b
  <1>15. SubSeq(b, 1, i) = SubSeq(a, 1, i)
    <2>1. /\ SubSeq(b, 1, i) \in Seq(file.elements) /\ Len(SubSeq(b, 1, i)) = i
          /\ \A h \in 1..i : SubSeq(b, 1, i)[h] = b[h]
      BY <1>10, <1>12, PrefixIs
    <2>2. /\ SubSeq(a, 1, i) \in Seq(file.elements) /\ Len(SubSeq(a, 1, i)) = i
          /\ \A h \in 1..i : SubSeq(a, 1, i)[h] = a[h]
      BY <1>2, <1>12, PrefixIs DEF a
    <2>3. \A h \in 1..i : b[h] = a[h] BY <1>9 DEF SameTo
    <2> QED BY <2>1, <2>2, <2>3, SeqEqual
  <1>16. Boundary(end) /\ Original(end).stack = Finished(SubSeq(b, 1, i), end) BY <1>8, <1>14
  <1>17. end \in 0..file.len BY <1>1, <1>5
  <1> QED BY <1>6, <1>15, <1>16, <1>17 DEF a

\* An element of the file is read where it stands.
LEMMA ElementRead ==
  ASSUME file \in Files, WellFormed, NEW e \in file.elements
  PROVE  /\ e.start \in 0..(file.len - 1) /\ e.start + 1 \in 0..(file.len - 1)
         /\ e.pay = e.start + 1 + 1 /\ e.pay \in 0..file.len
         /\ Boundary(e.start) /\ Original(e.start + 1).held = 1
         /\ Original(e.start + 1).stack = Original(e.start).stack
         /\ \E n : /\ Taken(Original(e.start).stack, e, n)
                   /\ Placed(Original(e.start).stack, e, n, Original(e.pay))
  <1> DEFINE s == e.start
  <1>1. e.pay = s + HeaderLen /\ e.pay <= file.len /\ s \in Nat /\ file.len \in Nat
    BY FileIs, ConcealAssumption
  <1>2. /\ s \in 0..(file.len - 1) /\ s + 1 \in 0..(file.len - 1) /\ e.pay = s + 1 + 1
        /\ s + 1 - 1 = s /\ e.pay \in 0..file.len /\ s + 1 \in 0..file.len
    BY <1>1, SMT DEF HeaderLen
  <1>3. Boundary(s) BY DEF WellFormed
  <1> HIDE DEF s
  <1>4. Original(s + 1).held = 1 /\ Original(s + 1).stack = Original(s).stack
    BY <1>2, <1>3, FileFirst
  <1>5. PICK d \in file.elements : \E n :
           /\ d.start = s + 1 - 1 /\ d.pay = s + 1 + 1
           /\ Taken(Original(s + 1).stack, d, n)
           /\ Original(s + 1 + 1) = OnElement(Original(s + 1), d)
    BY <1>2, <1>4, FileSecond
  <1>6. d = e BY <1>2, <1>5 DEF WellFormed, s
  <1>7. PICK n : /\ Taken(Original(s + 1).stack, e, n)
                 /\ Original(e.pay) = OnElement(Original(s + 1), e)
    BY <1>2, <1>5, <1>6
  <1>8. /\ IsTracker(Original(s + 1)) /\ Original(s + 1).mode = "synced"
        /\ Original(s + 1).stack \in Seq(file.elements)
    BY <1>2, ShapeAt
  <1>9. Placed(Original(s + 1).stack, e, n, OnElement(Original(s + 1), e))
    BY <1>7, <1>8, MastersToo, TakenIs
  <1> QED BY <1>2, <1>3, <1>4, <1>7, <1>9 DEF s

\* Where a Cluster stands nothing of known size is open but the Segment.
OpenStack(stack) ==
  /\ Len(stack) \in {1, 2} /\ stack[1].id = "segment"
  /\ Len(stack) = 2 => stack[2].id = "cluster" /\ stack[2].end = NoEnd
ClusterStart(k) == \E c \in file.elements : c.id = "cluster" /\ c.start = k

LEMMA ClusterBoundary ==
  ASSUME file \in Files, WellFormed, NEW k, ClusterStart(k)
  PROVE  /\ k \in 0..(file.len - 1) /\ k \in 0..file.len /\ Boundary(k)
         /\ OpenStack(Original(k).stack)
  <1>1. PICK c \in file.elements : c.id = "cluster" /\ c.start = k BY DEF ClusterStart
  <1> DEFINE a == Original(k).stack
  <1>2. k \in 0..(file.len - 1) /\ Boundary(k) /\ \E n : Taken(a, c, n) BY <1>1, ElementRead
  <1>3. PICK n : Taken(a, c, n) BY <1>2
  <1>4. k \in 0..file.len
    <2>1. file.len \in Nat BY FileIs
    <2> QED BY <1>2, <2>1
  <1>5. a \in Seq(file.elements) /\ Levels(a) BY <1>4, ShapeAt
  <1> HIDE DEF a
  <1>6. Len(a) \in Nat BY <1>5, LenProperties
  <1>7. n = 1 /\ n <= Len(a) BY <1>1, <1>3, <1>5, TakenLevel
  <1>8. \A j \in 2..Len(a) : a[j].end = NoEnd BY <1>3, <1>7 DEF Taken
  <1>9. Len(a) <= 3 /\ \A i \in 1..Len(a) : a[i].id = LevelId(i) /\ (i = 3 => a[i].end # NoEnd)
    BY <1>5 DEF Levels
  <1>10. Len(a) # 3
    <2> SUFFICES ASSUME Len(a) = 3 PROVE FALSE OBVIOUS
    <2>1. 3 \in 2..Len(a) /\ 3 \in 1..Len(a) OBVIOUS
    <2> QED BY <1>8, <1>9, <2>1
  <1>11. Len(a) \in {1, 2}
    <2>1. Len(a) <= 3 BY <1>9
    <2>2. 1 <= Len(a) BY <1>7
    <2>3. \A x \in Nat : x # 3 /\ x <= 3 /\ 1 <= x => x \in {1, 2} OBVIOUS
    <2> QED BY <1>6, <1>10, <2>1, <2>2, <2>3
  <1>12. 1 \in 1..Len(a) /\ (Len(a) = 2 => 2 \in 1..Len(a) /\ 2 \in 2..Len(a)) BY <1>11
  <1>13. OpenStack(a) BY <1>8, <1>9, <1>11, <1>12 DEF OpenStack, LevelId
  <1> QED BY <1>2, <1>4, <1>13 DEF a

-----------------------------------------------------------------------------
(* A request's tracker beside the file's.  After a scan its Segment is a   *)
(* made-up one that never ends (exact is FALSE).                           *)

Fits(stack) == stack \in Seq(Masters(file)) /\ Levels(stack) /\ Nested(stack)
SameFirst(exact, m, n) == m = n \/ (~exact /\ m.id = n.id /\ m.end = NoEnd)
Same(exact, a, b) ==
  /\ Len(a) = Len(b) /\ \A i \in 2..Len(a) : a[i] = b[i]
  /\ Len(a) # 0 => SameFirst(exact, a[1], b[1])
\* Before the header of a Cluster another one may be open: it is over with that header.
Like(exact, k, a) ==
  \/ Same(exact, a, Original(k).stack)
  \/ /\ OpenStack(a) /\ OpenStack(Original(k).stack)
     /\ SameFirst(exact, a[1], Original(k).stack[1]) /\ ClusterStart(k)

LEMMA SameIsFit ==
  ASSUME file \in Files, NEW stack \in Seq(file.elements), Levels(stack), Nested(stack)
  PROVE  Fits(stack) /\ \A exact \in BOOLEAN : Same(exact, stack, stack)
  BY MastersToo DEF Fits, Same, SameFirst

LEMMA FinishedFits ==
  ASSUME file \in Files, NEW a, Fits(a), NEW pos \in Int
  PROVE  Fits(Finished(a, pos))
  <1>1. a \in Seq(Masters(file)) /\ Levels(a) /\ Nested(a) BY DEF Fits
  <1>2. PICK m \in 0..Len(a) :
           /\ Finished(a, pos) \in Seq(Masters(file)) /\ Len(Finished(a, pos)) = m
           /\ \A i \in 1..m : Finished(a, pos)[i] = a[i]
    BY <1>1, FinishedMasters
  <1>3. Len(a) \in Nat BY <1>1, LenProperties
  <1>4. Levels(Finished(a, pos)) /\ Nested(Finished(a, pos))
    BY <1>1, <1>2, <1>3, PrefixNested
  <1> QED BY <1>2, <1>4 DEF Fits

\* Nothing is over before its end.
LEMMA NoneFinished ==
  ASSUME file \in Files, NEW a, Fits(a), NEW pos \in Int,
         \A i \in 1..Len(a) : a[i].end > pos
  PROVE  Finished(a, pos) = a
  <1>1. a \in Seq(Masters(file)) /\ Nested(a) BY DEF Fits
  <1>2. PICK m \in 0..Len(a) :
           /\ Finished(a, pos) \in Seq(Masters(file)) /\ Len(Finished(a, pos)) = m
           /\ \A i \in 1..m : Finished(a, pos)[i] = a[i]
           /\ \A i \in (m + 1)..Len(a) : a[i].end <= pos
    BY <1>1, FinishedMasters
  <1>3. Len(a) \in Nat /\ \A i \in 1..Len(a) : a[i].end \in Nat
    BY <1>1, LenProperties, FileIs, ElementOfSeq
  <1>4. m = Len(a)
    <2> SUFFICES ASSUME m # Len(a) PROVE FALSE OBVIOUS
    <2>1. m + 1 \in (m + 1)..Len(a) /\ m + 1 \in 1..Len(a) BY <1>2, <1>3
    <2>2. a[m + 1].end <= pos /\ a[m + 1].end > pos BY <1>2, <2>1
    <2> QED BY <1>3, <2>1, <2>2
  <1> QED BY <1>1, <1>2, <1>4, SeqEqual

\* The Segment is one, and lasts as long as the file.
LEMMA SegmentIs ==
  ASSUME file \in Files, WellFormed, NEW k \in 0..file.len, Len(Original(k).stack) # 0
  PROVE  /\ Original(k).stack[1] \in file.elements /\ Original(k).stack[1].id = "segment"
         /\ Original(k).stack[1].end \in {file.len, NoEnd}
  <1> DEFINE b == Original(k).stack
  <1>1. b \in Seq(file.elements) /\ Levels(b) BY ShapeAt
  <1> HIDE DEF b
  <1>2. 1 \in 1..Len(b) BY <1>1, LenProperties DEF b
  <1>3. b[1] \in file.elements /\ b[1].id = "segment"
    <2>1. b[1] \in file.elements BY <1>1, <1>2, ElementOfSeq
    <2> QED BY <1>1, <1>2, <2>1 DEF Levels, LevelId
  <1> QED BY <1>3 DEF WellFormed, b

LEMMA SameLeft ==
  ASSUME file \in Files, WellFormed, NEW exact \in BOOLEAN,
         NEW b \in Seq(file.elements), Levels(b), Nested(b),
         NEW a, Fits(a), Same(exact, a, b), NEW pos \in Int, exact \/ pos < file.len
  PROVE  Same(exact, Finished(a, pos), Finished(b, pos))
  <1>1. b \in Seq(file.elements) /\ Levels(b) /\ Nested(b) OBVIOUS
  <1>2. a \in Seq(Masters(file)) /\ Nested(a) /\ b \in Seq(Masters(file))
    BY <1>1, MastersToo DEF Fits
  <1>3. Len(a) \in Nat /\ Len(a) = Len(b) /\ \A i \in 2..Len(a) : a[i] = b[i]
    BY <1>2, LenProperties DEF Same
  <1>4. Len(a) # 0 => SameFirst(exact, a[1], b[1]) BY DEF Same
  <1>5. Len(b) # 0 => b[1].end \in {file.len, NoEnd}
    <2> SUFFICES ASSUME Len(b) # 0 PROVE b[1].end \in {file.len, NoEnd} OBVIOUS
    <2>1. 1 \in 1..Len(b) BY <1>1, LenProperties
    <2>2. b[1] \in file.elements BY <1>1, <2>1, ElementOfSeq
    <2>3. b[1].id = "segment" BY <2>1 DEF Levels, LevelId
    <2> QED BY <2>2, <2>3 DEF WellFormed
  <1>6. CASE Len(a) = 0 \/ a[1] = b[1]
    <2>1. \A i \in 1..Len(a) : a[i] = b[i]
      <3>1. \A i \in 1..Len(a) : i = 1 \/ i \in 2..Len(a) BY <1>3
      <3>2. \A i \in 1..Len(a) : Len(a) # 0 BY <1>3
      <3> QED BY <1>3, <1>6, <3>1, <3>2
    <2>2. a = b BY <1>2, <1>3, <2>1, SeqEqual
    <2>3. Same(exact, Finished(b, pos), Finished(b, pos)) BY DEF Same, SameFirst
    <2> QED BY <2>2, <2>3
  <1>7. CASE Len(a) # 0 /\ a[1] # b[1]
    <2>1. ~exact /\ a[1].id = b[1].id /\ a[1].end = NoEnd /\ pos < file.len
      BY <1>4, <1>7 DEF SameFirst
    <2>2. a[1].end > pos /\ b[1].end > pos
      <3>1. file.len \in Nat /\ file.len < NoEnd BY FileIs
      <3>2. b[1].end \in {file.len, NoEnd} BY <1>3, <1>5, <1>7
      <3> QED BY <2>1, <3>1, <3>2, SMT DEF NoEnd
    <2>3. PICK m \in 0..Len(a) :
             /\ Len(Finished(a, pos)) = m
             /\ \A h \in 1..m : Finished(a, pos)[h] = a[h] /\ a[h].end > pos
             /\ \A h \in (m + 1)..Len(a) : a[h].end <= pos
      BY <1>2, FinishedMasters
    <2>4. PICK n \in 0..Len(b) :
             /\ Len(Finished(b, pos)) = n
             /\ \A h \in 1..n : Finished(b, pos)[h] = b[h] /\ b[h].end > pos
             /\ \A h \in (n + 1)..Len(b) : b[h].end <= pos
      BY <1>1, <1>2, FinishedMasters
    <2>5. /\ \A h \in 1..Len(a) : a[h].end \in Nat
          /\ \A h \in 1..Len(b) : b[h].end \in Nat
      BY <1>2, FileIs, ElementOfSeq
    <2>6. m # 0 /\ n # 0
      <3>1. 1 \in 1..Len(a) /\ 1 \in 1..Len(b) BY <1>3, <1>7
      <3> QED BY <2>2, <2>3, <2>4, <2>5, <3>1
    <2>7. ~(m < n)
      <3> SUFFICES ASSUME m < n PROVE FALSE OBVIOUS
      <3>1. /\ m + 1 \in (m + 1)..Len(a) /\ m + 1 \in 1..n /\ m + 1 \in 2..Len(a)
            /\ m + 1 \in 1..Len(a)
        BY <1>3, <2>6
      <3>2. a[m + 1].end <= pos /\ b[m + 1].end > pos /\ a[m + 1] = b[m + 1]
        BY <1>3, <2>3, <2>4, <3>1
      <3> QED BY <2>5, <3>1, <3>2
    <2>8. ~(n < m)
      <3> SUFFICES ASSUME n < m PROVE FALSE OBVIOUS
      <3>1. /\ n + 1 \in (n + 1)..Len(b) /\ n + 1 \in 1..m /\ n + 1 \in 2..Len(a)
            /\ n + 1 \in 1..Len(b)
        BY <1>3, <2>6
      <3>2. b[n + 1].end <= pos /\ a[n + 1].end > pos /\ a[n + 1] = b[n + 1]
        BY <1>3, <2>3, <2>4, <3>1
      <3> QED BY <2>5, <3>1, <3>2
    <2>9. m = n BY <1>3, <2>7, <2>8
    <2>10. \A h \in 2..m : Finished(a, pos)[h] = Finished(b, pos)[h]
      <3>1. \A h \in 2..m : h \in 1..m /\ h \in 1..n /\ h \in 2..Len(a) BY <1>3, <2>9
      <3> QED BY <1>3, <2>3, <2>4, <3>1
    <2>11. Finished(a, pos)[1] = a[1] /\ Finished(b, pos)[1] = b[1]
      <3>1. 1 \in 1..m /\ 1 \in 1..n BY <1>3, <2>6
      <3> QED BY <2>3, <2>4, <3>1
    <2> QED BY <1>4, <1>7, <2>3, <2>4, <2>9, <2>10, <2>11 DEF Same
  <1> QED BY <1>6, <1>7

\* What the file's tracker takes for an element at its header, a request's takes too.
LEMMA LikeTaken ==
  ASSUME file \in Files, WellFormed, NEW exact \in BOOLEAN, NEW e \in file.elements,
         NEW a, Fits(a), Like(exact, e.start, a)
  PROVE  \E n : /\ Taken(a, e, n) /\ Fits(Opened(a, e, n)) /\ e.pay \in 0..file.len
                /\ \E m : LET new == Opened(Original(e.start).stack, e, m) IN
                     /\ new \in Seq(file.elements) /\ Levels(new) /\ Nested(new)
                     /\ Placed(Original(e.start).stack, e, m, Original(e.pay))
                     /\ Same(exact, Opened(a, e, n), new)
  <1> DEFINE b == Original(e.start).stack
  <1>1. /\ e.start \in 0..(file.len - 1) /\ e.pay \in 0..file.len
        /\ \E m : Taken(b, e, m) /\ Placed(b, e, m, Original(e.pay))
    BY ElementRead
  <1>2. e.start \in 0..file.len
    <2>1. file.len \in Nat BY FileIs
    <2> QED BY <1>1, <2>1
  <1>3. b \in Seq(file.elements) /\ Levels(b) /\ Nested(b) BY <1>2, ShapeAt
  <1>4. PICK m : Taken(b, e, m) /\ Placed(b, e, m, Original(e.pay)) BY <1>1
  <1>5. Same(exact, a, b) \/ (OpenStack(a) /\ OpenStack(b) /\ SameFirst(exact, a[1], b[1])
                              /\ ClusterStart(e.start))
    BY DEF Like
  <1> HIDE DEF b
  <1>6. /\ Opened(b, e, m) \in Seq(file.elements)
        /\ Levels(Opened(b, e, m)) /\ Nested(Opened(b, e, m))
    BY <1>3, <1>4, OpenedShape
  <1>7. /\ a \in Seq(Masters(file)) /\ Levels(a) /\ Nested(a) /\ e \in Masters(file)
        /\ (e.id \in Descends => e \in Masters(file)) /\ (e.id \in Descends => e \in file.elements)
    BY DEF Fits, Masters
  <1>8. Len(a) \in Nat /\ Len(b) \in Nat BY <1>3, <1>7, LenProperties
  <1>9. /\ m \in 0..3 /\ m <= Len(b) /\ m \in 0..Len(b) /\ (e.id = "cluster" => m = 1)
    BY <1>3, <1>4, <1>8, TakenLevel
  <1>10. /\ Allowed(Above(b, m), e.id)
         /\ \A j \in (m + 1)..Len(b) : b[j].end = NoEnd /\ ~Allowed(b[j].id, e.id)
         /\ e.end = NoEnd => e.id \in {"segment", "cluster"}
         /\ m # 0 => b[m].end = NoEnd \/ ~(e.end > b[m].end)
         /\ e.end # NoEnd => ~(e.end > file.len)
    BY <1>4 DEF Taken
  <1>11. ASSUME m <= Len(a), Taken(a, e, m), \A i \in 2..m : a[i] = b[i],
                m # 0 => SameFirst(exact, a[1], b[1])
         PROVE  \E n : /\ Taken(a, e, n) /\ Fits(Opened(a, e, n))
                       /\ Same(exact, Opened(a, e, n), Opened(b, e, m))
    <2>1. m \in 0..Len(a) BY <1>8, <1>9, <1>11
    <2>2. /\ Opened(a, e, m) \in Seq(Masters(file)) /\ Levels(Opened(a, e, m))
          /\ Nested(Opened(a, e, m))
      BY <1>7, <1>11, OpenedMasters
    <2>3. /\ Len(Opened(a, e, m)) = Depth(e, m)
          /\ \A i \in 1..Depth(e, m) : Opened(a, e, m)[i] = On(a, e, m, i)
      <3>1. a \in Seq(Masters(file)) /\ (e.id \in Descends => e \in Masters(file)) BY <1>7
      <3> QED BY <2>1, <3>1, OpenedIs
    <2>4. /\ Len(Opened(b, e, m)) = Depth(e, m)
          /\ \A i \in 1..Depth(e, m) : Opened(b, e, m)[i] = On(b, e, m, i)
      BY <1>3, <1>7, <1>9, OpenedIs
    <2>5. Depth(e, m) \in Nat BY <1>9 DEF Depth
    <2>6. \A i \in 2..Depth(e, m) : On(a, e, m, i) = On(b, e, m, i)
      <3>1. \A i \in 2..Depth(e, m) : i <= m => i \in 2..m BY <1>9, <2>5
      <3> QED BY <1>11, <3>1 DEF On
    <2>7. Depth(e, m) # 0 => SameFirst(exact, On(a, e, m, 1), On(b, e, m, 1))
      <3>1. 1 <= m => m # 0 BY <1>9
      <3> QED BY <1>11, <3>1 DEF On, SameFirst
    <2>8. /\ \A i \in 2..Depth(e, m) : i \in 1..Depth(e, m)
          /\ Depth(e, m) # 0 => 1 \in 1..Depth(e, m)
      BY <2>5
    <2>9. Same(exact, Opened(a, e, m), Opened(b, e, m))
      BY <2>3, <2>4, <2>6, <2>7, <2>8 DEF Same
    <2> QED BY <1>11, <2>2, <2>9 DEF Fits
  <1>12. CASE Same(exact, a, b)
    <2>1. Len(a) = Len(b) /\ \A i \in 2..Len(a) : a[i] = b[i] BY <1>12 DEF Same
    <2>2. Len(a) # 0 => SameFirst(exact, a[1], b[1]) BY <1>12 DEF Same
    <2>3. m <= Len(a) /\ m \in 0..Len(a) BY <1>9, <2>1
    <2>4. \A i \in 2..m : a[i] = b[i] BY <1>8, <2>1, <2>3
    <2>5. m # 0 => Len(a) # 0 /\ SameFirst(exact, a[1], b[1]) BY <1>9, <2>2, <2>3
    <2>6. /\ a[1].id = b[1].id \/ Len(a) = 0
          /\ a[1].end = NoEnd \/ a[1] = b[1] \/ Len(a) = 0
      BY <2>2 DEF SameFirst
    <2>7. Allowed(Above(a, m), e.id)
      <3>1. CASE m = 0 BY <1>10, <3>1 DEF Above
      <3>2. CASE m = 1 BY <1>10, <2>5, <2>6, <3>2 DEF Above
      <3>3. CASE m \notin {0, 1}
        <4>1. m \in 2..m BY <1>9, <3>3
        <4> QED BY <1>10, <2>4, <3>3, <4>1 DEF Above
      <3> QED BY <3>1, <3>2, <3>3
    <2>8. \A j \in (m + 1)..Len(a) : a[j].end = NoEnd /\ ~Allowed(a[j].id, e.id)
      <3>1. ASSUME NEW j \in (m + 1)..Len(a)
            PROVE  a[j].end = NoEnd /\ ~Allowed(a[j].id, e.id)
        <4>1. j \in (m + 1)..Len(b) /\ (j = 1 \/ j \in 2..Len(a)) /\ Len(a) # 0
          BY <1>8, <1>9, <2>1
        <4>2. b[j].end = NoEnd /\ ~Allowed(b[j].id, e.id) BY <1>10, <4>1
        <4> QED BY <2>1, <2>6, <4>1, <4>2
      <3> QED BY <3>1
    <2>9. m # 0 => a[m].end = NoEnd \/ ~(e.end > a[m].end)
      <3>1. CASE m = 1 BY <1>10, <2>5, <2>6, <3>1
      <3>2. CASE m \notin {0, 1}
        <4>1. m \in 2..m BY <1>9, <3>2
        <4> QED BY <1>10, <2>4, <3>2, <4>1
      <3> QED BY <3>1, <3>2
    <2>10. Taken(a, e, m) BY <1>10, <2>3, <2>7, <2>8, <2>9 DEF Taken
    <2> QED BY <1>1, <1>4, <1>6, <1>11, <2>3, <2>4, <2>5, <2>10 DEF b
  <1>13. CASE /\ OpenStack(a) /\ OpenStack(b) /\ SameFirst(exact, a[1], b[1])
              /\ ClusterStart(e.start)
    <2>1. e.id = "cluster" BY <1>13 DEF ClusterStart, WellFormed
    <2>2. m = 1 BY <1>9, <2>1
    <2>3. /\ Len(a) \in {1, 2} /\ a[1].id = "segment"
          /\ Len(a) = 2 => a[2].id = "cluster" /\ a[2].end = NoEnd
      BY <1>13 DEF OpenStack
    <2>4. a[1] = b[1] \/ a[1].end = NoEnd BY <1>13 DEF SameFirst
    <2>5. Allowed(Above(a, 1), e.id) BY <2>1, <2>3 DEF Above, Allowed
    <2>6. ~Allowed("cluster", "cluster") BY DEF Allowed
    <2>7. \A j \in (1 + 1)..Len(a) : a[j].end = NoEnd /\ ~Allowed(a[j].id, e.id)
      <3>1. CASE Len(a) = 1 BY <3>1
      <3>2. CASE Len(a) = 2
        <4>1. \A j \in (1 + 1)..2 : j = 2 OBVIOUS
        <4> QED BY <2>1, <2>3, <2>6, <3>2, <4>1
      <3> QED BY <2>3, <3>1, <3>2
    <2>8. a[1].end = NoEnd \/ ~(e.end > a[1].end) BY <1>10, <2>2, <2>4
    <2>9. 1 \in 0..Len(a) /\ 1 <= Len(a) BY <2>3
    <2>10. Taken(a, e, 1) BY <1>10, <2>5, <2>7, <2>8, <2>9 DEF Taken
    <2>11. \A i \in 2..m : a[i] = b[i] BY <2>2
    <2> QED BY <1>1, <1>4, <1>6, <1>11, <1>13, <2>2, <2>9, <2>10, <2>11 DEF b
  <1> QED BY <1>5, <1>12, <1>13

LEMMA HeaderKept ==
  ASSUME UNCHANGED file
  PROVE  \A s, byte : HeaderAt(s, byte)' = HeaderAt(s, byte)
  BY DEF HeaderAt

LEMMA OnElementKept ==
  ASSUME UNCHANGED file
  PROVE  \A tr, e : OnElement(tr, e)' = OnElement(tr, e)
  BY DEF OnElement

LEMMA FeedKept ==
  ASSUME UNCHANGED file
  PROVE  \A tr, o, byte : FeedSynced(tr, o, byte)' = FeedSynced(tr, o, byte)
  BY DEF FeedSynced, HeaderAt, OnElement

LEMMA FedKept ==
  ASSUME UNCHANGED file
  PROVE  \A tr, at, n, out : FedSynced(tr, at, n, out)' = FedSynced(tr, at, n, out)
  BY DEF FedSynced, FeedSynced, HeaderAt, OnElement

LEMMA OriginalKept ==
  ASSUME UNCHANGED file
  PROVE  \A k : Original(k)' = Original(k)
  BY FedKept DEF Original

LEMMA WellFormedKept ==
  ASSUME UNCHANGED file, WellFormed
  PROVE  WellFormed'
  BY OriginalKept DEF WellFormed, Boundary

At(exact, k, a) == k \in 0..file.len /\ Boundary(k) /\ Like(exact, k, a)
\* A Void that ends where its master does, or where a Cluster begins.
ValidVoid(s, e) ==
  /\ s \in 0..file.len /\ e \in 0..file.len /\ s + HeaderLen <= e /\ Boundary(s)
  /\ \/ Len(Original(s).stack) \in {2, 3} /\ Original(s).stack[Len(Original(s).stack)].end = e
     \/ OpenStack(Original(s).stack) /\ ClusterStart(e)
VoidBox(s, e) == [id |-> "void", start |-> s, pay |-> s + HeaderLen, end |-> e]

LEMMA OpenToo ==
  ASSUME NEW exact \in BOOLEAN, NEW s, NEW a, Like(exact, s, a), OpenStack(Original(s).stack)
  PROVE  OpenStack(a) /\ SameFirst(exact, a[1], Original(s).stack[1])
  <1> DEFINE b == Original(s).stack
  <1>1. CASE Same(exact, a, b)
    <2>1. Len(a) = Len(b) /\ Len(b) \in {1, 2} BY <1>1 DEF Same, OpenStack
    <2>2. SameFirst(exact, a[1], b[1]) BY <1>1, <2>1 DEF Same
    <2>3. Len(a) = 2 => a[2] = b[2]
      <3>1. 2 \in 2..2 OBVIOUS
      <3> QED BY <1>1, <3>1 DEF Same
    <2> QED BY <2>1, <2>2, <2>3 DEF OpenStack, SameFirst
  <1> QED BY <1>1 DEF Like

LEMMA SeqWhole ==
  ASSUME NEW M, NEW a \in Seq(M)
  PROVE  SubSeq(a, 1, Len(a)) = a
  BY SubSeqProperties, LenProperties

LEMMA VoidFits ==
  ASSUME file \in Files, WellFormed, NEW exact \in BOOLEAN, NEW s, NEW e, ValidVoid(s, e),
         NEW a, Fits(a), Like(exact, s, a)
  PROVE  /\ Len(a) \in {1, 2, 3} /\ \A i \in 1..Len(a) : e <= a[i].end
         /\ exact \/ e < file.len => At(exact, e, Finished(a, e))
  <1> DEFINE b == Original(s).stack
  <1>1. s \in 0..file.len /\ e \in 0..file.len /\ Boundary(s) BY DEF ValidVoid
  <1>2. file.len \in Nat /\ file.len < NoEnd /\ e \in Int BY <1>1, FileIs
  <1>3. b \in Seq(file.elements) /\ Levels(b) /\ Nested(b) BY <1>1, ShapeAt
  <1>4. a \in Seq(Masters(file)) /\ Levels(a) /\ Nested(a) BY DEF Fits
  <1>5. Len(a) \in Nat /\ \A i \in 1..Len(a) : a[i].end \in Nat
    BY <1>4, LenProperties, FileIs, ElementOfSeq
  <1>6. (Len(b) \in {2, 3} /\ b[Len(b)].end = e) \/ (OpenStack(b) /\ ClusterStart(e))
    BY DEF ValidVoid
  <1>7. Original(s).held = 0 BY <1>1 DEF Boundary
  <1>8. CASE Len(b) \in {2, 3} /\ b[Len(b)].end = e
    <2> DEFINE n == Len(b)
    <2>1. e # NoEnd BY <1>1, <1>2
    <2>2. ~OpenStack(b) BY <1>8, <2>1 DEF OpenStack
    <2>3. Same(exact, a, b) BY <2>2 DEF Like
    <2>4. Len(a) = n /\ n \in 1..n /\ n \in 2..n
      <3>1. \A x \in {2, 3} : x \in 1..x /\ x \in 2..x OBVIOUS
      <3>2. Len(a) = n BY <2>3 DEF Same
      <3> HIDE DEF n
      <3>3. n \in {2, 3} BY <1>8 DEF n
      <3> QED BY <3>1, <3>2, <3>3
    <2>5. a[n].end = e BY <1>8, <2>3, <2>4 DEF Same
    <2>6. ASSUME NEW i \in 1..Len(a) PROVE e <= a[i].end
      <3>1. i = n \/ i < n BY <1>8, <2>4
      <3>2. n \in 1..Len(a) BY <2>4
      <3> QED BY <1>2, <1>4, <2>5, <3>1, <3>2 DEF Nested
    <2>7. /\ Boundary(e) /\ Original(e).stack = Finished(SubSeq(b, 1, n), e)
      <3>1. n \in 1..Len(Original(s).stack) /\ e = Original(s).stack[n].end BY <1>8, <2>4
      <3> HIDE DEF n
      <3> QED BY <1>1, <1>7, <2>1, <3>1, MasterEnd
    <2>8. SubSeq(b, 1, n) = b BY <1>3, SeqWhole
    <2>9. ASSUME exact \/ e < file.len PROVE At(exact, e, Finished(a, e))
      <3> HIDE DEF b
      <3>1. Same(exact, Finished(a, e), Finished(b, e)) BY <1>2, <1>3, <2>3, <2>9, SameLeft
      <3> QED BY <1>1, <2>7, <2>8, <3>1 DEF At, Like, b
    <2> QED BY <1>8, <2>4, <2>6, <2>9
  <1>9. CASE OpenStack(b) /\ ClusterStart(e)
    <2>1. OpenStack(a) /\ SameFirst(exact, a[1], b[1]) BY <1>9, OpenToo
    <2>2. Len(a) \in {1, 2} /\ (Len(a) = 2 => a[2].end = NoEnd) BY <2>1 DEF OpenStack
    <2>3. Len(b) # 0 BY <1>9 DEF OpenStack
    <2>4. b[1] \in file.elements /\ b[1].id = "segment" /\ b[1].end \in {file.len, NoEnd}
      BY <1>1, <2>3, SegmentIs
    <2>5. a[1].end \in {file.len, NoEnd} BY <2>1, <2>4 DEF SameFirst
    <2>6. e \in 0..(file.len - 1) /\ Boundary(e) /\ OpenStack(Original(e).stack)
      BY <1>9, ClusterBoundary
    <2>7. \A i \in 1..Len(a) : i = 1 \/ (i = 2 /\ Len(a) = 2)
      <3>1. \A x \in {1, 2} : \A i \in 1..x : i = 1 \/ (i = 2 /\ x = 2) OBVIOUS
      <3> QED BY <2>2, <3>1
    <2>8. \A i \in 1..Len(a) : a[i].end > e
      <3>1. NoEnd > e /\ file.len > e BY <1>2, <2>6, SMT DEF NoEnd
      <3> QED BY <2>2, <2>5, <2>7, <3>1
    <2>9. Finished(a, e) = a BY <1>2, <2>8, NoneFinished
    <2>10. Original(e).stack[1] = b[1]
      <3>1. Len(Original(e).stack) # 0 BY <2>6 DEF OpenStack
      <3>2. Original(e).stack[1] \in file.elements /\ Original(e).stack[1].id = "segment"
        BY <1>1, <3>1, SegmentIs
      <3> QED BY <2>4, <3>2 DEF WellFormed
    <2>11. At(exact, e, Finished(a, e)) BY <1>1, <1>9, <2>1, <2>6, <2>9, <2>10 DEF At, Like
    <2>12. \A i \in 1..Len(a) : e <= a[i].end BY <1>2, <1>5, <2>8
    <2>13. Len(a) \in {1, 2, 3} BY <2>2
    <2> QED BY <2>11, <2>12, <2>13
  <1> QED BY <1>6, <1>8, <1>9

\* A tracker that is in step with the file: between elements, in one of the file's leaves,
\* or in a Void that ends by the offset last.
InLeaf(exact, tr, pos) ==
  tr.leaf = Original(pos).leaf /\ Same(exact, tr.stack, Original(pos).stack)
InVoid(exact, tr, pos, last) ==
  /\ tr.leaf.end \in 0..file.len /\ pos < tr.leaf.end /\ tr.leaf.end <= last
  /\ exact \/ tr.leaf.end < file.len => At(exact, tr.leaf.end, Finished(tr.stack, tr.leaf.end))
Reads(exact, tr, pos, last) ==
  /\ IsTracker(tr) /\ tr.mode = "synced" /\ Fits(tr.stack)
  /\ tr.leaf = Nothing => tr.held \in {0, 1} /\ At(exact, pos - tr.held, tr.stack)
  /\ tr.leaf # Nothing => tr.held = 0 /\ (InLeaf(exact, tr, pos) \/ InVoid(exact, tr, pos, last))
Exactly(exact, tr, pos) ==
  tr.leaf = Nothing /\ tr.held = 0 => Same(exact, tr.stack, Original(pos).stack)

LEMMA LeafReads ==
  ASSUME file \in Files, WellFormed, NEW exact \in BOOLEAN, NEW pos \in 0..(file.len - 1),
         exact \/ pos + 1 < file.len, NEW last \in Int,
         NEW tr, Reads(exact, tr, pos, last), tr.leaf # Nothing, NEW byte
  PROVE  /\ Reads(exact, FeedSynced(tr, pos, byte), pos + 1, last)
         /\ InLeaf(exact, tr, pos) => Exactly(exact, FeedSynced(tr, pos, byte), pos + 1)
  <1> DEFINE t == FeedSynced(tr, pos, byte)
             a == tr.stack
             b == Original(pos).stack
  <1>1. file.len \in Nat /\ pos \in 0..file.len /\ pos + 1 \in 0..file.len /\ pos + 1 \in Int
    BY FileIs
  <1>2. /\ IsTracker(tr) /\ tr.mode = "synced" /\ Fits(a) /\ tr.held = 0
        /\ InLeaf(exact, tr, pos) \/ InVoid(exact, tr, pos, last)
    BY DEF Reads
  <1>3. /\ IsTracker(t) /\ t.mode = "synced" /\ t.held = 0
        /\ pos + 1 < tr.leaf.end => t = tr
        /\ ~(pos + 1 < tr.leaf.end) => t.leaf = Nothing /\ t.stack = Finished(a, pos + 1)
    BY <1>2, FeedLeaf
  <1>4. b \in Seq(file.elements) /\ Levels(b) /\ Nested(b) BY <1>1, ShapeAt
  <1> HIDE DEF t, a, b
  <1>5. CASE pos + 1 < tr.leaf.end
    <2>1. t = tr BY <1>3, <1>5
    <2>2. InLeaf(exact, tr, pos) => InLeaf(exact, tr, pos + 1)
      <3> SUFFICES ASSUME InLeaf(exact, tr, pos) PROVE InLeaf(exact, tr, pos + 1) OBVIOUS
      <3>1. tr.leaf = Original(pos).leaf BY DEF InLeaf
      <3>2. Original(pos + 1) = Original(pos) BY <1>5, <3>1, FileLeaf
      <3> QED BY <3>2 DEF InLeaf
    <2>3. InVoid(exact, tr, pos, last) => InVoid(exact, tr, pos + 1, last)
      BY <1>5 DEF InVoid
    <2>4. Reads(exact, t, pos + 1, last) BY <1>2, <2>1, <2>2, <2>3 DEF Reads, a
    <2>5. Exactly(exact, t, pos + 1) BY <2>1 DEF Exactly
    <2> QED BY <2>4, <2>5 DEF t
  <1>6. CASE ~(pos + 1 < tr.leaf.end)
    <2>1. t.leaf = Nothing /\ t.stack = Finished(a, pos + 1) BY <1>3, <1>6
    <2>2. Fits(t.stack) BY <1>1, <1>2, <2>1, FinishedFits
    <2>3. InLeaf(exact, tr, pos) =>
            At(exact, pos + 1, t.stack) /\ Exactly(exact, t, pos + 1)
      <3> SUFFICES ASSUME InLeaf(exact, tr, pos)
                   PROVE  At(exact, pos + 1, t.stack) /\ Exactly(exact, t, pos + 1)
        OBVIOUS
      <3>1. tr.leaf = Original(pos).leaf /\ Same(exact, a, b) BY DEF InLeaf, a, b
      <3>2. Boundary(pos + 1) /\ Original(pos + 1).stack = Finished(b, pos + 1)
        BY <1>6, <3>1, FileLeaf DEF b
      <3>3. Same(exact, Finished(a, pos + 1), Finished(b, pos + 1))
        BY <1>1, <1>2, <1>4, <3>1, SameLeft
      <3> QED BY <1>1, <2>1, <3>2, <3>3 DEF At, Like, Exactly
    <2>4. InVoid(exact, tr, pos, last) => At(exact, pos + 1, t.stack)
      <3> SUFFICES ASSUME InVoid(exact, tr, pos, last) PROVE At(exact, pos + 1, t.stack)
        OBVIOUS
      <3>1. pos + 1 = tr.leaf.end BY <1>1, <1>6 DEF InVoid
      <3> QED BY <2>1, <3>1 DEF InVoid, a
    <2>5. pos + 1 - t.held = pos + 1 /\ t.held \in {0, 1} BY <1>3
    <2>6. Reads(exact, t, pos + 1, last) BY <1>2, <1>3, <2>1, <2>2, <2>3, <2>4, <2>5 DEF Reads
    <2> QED BY <2>3, <2>6 DEF t
  <1> QED BY <1>5, <1>6

LEMMA HeaderReads ==
  ASSUME file \in Files, NEW exact \in BOOLEAN, NEW pos \in 0..(file.len - 1), NEW last,
         NEW tr, Reads(exact, tr, pos, last), tr.leaf = Nothing, tr.held = 0,
         NEW byte, HeaderAt(pos, byte) # {}
  PROVE  /\ Reads(exact, FeedSynced(tr, pos, byte), pos + 1, last)
         /\ FeedSynced(tr, pos, byte).held = 1 /\ FeedSynced(tr, pos, byte).leaf = Nothing
  <1> DEFINE t == FeedSynced(tr, pos, byte)
  <1>1. /\ IsTracker(tr) /\ tr.mode = "synced" /\ Fits(tr.stack)
        /\ At(exact, pos - tr.held, tr.stack)
    BY DEF Reads
  <1>2. pos \in Int /\ pos + 1 - 1 = pos /\ pos - tr.held = pos BY FileIs
  <1>3. /\ IsTracker(t) /\ t.mode = "synced" /\ t.held = 1 /\ t.leaf = Nothing
        /\ t.stack = tr.stack
    BY <1>1, <1>2, FeedFirst
  <1> HIDE DEF t
  <1>4. Reads(exact, t, pos + 1, last) BY <1>1, <1>2, <1>3 DEF Reads
  <1> QED BY <1>3, <1>4 DEF t

\* The second byte of a header, of the file's own and of a Void.
LEMMA OrigReads ==
  ASSUME file \in Files, WellFormed, NEW exact \in BOOLEAN, NEW pos \in 0..(file.len - 1),
         exact \/ pos + 1 < file.len, NEW last \in Int,
         NEW tr, Reads(exact, tr, pos, last), tr.leaf = Nothing, tr.held = 1
  PROVE  /\ Reads(exact, FeedSynced(tr, pos, <<"orig">>), pos + 1, last)
         /\ Exactly(exact, FeedSynced(tr, pos, <<"orig">>), pos + 1)
  <1> DEFINE t == FeedSynced(tr, pos, <<"orig">>)
             a == tr.stack
             e == CHOOSE e \in HeaderAt(pos - 1, <<"orig">>) : TRUE
  <1>1. /\ IsTracker(tr) /\ tr.mode = "synced" /\ Fits(a) /\ At(exact, pos - 1, a)
    BY DEF Reads
  <1>2. pos - 1 \in 0..(file.len - 1) /\ pos \in Int /\ pos + 1 \in 0..file.len
    BY <1>1, FileIs DEF At
  <1>3. HeaderAt(pos - 1, <<"orig">>) # {}
    <2>1. Boundary(pos - 1) BY <1>1 DEF At
    <2>2. \E d \in file.elements : d.start = pos - 1 BY <1>2, <2>1, FileFirst
    <2> QED BY <2>2, OrigHeader
  <1>4. t = OnElement(tr, e) BY <1>1, <1>2, <1>3, FeedSecond
  <1>5. e \in file.elements /\ e.start = pos - 1 BY <1>3, OrigHeader
  <1> HIDE DEF e
  <1>6. e.pay = pos + 1
    <2>1. e.pay = e.start + HeaderLen BY <1>5, FileIs
    <2> QED BY <1>2, <1>5, <2>1, SMT DEF HeaderLen
  <1>7. Like(exact, e.start, a) BY <1>1, <1>5 DEF At
  <1> HIDE DEF a
  <1>8. PICK n : /\ Taken(a, e, n) /\ Fits(Opened(a, e, n)) /\ e.pay \in 0..file.len
                 /\ \E m : LET new == Opened(Original(e.start).stack, e, m) IN
                      /\ new \in Seq(file.elements) /\ Levels(new) /\ Nested(new)
                      /\ Placed(Original(e.start).stack, e, m, Original(e.pay))
                      /\ Same(exact, Opened(a, e, n), new)
    BY <1>1, <1>5, <1>7, LikeTaken
  <1>9. PICK m : LET new == Opened(Original(e.start).stack, e, m) IN
                 /\ new \in Seq(file.elements) /\ Levels(new) /\ Nested(new)
                 /\ Placed(Original(e.start).stack, e, m, Original(e.pay))
                 /\ Same(exact, Opened(a, e, n), new)
    BY <1>8
  <1> DEFINE new == Opened(Original(e.start).stack, e, m)
             mine == Opened(a, e, n)
  <1>10. Placed(a, e, n, t)
    <2>1. a \in Seq(Masters(file)) BY <1>1 DEF Fits
    <2>2. Placed(tr.stack, e, n, OnElement(tr, e)) BY <1>1, <1>8, <2>1, TakenIs DEF a
    <2> QED BY <1>4, <2>2 DEF a
  <1> HIDE DEF t
  <1>11. /\ IsTracker(t) /\ t.mode = "synced" /\ t.held = 0
         /\ t.leaf = IF e.id \notin Descends /\ e.end # e.pay THEN e ELSE Nothing
         /\ t.stack = Finished(mine, pos + 1)
    BY <1>6, <1>10 DEF Placed
  <1>12. /\ Original(pos + 1).held = 0
         /\ Original(pos + 1).leaf = IF e.id \notin Descends /\ e.end # e.pay THEN e ELSE Nothing
         /\ Original(pos + 1).stack = Finished(new, pos + 1)
    BY <1>6, <1>9 DEF Placed
  <1>13. /\ new \in Seq(file.elements) /\ Levels(new) /\ Nested(new) /\ Fits(mine)
         /\ Same(exact, mine, new)
    BY <1>8, <1>9
  <1> HIDE DEF new, mine
  <1>14. pos + 1 \in Int BY <1>2
  <1>15. Same(exact, Finished(mine, pos + 1), Finished(new, pos + 1))
    BY <1>13, <1>14, SameLeft
  <1>16. Same(exact, t.stack, Original(pos + 1).stack) BY <1>11, <1>12, <1>15
  <1>17. Fits(t.stack) BY <1>11, <1>13, <1>14, FinishedFits
  <1>18. t.leaf = Original(pos + 1).leaf BY <1>11, <1>12
  <1>19. t.leaf = Nothing => t.held \in {0, 1} /\ At(exact, pos + 1 - t.held, t.stack)
    <2>1. pos + 1 - t.held = pos + 1 BY <1>11, <1>14
    <2> QED BY <1>2, <1>11, <1>12, <1>16, <1>18, <2>1 DEF At, Boundary, Like
  <1>20. Reads(exact, t, pos + 1, last)
    BY <1>11, <1>16, <1>17, <1>18, <1>19 DEF Reads, InLeaf
  <1> QED BY <1>16, <1>20 DEF Exactly, t

LEMMA VoidHeader ==
  ASSUME NEW s, NEW e
  PROVE  /\ HeaderAt(s, <<"void", s, e>>) = {VoidBox(s, e)}
         /\ \A x : x # s => HeaderAt(x, <<"void", s, e>>) = {}
  BY DEF HeaderAt, VoidBox

LEMMA VoidReads ==
  ASSUME file \in Files, WellFormed, NEW exact \in BOOLEAN, NEW pos \in 0..(file.len - 1),
         exact \/ pos + 1 < file.len, NEW last \in Int,
         NEW tr, Reads(exact, tr, pos, last), tr.leaf = Nothing, tr.held = 1,
         NEW e, ValidVoid(pos - 1, e), e <= last
  PROVE  LET t == FeedSynced(tr, pos, <<"void", pos - 1, e>>) IN
         /\ Reads(exact, t, pos + 1, last) /\ t.held = 0
         /\ t.leaf = IF e = pos + 1 THEN Nothing ELSE VoidBox(pos - 1, e)
  <1> DEFINE t == FeedSynced(tr, pos, <<"void", pos - 1, e>>)
             a == tr.stack
             v == VoidBox(pos - 1, e)
             n == Len(a)
  <1>1. /\ IsTracker(tr) /\ tr.mode = "synced" /\ Fits(a) /\ At(exact, pos - 1, a)
        /\ Like(exact, pos - 1, a)
    BY DEF Reads, At
  <1>2. /\ pos \in Int /\ pos + 1 \in Int /\ pos + 1 \in 0..file.len /\ e \in 0..file.len
        /\ pos + 1 <= e /\ file.len \in Nat /\ file.len < NoEnd
    <2>1. pos - 1 + HeaderLen <= e /\ e \in 0..file.len BY DEF ValidVoid
    <2>2. file.len \in Nat /\ file.len < NoEnd BY FileIs
    <2> QED BY <2>1, <2>2, SMT DEF HeaderLen
  <1>3. v.id = "void" /\ v.pay = pos + 1 /\ v.end = e /\ v # Nothing
    <2>1. v.id = "void" /\ v.pay = pos - 1 + HeaderLen /\ v.end = e BY DEF VoidBox
    <2>2. v # Nothing BY <2>1 DEF Nothing
    <2> QED BY <1>2, <2>1, <2>2, SMT DEF HeaderLen
  <1>4. t = OnElement(tr, v)
    <2>1. HeaderAt(pos - 1, <<"void", pos - 1, e>>) = {v} BY VoidHeader
    <2> HIDE DEF v
    <2>2. (CHOOSE x \in {v} : TRUE) = v OBVIOUS
    <2> QED BY <1>1, <1>2, <2>1, <2>2, FeedSecond
  <1>5. /\ n \in {1, 2, 3} /\ \A i \in 1..n : e <= a[i].end
        /\ exact \/ e < file.len => At(exact, e, Finished(a, e))
    BY <1>1, VoidFits
  <1>6. a \in Seq(Masters(file)) /\ Levels(a) BY <1>1 DEF Fits
  <1> HIDE DEF t, a, v
  <1>7. n \in 1..n /\ n \in 0..n /\ n # 0 /\ \A j \in (n + 1)..n : FALSE
    <2>1. \A x \in {1, 2, 3} : x \in 1..x /\ x \in 0..x /\ x # 0 /\ \A j \in (x + 1)..x : FALSE
      OBVIOUS
    <2> QED BY <1>5, <2>1
  <1>8. Taken(a, v, n)
    <2>1. a[n].id \in {"segment", "cluster", "group"} BY <1>6, <1>7 DEF Levels, LevelId
    <2>2. Allowed(Above(a, n), v.id) BY <1>3, <1>7, <2>1 DEF Above, Allowed
    <2>3. ~(v.end > a[n].end)
      <3>1. a[n].end \in Nat BY <1>6, <1>7, FileIs, ElementOfSeq
      <3> QED BY <1>2, <1>3, <1>5, <1>7, <3>1
    <2>4. v.end # NoEnd /\ ~(v.end > file.len) BY <1>2, <1>3
    <2> QED BY <1>7, <2>2, <2>3, <2>4 DEF Taken
  <1>9. Placed(a, v, n, t)
    <2>1. Placed(tr.stack, v, n, OnElement(tr, v)) BY <1>1, <1>6, <1>8, TakenIs DEF a
    <2> QED BY <1>4, <2>1 DEF a
  <1>10. Opened(a, v, n) = a
    <2>1. v.id \notin Descends BY <1>3 DEF Descends
    <2> QED BY <1>6, <2>1, SeqWhole DEF Opened
  <1>11. /\ IsTracker(t) /\ t.mode = "synced" /\ t.held = 0
         /\ t.leaf = IF e = pos + 1 THEN Nothing ELSE v
         /\ t.stack = Finished(a, pos + 1)
    BY <1>3, <1>9, <1>10 DEF Placed, Descends
  <1>12. Fits(t.stack) BY <1>1, <1>2, <1>11, FinishedFits DEF a
  <1>13. CASE e = pos + 1
    <2>1. At(exact, e, t.stack) BY <1>5, <1>11, <1>13
    <2>2. pos + 1 - t.held = e BY <1>2, <1>11, <1>13
    <2>3. Reads(exact, t, pos + 1, last) BY <1>11, <1>12, <1>13, <2>1, <2>2 DEF Reads
    <2> QED BY <1>11, <2>3 DEF t, v
  <1>14. CASE e # pos + 1
    <2>1. pos + 1 < e BY <1>2, <1>14
    <2>2. \A i \in 1..n : a[i].end > pos + 1
      <3>1. \A i \in 1..n : a[i].end \in Nat BY <1>6, FileIs, ElementOfSeq
      <3> QED BY <1>2, <1>5, <2>1, <3>1
    <2>3. t.stack = a
      <3>1. Fits(a) BY <1>1 DEF a
      <3> QED BY <1>2, <1>11, <2>2, <3>1, NoneFinished
    <2>4. InVoid(exact, t, pos + 1, last)
      BY <1>2, <1>3, <1>5, <1>11, <1>14, <2>1, <2>3 DEF InVoid
    <2>5. Reads(exact, t, pos + 1, last)
      BY <1>3, <1>11, <1>12, <1>14, <2>4 DEF Reads
    <2> QED BY <1>11, <2>5 DEF t, v
  <1> QED BY <1>13, <1>14

ByteOK(byte, last) ==
  \/ byte \in {<<"orig">>, <<"zero">>, <<"track">>}
  \/ \E s, e : byte = <<"void", s, e>> /\ ValidVoid(s, e) /\ e <= last

\* A byte of the file, of a filler or of such a Void leaves the tracker in step, or loses it.
LEMMA StepReads ==
  ASSUME file \in Files, WellFormed, NEW exact \in BOOLEAN, NEW pos \in 0..(file.len - 1),
         exact \/ pos + 1 < file.len, NEW last \in Int,
         NEW tr, Reads(exact, tr, pos, last), NEW byte, ByteOK(byte, last),
         FeedSynced(tr, pos, byte).mode = "synced"
  PROVE  Reads(exact, FeedSynced(tr, pos, byte), pos + 1, last)
  <1>1. /\ IsTracker(tr) /\ tr.mode = "synced"
        /\ tr.leaf = Nothing => tr.held \in {0, 1}
    BY DEF Reads
  <1>2. CASE tr.leaf # Nothing BY <1>2, LeafReads
  <1>3. tr.leaf = Nothing => HeaderAt(pos - tr.held, byte) # {} BY <1>1, FeedLost
  <1>4. CASE tr.leaf = Nothing /\ tr.held = 0
    <2>1. pos - tr.held = pos BY <1>4
    <2>2. HeaderAt(pos, byte) # {} BY <1>3, <1>4, <2>1
    <2> QED BY <1>4, <2>2, HeaderReads
  <1>5. CASE tr.leaf = Nothing /\ tr.held = 1
    <2>1. HeaderAt(pos - 1, byte) # {} BY <1>3, <1>5
    <2>2. CASE byte = <<"orig">> BY <1>5, <2>2, OrigReads
    <2>3. CASE byte \in {<<"zero">>, <<"track">>} BY <2>1, <2>3 DEF HeaderAt
    <2>4. ASSUME NEW s, NEW e, byte = <<"void", s, e>>, ValidVoid(s, e), e <= last
          PROVE  Reads(exact, FeedSynced(tr, pos, byte), pos + 1, last)
      <3>1. s = pos - 1 BY <2>1, <2>4, VoidHeader
      <3> QED BY <1>5, <2>4, <3>1, VoidReads
    <2> QED BY <2>2, <2>3, <2>4 DEF ByteOK
  <1> QED BY <1>1, <1>2, <1>4, <1>5

LEMMA NoneBad ==
  ASSUME NEW n \in Nat, NEW Bad \in SUBSET (0..n), 0 \notin Bad,
         \A k \in 1..n : k - 1 \notin Bad => k \notin Bad
  PROVE  \A k \in 0..n : k \notin Bad
  <1>1. ASSUME Bad # {} PROVE FALSE
    <2>1. PICK k \in Bad : \A m \in Bad : k <= m BY <1>1, First
    <2>2. k \in 1..n /\ k - 1 \in 0..n /\ ~(k <= k - 1) OBVIOUS
    <2> QED BY <2>1, <2>2
  <1> QED BY <1>1

LEMMA FedReads ==
  ASSUME file \in Files, WellFormed, NEW at \in Nat, NEW n \in Nat, at + n < file.len,
         NEW last \in Int, NEW tr, Reads(FALSE, tr, at, last),
         NEW out, \A x \in at..(at + n - 1) : ByteOK(out[x], last)
  PROVE  FedSynced(tr, at, n, out).mode = "synced" =>
           Reads(FALSE, FedSynced(tr, at, n, out), at + n, last)
  <1>1. PICK t : /\ t[0] = tr
                 /\ \A k \in 1..n : t[k] = FeedSynced(t[k - 1], at + k - 1, out[at + k - 1])
                 /\ FedSynced(tr, at, n, out) = t[n]
    BY FedRecursion
  <1> DEFINE P(k) == t[k].mode = "synced" => Reads(FALSE, t[k], at + k, last)
             Bad == {k \in 0..n : ~P(k)}
  <1>2. 0 \notin Bad
    <2>1. at + 0 = at OBVIOUS
    <2> QED BY <1>1, <2>1
  <1>3. ASSUME NEW k \in 1..n, k - 1 \notin Bad PROVE k \notin Bad
    <2> DEFINE o == at + k - 1
    <2>1. /\ k - 1 \in 0..n /\ o = at + (k - 1) /\ o + 1 = at + k /\ o \in at..(at + n - 1)
          /\ o \in 0..(file.len - 1) /\ o + 1 < file.len
      BY FileIs
    <2>2. t[k - 1].mode = "synced" => Reads(FALSE, t[k - 1], o, last) BY <1>3, <2>1
    <2>3. t[k] = FeedSynced(t[k - 1], o, out[o]) BY <1>1
    <2>4. ByteOK(out[o], last) BY <2>1
    <2> HIDE DEF o
    <2>5. CASE t[k - 1].mode # "synced"
      <3>1. t[k] = t[k - 1] BY <2>3, <2>5 DEF FeedSynced
      <3> QED BY <2>5, <3>1
    <2>6. CASE t[k - 1].mode = "synced" /\ t[k].mode = "synced"
      <3>1. Reads(FALSE, t[k], o + 1, last)
        <4>1. FALSE \in BOOLEAN OBVIOUS
        <4> QED BY <2>1, <2>2, <2>3, <2>4, <2>6, <4>1, StepReads
      <3> QED BY <2>1, <3>1
    <2> QED BY <2>5, <2>6
  <1>4. \A k \in 0..n : k \notin Bad
    <2>1. Bad \in SUBSET (0..n) OBVIOUS
    <2> HIDE DEF Bad
    <2> QED BY <1>2, <1>3, <2>1, NoneBad
  <1>5. n \in 0..n OBVIOUS
  <1>6. P(n) BY <1>4, <1>5
  <1> QED BY <1>1, <1>6

InStep(tr, pos, last) == tr.mode = "synced" /\ pos < file.len => Reads(FALSE, tr, pos, last)

\* So does the search for a Cluster, which takes up the structure anew.
LEMMA FeedReads ==
  ASSUME file \in Files, WellFormed, NEW lo \in Nat, NEW o \in 0..(file.len - 1), lo <= o,
         NEW tr, TrackerOK(file, tr, lo, o), NEW last \in Int, InStep(tr, o, last),
         NEW out, \A x \in lo..o : ByteOK(out[x], last)
  PROVE  InStep(Feed(tr, o, out), o + 1, last)
  <1> DEFINE starts == ClusterStarts(tr.from, out, o)
             at == Least(starts)
             stack == <<[id |-> "segment", start |-> 0, pay |-> 0, end |-> NoEnd]>>
             synced == [tr EXCEPT !.mode = "synced", !.ebml = "yes", !.leaf = Nothing, !.held = 0,
                          !.stack = stack]
  <1> SUFFICES ASSUME Feed(tr, o, out).mode = "synced", o + 1 < file.len
               PROVE  Reads(FALSE, Feed(tr, o, out), o + 1, last)
    BY DEF InStep
  <1>0. file.len \in Nat /\ o \in Int /\ o < file.len /\ FALSE \in BOOLEAN BY FileIs
  <1>1. CASE tr.mode # "scan"
    <2>1. Feed(tr, o, out) = FeedSynced(tr, o, out[o]) BY <1>1 DEF Feed
    <2>2. tr.mode = "synced"
      <3>1. tr.mode # "synced" => FeedSynced(tr, o, out[o]) = tr BY DEF FeedSynced
      <3> QED BY <2>1, <3>1
    <2>3. Reads(FALSE, tr, o, last) BY <1>0, <2>2 DEF InStep
    <2>4. ByteOK(out[o], last) BY o \in lo..o
    <2> QED BY <1>0, <2>1, <2>3, <2>4, StepReads
  <1>2. CASE tr.mode = "scan" /\ starts = {}
    <2>1. Feed(tr, o, out) = tr BY <1>2 DEF Feed
    <2> QED BY <1>2, <2>1
  <1>3. CASE tr.mode = "scan" /\ starts # {}
    <2>1. Feed(tr, o, out) = FedSynced(synced, at, o + 1 - at, out) BY <1>3 DEF Feed
    <2>2. starts \in SUBSET Nat /\ \A x \in starts : x >= tr.from /\ x <= o
      BY <1>0, ClusterStartsAre
    <2>3. at \in starts
      <3> HIDE DEF starts
      <3> QED BY <1>3, <2>2, LeastIs
    <2>4. at \in Nat /\ at >= tr.from /\ at <= o BY <2>2, <2>3
    <2>5. ClusterStart(at) BY <2>3 DEF ClusterStarts, ClusterAt, ClusterStart
    <2> HIDE DEF starts, at
    <2>6. IsTracker(tr) /\ tr.from \in Int /\ lo <= tr.from BY DEF TrackerOK
    <2>7. Fits(stack) /\ OpenStack(stack)
      <3> DEFINE m == [id |-> "segment", start |-> 0, pay |-> 0, end |-> NoEnd]
      <3>1. m \in Masters(file) /\ m.id = "segment" /\ m.end = NoEnd BY DEF Masters
      <3>2. stack = <<m>> OBVIOUS
      <3> HIDE DEF m, stack
      <3>3. stack \in Seq(Masters(file)) /\ Len(stack) = 1 /\ stack[1] = m BY <3>1, <3>2
      <3>4. Levels(stack) /\ Nested(stack) BY <3>1, <3>3 DEF Levels, LevelId, Nested
      <3> QED BY <3>1, <3>3, <3>4 DEF Fits, OpenStack
    <2>8. stack[1].id = "segment" /\ stack[1].end = NoEnd OBVIOUS
    <2> HIDE DEF stack
    <2>9. /\ at \in 0..file.len /\ Boundary(at) /\ OpenStack(Original(at).stack)
      BY <2>5, ClusterBoundary
    <2>10. Original(at).stack[1].id = "segment" BY <2>9 DEF OpenStack
    <2>11. At(FALSE, at, stack) BY <2>5, <2>7, <2>8, <2>9, <2>10 DEF At, Like, SameFirst
    <2>12. /\ IsTracker(synced) /\ synced.mode = "synced" /\ synced.leaf = Nothing
           /\ synced.held = 0 /\ synced.stack = stack
      BY <2>6 DEF IsTracker
    <2>13. at - 0 = at BY <2>4
    <2> HIDE DEF synced
    <2>14. Reads(FALSE, synced, at, last) BY <2>7, <2>11, <2>12, <2>13 DEF Reads
    <2> DEFINE n == o + 1 - at
    <2>15. n \in Nat /\ at + n = o + 1 /\ at + n < file.len BY <1>0, <2>4
    <2>16. \A x \in at..(at + n - 1) : ByteOK(out[x], last)
      <3>1. at + n - 1 = o BY <2>4, <2>15
      <3>2. \A x \in at..o : x \in lo..o BY <2>4, <2>6
      <3> QED BY <3>1, <3>2
    <2>17. FedSynced(synced, at, n, out).mode = "synced" BY <2>1
    <2> HIDE DEF n
    <2>18. Reads(FALSE, FedSynced(synced, at, n, out), at + n, last)
      BY <2>4, <2>14, <2>15, <2>16, <2>17, FedReads
    <2> QED BY <2>1, <2>15, <2>18 DEF n
  <1> QED BY <1>1, <1>2, <1>3

-----------------------------------------------------------------------------
(* A plan goes on where the file does: from the end of the leaf the gap    *)
(* is in, Void upon Void up to the end of the plan.                        *)

\* Where the leaf ends that is being read; and from where to where a Void may be laid.
Beyond(k) == IF Original(k).leaf = Nothing THEN k ELSE Original(k).leaf.end
LeadsOn(s, e) ==
  /\ s \in 0..file.len /\ e \in 0..file.len /\ Boundary(s)
  /\ \/ Len(Original(s).stack) \in {2, 3} /\ Original(s).stack[Len(Original(s).stack)].end = e
     \/ OpenStack(Original(s).stack) /\ ClusterStart(e)
\* Where the i-th master of the stack is the innermost one.
StartOf(k, i) ==
  IF i = Len(Original(k).stack) THEN Beyond(k) ELSE Original(k).stack[i + 1].end

LEMMA BeyondIs ==
  ASSUME file \in Files, WellFormed, NEW k \in 0..file.len, Original(k).held = 0
  PROVE  /\ Beyond(k) \in 0..file.len /\ k <= Beyond(k) /\ Boundary(Beyond(k))
         /\ \A i \in 1..Len(Original(k).stack) : Beyond(k) <= Original(k).stack[i].end
         /\ (\A i \in 1..Len(Original(k).stack) : Beyond(k) < Original(k).stack[i].end)
              => Original(Beyond(k)).stack = Original(k).stack
  <1> DEFINE b == Original(k).stack
             leaf == Original(k).leaf
  <1>1. file.len \in Nat /\ k \in Int BY FileIs
  <1>2. Shape(Original(k), k) /\ b \in Seq(file.elements) /\ Levels(b) /\ Nested(b)
    BY ShapeAt
  <1>3. \A i \in 1..Len(b) : b[i].end \in Nat /\ b[i].end > k
    <2>1. \A i \in 1..Len(b) : b[i].end > k - Original(k).held BY <1>2 DEF Shape
    <2>2. k - Original(k).held = k BY <1>1
    <2> QED BY <1>2, <2>1, <2>2, FileIs, ElementOfSeq
  <1>4. CASE leaf = Nothing
    <2>1. Beyond(k) = k BY <1>4 DEF Beyond
    <2> QED BY <1>1, <1>3, <1>4, <2>1 DEF Boundary
  <1>5. CASE leaf # Nothing
    <2>1. /\ leaf.end \in 0..file.len /\ k < leaf.end /\ Boundary(leaf.end)
          /\ Original(leaf.end).stack = Finished(b, leaf.end)
      BY <1>5, LeafRun
    <2>2. \A i \in 1..Len(b) : leaf.end <= b[i].end BY <1>2, <1>5 DEF Shape
    <2>3. Beyond(k) = leaf.end BY <1>5 DEF Beyond
    <2> HIDE DEF b, leaf
    <2>4. (\A i \in 1..Len(b) : leaf.end < b[i].end) => Finished(b, leaf.end) = b
      <3> SUFFICES ASSUME \A i \in 1..Len(b) : leaf.end < b[i].end
                   PROVE  Finished(b, leaf.end) = b
        OBVIOUS
      <3>1. Fits(b) BY <1>2, SameIsFit
      <3>2. leaf.end \in Int BY <2>1
      <3>3. \A i \in 1..Len(b) : b[i].end > leaf.end BY <1>3, <3>2
      <3> QED BY <3>1, <3>2, <3>3, NoneFinished
    <2>5. k <= leaf.end BY <1>1, <2>1
    <2> QED BY <2>1, <2>2, <2>3, <2>4, <2>5 DEF b, leaf
  <1> QED BY <1>4, <1>5

LEMMA StackAt ==
  ASSUME file \in Files, WellFormed, NEW k \in 0..file.len, Original(k).held = 0,
         NEW i \in 1..Len(Original(k).stack),
         i < Len(Original(k).stack) => Original(k).stack[i + 1].end # NoEnd
  PROVE  /\ StartOf(k, i) \in 0..file.len /\ k <= StartOf(k, i) /\ Boundary(StartOf(k, i))
         /\ StartOf(k, i) <= Original(k).stack[i].end
         /\ StartOf(k, i) < Original(k).stack[i].end =>
              /\ Len(Original(StartOf(k, i)).stack) = i
              /\ \A h \in 1..i : Original(StartOf(k, i)).stack[h] = Original(k).stack[h]
  <1> DEFINE b == Original(k).stack
             s == StartOf(k, i)
  <1>1. b \in Seq(file.elements) /\ Levels(b) /\ Nested(b) BY ShapeAt
  <1>2. Len(b) \in Nat /\ \A h \in 1..Len(b) : b[h].end \in Nat
    BY <1>1, LenProperties, FileIs, ElementOfSeq
  <1>3. CASE i = Len(b)
    <2>1. s = Beyond(k) BY <1>3 DEF StartOf
    <2>2. /\ s \in 0..file.len /\ k <= s /\ Boundary(s) /\ \A h \in 1..Len(b) : s <= b[h].end
          /\ (\A h \in 1..Len(b) : s < b[h].end) => Original(s).stack = b
      BY <2>1, BeyondIs
    <2>3. s < b[i].end => \A h \in 1..Len(b) : s < b[h].end
      <3> SUFFICES ASSUME s < b[i].end, NEW h \in 1..Len(b) PROVE s < b[h].end OBVIOUS
      <3>1. h = i \/ h < i BY <1>2, <1>3
      <3>2. h = i \/ b[i].end <= b[h].end BY <1>1, <3>1 DEF Nested
      <3>3. s \in Int BY <2>2
      <3> QED BY <1>2, <3>2, <3>3
    <2> HIDE DEF b, s
    <2> QED BY <1>3, <2>2, <2>3 DEF b, s
  <1>4. CASE i # Len(b)
    <2>1. i + 1 \in 1..Len(b) /\ i < i + 1 /\ i < Len(b) /\ i \in 1..(i + 1) /\ i \in 0..(i + 1)
      BY <1>2, <1>4
    <2>2. s = b[i + 1].end /\ s # NoEnd BY <1>4, <2>1 DEF StartOf
    <2>3. /\ s \in 0..file.len /\ k < s /\ Boundary(s)
          /\ Original(s).stack = Finished(SubSeq(b, 1, i + 1), s)
      <3>1. i + 1 \in 1..Len(Original(k).stack) /\ s = Original(k).stack[i + 1].end
        BY <2>1, <2>2
      <3> HIDE DEF s
      <3> QED BY <2>2, <3>1, MasterEnd
    <2> DEFINE c == SubSeq(b, 1, i + 1)
    <2>4. c \in Seq(file.elements) /\ Len(c) = i + 1 /\ \A h \in 1..(i + 1) : c[h] = b[h]
      <3>1. i + 1 \in 0..Len(b) BY <2>1
      <3> QED BY <1>1, <3>1, PrefixIs
    <2>5. s <= b[i].end BY <1>1, <2>1, <2>2 DEF Nested
    <2> HIDE DEF b, s, c
    <2>6. Nested(c)
      <3>1. Len(c) <= Len(b) /\ \A h \in 1..Len(c) : c[h] = b[h] BY <2>1, <2>4
      <3> QED BY <1>1, <2>4, <3>1, PrefixNested
    <2>7. s < b[i].end => Len(Finished(c, s)) = i /\ \A h \in 1..i : Finished(c, s)[h] = b[h]
      <3> SUFFICES ASSUME s < b[i].end
                   PROVE  Len(Finished(c, s)) = i /\ \A h \in 1..i : Finished(c, s)[h] = b[h]
        OBVIOUS
      <3>1. s \in Int BY <2>3
      <3>2. PICK m \in 0..Len(c) :
               /\ Len(Finished(c, s)) = m
               /\ \A h \in 1..m : Finished(c, s)[h] = c[h] /\ c[h].end > s
               /\ \A j \in (m + 1)..Len(c) : c[j].end <= s
        BY <2>4, <2>6, <3>1, FinishedNested
      <3>3. m # i + 1
        <4> SUFFICES ASSUME m = i + 1 PROVE FALSE OBVIOUS
        <4>1. i + 1 \in 1..m BY <2>1
        <4>2. c[i + 1].end > s /\ c[i + 1] = b[i + 1]
          BY <2>4, <3>2, <4>1
        <4> QED BY <2>2, <3>1, <4>2
      <3>4. ~(m < i)
        <4> SUFFICES ASSUME m < i PROVE FALSE OBVIOUS
        <4>1. i \in (m + 1)..Len(c) BY <2>1, <2>4, <3>2
        <4>2. b[i].end <= s BY <2>1, <2>4, <3>2, <4>1
        <4>3. b[i].end \in Nat BY <1>2, <2>1 DEF b
        <4> QED BY <3>1, <4>2, <4>3
      <3>5. m = i BY <2>1, <2>4, <3>2, <3>3, <3>4
      <3>6. \A h \in 1..i : h \in 1..(i + 1) BY <2>1
      <3> QED BY <2>4, <3>2, <3>5, <3>6
    <2>8. k <= s BY <2>3
    <2> QED BY <2>3, <2>5, <2>7, <2>8 DEF b, c, s
  <1> QED BY <1>3, <1>4

LEMMA LeadsMaster ==
  ASSUME file \in Files, WellFormed, NEW k \in 0..file.len, Original(k).held = 0,
         NEW i \in 2..Len(Original(k).stack), Original(k).stack[i].end # NoEnd,
         i < Len(Original(k).stack) => Original(k).stack[i + 1].end # NoEnd,
         StartOf(k, i) < Original(k).stack[i].end
  PROVE  LeadsOn(StartOf(k, i), Original(k).stack[i].end)
  <1> DEFINE b == Original(k).stack
             s == StartOf(k, i)
  <1>1. b \in Seq(file.elements) /\ Levels(b) BY ShapeAt
  <1>2. Len(b) \in Nat /\ Len(b) <= 3 BY <1>1, LenProperties DEF Levels
  <1>3. i \in 1..Len(b) /\ i \in {2, 3} BY <1>2
  <1>4. /\ s \in 0..file.len /\ Boundary(s) /\ Len(Original(s).stack) = i
        /\ \A h \in 1..i : Original(s).stack[h] = b[h]
    BY <1>3, StackAt
  <1>5. b[i].end \in 0..file.len
    <2>1. b[i] \in file.elements BY <1>1, <1>3, ElementOfSeq
    <2>2. file.len \in Nat /\ b[i].end \in Nat /\ (b[i].end = NoEnd \/ b[i].end <= file.len)
      BY <2>1, FileIs
    <2> QED BY <2>2
  <1>6. Original(s).stack[i] = b[i] BY <1>3, <1>4
  <1> QED BY <1>3, <1>4, <1>5, <1>6 DEF LeadsOn

LEMMA LeadsCluster ==
  ASSUME file \in Files, WellFormed, NEW k \in 0..file.len, Original(k).held = 0,
         NEW i \in {1, 2}, i <= Len(Original(k).stack),
         i < Len(Original(k).stack) => Original(k).stack[i + 1].end # NoEnd,
         i = 2 => Original(k).stack[2].end = NoEnd,
         NEW c, ClusterStart(c), StartOf(k, i) < c
  PROVE  LeadsOn(StartOf(k, i), c)
  <1> DEFINE b == Original(k).stack
             s == StartOf(k, i)
  <1>1. b \in Seq(file.elements) /\ Levels(b) BY ShapeAt
  <1>2. Len(b) \in Nat /\ i \in 1..Len(b) /\ 1 \in 1..Len(b) BY <1>1, LenProperties
  <1>3. c \in 0..(file.len - 1) /\ c \in 0..file.len BY ClusterBoundary
  <1>4. file.len \in Nat /\ file.len < NoEnd BY FileIs
  <1>5. b[1].id = "segment" /\ b[1].end \in {file.len, NoEnd} BY <1>2, SegmentIs
  <1>6. s \in 0..file.len /\ Boundary(s) BY <1>2, StackAt
  <1>7. s < b[i].end
    <2>1. b[i].end \in {file.len, NoEnd} BY <1>5
    <2> HIDE DEF s
    <2>2. s < c BY DEF s
    <2> QED BY <1>3, <1>4, <1>6, <2>1, <2>2, SMT DEF NoEnd
  <1>8. Len(Original(s).stack) = i /\ \A h \in 1..i : Original(s).stack[h] = b[h]
    BY <1>2, <1>7, StackAt
  <1>9. i = 2 => b[2].id = "cluster"
    <2> SUFFICES ASSUME i = 2 PROVE b[2].id = "cluster" OBVIOUS
    <2>1. b[2].id = LevelId(2) BY <1>1, <1>2 DEF Levels
    <2> QED BY <2>1 DEF LevelId
  <1>10. Original(s).stack[1] = b[1] /\ (i = 2 => Original(s).stack[2] = b[2]) BY <1>8
  <1>11. OpenStack(Original(s).stack) BY <1>5, <1>8, <1>9, <1>10 DEF OpenStack
  <1> QED BY <1>3, <1>6, <1>11 DEF LeadsOn

\* One Void for each of the masters from the level l on.
VoidsOf(k, l) ==
  UNION {VoidOver(StartOf(k, i), Original(k).stack[i].end) : i \in l..Len(Original(k).stack)}
Fills(V, s, e) ==
  /\ \A w \in V : ValidVoid(w[1], w[2]) /\ s <= w[1] /\ w[2] <= e
  /\ \A v, w \in V : v = w \/ v[2] <= w[1] \/ w[2] <= v[1]
  /\ \A o \in s..(e - 1) : \E w \in V : w[1] <= o /\ o < w[2]

LEMMA MasterVoids ==
  ASSUME file \in Files, WellFormed, NEW k \in 0..file.len, Original(k).held = 0,
         NEW l \in 2..Len(Original(k).stack),
         \A i \in l..Len(Original(k).stack) : Original(k).stack[i].end # NoEnd,
         \A w \in VoidsOf(k, l) : w[2] - w[1] >= HeaderLen
  PROVE  Fills(VoidsOf(k, l), Beyond(k), Original(k).stack[l].end)
  <1> DEFINE b == Original(k).stack
             V == VoidsOf(k, l)
             I == l..Len(b)
  <1>1. b \in Seq(file.elements) /\ Levels(b) /\ Nested(b) BY ShapeAt
  <1>2. Len(b) \in Nat /\ \A i \in 1..Len(b) : b[i].end \in Nat
    BY <1>1, LenProperties, ElementOfSeq, FileIs
  <1>3. l \in Nat /\ I \in SUBSET (1..Len(b)) /\ I \in SUBSET (2..Len(b)) /\ l \in I BY <1>2
  <1>4. Beyond(k) \in Nat /\ \A i \in 1..Len(b) : Beyond(k) <= b[i].end BY BeyondIs, FileIs
  <1>5. ASSUME NEW i \in I
        PROVE  /\ StartOf(k, i) \in Nat /\ StartOf(k, i) <= b[i].end
               /\ Beyond(k) <= StartOf(k, i) /\ b[i].end <= b[l].end
               /\ StartOf(k, i) # b[i].end => LeadsOn(StartOf(k, i), b[i].end)
    <2>1. i \in 2..Len(b) /\ i \in 1..Len(b) /\ b[i].end # NoEnd BY <1>3
    <2>2. i < Len(b) => i + 1 \in I /\ i + 1 \in 1..Len(b) BY <1>2, <1>3
    <2>3. i < Len(b) => b[i + 1].end # NoEnd BY <2>2
    <2>4. StartOf(k, i) \in 0..file.len /\ StartOf(k, i) <= b[i].end BY <2>1, <2>3, StackAt
    <2>5. Beyond(k) <= StartOf(k, i)
      <3>1. CASE i = Len(b) BY <1>4, <3>1 DEF StartOf
      <3>2. CASE i # Len(b) BY <1>2, <1>4, <2>1, <2>2, <3>2 DEF StartOf
      <3> QED BY <3>1, <3>2
    <2>6. b[i].end <= b[l].end
      <3>1. i = l \/ l < i BY <1>3
      <3> QED BY <1>1, <1>2, <1>3, <2>1, <3>1 DEF Nested
    <2>7. StartOf(k, i) \in Nat BY <2>4
    <2>8. StartOf(k, i) # b[i].end => LeadsOn(StartOf(k, i), b[i].end)
      <3> SUFFICES ASSUME StartOf(k, i) # b[i].end PROVE LeadsOn(StartOf(k, i), b[i].end) OBVIOUS
      <3>1. StartOf(k, i) < b[i].end BY <1>2, <2>1, <2>4, <2>7
      <3> QED BY <2>1, <2>3, <3>1, LeadsMaster
    <2> QED BY <2>4, <2>5, <2>6, <2>7, <2>8
  <1>6. ASSUME NEW w \in V
        PROVE  \E i \in I : w = <<StartOf(k, i), b[i].end>> /\ StartOf(k, i) # b[i].end
    <2>1. PICK i \in I : w \in VoidOver(StartOf(k, i), b[i].end) BY Zenon DEF VoidsOf
    <2> QED BY <2>1 DEF VoidOver
  <1>7. ASSUME NEW i \in I, StartOf(k, i) # b[i].end PROVE <<StartOf(k, i), b[i].end>> \in V
    BY <1>7 DEF VoidsOf, VoidOver
  <1>8. \A w \in V : w[2] - w[1] >= HeaderLen OBVIOUS
  <1> HIDE DEF V, I, b
  <1>9. ASSUME NEW w \in V PROVE ValidVoid(w[1], w[2]) /\ Beyond(k) <= w[1] /\ w[2] <= b[l].end
    <2>1. PICK i \in I : w = <<StartOf(k, i), b[i].end>> /\ StartOf(k, i) # b[i].end BY <1>6
    <2>2. w[1] = StartOf(k, i) /\ w[2] = b[i].end BY <2>1
    <2>3. LeadsOn(w[1], w[2]) /\ Beyond(k) <= w[1] /\ w[2] <= b[l].end BY <1>5, <2>1, <2>2
    <2>4. w[1] \in Nat /\ w[2] \in Nat BY <1>2, <1>3, <1>5, <2>2
    <2>5. w[1] + HeaderLen <= w[2] BY <1>8, <2>4 DEF HeaderLen
    <2> QED BY <2>3, <2>5 DEF LeadsOn, ValidVoid
  <1>10. ASSUME NEW i \in I, NEW j \in I, i < j PROVE b[j].end <= StartOf(k, i)
    <2>1. i # Len(b) /\ i + 1 \in 1..Len(b) /\ j \in 1..Len(b) /\ (j = i + 1 \/ i + 1 < j)
      BY <1>2, <1>3, <1>10
    <2>2. StartOf(k, i) = b[i + 1].end BY <2>1 DEF StartOf, b
    <2> QED BY <1>1, <1>2, <2>1, <2>2 DEF Nested
  <1>11. ASSUME NEW v \in V, NEW w \in V PROVE v = w \/ v[2] <= w[1] \/ w[2] <= v[1]
    <2>1. PICK i \in I : v = <<StartOf(k, i), b[i].end>> BY <1>6
    <2>2. PICK j \in I : w = <<StartOf(k, j), b[j].end>> BY <1>6
    <2>3. i = j \/ i < j \/ j < i BY <1>3
    <2>4. CASE i = j BY <2>1, <2>2, <2>4
    <2>5. CASE i < j BY <1>10, <2>1, <2>2, <2>5
    <2>6. CASE j < i BY <1>10, <2>1, <2>2, <2>6
    <2> QED BY <2>3, <2>4, <2>5, <2>6
  <1>12. ASSUME NEW o \in Beyond(k)..(b[l].end - 1) PROVE \E w \in V : w[1] <= o /\ o < w[2]
    <2> DEFINE over == {i \in I : o < b[i].end}
    <2>1. o \in Int /\ Beyond(k) <= o /\ o < b[l].end BY <1>2, <1>3, <1>4
    <2>2. l \in over /\ over \in SUBSET (1..Len(b)) BY <1>3, <2>1
    <2>3. PICK i \in over : \A j \in over : j <= i
      <3> HIDE DEF over
      <3> QED BY <1>2, <2>2, Highest
    <2>4. i \in I /\ o < b[i].end BY <2>3
    <2>5. StartOf(k, i) <= o
      <3>1. CASE i = Len(b) BY <2>1, <3>1 DEF StartOf, b
      <3>2. CASE i # Len(b)
        <4>1. i + 1 \in I BY <1>2, <1>3, <2>4, <3>2 DEF I
        <4>2. i + 1 \notin over
          <5> HIDE DEF over
          <5> QED BY <1>3, <2>3, <2>4
        <4>3. ~(o < b[i + 1].end) /\ b[i + 1].end \in Nat BY <1>2, <1>3, <4>1, <4>2
        <4>4. StartOf(k, i) = b[i + 1].end BY <3>2 DEF StartOf, b
        <4> QED BY <2>1, <4>3, <4>4
      <3> QED BY <3>1, <3>2
    <2>6. StartOf(k, i) # b[i].end
      <3>1. b[i].end \in Nat BY <1>2, <1>3, <2>4
      <3> QED BY <2>1, <2>4, <2>5, <3>1
    <2> DEFINE w == <<StartOf(k, i), b[i].end>>
    <2>7. w \in V /\ w[1] <= o /\ o < w[2] BY <1>7, <2>4, <2>5, <2>6
    <2> QED BY <2>7
  <1> QED BY <1>9, <1>11, <1>12 DEF Fills, V, b

\* A plan is filled with Voids from the end of the leaf the gap is in up to its own end.
Filled(p) == PlanOK(p) /\ p.end <= file.len /\ Fills(p.voids, Beyond(p.start), p.end)

LEMMA FillsOn ==
  ASSUME NEW s \in Int, NEW u \in Int, NEW c \in Int, s <= u, u <= c, NEW V, Fills(V, s, u),
         u # c => ValidVoid(u, c), \A w \in V : w[2] \in Int
  PROVE  Fills(V \cup VoidOver(u, c), s, c)
  <1> DEFINE W == V \cup VoidOver(u, c)
  <1>1. CASE u = c
    <2>1. W = V BY <1>1 DEF VoidOver
    <2> QED BY <1>1, <2>1
  <1>2. CASE u # c
    <2> DEFINE x == <<u, c>>
    <2>1. W = V \cup {x} /\ x[1] = u /\ x[2] = c BY <1>2 DEF VoidOver
    <2> HIDE DEF x, W
    <2>2. \A w \in V : ValidVoid(w[1], w[2]) /\ s <= w[1] /\ w[2] <= u BY DEF Fills
    <2>3. \A w \in W : ValidVoid(w[1], w[2]) /\ s <= w[1] /\ w[2] <= c
      <3> TAKE w \in W
      <3>1. CASE w \in V BY <2>2, <3>1
      <3>2. CASE w = x
        <4>1. w[1] = u /\ w[2] = c BY <2>1, <3>2
        <4> QED BY <1>2, <4>1
      <3> QED BY <2>1, <3>1, <3>2
    <2>4. \A v, w \in V : v = w \/ v[2] <= w[1] \/ w[2] <= v[1] BY DEF Fills
    <2>5. \A v, w \in W : v = w \/ v[2] <= w[1] \/ w[2] <= v[1] BY <2>1, <2>2, <2>4
    <2>6. \A o \in s..(c - 1) : \E w \in W : w[1] <= o /\ o < w[2]
      <3> TAKE o \in s..(c - 1)
      <3>1. CASE o < u
        <4>1. o \in s..(u - 1) BY <3>1
        <4>2. \A y \in s..(u - 1) : \E w \in V : w[1] <= y /\ y < w[2] BY DEF Fills
        <4> QED BY <2>1, <4>1, <4>2
      <3>2. CASE ~(o < u) BY <2>1, <3>2
      <3> QED BY <3>1, <3>2
    <2> QED BY <2>3, <2>5, <2>6 DEF Fills, W
  <1> QED BY <1>1, <1>2

LEMMA ClusterFound ==
  ASSUME file \in Files, NEW from, NEW limit \in Nat, NEW c \in Clusters(from, limit)
  PROVE  ClusterStart(c) /\ c >= from
  <1> DEFINE bytes == [x \in 0..file.len |-> IF x \in missing THEN <<"zero">> ELSE <<"orig">>]
             stop == IF limit < file.len THEN limit ELSE file.len
             cs == ClusterStarts(from, bytes, stop - 1)
  <1>1. stop - 1 \in Int BY FileIs
  <1>2. cs # {} /\ c = Least(cs) BY DEF Clusters
  <1> HIDE DEF bytes, stop
  <1>3. cs \in SUBSET Nat /\ \A x \in cs : x >= from BY <1>1, ClusterStartsAre
  <1>4. \A x \in cs : ClusterStart(x) BY DEF ClusterStarts, ClusterAt, ClusterStart
  <1> HIDE DEF cs
  <1>5. Least(cs) \in cs BY <1>2, <1>3, LeastIs
  <1> QED BY <1>2, <1>3, <1>4, <1>5

\* Where the tracker reads like the file, so do its masters below the first.
LEMMA StackLike ==
  ASSUME file \in Files, WellFormed, NEW g \in 0..file.len,
         NEW tr, Reads(FALSE, tr, g, g), tr.held = 0, tr.stack # <<>>
  PROVE  /\ Original(g).held = 0
         /\ Beyond(g) = IF tr.leaf = Nothing THEN g ELSE tr.leaf.end
         /\ Len(tr.stack) \in {1, 2, 3}
         /\ \A i \in 1..Len(tr.stack) : tr.stack[i].end \in Nat
         /\ \/ /\ Len(tr.stack) = Len(Original(g).stack)
               /\ \A i \in 2..Len(tr.stack) : tr.stack[i] = Original(g).stack[i]
               /\ Len(tr.stack) = 3 => Original(g).stack[3].end # NoEnd
            \/ OpenStack(tr.stack) /\ OpenStack(Original(g).stack)
  <1> DEFINE a == tr.stack
             b == Original(g).stack
  <1>1. Fits(a) /\ a \in Seq(Masters(file)) /\ Levels(a) BY DEF Reads, Fits
  <1>2. Len(a) \in Nat /\ Len(a) <= 3 /\ Len(a) # 0
    <2>1. Len(a) \in Nat /\ Len(a) <= 3 BY <1>1, LenProperties DEF Levels
    <2> QED BY <1>1, <2>1, EmptySeq
  <1>3. g - 0 = g BY FileIs
  <1>4. Original(g).held = 0 /\ Beyond(g) = IF tr.leaf = Nothing THEN g ELSE tr.leaf.end
    <2>1. CASE tr.leaf = Nothing
      <3>1. Boundary(g) BY <1>3, <2>1 DEF Reads, At
      <3> QED BY <2>1, <3>1 DEF Boundary, Beyond
    <2>2. CASE tr.leaf # Nothing
      <3>1. ~InVoid(FALSE, tr, g, g)
        <4> SUFFICES ASSUME InVoid(FALSE, tr, g, g) PROVE FALSE OBVIOUS
        <4>1. tr.leaf.end \in Int /\ g < tr.leaf.end /\ tr.leaf.end <= g /\ g \in Int
          BY FileIs DEF InVoid
        <4> QED BY <4>1
      <3>2. tr.leaf = Original(g).leaf BY <2>2, <3>1 DEF Reads, InLeaf
      <3>3. Original(g).held = 0 BY <2>2, <3>2, ShapeAt
      <3> QED BY <2>2, <3>2, <3>3 DEF Beyond
    <2> QED BY <2>1, <2>2
  <1>5. Same(FALSE, a, b) \/ (OpenStack(a) /\ OpenStack(b))
    <2>1. CASE tr.leaf = Nothing
      <3>1. Like(FALSE, g, a) BY <1>3, <2>1 DEF Reads, At
      <3> QED BY <3>1 DEF Like
    <2>2. CASE tr.leaf # Nothing
      <3>1. ~InVoid(FALSE, tr, g, g)
        <4> SUFFICES ASSUME InVoid(FALSE, tr, g, g) PROVE FALSE OBVIOUS
        <4>1. tr.leaf.end \in Int /\ g < tr.leaf.end /\ tr.leaf.end <= g /\ g \in Int
          BY FileIs DEF InVoid
        <4> QED BY <4>1
      <3> QED BY <2>2, <3>1 DEF Reads, InLeaf
    <2> QED BY <2>1, <2>2
  <1>6. \A i \in 1..Len(a) : a[i].end \in Nat BY <1>1, ElementOfSeq, FileIs
  <1>7. Len(a) = 3 /\ (\A i \in 2..Len(a) : a[i] = b[i]) => b[3].end # NoEnd
    <2> SUFFICES ASSUME Len(a) = 3, \A i \in 2..Len(a) : a[i] = b[i] PROVE b[3].end # NoEnd
      OBVIOUS
    <2>1. 3 \in 1..Len(a) /\ 3 \in 2..Len(a) OBVIOUS
    <2>2. a[3].end # NoEnd BY <1>1, <2>1 DEF Levels
    <2> QED BY <2>1, <2>2
  <1>8. Len(a) \in {1, 2, 3}
    <2>1. \A n \in Nat : n <= 3 /\ n # 0 => n \in {1, 2, 3} OBVIOUS
    <2> QED BY <1>2, <2>1
  <1> QED BY <1>4, <1>5, <1>6, <1>7, <1>8 DEF Same

LEMMA PlanFills ==
  ASSUME file \in Files, WellFormed, NEW g \in 0..(file.len - 1),
         NEW gapEnd \in Nat, g < gapEnd, gapEnd <= file.len,
         NEW tr, NEW lo, TrackerOK(file, tr, lo, g), Reads(FALSE, tr, g, g),
         NEW p \in Plans(tr, g, gapEnd), p # NoPlan
  PROVE  p.start = g /\ Filled(p)
  <1> DEFINE leaf == tr.leaf
             fix == IF leaf # Nothing /\ leaf.id \in {"simple", "block"} /\ g = leaf.pay
                       /\ leaf.end - leaf.pay >= 4 THEN {g} ELSE {}
             b == IF leaf = Nothing THEN g ELSE leaf.end
             n == Len(tr.stack)
             sized == {i \in 2..n : \A j \in i..n : tr.stack[j].end # NoEnd}
             over == {i \in sized : tr.stack[i].end >= gapEnd}
             last == IF over = {} THEN 0 ELSE CHOOSE i \in over : \A j \in over : j <= i
             start(i) == IF i = n THEN b ELSE tr.stack[i + 1].end
             voids(I) == UNION {VoidOver(start(i), tr.stack[i].end) : i \in I}
             fit(X) == \A w \in X : w[2] - w[1] >= HeaderLen
             up == IF sized = {} THEN b ELSE tr.stack[Least(sized)].end
             from == IF up > gapEnd THEN up ELSE gapEnd
             e == tr.stack[last].end
             V == voids({i \in sized : i >= last})
             W(c) == voids(sized) \cup VoidOver(up, c)
             C == Original(g).stack
  <1>1. /\ tr.held = 0 /\ tr.stack # <<>>
        /\ \/ leaf # Nothing /\ leaf.end >= gapEnd /\ p = MkPlan("payload", g, gapEnd, {}, fix)
           \/ over # {} /\ fit(V) /\ p = MkPlan("void", g, e, V, fix)
           \/ \E c \in Clusters(from, tr.stack[1].end) :
                 fit(W(c)) /\ p = MkPlan("void", g, c, W(c), fix)
    BY Zenon DEF Plans
  <1>2. p.start = g /\ PlanOK(p) BY PlansAre
  <1>3. g \in 0..file.len /\ g \in Nat /\ file.len \in Nat BY FileIs
  <1>4. /\ Original(g).held = 0 /\ Beyond(g) = b /\ n \in {1, 2, 3}
        /\ \A i \in 1..n : tr.stack[i].end \in Nat
        /\ \/ /\ n = Len(C) /\ \A i \in 2..n : tr.stack[i] = C[i]
              /\ n = 3 => C[3].end # NoEnd
           \/ OpenStack(tr.stack) /\ OpenStack(C)
    BY <1>1, <1>3, StackLike
  <1>5. b \in 0..file.len /\ g <= b /\ Boundary(b) /\ \A i \in 1..Len(C) : b <= C[i].end
    BY <1>3, <1>4, BeyondIs
  <1>6. C \in Seq(file.elements) /\ Nested(C) /\ Len(C) \in Nat
    BY <1>3, ShapeAt, LenProperties
  <1>7. \A i \in 1..Len(C) : C[i].end \in Nat /\ (C[i].end = NoEnd \/ C[i].end <= file.len)
    BY <1>6, ElementOfSeq, FileIs
  <1>8. sized \in SUBSET (2..n) /\ over \in SUBSET sized /\ sized \in SUBSET Nat
    BY <1>4
  <1>9. ASSUME NEW l \in sized
        PROVE  /\ n = Len(C) /\ l \in 2..Len(C) /\ \A i \in l..Len(C) : C[i].end # NoEnd
               /\ \A i \in 2..n : tr.stack[i] = C[i]
               /\ {i \in sized : i >= l} = l..n /\ voids(l..n) = VoidsOf(g, l)
    <2>1. l \in 2..n /\ \A j \in l..n : tr.stack[j].end # NoEnd BY <1>9
    <2>2. ~OpenStack(tr.stack)
      <3> SUFFICES ASSUME OpenStack(tr.stack) PROVE FALSE OBVIOUS
      <3>1. n \in {1, 2} /\ (n = 2 => tr.stack[2].end = NoEnd) BY DEF OpenStack
      <3>2. n = 2 /\ 2 \in l..n BY <2>1, <3>1
      <3> QED BY <2>1, <3>1, <3>2
    <2>3. n = Len(C) /\ \A i \in 2..n : tr.stack[i] = C[i] BY <1>4, <2>2
    <2>4. {i \in sized : i >= l} = l..n
      <3>1. \A i \in l..n : i \in 2..n /\ i >= l /\ \A j \in i..n : j \in l..n BY <1>4, <2>1
      <3>2. \A i \in l..n : i \in sized BY <2>1, <3>1
      <3>3. \A i \in sized : i >= l => i \in l..n BY <1>4, <2>1
      <3> HIDE DEF sized
      <3> QED BY <3>1, <3>2, <3>3
    <2>5. \A i \in l..n : start(i) = StartOf(g, i) /\ tr.stack[i].end = C[i].end
      <3> TAKE i \in l..n
      <3>1. i \in 2..n /\ (i # n => i + 1 \in 2..n) BY <1>4, <2>1
      <3>2. tr.stack[i] = C[i] /\ (i # n => tr.stack[i + 1] = C[i + 1]) BY <2>3, <3>1
      <3> HIDE DEF b
      <3> QED BY <1>4, <2>3, <3>2 DEF StartOf
    <2> HIDE DEF start, C, sized
    <2>6. voids(l..n) = VoidsOf(g, l)
      <3>1. \A w : w \in voids(l..n) <=> \E i \in l..n : w \in VoidOver(start(i), tr.stack[i].end)
        BY Zenon
      <3>2. \A w : w \in VoidsOf(g, l) <=> \E i \in l..n : w \in VoidOver(StartOf(g, i), C[i].end)
        BY <2>3, Zenon DEF VoidsOf, C
      <3> HIDE DEF voids
      <3> QED BY <2>5, <3>1, <3>2
    <2> HIDE DEF n, voids
    <2> QED BY <2>1, <2>3, <2>4, <2>6
  <1> HIDE DEF fix, voids, from, up, sized, over, fit
  <1>a. /\ (sized # {} => Least(sized) \in sized /\ \A y \in sized : Least(sized) <= y)
        /\ (over # {} => last \in over)
    <2> HIDE DEF sized
    <2>1. sized # {} => Least(sized) \in sized /\ \A y \in sized : Least(sized) <= y
      BY <1>8, LeastIs
    <2>2. over # {} => last \in over
      <3> SUFFICES ASSUME over # {} PROVE last \in over OBVIOUS
      <3>1. over \in SUBSET (1..n) /\ n \in Nat BY <1>4, <1>8
      <3> HIDE DEF over, n
      <3>2. \E i \in over : \A j \in over : j <= i BY <3>1, Highest
      <3> QED BY <3>2
    <2> QED BY <2>1, <2>2
  <1>10. CASE leaf # Nothing /\ leaf.end >= gapEnd /\ p = MkPlan("payload", g, gapEnd, {}, fix)
    <2>1. p.end = gapEnd /\ p.voids = {} BY <1>10 DEF MkPlan
    <2>2. b >= gapEnd BY <1>10
    <2> HIDE DEF b
    <2>3. b..(gapEnd - 1) = {} BY <1>5, <2>2
    <2>4. Fills({}, b, gapEnd) BY <2>3 DEF Fills
    <2> QED BY <1>2, <1>4, <2>1, <2>4 DEF Filled
  <1>11. CASE over # {} /\ fit(V) /\ p = MkPlan("void", g, e, V, fix)
    <2>1. last \in over /\ last \in sized BY <1>8, <1>11, <1>a
    <2> DEFINE l == last
    <2> HIDE DEF last
    <2>2. /\ l \in 2..Len(C) /\ \A i \in l..Len(C) : C[i].end # NoEnd
          /\ n = Len(C) /\ \A i \in 2..n : tr.stack[i] = C[i]
          /\ {i \in sized : i >= l} = l..n /\ voids(l..n) = VoidsOf(g, l)
      BY <1>9, <2>1
    <2> HIDE DEF l
    <2>3. V = VoidsOf(g, l) /\ e = C[l].end
      <3>1. l \in 2..n BY <2>2
      <3>2. tr.stack[l] = C[l] BY <2>2, <3>1
      <3> HIDE DEF voids, C, n, sized
      <3> QED BY <2>2, <3>2 DEF l
    <2>4. \A w \in VoidsOf(g, l) : w[2] - w[1] >= HeaderLen
      <3> HIDE DEF V
      <3> QED BY <1>11, <2>3 DEF fit
    <2>5. Fills(VoidsOf(g, l), Beyond(g), C[l].end) BY <1>3, <1>4, <2>2, <2>4, MasterVoids
    <2>6. C[l].end <= file.len
      <3>1. l \in l..Len(C) /\ l \in 1..Len(C) BY <1>6, <2>2
      <3> QED BY <1>7, <2>2, <3>1
    <2> HIDE DEF V, e
    <2>7. p.end = C[l].end /\ p.voids = VoidsOf(g, l) BY <1>11, <2>3 DEF MkPlan
    <2> QED BY <1>2, <2>5, <2>6, <2>7 DEF Filled
  <1>12. ASSUME NEW c \in Clusters(from, tr.stack[1].end), fit(W(c)),
                p = MkPlan("void", g, c, W(c), fix)
         PROVE  Filled(p)
    <2>1. 1 \in 1..n BY <1>4
    <2>2. tr.stack[1].end \in Nat BY <1>4, <2>1
    <2>3. ClusterStart(c) /\ c >= from BY <1>12, <2>2, ClusterFound
    <2>4. c \in 0..(file.len - 1) /\ c \in Nat BY <2>3, ClusterBoundary
    <2>5. p.end = c /\ p.voids = W(c) BY <1>12 DEF MkPlan
    <2>6. CASE sized = {}
      <3> DEFINE i == Len(C)
      <3>1. i \in {1, 2} /\ (i = 2 => C[2].end = NoEnd)
        <4>1. CASE OpenStack(tr.stack) /\ OpenStack(C) BY <4>1 DEF OpenStack
        <4>2. CASE /\ n = Len(C) /\ \A h \in 2..n : tr.stack[h] = C[h]
                   /\ n = 3 => C[3].end # NoEnd
          <5>1. ASSUME n # 1, tr.stack[n].end # NoEnd PROVE FALSE
            <6>0. \A m \in {1, 2, 3} : m # 1 => m \in 2..m /\ \A j \in m..m : j = m OBVIOUS
            <6>1. n \in 2..n /\ \A j \in n..n : j = n BY <1>4, <5>1, <6>0
            <6>2. n \in sized BY <5>1, <6>1 DEF sized
            <6> QED BY <2>6, <6>2
          <5>2. n = 3 => tr.stack[3] = C[3]
            <6>1. n = 3 => 3 \in 2..n OBVIOUS
            <6> QED BY <4>2, <6>1
          <5>3. n = 2 => tr.stack[2] = C[2]
            <6>1. n = 2 => 2 \in 2..n OBVIOUS
            <6> QED BY <4>2, <6>1
          <5> QED BY <1>4, <4>2, <5>1, <5>2, <5>3
        <4> QED BY <1>4, <4>1, <4>2
      <3>2. StartOf(g, i) = Beyond(g) BY DEF StartOf
      <3>3. up = b BY <2>6 DEF up
      <3>4. voids(sized) = {} BY <2>6, Zenon DEF voids
      <3>5. b <= c BY <1>3, <1>5, <2>3, <2>4, <3>3 DEF from
      <3>6. b # c => LeadsOn(b, c)
        <4> SUFFICES ASSUME b # c PROVE LeadsOn(b, c) OBVIOUS
        <4>1. b < c BY <1>5, <2>4, <3>5
        <4>2. StartOf(g, i) < c /\ i <= Len(C) /\ ~(i < Len(C)) BY <1>4, <1>6, <3>2, <4>1
        <4>3. LeadsOn(StartOf(g, i), c) BY <1>3, <1>4, <2>3, <3>1, <4>2, LeadsCluster
        <4> QED BY <1>4, <3>2, <4>3
      <3>7. b # c => ValidVoid(b, c)
        <4> SUFFICES ASSUME b # c PROVE ValidVoid(b, c) OBVIOUS
        <4> DEFINE w == <<b, c>>
        <4>1. w \in W(c) /\ w[1] = b /\ w[2] = c BY <3>3 DEF VoidOver
        <4>2. c - b >= HeaderLen BY <1>12, <4>1 DEF fit
        <4>3. b + HeaderLen <= c BY <1>5, <2>4, <4>2 DEF HeaderLen
        <4> QED BY <3>6, <4>3 DEF LeadsOn, ValidVoid
      <3>8. W(c) = {} \cup VoidOver(b, c) BY <3>3, <3>4
      <3> HIDE DEF b, W
      <3>9. b \in Int /\ b <= b /\ c \in Int /\ Fills({}, b, b)
        <4>1. b \in Int /\ b..(b - 1) = {} BY <1>5
        <4> QED BY <2>4, <4>1 DEF Fills
      <3>10. Fills(W(c), b, c) BY <3>5, <3>7, <3>8, <3>9, FillsOn
      <3>11. c <= file.len BY <1>3, <2>4
      <3> QED BY <1>2, <1>4, <2>5, <3>10, <3>11 DEF Filled
    <2>7. CASE sized # {}
      <3> DEFINE l == Least(sized)
                 i == l - 1
      <3>1. l \in sized /\ \A y \in sized : l <= y BY <1>a, <2>7
      <3> HIDE DEF l
      <3>2. /\ l \in 2..Len(C) /\ \A h \in l..Len(C) : C[h].end # NoEnd
            /\ n = Len(C) /\ \A h \in 2..n : tr.stack[h] = C[h]
            /\ {h \in sized : h >= l} = l..n /\ voids(l..n) = VoidsOf(g, l)
        BY <1>9, <3>1
      <3>3. sized = l..n
        <4>1. \A h \in sized : h >= l BY <1>8, <3>1
        <4> HIDE DEF n
        <4> QED BY <3>2, <4>1
      <3>4. Len(C) \in {2, 3} /\ l \in {2, 3} /\ i \in {1, 2} /\ i < Len(C) /\ i + 1 = l
        <4>1. \A m \in {1, 2, 3} : \A x \in 2..m :
                 m \in {2, 3} /\ x \in {2, 3} /\ x - 1 \in {1, 2} /\ x - 1 < m /\ x - 1 + 1 = x
          OBVIOUS
        <4> QED BY <1>4, <3>2, <4>1
      <3>5. l \in l..Len(C) /\ l \in 1..Len(C) /\ C[l].end # NoEnd
        <4>1. l \in l..Len(C) /\ l \in 1..Len(C) BY <1>6, <3>2
        <4> QED BY <3>2, <4>1
      <3>6. up = C[l].end /\ StartOf(g, i) = C[l].end /\ C[l].end \in Nat /\ b <= C[l].end
        <4>1. l \in 2..n BY <3>2
        <4>2. tr.stack[l] = C[l] BY <3>2, <4>1
        <4>3. up = C[l].end BY <2>7, <4>2 DEF up, l
        <4>4. i # Len(C) BY <3>4, <1>6
        <4>5. StartOf(g, i) = C[l].end BY <3>4, <4>4 DEF StartOf
        <4> QED BY <1>5, <1>7, <3>5, <4>3, <4>5
      <3>7. i = 2 => C[2].end = NoEnd
        <4> SUFFICES ASSUME i = 2, C[2].end # NoEnd PROVE FALSE OBVIOUS
        <4>0. \A m, x \in {2, 3} : x - 1 = 2 /\ x - 1 < m => x = 3 /\ m = 3 OBVIOUS
        <4>1. l = 3 /\ Len(C) = 3 BY <3>4, <4>0
        <4>2. 2 \notin sized BY <3>1, <4>1
        <4>3. \A h \in 2..n : h = 2 \/ h \in l..Len(C) BY <3>2, <4>1
        <4>4. \A h \in 2..n : tr.stack[h].end # NoEnd BY <3>2, <4>3
        <4>5. 2 \in 2..n BY <3>2, <4>1
        <4> QED BY <4>2, <4>4, <4>5 DEF sized
      <3>8. C[l].end <= c BY <2>3, <2>4, <3>6 DEF from
      <3>9. W(c) = VoidsOf(g, l) \cup VoidOver(C[l].end, c)
        <4> HIDE DEF C, n
        <4> QED BY <3>2, <3>3, <3>6
      <3>10. \A w \in W(c) : w[2] - w[1] >= HeaderLen BY <1>12 DEF fit
      <3> HIDE DEF W
      <3>11. C[l].end # c => ValidVoid(C[l].end, c)
        <4> SUFFICES ASSUME C[l].end # c PROVE ValidVoid(C[l].end, c) OBVIOUS
        <4>1. StartOf(g, i) < c /\ i <= Len(C) BY <1>6, <2>4, <3>4, <3>6, <3>8
        <4>2. i < Len(C) => C[i + 1].end # NoEnd BY <3>4, <3>5
        <4>3. LeadsOn(C[l].end, c)
          <5>1. LeadsOn(StartOf(g, i), c)
            BY <1>3, <1>4, <2>3, <3>4, <3>7, <4>1, <4>2, LeadsCluster
          <5> QED BY <3>6, <5>1
        <4> DEFINE w == <<C[l].end, c>>
        <4>4. w \in W(c) /\ w[1] = C[l].end /\ w[2] = c BY <3>9 DEF VoidOver
        <4>5. c - C[l].end >= HeaderLen BY <3>10, <4>4
        <4>6. C[l].end + HeaderLen <= c BY <2>4, <3>6, <4>5 DEF HeaderLen
        <4> QED BY <4>3, <4>6 DEF LeadsOn, ValidVoid
      <3>12. Fills(VoidsOf(g, l), b, C[l].end)
        <4>1. \A w \in VoidsOf(g, l) : w[2] - w[1] >= HeaderLen BY <3>9, <3>10
        <4> QED BY <1>3, <1>4, <3>2, <4>1, MasterVoids
      <3> HIDE DEF b, C, i
      <3>13. \A w \in VoidsOf(g, l) : w[2] \in Int
        <4>1. \A w \in VoidsOf(g, l) : ValidVoid(w[1], w[2]) BY <3>12 DEF Fills
        <4> QED BY <4>1 DEF ValidVoid
      <3>14. b \in Int /\ C[l].end \in Int /\ c \in Int /\ b <= C[l].end BY <1>5, <2>4, <3>6
      <3>15. Fills(W(c), b, c) BY <3>8, <3>9, <3>11, <3>12, <3>13, <3>14, FillsOn
      <3>16. c <= file.len BY <1>3, <2>4
      <3> QED BY <1>2, <1>4, <2>5, <3>15, <3>16 DEF Filled
    <2> QED BY <2>6, <2>7
  <1> QED BY <1>1, <1>2, <1>10, <1>11, <1>12

-----------------------------------------------------------------------------
(* What a request has sent reads well.                                     *)

\* What has been sent leaves the tracker in step, or without its place.
SentGood(s, last) ==
  /\ s.cur <= file.len /\ InStep(s.tr, s.cur, last)
  /\ \A o \in DOMAIN s.out : ByteOK(s.out[o], last)

LEMMA GoodByte ==
  ASSUME file \in Files, NEW last, NEW byte, ByteOK(byte, last)
  PROVE  IsByte(byte)
  <1>1. CASE byte \in {<<"orig">>, <<"zero">>, <<"track">>} BY <1>1 DEF IsByte
  <1>2. ASSUME NEW s, NEW e, byte = <<"void", s, e>>, ValidVoid(s, e) PROVE IsByte(byte)
    <2>1. file.len \in Nat /\ e \in 0..file.len BY <1>2, FileIs DEF ValidVoid
    <2>2. e \in Int /\ byte[3] = e BY <1>2, <2>1
    <2> QED BY <2>2 DEF IsByte
  <1> QED BY <1>1, <1>2 DEF ByteOK

\* The trackers of a run of bytes that is sent.
LEMMA SentTrace ==
  ASSUME file \in Files, NEW s, SentOfRange(file, s), NEW n \in Nat, NEW bytes,
         \A o \in s.cur..(s.cur + n - 1) : IsByte(bytes[o])
  PROVE  \E t, out :
           /\ t[0] = s.tr /\ t[n] = Sent(s, n, bytes).tr /\ out = Sent(s, n, bytes).out
           /\ \A k \in 1..n : t[k] = Feed(t[k - 1], s.cur + k - 1, out)
           /\ DOMAIN out = s.first..(s.cur + n - 1)
           /\ \A o \in DOMAIN s.out : out[o] = s.out[o]
           /\ \A o \in s.cur..(s.cur + n - 1) : out[o] = bytes[o]
  <1>0. PICK t : /\ t[0] = s.tr
                 /\ \A k \in 1..n :
                       t[k] = Feed(t[k - 1], s.cur + k - 1, BytesSent(s, n, bytes))
                 /\ Sent(s, n, bytes) = Onward(s, n, BytesSent(s, n, bytes), t[n])
    BY SentRecursion
  <1> DEFINE out == BytesSent(s, n, bytes)
             u == Sent(s, n, bytes)
  <1>1. /\ s.first \in Nat /\ s.cur \in Nat /\ s.first <= s.cur
        /\ DOMAIN s.out = s.first..(s.cur - 1) /\ {"out", "cur", "tr"} \subseteq DOMAIN s
    BY DEF SentOfRange
  <1>2. DOMAIN out = s.first..(s.cur + n - 1) BY <1>1 DEF BytesSent
  <1>3. \A o \in DOMAIN s.out : out[o] = s.out[o] BY <1>1 DEF BytesSent
  <1>4. \A o \in s.cur..(s.cur + n - 1) : out[o] = bytes[o] BY <1>1 DEF BytesSent
  <1>5. u = Onward(s, n, out, t[n]) BY <1>0
  <1>6. \A k \in 1..n : t[k] = Feed(t[k - 1], s.cur + k - 1, out) BY <1>0
  <1> HIDE DEF out, u
  <1>7. u.out = out /\ u.tr = t[n] BY <1>1, <1>5 DEF Onward
  <1>8. /\ t[0] = s.tr /\ t[n] = Sent(s, n, bytes).tr /\ out = Sent(s, n, bytes).out
        /\ \A k \in 1..n : t[k] = Feed(t[k - 1], s.cur + k - 1, out)
        /\ DOMAIN out = s.first..(s.cur + n - 1)
        /\ \A o \in DOMAIN s.out : out[o] = s.out[o]
        /\ \A o \in s.cur..(s.cur + n - 1) : out[o] = bytes[o]
    BY <1>0, <1>2, <1>3, <1>4, <1>6, <1>7 DEF u
  <1> QED BY <1>8

LEMMA SentReads ==
  ASSUME file \in Files, WellFormed, NEW s, SentOfRange(file, s), NEW last \in Int,
         SentGood(s, last), NEW n \in Nat, s.cur + n <= file.len, NEW bytes,
         \A o \in s.cur..(s.cur + n - 1) : ByteOK(bytes[o], last)
  PROVE  SentGood(Sent(s, n, bytes), last)
  <1> DEFINE u == Sent(s, n, bytes)
             cur == s.cur
             first == s.first
  <1>1. \A o \in s.cur..(s.cur + n - 1) : IsByte(bytes[o]) BY GoodByte
  <1>2. PICK t, out :
           /\ t[0] = s.tr /\ t[n] = Sent(s, n, bytes).tr /\ out = Sent(s, n, bytes).out
           /\ \A k \in 1..n : t[k] = Feed(t[k - 1], s.cur + k - 1, out)
           /\ DOMAIN out = s.first..(s.cur + n - 1)
           /\ \A o \in DOMAIN s.out : out[o] = s.out[o]
           /\ \A o \in s.cur..(s.cur + n - 1) : out[o] = bytes[o]
    BY <1>1, SentTrace
  <1>3. /\ first \in Nat /\ cur \in Nat /\ first <= cur /\ DOMAIN s.out = first..(cur - 1)
        /\ TrackerOK(file, s.tr, first, cur)
    BY DEF SentOfRange
  <1>4. u.cur = cur + n BY <1>1, SentOK
  <1>5. \A o \in DOMAIN out : ByteOK(out[o], last)
    <2> TAKE o \in DOMAIN out
    <2>1. o \in DOMAIN s.out \/ o \in s.cur..(s.cur + n - 1) BY <1>2, <1>3
    <2>2. o \in DOMAIN s.out => ByteOK(s.out[o], last) BY DEF SentGood
    <2> QED BY <1>2, <2>1, <2>2
  <1>6. file.len \in Nat BY FileIs
  <1> DEFINE good(k) == TrackerOK(file, t[k], first, cur + k) /\ InStep(t[k], cur + k, last)
             Bad == {k \in 0..n : ~good(k)}
  <1>7. \A k \in 0..n : k \notin Bad
    <2>1. 0 \notin Bad
      <3>1. cur + 0 = cur BY <1>3
      <3> QED BY <1>2, <1>3, <3>1 DEF SentGood
    <2>2. ASSUME NEW k \in 1..n, k - 1 \notin Bad PROVE k \notin Bad
      <3> DEFINE o == cur + k - 1
                 tr == t[k - 1]
      <3>1. /\ o \in 0..(file.len - 1) /\ o \in Int /\ first <= o /\ o = cur + (k - 1)
            /\ o + 1 = cur + k /\ k - 1 \in 0..n /\ \A x \in first..o : x \in DOMAIN out
        <4>1. DOMAIN out = first..(cur + n - 1) BY <1>2
        <4>2. first \in Nat /\ cur \in Nat /\ first <= cur BY <1>3
        <4>3. cur + n <= file.len OBVIOUS
        <4> HIDE DEF first, cur
        <4> QED BY <1>6, <4>1, <4>2, <4>3
      <3>2. TrackerOK(file, tr, first, o) /\ InStep(tr, o, last)
        <4>1. good(k - 1) BY <2>2, <3>1
        <4> QED BY <3>1, <4>1
      <3>3. \A x \in first..o : ByteOK(out[x], last) /\ IsByte(out[x])
        BY <1>5, <3>1, GoodByte
      <3>4. t[k] = Feed(tr, o, out) BY <1>2
      <3> HIDE DEF tr, o, first
      <3>5. InStep(Feed(tr, o, out), o + 1, last)
        BY <1>3, <3>1, <3>2, <3>3, FeedReads
      <3>6. first \in Int BY <1>3
      <3>7. TrackerOK(file, Feed(tr, o, out), first, o + 1)
        BY <3>1, <3>2, <3>3, <3>6, FeedOK
      <3>8. good(k) BY <3>1, <3>4, <3>5, <3>7
      <3> QED BY <3>8
    <2>3. Bad \in SUBSET (0..n) OBVIOUS
    <2> HIDE DEF Bad
    <2> QED BY <2>1, <2>2, <2>3, NoneBad
  <1>8. good(n) BY <1>7
  <1> QED BY <1>2, <1>4, <1>5, <1>8 DEF SentGood, u

\* What the tracker reads where the file's own bytes are sent, or a Void begins.
LEMMA ReadsHere ==
  ASSUME file \in Files, WellFormed, NEW pos \in 0..file.len, NEW tr, Reads(TRUE, tr, pos, pos)
  PROVE  /\ tr.leaf = Original(pos).leaf
         /\ Original(pos).leaf = Nothing => tr.held = Original(pos).held
         /\ tr.leaf # Nothing => Same(TRUE, tr.stack, Original(pos).stack) /\ tr.held = 0
         /\ tr.held \in {0, 1}
  <1>1. pos \in Nat /\ pos - 0 = pos BY FileIs
  <1>2. CASE tr.leaf # Nothing
    <2>1. ~InVoid(TRUE, tr, pos, pos)
      <3> SUFFICES ASSUME InVoid(TRUE, tr, pos, pos) PROVE FALSE OBVIOUS
      <3>1. tr.leaf.end \in Int /\ pos < tr.leaf.end /\ tr.leaf.end <= pos BY FileIs DEF InVoid
      <3> QED BY <1>1, <3>1
    <2>2. tr.held = 0 /\ InLeaf(TRUE, tr, pos) BY <1>2, <2>1 DEF Reads
    <2> QED BY <1>2, <2>2 DEF InLeaf
  <1>3. CASE tr.leaf = Nothing /\ tr.held = 0
    <2>1. Boundary(pos) BY <1>1, <1>3 DEF Reads, At
    <2> QED BY <1>3, <2>1 DEF Boundary
  <1>4. CASE tr.leaf = Nothing /\ tr.held = 1
    <2>1. Boundary(pos - 1) /\ pos - 1 \in 0..file.len BY <1>4 DEF Reads, At
    <2>2. pos - 1 \in 0..(file.len - 1) /\ pos - 1 + 1 = pos BY <1>1, <2>1, FileIs
    <2>3. Original(pos - 1 + 1).held = 1 /\ Original(pos - 1 + 1).leaf = Nothing
      BY <2>1, <2>2, FileFirst
    <2> QED BY <1>4, <2>2, <2>3
  <1>5. tr.leaf = Nothing => tr.held \in {0, 1} BY DEF Reads
  <1> QED BY <1>2, <1>3, <1>4, <1>5

LEMMA OrigStep ==
  ASSUME file \in Files, WellFormed, NEW exact \in BOOLEAN, NEW pos \in 0..(file.len - 1),
         exact \/ pos + 1 < file.len, NEW last \in Int, last <= pos,
         NEW tr, Reads(exact, tr, pos, last)
  PROVE  /\ Reads(exact, FeedSynced(tr, pos, <<"orig">>), pos + 1, last)
         /\ Exactly(exact, FeedSynced(tr, pos, <<"orig">>), pos + 1)
  <1> DEFINE byte == <<"orig">>
             u == FeedSynced(tr, pos, byte)
  <1>0. pos \in Nat /\ pos - 0 = pos BY FileIs
  <1>1. CASE tr.leaf # Nothing
    <2>1. ~InVoid(exact, tr, pos, last)
      <3> SUFFICES ASSUME InVoid(exact, tr, pos, last) PROVE FALSE OBVIOUS
      <3>1. tr.leaf.end \in Int /\ pos < tr.leaf.end /\ tr.leaf.end <= last BY FileIs DEF InVoid
      <3> QED BY <1>0, <3>1
    <2>2. InLeaf(exact, tr, pos) BY <1>1, <2>1 DEF Reads
    <2> QED BY <1>0, <1>1, <2>2, LeafReads
  <1>2. CASE tr.leaf = Nothing /\ tr.held = 0
    <2>1. Boundary(pos) BY <1>0, <1>2 DEF Reads, At
    <2>2. PICK e \in file.elements : e.start = pos BY <2>1, FileFirst
    <2>3. HeaderAt(pos, byte) # {} BY <2>2, OrigHeader
    <2>5. Reads(exact, u, pos + 1, last) /\ u.held = 1 BY <1>2, <2>3, HeaderReads
    <2> HIDE DEF u
    <2>6. Exactly(exact, u, pos + 1) BY <2>5 DEF Exactly
    <2> QED BY <2>5, <2>6 DEF u
  <1>3. CASE tr.leaf = Nothing /\ tr.held = 1 BY <1>0, <1>3, OrigReads
  <1>4. tr.leaf = Nothing => tr.held \in {0, 1} BY DEF Reads
  <1> QED BY <1>1, <1>2, <1>3, <1>4

\* A request that reads on in a file it follows.
LEMMA ReadOn ==
  ASSUME file \in Files, WellFormed, NEW s, SentOfRange(file, s), NEW n \in Nat \ {0},
         s.cur + n <= file.len, NEW bytes, \A o \in s.cur..(s.cur + n - 1) : bytes[o] = <<"orig">>,
         Reads(TRUE, s.tr, s.cur, s.cur)
  PROVE  /\ Reads(TRUE, Sent(s, n, bytes).tr, s.cur + n, s.cur + n)
         /\ Exactly(TRUE, Sent(s, n, bytes).tr, s.cur + n)
  <1> DEFINE cur == s.cur
  <1>1. \A o \in s.cur..(s.cur + n - 1) : IsByte(bytes[o]) BY DEF IsByte
  <1>2. PICK t, out :
           /\ t[0] = s.tr /\ t[n] = Sent(s, n, bytes).tr /\ out = Sent(s, n, bytes).out
           /\ \A k \in 1..n : t[k] = Feed(t[k - 1], s.cur + k - 1, out)
           /\ DOMAIN out = s.first..(s.cur + n - 1)
           /\ \A o \in DOMAIN s.out : out[o] = s.out[o]
           /\ \A o \in s.cur..(s.cur + n - 1) : out[o] = bytes[o]
    BY <1>1, SentTrace
  <1>3. cur \in Nat /\ file.len \in Nat BY FileIs DEF SentOfRange
  <1> DEFINE good(k) == Reads(TRUE, t[k], cur + k, cur) /\ (k # 0 => Exactly(TRUE, t[k], cur + k))
             Bad == {k \in 0..n : ~good(k)}
  <1>4. \A k \in 0..n : k \notin Bad
    <2>1. 0 \notin Bad
      <3>1. cur + 0 = cur BY <1>3
      <3> QED BY <1>2, <3>1
    <2>2. ASSUME NEW k \in 1..n, k - 1 \notin Bad PROVE k \notin Bad
      <3> DEFINE o == cur + k - 1
                 tr == t[k - 1]
      <3>1. /\ o \in 0..(file.len - 1) /\ cur \in Int /\ cur <= o /\ o = cur + (k - 1)
            /\ o + 1 = cur + k /\ k - 1 \in 0..n /\ o \in s.cur..(s.cur + n - 1)
        BY <1>3
      <3>2. Reads(TRUE, tr, o, cur)
        <4>1. good(k - 1) BY <2>2, <3>1
        <4> QED BY <3>1, <4>1
      <3>3. t[k] = Feed(tr, o, out) /\ out[o] = <<"orig">> BY <1>2, <3>1
      <3> HIDE DEF tr, o, cur
      <3>4. Feed(tr, o, out) = FeedSynced(tr, o, <<"orig">>) BY <3>2, <3>3 DEF Reads, Feed
      <3>5. Reads(TRUE, t[k], o + 1, cur) /\ Exactly(TRUE, t[k], o + 1)
        BY <3>1, <3>2, <3>3, <3>4, OrigStep
      <3>6. good(k) BY <3>1, <3>5
      <3> QED BY <3>6
    <2>3. Bad \in SUBSET (0..n) OBVIOUS
    <2> HIDE DEF Bad
    <2> QED BY <2>1, <2>2, <2>3, NoneBad
  <1>5. good(n)
    <2>1. n \in 0..n OBVIOUS
    <2> QED BY <1>4, <2>1
  <1>6. Reads(TRUE, t[n], cur + n, cur + n)
    <2>1. ASSUME InVoid(TRUE, t[n], cur + n, cur) PROVE InVoid(TRUE, t[n], cur + n, cur + n)
      <3>1. t[n].leaf.end \in Int /\ t[n].leaf.end <= cur BY <2>1, FileIs DEF InVoid
      <3>2. t[n].leaf.end <= cur + n BY <1>3, <3>1
      <3> QED BY <2>1, <3>2 DEF InVoid
    <2> QED BY <1>5, <2>1 DEF Reads
  <1> QED BY <1>2, <1>5, <1>6

\* The bytes of a plan: its Voids' headers are whole.
LEMMA VoidIs ==
  ASSUME file \in Files, NEW p, Filled(p), NEW w \in p.voids
  PROVE  /\ w[1] \in Nat /\ w[2] \in Nat /\ w[1] + 1 + 1 <= w[2] /\ ValidVoid(w[1], w[2])
         /\ Beyond(p.start) <= w[1] /\ w[2] <= p.end
         /\ \A v \in p.voids : v = w \/ v[2] <= w[1] \/ w[2] <= v[1]
  <1>1. /\ ValidVoid(w[1], w[2]) /\ Beyond(p.start) <= w[1] /\ w[2] <= p.end
        /\ \A v \in p.voids : v = w \/ v[2] <= w[1] \/ w[2] <= v[1]
    BY DEF Filled, Fills
  <1>2. w[1] \in 0..file.len /\ w[2] \in 0..file.len /\ w[1] + HeaderLen <= w[2]
    BY <1>1 DEF ValidVoid
  <1>3. w[1] \in Nat /\ w[2] \in Nat BY <1>2, FileIs
  <1>4. w[1] + 1 + 1 <= w[2] BY <1>2, <1>3 DEF HeaderLen
  <1> QED BY <1>1, <1>3, <1>4

LEMMA VoidAt ==
  ASSUME file \in Files, NEW p, Filled(p), NEW v \in p.voids, NEW w \in p.voids,
         NEW o \in Int, v[1] <= o, o < v[2], w[1] <= o, o < w[2]
  PROVE  v = w
  <1>1. v[1] \in Nat /\ v[2] \in Nat BY VoidIs
  <1>2. w[1] \in Nat /\ w[2] \in Nat /\ (v = w \/ v[2] <= w[1] \/ w[2] <= v[1]) BY VoidIs
  <1> QED BY <1>1, <1>2

LEMMA RenderVoid ==
  ASSUME file \in Files, NEW p, Filled(p), NEW w \in p.voids, NEW o \in {w[1], w[1] + 1}
  PROVE  Render(p, o) = <<"void", w[1], w[2]>>
  <1> DEFINE v == {x \in p.voids : o \in x[1]..(x[1] + HeaderLen - 1)}
             x == CHOOSE x \in v : TRUE
  <1>1. w[1] \in Nat /\ w[2] \in Nat /\ w[1] + 1 + 1 <= w[2] BY VoidIs
  <1>2. o \in Int /\ w[1] <= o /\ o < w[2] BY <1>1
  <1>3. w \in v BY <1>1, <1>2 DEF HeaderLen
  <1>4. \A y \in v : y = w
    <2> TAKE y \in v
    <2>1. y \in p.voids /\ o \in y[1]..(y[1] + HeaderLen - 1) OBVIOUS
    <2>2. y[1] \in Nat /\ y[2] \in Nat /\ y[1] + 1 + 1 <= y[2] BY <2>1, VoidIs
    <2>3. y[1] <= o /\ o < y[2] BY <1>2, <2>1, <2>2 DEF HeaderLen
    <2> HIDE DEF v
    <2> QED BY <1>2, <2>1, <2>3, VoidAt
  <1>5. v # {} /\ x = w
    <2> HIDE DEF v
    <2> QED BY <1>3, <1>4
  <1>6. Render(p, o) = IF v # {} THEN <<"void", x[1], x[2]>>
                       ELSE IF o \in p.fix THEN <<"track">> ELSE <<"zero">>
    BY DEF Render
  <1> HIDE DEF v, x
  <1> QED BY <1>5, <1>6

LEMMA RenderGood ==
  ASSUME file \in Files, NEW p, Filled(p), NEW o
  PROVE  ByteOK(Render(p, o), p.end) /\ Render(p, o) # <<"orig">>
  <1> DEFINE v == {w \in p.voids : o \in w[1]..(w[1] + HeaderLen - 1)}
             w == CHOOSE w \in v : TRUE
  <1>1. CASE v = {}
    <2>1. Render(p, o) \in {<<"track">>, <<"zero">>} BY <1>1 DEF Render
    <2> QED BY <2>1 DEF ByteOK
  <1>2. CASE v # {}
    <2>1. w \in p.voids BY <1>2
    <2>2. Render(p, o) = <<"void", w[1], w[2]>> BY <1>2 DEF Render
    <2> HIDE DEF w
    <2>3. ValidVoid(w[1], w[2]) /\ w[2] <= p.end BY <2>1, VoidIs
    <2> QED BY <2>2, <2>3 DEF ByteOK
  <1> QED BY <1>1, <1>2

\* Inside a plan: in the leaf of the gap, or where a Void begins, between the bytes of its
\* header, or in it.
Inside(exact, p, tr, q) ==
  /\ Reads(exact, tr, q, p.end)
  /\ q < Beyond(p.start) => tr.leaf = Original(p.start).leaf
  /\ \A w \in p.voids :
       /\ q = w[1] => tr.leaf = Nothing /\ tr.held = 0
       /\ q = w[1] + 1 => tr.leaf = Nothing /\ tr.held = 1
       /\ w[1] + 1 < q /\ q < w[2] => tr.leaf = VoidBox(w[1], w[2])

LEMMA InsideStep ==
  ASSUME file \in Files, WellFormed, NEW exact \in BOOLEAN, NEW p, Filled(p),
         NEW q \in p.start..(p.end - 1), exact \/ q + 1 < file.len,
         NEW tr, Inside(exact, p, tr, q)
  PROVE  Inside(exact, p, FeedSynced(tr, q, Render(p, q)), q + 1)
  <1> DEFINE byte == Render(p, q)
             u == FeedSynced(tr, q, Render(p, q))
             start == p.start
             leaf == Original(start).leaf
             b == Beyond(start)
  <1>1. /\ start \in Nat /\ p.end \in Nat /\ p.end <= file.len /\ file.len \in Nat
        /\ q \in 0..(file.len - 1) /\ q \in Int /\ start <= q /\ q < p.end /\ p.end \in Int
        /\ start \in 0..file.len
    BY FileIs DEF Filled, PlanOK
  <1>2. Reads(exact, tr, q, p.end) /\ IsTracker(tr) /\ tr.mode = "synced"
    BY DEF Inside, Reads
  <1>3. \A w \in p.voids :
          /\ w[1] \in Nat /\ w[2] \in Nat /\ w[1] + 1 + 1 <= w[2] /\ ValidVoid(w[1], w[2])
          /\ b <= w[1] /\ w[2] <= p.end
          /\ \A v \in p.voids : v = w \/ v[2] <= w[1] \/ w[2] <= v[1]
    BY VoidIs
  <1>4. CASE q < b
    <2>1. leaf # Nothing /\ b = leaf.end BY <1>1, <1>4 DEF Beyond
    <2>2. tr.leaf = leaf /\ tr.leaf # Nothing /\ tr.held = 0 BY <1>4, <2>1 DEF Inside, Reads
    <2>3. leaf.end \in 0..file.len BY <1>1, <2>1, LeafRun
    <2>4. b \in Nat BY <1>1, <2>1, <2>3
    <2> HIDE DEF b, leaf, start
    <2>5. Reads(exact, u, q + 1, p.end) BY <1>1, <1>2, <2>2, LeafReads
    <2>6. /\ u.held = 0
          /\ q + 1 < b => u.leaf = tr.leaf
          /\ ~(q + 1 < b) => u.leaf = Nothing
      BY <1>2, <2>1, <2>2, FeedLeaf
    <2> HIDE DEF u
    <2>7. q + 1 < b => u.leaf = leaf BY <2>2, <2>6
    <2>8. ASSUME NEW w \in p.voids
          PROVE  /\ q + 1 = w[1] => u.leaf = Nothing /\ u.held = 0
                 /\ q + 1 # w[1] + 1 /\ ~(w[1] + 1 < q + 1)
      BY <1>1, <1>3, <1>4, <2>4, <2>6
    <2> QED BY <2>5, <2>7, <2>8 DEF Inside, u, b, leaf, start
  <1>5. CASE ~(q < b)
    <2>1. b \in Int
      <3>1. Original(start).leaf # Nothing => Original(start).leaf.end \in 0..file.len
        BY <1>1, LeafRun
      <3> QED BY <1>1, <3>1 DEF Beyond
    <2>2. PICK w \in p.voids : w[1] <= q /\ q < w[2]
      <3>1. q \in b..(p.end - 1) BY <1>1, <1>5, <2>1
      <3> HIDE DEF b
      <3> QED BY <3>1 DEF Filled, Fills, b, start
    <2> DEFINE l == w[1]
               e == w[2]
    <2>3. /\ l \in Nat /\ e \in Nat /\ l + 1 + 1 <= e /\ ValidVoid(l, e) /\ e <= p.end
          /\ l <= q /\ q < e
      BY <1>3, <2>2
    <2>4. \A v \in p.voids : v[1] <= q /\ q < v[2] => v = w BY <1>1, <2>2, VoidAt
    <2>5. \A v \in p.voids : q + 1 = v[1] => e <= q + 1 BY <1>1, <1>3, <2>2
    <2>6. /\ q = l => tr.leaf = Nothing /\ tr.held = 0
          /\ q = l + 1 => tr.leaf = Nothing /\ tr.held = 1
          /\ l + 1 < q => tr.leaf = VoidBox(l, e)
      BY <2>2 DEF Inside
    <2>7. q = l \/ q = l + 1 => byte = <<"void", l, e>> BY <2>2, RenderVoid
    <2> HIDE DEF b, start, byte
    <2>8. CASE q = l
      <3>1. u = FeedSynced(tr, q, <<"void", l, e>>) BY <2>7, <2>8 DEF byte
      <3>2. HeaderAt(q, <<"void", l, e>>) # {}
        <4>1. HeaderAt(l, <<"void", l, e>>) = {VoidBox(l, e)} BY VoidHeader
        <4> QED BY <2>8, <4>1
      <3> HIDE DEF u
      <3>3. tr.leaf = Nothing /\ tr.held = 0 BY <2>6, <2>8
      <3>4. Reads(exact, u, q + 1, p.end) /\ u.held = 1 /\ u.leaf = Nothing
        BY <1>1, <1>2, <3>1, <3>2, <3>3, HeaderReads
      <3>5. ASSUME NEW v \in p.voids
            PROVE  q + 1 # v[1] /\ (v[1] + 1 < q + 1 => ~(q + 1 < v[2]))
        <4>1. q + 1 # v[1] BY <2>3, <2>5, <2>8
        <4>2. ASSUME v[1] + 1 < q + 1, q + 1 < v[2] PROVE FALSE
          <5>1. v[1] \in Nat /\ v[2] \in Nat BY <1>3
          <5>2. v[1] < q /\ q < v[2] BY <1>1, <4>2, <5>1
          <5>3. v = w BY <1>1, <2>4, <5>1, <5>2
          <5> QED BY <2>3, <2>8, <5>2, <5>3
        <4> QED BY <4>1, <4>2
      <3>6. ~(q + 1 < b) BY <1>1, <1>5, <2>1
      <3> QED BY <3>4, <3>5, <3>6 DEF Inside, u, b, start
    <2>9. CASE q = l + 1
      <3>1. u = FeedSynced(tr, q, <<"void", q - 1, e>>) /\ q - 1 = l
        <4>1. q - 1 = l BY <2>3, <2>9
        <4> QED BY <2>7, <2>9, <4>1 DEF byte
      <3> HIDE DEF u
      <3>2. tr.leaf = Nothing /\ tr.held = 1 BY <2>6, <2>9
      <3>3. ValidVoid(q - 1, e) BY <2>3, <3>1
      <3>4. /\ Reads(exact, u, q + 1, p.end) /\ u.held = 0
            /\ u.leaf = IF e = q + 1 THEN Nothing ELSE VoidBox(q - 1, e)
        BY <1>1, <1>2, <2>3, <3>1, <3>2, <3>3, VoidReads
      <3>5. ASSUME NEW v \in p.voids
            PROVE  /\ q + 1 = v[1] => u.leaf = Nothing /\ u.held = 0
                   /\ q + 1 # v[1] + 1
                   /\ v[1] + 1 < q + 1 /\ q + 1 < v[2] => u.leaf = VoidBox(v[1], v[2])
        <4>1. v[1] \in Nat /\ v[2] \in Nat /\ v[1] + 1 + 1 <= v[2] BY <1>3
        <4>2. q + 1 = v[1] => u.leaf = Nothing /\ u.held = 0 BY <2>3, <2>5, <2>9, <3>4
        <4>3. q + 1 # v[1] + 1
          <5> SUFFICES ASSUME q + 1 = v[1] + 1 PROVE FALSE OBVIOUS
          <5>1. v[1] = q /\ q < v[2] /\ v[1] <= q BY <1>1, <4>1
          <5>2. v = w BY <2>4, <5>1
          <5> QED BY <2>3, <2>9, <5>1, <5>2
        <4>4. v[1] + 1 < q + 1 /\ q + 1 < v[2] => u.leaf = VoidBox(v[1], v[2])
          <5> SUFFICES ASSUME v[1] + 1 < q + 1, q + 1 < v[2] PROVE u.leaf = VoidBox(v[1], v[2])
            OBVIOUS
          <5>1. v[1] <= q /\ q < v[2] BY <1>1, <4>1
          <5>2. v = w BY <2>4, <5>1
          <5>3. e # q + 1 /\ v[1] = q - 1 /\ v[2] = e BY <2>3, <3>1, <5>2
          <5> QED BY <3>4, <5>3
        <4> QED BY <4>2, <4>3, <4>4
      <3>6. ~(q + 1 < b) BY <1>1, <1>5, <2>1
      <3> QED BY <3>4, <3>5, <3>6 DEF Inside, u, b, start
    <2>10. CASE l + 1 < q
      <3>1. tr.leaf = VoidBox(l, e) BY <2>6, <2>10
      <3>2. tr.leaf # Nothing /\ tr.leaf.end = e BY <3>1 DEF VoidBox, Nothing
      <3>3. tr.held = 0 BY <1>2, <3>2 DEF Reads
      <3>4. Reads(exact, u, q + 1, p.end) BY <1>1, <1>2, <3>2, LeafReads
      <3>5. /\ u.held = 0
            /\ q + 1 < e => u.leaf = tr.leaf
            /\ ~(q + 1 < e) => u.leaf = Nothing
        BY <1>2, <3>2, <3>3, FeedLeaf
      <3> HIDE DEF u
      <3>6. ASSUME NEW v \in p.voids
            PROVE  /\ q + 1 = v[1] => u.leaf = Nothing /\ u.held = 0
                   /\ q + 1 # v[1] + 1
                   /\ v[1] + 1 < q + 1 /\ q + 1 < v[2] => u.leaf = VoidBox(v[1], v[2])
        <4>1. v[1] \in Nat /\ v[2] \in Nat /\ v[1] + 1 + 1 <= v[2] BY <1>3
        <4>2. q + 1 = v[1] => u.leaf = Nothing /\ u.held = 0
          <5> SUFFICES ASSUME q + 1 = v[1] PROVE ~(q + 1 < e) BY <3>5
          <5> QED BY <1>1, <2>3, <2>5
        <4>3. q + 1 # v[1] + 1
          <5> SUFFICES ASSUME q + 1 = v[1] + 1 PROVE FALSE OBVIOUS
          <5>1. v[1] = q /\ q < v[2] /\ v[1] <= q BY <1>1, <4>1
          <5>2. v = w BY <2>4, <5>1
          <5> QED BY <1>1, <2>3, <2>10, <5>1, <5>2
        <4>4. v[1] + 1 < q + 1 /\ q + 1 < v[2] => u.leaf = VoidBox(v[1], v[2])
          <5> SUFFICES ASSUME v[1] + 1 < q + 1, q + 1 < v[2] PROVE u.leaf = VoidBox(v[1], v[2])
            OBVIOUS
          <5>1. v[1] <= q /\ q < v[2] BY <1>1, <4>1
          <5>2. v = w BY <2>4, <5>1
          <5>3. v[1] = l /\ v[2] = e BY <5>2
          <5> QED BY <3>1, <3>5, <5>3
        <4> QED BY <4>2, <4>3, <4>4
      <3>7. ~(q + 1 < b) BY <1>1, <1>5, <2>1
      <3> QED BY <3>4, <3>6, <3>7 DEF Inside, u, b, start
    <2>11. q = l \/ q = l + 1 \/ l + 1 < q BY <1>1, <2>3
    <2> QED BY <2>8, <2>9, <2>10, <2>11
  <1> QED BY <1>4, <1>5

LEMMA Enters ==
  ASSUME file \in Files, WellFormed, NEW p, Filled(p), NEW pos \in p.start..(p.end - 1),
         NEW tr, Reads(TRUE, tr, pos, pos),
         \A w \in p.voids : ~(w[1] < pos /\ pos < w[2])
  PROVE  Inside(TRUE, p, tr, pos)
  <1>1. /\ p.start \in Nat /\ p.end \in Nat /\ p.end <= file.len /\ file.len \in Nat
        /\ pos \in 0..file.len /\ pos \in Int /\ p.start <= pos /\ pos < p.end
        /\ p.start \in 0..file.len
    BY FileIs DEF Filled, PlanOK
  <1>2. Reads(TRUE, tr, pos, p.end)
    <2>1. ASSUME InVoid(TRUE, tr, pos, pos) PROVE InVoid(TRUE, tr, pos, p.end)
      <3>1. tr.leaf.end \in Int /\ tr.leaf.end <= pos BY <2>1, FileIs DEF InVoid
      <3>2. tr.leaf.end <= p.end BY <1>1, <3>1
      <3> QED BY <2>1, <3>2 DEF InVoid
    <2> QED BY <2>1 DEF Reads
  <1>3. pos < Beyond(p.start) => tr.leaf = Original(p.start).leaf
    <2> SUFFICES ASSUME pos < Beyond(p.start) PROVE tr.leaf = Original(p.start).leaf OBVIOUS
    <2> DEFINE leaf == Original(p.start).leaf
    <2>1. leaf # Nothing /\ Beyond(p.start) = leaf.end BY <1>1 DEF Beyond
    <2>2. /\ leaf.end \in 0..file.len
          /\ \A j \in p.start..(leaf.end - 1) : Original(j) = Original(p.start)
      BY <1>1, <2>1, LeafRun
    <2>3. pos \in p.start..(leaf.end - 1)
      <3>1. leaf.end \in Int BY <1>1, <2>2
      <3> HIDE DEF leaf
      <3> QED BY <1>1, <2>1, <3>1
    <2>4. Original(pos) = Original(p.start) BY <2>2, <2>3
    <2> QED BY <1>1, <2>4, ReadsHere
  <1>4. ASSUME NEW w \in p.voids
        PROVE  /\ pos = w[1] => tr.leaf = Nothing /\ tr.held = 0
               /\ pos # w[1] + 1 /\ ~(w[1] + 1 < pos /\ pos < w[2])
    <2>1. /\ w[1] \in Nat /\ w[2] \in Nat /\ w[1] + 1 + 1 <= w[2] /\ ValidVoid(w[1], w[2])
      BY VoidIs
    <2>2. pos = w[1] => tr.leaf = Nothing /\ tr.held = 0
      <3> SUFFICES ASSUME pos = w[1] PROVE tr.leaf = Nothing /\ tr.held = 0 OBVIOUS
      <3>1. Boundary(pos) BY <2>1 DEF ValidVoid
      <3> QED BY <1>1, <3>1, ReadsHere DEF Boundary
    <2>3. ~(w[1] < pos /\ pos < w[2]) OBVIOUS
    <2> QED BY <1>1, <2>1, <2>2, <2>3
  <1> QED BY <1>2, <1>3, <1>4 DEF Inside

\* A request that sends a plan up to its end.
LEMMA PlanOn ==
  ASSUME file \in Files, WellFormed, NEW s, SentOfRange(file, s), NEW p, Filled(p),
         s.cur \in p.start..(p.end - 1), NEW n \in Nat, s.cur + n = p.end, NEW bytes,
         \A o \in s.cur..(s.cur + n - 1) : bytes[o] = Render(p, o),
         Inside(TRUE, p, s.tr, s.cur)
  PROVE  Reads(TRUE, Sent(s, n, bytes).tr, p.end, p.end)
  <1> DEFINE cur == s.cur
  <1>1. \A o \in s.cur..(s.cur + n - 1) : IsByte(bytes[o]) BY RenderIs DEF Filled
  <1>2. PICK t, out :
           /\ t[0] = s.tr /\ t[n] = Sent(s, n, bytes).tr /\ out = Sent(s, n, bytes).out
           /\ \A k \in 1..n : t[k] = Feed(t[k - 1], s.cur + k - 1, out)
           /\ DOMAIN out = s.first..(s.cur + n - 1)
           /\ \A o \in DOMAIN s.out : out[o] = s.out[o]
           /\ \A o \in s.cur..(s.cur + n - 1) : out[o] = bytes[o]
    BY <1>1, SentTrace
  <1>3. /\ cur \in Nat /\ p.start \in Nat /\ p.end \in Nat /\ p.start <= cur /\ cur < p.end
    BY FileIs DEF SentOfRange, Filled, PlanOK
  <1> DEFINE good(k) == Inside(TRUE, p, t[k], cur + k)
             Bad == {k \in 0..n : ~good(k)}
  <1>4. \A k \in 0..n : k \notin Bad
    <2>1. 0 \notin Bad
      <3>1. cur + 0 = cur BY <1>3
      <3> QED BY <1>2, <3>1
    <2>2. ASSUME NEW k \in 1..n, k - 1 \notin Bad PROVE k \notin Bad
      <3> DEFINE o == cur + k - 1
                 tr == t[k - 1]
      <3>1. /\ o \in p.start..(p.end - 1) /\ o = cur + (k - 1)
            /\ o + 1 = cur + k /\ k - 1 \in 0..n /\ o \in s.cur..(s.cur + n - 1)
        BY <1>3
      <3>2. Inside(TRUE, p, tr, o)
        <4>1. good(k - 1) BY <2>2, <3>1
        <4> QED BY <3>1, <4>1
      <3>3. t[k] = Feed(tr, o, out) /\ out[o] = Render(p, o) BY <1>2, <3>1
      <3> HIDE DEF tr, o, cur
      <3>4. Feed(tr, o, out) = FeedSynced(tr, o, Render(p, o))
        BY <3>2, <3>3 DEF Inside, Reads, Feed
      <3>5. TRUE \in BOOLEAN OBVIOUS
      <3>6. Inside(TRUE, p, t[k], o + 1)
        BY <3>1, <3>2, <3>3, <3>4, <3>5, InsideStep
      <3>7. good(k) BY <3>1, <3>6
      <3> QED BY <3>7
    <2>3. Bad \in SUBSET (0..n) OBVIOUS
    <2> HIDE DEF Bad
    <2> QED BY <2>1, <2>2, <2>3, NoneBad
  <1>5. good(n)
    <2>1. n \in 0..n OBVIOUS
    <2> QED BY <1>4, <2>1
  <1> QED BY <1>2, <1>3, <1>5 DEF Inside

\* Only the file's own bytes have been sent, and plans from their first byte on.
Whole(s) ==
  /\ s.first = 0 /\ ~s.plain
  /\ \A p \in s.used : \A o \in DOMAIN s.out \cap Span(p) : s.out[o] = Render(p, o)
Follows(s) ==
  Whole(s) => /\ Reads(TRUE, s.tr, s.cur, s.cur)
              /\ s.cur > 0 /\ s.out[s.cur - 1] = <<"orig">> => Exactly(TRUE, s.tr, s.cur)
Steady(s) == SentGood(s, s.cur) /\ Follows(s) /\ (s.pc = "commit" => Filled(s.plan))
Readably ==
  /\ Repairs /\ WellFormed /\ (\A p \in Held(store) : Filled(p))
  /\ \A r \in Requests : rq[r].pc # "idle" => Steady(rq[r])

LEMMA ReadsLater ==
  ASSUME file \in Files, NEW exact, NEW tr, NEW pos, NEW last \in Int, NEW later \in Int,
         last <= later, Reads(exact, tr, pos, last)
  PROVE  Reads(exact, tr, pos, later)
  <1>1. ASSUME InVoid(exact, tr, pos, last) PROVE InVoid(exact, tr, pos, later)
    <2>1. tr.leaf.end \in Int /\ tr.leaf.end <= last BY <1>1, FileIs DEF InVoid
    <2>2. tr.leaf.end <= later BY <2>1
    <2> QED BY <1>1, <2>2 DEF InVoid
  <1> QED BY <1>1 DEF Reads

LEMMA GoodLater ==
  ASSUME file \in Files, NEW s, NEW last \in Int, NEW later \in Int, last <= later,
         SentGood(s, last)
  PROVE  SentGood(s, later)
  <1>1. InStep(s.tr, s.cur, later) BY ReadsLater DEF SentGood, InStep
  <1>2. \A byte : ByteOK(byte, last) => ByteOK(byte, later)
    <2> SUFFICES ASSUME NEW byte, NEW x, NEW e, byte = <<"void", x, e>>, ValidVoid(x, e), e <= last
                 PROVE  e <= later
      BY DEF ByteOK
    <2>1. e \in Int BY FileIs DEF ValidVoid
    <2> QED BY <2>1
  <1> QED BY <1>1, <1>2 DEF SentGood

LEMMA SteadySame ==
  ASSUME NEW s, Steady(s), NEW u,
         u.cur = s.cur, u.out = s.out, u.tr = s.tr, u.first = s.first, u.used = s.used,
         u.plain = s.plain, u.pc = "commit" => Filled(u.plan)
  PROVE  Steady(u)
  <1>1. SentGood(u, u.cur) BY DEF Steady, SentGood
  <1>2. Whole(u) => Whole(s) BY DEF Whole
  <1>3. Follows(s) BY DEF Steady
  <1>4. Follows(u) BY <1>2, <1>3 DEF Follows
  <1> QED BY <1>1, <1>4 DEF Steady

LEMMA SteadyPlan ==
  ASSUME file \in Files, WellFormed, NEW s, AskedOK(file, s), Steady(s), s.cur <= s.end,
         NEW p, Filled(p), s.cur \in Span(p)
  PROVE  Steady(SentPlan(s, p))
  <1> DEFINE to == IF p.end <= s.end + 1 THEN p.end ELSE s.end + 1
             n == to - s.cur
             bytes == [o \in Span(p) |-> Render(p, o)]
             t == Sent(s, n, bytes)
             u == SentPlan(s, p)
             cur == s.cur
  <1>1. SentOfRange(file, s) /\ s.cur \in Nat /\ s.end \in Int /\ s.end = file.len - 1
        /\ file.len \in Nat /\ s.first \in Nat /\ DOMAIN s.out = s.first..(s.cur - 1)
    BY FileIs DEF AskedOK, SentOfRange
  <1>2. /\ p.start \in Nat /\ p.end \in Nat /\ p.start <= s.cur /\ s.cur < p.end
        /\ p.end <= file.len /\ PlanOK(p) /\ p.start \in 0..file.len
        /\ s.cur \in p.start..(p.end - 1)
    BY <1>1 DEF PlanOK, Span, Filled
  <1>3. to = p.end /\ n \in Nat /\ s.cur + n = p.end /\ s.cur + n <= file.len
        /\ \A o \in s.cur..(s.cur + n - 1) : o \in Span(p)
    BY <1>1, <1>2 DEF Span
  <1>4. \A o \in s.cur..(s.cur + n - 1) : bytes[o] = Render(p, o) BY <1>3
  <1>5. u = [t EXCEPT !.pc = IF t.cur > t.end THEN "end" ELSE "loop", !.used = @ \cup {p}]
    BY Zenon DEF SentPlan
  <1> HIDE DEF u, t, n, bytes, to
  <1>6. /\ SentOfRange(file, t) /\ t.cur = p.end
        /\ \A o \in DOMAIN s.out : t.out[o] = s.out[o]
        /\ \A o \in DOMAIN t.out \ DOMAIN s.out :
              o \in s.cur..(s.cur + n - 1) /\ t.out[o] = bytes[o]
        /\ \A f \in {"pc", "first", "end", "bound", "skip", "plan", "tapped", "known", "plain",
                     "used"} : t[f] = s[f]
    <2>1. \A o \in s.cur..(s.cur + n - 1) : IsByte(bytes[o]) BY <1>2, <1>4, RenderIs
    <2> QED BY <1>1, <1>3, <2>1, SentOK DEF t
  <1>7. /\ u.cur = p.end /\ u.out = t.out /\ u.tr = t.tr /\ u.first = s.first /\ u.plain = s.plain
        /\ u.used = s.used \cup {p} /\ u.pc \in {"loop", "end"}
    BY <1>5, <1>6 DEF SentOfRange
  <1>8. SentGood(t, p.end)
    <2>1. SentGood(s, p.end)
      <3>1. SentGood(s, s.cur) /\ s.cur <= p.end /\ s.cur \in Int /\ p.end \in Int
        BY <1>1, <1>2 DEF Steady
      <3> QED BY <3>1, GoodLater
    <2>2. \A o \in s.cur..(s.cur + n - 1) : ByteOK(bytes[o], p.end) BY <1>4, RenderGood
    <2>3. p.end \in Int BY <1>2
    <2> QED BY <1>1, <1>3, <2>1, <2>2, <2>3, SentReads DEF t
  <1>9. SentGood(u, u.cur) BY <1>6, <1>7, <1>8 DEF SentGood
  <1>10. t.out[p.end - 1] = Render(p, p.end - 1)
    <2>1. DOMAIN t.out = s.first..(p.end - 1) BY <1>6 DEF SentOfRange
    <2>2. p.end - 1 \in DOMAIN t.out \ DOMAIN s.out
      <3>1. s.first <= s.cur BY <1>1 DEF SentOfRange
      <3> QED BY <1>1, <1>2, <2>1, <3>1
    <2> QED BY <1>4, <1>6, <2>2
  <1>11. ASSUME Whole(u) PROVE Reads(TRUE, t.tr, p.end, p.end)
    <2>1. DOMAIN s.out \subseteq DOMAIN t.out
      <3>1. DOMAIN t.out = t.first..(t.cur - 1) /\ t.first = s.first BY <1>6 DEF SentOfRange
      <3> QED BY <1>1, <1>2, <1>6, <3>1
    <2>2. Whole(s)
      <3>1. ASSUME NEW q \in s.used, NEW o \in DOMAIN s.out \cap Span(q)
            PROVE  s.out[o] = Render(q, o)
        <4>1. q \in u.used /\ o \in DOMAIN u.out \cap Span(q) BY <1>7, <2>1, <3>1
        <4>2. u.out[o] = Render(q, o) BY <1>11, <4>1 DEF Whole
        <4> QED BY <1>6, <1>7, <4>2
      <3> QED BY <1>7, <1>11, <3>1 DEF Whole
    <2>3. Reads(TRUE, s.tr, s.cur, s.cur) BY <2>2 DEF Steady, Follows
    <2>4. ASSUME NEW w \in p.voids, w[1] < s.cur, s.cur < w[2] PROVE FALSE
      <3>1. w[1] \in Nat /\ w[2] \in Nat /\ Beyond(p.start) <= w[1] /\ w[2] <= p.end BY VoidIs
      <3>2. p.start <= w[1]
        <4>1. CASE Original(p.start).leaf = Nothing BY <3>1, <4>1 DEF Beyond
        <4>2. CASE Original(p.start).leaf # Nothing
          <5>1. Original(p.start).leaf.end \in 0..file.len /\ p.start < Original(p.start).leaf.end
            BY <1>2, <4>2, LeafRun
          <5>2. Original(p.start).leaf.end <= w[1] BY <3>1, <4>2 DEF Beyond
          <5>3. \A a, b, c \in Nat : a < b /\ b <= c => a <= c OBVIOUS
          <5>4. Original(p.start).leaf.end \in Nat BY <1>1, <5>1
          <5> QED BY <1>2, <3>1, <5>1, <5>2, <5>3, <5>4
        <4> QED BY <4>1, <4>2
      <3>3. w[1] \in Span(p) /\ w[1] \in DOMAIN s.out
        <4>1. s.first = 0 BY <2>2 DEF Whole
        <4> QED BY <1>1, <1>2, <2>4, <3>1, <3>2, <4>1 DEF Span
      <3>4. u.out[w[1]] = Render(p, w[1]) /\ u.out[w[1]] = s.out[w[1]]
        <4>1. p \in u.used /\ w[1] \in DOMAIN u.out \cap Span(p) BY <1>7, <2>1, <3>3
        <4>2. u.out[w[1]] = Render(p, w[1]) BY <1>11, <4>1 DEF Whole
        <4> QED BY <1>6, <1>7, <3>3, <4>2
      <3>5. Render(p, w[1]) = <<"void", w[1], w[2]>> BY RenderVoid
      <3> DEFINE byte == s.out[w[1]]
      <3>6. ByteOK(byte, s.cur) BY <3>3 DEF Steady, SentGood
      <3>7. byte = <<"void", w[1], w[2]>> BY <3>4, <3>5
      <3> HIDE DEF byte
      <3>8. PICK x, e : byte = <<"void", x, e>> /\ e <= s.cur BY <3>6, <3>7 DEF ByteOK
      <3>9. e = w[2] BY <3>7, <3>8
      <3> QED BY <1>1, <2>4, <3>1, <3>8, <3>9
    <2>5. Inside(TRUE, p, s.tr, s.cur) BY <1>2, <2>3, <2>4, Enters
    <2> QED BY <1>1, <1>2, <1>3, <1>4, <2>5, PlanOn DEF t
  <1>12. Follows(u)
    <2>1. Render(p, p.end - 1) # <<"orig">> BY RenderGood
    <2> QED BY <1>7, <1>10, <1>11, <2>1 DEF Follows
  <1> QED BY <1>7, <1>9, <1>12 DEF Steady, u

LEMMA FirstReads ==
  ASSUME file \in Files, WellFormed, NEW exact \in BOOLEAN
  PROVE  Reads(exact, Tracker(0), 0, 0)
  <1> DEFINE none == <<>>
             tr == Tracker(0)
  <1>1. none \in Seq(Masters(file)) /\ Len(none) = 0 BY EmptySeq
  <1>2. /\ IsTracker(tr) /\ tr.mode = "synced" /\ tr.leaf = Nothing /\ tr.held = 0
        /\ tr.stack = none
    BY DEF Tracker, IsTracker
  <1>3. Original(0) = tr BY OriginalNext
  <1>4. 0 \in 0..file.len /\ 0 - 0 = 0 BY FileIs
  <1> HIDE DEF tr, none
  <1>5. Fits(tr.stack) BY <1>1, <1>2 DEF Fits, Levels, Nested
  <1>6. Boundary(0) BY <1>2, <1>3 DEF Boundary
  <1>7. Same(exact, tr.stack, Original(0).stack) BY <1>1, <1>2, <1>3 DEF Same
  <1>8. At(exact, 0 - tr.held, tr.stack) BY <1>2, <1>4, <1>6, <1>7 DEF At, Like
  <1> QED BY <1>2, <1>5, <1>8 DEF Reads, tr

LEMMA AskSteady ==
  ASSUME Readably, NEW r \in Requests, Ask(r)
  PROVE  Steady(rq'[r])
  <1>1. PICK s \in Starts :
          /\ s < file.len
          /\ rq' = [rq EXCEPT ![r] =
                [pc |-> "loop", first |-> s, cur |-> s, end |-> file.len - 1, bound |-> 0,
                 skip |-> 0, plan |-> NoPlan, out |-> <<>>, tr |-> Tracker(s),
                 tapped |-> container, known |-> {}, plain |-> FALSE, used |-> {}]]
    BY DEF Ask, Become
  <1> DEFINE u == rq'[r]
             none == <<>>
             tr == Tracker(s)
  <1>2. u = [pc |-> "loop", first |-> s, cur |-> s, end |-> file.len - 1, bound |-> 0,
             skip |-> 0, plan |-> NoPlan, out |-> none, tr |-> tr,
             tapped |-> container, known |-> {}, plain |-> FALSE, used |-> {}]
    BY <1>1 DEF Readably, Repairs
  <1>3. s \in Nat /\ file.len \in Nat /\ file \in Files /\ WellFormed
    BY ConcealAssumption, FileIs DEF Readably, Repairs
  <1>4. DOMAIN none = {} OBVIOUS
  <1>5. s # 0 => tr.mode = "scan" BY DEF Tracker
  <1>6. s = 0 => \A exact \in BOOLEAN : Reads(exact, tr, 0, 0) BY <1>3, FirstReads
  <1> HIDE DEF u, none, tr
  <1>7. /\ u.pc = "loop" /\ u.first = s /\ u.cur = s /\ u.out = none /\ u.tr = tr
    BY <1>2
  <1>8. InStep(tr, s, s) BY <1>5, <1>6 DEF InStep
  <1>9. SentGood(u, u.cur) BY <1>1, <1>3, <1>4, <1>7, <1>8 DEF SentGood
  <1>10. Follows(u)
    <2>1. Whole(u) => s = 0 BY <1>7 DEF Whole
    <2>2. s = 0 => Reads(TRUE, tr, 0, 0) BY <1>6
    <2>3. s = 0 => ~(s > 0) OBVIOUS
    <2> QED BY <1>7, <2>1, <2>2, <2>3 DEF Follows
  <1> QED BY <1>7, <1>9, <1>10 DEF Steady, u

LEMMA ReplaySteady ==
  ASSUME Readably, NEW r \in Requests, Replay(r)
  PROVE  Steady(rq'[r])
  <1> DEFINE s == rq[r]
             u == rq'[r]
  <1>1. /\ s.pc = "loop" /\ AskedOK(file, s) /\ Steady(s) /\ file \in Files /\ WellFormed
        /\ \A p \in Held(store) : Filled(p)
    BY DEF Replay, Readably, Repairs, Idle
  <1>2. s.cur <= s.end /\ \A p \in Held(store) : PlanOK(p)
    BY <1>1 DEF AskedOK, Filled
  <1>3. CASE Covering(s.cur) # {}
    <2> DEFINE p == CHOOSE p \in Covering(s.cur) : TRUE
               t == SentPlan(s, p)
    <2>1. p \in Held(store) /\ s.cur \in Span(p) BY <1>3, Covers
    <2>2. u = [t EXCEPT !.known = Stored] BY <1>3 DEF Replay, Become, Readably, Repairs
    <2> HIDE DEF p
    <2>3. AskedOK(file, t) /\ t.pc \in {"loop", "end"} BY <1>1, <1>2, <2>1, SentPlanOK
    <2>4. Steady(t) BY <1>1, <1>2, <2>1, SteadyPlan
    <2> HIDE DEF t, u
    <2>5. /\ u.pc = t.pc /\ u.first = t.first /\ u.cur = t.cur /\ u.out = t.out /\ u.tr = t.tr
          /\ u.used = t.used /\ u.plain = t.plain
      BY <2>2, <2>3 DEF AskedOK, SentOfRange
    <2>6. u.pc # "commit" BY <2>3, <2>5
    <2> QED BY <2>4, <2>5, <2>6, SteadySame DEF u
  <1>4. CASE Covering(s.cur) = {}
    <2> DEFINE bound == BoundAt(r)
    <2>1. u = [s EXCEPT !.pc = "read", !.bound = bound, !.known = Stored]
      BY <1>4 DEF Replay, Become, Readably, Repairs
    <2> HIDE DEF bound, u
    <2>2. /\ u.pc = "read" /\ u.first = s.first /\ u.cur = s.cur /\ u.out = s.out /\ u.tr = s.tr
          /\ u.used = s.used /\ u.plain = s.plain
      BY <1>1, <2>1 DEF AskedOK, SentOfRange
    <2>3. u.pc # "commit" BY <2>2
    <2> QED BY <1>1, <2>2, <2>3, SteadySame DEF u
  <1> QED BY <1>3, <1>4

LEMMA ReadSteady ==
  ASSUME Readably, NEW r \in Requests, ReadChunk(r)
  PROVE  Steady(rq'[r])
  <1> DEFINE s == rq[r]
             u == rq'[r]
             stops == {o \in s.cur..(s.cur + Chunk) : o = s.cur + Chunk \/ o = s.bound + 1
                                                      \/ o \in missing}
             n == Least(stops) - s.cur
             bytes == [o \in 0..file.len |-> <<"orig">>]
             t == Sent(s, n, bytes)
  <1>1. /\ s.pc = "read" /\ AskedOK(file, s) /\ Steady(s) /\ file \in Files /\ WellFormed
        /\ s.cur \notin missing
    BY DEF ReadChunk, Readably, Repairs, Idle
  <1>2. /\ s.cur \in Nat /\ s.end \in Int /\ s.bound \in Int /\ s.cur <= s.bound
        /\ s.bound <= s.end /\ s.end = file.len - 1 /\ file.len \in Nat /\ SentOfRange(file, s)
        /\ s.first \in Nat /\ s.first <= s.cur
    BY <1>1, FileIs DEF AskedOK, SentOfRange
  <1>3. n \in Nat \ {0} /\ n \in Nat /\ s.cur + n <= file.len
    <2>1. Chunk \in Nat \ {0} /\ s.cur + Chunk \in stops BY <1>2, ConcealAssumption
    <2>2. stops \in SUBSET Nat /\ \A o \in stops : o > s.cur BY <1>1, <1>2, <2>1
    <2>3. s.bound + 1 <= s.cur + Chunk => s.bound + 1 \in stops BY <1>2, <2>1
    <2> HIDE DEF stops
    <2> DEFINE l == Least(stops)
    <2>4. l \in stops /\ \A o \in stops : l <= o BY <2>1, <2>2, LeastIs
    <2> HIDE DEF l
    <2>5. l \in Nat /\ s.cur < l BY <2>2, <2>4
    <2>6. l <= s.bound + 1
      <3>1. CASE s.bound + 1 <= s.cur + Chunk BY <2>3, <2>4, <3>1
      <3>2. CASE ~(s.bound + 1 <= s.cur + Chunk) BY <1>2, <2>1, <2>4, <2>5, <3>2
      <3> QED BY <3>1, <3>2
    <2> QED BY <1>2, <2>5, <2>6 DEF l
  <1>4. PICK pc \in {"read", "loop"} : u = [t EXCEPT !.pc = IF t.cur > t.end THEN "end" ELSE pc]
    BY DEF ReadChunk, Become, Readably, Repairs
  <1> HIDE DEF n
  <1>5. \A o \in s.cur..(s.cur + n - 1) : bytes[o] = <<"orig">>
    <2> SUFFICES ASSUME NEW o \in s.cur..(s.cur + n - 1) PROVE bytes[o] = <<"orig">> OBVIOUS
    <2>1. o \in 0..file.len BY <1>2, <1>3
    <2> QED BY <2>1
  <1> HIDE DEF bytes
  <1>6. \A o \in s.cur..(s.cur + n - 1) : IsByte(bytes[o]) /\ ByteOK(bytes[o], s.cur)
    <2>1. IsByte(<<"orig">>) BY DEF IsByte
    <2>2. ByteOK(<<"orig">>, s.cur) BY DEF ByteOK
    <2> QED BY <1>5, <2>1, <2>2
  <1>7. /\ SentOfRange(file, t) /\ t.cur = s.cur + n
        /\ \A o \in DOMAIN s.out : t.out[o] = s.out[o]
        /\ \A f \in {"pc", "first", "end", "bound", "skip", "plan", "tapped", "known", "plain",
                     "used"} : t[f] = s[f]
    BY <1>1, <1>2, <1>3, <1>6, SentOK
  <1>8. SentGood(t, t.cur)
    <2>1. SentGood(s, s.cur) /\ s.cur \in Int BY <1>1, <1>2 DEF Steady
    <2>2. SentGood(t, s.cur) BY <1>1, <1>2, <1>3, <1>6, <2>1, SentReads
    <2>3. s.cur <= t.cur /\ t.cur \in Int BY <1>2, <1>3, <1>7
    <2> HIDE DEF t
    <2> QED BY <1>1, <2>1, <2>2, <2>3, GoodLater
  <1>9. Reads(TRUE, s.tr, s.cur, s.cur) =>
          Reads(TRUE, t.tr, t.cur, t.cur) /\ Exactly(TRUE, t.tr, t.cur)
    BY <1>1, <1>2, <1>3, <1>5, <1>7, ReadOn
  <1> HIDE DEF t, u
  <1>10. /\ u.first = s.first /\ u.cur = t.cur /\ u.out = t.out /\ u.tr = t.tr
         /\ u.used = s.used /\ u.plain = s.plain /\ u.pc # "commit"
    BY <1>4, <1>7 DEF SentOfRange
  <1>11. Whole(u) => Whole(s)
    <2> SUFFICES ASSUME Whole(u), NEW q \in s.used, NEW o \in DOMAIN s.out \cap Span(q)
                 PROVE  s.out[o] = Render(q, o)
      BY <1>10 DEF Whole
    <2>1. o \in DOMAIN u.out
      <3>1. /\ DOMAIN t.out = t.first..(t.cur - 1) /\ t.first = s.first
            /\ DOMAIN s.out = s.first..(s.cur - 1)
        BY <1>2, <1>7 DEF SentOfRange
      <3> QED BY <1>2, <1>3, <1>7, <1>10, <3>1
    <2>2. u.out[o] = Render(q, o) BY <1>10, <2>1 DEF Whole
    <2> QED BY <1>7, <1>10, <2>2
  <1>12. Follows(u)
    <2>1. Follows(s) BY <1>1 DEF Steady
    <2> QED BY <1>9, <1>10, <1>11, <2>1 DEF Follows
  <1>13. SentGood(u, u.cur) BY <1>8, <1>10 DEF SentGood
  <1> QED BY <1>10, <1>12, <1>13 DEF Steady, u

LEMMA GapSteady ==
  ASSUME Readably, NEW r \in Requests, PlanGap(r)
  PROVE  Steady(rq'[r])
  <1> DEFINE s == rq[r]
             u == rq'[r]
             skip(k) == IF k <= s.bound + 1 - s.cur THEN k ELSE s.bound + 1 - s.cur
  <1>1. s.pc = "read" /\ AskedOK(file, s) /\ Steady(s) /\ file \in Files /\ WellFormed
    BY DEF PlanGap, Readably, Repairs, Idle
  <1>2. /\ s.cur \in Nat /\ s.end \in Int /\ s.bound \in Int /\ s.cur <= s.bound
        /\ s.bound <= s.end /\ TrackerOK(file, s.tr, s.first, s.cur)
        /\ s.end = file.len - 1 /\ file.len \in Nat
    BY <1>1, FileIs DEF AskedOK, SentOfRange
  <1>3. PICK k \in Skips(s) :
          \E p \in IF s.tapped /\ s.tr.ebml # "no" THEN Plans(s.tr, s.cur, s.cur + skip(k))
                   ELSE {NoPlan} :
                u = [s EXCEPT !.skip = skip(k), !.plan = p,
                              !.pc = IF p = NoPlan THEN "fill" ELSE "commit"]
    BY DEF PlanGap, Become, Readably, Repairs
  <1>4. k \in Int /\ 1 <= k BY <1>2, SkipsAre
  <1> DEFINE n == skip(k)
  <1>5. PICK p \in Plans(s.tr, s.cur, s.cur + n) \cup {NoPlan} :
          u = [s EXCEPT !.skip = n, !.plan = p,
                        !.pc = IF p = NoPlan THEN "fill" ELSE "commit"]
    BY <1>3
  <1>6. n \in Int /\ 1 <= n /\ n <= s.bound + 1 - s.cur BY <1>2, <1>4
  <1> HIDE DEF n, u
  <1>7. p # NoPlan => Filled(p)
    <2> SUFFICES ASSUME p # NoPlan PROVE Filled(p) OBVIOUS
    <2> DEFINE g == s.cur
               gapEnd == s.cur + n
               tr == s.tr
    <2>1. /\ g \in 0..(file.len - 1) /\ g < file.len /\ gapEnd \in Nat /\ g < gapEnd
          /\ gapEnd <= file.len /\ g \in Int
      BY <1>2, <1>6
    <2>2. p \in Plans(tr, g, gapEnd) BY <1>5
    <2> HIDE DEF gapEnd
    <2>3. tr.mode = "synced" BY <2>2, Zenon DEF Plans
    <2>4. InStep(tr, g, g) BY <1>1 DEF Steady, SentGood
    <2>5. Reads(FALSE, tr, g, g) BY <2>1, <2>3, <2>4 DEF InStep
    <2>6. TrackerOK(file, tr, s.first, g) BY <1>2
    <2> HIDE DEF g, tr
    <2> QED BY <1>1, <2>1, <2>2, <2>5, <2>6, PlanFills
  <1>8. /\ u.first = s.first /\ u.cur = s.cur /\ u.out = s.out /\ u.tr = s.tr
        /\ u.used = s.used /\ u.plain = s.plain /\ u.plan = p
        /\ u.pc = IF p = NoPlan THEN "fill" ELSE "commit"
    BY <1>1, <1>5 DEF AskedOK, SentOfRange
  <1>9. u.pc = "commit" => Filled(u.plan) BY <1>7, <1>8
  <1> QED BY <1>1, <1>8, <1>9, SteadySame DEF u

LEMMA CommitSteady ==
  ASSUME Readably, NEW r \in Requests, Commit(r)
  PROVE  Steady(rq'[r]) /\ \A p \in Held(store') : Filled(p)
  <1> DEFINE s == rq[r]
             u == rq'[r]
             plan == s.plan
  <1>1. /\ s.pc = "commit" /\ AskedOK(file, s) /\ Steady(s) /\ file \in Files /\ WellFormed
        /\ StoreOK(store) /\ \A p \in Held(store) : Filled(p)
    BY DEF Commit, Readably, Repairs, Idle
  <1>2. /\ s.cur <= s.end /\ Filled(plan) /\ PlanOK(plan) /\ plan.start = s.cur /\ s.cur \in Nat
        /\ \A p \in Held(store) : PlanOK(p)
    BY <1>1, FileIs DEF AskedOK, SentOfRange, Steady, Filled
  <1>3. CASE u = [s EXCEPT !.pc = "fill"] /\ UNCHANGED store
    <2> HIDE DEF u
    <2>1. /\ u.first = s.first /\ u.cur = s.cur /\ u.out = s.out /\ u.tr = s.tr
          /\ u.used = s.used /\ u.plain = s.plain /\ u.pc # "commit"
      BY <1>1, <1>3 DEF AskedOK, SentOfRange
    <2>2. Steady(u) BY <1>1, <2>1, SteadySame
    <2> QED BY <1>1, <1>3, <2>2 DEF u
  <1>4. CASE store' = Added(plan) /\ u = SentPlan(s, plan)
    <2>1. s.cur \in Span(plan) BY <1>2 DEF PlanOK, Span
    <2>2. Steady(u) BY <1>1, <1>2, <1>4, <2>1, SteadyPlan
    <2> HIDE DEF u, plan
    <2> DEFINE all == Held(store) \cup {plan}
               longer == Append(store, plan)
    <2>3. Held(store') \in SUBSET all
      <3>1. store \in Seq(all)
        <4>1. store \in Seq(Held(store)) BY <1>1 DEF StoreOK
        <4>2. Len(store) \in Nat /\ store \in [1..Len(store) -> Held(store)] BY <4>1, LenProperties
        <4>3. store \in [1..Len(store) -> all] BY <4>2
        <4> HIDE DEF all
        <4> QED BY <4>2, <4>3
      <3> HIDE DEF all
      <3>2. plan \in all BY DEF all
      <3>3. longer \in Seq(all) /\ Len(longer) = Len(store) + 1 /\ Len(store) \in Nat
        BY <3>1, <3>2, AppendProperties, LenProperties
      <3> HIDE DEF longer
      <3>4. store' = longer \/ store' = Tail(longer) BY <1>4 DEF Added, longer
      <3>5. longer # <<>>
        <4>1. Len(longer) # 0 BY <3>3
        <4> QED BY <3>3, <4>1, EmptySeq
      <3>6. store' \in Seq(all) BY <3>3, <3>4, <3>5, HeadTailProperties
      <3>7. DOMAIN store' = 1..Len(store') BY <3>6, LenProperties
      <3> QED BY <3>6, <3>7, ElementOfSeq DEF Held
    <2> QED BY <1>1, <1>2, <2>2, <2>3 DEF u
  <1>5. CASE /\ Covering(s.cur) # {} /\ u = SentPlan(s, CHOOSE q \in Covering(s.cur) : TRUE)
             /\ UNCHANGED store
    <2> DEFINE p == CHOOSE q \in Covering(s.cur) : TRUE
    <2>1. p \in Held(store) /\ s.cur \in Span(p) BY <1>5, Covers
    <2>2. u = SentPlan(s, p) BY <1>5
    <2> HIDE DEF p
    <2>3. Steady(u) BY <1>1, <1>2, <2>1, <2>2, SteadyPlan
    <2> QED BY <1>1, <1>5, <2>3
  <1> QED BY <1>3, <1>4, <1>5 DEF Commit, Become, Readably, Repairs

LEMMA RefreshSteady ==
  ASSUME Readably, NEW r \in Requests, Refresh(r)
  PROVE  Steady(rq'[r])
  <1> DEFINE s == rq[r]
             u == rq'[r]
             bound == BoundAt(r)
             v == [s EXCEPT !.bound = bound, !.known = Stored]
  <1>1. s.pc = "fill" /\ AskedOK(file, s) /\ Steady(s)
    BY DEF Refresh, Readably, Repairs, Idle
  <1>2. \E skip : u = [v EXCEPT !.pc = "loop"] \/ u = [v EXCEPT !.pc = "zeros", !.skip = skip]
    BY DEF Refresh, Become, Readably, Repairs
  <1> HIDE DEF u, bound
  <1>3. /\ DOMAIN v = DOMAIN s /\ v.first = s.first /\ v.cur = s.cur /\ v.out = s.out
        /\ v.tr = s.tr /\ v.used = s.used /\ v.plain = s.plain
        /\ {"pc", "skip", "first", "cur", "out", "tr", "used", "plain"} \subseteq DOMAIN v
    BY <1>1 DEF AskedOK, SentOfRange
  <1> HIDE DEF v
  <1>4. /\ u.first = s.first /\ u.cur = s.cur /\ u.out = s.out /\ u.tr = s.tr
        /\ u.used = s.used /\ u.plain = s.plain /\ u.pc # "commit"
    BY <1>2, <1>3
  <1> QED BY <1>1, <1>4, SteadySame DEF u

LEMMA EndSteady ==
  ASSUME Readably, NEW r \in Requests, EndConceal(r)
  PROVE  Steady(rq'[r])
  <1> DEFINE s == rq[r]
             u == rq'[r]
  <1>1. s.pc = "end" /\ AskedOK(file, s) /\ Steady(s) /\ u = [s EXCEPT !.pc = "over"]
    BY DEF EndConceal, Become, Readably, Repairs, Idle
  <1> HIDE DEF u
  <1>2. /\ u.first = s.first /\ u.cur = s.cur /\ u.out = s.out /\ u.tr = s.tr
        /\ u.used = s.used /\ u.plain = s.plain /\ u.pc # "commit"
    BY <1>1 DEF AskedOK, SentOfRange
  <1> QED BY <1>1, <1>2, SteadySame DEF u

LEMMA ZerosSteady ==
  ASSUME Readably, NEW r \in Requests, WriteZeros(r)
  PROVE  Steady(rq'[r])
  <1> DEFINE s == rq[r]
             u == rq'[r]
             n == s.skip
             bytes == [o \in 0..file.len |-> <<"zero">>]
             t == Sent(s, n, bytes)
  <1>1. s.pc = "zeros" /\ AskedOK(file, s) /\ Steady(s) /\ file \in Files /\ WellFormed
    BY DEF WriteZeros, Readably, Repairs, Idle
  <1>2. /\ s.cur \in Nat /\ s.end \in Int /\ s.bound \in Int /\ s.cur <= s.bound
        /\ s.bound <= s.end /\ s.end = file.len - 1 /\ file.len \in Nat /\ SentOfRange(file, s)
        /\ n \in Nat /\ n <= s.bound + 1 - s.cur
    BY <1>1, FileIs DEF AskedOK, SentOfRange
  <1>3. u = [t EXCEPT !.pc = IF t.cur > t.end THEN "end" ELSE "loop", !.plain = TRUE]
    BY DEF WriteZeros, Become, Readably, Repairs
  <1> HIDE DEF n
  <1>4. \A o \in s.cur..(s.cur + n - 1) : bytes[o] = <<"zero">>
    <2> SUFFICES ASSUME NEW o \in s.cur..(s.cur + n - 1) PROVE bytes[o] = <<"zero">> OBVIOUS
    <2>1. o \in 0..file.len BY <1>2
    <2> QED BY <2>1
  <1> HIDE DEF bytes
  <1>5. \A o \in s.cur..(s.cur + n - 1) : IsByte(bytes[o]) /\ ByteOK(bytes[o], s.cur)
    <2>1. IsByte(<<"zero">>) BY DEF IsByte
    <2>2. ByteOK(<<"zero">>, s.cur) BY DEF ByteOK
    <2> QED BY <1>4, <2>1, <2>2
  <1>6. /\ SentOfRange(file, t) /\ t.cur = s.cur + n
        /\ \A f \in {"pc", "first", "end", "bound", "skip", "plan", "tapped", "known", "plain",
                     "used"} : t[f] = s[f]
    BY <1>1, <1>2, <1>5, SentOK
  <1>7. SentGood(t, t.cur)
    <2>1. SentGood(s, s.cur) /\ s.cur \in Int BY <1>1, <1>2 DEF Steady
    <2>2. s.cur + n <= file.len BY <1>2
    <2>3. SentGood(t, s.cur) BY <1>1, <1>2, <1>5, <2>1, <2>2, SentReads
    <2>4. s.cur <= t.cur /\ t.cur \in Int BY <1>2, <1>6
    <2> HIDE DEF t
    <2> QED BY <1>1, <2>1, <2>3, <2>4, GoodLater
  <1> HIDE DEF t, u
  <1>8. u.cur = t.cur /\ u.out = t.out /\ u.tr = t.tr /\ u.plain = TRUE /\ u.pc # "commit"
    BY <1>3, <1>6 DEF SentOfRange
  <1>9. SentGood(u, u.cur) BY <1>7, <1>8 DEF SentGood
  <1>10. Follows(u) BY <1>8 DEF Follows, Whole
  <1> QED BY <1>8, <1>9, <1>10 DEF Steady, u

\* What is said of a plan or of a request's record depends on the file alone.
LEMMA SteadyKept ==
  ASSUME UNCHANGED file
  PROVE  /\ \A p : Filled(p)' = Filled(p)
         /\ \A s : Steady(s)' = Steady(s)
  <1>1. \A k : Boundary(k)' = Boundary(k) BY OriginalKept DEF Boundary
  <1>2. \A exact, k, a : At(exact, k, a)' = At(exact, k, a)
    BY <1>1, OriginalKept DEF At, Like, ClusterStart
  <1>3. \A exact, tr, pos, last : Reads(exact, tr, pos, last)' = Reads(exact, tr, pos, last)
    BY <1>2, OriginalKept DEF Reads, InLeaf, InVoid, Fits
  <1>4. \A exact, tr, pos : Exactly(exact, tr, pos)' = Exactly(exact, tr, pos)
    BY OriginalKept DEF Exactly
  <1>5. \A s, e : ValidVoid(s, e)' = ValidVoid(s, e)
    BY <1>1, OriginalKept DEF ValidVoid, ClusterStart
  <1>6. \A byte, last : ByteOK(byte, last)' = ByteOK(byte, last) BY <1>5 DEF ByteOK
  <1>7. \A s, last : SentGood(s, last)' = SentGood(s, last)
    BY <1>3, <1>6 DEF SentGood, InStep
  <1>8. \A s : Follows(s)' = Follows(s) BY <1>3, <1>4 DEF Follows
  <1>9. \A p : Filled(p)' = Filled(p)
    <2>1. \A k : Beyond(k)' = Beyond(k) BY OriginalKept DEF Beyond
    <2>2. \A V, s, e : Fills(V, s, e)' = Fills(V, s, e) BY <1>5 DEF Fills
    <2>3. \A p : PlanOK(p)' = PlanOK(p) BY DEF PlanOK
    <2> QED BY <2>1, <2>2, <2>3 DEF Filled
  <1> QED BY <1>7, <1>8, <1>9 DEF Steady

\* Read exactly, the same stack is the same sequence.
LEMMA SameIs ==
  ASSUME NEW S, NEW a \in Seq(S), NEW b \in Seq(S), Same(TRUE, a, b)
  PROVE  a = b
  <1>1. Len(a) = Len(b) /\ Len(a) \in Nat /\ \A i \in 2..Len(a) : a[i] = b[i] BY DEF Same
  <1>2. Len(a) # 0 => a[1] = b[1] BY DEF Same, SameFirst
  <1>3. \A i \in 1..Len(a) : a[i] = b[i]
    <2> TAKE i \in 1..Len(a)
    <2>1. i = 1 \/ i \in 2..Len(a) BY <1>1
    <2>2. Len(a) # 0 BY <1>1
    <2> QED BY <1>1, <1>2, <2>1, <2>2
  <1> QED BY <1>1, <1>3, SeqEqual

LEMMA ReadablyStep ==
  ASSUME Readably, ConcealNext \/ UNCHANGED concealVars
  PROVE  Readably'
  <1>1. Repairs' BY RepairsStep DEF Readably
  <1>2. CASE rq' = rq /\ store' = store /\ file' = file
    <2>1. WellFormed' BY <1>2, WellFormedKept DEF Readably
    <2> QED BY <1>1, <1>2, <2>1, SteadyKept DEF Readably, Held
  <1>3. ASSUME NEW r \in Requests,
               \/ Ask(r) \/ Replay(r) \/ ReadChunk(r) \/ PlanGap(r) \/ Commit(r)
               \/ Refresh(r) \/ WriteZeros(r) \/ EndConceal(r)
        PROVE  Readably'
    <2>1. file' = file /\ \E s : rq' = [rq EXCEPT ![r] = s]
      BY <1>3 DEF Ask, Replay, ReadChunk, PlanGap, Commit, Refresh, WriteZeros, EndConceal, Become
    <2>2. \A q \in Requests \ {r} : rq'[q] = rq[q] BY <2>1 DEF Readably, Repairs
    <2>3. Steady(rq'[r])
      BY <1>3, AskSteady, ReplaySteady, ReadSteady, GapSteady, CommitSteady, RefreshSteady,
         ZerosSteady, EndSteady
    <2>4. \A p \in Held(store') : Filled(p)
      <3>1. CASE Commit(r) BY <3>1, CommitSteady
      <3>2. CASE store' = store BY <3>2 DEF Readably
      <3> QED BY <1>3, <3>1, <3>2
            DEF Ask, Replay, ReadChunk, PlanGap, Refresh, WriteZeros, EndConceal
    <2>5. \A q \in Requests : rq'[q].pc # "idle" => Steady(rq'[q]) BY <2>2, <2>3 DEF Readably
    <2>6. WellFormed' BY <2>1, WellFormedKept DEF Readably
    <2> QED BY <1>1, <2>1, <2>4, <2>5, <2>6, SteadyKept DEF Readably, Held
  <1>4. CASE Heals BY <1>2, <1>4 DEF Heals
  <1>5. CASE UNCHANGED concealVars BY <1>2, <1>5 DEF concealVars
  <1> QED BY <1>3, <1>4, <1>5 DEF ConcealNext, AllServed

LEMMA ReadablyFirst == ConcealInit /\ WellFormed => Readably
  <1> SUFFICES ASSUME ConcealInit, WellFormed PROVE Readably OBVIOUS
  <1>1. Repairs BY RepairsFirst
  <1>2. Held(store) = {}
    <2> DEFINE none == <<>>
    <2>1. store = none /\ DOMAIN none = {} BY DEF ConcealInit
    <2> HIDE DEF none
    <2> QED BY <2>1 DEF Held
  <1>3. \A r \in Requests : rq[r].pc = "idle" BY DEF ConcealInit, Idle
  <1> QED BY <1>1, <1>2, <1>3 DEF Readably

\* A request that follows the file from its start reads what the file has.
LEMMA FollowsReadable ==
  ASSUME file \in Files, WellFormed, NEW s, s.cur \in 0..file.len, Steady(s), Whole(s)
  PROVE  /\ s.tr.mode = "synced"
         /\ s.cur > 0 /\ s.out[s.cur - 1] = <<"orig">> =>
              LET t == Original(s.cur)
              IN  /\ s.tr.held = t.held
                  /\ t.held = 0 => s.tr.stack = t.stack /\ s.tr.leaf = t.leaf
  <1> DEFINE t == Original(s.cur)
             tr == s.tr
             cur == s.cur
  <1>1. Follows(s) BY DEF Steady
  <1>2. Reads(TRUE, tr, cur, cur) BY <1>1 DEF Follows
  <1>3. tr.mode = "synced" /\ tr.stack \in Seq(Masters(file)) BY <1>2 DEF Reads, Fits
  <1>4. t.leaf # Nothing => t.held = 0 BY ShapeAt
  <1>5. t.stack \in Seq(Masters(file))
    <2>1. t.stack \in Seq(file.elements) BY ShapeAt
    <2> HIDE DEF t
    <2> QED BY <2>1, MastersToo
  <1>6. ASSUME s.cur > 0 /\ s.out[s.cur - 1] = <<"orig">>
        PROVE  tr.held = t.held /\ (t.held = 0 => tr.stack = t.stack /\ tr.leaf = t.leaf)
    <2>1. Exactly(TRUE, tr, cur) BY <1>1, <1>6 DEF Follows
    <2>2. /\ tr.leaf = t.leaf
          /\ t.leaf = Nothing => tr.held = t.held
          /\ tr.leaf # Nothing => Same(TRUE, tr.stack, t.stack) /\ tr.held = 0
      BY <1>2, ReadsHere
    <2>3. tr.leaf = Nothing /\ tr.held = 0 => Same(TRUE, tr.stack, t.stack)
      BY <2>1 DEF Exactly
    <2> HIDE DEF t, tr
    <2>4. tr.held = t.held BY <1>4, <2>2
    <2>5. t.held = 0 => Same(TRUE, tr.stack, t.stack) BY <2>2, <2>3, <2>4
    <2>6. Same(TRUE, tr.stack, t.stack) => tr.stack = t.stack BY <1>3, <1>5, SameIs DEF tr
    <2> QED BY <2>2, <2>4, <2>5, <2>6
  <1> QED BY <1>3, <1>6

LEMMA ReadablyReads == Readably => RepairedIsReadable
  <1> SUFFICES ASSUME Readably, NEW r \in Requests, rq[r].pc # "idle", Whole(rq[r])
               PROVE  LET s == rq[r] IN
                      /\ s.tr.mode = "synced"
                      /\ s.cur > 0 /\ s.out[s.cur - 1] = <<"orig">> =>
                           LET t == Original(s.cur)
                           IN  /\ s.tr.held = t.held
                               /\ t.held = 0 => s.tr.stack = t.stack /\ s.tr.leaf = t.leaf
    BY DEF RepairedIsReadable, Whole
  <1>1. file \in Files /\ WellFormed /\ Steady(rq[r]) /\ AskedOK(file, rq[r])
    BY DEF Readably, Repairs, Idle
  <1>2. rq[r].cur \in 0..file.len
    BY <1>1, FileIs DEF AskedOK, SentOfRange, Steady, SentGood
  <1> QED BY <1>1, <1>2, FollowsReadable

\* A file that is well formed is well formed to a player that reads it from its start, whatever
\* gaps are concealed on the way, and past each of them every element is found where the file
\* has it (ebml_conceal.py, ebml_conceal_plan.py, stream_proxy_handler_conceal.py).
THEOREM RepairedReads ==
  Init /\ (topic = "conceal" => WellFormed) /\ [][Next]_vars => []Readable
  <1> DEFINE Inv == topic = "conceal" => Readably
  <1>1. Init /\ (topic = "conceal" => WellFormed) => Inv BY ReadablyFirst DEF Init
  <1>2. Inv /\ [Next]_vars => Inv' BY ConcealSteps, ReadablyStep
  <1>3. Inv => Readable BY ReadablyReads DEF Readable
  <1> QED BY <1>1, <1>2, <1>3, PTL
=============================================================================
