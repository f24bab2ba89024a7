--------------------------- MODULE FallbackSelection ---------------------------
(***************************************************************************)
(* attach_fallback_candidates_for_selection (fallback_streams_select.py,   *)
(* fallback_streams_select_streaming.py): the candidates that pass the     *)
(* gates are taken one by one from the search results, their NZB manifests *)
(* fetched by daemon threads while the selected release's own manifest may *)
(* still be under way, and attached in the order of the results - unless   *)
(* an early one is slow, when a settle window, a stall timer and a tail    *)
(* timer decide what is not waited for.                                    *)
(*                                                                         *)
(* Candidates are numbered in the order the results yield them; 0 is the   *)
(* selected release.                                                       *)
(***************************************************************************)
EXTENDS ReleaseMatch

CONSTANTS
    Selectable,     \* the releases that may be selected
    Pools,          \* the sequences of search results
    Caps            \* the values of fallback_streams_max, after clamping (0: no selection)

ASSUME SelectionAssumption ==
    /\ Caps \subseteq Nat \ {0}
    /\ \A r \in Selectable : IsRelease(r)
    /\ \A pool \in Pools : pool \in Seq(Range(pool)) /\ \A r \in Range(pool) : IsRelease(r)

VARIABLES
    selected, peers, cap,   \* the question: the release, its candidates, the limit
    step,                   \* "prime", "drain" or the way the search ended
    taken,                  \* candidates whose fetch was started
    exhausted,              \* the results have no further candidate
    inFlight, arrived,      \* fetches under way; result_queue
    selectedReady, canMatch,
    completed, consumed,    \* fetched and not yet looked at; looked at
    nextToAttach, attached, misses,
    settling                \* the settle window is open

selVars == <<selected, peers, cap, step, taken, exhausted, inFlight, arrived, selectedReady,
             canMatch, completed, consumed, nextToAttach, attached, misses, settling>>

\* _iter_selection_prefetch_candidates: one candidate for each link.
PeersOf(p, pool) ==
    LET ok == {i \in DOMAIN pool : Prefetchable(p, pool[i])}
        first == {i \in ok : \A j \in ok : pool[j].link = pool[i].link => i <= j}
    IN  Kept(pool, first)

Received == {arrived[k] : k \in DOMAIN arrived}
ActiveCandidates == Cardinality((inFlight \cup Received) \ {0})
\* A wrong count: results nobody has received yet are not counted.
ActiveInFlight == Cardinality(inFlight)

Active == Cardinality(inFlight) + Len(arrived)

\* _fill_candidate_window and _start_stall_speculation start a number of fetches at once.
Room(active, comp, att, miss) ==
    LET spec == IF miss < cap - att THEN miss ELSE cap - att
        a == cap - active
        b == cap + spec - att - active - comp
    IN  IF a <= 0 \/ b <= 0 THEN 0 ELSE IF a < b THEN a ELSE b
Start(n, base) ==
    LET left == Len(peers) - taken
        new  == IF n < left THEN n ELSE left
    IN  /\ taken' = taken + new
        /\ exhausted' = (exhausted \/ n > left)
        /\ inFlight' = base \cup {taken + k : k \in 1..new}

\* _attach_manifest_candidate_if_matching
Link(i) == IF i = 0 THEN selected.link ELSE peers[i].link
Digest(i) == Manifest(IF i = 0 THEN selected ELSE peers[i]).digest
\* A wrong test: postings are told apart by their links alone.
AttachableByLink(i, att) ==
    /\ \A j \in {0} \cup {att[k] : k \in DOMAIN att} : Link(i) # Link(j)
    /\ ManifestFits(selected, peers[i])

OtherDigest(a, b) == a = {} \/ a # b
Attachable(i, att) ==
    /\ \A j \in {0} \cup {att[k] : k \in DOMAIN att} :
          Link(i) # Link(j) /\ OtherDigest(Digest(i), Digest(j))
    /\ ManifestFits(selected, peers[i])
\* ... of the candidates in `some`, in the order of the results, until the cap is reached.
Consider(some, acc, i) ==
    IF i \notin some \/ Len(acc.att) >= cap THEN acc
    ELSE IF Attachable(i, acc.att)
    THEN [acc EXCEPT !.att = Append(@, i), !.used = @ \cup {i}]
    ELSE [acc EXCEPT !.miss = @ + 1, !.used = @ \cup {i}]
Consume(some, att, miss) ==
    LET upTo[k \in 0..Len(peers)] ==
            IF k = 0 THEN [att |-> att, miss |-> miss, used |-> {}]
            ELSE Consider(some, upTo[k - 1], k)
    IN  upTo[Len(peers)]

\* _attach_ready_selection_candidates: the contiguous run, in result order.
RunEnd(comp, cons) == CHOOSE k \in nextToAttach..(taken + 1) :
    /\ k \notin comp \cup cons
    /\ \A j \in nextToAttach..(k - 1) : j \in comp \cup cons
Ready(comp, cons) == {j \in comp : j < RunEnd(comp, cons)}

SelInit ==
    /\ selected \in Selectable /\ cap \in Caps
    /\ peers \in {PeersOf(selected, pool) : pool \in Pools}
    /\ step = "prime" /\ taken = 0 /\ exhausted = FALSE
    /\ inFlight = {} /\ arrived = <<>>
    /\ selectedReady \in BOOLEAN /\ canMatch = TRUE
    /\ selectedReady => MayMatchAny(selected)   \* selected_manifest_may_have_fallback_peer
    /\ completed = {} /\ consumed = {} /\ nextToAttach = 1
    /\ attached = <<>> /\ misses = 0 /\ settling = FALSE

\* The selected release's fetch and the first window.
Prime ==
    /\ step = "prime"
    /\ IF peers = <<>>
       THEN step' = "none" /\ UNCHANGED <<taken, exhausted, inFlight>>
       ELSE step' = "drain" /\ Start(cap, IF selectedReady THEN {} ELSE {0})
    /\ UNCHANGED <<selected, peers, cap, arrived, selectedReady, canMatch, completed, consumed,
                   nextToAttach, attached, misses, settling>>

\* A fetch thread, whatever became of the fetch, puts its result on the queue.
FetchDone(i) ==
    /\ i \in inFlight
    /\ inFlight' = inFlight \ {i}
    /\ arrived' = Append(arrived, i)
    /\ UNCHANGED <<selected, peers, cap, step, taken, exhausted, selectedReady, canMatch,
                   completed, consumed, nextToAttach, attached, misses, settling>>

\* _maybe_fill_cap and _fill_candidate_window, once the ready run is attached.
Adopt(comp, cons, got) ==
    /\ attached' = got.att /\ misses' = got.miss
    /\ completed' = comp \ got.used /\ consumed' = cons \cup got.used
    /\ step' = IF Len(got.att) >= cap THEN "full" ELSE "drain"
FillCap(comp, cons, run, force) ==
    LET enough == Cardinality(comp) >= cap - Len(run.att)
        gap == nextToAttach' <= taken
    IN  /\ settling' = (enough /\ gap /\ ~force)
        /\ Adopt(comp, cons, IF enough /\ (force \/ ~gap)
                             THEN Consume(comp, run.att, run.miss)
                             ELSE [run EXCEPT !.used = {}])
AttachReady(comp, run) ==
    IF Len(run.att) >= cap THEN Adopt(comp, consumed, run) /\ UNCHANGED settling
    ELSE FillCap(comp \ run.used, consumed \cup run.used, run, FALSE)

\* _apply_recorded_result
Receive ==
    /\ step = "drain" /\ arrived # <<>>
    /\ arrived' = Tail(arrived)
    /\ LET i == Head(arrived)
           ready == selectedReady \/ i = 0
           comp == IF i = 0 THEN completed ELSE completed \cup {i}
           active == ActiveCandidates - (IF i = 0 THEN 0 ELSE 1)
       IN  /\ selectedReady' = ready
           /\ canMatch' = IF i = 0 THEN MayMatchAny(selected) ELSE canMatch
           /\ IF ~ready
              THEN /\ completed' = comp /\ settling' = FALSE
                   /\ UNCHANGED <<consumed, nextToAttach, attached, misses, step>>
              ELSE IF ~canMatch'
              THEN /\ step' = "cannot" /\ completed' = comp
                   /\ UNCHANGED <<consumed, nextToAttach, attached, misses, settling>>
              ELSE /\ nextToAttach' = RunEnd(comp, consumed)
                   /\ AttachReady(comp, Consume(Ready(comp, consumed), attached, misses))
           /\ IF step' = "drain"
              THEN Start(Room(active, Cardinality(completed'), Len(attached'), misses'), inFlight)
              ELSE UNCHANGED <<taken, exhausted, inFlight>>
    /\ UNCHANGED <<selected, peers, cap>>

\* The settle window closes on an early candidate that is still in flight.
SettleExpires ==
    /\ step = "drain" /\ settling /\ Active > 0
    /\ UNCHANGED nextToAttach
    /\ FillCap(completed, consumed, [att |-> attached, miss |-> misses, used |-> {}], TRUE)
    /\ UNCHANGED <<selected, peers, cap, taken, exhausted, inFlight, arrived, selectedReady, canMatch>>

\* Everything has been asked for and something attached: the rest is not waited for.
Tailing == /\ selectedReady /\ canMatch /\ exhausted /\ attached # <<>>
           /\ Len(attached) < cap /\ ActiveCandidates > 0
TailExpires ==
    /\ step = "drain" /\ ~settling /\ Tailing
    /\ step' = "tail"
    /\ UNCHANGED <<selected, peers, cap, taken, exhausted, inFlight, arrived, selectedReady,
                   canMatch, completed, consumed, nextToAttach, attached, misses, settling>>

\* No answer for a while: further candidates are asked for, up to the number of workers.
StallSpeculates ==
    /\ step = "drain" /\ ~settling /\ ~Tailing /\ arrived = <<>>
    /\ selectedReady /\ canMatch /\ Len(attached) < cap
    /\ ActiveCandidates \in 1..(cap - 1) /\ ~exhausted
    /\ Start(cap - ActiveCandidates, inFlight)
    /\ UNCHANGED <<selected, peers, cap, step, arrived, selectedReady, canMatch, completed,
                   consumed, nextToAttach, attached, misses, settling>>

StreamEnds ==
    /\ step = "drain" /\ Active = 0
    /\ step' = "done"
    /\ UNCHANGED <<selected, peers, cap, taken, exhausted, inFlight, arrived, selectedReady,
                   canMatch, completed, consumed, nextToAttach, attached, misses, settling>>

Selecting == step \in {"prime", "drain"}
SelNext ==
    \/ Prime \/ Receive \/ SettleExpires \/ TailExpires \/ StallSpeculates \/ StreamEnds
    \/ Selecting /\ \E i \in inFlight : FetchDone(i)
    \/ ~Selecting /\ UNCHANGED selVars

\* selected["_fallback_candidates"]
Candidates == Ranked(selected, [k \in DOMAIN attached |-> peers[attached[k]]])

-----------------------------------------------------------------------------
\* In whatever order the manifests come in, and however late the selected release's own:
\* the backups are no more than the limit, each is another posting than the selected one
\* and than every other, by its link and by its articles, and each one's payload fits.
OtherPosting(c, r) ==
    c.link # r.link /\ OtherDigest(Manifest(c).digest, Manifest(r).digest)
FitAndDiffer(list) ==
    \A k \in DOMAIN list :
        /\ ManifestFits(selected, list[k])
        /\ \A r \in {selected} \cup {list[m] : m \in 1..(k - 1)} : OtherPosting(list[k], r)
BackupsDiffer ==
    /\ Len(attached) <= cap
    /\ ~Selecting => FitAndDiffer(Candidates)

\* A search that ends with slots to spare, and neither for want of a match nor by its tail
\* timer, has looked at every candidate the results hold.
NoneForgotten ==
    step = "done" /\ canMatch =>
        Len(attached) = cap \/ consumed = DOMAIN peers
=============================================================================
