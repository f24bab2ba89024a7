------------------------------ MODULE FolderScan ------------------------------
(***************************************************************************)
(* How the video of a finished job is found on the WebDAV share            *)
(* (webdav.py, webdav_discovery.py, webdav_match.py, episode_inventory.py):*)
(* find_video_stream_for_folder first takes a complete inventory of the    *)
(* tree when an episode is asked for, and otherwise walks the folders, the *)
(* subfolders of each listed by a small pool of threads that share one     *)
(* set of visited folders and the process-wide cache of file sizes.        *)
(*                                                                         *)
(* A scan is named by its path of indexes: <<>> is the job's folder, <<2>> *)
(* its second subfolder, <<2, 1>> the first one in that.  A video file is  *)
(* <<folder, i>>; `tree` gives its size (0: the server sent none), how its *)
(* name relates to the wanted episode and how many words of the title it   *)
(* shares.                                                                 *)
(***************************************************************************)
EXTENDS Integers, Sequences, FiniteSets, SequencesExt

CONSTANTS
    Folders,    \* the folders of the share
    Root,       \* the job's folder
    Kids,       \* Folders -> the subfolders its listing names, in order
    Listings,   \* the sequences of video files a folder may hold
    Floors,     \* the minimum sizes a caller asks for (0: none)
    Workers,    \* _WEBDAV_SUBDIR_SCAN_WORKERS
    HintMax     \* _VIDEO_FILE_SIZE_HINTS_MAX

ASSUME ScanAssumption ==
    /\ Root \in Folders /\ Kids \in [Folders -> Seq(Folders)]
    /\ Workers \in Nat \ {0} /\ HintMax \in Nat \ {0} /\ Floors \subseteq Nat
    /\ Listings \subseteq Seq([tag : {"same", "other", "none"}, size : Nat, words : Nat,
                               aux : BOOLEAN])

VARIABLES
    tree, floor, want,  \* what is on the share and what the caller asks for
    phase,              \* "inventory", "walk" or "found"
    scan,               \* the state of each scan
    own,                \* its best file of the current level, or None
    nextKid,            \* how many subfolders its workers have taken
    queue,              \* result_queue: the indexes of the finished subfolders
    sib,                \* the best subfolder result so far, with its rank
    result,             \* what find_video_file returned
    visited, hints,     \* shared by every thread
    unread              \* folders whose listing could not be fetched

scanVars == <<tree, floor, want, phase, scan, own, nextKid, queue, sib, result,
              visited, hints, unread>>

None == <<>>
MaxDepth == 2

FolderAt(p) ==
    LET below(folder, n) == IF n <= Len(p) THEN Kids[folder][p[n]] ELSE folder
    IN  below(below(below(Root, 1), 2), 3)

Below(P) == UNION {{Append(p, i) : i \in DOMAIN Kids[FolderAt(p)]} : p \in P}
Paths == LET d1 == Below({<<>>})  d2 == Below(d1)  d3 == Below(d2)
         IN  {<<>>} \cup d1 \cup d2 \cup d3
Parent(p) == SubSeq(p, 1, Len(p) - 1)
KidsOf(p) == {q \in Paths : q # <<>> /\ Parent(q) = p}

File(v) == tree[v[1]][v[2]]
FilesIn(folders) == UNION {{<<f, i>> : i \in DOMAIN tree[f]} : f \in folders}

-----------------------------------------------------------------------------
(* The ranks.  want is "episode" (the hint carries an episode), "title"    *)
(* (words only) or "nothing".                                              *)

EpisodeScore(v) == IF want # "episode" THEN 0
                   ELSE CASE File(v).tag = "same"  -> 1000
                          [] File(v).tag = "other" -> -1000
                          [] OTHER -> 0
TokenScore(v) == IF want = "nothing" THEN 0 ELSE File(v).words

Bit(b) == IF b THEN 1 ELSE 0
AboveFloor(size) == size <= 0 \/ size >= floor

\* A wrong rank: the larger file before the wanted episode.
KeyBySize(v, size) == <<Bit(EpisodeScore(v) >= 0), Bit(AboveFloor(size)), size,
                        EpisodeScore(v), TokenScore(v)>>

Key(v, size) == <<Bit(EpisodeScore(v) >= 0), Bit(AboveFloor(size)), EpisodeScore(v),
                  size, TokenScore(v)>>
Less(a, b) == \E i \in DOMAIN a : a[i] < b[i] /\ \A j \in 1..(i - 1) : a[j] = b[j]

\* A file with neither a size nor the wanted episode is no candidate; of equals the first wins.
HasSignal(v) == File(v).size > 0 \/ EpisodeScore(v) > 0
BestHere(f) ==
    LET cands == {v \in FilesIn({f}) : HasSignal(v)}
        rank(v) == Key(v, File(v).size)
    IN  IF cands = {} THEN None
        ELSE CHOOSE v \in cands : \A u \in cands :
                 Less(rank(u), rank(v)) \/ (rank(u) = rank(v) /\ v[2] <= u[2])

\* The cache of sizes: a dict in insertion order, the oldest entry evicted first.
HintAt(v) == {i \in DOMAIN hints : hints[i][1] = v}
HintOf(v) == IF HintAt(v) = {} THEN 0 ELSE hints[CHOOSE i \in HintAt(v) : TRUE][2]
Remembered(v, size) ==
    LET kept == IF HintAt(v) = {} THEN Append(hints, <<v, size>>)
                ELSE [i \in DOMAIN hints |-> IF i \in HintAt(v) THEN <<v, size>> ELSE hints[i]]
    IN  IF size > 0 THEN IF Len(kept) > HintMax THEN Tail(kept) ELSE kept
        ELSE IF HintAt(v) = {} THEN hints
        ELSE RemoveAt(hints, CHOOSE i \in HintAt(v) : TRUE)

SiblingKey(v, i) == LET k == Key(v, HintOf(v))
                    IN  <<k[1], k[2], k[3], k[4], k[5], -i>>
SiblingBeats(v, best) == want = "nothing" \/ ~Less(Key(v, HintOf(v)), Key(best, File(best).size))

\* _defer_decision: a level's best file waits for the subfolders when it is not the
\* wanted episode, or is a stub.
Defers(p, v) ==
    /\ KidsOf(p) # {}
    /\ \/ want = "episode" /\ EpisodeScore(v) < 1000
       \/ floor > 0 /\ File(v).size \in 1..(floor - 1)

-----------------------------------------------------------------------------
(* The inventory: every video below the folder with a known size, or none  *)
(* of it.  The folders are the ones the scans name.                        *)

Reach == {FolderAt(p) : p \in {q \in Paths : Len(q) <= MaxDepth}}
TooDeep == \E p \in Paths : Len(p) > MaxDepth /\ FolderAt(p) \notin Reach
Complete == ~TooDeep /\ \A v \in FilesIn(Reach) : File(v).size > 0

Exact == {v \in FilesIn(Reach) : ~File(v).aux /\ File(v).tag = "same"}
MainUntagged == LET main == {v \in FilesIn(Reach) : ~File(v).aux}
                IN  IF (\A v \in main : File(v).tag = "none") /\ Cardinality(main) = 1
                    THEN main ELSE {}
Selected == LET from == IF Exact # {} THEN Exact ELSE MainUntagged
            IN  {v \in from : \A u \in from : File(u).size <= File(v).size}

ScanInit ==
    /\ tree \in [Folders -> Listings] /\ floor \in Floors
    /\ want \in {"episode", "title", "nothing"}
    /\ phase = "inventory"
    /\ scan = [p \in Paths |-> "new"]
    /\ own = [p \in Paths |-> None] /\ result = own /\ sib = own
    /\ nextKid = [p \in Paths |-> 0]
    /\ queue = [p \in Paths |-> <<>>]
    /\ visited = {} /\ hints = <<>> /\ unread = {}

\* find_video_stream_for_folder: an inventory that cannot be completed (a listing that
\* fails, a size the server leaves out, a tree that is too deep) selects nothing.
Inventory ==
    /\ phase = "inventory"
    /\ \/ /\ want = "episode" /\ Complete /\ Selected # {}
          /\ \E v \in Selected :
                /\ result' = [result EXCEPT ![<<>>] = v]
                /\ hints' = Remembered(v, File(v).size)
          /\ phase' = "found"
          /\ UNCHANGED scan
       \/ /\ phase' = "walk"
          /\ scan' = [scan EXCEPT ![<<>>] = "enter"]
          /\ UNCHANGED <<result, hints>>
    /\ UNCHANGED <<tree, floor, want, own, nextKid, queue, sib, visited, unread>>

\* A scan returns: its worker puts the result on the parent's queue.
Return(p, v) ==
    /\ scan' = [scan EXCEPT ![p] = "done"]
    /\ result' = [result EXCEPT ![p] = v]
    /\ queue' = IF p = <<>> THEN queue
                ELSE [queue EXCEPT ![Parent(p)] = Append(@, p[Len(p)])]
    /\ phase' = IF p = <<>> THEN "found" ELSE phase

\* _scan_subdir_worker: a free worker of the parent's pool takes the next subfolder.
Claim(p) ==
    /\ scan[p] = "collect" /\ nextKid[p] < Cardinality(KidsOf(p))
    /\ Cardinality({q \in KidsOf(p) : scan[q] \notin {"new", "done"}}) < Workers
    /\ nextKid' = [nextKid EXCEPT ![p] = @ + 1]
    /\ scan' = [scan EXCEPT ![Append(p, nextKid[p] + 1)] = "enter"]
    /\ UNCHANGED <<tree, floor, want, phase, own, queue, sib, result, visited, hints, unread>>

\* find_video_file: the depth limit, then the look-up in the shared set ...
Enter(p) ==
    /\ scan[p] = "enter"
    /\ IF Len(p) > MaxDepth \/ FolderAt(p) \in visited
       THEN Return(p, None)
       ELSE scan' = [scan EXCEPT ![p] = "mark"] /\ UNCHANGED <<result, queue, phase>>
    /\ UNCHANGED <<tree, floor, want, own, nextKid, sib, visited, hints, unread>>

\* ... which another thread may pass before this one has added its folder.
Mark(p) ==
    /\ scan[p] = "mark"
    /\ visited' = visited \cup {FolderAt(p)}
    /\ scan' = [scan EXCEPT ![p] = "list"]
    /\ UNCHANGED <<tree, floor, want, phase, own, nextKid, queue, sib, result, hints, unread>>

\* The PROPFIND and what follows from it.
List(p) ==
    /\ scan[p] = "list"
    /\ LET best == BestHere(FolderAt(p))
       IN  IF (best # None /\ ~Defers(p, best)) \/ KidsOf(p) = {}
           THEN /\ Return(p, best)
                /\ hints' = IF best = None THEN hints ELSE Remembered(best, File(best).size)
                /\ UNCHANGED own
           ELSE /\ scan' = [scan EXCEPT ![p] = "collect"]
                /\ own' = [own EXCEPT ![p] = best]
                /\ UNCHANGED <<result, queue, phase, hints>>
    /\ UNCHANGED <<tree, floor, want, nextKid, sib, visited, unread>>

ListFails(p) ==
    /\ scan[p] = "list"
    /\ unread' = unread \cup {FolderAt(p)}
    /\ Return(p, None)
    /\ UNCHANGED <<tree, floor, want, own, nextKid, sib, visited, hints>>

\* _best_sibling_from_queue: results are ranked in the order they arrive, with the size
\* the cache holds then.
Collect(p) ==
    /\ scan[p] = "collect" /\ queue[p] # <<>>
    /\ LET i == Head(queue[p])  v == result[Append(p, i)]
           better == v # None /\ (sib[p] = None \/ Less(sib[p][2], SiblingKey(v, i)))
       IN  sib' = IF better THEN [sib EXCEPT ![p] = <<v, SiblingKey(v, i)>>] ELSE sib
    /\ queue' = [queue EXCEPT ![p] = Tail(@)]
    /\ UNCHANGED <<tree, floor, want, phase, scan, own, nextKid, result, visited, hints, unread>>

\* _recurse_and_adopt_sibling, _fallback_to_current_level
Conclude(p) ==
    /\ scan[p] = "collect" /\ queue[p] = <<>>
    /\ nextKid[p] = Cardinality(KidsOf(p)) /\ \A q \in KidsOf(p) : scan[q] = "done"
    /\ LET adopted == sib[p] # None /\ (own[p] = None \/ SiblingBeats(sib[p][1], own[p]))
       IN  /\ Return(p, IF adopted THEN sib[p][1] ELSE own[p])
           /\ hints' = IF adopted \/ own[p] = None THEN hints
                       ELSE Remembered(own[p], File(own[p]).size)
    /\ UNCHANGED <<tree, floor, want, own, nextKid, sib, visited, unread>>

ScanFound == phase = "found" /\ UNCHANGED scanVars

ScanNext ==
    \/ Inventory \/ ScanFound
    \/ \E p \in Paths : \/ Claim(p) \/ Enter(p) \/ Mark(p) \/ List(p) \/ ListFails(p)
                        \/ Collect(p) \/ Conclude(p)

-----------------------------------------------------------------------------
Wanted(v) == File(v).tag = "same" /\ AboveFloor(File(v).size)

\* Whatever order the threads list and answer in, a tree that could be read and holds the
\* wanted episode as a main video of sufficient size gives that episode, never a stub of
\* it, a sibling episode or an extra; and a wrong episode is handed to the player only
\* when nothing else on the share could be the one.
EpisodeFound ==
    phase = "found" /\ unread = {} /\ want = "episode" =>
        LET got == result[<<>>] IN
        /\ (\E v \in Exact : HasSignal(v) /\ Wanted(v)) => got # None /\ Wanted(got)
        /\ got # None /\ File(got).tag = "other" =>
               \A v \in FilesIn(Reach) : HasSignal(v) => File(v).tag = "other"
=============================================================================
