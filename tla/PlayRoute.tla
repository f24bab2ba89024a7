------------------------------- MODULE PlayRoute -------------------------------
(***************************************************************************)
(* One invocation of the add-on: Kodi's plugin call or the TMDbHelper      *)
(* script (router.py and router_*.py).  It finds out which episode is      *)
(* meant, asks the search providers, filters their rows, marks the         *)
(* releases the backend has already downloaded, lets the user (or the      *)
(* auto-select setting) pick one, and hands the pick to the resolver with  *)
(* what it has learnt.  The plugin calls owe Kodi an answer to the handle  *)
(* they were given.                                                        *)
(*                                                                         *)
(* A row is [link, title, content, bytes, posted, shown]: shown, it passes *)
(* the filters; content, what is in it.  The row of a season pack already  *)
(* downloaded has the link "pack".                                         *)
(***************************************************************************)
EXTENDS Ordering, SequencesExt

CONSTANTS
    Providers,      \* 1..n: NZBHydra2, Prowlarr, direct indexers
    Replies,        \* what one of them may answer: [failed, rows]
    Histories,      \* answers of the backend's history: [read, jobs], newest first
    Calls,          \* the invocations, with the settings they run under: [path, handle,
                    \* backend, auto, hydra, on, packed, ask, ledger].  hydra, NZBHydra2
                    \* lists a release's uploads; on, the providers switched on; packed,
                    \* a pack with the episode is known; ask, [type, title, season,
                    \* episode, items], with 0 or "" for what the call leaves out and the
                    \* items Kodi shows; ledger, from names to the posting times of
                    \* what was downloaded under them
    Extras,         \* uploads NZBHydra2 may list for a release: sequences of rows
    Tolerance,      \* _COMPLETED_SIZE_MATCH_TOLERANCE, in percent
    PostedWithin,   \* _PUBDATE_MATCH_TOLERANCE_SECONDS
    MaxShown,       \* max_results
    MaxBackups      \* fallback_streams_max

Texts == STRING \cup {"pack"}
Rows == [link : Texts, title : Texts, content : Texts, bytes : Nat, posted : Nat,
         shown : BOOLEAN]

ASSUME RouteAssumption ==
    /\ IsFiniteSet(Providers) /\ Providers = 1..Cardinality(Providers) /\ 1 \in Providers
    /\ {Tolerance, PostedWithin, MaxShown, MaxBackups} \subseteq Nat
    /\ \A c \in Calls : DOMAIN c.ask.items \subseteq Nat /\ c.on \subseteq Providers
    /\ \A r \in Replies : r.rows \in Seq(Rows)
    /\ \A h \in Histories : h.jobs \in Seq([name : STRING, bytes : Nat])
    /\ Extras \subseteq Seq(Rows)

VARIABLES
    call,       \* the invocation and the settings it runs under
    meant,      \* [title, season, episode] it turns out to be about
    stage,      \* where it is
    cached,     \* the search cache's rows for this search
    found,      \* [rows, failed] of the search
    offered,    \* the rows the picker starts with
    history,    \* the last answer of the backend's history, or NotAsked
    marks,      \* links to the downloaded job marked on the row
    picked,     \* the row picked
    given,      \* what the resolver is told
    answers,    \* the answers to Kodi's handle
    bookmark    \* Kodi's resume point: "kodi", "kept" (in the store) or "used"

routeVars == <<call, meant, stage, cached, found, offered, history, marks, picked, given,
               answers, bookmark>>

NotAsked == [read |-> FALSE, jobs |-> <<>>]
NoJob == [name |-> "", bytes |-> 0]
PackRow == [link |-> "pack", title |-> "pack", content |-> "pack", bytes |-> 0, posted |-> 0, shown |-> TRUE]
NotTold == [told |-> FALSE]

HasHandle == call.path \in {"play", "search", "direct", "menu"} \/ (call.path = "action" /\ call.handle)
Answer(what) == answers' = IF HasHandle THEN Append(answers, what) ELSE answers
Go(s) == stage' = s
Ends(what) == Go("over") /\ Answer(what)

-----------------------------------------------------------------------------
(* Which episode is meant: missing numbers are taken from what Kodi shows. *)

Or(a, b) == IF a = 0 THEN b ELSE a
AskedFor(ask) == [title |-> ask.title, season |-> ask.season, episode |-> ask.episode]
Numbered(ask) == ask.season # 0 /\ ask.episode # 0

\* A wrong choice: the show of the item does not matter.
ListItemOfAny(title, items) ==
    LET fits == {i \in DOMAIN items : Numbered(items[i])}
    IN  IF fits = {} THEN [show |-> "", season |-> 0, episode |-> 0]
        ELSE items[CHOOSE i \in fits : \A j \in fits : i <= j]

\* _episode_info_from_listitem: the first numbered item of the show asked for (of any
\* show when none is named).
ListItem(title, items) ==
    LET fits == {i \in DOMAIN items : Numbered(items[i]) /\ title \in {"", items[i].show}}
    IN  IF fits = {} THEN [show |-> "", season |-> 0, episode |-> 0]
        ELSE items[CHOOSE i \in fits : \A j \in fits : i <= j]

\* _script_play_recover_episode_info
ScriptEpisode(ask) ==
    LET item == ListItem(ask.title, ask.items) IN
    IF ask.type # "episode" \/ Numbered(ask) \/ item.show = "" THEN AskedFor(ask)
    ELSE [title |-> item.show, season |-> Or(ask.season, item.season),
          episode |-> Or(ask.episode, item.episode)]

\* _recover_episode_numbers: an item that contradicts a number of the call is not used.
StreamNzbEpisode(ask) ==
    LET item == ListItem(ask.title, ask.items) IN
    IF /\ ask.type = "episode" /\ ~Numbered(ask) /\ ask.title # "" /\ item.show = ask.title
       /\ ask.season \in {0, item.season} /\ ask.episode \in {0, item.episode}
    THEN [title |-> ask.title, season |-> item.season, episode |-> item.episode]
    ELSE AskedFor(ask)

\* _episode_info_from_infolabels: what is still missing, item by item.
PlayEpisode(ask) ==
    IF ask.type # "episode" THEN AskedFor(ask)
    ELSE FoldLeft(LAMBDA w, item :
                     IF Numbered(w) THEN w
                     ELSE [title |-> IF w.title = "" THEN item.show ELSE w.title,
                           season |-> Or(w.season, item.season),
                           episode |-> Or(w.episode, item.episode)],
                  AskedFor(ask), ask.items)

Identify ==
    /\ stage = "start" /\ call.path \in {"play", "search", "script"}
    /\ meant' = IF call.backend = "streamnzb" THEN StreamNzbEpisode(call.ask)
                ELSE CASE call.path = "play"   -> PlayEpisode(call.ask)
                       [] call.path = "script" -> ScriptEpisode(call.ask)
                       [] OTHER                -> AskedFor(call.ask)
    /\ Go(IF call.backend = "streamnzb" THEN "stream" ELSE "search")
    /\ IF call.backend = "streamnzb" /\ call.path = "search" THEN Answer("listed")
       ELSE UNCHANGED answers
    /\ UNCHANGED <<call, cached, found, offered, history, marks, picked, given, bookmark>>

-----------------------------------------------------------------------------
(* Searching and filtering.                                                *)

\* _dedupe_results_by_link: rows without a link are dropped too.
Sooner(d, e) == d[1] < e[1] \/ (d[1] = e[1] /\ d[2] < e[2])
Deduped(lists) ==
    LET all == UNION {{<<p, i>> : i \in DOMAIN lists[p]} : p \in DOMAIN lists}
        row(e) == lists[e[1]][e[2]]
        first == {e \in all : /\ row(e).link # ""
                              /\ \A d \in all : row(d).link = row(e).link => ~Sooner(d, e)}
    IN  Picked(InOrder(first, {e \in first \X first : Sooner(e[1], e[2])}),
               [e \in all |-> row(e)])

\* The plugin calls ask NZBHydra2 whatever its setting says.
Enabled == IF call.path = "script" THEN call.on ELSE call.on \cup {1}

\* _run_provider_jobs: each answers, or fails, on its own.
ProviderReplies == [Enabled -> Replies]

\* _search_all_providers: the answers are put together in the providers' order.
Collected(reply) ==
    LET all == Deduped([p \in {q \in Enabled : ~reply[q].failed} |-> reply[p].rows])
    IN  [rows |-> all,
         failed |-> Enabled = {} \/ (all = <<>> /\ \E p \in Enabled : reply[p].failed)]

Pack == call.packed /\ call.ask.type = "episode" /\ Numbered(meant)

Search ==
    /\ stage = "search" /\ Go("found")
    /\ \/ /\ call.path # "script" /\ cached # <<>>
          /\ found' = [rows |-> cached, failed |-> FALSE] /\ UNCHANGED cached
       \/ \E reply \in ProviderReplies :
             /\ found' = Collected(reply)
             /\ cached' = IF call.path # "script" /\ found'.rows # <<>> THEN found'.rows ELSE cached
    /\ UNCHANGED <<call, meant, offered, history, marks, picked, given, answers, bookmark>>

NothingFound ==
    /\ stage = "found" /\ ~Pack /\ found.rows = <<>>
    /\ Ends("failed")
    /\ UNCHANGED <<call, meant, cached, found, offered, history, marks, picked, given, bookmark>>

\* _sort_results, by the setting; the relevance of rows with the same tags is their size.
Orders == {"largest", "smallest", "newest", "oldest"}
Sorted(rows, order) ==
    LET key(i) == CASE order = "largest"  -> -rows[i].bytes
                    [] order = "smallest" -> rows[i].bytes
                    [] order = "newest"   -> -rows[i].posted
                    [] order = "oldest"   -> rows[i].posted
        before(i, j) == key(i) < key(j) \/ (key(i) = key(j) /\ i < j)
        pairs == {e \in (DOMAIN rows) \X (DOMAIN rows) : before(e[1], e[2])}
    IN  Picked(InOrder(DOMAIN rows, pairs), rows)

\* filter_results keeps what passes every filter, up to max_results; the pack goes first.
WithPack(rows) == IF Pack THEN <<PackRow>> \o rows ELSE rows
Shown(rows) == LET passing == Kept(rows, {i \in DOMAIN rows : rows[i].shown})
               IN  SubSeq(passing, 1, IF Len(passing) < MaxShown THEN Len(passing) ELSE MaxShown)

Filter ==
    /\ stage = "found" /\ (Pack \/ found.rows # <<>>)
    /\ \E order \in Orders : found' = [found EXCEPT !.rows = Sorted(@, order)]
    /\ offered' = WithPack(Shown(found'.rows))
    /\ Go(IF call.auto /\ offered' # <<>> THEN "auto" ELSE "mark")
    /\ UNCHANGED <<call, meant, cached, history, marks, picked, given, answers, bookmark>>

-----------------------------------------------------------------------------
(* What the backend has downloaded already.                                *)

\* The history as a map from names: nzbdav's later entries replace the earlier ones,
\* NZBGet's first one stays.
JobOf(h, name) ==
    LET of == {i \in DOMAIN h.jobs : h.jobs[i].name = name}
        best == CHOOSE i \in of : \A j \in of : IF call.backend = "nzbget" THEN i <= j ELSE j <= i
    IN  IF ~h.read \/ of = {} THEN NoJob ELSE h.jobs[best]

Larger(a, b) == IF a < b THEN b ELSE a
Apart(a, b) == IF a < b THEN b - a ELSE a - b
\* _completed_job_matches_result, _result_pubdate_consistent_with_downloads
SameUpload(r, job) ==
    /\ r.bytes > 0 /\ job.bytes > 0
          => 100 * Apart(r.bytes, job.bytes) <= Tolerance * Larger(r.bytes, job.bytes)
    /\ r.title \in DOMAIN call.ledger /\ call.ledger[r.title] # {} /\ r.posted # 0
          => \E t \in call.ledger[r.title] : Apart(r.posted, t) <= PostedWithin
Downloaded(h, r) == LET job == JobOf(h, r.title) IN
                    IF job # NoJob /\ SameUpload(r, job) THEN job ELSE NoJob

\* _tag_available: all rows found, those the picker hides too.  The script goes on
\* without marks when it fails.
MarkRows ==
    /\ stage = "mark" /\ Go("pick")
    /\ \E h \in Histories :
         LET asked == IF found.rows = <<>> THEN NotAsked ELSE h IN
         /\ history' = asked
         /\ marks' = [l \in {found.rows[i].link : i \in DOMAIN found.rows} |->
                        Downloaded(asked, CHOOSE r \in ToSet(found.rows) : r.link = l)]
    /\ UNCHANGED <<call, meant, cached, found, offered, picked, given, answers, bookmark>>

\* A wrong claim: a history that could not be read counts as looked up.
LookedUpAnyway == found.rows # <<>>

\* _completed_lookup_was_done: the read succeeded, or NZBGet is the backend.
LookedUp == found.rows # <<>> /\ (history.read \/ call.backend = "nzbget")

-----------------------------------------------------------------------------
(* Picking, and what the resolver is told.                                 *)

Peers(r, rows) == {i \in DOMAIN rows : rows[i].link # r.link /\ rows[i].content = r.content}

\* _same_name_backups
NamedAlike(r, rows) ==
    LET alike == Kept(rows, {i \in DOMAIN rows : rows[i].link # r.link /\ rows[i].title = r.title})
    IN  SubSeq(alike, 1, IF Len(alike) < MaxBackups THEN Len(alike) ELSE MaxBackups)

\* _fallback_candidate_loader_for_selection, and what the loader finds when the resolver
\* calls it: the pick, its first peer and the other rows; the uploads NZBHydra2 lists
\* (extra) come after them, and are not asked for when no row is a peer.
HasLoader(r, rows) == r # PackRow /\ (Len(rows) # 1 \/ call.hydra)
Pool(r, rows, extra) ==
    IF \/ ~HasLoader(r, rows)
       \/ Len(rows) # 1 /\ Peers(r, rows) = {}
       \/ Len(rows) = 1 /\ extra = <<>>
       \/ Len(rows) = 1 /\ rows[1] # r /\ Peers(r, rows \o extra) = {}
    THEN <<>>
    ELSE LET all == rows \o extra
             first == IF rows = <<r>> THEN extra[1]
                      ELSE all[CHOOSE i \in Peers(r, all) : \A j \in Peers(r, all) : i <= j]
         IN  <<r, first>> \o Kept(all, {i \in DOMAIN all : all[i] # r /\ all[i] # first})

\* _attach_nzbget_dupe: the backups are ranked below the pick, the best one first.
Dupes(r, rows) ==
    IF call.backend # "nzbget" \/ r = PackRow THEN <<>> ELSE NamedAlike(r, rows)

Given(r, job, looked, extra) ==
    LET rows == Kept(offered, {i \in DOMAIN offered : offered[i] # PackRow})
    IN  [told |-> TRUE, link |-> r.link, pack |-> r = PackRow, job |-> job, looked |-> looked,
         pool |-> Pool(r, rows, extra), dupes |-> Dupes(r, rows)]

HandTo(r, job, looked) ==
    /\ picked' = r /\ Go("resolve")
    /\ \E extra \in Extras : given' = Given(r, job, looked, IF call.hydra THEN extra ELSE <<>>)

\* The results dialog: its rows, and those the filters hide once it is switched to all.
Choosable == ToSet(offered) \cup ToSet(WithPack(found.rows))

\* The user picks one.  The script looks a release
\* up by its name when the marks could not be set.
Pick ==
    /\ stage = "pick"
    /\ \E r \in Choosable :
         LET marked == IF r = PackRow THEN NoJob ELSE marks[r.link]
             again == call.path = "script" /\ r # PackRow /\ marked = NoJob /\ ~LookedUp
         IN  \/ /\ ~again /\ HandTo(r, marked, marked = NoJob /\ LookedUp) /\ UNCHANGED history
             \/ /\ again
                /\ \E h \in Histories : history' = h /\ HandTo(r, Downloaded(h, r), FALSE)
    /\ UNCHANGED <<call, meant, cached, found, offered, marks, answers, bookmark>>

\* A dismissed picker that forgets the handle.
DismissSilently ==
    /\ stage = "pick" /\ Go("over")
    /\ UNCHANGED <<call, meant, cached, found, offered, history, marks, picked, given, answers, bookmark>>

Dismiss ==
    /\ stage = "pick" /\ Ends("failed")
    /\ UNCHANGED <<call, meant, cached, found, offered, history, marks, picked, given, bookmark>>

\* The first row is taken unseen.  NZBGet and the script look it up; the script then says
\* that the lookup was done even if it failed.
AutoSelect ==
    /\ stage = "auto"
    /\ LET r == Head(offered) IN
       \/ /\ call.backend = "nzbget" \/ call.path = "script"
          /\ r # PackRow
          /\ \E h \in Histories :
               /\ history' = h
               /\ HandTo(r, Downloaded(h, r), call.path = "script" /\ Downloaded(h, r) = NoJob)
       \/ /\ r = PackRow \/ (call.backend # "nzbget" /\ call.path # "script")
          /\ HandTo(r, NoJob, call.path = "script") /\ UNCHANGED history
    /\ UNCHANGED <<call, meant, cached, found, offered, marks, answers, bookmark>>

\* resolve answers the handle (Resolve.tla); after resolve_and_play a search listing is
\* closed as failed.
Resolved ==
    /\ stage = "resolve"
    /\ \E what \in {"played", "failed"} : Ends(IF call.path = "search" THEN "failed" ELSE what)
    /\ UNCHANGED <<call, meant, cached, found, offered, history, marks, picked, given, bookmark>>

-----------------------------------------------------------------------------
(* The other calls.                                                        *)

\* play_streamnzb: fetching and picking may come to nothing; then Kodi's resume point is
\* taken, and put into the store again unless the stream is handed over.
StreamNzb ==
    /\ stage = "stream" /\ Go("over")
    /\ \E come \in {"nothing", "cancelled", "played"} :
         /\ IF call.path = "play" THEN Answer(IF come = "played" THEN "played" ELSE "failed")
            ELSE UNCHANGED answers
         /\ bookmark' = CASE come = "nothing" -> bookmark
                          [] come = "cancelled" -> "kept"
                          [] come = "played" -> "used"
    /\ UNCHANGED <<call, meant, cached, found, offered, history, marks, picked, given>>

\* _handle_direct_play, _handle_main_menu, and the actions of _dispatch_action_route,
\* whose handle is answered when they are over.
OtherRoute ==
    /\ stage = "start" /\ call.path \in {"direct", "menu", "action"}
    /\ \E what \in CASE call.path = "direct" -> {"played", "failed"}
                     [] call.path = "menu"   -> {"listed"}
                     [] call.path = "action" -> {"failed"} : Ends(what)
    /\ UNCHANGED <<call, meant, cached, found, offered, history, marks, picked, given, bookmark>>

\* An exception that no handler catches: route answers the handle and raises it again.
Raise ==
    /\ stage \notin {"over", "stream"} /\ Ends("failed")
    /\ UNCHANGED <<call, meant, cached, found, offered, history, marks, picked, given, bookmark>>

RouteOver == stage = "over" /\ UNCHANGED routeVars

\* get_cached: a fresh entry of an earlier search, or nothing.
CachedRows == {<<>>} \cup {Deduped(<<reply.rows>>) : reply \in Replies}

RouteInit ==
    /\ call \in Calls
    /\ meant = AskedFor(call.ask) /\ stage = "start"
    /\ cached \in CachedRows
    /\ found = [rows |-> <<>>, failed |-> FALSE] /\ offered = <<>>
    /\ history = NotAsked /\ marks = <<>>
    /\ picked = PackRow /\ given = NotTold /\ answers = <<>> /\ bookmark = "kodi"

RouteNext ==
    \/ Identify \/ Search \/ NothingFound \/ Filter \/ MarkRows \/ Pick \/ Dismiss \/ AutoSelect
    \/ Resolved \/ StreamNzb \/ OtherRoute \/ Raise \/ RouteOver

-----------------------------------------------------------------------------
\* Every call that came with a handle answers it, and answers it once ("a bare return
\* from the route leaves Kodi waiting indefinitely", router.py:245-252), and the others
\* answer nothing.
HandleAnswered ==
    IF stage = "over" THEN Len(answers) = (IF HasHandle THEN 1 ELSE 0)
    ELSE Len(answers) <= 1

\* What the resolver is told is true of the row that was picked: the job it may play is
\* a download of that very upload; when it is told that the history has been looked up,
\* the history has been read and holds none (the script's auto-select apart); the backups
\* NZBGet gets are other uploads under its name; a peer of a row the picker offered is
\* not withheld from the fallbacks; and of a pack nothing of the kind is said.
ToldTheTruth ==
    given.told =>
        /\ given.link = picked.link
        /\ given.job # NoJob => /\ given.job \in ToSet(history.jobs) /\ given.job.name = picked.title
                                /\ SameUpload(picked, given.job)
        /\ given.looked /\ call.backend = "nzbdav" /\ picked # PackRow
             /\ ~(call.path = "script" /\ call.auto)
             => history.read /\ Downloaded(history, picked) = NoJob
        /\ \A i \in DOMAIN given.dupes :
              /\ given.dupes[i].title = picked.title /\ given.dupes[i].link # picked.link
              /\ \A j \in DOMAIN given.dupes : given.dupes[i].link = given.dupes[j].link => i = j
        /\ picked \in ToSet(offered) /\ picked # PackRow
             => \A r \in ToSet(offered) \ {picked, PackRow} :
                   r.content = picked.content => r \in ToSet(given.pool)
        /\ picked = PackRow => given.job = NoJob /\ given.dupes = <<>> /\ given.pool = <<>>

\* An episode whose number the call left out altogether is, for StreamNZB and the script,
\* the episode of one item Kodi shows, of the show asked for.
OneEpisode ==
    stage \notin {"start", "over"} /\ (call.path = "script" \/ call.backend = "streamnzb")
    /\ call.ask.season = 0 /\ call.ask.episode = 0
        => \/ meant.season = 0 /\ meant.episode = 0
           \/ \E item \in ToSet(call.ask.items) :
                 /\ item.season = meant.season /\ item.episode = meant.episode
                 /\ item.show = meant.title /\ call.ask.title \in {"", meant.title}
=============================================================================
