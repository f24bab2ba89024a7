------------------------------ MODULE MCDecisions ------------------------------
(***************************************************************************)
(* Five parts of the add-on that share no state, checked in one run: a     *)
(* behaviour begins by choosing one of them, and the others stand still.   *)
(***************************************************************************)
EXTENDS FolderScan, FallbackSelection, GapConceal, StreamTier, PlayRoute, TLC

VARIABLE topic
vars == <<topic, scanVars, selVars, concealVars, tierVars, routeVars>>

-----------------------------------------------------------------------------
(* The share: two subfolders that name the same third one.                 *)

MCKids == ("job" :> <<"a", "b">>) @@ ("a" :> <<"c">>) @@ ("b" :> <<"c">>) @@ ("c" :> <<>>)
Video(tag, bytes, words, aux) == [tag |-> tag, size |-> bytes, words |-> words, aux |-> aux]
MCListings ==
    {<<>>, <<Video("same", 3, 1, FALSE)>>, <<Video("other", 3, 1, FALSE)>>,
     <<Video("same", 1, 0, FALSE)>>,
     <<Video("none", 2, 1, FALSE), Video("same", 0, 1, TRUE)>>}

-----------------------------------------------------------------------------
(* A release to play and the candidates for it: the same files, other      *)
(* files of the same film, another film, and nzbs that cannot be had.      *)

Entry(kind, name, bytes, articles, healthy) ==
    [kind |-> kind, name |-> name, bytes |-> bytes, articles |-> articles, healthy |-> healthy]
Nzb(entries) == [fetch |-> "ok", files |-> entries]
NoNzb(why) == [fetch |-> why, files |-> {}]
Film(digest) == Nzb({Entry("video", "n", 100, {digest}, TRUE)})
Release(link, nzb, posted) ==
    [link |-> link, title |-> <<"dune">>, year |-> 2021, seasons |-> {}, episodes |-> {},
     part |-> 0, edition |-> "", flags |-> {}, group |-> "g", resolution |-> "uhd",
     codec |-> "", container |-> "", quality |-> "", hdr |-> {}, audio |-> {},
     channels |-> "", size |-> 100, nzb |-> nzb, posted |-> posted]
MCSelectable == {Release("s", Film("d0"), 10), Release("s", NoNzb("fetch_error"), 10)}
MCReleases ==
    {Release("a", Film("d1"), 0), Release("b", Film("d1"), 0), Release("c", NoNzb("fetch_error"), 0),
     Release("d", Film("d0"), 0),
     Release("e", Nzb({Entry("other", "", 85, {"d5"}, TRUE), Entry("other", "", 20, {"d7"}, TRUE)}), 30),
     [Release("f", NoNzb("invalid_xml"), 31) EXCEPT !.title = <<"dune", "web">>],
     Release("g", Nzb({Entry("archive", "x", 60, {"d8"}, TRUE),
                       Entry("archive", "x", 50, {"d9"}, FALSE)}), 0),
     [Release("h", Film("dx"), 0) EXCEPT !.title = <<"dune", "ii">>]}
MCPools == {p \in [1..3 -> MCReleases] : \A i, j \in 1..3 : i # j => p[i] # p[j]}

-----------------------------------------------------------------------------
(* A Matroska file whose clusters have sizes, and one whose have none.     *)

Box(id, from, pay, to) == [id |-> id, start |-> from, pay |-> pay, end |-> to]
Matroska(segmentEnd, firstEnd, secondEnd) ==
    [len |-> 31,
     elements |-> {Box("ebml", 0, 2, 3), Box("segment", 3, 5, segmentEnd), Box("info", 5, 7, 8),
                   Box("cluster", 8, 10, firstEnd), Box("timestamp", 10, 12, 13),
                   Box("simple", 13, 15, 17), Box("group", 17, 19, 22), Box("block", 19, 21, 22),
                   Box("cluster", 22, 24, secondEnd), Box("timestamp", 24, 26, 27),
                   Box("simple", 27, 29, 31)}]
MCFiles == {Matroska(31, 22, 31), Matroska(NoEnd, NoEnd, NoEnd)}
MCGaps == {18..22, {6}, {15, 16, 20}}

-----------------------------------------------------------------------------
(* Clips with their moov box last, first, after a free box, or too far.    *)

Part(type, offset, length) == [type |-> type, at |-> offset, size |-> length]
MCLayouts ==
    {<<Part("ftyp", 0, 2), Part("mdat", 2, 9), Part("moov", 11, 3)>>,
     <<Part("ftyp", 0, 2), Part("free", 2, 2), Part("mdat", 4, 3), Part("mdat", 7, 3),
       Part("moov", 10, 3)>>,
     <<Part("mdat", 0, 6), Part("moov", 6, 3), Part("free", 9, 1)>>,
     <<Part("ftyp", 0, 2), Part("moov", 2, 3), Part("mdat", 5, 6)>>,
     <<Part("ftyp", 0, 2), Part("free", 2, 1), Part("moov", 3, 3), Part("mdat", 6, 6)>>,
     <<Part("ftyp", 0, 2), Part("mdat", 2, 4), Part("free", 6, 5), Part("mdat", 11, 2),
       Part("moov", 13, 3)>>}
MCClips == [mp4 : {TRUE}, boxes : MCLayouts, wide : BOOLEAN]
           \cup {[mp4 |-> FALSE, boxes |-> <<Part("free", 0, 7)>>, wide |-> FALSE]}
MCTailProbes == <<4, 16>>

-----------------------------------------------------------------------------
(* Rows of two uploads with one name, of another name for the same film,   *)
(* and of another film; one without a link.                                *)

Row(link, title, content, bytes, posted, passes) ==
    [link |-> link, title |-> title, content |-> content, bytes |-> bytes, posted |-> posted,
     shown |-> passes]
RowA == Row("a", "n", "c", 100, 10, TRUE)
RowB == Row("b", "n", "c", 110, 50, TRUE)
RowC == Row("c", "o", "c", 0, 0, FALSE)
RowD == Row("d", "n", "x", 300, 10, FALSE)
Says(failed, rows) == [failed |-> failed, rows |-> rows]
MCReplies == {Says(TRUE, <<>>), Says(FALSE, <<>>), Says(FALSE, <<RowB, RowA>>), Says(FALSE, <<RowD>>),
              Says(FALSE, <<RowA, Row("", "n", "c", 100, 10, TRUE), RowC>>)}
Job(name, bytes) == [name |-> name, bytes |-> bytes]
MCHistories ==
    {[read |-> FALSE, jobs |-> <<>>], [read |-> TRUE, jobs |-> <<>>],
     [read |-> TRUE, jobs |-> <<Job("n", 105), Job("n", 290)>>],
     [read |-> TRUE, jobs |-> <<Job("o", 50), Job("n", 105)>>]}
MCExtras == {<<>>, <<Row("x", "n", "c", 100, 30, TRUE)>>}

Item(show, season, episode) == [show |-> show, season |-> season, episode |-> episode]
Asking(type, title, season, episode, items) ==
    [type |-> type, title |-> title, season |-> season, episode |-> episode, items |-> items]
Asks == {Asking("movie", "m", 0, 0, <<Item("s", 1, 2)>>),
         Asking("episode", "s", 0, 0, <<Item("z", 1, 1), Item("s", 1, 2)>>),
         Asking("episode", "s", 2, 0, <<Item("z", 1, 1), Item("s", 1, 2)>>),
         Asking("episode", "", 0, 0, <<Item("s", 3, 0), Item("z", 1, 1)>>)}
Movie == Asking("movie", "m", 0, 0, <<>>)
Episode == Asking("episode", "s", 2, 1, <<>>)
Invoke(path, handle, backend, auto, hydra, on, packed, ask, ledger) ==
    [path |-> path, handle |-> handle, backend |-> backend, auto |-> auto, hydra |-> hydra,
     on |-> on, packed |-> packed, ask |-> ask, ledger |-> ledger]
Searching == {"play", "search", "script"}
Downloaders == {"nzbdav", "nzbget"}
MCCalls ==
    {Invoke(p, TRUE, b, a, h, {2}, FALSE, Movie, l) :
        p \in Searching, b \in Downloaders, a, h \in BOOLEAN, l \in {<<>>, "n" :> {12}}}
    \cup {Invoke(p, TRUE, b, a, TRUE, {}, TRUE, Episode, <<>>) :
        p \in Searching, b \in Downloaders, a \in BOOLEAN}
    \cup {Invoke(p, TRUE, b, FALSE, FALSE, {}, FALSE, ask, <<>>) :
        p \in Searching, b \in {"nzbdav", "streamnzb"}, ask \in Asks}
    \cup {Invoke(p, h, "nzbdav", FALSE, FALSE, {}, FALSE, Movie, <<>>) :
        p \in {"direct", "menu", "action"}, h \in BOOLEAN}
MCProviders == 1..2

-----------------------------------------------------------------------------
NoScan == tree = 0 /\ floor = 0 /\ want = 0 /\ phase = 0 /\ scan = 0 /\ own = 0 /\ nextKid = 0 /\ queue = 0 /\ sib = 0 /\ result = 0 /\ visited = 0 /\ hints = 0 /\ unread = 0
NoSel == selected = 0 /\ peers = 0 /\ cap = 0 /\ step = 0 /\ taken = 0 /\ exhausted = 0 /\ inFlight = 0 /\ arrived = 0 /\ selectedReady = 0 /\ canMatch = 0 /\ completed = 0 /\ consumed = 0 /\ nextToAttach = 0 /\ attached = 0 /\ misses = 0 /\ settling = 0
NoConceal == file = 0 /\ missing = 0 /\ store = 0 /\ container = 0 /\ rq = 0
NoTier == clip = 0 /\ size = 0 /\ fallbacks = 0 /\ force = 0 /\ ffmpeg = 0 /\ tier = 0 /\ reply = 0
NoRoute == call = 0 /\ meant = 0 /\ stage = 0 /\ cached = 0 /\ found = 0 /\ offered = 0 /\ history = 0 /\ marks = 0 /\ picked = 0 /\ given = 0 /\ answers = 0 /\ bookmark = 0

Init ==
    \/ topic = "scan" /\ ScanInit /\ NoSel /\ NoConceal /\ NoTier /\ NoRoute
    \/ topic = "select" /\ SelInit /\ NoScan /\ NoConceal /\ NoTier /\ NoRoute
    \/ topic = "conceal" /\ ConcealInit /\ NoScan /\ NoSel /\ NoTier /\ NoRoute
    \/ topic = "tier" /\ TierInit /\ NoScan /\ NoSel /\ NoConceal /\ NoRoute
    \/ topic = "route" /\ RouteInit /\ NoScan /\ NoSel /\ NoConceal /\ NoTier

Next ==
    \/ topic = "scan" /\ ScanNext /\ UNCHANGED <<topic, selVars, concealVars, tierVars, routeVars>>
    \/ topic = "select" /\ SelNext /\ UNCHANGED <<topic, scanVars, concealVars, tierVars, routeVars>>
    \/ topic = "conceal" /\ ConcealNext /\ UNCHANGED <<topic, scanVars, selVars, tierVars, routeVars>>
    \/ topic = "tier" /\ TierNext /\ UNCHANGED <<topic, scanVars, selVars, concealVars, routeVars>>
    \/ topic = "route" /\ RouteNext /\ UNCHANGED <<topic, scanVars, selVars, concealVars, tierVars>>

-----------------------------------------------------------------------------
\* FolderScan, find_video_stream_for_folder (webdav.py): whatever the order of its threads,
\* the scan of a share that holds the wanted episode gives that episode.
FindsEpisode == topic = "scan" => EpisodeFound
\* FallbackSelection, the streaming selection of backups (fallback_streams_select_streaming.py):
\* the release and its backups are all different postings of the same content.
PeersDiffer == topic = "select" => BackupsDiffer
\* FallbackSelection: a search that ends with room left has looked at every candidate.
NonePassedOver == topic = "select" => NoneForgotten
\* GapConceal, the plans a session stores (stream_proxy_handler_conceal.py): a range asked
\* for again gets the bytes the first answer had, where something was lost.
SameRepair == [][topic = "conceal" => SameStep]_vars
\* GapConceal, the filler of ebml_conceal_plan.py: the file stays well formed to its player.
Readable == topic = "conceal" => RepairedIsReadable
\* StreamTier, the MP4 whose moov box is moved (mp4_parser.py, stream_proxy_handler_serve.py):
\* the player finds each chunk where the moved box says.
ReachesChunks == topic = "tier" => ChunksFound
\* PlayRoute, route (router.py): the handle Kodi gave is answered exactly once.
AnswersHandle == topic = "route" => HandleAnswered
\* PlayRoute, the parameters of the resolver (router_play.py, router_scriptplay.py): what they
\* say of downloads, backups and fallbacks is true of the row that was picked.
TellsTheTruth == topic = "route" => ToldTheTruth
\* PlayRoute, the recovered episode (router_scriptplay.py, streamnzb_player.py): it is one
\* that Kodi shows, of the show asked for.
RecoversOne == topic = "route" => OneEpisode
=============================================================================
