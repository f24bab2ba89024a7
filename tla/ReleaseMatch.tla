----------------------------- MODULE ReleaseMatch -----------------------------
(***************************************************************************)
(* Which search results may stand in for a selected release as live        *)
(* fallbacks, and in which order (fallback_streams_identity.py,            *)
(* fallback_streams_match.py, fallback_streams_attach.py): the content     *)
(* gate, the metadata profile, the size gate, the manifest of the NZB      *)
(* (nzb_manifest.py) and the ranking.                                      *)
(*                                                                         *)
(* A release is a record.  title is the sequence of its normalised title   *)
(* words; a number of 0, a string "" and an empty set say the title        *)
(* carries no such tag.  nzb is what its link serves: how the fetch went   *)
(* and the files the NZB lists, each with its kind, the archive it belongs *)
(* to, its bytes, its articles and whether every article id is well formed.*)
(***************************************************************************)
EXTENDS Ordering, SequencesExt

CONSTANTS
    StopTokens,     \* _TITLE_STOP_TOKENS
    SequelTokens,   \* _SEQUEL_TAIL_TOKENS and the numbers
    SyntheticMin,   \* _INDEXER_SIZE_SYNTHETIC_MIN_BYTES
    SamePostWindow, \* _SAME_POST_WINDOW_SECONDS
    SplitMinFiles   \* _SPLIT_PAYLOAD_MIN_FILE_COUNT

ASSUME MatchAssumption ==
    SyntheticMin \in Nat /\ SamePostWindow \in Nat /\ SplitMinFiles \in Nat

Abs(x) == IF x < 0 THEN -x ELSE x
Articles(files) == UNION {f.articles : f \in files}
\* Sizes and dates are numbers, and an NZB lists finitely many files and articles.
IsRelease(r) ==
    /\ r.size \in Int /\ r.posted \in Int
    /\ IsFiniteSet(r.nzb.files) /\ \A f \in r.nzb.files : f.bytes \in Nat
    /\ IsFiniteSet(Articles(r.nzb.files))
Words(r) == {r.title[i] : i \in DOMAIN r.title}
Agree(a, b) == a = "" \/ b = "" \/ a = b    \* a tag either side lacks settles nothing

-----------------------------------------------------------------------------
(* The content gate (_same_content).                                       *)

\* _title_token_sets_look_related
LookRelated(a, b) ==
    a = {} \/ b = {} \/
    Cardinality(a \cap b) >= (IF Cardinality(a) <= 2 \/ Cardinality(b) <= 2 THEN 1 ELSE 2)

Corroborated(p, c) ==
    \/ p.year # 0 /\ p.year = c.year
    \/ /\ p.seasons # {} /\ p.seasons = c.seasons
       /\ p.episodes # {} /\ p.episodes = c.episodes

\* One title inside the other: only as its prefix, with one more word at most, and never
\* the number of a sequel.
SubsetRelated(p, c) ==
    LET short == IF Words(p) \subseteq Words(c) THEN p.title ELSE c.title
        long  == IF Words(p) \subseteq Words(c) THEN c.title ELSE p.title
    IN  /\ Len(short) <= Len(long) /\ SubSeq(long, 1, Len(short)) = short
        /\ Len(long) - Len(short) <= 1
        /\ ~(Len(long) = Len(short) + 1 /\ Last(long) \in SequelTokens)

TitlesCoreRelated(p, c) ==
    LET a == Words(p)  b == Words(c)  sure == Corroborated(p, c)
    IN  IF a = {} \/ b = {} THEN sure
        ELSE \/ a = b
             \/ a # b /\ (a \subseteq b \/ b \subseteq a) /\ (sure \/ SubsetRelated(p, c))
             \/ /\ ~(a \subseteq b \/ b \subseteq a)
                /\ sure \/ (Cardinality(a \ b) < 2 /\ Cardinality(b \ a) < 2)
                /\ LookRelated(a, b)

\* edition and PROPER/REPACK/upscaled tags
SameCut(p, c) == p.edition = c.edition /\ p.flags = c.flags

SameSet(a, b) == a = b
YearsAgree(p, c) == p.year = 0 \/ c.year = 0 \/ p.year = c.year

SameContent(p, c) ==
    LET phantom == /\ p.episodes = {} /\ c.episodes = {} /\ (p.seasons = {}) # (c.seasons = {})
                   /\ p.year # 0 /\ p.year = c.year
        ps == IF phantom THEN {} ELSE p.seasons     \* _collapse_phantom_season
        cs == IF phantom THEN {} ELSE c.seasons
        episodic == ps # {} \/ cs # {} \/ p.episodes # {} \/ c.episodes # {}
    IN  /\ SameCut(p, c) /\ TitlesCoreRelated(p, c)
        /\ ~(p.part # 0 /\ c.part # 0 /\ p.part # c.part)
        /\ YearsAgree(p, c)
        /\ IF episodic THEN SameSet(ps, cs) /\ SameSet(p.episodes, c.episodes)
           ELSE (p.part = 0) = (c.part = 0)

-----------------------------------------------------------------------------
(* Metadata, size and manifest.                                            *)

SameGroupAndResolution(p, c) ==
    p.group # "" /\ p.group = c.group /\ p.resolution # "" /\ p.resolution = c.resolution

ProfilesMatch(p, c) ==
    /\ SameGroupAndResolution(p, c)
    /\ Agree(p.codec, c.codec) /\ Agree(p.container, c.container) /\ Agree(p.quality, c.quality)
    /\ SameCut(p, c)
    /\ p.hdr = c.hdr
    /\ p.audio = {} \/ c.audio = {} \/ p.audio \cap c.audio # {}
    /\ Agree(p.channels, c.channels)

\* _prefetch_size_gate_match: indexer sizes within a quarter
SizeGate(p, c) == p.size <= 0 \/ c.size <= 0 \/ 4 * Abs(p.size - c.size) <= p.size

\* _prefetch_candidate_matches, first_prefetchable_fallback_peer
Prefetchable(p, c) ==
    /\ c # p /\ c.link # "" /\ c.link # p.link
    /\ SizeGate(p, c)
    /\ LookRelated(Words(p) \ StopTokens, Words(c) \ StopTokens)
    /\ ProfilesMatch(p, c) /\ SameContent(p, c)

\* The manifest of an NZB: its largest video whose articles look healthy, or else an
\* archive set, or else the one nameless blob that makes up nearly all of the posting, or
\* else a posting split evenly over many nameless files.
Empty(reason) == [kind |-> "", name |-> "", bytes |-> 0, digest |-> {}, reason |-> reason]
Bytes(files) == MapThenSumSet(LAMBDA f : f.bytes, files)
Group(kind, name, files) ==
    [kind |-> kind, name |-> name, bytes |-> Bytes(files), digest |-> Articles(files), reason |-> ""]

\* _find_video_name, _find_archive_base: what the subject of a file shows it to be.
OfKind(files, kind) == {f \in files : f.kind = kind}
Healthy(files) == \A f \in files : f.healthy

\* _archive_candidates: the files of one archive, by its name.
ArchiveSets(files) ==
    LET archives == OfKind(files, "archive")
    IN  {{f \in archives : f.name = n} : n \in {f.name : f \in archives}}

\* _dominant_blob_video_candidates, _split_payload_video_candidates
Nameless(files) ==
    LET payload == OfKind(files, "other")
        blobs == {f \in payload : 5 * f.bytes >= 4 * Bytes(payload) /\ f.bytes >= SyntheticMin}
        split == /\ Cardinality(payload) >= SplitMinFiles /\ Bytes(payload) >= SyntheticMin
                 /\ \A f, g \in payload : f.bytes <= 5 * g.bytes
    IN  IF blobs # {} THEN blobs ELSE IF split THEN payload ELSE {}

\* _select_healthy_candidate: the largest, and of equals the one with most articles.
BestVideo(videos) ==
    CHOOSE f \in videos : \A g \in videos :
        f.bytes > g.bytes
        \/ (f.bytes = g.bytes /\ Cardinality(f.articles) >= Cardinality(g.articles))

Extract(files) ==
    LET videos   == {f \in OfKind(files, "video") : f.healthy}
        sets     == ArchiveSets(files)
        goodSets == {a \in sets : Healthy(a)}
        nameless == Nameless(files)
        failed   == IF OfKind(files, "video") \cup UNION sets \cup nameless = {}
                    THEN "no_video_file" ELSE "all_candidate_files_failed_health_check"
    IN  IF videos # {} THEN Group("video", BestVideo(videos).name, {BestVideo(videos)})
        ELSE IF sets # {}
        THEN IF goodSets = {} THEN Empty(failed)
             ELSE LET a == CHOOSE x \in goodSets : \A y \in goodSets :
                              Cardinality(Articles(x)) >= Cardinality(Articles(y))
                  IN  Group("archive", (CHOOSE f \in a : TRUE).name, a)
        ELSE IF nameless # {} /\ Healthy(nameless) THEN Group("video", "", nameless)
        ELSE Empty(failed)

\* _manifest_with_indexer_size_fallback: an NZB whose video is not recognised counts with
\* the size the indexer gave it, under a digest of its link.
Synthetic(m, r) ==
    IF m.reason \in {"invalid_xml", "no_video_file"} /\ r.size >= SyntheticMin
    THEN [kind |-> "video", name |-> "", bytes |-> r.size, digest |-> {r.link}, reason |-> ""]
    ELSE m
Manifest(r) ==
    Synthetic(IF r.nzb.fetch = "ok" THEN Extract(r.nzb.files) ELSE Empty(r.nzb.fetch), r)

GroupKeyed(m) == /\ m.kind # "" /\ m.name # "" /\ m.digest # {}
                 /\ m.kind = "archive" \/ (m.kind = "video" /\ m.bytes > 0)
SameGroup(a, b) == /\ GroupKeyed(a) /\ GroupKeyed(b) /\ a.kind = b.kind /\ a.name = b.name
                   /\ a.kind = "video" => a.bytes = b.bytes
MetadataOnly(a, b) == /\ a.reason # "" \/ b.reason # ""
                      /\ a.reason \in {"", "too_large"} /\ b.reason \in {"", "too_large"}
BytesWithinTenth(a, b) == a.bytes > 0 /\ b.bytes > 0 /\ 10 * Abs(a.bytes - b.bytes) <= a.bytes

\* _fallback_manifest_peer_matches
PeerMatches(a, b) ==
    \/ SameGroup(a, b) \/ MetadataOnly(a, b)
    \/ (a.kind # "" /\ b.kind # "" /\ BytesWithinTenth(a, b))
ManifestFits(p, c) == PeerMatches(Manifest(p), Manifest(c))

\* _manifest_may_match_any_peer
MayMatch(m) == GroupKeyed(m) \/ m.reason = "too_large" \/ m.kind # ""
MayMatchAny(r) == MayMatch(Manifest(r))

-----------------------------------------------------------------------------
(* The ranking (_release_similarity, _rank_fallback_candidates).           *)

ReleaseSize(m, r) == IF m.bytes > 0 THEN m.bytes ELSE r.size
SizeWithin(a, b) == a <= 0 \/ b <= 0 \/ 100 * Abs(a - b) <= 3 * a
Tier(p, c, a, b) ==
    LET res == p.resolution # "" /\ p.resolution = c.resolution
        cod == p.codec # "" /\ p.codec = c.codec
    IN  IF ~SameContent(p, c) THEN 3
        ELSE IF res /\ cod
        THEN (IF p.group # "" /\ p.group = c.group /\ SizeWithin(a, b) THEN 0 ELSE 1)
        ELSE IF res THEN 2 ELSE 3
SameVideoName(m, n) == m.name # "" /\ m.kind = "video" /\ n.name = m.name /\ n.kind = "video"
KeyOf(p, c, m, n, a, b) ==
    <<IF SameVideoName(m, n) THEN 0 ELSE 1, Tier(p, c, a, b), IF a > 0 THEN Abs(a - b) ELSE 0>>
RankKey(p, c) == KeyOf(p, c, Manifest(p), Manifest(c),
                       ReleaseSize(Manifest(p), p), ReleaseSize(Manifest(c), c))
Before(a, b) == \E i \in DOMAIN a : a[i] < b[i] /\ \A j \in 1..(i - 1) : a[j] = b[j]
Precedes(a, i, b, j) == Before(a, b) \/ (a = b /\ i < j)

\* _dedupe_candidates_by_pubdate: posts within the window of a cluster's earliest member
\* are one upload, and the best of them stays; the primary's own upload goes.
Anchors(order, cands) ==
    LET anchor[k \in DOMAIN order] ==
            IF k = 1 THEN order[1]
            ELSE IF cands[order[k]].posted - cands[anchor[k - 1]].posted > SamePostWindow
                 THEN order[k] ELSE anchor[k - 1]
    IN  [i \in Range(order) |-> anchor[CHOOSE k \in DOMAIN order : order[k] = i]]

Earlier(i, j, cands) == \/ cands[i].posted < cands[j].posted
                        \/ cands[i].posted = cands[j].posted /\ i < j
AnchorOf(dated, cands) ==
    Anchors(InOrder(dated, {e \in dated \X dated : Earlier(e[1], e[2], cands)}), cands)

Ranked(p, cands) ==
    LET better(i, j) == Precedes(RankKey(p, cands[i]), i, RankKey(p, cands[j]), j)
        undated == {i \in DOMAIN cands : cands[i].posted = 0}
        dated == {i \in DOMAIN cands \ undated :
                     p.posted = 0 \/ Abs(cands[i].posted - p.posted) > SamePostWindow}
        anchor == AnchorOf(dated, cands)
        kept == {i \in dated : \A j \in dated : anchor[j] = anchor[i] => j = i \/ better(i, j)}
        in == undated \cup kept
    IN  Picked(InOrder(in, {e \in in \X in : better(e[1], e[2])}), cands)
=============================================================================
