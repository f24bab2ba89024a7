------------------------------ MODULE StreamTier ------------------------------
(***************************************************************************)
(* How the proxy decides to serve a stream (stream_proxy_mgr_context.py)   *)
(* and how an MP4 whose moov box comes last is served as if it came first  *)
(* (mp4_parser.py, stream_proxy_handler_serve.py): the box is located by a *)
(* few range reads, its chunk offsets are moved by its length, and the     *)
(* virtual file is the ftyp box, the moov box and the bytes in between.    *)
(*                                                                         *)
(* A clip is its boxes in order, [type, at, size] with headers of one unit *)
(* at their offsets; each mdat that holds any media begins with a chunk    *)
(* the moov box points to.                                                 *)
(* A byte served is <<"ftyp", i>>, <<"moov", i>> or <<"file", offset>>.    *)
(***************************************************************************)
EXTENDS Integers, Sequences, FiniteSets, SequencesExt

CONSTANTS
    Clips,      \* records [mp4, boxes, wide] (wide: 64-bit chunk offsets)
    HeadProbe,  \* _HEAD_PROBE_SIZE
    TailProbes, \* the sizes from _TAIL_PROBE_SIZE to _TAIL_PROBE_MAX
    MoovMax,    \* _MAX_MOOV_SIZE
    StcoMax,    \* _MAX_STCO_OFFSET
    TempMax,    \* _TEMP_FASTSTART_MAX
    Thresholds  \* force_remux_threshold_mb, in units (0: never)

ASSUME TierAssumption ==
    /\ HeadProbe \in Nat \ {0} /\ MoovMax \in Nat /\ StcoMax \in Nat /\ TempMax \in Nat
    /\ \A i \in DOMAIN TailProbes : TailProbes[i] \in Nat
    /\ Thresholds \subseteq Nat
    /\ \A c \in Clips : /\ c.boxes \in Seq([type : STRING, at : Nat, size : Nat \ {0}])
                        /\ c.boxes # <<>> /\ c.boxes[1].at = 0
                        /\ \A i \in 2..Len(c.boxes) :
                              c.boxes[i].at = c.boxes[i - 1].at + c.boxes[i - 1].size

VARIABLES
    clip, size,     \* what the url serves; its length, or 0 when it cannot be learnt
    fallbacks,      \* the stream has live fallbacks
    force,          \* [mode, threshold] of the settings
    ffmpeg,         \* its capabilities: "none", "plain" or "fmp4"
    tier,           \* the context prepare_stream builds
    reply           \* the answer to a GET of it

tierVars == <<clip, size, fallbacks, force, ffmpeg, tier, reply>>

-----------------------------------------------------------------------------
(* The boxes of the file.                                                  *)

Boxes == clip.boxes
Offset(i) == Boxes[i].at
End(i) == Offset(i) + Boxes[i].size
FileLen == End(Len(Boxes))
BoxesAt(o) == {i \in DOMAIN Boxes : Offset(i) = o}
Chunks == {Offset(i) + 1 : i \in {j \in DOMAIN Boxes : Boxes[j].type = "mdat" /\ Boxes[j].size > 1}}

\* scan_top_level_boxes over the bytes [lo, hi): nothing is recognised when lo is inside
\* a box, and of two boxes of a type the later one counts.
Scanned(lo, hi) == IF BoxesAt(lo) = {} THEN {} ELSE {i \in DOMAIN Boxes : Offset(i) \in lo..(hi - 1)}
Found(boxes, type) ==
    LET of == {i \in boxes : Boxes[i].type = type}
    IN  IF of = {} THEN 0 ELSE CHOOSE i \in of : \A j \in of : j <= i

HeadBoxes == Scanned(0, IF HeadProbe < FileLen THEN HeadProbe ELSE FileLen)
Ftyp == Found(HeadBoxes, "ftyp")
Mdat == Found(HeadBoxes, "mdat")
FtypEnd == IF Ftyp = 0 THEN 0 ELSE End(Ftyp)
FtypLen == IF Ftyp = 0 \/ FtypEnd > HeadProbe THEN 0 ELSE Boxes[Ftyp].size

\* _find_moov_after_mdat, else _find_moov_by_tail_probe
MoovAfterMdat == IF Mdat = 0 THEN 0 ELSE Found(BoxesAt(End(Mdat)), "moov")
MoovInTail ==
    LET lo(k) == IF TailProbes[k] < FileLen THEN FileLen - TailProbes[k] ELSE 0
        hits == {k \in DOMAIN TailProbes : Found(Scanned(lo(k), FileLen), "moov") # 0}
        first == CHOOSE k \in hits : \A j \in hits : k <= j
    IN  IF hits = {} THEN 0 ELSE Found(Scanned(lo(first), FileLen), "moov")

\* fetch_remote_mp4_layout: 0 for no layout, else the moov box.
FrontMoov == Found(HeadBoxes, "moov") # 0 /\ Mdat # 0 /\ Found(HeadBoxes, "moov") < Mdat
MoovBox ==
    IF FrontMoov
    THEN IF Offset(Found(HeadBoxes, "moov")) = FtypEnd THEN Found(HeadBoxes, "moov") ELSE 0
    ELSE IF MoovAfterMdat # 0 THEN MoovAfterMdat ELSE MoovInTail

\* _fetch_and_validate_moov: the box is read whole.
Fetchable(i) == Boxes[i].size <= MoovMax

\* build_faststart_layout, rewrite_moov_offsets
Delta == Boxes[MoovBox].size
Overflows == ~clip.wide /\ \E o \in Chunks : o + Delta > StcoMax
\* A wrong layout: the payload begins with the ftyp box, which is sent before it too.
LayoutFromStart == [ftyp |-> FtypLen, moov |-> Delta, from |-> 0, to |-> Offset(MoovBox)]

Layout == [ftyp |-> FtypLen, moov |-> Delta, from |-> FtypEnd, to |-> Offset(MoovBox)]
VirtualSize(l) == l.ftyp + l.moov + (l.to - l.from)

-----------------------------------------------------------------------------
(* The tiers.                                                              *)

Ctx(mode, length, seekable) == [mode |-> mode, length |-> length, seekable |-> seekable]
Build(ctx) == tier.mode = "new" /\ tier' = ctx
              /\ UNCHANGED <<clip, size, fallbacks, force, ffmpeg, reply>>

TierInit ==
    /\ clip \in Clips /\ size \in {0, FileLen}
    /\ fallbacks \in BOOLEAN
    /\ force \in [mode : {"passthrough", "matroska", "hls_fmp4"}, threshold : Thresholds]
    /\ ffmpeg \in {"none", "plain", "fmp4"}
    /\ tier = Ctx("new", 0, FALSE) /\ reply = [asked |-> FALSE]

\* _build_ctx_fallback
BuildFallback ==
    /\ fallbacks
    /\ Build(IF size = 0 THEN Ctx("error", 0, FALSE) ELSE Ctx("proxy", size, TRUE))

\* _build_ctx_mp4, by the layout; any of its range reads may fail instead.
HasLayout == size # 0 /\ MoovBox # 0 /\ Fetchable(MoovBox) /\ (FrontMoov \/ ~Overflows)
BuildFromLayout ==
    /\ clip.mp4 /\ ~fallbacks /\ HasLayout
    /\ Build(IF FrontMoov THEN Ctx("proxy", size, TRUE)
             ELSE [mode |-> "faststart", length |-> VirtualSize(Layout), seekable |-> TRUE,
                   layout |-> Layout])

\* _probe_duration: ffprobe's answer, or else ffmpeg's, or none.
DurationKnown == BOOLEAN
\* _dv_route_allows_fmp4: the source is no Dolby Vision, or is profile 7 MEL.
Fmp4Safe == BOOLEAN
\* _prepare_tempfile_faststart: what may be written to a temporary file, unless ffmpeg fails.
TempFits == ffmpeg # "none" /\ size \in 1..TempMax

\* _build_ctx_mp4_tempfile_or_remux: ffmpeg may write a temporary file, or else remux.
BuildWithoutLayout ==
    /\ clip.mp4 /\ ~fallbacks
    /\ \/ /\ TempFits
          /\ Build(Ctx("temp", size, TRUE))
       \/ /\ ffmpeg # "none"
          /\ \E duration \in DurationKnown : Build(Ctx("remux", size, duration /\ size > 0))
       \/ /\ ffmpeg = "none"
          /\ Build(IF size = 0 THEN Ctx("error", 0, FALSE) ELSE Ctx("proxy", size, FALSE))

\* _decide_force_remux, _build_ctx_default, _build_ctx_default_remux: fMP4 over HLS only for
\* a known duration and a source that is no Dolby Vision but profile 7 MEL.
NeedsRemux == force.threshold > 0 /\ force.mode # "passthrough"
              /\ (size = 0 \/ size >= force.threshold)
BuildDefault ==
    /\ ~clip.mp4 /\ ~fallbacks
    /\ \/ /\ NeedsRemux /\ ffmpeg # "none"
          /\ \E duration \in DurationKnown, fmp4Safe \in Fmp4Safe :
                Build(IF force.mode = "hls_fmp4" /\ ffmpeg = "fmp4" /\ duration /\ fmp4Safe
                      THEN Ctx("hls", size, TRUE)
                      ELSE Ctx("remux", size, duration /\ size > 0))
       \/ /\ NeedsRemux /\ ffmpeg = "none" /\ size = 0 /\ Build(Ctx("error", 0, FALSE))
       \/ /\ ~NeedsRemux \/ (ffmpeg = "none" /\ size > 0)
          /\ Build(Ctx("proxy", size, FALSE))

-----------------------------------------------------------------------------
(* A GET of the virtual file.                                              *)

HeaderByte(p) == IF p < tier.layout.ftyp THEN <<"ftyp", p>> ELSE <<"moov", p - tier.layout.ftyp>>

\* _parse_range: the bytes a Range header asks for, or none (416).
Bounded(a, b) == IF a < tier.length /\ b >= a
                 THEN <<a, IF b < tier.length THEN b ELSE tier.length - 1>> ELSE <<>>
Suffix(n) == IF n \in 1..tier.length THEN <<tier.length - n, tier.length - 1>> ELSE <<>>

\* _serve_mp4_faststart, _faststart_write_header, _faststart_stream_payload: the rest of
\* the header, then one read of the payload.
Served(range) ==
    LET a == range[1]  b == range[2]
        header == tier.layout.ftyp + tier.layout.moov
        payload == tier.layout.to - tier.layout.from
        inHeader == IF a >= header THEN 0
                    ELSE IF b < header THEN b + 1 - a ELSE header - a
        from == tier.layout.from + (a + inHeader - header)
        left == b + 1 - a - inHeader
        to == IF tier.layout.to < from + left THEN tier.layout.to ELSE from + left
        read == IF a + inHeader < header + payload THEN to - from ELSE 0
    IN  [k \in 1..(inHeader + read) |->
            IF k <= inHeader THEN HeaderByte(a + k - 1) ELSE <<"file", from + (k - inHeader - 1)>>]

Ranges == {Bounded(a, b) : a, b \in 0..tier.length} \cup {Suffix(n) : n \in 0..tier.length}
RangeReply(range) == IF range = <<>> THEN [asked |-> TRUE, status |-> 416]
                 ELSE [asked |-> TRUE, status |-> 206, first |-> range[1], last |-> range[2],
                       bytes |-> Served(range)]
Get ==
    /\ tier.mode = "faststart" /\ ~reply.asked
    /\ \E range \in Ranges : reply' = RangeReply(range)
    /\ UNCHANGED <<clip, size, fallbacks, force, ffmpeg, tier>>

TierServed == tier.mode # "new" /\ (reply.asked \/ tier.mode # "faststart")
              /\ UNCHANGED tierVars

TierNext == \/ BuildFallback \/ BuildFromLayout \/ BuildWithoutLayout \/ BuildDefault
            \/ Get \/ TierServed

-----------------------------------------------------------------------------
\* The files the repair is for: the ftyp box, if any, comes first and the moov box after
\* all the media.
MoovLast == /\ \A i \in DOMAIN Boxes : Boxes[i].type = "ftyp" => i = 1
            /\ \A i, j \in DOMAIN Boxes :
                  Boxes[i].type = "mdat" /\ Boxes[j].type = "moov" => i < j

\* A player that reads the moov box of the virtual file and asks for the bytes of a chunk
\* gets the bytes the original moov box pointed to, in whatever ranges it asks, each of
\* the length its Content-Range promises; and no part of the moov box is out of place.
ChunksFound ==
    tier.mode = "faststart" /\ MoovLast /\ reply.asked /\ reply.status = 206 =>
        LET l == tier.layout  moved(o) == o + l.moov IN
        /\ Len(reply.bytes) = reply.last + 1 - reply.first
        /\ \A o \in Chunks : moved(o) < tier.length
        /\ \A k \in DOMAIN reply.bytes :
             LET at == reply.first + k - 1 IN
             /\ \A o \in Chunks : at = moved(o) => reply.bytes[k] = <<"file", o>>
             /\ at \in l.ftyp..(l.ftyp + l.moov - 1) => reply.bytes[k] = <<"moov", at - l.ftyp>>
=============================================================================
