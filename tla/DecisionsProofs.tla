----------------------------- MODULE DecisionsProofs -----------------------------
(***************************************************************************)
(* Proofs about PlayRoute, StreamTier, FallbackSelection and FolderScan,   *)
(* for every value of their constants.  Each is a topic of MCDecisions,    *)
(* whose behaviours choose one and stay with it: the theorems are of       *)
(* MCDecisions' Init and Next.                                             *)
(***************************************************************************)
EXTENDS MCDecisions, TLAPS, WellFoundedInduction, SequenceTheorems, FiniteSetTheorems

-----------------------------------------------------------------------------
(* PlayRoute.  What a call has answered follows from the stage it is at;   *)
(* only play_streamnzb is reached with an answer given.                    *)

Answers == {"played", "failed", "listed"}
Due == IF HasHandle THEN 1 ELSE 0

AnsweredSoFar ==
  /\ answers \in Seq(Answers)
  /\ Len(answers) = IF stage = "over" \/ (stage = "stream" /\ call.path = "search")
                    THEN Due ELSE 0
  /\ stage = "stream" => call.path \in {"play", "search", "script"}

\* An ending step answers a call that has not been answered.
LEMMA EndsAnswers ==
  ASSUME answers \in Seq(Answers), Len(answers) = 0, NEW what \in Answers, Ends(what),
         UNCHANGED call
  PROVE  AnsweredSoFar'
  <1>1. stage' = "over" /\ answers' = IF HasHandle THEN Append(answers, what) ELSE answers
    BY DEF Ends, Go, Answer
  <1>2. Append(answers, what) \in Seq(Answers) /\ Len(Append(answers, what)) = 1
    BY AppendProperties
  <1>3. HasHandle' <=> HasHandle BY DEF HasHandle
  <1>4. Due' = IF HasHandle THEN 1 ELSE 0 BY <1>3 DEF Due
  <1>5. answers' \in Seq(Answers) /\ Len(answers') = IF HasHandle THEN 1 ELSE 0
    BY <1>1, <1>2
  <1> QED BY <1>1, <1>4, <1>5 DEF AnsweredSoFar

\* A step between two stages at which nothing has been answered.
LEMMA QuietStep ==
  ASSUME AnsweredSoFar, UNCHANGED <<call, answers>>, stage \notin {"over", "stream"},
         stage' \notin {"over", "stream"}
  PROVE  AnsweredSoFar'
  BY DEF AnsweredSoFar

LEMMA RouteAnswered ==
  ASSUME AnsweredSoFar, RouteNext \/ UNCHANGED routeVars
  PROVE  AnsweredSoFar'
  <1>1. CASE Identify
    <2>1. stage = "start" /\ UNCHANGED call /\ call.path \in {"play", "search", "script"}
      BY <1>1 DEF Identify
    <2>2. answers \in Seq(Answers) /\ Len(answers) = 0 BY <2>1 DEF AnsweredSoFar
    <2>3. CASE call.backend = "streamnzb" /\ call.path = "search"
      <3>1. stage' = "stream" /\ HasHandle /\ answers' = Append(answers, "listed")
        BY <1>1, <2>3 DEF Identify, Go, Answer, HasHandle
      <3>2. answers' \in Seq(Answers) /\ Len(answers') = 1
        BY <2>2, <3>1, AppendProperties DEF Answers
      <3>3. Due' = 1 BY <2>1, <3>1 DEF Due, HasHandle
      <3> QED BY <2>1, <2>3, <3>1, <3>2, <3>3 DEF AnsweredSoFar
    <2>4. CASE ~(call.backend = "streamnzb" /\ call.path = "search")
      <3>1. /\ UNCHANGED answers /\ stage' \in {"stream", "search"}
            /\ stage' = "stream" => call.backend = "streamnzb"
        BY <1>1, <2>4 DEF Identify, Go
      <3> QED BY <2>1, <2>2, <2>4, <3>1 DEF AnsweredSoFar
    <2> QED BY <2>3, <2>4
  <1>2. CASE Search \/ Filter \/ MarkRows \/ Pick \/ AutoSelect
    <2>1. /\ UNCHANGED <<call, answers>> /\ stage \notin {"over", "stream"}
          /\ stage' \notin {"over", "stream"}
      <3>1. CASE Search BY <3>1 DEF Search, Go
      <3>2. CASE Filter BY <3>2 DEF Filter, Go
      <3>3. CASE MarkRows BY <3>3 DEF MarkRows, Go
      <3>4. CASE Pick BY <3>4 DEF Pick, HandTo, Go
      <3>5. CASE AutoSelect BY <3>5 DEF AutoSelect, HandTo, Go
      <3> QED BY <1>2, <3>1, <3>2, <3>3, <3>4, <3>5
    <2> QED BY <2>1, QuietStep
  <1>3. CASE NothingFound \/ Dismiss \/ Resolved \/ OtherRoute \/ Raise
    <2>1. /\ UNCHANGED call /\ stage \notin {"over", "stream"}
          /\ \E what \in Answers : Ends(what)
      <3>1. CASE NothingFound BY <3>1 DEF NothingFound, Answers
      <3>2. CASE Dismiss BY <3>2 DEF Dismiss, Answers
      <3>3. CASE Resolved BY <3>3 DEF Resolved, Answers
      <3>4. CASE OtherRoute BY <3>4 DEF OtherRoute, Answers
      <3>5. CASE Raise BY <3>5 DEF Raise, Answers
      <3> QED BY <1>3, <3>1, <3>2, <3>3, <3>4, <3>5
    <2>2. answers \in Seq(Answers) /\ Len(answers) = 0 BY <2>1 DEF AnsweredSoFar
    <2> QED BY <2>1, <2>2, EndsAnswers
  <1>4. CASE StreamNzb
    <2>1. /\ stage = "stream" /\ stage' = "over" /\ UNCHANGED call
          /\ answers \in Seq(Answers) /\ call.path \in {"play", "search", "script"}
          /\ Len(answers) = IF call.path = "search" THEN Due ELSE 0
      BY <1>4 DEF StreamNzb, Go, AnsweredSoFar
    <2>2. Due' = Due BY <2>1 DEF Due, HasHandle
    <2>3. CASE call.path = "play"
      <3>1. PICK what \in Answers : answers' = Append(answers, what)
        BY <1>4, <2>3 DEF StreamNzb, Answer, Answers, HasHandle
      <3>2. answers' \in Seq(Answers) /\ Len(answers') = 1 BY <2>1, <2>3, <3>1, AppendProperties
      <3>3. Due = 1 BY <2>3 DEF Due, HasHandle
      <3> QED BY <2>1, <2>2, <3>2, <3>3 DEF AnsweredSoFar
    <2>4. CASE call.path # "play"
      <3>1. UNCHANGED answers BY <1>4, <2>4 DEF StreamNzb
      <3>2. Len(answers) = Due BY <2>1, <2>4 DEF Due, HasHandle
      <3> QED BY <2>1, <2>2, <3>1, <3>2 DEF AnsweredSoFar
    <2> QED BY <2>3, <2>4
  <1>5. CASE UNCHANGED routeVars
    BY <1>5 DEF AnsweredSoFar, routeVars, Due, HasHandle
  <1> QED BY <1>1, <1>2, <1>3, <1>4, <1>5 DEF RouteNext, RouteOver

\* A step of MCDecisions keeps its topic and is a step of it.
LEMMA TopicSteps ==
  ASSUME [Next]_vars
  PROVE  /\ UNCHANGED topic
         /\ topic = "route" => RouteNext \/ UNCHANGED routeVars
         /\ topic = "tier" => TierNext \/ UNCHANGED tierVars
         /\ topic = "select" => SelNext \/ UNCHANGED selVars
         /\ topic = "scan" => ScanNext \/ UNCHANGED scanVars
         /\ topic = "conceal" => ConcealNext \/ UNCHANGED concealVars
  BY DEF Next, vars

\* Every call with a handle of Kodi's answers it exactly once, whichever way it ends - a
\* pick, a dismissed picker, no results, an exception, StreamNZB's own player - and a call
\* without one answers nothing (router.py).
THEOREM AnsweredOnce == Init /\ [][Next]_vars => []AnswersHandle
  <1> DEFINE I == topic = "route" => AnsweredSoFar
  <1>1. Init => I
    <2> SUFFICES ASSUME Init, topic = "route" PROVE AnsweredSoFar OBVIOUS
    <2>1. RouteInit BY DEF Init
    <2>2. answers = <<>> /\ stage = "start" BY <2>1 DEF RouteInit
    <2> QED BY <2>2 DEF AnsweredSoFar
  <1>2. I /\ [Next]_vars => I' BY TopicSteps, RouteAnswered
  <1>3. I => AnswersHandle
    <2> SUFFICES ASSUME AnsweredSoFar PROVE HandleAnswered BY DEF AnswersHandle
    <2>1. Due \in {0, 1} /\ Due = (IF HasHandle THEN 1 ELSE 0) BY DEF Due
    <2> QED BY <2>1 DEF AnsweredSoFar, HandleAnswered
  <1> QED BY <1>1, <1>2, <1>3, PTL

-----------------------------------------------------------------------------
(* PlayRoute.  The episode a call leaves out.                              *)

\* A set of numbers has a first one.
LEMMA First ==
  ASSUME NEW S \in SUBSET Nat, S # {}
  PROVE  \E i \in S : \A j \in S : i <= j
  <1>1. PICK i \in S : \A j \in S : ~ (<<j, i>> \in OpToRel(<, Nat))
    BY NatLessThanWellFounded, WFMin
  <1>2. \A j \in S : <<j, i>> \in OpToRel(<, Nat) <=> j < i BY DEF OpToRel
  <1>3. \A j \in S : ~ (j < i) BY <1>1, <1>2, Zenon
  <1> QED BY <1>3

\* What is taken from Kodi's items is one of them, of the show asked for.
LEMMA ItemShown ==
  ASSUME NEW title, NEW items, DOMAIN items \subseteq Nat, ListItem(title, items).show # ""
  PROVE  /\ ListItem(title, items) \in ToSet(items)
         /\ title \in {"", ListItem(title, items).show}
  <1> DEFINE fits == {i \in DOMAIN items : Numbered(items[i]) /\ title \in {"", items[i].show}}
             first == CHOOSE i \in fits : \A j \in fits : i <= j
  <1>1. fits # {} BY DEF ListItem
  <1>2. fits \in SUBSET Nat OBVIOUS
  <1>3. \E i \in fits : \A j \in fits : i <= j
    <2> HIDE DEF fits
    <2> QED BY <1>1, <1>2, First
  <1>4. first \in fits
    <2> HIDE DEF fits
    <2> QED BY <1>3
  <1>5. ListItem(title, items) = items[first] BY <1>1 DEF ListItem
  <1> HIDE DEF first
  <1> QED BY <1>4, <1>5 DEF ToSet

\* The call keeps to Calls, and what it is about is settled when it has been identified.
EpisodeKnown ==
  /\ call \in Calls
  /\ OneEpisode

LEMMA IdentifyKnows ==
  ASSUME call \in Calls, Identify
  PROVE  OneEpisode'
  <1> DEFINE ask == call.ask
             item == ListItem(ask.title, ask.items)
  <1>1. UNCHANGED call BY DEF Identify
  <1>2. SUFFICES ASSUME call.path = "script" \/ call.backend = "streamnzb",
                        ask.season = 0, ask.episode = 0
                 PROVE  \/ meant'.season = 0 /\ meant'.episode = 0
                        \/ \E it \in ToSet(ask.items) :
                              /\ it.season = meant'.season /\ it.episode = meant'.episode
                              /\ it.show = meant'.title /\ ask.title \in {"", meant'.title}
    BY <1>1 DEF OneEpisode
  <1>3. DOMAIN ask.items \subseteq Nat BY RouteAssumption
  <1>4. item.show # "" => item \in ToSet(ask.items) /\ ask.title \in {"", item.show}
    BY <1>3, ItemShown
  <1>5. ~Numbered(ask) BY <1>2 DEF Numbered
  <1>6. AskedFor(ask).season = 0 /\ AskedFor(ask).episode = 0 BY <1>2 DEF AskedFor
  <1>7. \/ meant' = AskedFor(ask)
        \/ /\ item.show # "" /\ meant'.title = item.show
           /\ meant'.season = item.season /\ meant'.episode = item.episode
    <2>1. meant' = StreamNzbEpisode(ask) \/ meant' = ScriptEpisode(ask)
      BY <1>2 DEF Identify
    <2>2. CASE meant' = StreamNzbEpisode(ask)
      <3> DEFINE shown == [title |-> ask.title, season |-> item.season,
                           episode |-> item.episode]
      <3>1. meant' = AskedFor(ask)
            \/ (ask.title # "" /\ item.show = ask.title /\ meant' = shown)
        <4> HIDE DEF ask
        <4> QED BY <2>2 DEF StreamNzbEpisode, item
      <3> HIDE DEF ask, item
      <3>2. shown.title = ask.title /\ shown.season = item.season
            /\ shown.episode = item.episode
        OBVIOUS
      <3> HIDE DEF shown
      <3> QED BY <3>1, <3>2
    <2>3. CASE meant' = ScriptEpisode(ask)
      <3> DEFINE shown == [title |-> item.show, season |-> Or(ask.season, item.season),
                           episode |-> Or(ask.episode, item.episode)]
      <3>1. meant' = AskedFor(ask) \/ (item.show # "" /\ meant' = shown)
        <4> HIDE DEF ask
        <4> QED BY <2>3 DEF ScriptEpisode, item
      <3>2. Or(ask.season, item.season) = item.season
            /\ Or(ask.episode, item.episode) = item.episode
        <4> HIDE DEF ask, item
        <4> QED BY <1>2 DEF Or
      <3> HIDE DEF ask, item
      <3>3. shown.title = item.show /\ shown.season = item.season
            /\ shown.episode = item.episode
        BY <3>2
      <3> HIDE DEF shown
      <3> QED BY <3>1, <3>3
    <2> QED BY <2>1, <2>2, <2>3
  <1> HIDE DEF ask, item
  <1> QED BY <1>4, <1>6, <1>7

LEMMA RouteKnows ==
  ASSUME EpisodeKnown, RouteNext \/ UNCHANGED routeVars
  PROVE  EpisodeKnown'
  <1>1. UNCHANGED call
    <2>1. CASE Identify \/ Search \/ NothingFound \/ Filter
      BY <2>1 DEF Identify, Search, NothingFound, Filter
    <2>2. CASE MarkRows \/ Pick \/ Dismiss \/ AutoSelect
      BY <2>2 DEF MarkRows, Pick, Dismiss, AutoSelect
    <2>3. CASE Resolved \/ StreamNzb \/ OtherRoute \/ Raise \/ RouteOver \/ UNCHANGED routeVars
      BY <2>3 DEF Resolved, StreamNzb, OtherRoute, Raise, RouteOver, routeVars
    <2> QED BY <2>1, <2>2, <2>3 DEF RouteNext
  <1>2. CASE Identify BY <1>1, <1>2, IdentifyKnows DEF EpisodeKnown
  <1>3. CASE ~Identify
    <2>1. \/ UNCHANGED meant /\ stage \notin {"start", "over"}
          \/ stage' = "over" \/ UNCHANGED <<meant, stage>>
      <3>1. CASE Search \/ NothingFound \/ Filter
        BY <3>1 DEF Search, NothingFound, Filter, Ends, Go
      <3>2. CASE MarkRows \/ Pick \/ Dismiss \/ AutoSelect
        BY <3>2 DEF MarkRows, Pick, Dismiss, AutoSelect, HandTo, Ends, Go
      <3>3. CASE Resolved \/ StreamNzb \/ OtherRoute \/ Raise \/ RouteOver
                 \/ UNCHANGED routeVars
        BY <3>3 DEF Resolved, StreamNzb, OtherRoute, Raise, RouteOver, routeVars, Ends, Go
      <3> QED BY <1>3, <3>1, <3>2, <3>3 DEF RouteNext
    <2> QED BY <1>1, <2>1 DEF EpisodeKnown, OneEpisode
  <1> QED BY <1>2, <1>3

\* The episode the script and StreamNZB recover for a call that leaves its number out is
\* that of one item Kodi shows, of the show asked for: never the season of one item with
\* the episode of another, nor another show's (router_scriptplay.py, streamnzb_player.py).
THEOREM RecoversShownEpisode == Init /\ [][Next]_vars => []RecoversOne
  <1> DEFINE I == topic = "route" => EpisodeKnown
  <1>1. Init => I
    <2> SUFFICES ASSUME Init, topic = "route" PROVE EpisodeKnown OBVIOUS
    <2>1. RouteInit BY DEF Init
    <2> QED BY <2>1 DEF RouteInit, EpisodeKnown, OneEpisode
  <1>2. I /\ [Next]_vars => I' BY TopicSteps, RouteKnows
  <1>3. I => RecoversOne BY DEF EpisodeKnown, RecoversOne
  <1> QED BY <1>1, <1>2, <1>3, PTL

-----------------------------------------------------------------------------
(* StreamTier.  The boxes lie one after another; the layout is computed     *)
(* from them alone, and a range of the virtual file is either in the        *)
(* header, in the payload, or across their border.                          *)

\* A set of numbers up to n has a last one.
LEMMA Highest ==
  ASSUME NEW n \in Nat, NEW S \in SUBSET (1..n), S # {}
  PROVE  \E i \in S : \A j \in S : j <= i
  <1> DEFINE U == {k \in Nat : \A j \in S : j <= k}
  <1>1. U \in SUBSET Nat /\ n \in U OBVIOUS
  <1>2. PICK i \in U : \A k \in U : i <= k
    <2> HIDE DEF U
    <2> QED BY <1>1, First
  <1>3. i \in Nat /\ \A j \in S : j <= i BY <1>2
  <1>4. i \in S
    <2> SUFFICES ASSUME i \notin S PROVE FALSE OBVIOUS
    <2>1. \A j \in S : j <= i - 1 BY <1>3
    <2>2. PICK j \in S : TRUE OBVIOUS
    <2>3. i - 1 \in Nat BY <1>3, <2>1, <2>2
    <2>4. i - 1 \in U BY <2>1, <2>3
    <2>5. i <= i - 1 BY <1>2, <2>4
    <2> QED BY <1>3, <2>5
  <1> QED BY <1>3, <1>4

\* What is known of the boxes of a clip.
LEMMA BoxFacts ==
  ASSUME clip \in Clips
  PROVE  /\ Len(Boxes) \in Nat \ {0} /\ DOMAIN Boxes = 1..Len(Boxes)
         /\ \A i \in DOMAIN Boxes : Offset(i) \in Nat /\ Boxes[i].size \in Nat \ {0}
                                    /\ End(i) = Offset(i) + Boxes[i].size
         /\ Offset(1) = 0
         /\ \A i \in 2..Len(Boxes) : Offset(i) = End(i - 1)
  <1> DEFINE B == Boxes
             Kind == [type : STRING, at : Nat, size : Nat \ {0}]
  <1>1. B \in Seq(Kind) /\ B # <<>> BY TierAssumption DEF Boxes
  <1>2. Len(B) \in Nat \ {0} /\ DOMAIN B = 1..Len(B)
    <2> HIDE DEF B, Kind
    <2> QED BY <1>1, EmptySeq, LenProperties
  <1>3. \A i \in DOMAIN B : B[i] \in Kind
    <2> HIDE DEF B, Kind
    <2> QED BY <1>1, ElementOfSeq, <1>2
  <1>4. B[1].at = 0 /\ \A i \in 2..Len(B) : B[i].at = B[i - 1].at + B[i - 1].size
    BY TierAssumption DEF Boxes
  <1>5. \A i \in DOMAIN B : Offset(i) \in Nat /\ B[i].size \in Nat \ {0}
                            /\ End(i) = Offset(i) + B[i].size
    BY <1>3 DEF Offset, End
  <1>6. \A i \in 2..Len(B) : Offset(i) = End(i - 1) BY <1>4 DEF Offset, End
  <1> QED BY <1>2, <1>4, <1>5, <1>6 DEF Offset

\* A box ends before every later one begins.
LEMMA BoxesInOrder ==
  ASSUME clip \in Clips, NEW i \in DOMAIN Boxes, NEW j \in DOMAIN Boxes, i < j
  PROVE  End(i) <= Offset(j)
  <1> DEFINE Bad == {k \in DOMAIN Boxes : i < k /\ ~(End(i) <= Offset(k))}
  <1>1. SUFFICES ASSUME Bad # {} PROVE FALSE OBVIOUS
  <1>2. Bad \in SUBSET Nat BY BoxFacts
  <1>3. PICK k \in Bad : \A m \in Bad : k <= m
    <2> HIDE DEF Bad
    <2> QED BY <1>1, <1>2, First
  <1>4. k \in 2..Len(Boxes) /\ i < k /\ ~(End(i) <= Offset(k)) BY <1>3, BoxFacts
  <1>5. Offset(k) = End(k - 1) /\ k - 1 \in DOMAIN Boxes BY <1>4, BoxFacts
  <1>6. CASE i = k - 1 BY <1>4, <1>5, <1>6, BoxFacts
  <1>7. CASE i < k - 1
    <2>1. k - 1 \notin Bad
      <3> HIDE DEF Bad
      <3> QED BY <1>3, <1>4
    <2>2. End(i) <= Offset(k - 1) BY <1>5, <1>7, <2>1
    <2>3. Offset(k - 1) \in Nat /\ Boxes[k - 1].size \in Nat
          /\ End(k - 1) = Offset(k - 1) + Boxes[k - 1].size
      BY <1>5, BoxFacts
    <2>4. End(i) \in Nat BY BoxFacts
    <2> QED BY <1>4, <1>5, <2>2, <2>3, <2>4
  <1> QED BY <1>4, <1>6, <1>7, BoxFacts

\* What a scan finds is a box of the type.
LEMMA FoundIs ==
  ASSUME clip \in Clips, NEW S \in SUBSET (DOMAIN Boxes), NEW type, Found(S, type) # 0
  PROVE  Found(S, type) \in DOMAIN Boxes /\ Boxes[Found(S, type)].type = type
  <1> DEFINE of == {i \in S : Boxes[i].type = type}
             last == CHOOSE i \in of : \A j \in of : j <= i
  <1>1. of # {} BY DEF Found
  <1>2. Found(S, type) = last BY <1>1 DEF Found
  <1>3. of \in SUBSET (1..Len(Boxes)) /\ Len(Boxes) \in Nat BY BoxFacts
  <1>4. \E i \in of : \A j \in of : j <= i
    <2> HIDE DEF of
    <2> QED BY <1>1, <1>3, Highest
  <1>5. last \in of
    <2> HIDE DEF of
    <2> QED BY <1>4
  <1> QED BY <1>2, <1>5

LEMMA ScannedBoxes ==
  ASSUME NEW lo, NEW hi
  PROVE  Scanned(lo, hi) \in SUBSET (DOMAIN Boxes) /\ BoxesAt(lo) \in SUBSET (DOMAIN Boxes)
  BY DEF Scanned, BoxesAt

\* The box that is moved is a moov box, and what counts as the ftyp box is one.
LEMMA MovedIsMoov ==
  ASSUME clip \in Clips, MoovBox # 0, ~FrontMoov
  PROVE  MoovBox \in DOMAIN Boxes /\ Boxes[MoovBox].type = "moov"
  <1>1. CASE MoovAfterMdat # 0
    <2>1. MoovBox = MoovAfterMdat BY <1>1 DEF MoovBox
    <2>2. MoovAfterMdat = Found(BoxesAt(End(Mdat)), "moov") BY <1>1 DEF MoovAfterMdat
    <2> QED BY <1>1, <2>1, <2>2, ScannedBoxes, FoundIs
  <1>2. CASE MoovAfterMdat = 0
    <2>1. MoovBox = MoovInTail BY <1>2 DEF MoovBox
    <2>2. \E lo \in {(IF TailProbes[k] < FileLen THEN FileLen - TailProbes[k] ELSE 0) :
                        k \in DOMAIN TailProbes} \cup {MoovInTail} : TRUE
      OBVIOUS
    <2>3. \E lo : MoovInTail = Found(Scanned(lo, FileLen), "moov")
      BY <2>1 DEF MoovInTail
    <2> QED BY <2>1, <2>3, ScannedBoxes, FoundIs
  <1> QED BY <1>1, <1>2

LEMMA FtypIs ==
  ASSUME clip \in Clips, Ftyp # 0
  PROVE  Ftyp \in DOMAIN Boxes /\ Boxes[Ftyp].type = "ftyp"
  BY ScannedBoxes, FoundIs DEF Ftyp, HeadBoxes

-----------------------------------------------------------------------------
(* The layout of a virtual file.                                           *)

\* The ftyp box, if there is one, is read whole with the first bytes of the file.
FtypInHead ==
  \A c \in Clips : \A i \in DOMAIN c.boxes :
    c.boxes[i].type = "ftyp" => c.boxes[i].at + c.boxes[i].size <= HeadProbe

\* The header is as long as what the payload leaves out of the front of the file, and the
\* chunks all lie in the payload.
LEMMA LayoutFits ==
  ASSUME clip \in Clips, MoovBox # 0, ~FrontMoov, MoovLast, FtypInHead
  PROVE  /\ Layout.ftyp \in Nat /\ Layout.moov \in Nat /\ Layout.to \in Nat
         /\ Layout.from = Layout.ftyp /\ Layout.from <= Layout.to
         /\ \A o \in Chunks : o \in Nat /\ Layout.from < o /\ o < Layout.to
  <1> DEFINE m == MoovBox
  <1>1. m \in DOMAIN Boxes /\ Boxes[m].type = "moov" BY MovedIsMoov
  <1>2. Layout = [ftyp |-> FtypLen, moov |-> Boxes[m].size, from |-> FtypEnd,
                  to |-> Offset(m)]
    BY DEF Layout, Delta
  <1>3. Boxes[m].size \in Nat /\ Offset(m) \in Nat BY <1>1, BoxFacts
  <1> HIDE DEF m
  <1>4. CASE Ftyp = 0
    <2>1. FtypLen = 0 /\ FtypEnd = 0 BY <1>4 DEF FtypLen, FtypEnd
    <2>2. \A i \in DOMAIN Boxes : Boxes[i].type = "mdat" => i < m BY <1>1 DEF MoovLast
    <2>3. ASSUME NEW o \in Chunks PROVE o \in Nat /\ 0 < o /\ o < Offset(m)
      <3>1. PICK i \in DOMAIN Boxes : Boxes[i].type = "mdat" /\ Boxes[i].size > 1
                                      /\ o = Offset(i) + 1
        BY DEF Chunks
      <3>2. End(i) <= Offset(m) BY <1>1, <2>2, <3>1, BoxesInOrder
      <3> QED BY <1>3, <3>1, <3>2, BoxFacts
    <2> QED BY <1>2, <1>3, <2>1, <2>3
  <1>5. CASE Ftyp # 0
    <2>1. Ftyp = 1 /\ Ftyp \in DOMAIN Boxes /\ Boxes[1].type = "ftyp"
      BY <1>5, FtypIs DEF MoovLast
    <2>2. End(1) = Boxes[1].size /\ Boxes[1].size \in Nat BY <2>1, BoxFacts
    <2>3. End(1) <= HeadProbe BY <2>1 DEF FtypInHead, Boxes, End, Offset
    <2>4. FtypEnd = Boxes[1].size BY <2>1, <2>2 DEF FtypEnd
    <2>5. FtypLen = Boxes[1].size BY <2>1, <2>2, <2>3, <2>4, TierAssumption DEF FtypLen
    <2>6. \A i \in DOMAIN Boxes : Boxes[i].type = "mdat" => i < m BY <1>1 DEF MoovLast
    <2>7. 1 < m BY <1>1, <2>1, BoxFacts
    <2>8. Boxes[1].size <= Offset(m) BY <1>1, <2>1, <2>2, <2>7, BoxesInOrder
    <2>9. ASSUME NEW o \in Chunks PROVE o \in Nat /\ Boxes[1].size < o /\ o < Offset(m)
      <3>1. PICK i \in DOMAIN Boxes : Boxes[i].type = "mdat" /\ Boxes[i].size > 1
                                      /\ o = Offset(i) + 1
        BY DEF Chunks
      <3>2. End(i) <= Offset(m) BY <1>1, <2>6, <3>1, BoxesInOrder
      <3>3. 1 < i BY <2>1, <3>1, BoxFacts
      <3>4. Boxes[1].size <= Offset(i) BY <2>1, <2>2, <3>1, <3>3, BoxesInOrder
      <3> QED BY <1>3, <2>2, <3>1, <3>2, <3>4, BoxFacts
    <2> QED BY <1>2, <1>3, <2>2, <2>4, <2>5, <2>8, <2>9
  <1> QED BY <1>4, <1>5

-----------------------------------------------------------------------------
(* A range of a virtual file.                                              *)

Moved(ctx) == ctx.mode = "faststart"
Range206(a, b, bytes) ==
  [asked |-> TRUE, status |-> 206, first |-> a, last |-> b, bytes |-> bytes]

TierInv ==
  /\ clip \in Clips
  /\ tier.mode = "faststart" =>
       /\ MoovBox # 0 /\ ~FrontMoov
       /\ tier.layout = Layout /\ tier.length = VirtualSize(Layout)
  /\ reply.asked =>
       /\ tier.mode = "faststart"
       /\ reply.status = 206 =>
            \E a, b \in Nat : a <= b /\ b < tier.length
                              /\ reply = Range206(a, b, Served(<<a, b>>))

\* What a range gets is as long as what was asked for, and each byte of it is the header's or
\* the file's as its position in the virtual file says.
RightBytes(a, b) ==
  LET l == tier.layout  bytes == Served(<<a, b>>) IN
  /\ Len(bytes) = b + 1 - a
  /\ DOMAIN bytes = 1..(b + 1 - a)
  /\ \A k \in 1..(b + 1 - a) :
       /\ a + k - 1 < l.ftyp + l.moov => bytes[k] = HeaderByte(a + k - 1)
       /\ a + k - 1 >= l.ftyp + l.moov => bytes[k] = <<"file", a + k - 1 - l.moov>>

\* It is so by arithmetic on the layout alone.
LEMMA RangeIsRight ==
  ASSUME tier.layout.ftyp \in Nat, tier.layout.moov \in Nat, tier.layout.to \in Nat,
         tier.layout.from = tier.layout.ftyp, tier.layout.from <= tier.layout.to,
         NEW a \in Nat, NEW b \in Nat, a <= b, b < VirtualSize(tier.layout)
  PROVE  RightBytes(a, b)
  <1> DEFINE l == tier.layout
             header == l.ftyp + l.moov
             payload == l.to - l.from
             inHeader == IF a >= header THEN 0
                         ELSE IF b < header THEN b + 1 - a ELSE header - a
             from == l.from + (a + inHeader - header)
             left == b + 1 - a - inHeader
             to == IF l.to < from + left THEN l.to ELSE from + left
             read == IF a + inHeader < header + payload THEN to - from ELSE 0
             byte(k) == IF k <= inHeader THEN HeaderByte(a + k - 1)
                        ELSE <<"file", from + (k - inHeader - 1)>>
  <1>1. Served(<<a, b>>) = [k \in 1..(inHeader + read) |-> byte(k)] BY DEF Served
  <1>2. header \in Nat /\ payload \in Nat /\ b < header + payload BY DEF VirtualSize
  <1>3. inHeader \in Nat /\ inHeader + read = b + 1 - a
    <2>1. CASE a >= header BY <1>2, <2>1
    <2>2. CASE a < header /\ b < header BY <1>2, <2>2
    <2>3. CASE a < header /\ b >= header BY <1>2, <2>3
    <2> QED BY <1>2, <2>1, <2>2, <2>3
  <1>4. ASSUME NEW k \in 1..(b + 1 - a)
        PROVE  /\ a + k - 1 < l.ftyp + l.moov => byte(k) = HeaderByte(a + k - 1)
               /\ a + k - 1 >= l.ftyp + l.moov => byte(k) = <<"file", a + k - 1 - l.moov>>
    <2>1. k <= inHeader <=> a + k - 1 < header
      <3>1. CASE a >= header BY <1>2, <3>1
      <3>2. CASE a < header /\ b < header BY <1>2, <3>2
      <3>3. CASE a < header /\ b >= header BY <1>2, <3>3
      <3> QED BY <1>2, <3>1, <3>2, <3>3
    <2>2. from + (k - inHeader - 1) = a + k - 1 - l.moov BY <1>2, <1>3
    <2> HIDE DEF inHeader, from, header
    <2> QED BY <2>1, <2>2 DEF header
  <1> DEFINE n == b + 1 - a
             sent == Served(<<a, b>>)
  <1>5. sent = [k \in 1..n |-> byte(k)] BY <1>1, <1>3
  <1>6. n \in Nat OBVIOUS
  <1> HIDE DEF byte, n, sent
  <1>7. Len(sent) = n /\ DOMAIN sent = 1..n /\ \A k \in 1..n : sent[k] = byte(k)
    BY <1>5, <1>6
  <1> QED BY <1>4, <1>7 DEF n, sent, RightBytes

LEMMA LengthInt ==
  ASSUME clip \in Clips, MoovBox # 0, ~FrontMoov PROVE VirtualSize(Layout) \in Int
  <1>1. MoovBox \in DOMAIN Boxes BY MovedIsMoov
  <1>2. Boxes[MoovBox].size \in Nat /\ Offset(MoovBox) \in Nat BY <1>1, BoxFacts
  <1>3. FtypEnd \in Nat /\ FtypLen \in Nat
    <2>1. CASE Ftyp = 0 BY <2>1 DEF FtypEnd, FtypLen
    <2>2. CASE Ftyp # 0
      <3>1. Boxes[Ftyp].size \in Nat /\ Offset(Ftyp) \in Nat
            /\ End(Ftyp) = Offset(Ftyp) + Boxes[Ftyp].size
        BY <2>2, FtypIs, BoxFacts
      <3> QED BY <2>2, <3>1 DEF FtypEnd, FtypLen
    <2> QED BY <2>1, <2>2
  <1> QED BY <1>2, <1>3 DEF VirtualSize, Layout, Delta

LEMMA TierStep ==
  ASSUME TierInv, TierNext \/ UNCHANGED tierVars
  PROVE  TierInv'
  <1>1. UNCHANGED clip
    <2>1. CASE BuildFallback BY <2>1 DEF BuildFallback, Build
    <2>2. CASE BuildFromLayout BY <2>2 DEF BuildFromLayout, Build
    <2>3. CASE BuildWithoutLayout BY <2>3 DEF BuildWithoutLayout, Build
    <2>4. CASE BuildDefault BY <2>4 DEF BuildDefault, Build
    <2>5. CASE Get \/ TierServed \/ UNCHANGED tierVars BY <2>5 DEF Get, TierServed, tierVars
    <2> QED BY <2>1, <2>2, <2>3, <2>4, <2>5 DEF TierNext
  <1>2. /\ Boxes' = Boxes /\ MoovBox' = MoovBox /\ (FrontMoov' <=> FrontMoov)
        /\ Layout' = Layout
    <2>1. Boxes' = Boxes BY <1>1 DEF Boxes
    <2>2. ASSUME NEW i PROVE Offset(i)' = Offset(i) /\ End(i)' = End(i)
      BY <2>1 DEF Offset, End
    <2>3. FileLen' = FileLen BY <2>1 DEF FileLen, End, Offset
    <2>4. HeadBoxes' = HeadBoxes BY <2>1, <2>3 DEF HeadBoxes, Scanned, BoxesAt, Offset
    <2>5. Mdat' = Mdat /\ Ftyp' = Ftyp BY <2>1, <2>4 DEF Mdat, Ftyp, Found
    <2>6. FtypEnd' = FtypEnd /\ FtypLen' = FtypLen
      BY <2>1, <2>5 DEF FtypEnd, FtypLen, End, Offset
    <2>7. Found(HeadBoxes, "moov")' = Found(HeadBoxes, "moov") BY <2>1, <2>4 DEF Found
    <2>8. FrontMoov' <=> FrontMoov BY <2>5, <2>7 DEF FrontMoov
    <2>9. MoovAfterMdat' = MoovAfterMdat
      BY <2>1, <2>5 DEF MoovAfterMdat, Found, BoxesAt, End, Offset
    <2>10. MoovInTail' = MoovInTail
      BY <2>1, <2>3 DEF MoovInTail, Found, Scanned, BoxesAt, Offset
    <2>11. MoovBox' = MoovBox
      BY <2>1, <2>6, <2>7, <2>8, <2>9, <2>10 DEF MoovBox, Offset
    <2>12. Delta' = Delta BY <2>1, <2>11 DEF Delta
    <2>13. Layout' = Layout BY <2>1, <2>6, <2>11, <2>12 DEF Layout, Offset
    <2> QED BY <2>1, <2>8, <2>11, <2>13
  <1>3. ASSUME NEW ctx, Build(ctx),
               ctx.mode = "faststart" => MoovBox # 0 /\ ~FrontMoov /\ ctx.layout = Layout
                                         /\ ctx.length = VirtualSize(Layout)
        PROVE  TierInv'
    <2>1. tier' = ctx /\ UNCHANGED reply /\ ~reply.asked BY <1>3 DEF Build, TierInv
    <2>2. VirtualSize(Layout') = VirtualSize(Layout) BY <1>2
    <2> QED BY <1>1, <1>2, <1>3, <2>1, <2>2 DEF TierInv, VirtualSize
  <1>4. ASSUME NEW mode, NEW length, NEW seekable, mode # "faststart",
               Build(Ctx(mode, length, seekable))
        PROVE  TierInv'
    <2>1. Ctx(mode, length, seekable).mode = mode BY DEF Ctx
    <2> QED BY <1>3, <1>4, <2>1
  <1>5. CASE BuildFallback
    <2>1. Build(Ctx("error", 0, FALSE)) \/ Build(Ctx("proxy", size, TRUE))
      BY <1>5 DEF BuildFallback
    <2> QED BY <1>4, <2>1
  <1>6. CASE BuildFromLayout
    <2> DEFINE moved == [mode |-> "faststart", length |-> VirtualSize(Layout),
                         seekable |-> TRUE, layout |-> Layout]
    <2>1. \/ Build(Ctx("proxy", size, TRUE))
          \/ ~FrontMoov /\ MoovBox # 0 /\ Build(moved)
      BY <1>6 DEF BuildFromLayout, HasLayout
    <2>2. moved.layout = Layout /\ moved.length = VirtualSize(Layout) OBVIOUS
    <2> HIDE DEF moved
    <2> QED BY <1>3, <1>4, <2>1, <2>2
  <1>7. CASE BuildWithoutLayout
    <2>1. \/ Build(Ctx("temp", size, TRUE)) \/ Build(Ctx("error", 0, FALSE))
          \/ Build(Ctx("proxy", size, FALSE))
          \/ \E duration \in DurationKnown : Build(Ctx("remux", size, duration /\ size > 0))
      BY <1>7 DEF BuildWithoutLayout
    <2> QED BY <1>4, <2>1
  <1>8. CASE BuildDefault
    <2>1. \/ Build(Ctx("hls", size, TRUE)) \/ Build(Ctx("error", 0, FALSE))
          \/ Build(Ctx("proxy", size, FALSE))
          \/ \E duration \in DurationKnown : Build(Ctx("remux", size, duration /\ size > 0))
      BY <1>8 DEF BuildDefault
    <2> QED BY <1>4, <2>1
  <1>9. CASE Get
    <2>1. tier.mode = "faststart" /\ UNCHANGED tier BY <1>9 DEF Get
    <2>2. PICK range \in Ranges : reply' = RangeReply(range) BY <1>9 DEF Get
    <2> DEFINE len == tier.length
    <2>3. reply'.status = 206 =>
            \E a, b \in Nat : a <= b /\ b < len /\ reply' = Range206(a, b, Served(<<a, b>>))
      <3>1. range = <<>> => reply'.status = 416 BY <2>2 DEF RangeReply
      <3>2. SUFFICES ASSUME range # <<>>
                     PROVE  \E a, b \in Nat : a <= b /\ b < len /\ range = <<a, b>>
        <4>1. ASSUME NEW a \in Nat, NEW b \in Nat, range # <<>>, range = <<a, b>>
              PROVE  reply' = Range206(a, b, Served(<<a, b>>))
          BY <2>2, <4>1 DEF RangeReply, Range206
        <4>2. CASE range = <<>> BY <3>1, <4>2
        <4>3. CASE range # <<>>
          <5>1. PICK a, b \in Nat : a <= b /\ b < len /\ range = <<a, b>> BY <4>3
          <5>2. reply' = Range206(a, b, Served(<<a, b>>)) BY <4>1, <4>3, <5>1
          <5> QED BY <5>1, <5>2
        <4> QED BY <4>2, <4>3
      <3>3. len \in Int BY <2>1, LengthInt DEF TierInv
      <3> HIDE DEF len
      <3>6. (\E c, d \in 0..len : range = Bounded(c, d)) \/ (\E n \in 0..len : range = Suffix(n))
        BY <2>2 DEF Ranges, len
      <3>4. CASE \E c, d \in 0..len : range = Bounded(c, d)
        <4>1. PICK c, d \in 0..len : range = Bounded(c, d) BY <3>4
        <4> DEFINE e == IF d < len THEN d ELSE len - 1
        <4>2. c < len /\ d >= c /\ range = <<c, e>> BY <3>2, <4>1 DEF Bounded, len
        <4> QED BY <3>3, <4>1, <4>2
      <3>5. CASE \E n \in 0..len : range = Suffix(n)
        <4>1. PICK n \in 0..len : range = Suffix(n) BY <3>5
        <4>2. n \in 1..len /\ range = <<len - n, len - 1>> BY <3>2, <4>1 DEF Suffix, len
        <4> QED BY <3>3, <4>1, <4>2
      <3> QED BY <3>4, <3>5, <3>6
    <2>4. ASSUME NEW a, NEW b PROVE Served(<<a, b>>)' = Served(<<a, b>>)
      BY <2>1 DEF Served, HeaderByte
    <2>5. ASSUME reply'.status = 206
          PROVE  \E a, b \in Nat : a <= b /\ b < tier'.length
                                    /\ reply' = Range206(a, b, Served(<<a, b>>)')
      <3>1. PICK a, b \in Nat : a <= b /\ b < len /\ reply' = Range206(a, b, Served(<<a, b>>))
        BY <2>3, <2>5
      <3>2. Served(<<a, b>>)' = Served(<<a, b>>) BY <2>4
      <3>3. tier'.length = len BY <2>1
      <3> QED BY <3>1, <3>2, <3>3
    <2>6. (\E a, b \in Nat : a <= b /\ b < tier.length /\ reply = Range206(a, b, Served(<<a, b>>)))'
          <=> \E a, b \in Nat : a <= b /\ b < tier'.length
                                /\ reply' = Range206(a, b, Served(<<a, b>>)')
      BY DEF Range206
    <2>7. VirtualSize(Layout') = VirtualSize(Layout) BY <1>2
    <2> QED BY <1>1, <1>2, <2>1, <2>5, <2>6, <2>7 DEF TierInv, VirtualSize
  <1>10. CASE TierServed \/ UNCHANGED tierVars
    <2>1. UNCHANGED <<tier, reply>> BY <1>10 DEF TierServed, tierVars
    <2>2. ASSUME NEW a, NEW b PROVE Served(<<a, b>>)' = Served(<<a, b>>)
      BY <2>1 DEF Served, HeaderByte
    <2> QED BY <1>1, <1>2, <2>1, <2>2 DEF TierInv, VirtualSize
  <1> QED BY <1>5, <1>6, <1>7, <1>8, <1>9, <1>10 DEF TierNext

LEMMA ServedRight ==
  ASSUME FtypInHead, TierInv PROVE ChunksFound
  <1> SUFFICES ASSUME tier.mode = "faststart", MoovLast, reply.asked, reply.status = 206
               PROVE  ChunksFound
    BY DEF ChunksFound
  <1> DEFINE l == tier.layout
  <1>1. clip \in Clips /\ MoovBox # 0 /\ ~FrontMoov /\ l = Layout /\ tier.length = VirtualSize(l)
    BY DEF TierInv
  <1>2. /\ l.ftyp \in Nat /\ l.moov \in Nat /\ l.to \in Nat /\ l.from = l.ftyp
        /\ l.from <= l.to /\ \A o \in Chunks : o \in Nat /\ l.from < o /\ o < l.to
    BY <1>1, LayoutFits
  <1>3. PICK a, b \in Nat : a <= b /\ b < tier.length
                            /\ reply = Range206(a, b, Served(<<a, b>>))
    BY DEF TierInv
  <1> DEFINE bytes == Served(<<a, b>>)
  <1>4. reply.first = a /\ reply.last = b /\ reply.bytes = bytes
    <2> HIDE DEF bytes
    <2> QED BY <1>3 DEF Range206, bytes
  <1>5. /\ Len(bytes) = b + 1 - a /\ DOMAIN bytes = 1..(b + 1 - a)
        /\ \A k \in 1..(b + 1 - a) :
             /\ a + k - 1 < l.ftyp + l.moov => bytes[k] = HeaderByte(a + k - 1)
             /\ a + k - 1 >= l.ftyp + l.moov => bytes[k] = <<"file", a + k - 1 - l.moov>>
    <2>1. b < VirtualSize(l) /\ a <= b BY <1>1, <1>3
    <2>2. RightBytes(a, b) BY <1>2, <2>1, RangeIsRight
    <2> QED BY <2>2 DEF RightBytes
  <1>6. ASSUME NEW p \in Nat
        PROVE  HeaderByte(p) = IF p < l.ftyp THEN <<"ftyp", p>> ELSE <<"moov", p - l.ftyp>>
    BY DEF HeaderByte
  <1>7. tier.length = l.moov + l.to BY <1>1, <1>2 DEF VirtualSize
  <1> HIDE DEF l, bytes
  <1>8. \A o \in Chunks : o + l.moov < tier.length BY <1>2, <1>7
  <1>9. ASSUME NEW k \in 1..(b + 1 - a)
        PROVE  /\ \A o \in Chunks : a + k - 1 = o + l.moov => bytes[k] = <<"file", o>>
               /\ a + k - 1 \in l.ftyp..(l.ftyp + l.moov - 1)
                    => bytes[k] = <<"moov", a + k - 1 - l.ftyp>>
    <2>1. PICK p \in Nat : p = a + k - 1
      <3>1. a + k - 1 \in Nat OBVIOUS
      <3> QED BY <3>1
    <2>2. p < l.ftyp + l.moov => bytes[k] = HeaderByte(p) BY <1>5, <2>1
    <2>5. p >= l.ftyp + l.moov => bytes[k] = <<"file", p - l.moov>>
      <3>1. p >= l.ftyp + l.moov => bytes[k] = <<"file", a + k - 1 - l.moov>> BY <1>5, <2>1
      <3>2. p - l.moov = a + k - 1 - l.moov BY <1>2, <2>1
      <3> QED BY <3>1, <3>2, Zenon
    <2>6. HeaderByte(p) = IF p < l.ftyp THEN <<"ftyp", p>> ELSE <<"moov", p - l.ftyp>> BY <1>6
    <2>3. ASSUME NEW o \in Chunks, p = o + l.moov PROVE bytes[k] = <<"file", o>>
      <3>1. p >= l.ftyp + l.moov /\ p - l.moov = o BY <1>2, <2>3
      <3> QED BY <2>5, <3>1
    <2>4. ASSUME p \in l.ftyp..(l.ftyp + l.moov - 1)
          PROVE  bytes[k] = <<"moov", p - l.ftyp>>
      <3>1. p < l.ftyp + l.moov /\ ~(p < l.ftyp) BY <1>2, <2>1, <2>4
      <3> QED BY <2>2, <2>6, <3>1
    <2>7. p - l.ftyp = a + k - 1 - l.ftyp BY <1>2, <2>1
    <2> QED BY <2>1, <2>3, <2>4, <2>7, Zenon
  <1>10. DOMAIN reply.bytes = 1..(b + 1 - a) /\ Len(reply.bytes) = b + 1 - a BY <1>4, <1>5
  <1>11. ASSUME NEW k \in DOMAIN reply.bytes
         PROVE  /\ \A o \in Chunks : reply.first + k - 1 = o + l.moov
                                     => reply.bytes[k] = <<"file", o>>
                /\ reply.first + k - 1 \in l.ftyp..(l.ftyp + l.moov - 1)
                     => reply.bytes[k] = <<"moov", reply.first + k - 1 - l.ftyp>>
    <2>1. k \in 1..(b + 1 - a) BY <1>10
    <2>2. /\ \A o \in Chunks : a + k - 1 = o + l.moov => bytes[k] = <<"file", o>>
          /\ a + k - 1 \in l.ftyp..(l.ftyp + l.moov - 1)
               => bytes[k] = <<"moov", a + k - 1 - l.ftyp>>
      BY <1>9, <2>1
    <2> QED BY <1>4, <2>2, Zenon
  <1>12. Len(reply.bytes) = reply.last + 1 - reply.first BY <1>4, <1>10
  <1>13. \A k \in DOMAIN reply.bytes :
           /\ \A o \in Chunks : reply.first + k - 1 = o + tier.layout.moov
                                => reply.bytes[k] = <<"file", o>>
           /\ reply.first + k - 1 \in tier.layout.ftyp..(tier.layout.ftyp + tier.layout.moov - 1)
                => reply.bytes[k] = <<"moov", reply.first + k - 1 - tier.layout.ftyp>>
    BY <1>11 DEF l
  <1>14. \A o \in Chunks : o + tier.layout.moov < tier.length BY <1>8 DEF l
  <1>15. LET m == tier.layout  moved(o) == o + m.moov IN
         \A o \in Chunks : moved(o) < tier.length
    BY <1>14
  <1>16. LET m == tier.layout  moved(o) == o + m.moov IN
         \A k \in DOMAIN reply.bytes :
           LET at == reply.first + k - 1 IN
           \A o \in Chunks : at = moved(o) => reply.bytes[k] = <<"file", o>>
    BY <1>13
  <1>17. LET m == tier.layout  moved(o) == o + m.moov IN
         \A k \in DOMAIN reply.bytes :
           LET at == reply.first + k - 1 IN
           at \in m.ftyp..(m.ftyp + m.moov - 1) => reply.bytes[k] = <<"moov", at - m.ftyp>>
    <2>1. reply.first \in Nat /\ l.ftyp \in Nat /\ l.moov \in Nat BY <1>2, <1>4
    <2>2. \A k \in DOMAIN reply.bytes : k \in Nat BY <1>10
    <2>3. \A k \in DOMAIN reply.bytes :
            LET at == reply.first + k - 1 IN
            at \in l.ftyp..(l.ftyp + l.moov - 1) => reply.bytes[k] = <<"moov", at - l.ftyp>>
      BY <1>11, <2>1, <2>2
    <2> QED BY <2>3 DEF l
  <1> QED BY <1>12, <1>15, <1>16, <1>17 DEF ChunksFound

\* A player of an MP4 whose moov box comes last finds, in the virtual file, the bytes of each
\* chunk where the moved moov box says, in whatever ranges it asks, and every range is of the
\* length promised (mp4_parser.py, stream_proxy_handler_serve.py) - for every sequence of
\* boxes, provided the ftyp box is within the 64 KB read first: of a longer one nothing is
\* sent, and all that follows it is out of place.
THEOREM ChunksAreFound == ASSUME FtypInHead PROVE Init /\ [][Next]_vars => []ReachesChunks
  <1> DEFINE I == topic = "tier" => TierInv
  <1>1. Init => I
    <2> SUFFICES ASSUME Init, topic = "tier" PROVE TierInv OBVIOUS
    <2>1. TierInit BY DEF Init
    <2>2. clip \in Clips /\ tier = Ctx("new", 0, FALSE) /\ reply = [asked |-> FALSE]
      BY <2>1 DEF TierInit
    <2>3. tier.mode = "new" /\ ~reply.asked BY <2>2 DEF Ctx
    <2> QED BY <2>2, <2>3 DEF TierInv
  <1>2. I /\ [Next]_vars => I' BY TopicSteps, TierStep
  <1>3. I => ReachesChunks BY ServedRight DEF ReachesChunks
  <1> QED BY <1>1, <1>2, <1>3, PTL


-----------------------------------------------------------------------------
(* FallbackSelection.  A finite set can be put in the order of a relation  *)
(* that orders it: by the smallest subset of which this were false.        *)

TotalOrder(R, S) ==
  /\ \A x \in S : <<x, x>> \notin R
  /\ \A x, y \in S : x # y => <<x, y>> \in R \/ <<y, x>> \in R
  /\ \A x, y, z \in S : <<x, y>> \in R /\ <<y, z>> \in R => <<x, z>> \in R

\* A finite set has a greatest element ...
LEMMA Greatest ==
  ASSUME NEW S, IsFiniteSet(S), S # {}, NEW R,
         \A x, y \in S : <<x, y>> \in R \/ <<y, x>> \in R,
         \A x, y, z \in S : <<x, y>> \in R /\ <<y, z>> \in R => <<x, z>> \in R
  PROVE  \E m \in S : \A x \in S : <<x, m>> \in R
  <1> DEFINE Top(m, T) == \A x \in T : <<x, m>> \in R
             Lacks(T) == T # {} /\ ~ \E m \in T : Top(m, T)
             Sizes == {n \in Nat : \E T \in SUBSET S : Lacks(T) /\ Cardinality(T) = n}
  <1>1. ASSUME Sizes # {} PROVE FALSE
    <2>1. PICK n \in Sizes : \A m \in Sizes : n <= m
      <3>1. Sizes \in SUBSET Nat OBVIOUS
      <3> HIDE DEF Sizes
      <3> QED BY <1>1, <3>1, First
    <2>2. PICK T \in SUBSET S : Lacks(T) /\ Cardinality(T) = n BY <2>1
    <2>3. PICK x \in T : TRUE BY <2>2
    <2> DEFINE U == T \ {x}
    <2>4. IsFiniteSet(T) BY <2>2, FS_Subset
    <2>5. IsFiniteSet(U) /\ Cardinality(U) = n - 1 BY <2>2, <2>3, <2>4, FS_RemoveElement
    <2>6. Cardinality(U) \in Nat BY <2>5, FS_CardinalityType
    <2>7. ~ Lacks(U)
      <3> SUFFICES ASSUME Lacks(U) PROVE FALSE OBVIOUS
      <3>1. n - 1 \in Sizes BY <2>2, <2>5, <2>6
      <3>2. n \in Nat BY <2>1
      <3> HIDE DEF Sizes, Lacks
      <3> QED BY <2>1, <3>1, <3>2
    <2>8. <<x, x>> \in R /\ x \in S BY <2>2, <2>3
    <2>9. CASE U = {}
      <3>1. Top(x, T) BY <2>8, <2>9
      <3> QED BY <2>2, <2>3, <3>1
    <2>10. CASE U # {}
      <3>1. PICK m \in U : Top(m, U) BY <2>7, <2>10
      <3>2. m \in S /\ T \subseteq S BY <2>2, <3>1
      <3>3. CASE <<x, m>> \in R
        <4>1. Top(m, T) BY <3>1, <3>3
        <4> QED BY <2>2, <3>1, <4>1
      <3>4. CASE <<m, x>> \in R
        <4>1. \A y \in U : <<y, x>> \in R BY <2>8, <3>1, <3>2, <3>4
        <4>2. Top(x, T) BY <2>8, <4>1
        <4> QED BY <2>2, <2>3, <4>2
      <3> QED BY <2>8, <3>2, <3>3, <3>4
    <2> QED BY <2>9, <2>10
  <1>2. Cardinality(S) \in Nat BY FS_CardinalityType
  <1>3. ~ Lacks(S) BY <1>1, <1>2
  <1> QED BY <1>3

\* ... and a last one.
LEMMA Maximum ==
  ASSUME NEW S, IsFiniteSet(S), S # {}, NEW R, TotalOrder(R, S)
  PROVE  \E m \in S : \A x \in S \ {m} : <<x, m>> \in R
  <1> DEFINE E == {e \in S \X S : e[1] = e[2] \/ e \in R}
  <1>1. \A x, y \in S : <<x, y>> \in E <=> x = y \/ <<x, y>> \in R OBVIOUS
  <1> HIDE DEF E
  <1>2. \A x, y \in S : <<x, y>> \in E \/ <<y, x>> \in E BY <1>1 DEF TotalOrder
  <1>3. \A x, y, z \in S : <<x, y>> \in E /\ <<y, z>> \in E => <<x, z>> \in E
    BY <1>1 DEF TotalOrder
  <1>4. PICK m \in S : \A x \in S : <<x, m>> \in E BY <1>2, <1>3, Greatest
  <1> QED BY <1>1, <1>4

\* The order of the model is such an order.
InSequence(o, n, R) == \A k, m \in 1..n : k < m => <<o[k], o[m]>> \in R
LEMMA Ordered ==
  ASSUME NEW S, IsFiniteSet(S), NEW R, TotalOrder(R, S)
  PROVE  /\ Cardinality(S) \in Nat
         /\ InOrder(S, R) \in [1..Cardinality(S) -> S]
         /\ InSequence(InOrder(S, R), Cardinality(S), R)
  <1> DEFINE Lacks(T) == ~ \E o \in [1..Cardinality(T) -> T] : InSequence(o, Cardinality(T), R)
             Sizes == {n \in Nat : \E T \in SUBSET S : Lacks(T) /\ Cardinality(T) = n}
  <1>1. ASSUME Sizes # {} PROVE FALSE
    <2>1. PICK n \in Sizes : \A m \in Sizes : n <= m
      <3>1. Sizes \in SUBSET Nat OBVIOUS
      <3> HIDE DEF Sizes
      <3> QED BY <1>1, <3>1, First
    <2>2. PICK T \in SUBSET S : Lacks(T) /\ Cardinality(T) = n BY <2>1
    <2>3. IsFiniteSet(T) BY <2>2, FS_Subset
    <2>4. T # {}
      <3> SUFFICES ASSUME T = {} PROVE FALSE OBVIOUS
      <3>1. Cardinality(T) = 0 BY FS_EmptySet
      <3>2. [k \in 1..0 |-> 0] \in [1..0 -> T] OBVIOUS
      <3>3. InSequence([k \in 1..0 |-> 0], 0, R) BY DEF InSequence
      <3> QED BY <2>2, <3>1, <3>2, <3>3
    <2>5. TotalOrder(R, T) BY <2>2 DEF TotalOrder
    <2>6. PICK top \in T : \A x \in T \ {top} : <<x, top>> \in R BY <2>3, <2>4, <2>5, Maximum
    <2> DEFINE U == T \ {top}
    <2>7. IsFiniteSet(U) /\ Cardinality(U) = n - 1 BY <2>2, <2>3, <2>6, FS_RemoveElement
    <2>8. Cardinality(U) \in Nat BY <2>7, FS_CardinalityType
    <2>9. n \in Nat BY <2>1
    <2>10. ~ Lacks(U)
      <3> SUFFICES ASSUME Lacks(U) PROVE FALSE OBVIOUS
      <3>1. n - 1 \in Sizes BY <2>2, <2>7, <2>8
      <3> HIDE DEF Sizes, Lacks
      <3> QED BY <2>1, <2>9, <3>1
    <2>11. PICK o \in [1..(n - 1) -> U] : InSequence(o, n - 1, R) BY <2>7, <2>10
    <2> DEFINE more == [k \in 1..n |-> IF k = n THEN top ELSE o[k]]
    <2>12. \A k \in 1..n : k # n => k \in 1..(n - 1) /\ o[k] \in U /\ more[k] = o[k]
      <3>1. \A k \in 1..n : k # n => k \in 1..(n - 1) BY <2>9
      <3> QED BY <2>11, <3>1
    <2>13. more \in [1..n -> T] BY <2>6, <2>12
    <2>14. InSequence(more, n, R)
      <3> SUFFICES ASSUME NEW k \in 1..n, NEW m \in 1..n, k < m PROVE <<more[k], more[m]>> \in R
        BY DEF InSequence
      <3>1. k # n BY <2>9
      <3>2. more[k] = o[k] /\ o[k] \in U /\ k \in 1..(n - 1) BY <2>12, <3>1
      <3>3. CASE m = n BY <2>6, <3>2, <3>3
      <3>4. CASE m # n
        <4>1. more[m] = o[m] /\ m \in 1..(n - 1) BY <2>12, <3>4
        <4>2. <<o[k], o[m]>> \in R BY <2>11, <3>2, <4>1 DEF InSequence
        <4> HIDE DEF more
        <4> QED BY <3>2, <4>1, <4>2
      <3> QED BY <3>3, <3>4
    <2> HIDE DEF more
    <2> QED BY <2>2, <2>13, <2>14
  <1>2. Cardinality(S) \in Nat BY FS_CardinalityType
  <1>3. ~ Lacks(S) BY <1>1, <1>2
  <1>4. \E o \in [1..Cardinality(S) -> S] :
           \A k, m \in 1..Cardinality(S) : k < m => <<o[k], o[m]>> \in R
    BY <1>3 DEF InSequence
  <1>5. /\ InOrder(S, R) \in [1..Cardinality(S) -> S]
        /\ \A k, m \in 1..Cardinality(S) : k < m => <<InOrder(S, R)[k], InOrder(S, R)[m]>> \in R
    <2> DEFINE P(o) == \A k, m \in 1..Cardinality(S) : k < m => <<o[k], o[m]>> \in R
    <2>1. InOrder(S, R) = CHOOSE o \in [1..Cardinality(S) -> S] : P(o) BY Zenon DEF InOrder
    <2>2. \E o \in [1..Cardinality(S) -> S] : P(o) BY <1>4
    <2> HIDE DEF P
    <2>3. InOrder(S, R) \in [1..Cardinality(S) -> S] /\ P(InOrder(S, R)) BY <2>1, <2>2, Zenon
    <2> QED BY <2>3 DEF P
  <1> QED BY <1>2, <1>5 DEF InSequence

-----------------------------------------------------------------------------
(* FallbackSelection.  What is attached is taken from the candidates, each *)
(* fits the selected release and is another posting than all before it.    *)

Backups(att) ==
  \A k \in DOMAIN att :
    /\ ManifestFits(selected, peers[att[k]]) /\ OtherPosting(peers[att[k]], selected)
    /\ \A m \in 1..(k - 1) : OtherPosting(peers[att[k]], peers[att[m]])

\* A list of the values of f at the positions P, each once.
Lists(s, f, P) ==
  \E o \in [1..Len(s) -> P] :
    /\ \A i \in 1..Len(s) : s[i] = f[o[i]]
    /\ \A i, j \in 1..Len(s) : o[i] = o[j] => i = j
    /\ \A x \in P : \E i \in 1..Len(s) : o[i] = x

\* What is picked in the order of a relation are the values at the positions, each once.
LEMMA PickedIs ==
  ASSUME NEW T, NEW P, IsFiniteSet(P), NEW f, \A x \in P : f[x] \in T,
         NEW R, TotalOrder(R, P)
  PROVE  \E s \in Seq(T) : Picked(InOrder(P, R), f) = s /\ Lists(s, f, P)
  <1> DEFINE n == Cardinality(P)  o == InOrder(P, R)  s == [k \in 1..n |-> f[o[k]]]
  <1>1. n \in Nat /\ o \in [1..n -> P] /\ InSequence(o, n, R) BY Ordered
  <1> HIDE DEF o
  <1>2. Picked(o, f) = s BY <1>1 DEF Picked
  <1>3. \A k \in 1..n : f[o[k]] \in T BY <1>1
  <1>4. s \in Seq(T) BY <1>1, <1>3, IsASeq
  <1>5. Len(s) = n
    <2>1. DOMAIN s = 1..n /\ DOMAIN s = 1..Len(s) /\ Len(s) \in Nat BY <1>4, LenProperties
    <2> HIDE DEF s, n
    <2> QED BY <1>1, <2>1
  <1>6. \A i, j \in 1..n : i < j => o[i] # o[j]
    BY <1>1 DEF InSequence, TotalOrder
  <1>7. \A i, j \in 1..n : o[i] = o[j] => i = j
    <2> TAKE i, j \in 1..n
    <2>1. i \in Int /\ j \in Int BY <1>1
    <2> QED BY <1>6, <2>1
  <1>8. o \in Injection(1..n, P) BY <1>1, <1>7 DEF Injection, IsInjective
  <1>9. Cardinality(1..n) = n BY <1>1, FS_Interval
  <1>10. o \in Surjection(1..n, P) BY <1>8, <1>9, FS_Injection
  <1>11. \A x \in P : \E i \in 1..n : o[i] = x BY <1>10 DEF Surjection
  <1>12. \A i \in 1..n : s[i] = f[o[i]] OBVIOUS
  <1> HIDE DEF s, n
  <1>13. Lists(s, f, P) BY <1>1, <1>5, <1>7, <1>11, <1>12 DEF Lists
  <1> QED BY <1>2, <1>4, <1>13 DEF o

\* What is kept of a sequence are its elements at those positions, each once.
LEMMA KeptIs ==
  ASSUME NEW T, NEW seq \in Seq(T), NEW S \in SUBSET (DOMAIN seq)
  PROVE  \E s \in Seq(T) : Kept(seq, S) = s /\ Lists(s, seq, S)
  <1> DEFINE R == {e \in S \X S : e[1] < e[2]}
  <1>1. Len(seq) \in Nat /\ S \in SUBSET (1..Len(seq)) BY LenProperties
  <1>2. IsFiniteSet(S) BY <1>1, FS_Interval, FS_Subset
  <1>3. \A x, y \in S : <<x, y>> \in R <=> x < y OBVIOUS
  <1> HIDE DEF R
  <1>4. TotalOrder(R, S) BY <1>1, <1>3 DEF TotalOrder
  <1>5. \A x \in S : seq[x] \in T BY <1>1, ElementOfSeq
  <1>6. Kept(seq, S) = Picked(InOrder(S, R), seq) BY Zenon DEF Kept, R
  <1>7. \E s \in Seq(T) : Picked(InOrder(S, R), seq) = s /\ Lists(s, seq, S)
    BY <1>2, <1>4, <1>5, PickedIs
  <1> QED BY <1>6, <1>7

Sizes ==
  /\ cap \in Nat \ {0} /\ Len(peers) \in Nat /\ DOMAIN peers = 1..Len(peers)
  /\ taken \in 0..Len(peers)

\* What Consume gives once it has considered the first k candidates.
RunUpTo(r, some, k) ==
  /\ r \in [att : Seq(1..taken), miss : Nat, used : SUBSET (1..taken)]
  /\ r.used \subseteq some /\ Backups(r.att) /\ Len(r.att) <= cap
  /\ Len(r.att) < cap => r.used = some \cap (1..k)

LEMMA ConsiderNext ==
  ASSUME Sizes, NEW some \in SUBSET (1..taken), NEW k \in 1..Len(peers), NEW r,
         RunUpTo(r, some, k - 1)
  PROVE  RunUpTo(Consider(some, r, k), some, k)
  <1>1. /\ r \in [att : Seq(1..taken), miss : Nat, used : SUBSET (1..taken)]
        /\ r.att \in Seq(1..taken) /\ r.miss \in Nat /\ r.used \subseteq some
        /\ Backups(r.att) /\ Len(r.att) \in Nat /\ Len(r.att) <= cap
        /\ Len(r.att) < cap => r.used = some \cap (1..(k - 1))
        /\ cap \in Nat
    BY DEF RunUpTo, Sizes
  <1>2. CASE k \notin some \/ Len(r.att) >= cap
    <2>1. Consider(some, r, k) = r BY <1>2 DEF Consider
    <2>2. Len(r.att) < cap => some \cap (1..(k - 1)) = some \cap (1..k) BY <1>1, <1>2
    <2> QED BY <1>1, <2>1, <2>2 DEF RunUpTo
  <1>3. CASE k \in some /\ Len(r.att) < cap /\ Attachable(k, r.att)
    <2> DEFINE q == [r EXCEPT !.att = Append(@, k), !.used = @ \cup {k}]
    <2>1. Consider(some, r, k) = q BY <1>1, <1>3 DEF Consider
    <2>2. /\ q \in [att : Seq(1..taken), miss : Nat, used : SUBSET (1..taken)]
          /\ q.att = Append(r.att, k) /\ q.used = r.used \cup {k}
      BY <1>1, <1>3, AppendProperties
    <2>3. /\ Len(q.att) = Len(r.att) + 1 /\ DOMAIN q.att = 1..(Len(r.att) + 1)
          /\ \A m \in 1..Len(r.att) : q.att[m] = r.att[m]
          /\ q.att[Len(r.att) + 1] = k /\ DOMAIN r.att = 1..Len(r.att)
      BY <1>1, <1>3, <2>2, AppendProperties
    <2>4. r.used \cup {k} = some \cap (1..k) /\ r.used \cup {k} \subseteq some BY <1>1, <1>3
    <2>5. Backups(q.att)
      <3> SUFFICES ASSUME NEW n \in 1..(Len(r.att) + 1)
                   PROVE  /\ ManifestFits(selected, peers[q.att[n]])
                          /\ OtherPosting(peers[q.att[n]], selected)
                          /\ \A m \in 1..(n - 1) : OtherPosting(peers[q.att[n]], peers[q.att[m]])
        BY <2>3 DEF Backups
      <3>1. CASE n \in 1..Len(r.att)
        <4>1. n \in DOMAIN r.att BY <2>3, <3>1
        <4>2. \A m \in 1..(n - 1) : m \in 1..Len(r.att) BY <1>1, <3>1
        <4> HIDE DEF q
        <4> QED BY <1>1, <2>3, <3>1, <4>1, <4>2 DEF Backups
      <3>2. CASE n = Len(r.att) + 1
        <4>1. q.att[n] = k /\ k # 0 BY <2>3, <3>2
        <4>2. ManifestFits(selected, peers[k]) BY <1>3 DEF Attachable
        <4>3. OtherPosting(peers[k], selected)
          BY <1>3, <4>1 DEF Attachable, OtherPosting, Link, Digest
        <4>4. ASSUME NEW m \in 1..(n - 1) PROVE OtherPosting(peers[k], peers[q.att[m]])
          <5>1. m \in 1..Len(r.att) /\ m \in DOMAIN r.att BY <1>1, <2>3, <3>2
          <5>2. q.att[m] = r.att[m] /\ r.att[m] \in 1..taken
            <6>1. r.att[m] \in 1..taken BY <1>1, <5>1, ElementOfSeq
            <6> HIDE DEF q
            <6> QED BY <2>3, <5>1, <6>1
          <5>3. r.att[m] # 0 BY <5>2
          <5>4. /\ Link(k) # Link(r.att[m]) /\ OtherDigest(Digest(k), Digest(r.att[m]))
            BY <1>3, <5>1 DEF Attachable
          <5> HIDE DEF q
          <5> QED BY <4>1, <5>2, <5>3, <5>4 DEF OtherPosting, Link, Digest
        <4> HIDE DEF q
        <4> QED BY <4>1, <4>2, <4>3, <4>4
      <3> QED BY <1>1, <3>1, <3>2
    <2>6. Len(q.att) <= cap BY <1>1, <1>3, <2>3
    <2> HIDE DEF q
    <2> QED BY <2>1, <2>2, <2>4, <2>5, <2>6 DEF RunUpTo
  <1>4. CASE k \in some /\ Len(r.att) < cap /\ ~ Attachable(k, r.att)
    <2> DEFINE q == [r EXCEPT !.miss = @ + 1, !.used = @ \cup {k}]
    <2>1. Consider(some, r, k) = q BY <1>1, <1>4 DEF Consider
    <2>2. /\ q \in [att : Seq(1..taken), miss : Nat, used : SUBSET (1..taken)]
          /\ q.att = r.att /\ q.used = r.used \cup {k}
      <3> DEFINE p == [r EXCEPT !.miss = @ + 1]
      <3>1. /\ p \in [att : Seq(1..taken), miss : Nat, used : SUBSET (1..taken)]
            /\ p.att = r.att /\ p.used = r.used
        BY <1>1
      <3>2. q = [p EXCEPT !.used = @ \cup {k}] BY Zenon
      <3>3. p.used \cup {k} \in SUBSET (1..taken) BY <1>4, <3>1
      <3> HIDE DEF p, q
      <3> QED BY <3>1, <3>2, <3>3
    <2>3. r.used \cup {k} = some \cap (1..k) /\ r.used \cup {k} \subseteq some BY <1>1, <1>4
    <2> HIDE DEF q
    <2> QED BY <1>1, <2>1, <2>2, <2>3 DEF RunUpTo
  <1> QED BY <1>1, <1>2, <1>3, <1>4

\* Its recursion has a solution: by the smallest prefix for which there were none.
LEMMA ConsumeRecursion ==
  ASSUME Len(peers) \in Nat, NEW some, NEW att, NEW miss
  PROVE  \E u : /\ u[0] = [att |-> att, miss |-> miss, used |-> {}]
                /\ \A k \in 1..Len(peers) : u[k] = Consider(some, u[k - 1], k)
                /\ Consume(some, att, miss) = u[Len(peers)]
  <1> DEFINE base == [att |-> att, miss |-> miss, used |-> {}]
             Solves(u, n) == u = [k \in 0..n |-> IF k = 0 THEN base
                                                 ELSE Consider(some, u[k - 1], k)]
             Lacking == {n \in Nat : ~ \E u : Solves(u, n)}
  <1> HIDE DEF base
  <1>1. ASSUME Lacking # {} PROVE FALSE
    <2>1. PICK n \in Lacking : \A m \in Lacking : n <= m
      <3>1. Lacking \in SUBSET Nat OBVIOUS
      <3> HIDE DEF Lacking
      <3> QED BY <1>1, <3>1, First
    <2>2. n \in Nat /\ ~ \E u : Solves(u, n) BY <2>1
    <2>3. CASE n = 0
      <3>1. Solves([k \in 0..0 |-> base], 0) OBVIOUS
      <3> QED BY <2>2, <2>3, <3>1
    <2>4. CASE n # 0
      <3>1. n - 1 \in Nat /\ ~ (n - 1 \in Lacking)
        <4>1. n - 1 \in Nat BY <2>2, <2>4
        <4> HIDE DEF Lacking
        <4> QED BY <2>1, <2>2, <4>1
      <3>2. PICK u : Solves(u, n - 1) BY <3>1
      <3> DEFINE v == [k \in 0..n |-> IF k = n THEN Consider(some, u[n - 1], n) ELSE u[k]]
      <3>3. \A k \in 0..n : v[k] = IF k = 0 THEN base ELSE Consider(some, v[k - 1], k)
        <4> TAKE k \in 0..n
        <4>1. CASE k = n
          <5>1. v[n - 1] = u[n - 1] BY <2>2, <2>4, <3>1
          <5> QED BY <2>4, <4>1, <5>1
        <4>2. CASE k # n
          <5>1. k \in 0..(n - 1) /\ v[k] = u[k] BY <2>2, <4>2
          <5>2. CASE k = 0 BY <3>2, <5>1, <5>2
          <5>3. CASE k # 0
            <6>1. k - 1 \in 0..n /\ k - 1 # n BY <2>2, <5>1, <5>3
            <6>2. v[k - 1] = u[k - 1] BY <6>1
            <6>3. u[k] = Consider(some, u[k - 1], k) BY <3>2, <5>1, <5>3
            <6> QED BY <5>1, <5>3, <6>2, <6>3
          <5> QED BY <5>2, <5>3
        <4> QED BY <4>1, <4>2
      <3>4. v = [k \in 0..n |-> v[k]] OBVIOUS
      <3>5. Solves(v, n)
        <4> HIDE DEF v
        <4> QED BY <3>3, <3>4
      <3> QED BY <2>2, <3>5
    <2> QED BY <2>3, <2>4
  <1>2. \E u : Solves(u, Len(peers)) BY <1>1
  <1> DEFINE upTo == CHOOSE u : Solves(u, Len(peers))
  <1>3. Solves(upTo, Len(peers))
    <2> HIDE DEF Solves
    <2> QED BY <1>2
  <1>4. Consume(some, att, miss) = upTo[Len(peers)] BY Zenon DEF Consume, base
  <1> HIDE DEF upTo
  <1>5. upTo[0] = base BY <1>3
  <1>6. \A k \in 1..Len(peers) : upTo[k] = Consider(some, upTo[k - 1], k) BY <1>3
  <1> QED BY <1>4, <1>5, <1>6 DEF base

\* What Consume gives.
LEMMA ConsumeGives ==
  ASSUME Sizes, NEW some \in SUBSET (1..taken), NEW att \in Seq(1..taken), NEW miss \in Nat,
         Backups(att), Len(att) <= cap
  PROVE  LET r == Consume(some, att, miss)
         IN  /\ r \in [att : Seq(1..taken), miss : Nat, used : SUBSET (1..taken)]
             /\ r.used \subseteq some /\ Backups(r.att) /\ Len(r.att) <= cap
             /\ Len(r.att) < cap => r.used = some
  <1>0. Len(peers) \in Nat /\ taken \in 0..Len(peers) BY DEF Sizes
  <1>1. PICK u : /\ u[0] = [att |-> att, miss |-> miss, used |-> {}]
                 /\ \A k \in 1..Len(peers) : u[k] = Consider(some, u[k - 1], k)
                 /\ Consume(some, att, miss) = u[Len(peers)]
    BY <1>0, ConsumeRecursion
  <1> DEFINE Bad == {k \in 0..Len(peers) : ~ RunUpTo(u[k], some, k)}
  <1>2. ASSUME Bad # {} PROVE FALSE
    <2>1. PICK k \in Bad : \A m \in Bad : k <= m
      <3>1. Bad \in SUBSET Nat BY <1>0
      <3> HIDE DEF Bad
      <3> QED BY <1>2, <3>1, First
    <2>2. k # 0
      <3>1. RunUpTo(u[0], some, 0)
        <4>1. some \cap (1..0) = {} OBVIOUS
        <4> QED BY <1>1, <4>1 DEF RunUpTo
      <3> QED BY <2>1, <3>1
    <2>3. k \in 1..Len(peers) /\ k - 1 \in 0..Len(peers) BY <1>0, <2>1, <2>2
    <2>4. ~ (k - 1 \in Bad)
      <3>1. k \in Nat BY <2>3, <1>0
      <3> HIDE DEF Bad
      <3> QED BY <2>1, <3>1
    <2>5. RunUpTo(u[k - 1], some, k - 1) BY <2>3, <2>4
    <2>6. RunUpTo(u[k], some, k) BY <1>1, <2>3, <2>5, ConsiderNext
    <2> QED BY <2>1, <2>6
  <1>3. RunUpTo(u[Len(peers)], some, Len(peers)) BY <1>0, <1>2
  <1>4. some \cap (1..Len(peers)) = some
    <2>1. \A x \in 1..taken : x \in 1..Len(peers) BY <1>0
    <2> QED BY <2>1
  <1> QED BY <1>1, <1>3, <1>4 DEF RunUpTo

-----------------------------------------------------------------------------
(* FallbackSelection.  Every candidate taken from the results is in        *)
(* flight, on the queue, waiting to be looked at or looked at; and once    *)
(* nothing is under way any more, everything was taken and looked at.      *)

Counted ==
  /\ Sizes /\ misses \in Nat
  /\ inFlight \in SUBSET (0..taken) /\ arrived \in Seq(0..taken)
  /\ completed \in SUBSET (1..taken) /\ consumed \in SUBSET (1..taken)
  /\ attached \in Seq(1..taken) /\ Len(attached) <= cap /\ Backups(attached)
  /\ nextToAttach \in 1..(taken + 1)
NoneLost ==
  /\ \A i \in 1..taken : i \in inFlight \/ i \in Received \/ i \in completed \/ i \in consumed
  /\ step = "drain" /\ ~ selectedReady => 0 \in inFlight \/ 0 \in Received
LooksGoOn ==
  /\ step = "prime" => /\ taken = 0 /\ inFlight = {} /\ arrived = <<>>
                       /\ completed = {} /\ attached = <<>>
  /\ step = "drain" => Len(attached) < cap
  /\ step = "drain" /\ inFlight = {} /\ arrived = <<>> /\ canMatch =>
        completed = {} /\ taken = Len(peers)
  /\ step = "done" => inFlight = {} /\ arrived = <<>> /\ NoneForgotten
SelInv == Counted /\ NoneLost /\ LooksGoOn

\* What a step that looks at candidates leaves of those in comp and cons.
Looked(comp, cons) ==
  /\ completed' \subseteq comp /\ consumed' \in SUBSET (1..taken)
  /\ completed' \cup consumed' = comp \cup cons
  /\ attached' \in Seq(1..taken) /\ Len(attached') <= cap /\ Backups(attached')
  /\ misses' \in Nat
  /\ step' = IF Len(attached') < cap THEN "drain" ELSE "full"

LEMMA AdoptLooks ==
  ASSUME Sizes, NEW comp \in SUBSET (1..taken), NEW cons \in SUBSET (1..taken),
         NEW got \in [att : Seq(1..taken), miss : Nat, used : SUBSET (1..taken)],
         got.used \subseteq comp, Backups(got.att), Len(got.att) <= cap,
         Adopt(comp, cons, got)
  PROVE  Looked(comp, cons)
  <1>1. /\ attached' = got.att /\ misses' = got.miss
        /\ completed' = comp \ got.used /\ consumed' = cons \cup got.used
        /\ step' = IF Len(got.att) >= cap THEN "full" ELSE "drain"
    BY DEF Adopt
  <1>2. got.att \in Seq(1..taken) /\ got.miss \in Nat /\ got.used \in SUBSET (1..taken) OBVIOUS
  <1>3. Len(got.att) \in Nat /\ cap \in Nat BY <1>2 DEF Sizes
  <1>4. step' = IF Len(attached') < cap THEN "drain" ELSE "full" BY <1>1, <1>3
  <1>5. completed' \cup consumed' = comp \cup cons BY <1>1
  <1> QED BY <1>1, <1>2, <1>4, <1>5 DEF Looked

LEMMA FillLooks ==
  ASSUME Sizes, NEW comp \in SUBSET (1..taken), NEW cons \in SUBSET (1..taken),
         NEW run \in [att : Seq(1..taken), miss : Nat, used : SUBSET (1..taken)],
         Backups(run.att), Len(run.att) <= cap, NEW hurry, FillCap(comp, cons, run, hurry)
  PROVE  Looked(comp, cons)
  <1> DEFINE none == [run EXCEPT !.used = {}]
             all == Consume(comp, run.att, run.miss)
  <1>1. Adopt(comp, cons, all) \/ Adopt(comp, cons, none) BY DEF FillCap
  <1>2. run.att \in Seq(1..taken) /\ run.miss \in Nat OBVIOUS
  <1>3. /\ all \in [att : Seq(1..taken), miss : Nat, used : SUBSET (1..taken)]
        /\ all.used \subseteq comp /\ Backups(all.att) /\ Len(all.att) <= cap
    BY <1>2, ConsumeGives
  <1>4. /\ none \in [att : Seq(1..taken), miss : Nat, used : SUBSET (1..taken)]
        /\ none.used = {} /\ none.att = run.att
    OBVIOUS
  <1> HIDE DEF all, none
  <1>5. CASE Adopt(comp, cons, all) BY <1>3, <1>5, AdoptLooks
  <1>6. CASE Adopt(comp, cons, none) BY <1>4, <1>6, AdoptLooks
  <1> QED BY <1>1, <1>5, <1>6

\* The next candidate to attach, and the run of those before it.
LEMMA RunEndIs ==
  ASSUME taken \in Nat, nextToAttach \in 1..(taken + 1),
         NEW comp \in SUBSET (1..taken), NEW cons \in SUBSET (1..taken)
  PROVE  /\ RunEnd(comp, cons) \in 1..(taken + 1)
         /\ RunEnd(comp, cons) \notin comp \cup cons
  <1> DEFINE Free == {k \in nextToAttach..(taken + 1) : k \notin comp \cup cons}
  <1>1. taken + 1 \in Free OBVIOUS
  <1>2. PICK k \in Free : \A j \in Free : k <= j
    <2>1. Free \in SUBSET Nat OBVIOUS
    <2> HIDE DEF Free
    <2> QED BY <1>1, <2>1, First
  <1>3. \A j \in nextToAttach..(k - 1) : j \in comp \cup cons
    <2> TAKE j \in nextToAttach..(k - 1)
    <2>1. j \in nextToAttach..(taken + 1) /\ ~ (k <= j) BY <1>2
    <2>2. j \notin Free BY <1>2, <2>1
    <2> QED BY <2>1, <2>2
  <1>4. \E n \in nextToAttach..(taken + 1) :
          n \notin comp \cup cons /\ \A j \in nextToAttach..(n - 1) : j \in comp \cup cons
    BY <1>2, <1>3
  <1>5. RunEnd(comp, cons) \in nextToAttach..(taken + 1) /\ RunEnd(comp, cons) \notin comp \cup cons
    BY <1>4 DEF RunEnd
  <1> QED BY <1>5

\* Candidates are taken in order, and one at least as long as there is one.
LEMMA StartTakes ==
  ASSUME Sizes, NEW n \in Nat, NEW base \in SUBSET (0..taken), Start(n, base)
  PROVE  /\ taken' \in taken..Len(peers) /\ inFlight' \in SUBSET (0..taken')
         /\ base \subseteq inFlight' /\ \A i \in (taken + 1)..taken' : i \in inFlight'
         /\ n # 0 /\ inFlight' = {} => taken' = taken /\ taken = Len(peers)
  <1> DEFINE left == Len(peers) - taken
             new == IF n < left THEN n ELSE left
  <1>1. left \in Nat /\ new \in Nat /\ new <= left /\ taken \in Nat /\ Len(peers) \in Nat
    BY DEF Sizes
  <1>2. taken' = taken + new /\ inFlight' = base \cup {taken + k : k \in 1..new}
    BY Zenon DEF Start
  <1>3. n # 0 /\ new = 0 => taken = Len(peers) BY <1>1
  <1>4. taken' \in taken..Len(peers)
    <2> HIDE DEF new
    <2> QED BY <1>1, <1>2
  <1> HIDE DEF new, left
  <1>5. \A i \in (taken + 1)..taken' : i \in inFlight'
    <2> TAKE i \in (taken + 1)..taken'
    <2>1. i - taken \in 1..new /\ i = taken + (i - taken) BY <1>1, <1>2
    <2> QED BY <1>2, <2>1
  <1>6. inFlight' = {} => new = 0
    <2>1. new # 0 => taken + 1 \in inFlight' BY <1>1, <1>2
    <2> QED BY <2>1
  <1>7. inFlight' \in SUBSET (0..taken')
    <2>1. \A k \in 1..new : taken + k \in 0..taken' BY <1>1, <1>2
    <2>2. \A i \in 0..taken : i \in 0..taken' BY <1>1, <1>2
    <2> QED BY <1>2, <2>1, <2>2
  <1> QED BY <1>1, <1>2, <1>3, <1>4, <1>5, <1>6, <1>7

LEMMA RoomIs ==
  ASSUME cap \in Nat, NEW active \in Int, NEW comp \in Nat, NEW att \in Nat, NEW miss \in Nat,
         att < cap
  PROVE  /\ Room(active, comp, att, miss) \in Nat
         /\ active = 0 /\ comp = 0 => Room(active, comp, att, miss) # 0
  <1> DEFINE spec == IF miss < cap - att THEN miss ELSE cap - att
             a == cap - active
             b == cap + spec - att - active - comp
  <1>1. spec \in Nat OBVIOUS
  <1>2. Room(active, comp, att, miss) = IF a <= 0 \/ b <= 0 THEN 0 ELSE IF a < b THEN a ELSE b
    BY Zenon DEF Room
  <1> HIDE DEF spec
  <1>3. a \in Int /\ b \in Int BY <1>1
  <1>4. active = 0 /\ comp = 0 => a > 0 /\ b > 0 BY <1>1
  <1> HIDE DEF a, b
  <1> QED BY <1>2, <1>3, <1>4

LEMMA BackupsKept ==
  ASSUME UNCHANGED <<selected, peers>>, Backups(attached')
  PROVE  Backups(attached)'
  BY DEF Backups

LEMMA Wider ==
  ASSUME NEW S, NEW T, S \subseteq T, NEW s \in Seq(S)
  PROVE  s \in Seq(T)
  <1>1. Len(s) \in Nat /\ DOMAIN s = 1..Len(s) /\ s = [k \in 1..Len(s) |-> s[k]] BY LenProperties
  <1>2. \A k \in 1..Len(s) : s[k] \in T BY ElementOfSeq
  <1> QED BY <1>1, <1>2, IsASeq

LEMMA OneMore ==
  ASSUME NEW t \in Nat, NEW u \in Nat, t <= u, NEW n \in 1..(t + 1)
  PROVE  n \in 1..(u + 1)
  OBVIOUS

\* The counts hold again when every part is within what was taken.
LEMMA CountedAgain ==
  ASSUME Counted, UNCHANGED <<selected, peers, cap>>, taken' \in taken..Len(peers),
         inFlight' \in SUBSET (0..taken'), arrived' \in Seq(0..taken),
         completed' \in SUBSET (1..taken), consumed' \in SUBSET (1..taken),
         attached' \in Seq(1..taken), Len(attached') <= cap, Backups(attached'),
         misses' \in Nat, nextToAttach' \in 1..(taken + 1)
  PROVE  Counted'
  <1>1. taken \in Nat /\ taken' \in Nat /\ taken <= taken' BY DEF Counted, Sizes
  <1>2. 0..taken \subseteq 0..taken' /\ 1..taken \subseteq 1..taken' BY <1>1
  <1>3. arrived' \in Seq(0..taken') /\ attached' \in Seq(1..taken') BY <1>2, Wider
  <1>4. nextToAttach' \in 1..(taken' + 1)
    <2> QED BY <1>1, OneMore
  <1>5. Backups(attached)' BY BackupsKept
  <1>6. Sizes'
    <2>1. Sizes BY DEF Counted
    <2> QED BY <2>1, <1>1 DEF Sizes
  <1>7. completed' \in SUBSET (1..taken') /\ consumed' \in SUBSET (1..taken') BY <1>2
  <1> QED BY <1>3, <1>4, <1>5, <1>6, <1>7 DEF Counted

\* What Receive leaves, before it asks for more candidates.
Absorbed ==
  /\ completed' \in SUBSET (1..taken) /\ consumed' \in SUBSET (1..taken)
  /\ \A j \in 1..taken : j \in completed \/ j \in consumed \/ j = Head(arrived) =>
        j \in completed' \/ j \in consumed'
  /\ attached' \in Seq(1..taken) /\ Len(attached') <= cap /\ Backups(attached')
  /\ misses' \in Nat /\ nextToAttach' \in 1..(taken + 1)
  /\ step' \in {"drain", "full", "cannot"}
  /\ step' = "drain" => Len(attached') < cap
  /\ step' = "drain" /\ selectedReady' /\ canMatch'
       /\ (\A j \in 1..taken : j \in completed \/ j \in consumed \/ j = Head(arrived)) =>
        completed' = {}
  /\ step' = "drain" /\ ~ selectedReady' => ~ selectedReady /\ Head(arrived) # 0

LEMMA ReceiveAbsorbs ==
  ASSUME SelInv, Receive
  PROVE  Absorbed
  <1> DEFINE i == Head(arrived)
             ready == selectedReady \/ i = 0
             comp == IF i = 0 THEN completed ELSE completed \cup {i}
             run == Consume(Ready(comp, consumed), attached, misses)
  <1>0. Counted /\ Sizes /\ taken \in Nat /\ step = "drain" /\ arrived # <<>>
    BY DEF SelInv, Counted, Sizes, Receive
  <1>1. i \in 0..taken BY <1>0, HeadTailProperties DEF Counted
  <1>2. comp \in SUBSET (1..taken) /\ consumed \in SUBSET (1..taken)
    <2>1. completed \in SUBSET (1..taken) /\ consumed \in SUBSET (1..taken)
      BY <1>0 DEF Counted
    <2>2. i # 0 => i \in 1..taken BY <1>0, <1>1
    <2> HIDE DEF i
    <2> QED BY <2>1, <2>2
  <1>3. /\ selectedReady' = ready
        /\ IF ~ready
           THEN /\ completed' = comp
                /\ UNCHANGED <<consumed, nextToAttach, attached, misses, step>>
           ELSE IF ~canMatch'
           THEN /\ step' = "cannot" /\ completed' = comp
                /\ UNCHANGED <<consumed, nextToAttach, attached, misses>>
           ELSE nextToAttach' = RunEnd(comp, consumed) /\ AttachReady(comp, run)
    BY DEF Receive
  <1>4. /\ attached \in Seq(1..taken) /\ Len(attached) <= cap /\ Backups(attached)
        /\ misses \in Nat /\ nextToAttach \in 1..(taken + 1) /\ Len(attached) < cap
    BY <1>0 DEF Counted, SelInv, LooksGoOn
  <1>5. \A j \in 1..taken : j \in completed \/ j = i => j \in comp OBVIOUS
  <1>6. ~ ready => ~ selectedReady /\ i # 0 OBVIOUS
  <1>7. CASE ~ ready
    <2> HIDE DEF i, ready, comp, run
    <2> QED BY <1>0, <1>2, <1>3, <1>4, <1>5, <1>6, <1>7 DEF Absorbed, i
  <1>8. CASE ready /\ ~ canMatch'
    <2> HIDE DEF i, ready, comp, run
    <2> QED BY <1>0, <1>2, <1>3, <1>4, <1>5, <1>8 DEF Absorbed, i
  <1>9. CASE ready /\ canMatch'
    <2>1. Ready(comp, consumed) \in SUBSET (1..taken) /\ Ready(comp, consumed) \subseteq comp
      BY <1>2 DEF Ready
    <2>2. /\ run \in [att : Seq(1..taken), miss : Nat, used : SUBSET (1..taken)]
          /\ run.used \subseteq Ready(comp, consumed) /\ Backups(run.att) /\ Len(run.att) <= cap
          /\ Len(run.att) < cap => run.used = Ready(comp, consumed)
      BY <1>0, <1>4, <2>1, ConsumeGives
    <2>3. /\ RunEnd(comp, consumed) \in 1..(taken + 1)
          /\ RunEnd(comp, consumed) \notin comp \cup consumed
      BY <1>0, <1>2, <1>4, RunEndIs
    <2>4. (\A j \in 1..taken : j \in comp \/ j \in consumed) => Ready(comp, consumed) = comp
      <3> SUFFICES ASSUME \A j \in 1..taken : j \in comp \/ j \in consumed
                   PROVE  Ready(comp, consumed) = comp
        OBVIOUS
      <3> HIDE DEF comp
      <3>1. RunEnd(comp, consumed) = taken + 1 BY <1>0, <2>3
      <3>2. \A j \in comp : j < taken + 1 BY <1>0, <1>2
      <3> QED BY <3>1, <3>2 DEF Ready
    <2>5. nextToAttach' \in 1..(taken + 1) /\ AttachReady(comp, run) /\ selectedReady'
      BY <1>3, <1>9, <2>3
    <2> HIDE DEF ready, comp, run
    <2>6. /\ run.att \in Seq(1..taken) /\ Len(run.att) \in Nat
          /\ cap \in Nat /\ run.used \subseteq comp
      BY <1>0, <2>1, <2>2 DEF Sizes
    <2>7. CASE Len(run.att) >= cap
      <3>1. Adopt(comp, consumed, run) BY <2>5, <2>7 DEF AttachReady
      <3>2. Looked(comp, consumed) BY <1>0, <1>2, <2>2, <2>6, <3>1, AdoptLooks
      <3>3. step' = "full" BY <2>7, <3>1 DEF Adopt
      <3> QED BY <1>2, <1>5, <2>5, <3>2, <3>3 DEF Absorbed, Looked, i
    <2>8. CASE Len(run.att) < cap
      <3> DEFINE left == comp \ run.used
                 seen == consumed \cup run.used
      <3>0. ~ (Len(run.att) >= cap) BY <2>6, <2>8
      <3>1. FillCap(left, seen, run, FALSE) BY <2>5, <3>0, Zenon DEF AttachReady
      <3>2. left \in SUBSET (1..taken) /\ seen \in SUBSET (1..taken) BY <1>2, <2>6
      <3>3. (\A j \in 1..taken : j \in comp \/ j \in consumed) => left = {}
        BY <2>2, <2>4, <2>8
      <3>4. left \cup seen = comp \cup consumed /\ left \subseteq comp BY <2>6
      <3> HIDE DEF left, seen
      <3>5. Looked(left, seen) BY <1>0, <2>2, <3>1, <3>2, FillLooks
      <3>6. /\ completed' \subseteq left /\ consumed' \in SUBSET (1..taken)
            /\ completed' \cup consumed' = comp \cup consumed
            /\ attached' \in Seq(1..taken) /\ Len(attached') <= cap /\ Backups(attached')
            /\ misses' \in Nat /\ step' \in {"drain", "full"}
            /\ step' = "drain" => Len(attached') < cap
        BY <3>4, <3>5 DEF Looked
      <3>7. completed' \in SUBSET (1..taken) BY <3>2, <3>6
      <3>8. (\A j \in 1..taken : j \in completed \/ j \in consumed \/ j = i) => completed' = {}
        BY <1>5, <3>3, <3>6
      <3>9. \A j \in 1..taken : j \in completed \/ j \in consumed \/ j = i =>
               j \in completed' \/ j \in consumed'
        BY <1>5, <3>6
      <3> QED BY <2>5, <3>6, <3>7, <3>8, <3>9 DEF Absorbed, i
    <2> QED BY <2>6, <2>7, <2>8
  <1> QED BY <1>7, <1>8, <1>9

\* What is taken off the queue, and what is put on it.
LEMMA ReceivedTail ==
  ASSUME NEW S, arrived \in Seq(S), arrived # <<>>, arrived' = Tail(arrived)
  PROVE  \A i : i \in Received <=> i = Head(arrived) \/ i \in Received'
  <1>1. /\ Len(arrived) \in Nat /\ Len(arrived) # 0 /\ DOMAIN arrived = 1..Len(arrived)
        /\ Tail(arrived) \in Seq(S) /\ Len(Tail(arrived)) = Len(arrived) - 1
        /\ \A k \in 1..Len(Tail(arrived)) : Tail(arrived)[k] = arrived[k + 1]
        /\ Head(arrived) = arrived[1]
    BY HeadTailProperties, EmptySeq, LenProperties
  <1>2. DOMAIN Tail(arrived) = 1..(Len(arrived) - 1) BY <1>1, LenProperties
  <1> SUFFICES ASSUME NEW i PROVE i \in Received <=> i = Head(arrived) \/ i \in Received'
    OBVIOUS
  <1>3. Received' = {Tail(arrived)[k] : k \in 1..(Len(arrived) - 1)} BY <1>2 DEF Received
  <1>4. ASSUME i \in Received PROVE i = Head(arrived) \/ i \in Received'
    <2>1. PICK k \in 1..Len(arrived) : i = arrived[k] BY <1>1, <1>4 DEF Received
    <2>2. CASE k = 1 BY <1>1, <2>1, <2>2
    <2>3. CASE k # 1
      <3>1. k - 1 \in 1..(Len(arrived) - 1) /\ (k - 1) + 1 = k BY <1>1, <2>3
      <3>2. Tail(arrived)[k - 1] = arrived[k] BY <1>1, <3>1
      <3> QED BY <1>3, <2>1, <3>1, <3>2
    <2> QED BY <2>2, <2>3
  <1>5. ASSUME i \in Received' PROVE i \in Received
    <2>1. PICK k \in 1..(Len(arrived) - 1) : i = Tail(arrived)[k] BY <1>3, <1>5
    <2>2. i = arrived[k + 1] /\ k + 1 \in 1..Len(arrived) BY <1>1, <2>1
    <2> QED BY <1>1, <2>2 DEF Received
  <1>6. Head(arrived) \in Received
    <2>1. 1 \in 1..Len(arrived) BY <1>1
    <2> QED BY <1>1, <2>1 DEF Received
  <1> QED BY <1>4, <1>5, <1>6

LEMMA ReceivedAppend ==
  ASSUME NEW S, arrived \in Seq(S), NEW e \in S, arrived' = Append(arrived, e)
  PROVE  /\ arrived' \in Seq(S) /\ arrived' # <<>>
         /\ \A i : i \in Received' <=> i = e \/ i \in Received
  <1>1. /\ Len(arrived) \in Nat /\ DOMAIN arrived = 1..Len(arrived)
        /\ Append(arrived, e) \in Seq(S) /\ Len(Append(arrived, e)) = Len(arrived) + 1
        /\ \A k \in 1..Len(arrived) : Append(arrived, e)[k] = arrived[k]
        /\ Append(arrived, e)[Len(arrived) + 1] = e
    BY AppendProperties, LenProperties
  <1>2. DOMAIN Append(arrived, e) = 1..(Len(arrived) + 1) BY <1>1, LenProperties
  <1>3. Received' = {Append(arrived, e)[k] : k \in 1..(Len(arrived) + 1)} BY <1>2 DEF Received
  <1>4. \A k \in 1..(Len(arrived) + 1) : k = Len(arrived) + 1 \/ k \in 1..Len(arrived) BY <1>1
  <1>5. /\ Len(arrived) + 1 \in 1..(Len(arrived) + 1)
        /\ \A k \in 1..Len(arrived) : k \in 1..(Len(arrived) + 1)
    BY <1>1
  <1>6. \A i : i \in Received' <=> i = e \/ i \in Received
    <2> SUFFICES ASSUME NEW i PROVE i \in Received' <=> i = e \/ i \in Received OBVIOUS
    <2>1. i \in Received' => i = e \/ i \in Received BY <1>1, <1>3, <1>4 DEF Received
    <2>2. i = e => i \in Received' BY <1>1, <1>3, <1>5
    <2>3. i \in Received => i \in Received' BY <1>1, <1>3, <1>5 DEF Received
    <2> QED BY <2>1, <2>2, <2>3
  <1>7. Append(arrived, e) # <<>> BY <1>1
  <1> QED BY <1>1, <1>6, <1>7

\* The candidates under way are counted.
LEMMA ActiveIs ==
  ASSUME Counted
  PROVE  /\ ActiveCandidates \in Nat /\ Active \in Nat /\ IsFiniteSet(inFlight)
         /\ \A i : ActiveCandidates = 0 /\ i \in inFlight \cup Received => i = 0
         /\ Active = 0 => inFlight = {} /\ arrived = <<>>
         /\ \A i \in 1..taken : inFlight = {} /\ Received = {i} => ActiveCandidates = 1
         /\ inFlight = {} /\ Received = {0} => ActiveCandidates = 0
  <1> DEFINE U == (inFlight \cup Received) \ {0}
  <1>1. taken \in Nat /\ inFlight \in SUBSET (0..taken) /\ arrived \in Seq(0..taken)
    BY DEF Counted, Sizes
  <1>2. IsFiniteSet(0..taken) BY <1>1, FS_Interval
  <1>3. Received \subseteq 0..taken
    <2>1. \A k \in DOMAIN arrived : arrived[k] \in 0..taken BY <1>1, LenProperties, ElementOfSeq
    <2> QED BY <2>1 DEF Received
  <1>4. IsFiniteSet(U) /\ IsFiniteSet(inFlight) BY <1>1, <1>2, <1>3, FS_Subset
  <1>5. /\ Cardinality(U) \in Nat /\ Cardinality(inFlight) \in Nat /\ Len(arrived) \in Nat
        /\ Cardinality(U) = 0 <=> U = {}
        /\ Cardinality(inFlight) = 0 <=> inFlight = {}
    BY <1>1, <1>4, FS_CardinalityType, FS_EmptySet, LenProperties
  <1>6. ActiveCandidates = Cardinality(U) BY DEF ActiveCandidates
  <1>7. Active = Cardinality(inFlight) + Len(arrived) BY DEF Active
  <1>8. Len(arrived) = 0 => arrived = <<>> BY <1>1, EmptySeq
  <1>9. \A i \in 1..taken : inFlight = {} /\ Received = {i} => Cardinality(U) = 1
    <2> SUFFICES ASSUME NEW i \in 1..taken, inFlight = {}, Received = {i} PROVE Cardinality(U) = 1
      OBVIOUS
    <2>1. U = {i} BY <1>1
    <2> HIDE DEF U
    <2> QED BY <2>1, FS_Singleton
  <1>10. inFlight = {} /\ Received = {0} => U = {} OBVIOUS
  <1>11. \A i : U = {} /\ i \in inFlight \cup Received => i = 0 OBVIOUS
  <1> HIDE DEF U
  <1> QED BY <1>4, <1>5, <1>6, <1>7, <1>8, <1>9, <1>10, <1>11

LEMMA PrimeKeeps ==
  ASSUME SelInv, Prime
  PROVE  SelInv'
  <1>1. /\ Counted /\ Sizes /\ taken = 0 /\ inFlight = {} /\ arrived = <<>> /\ completed = {}
        /\ attached = <<>> /\ step = "prime" /\ cap \in Nat \ {0} /\ Len(peers) \in Nat
        /\ misses \in Nat /\ nextToAttach \in 1..(taken + 1) /\ consumed \in SUBSET (1..taken)
    BY DEF SelInv, Counted, Sizes, LooksGoOn, Prime
  <1>2. UNCHANGED <<selected, peers, cap, arrived, selectedReady, canMatch, completed, consumed,
                    nextToAttach, attached, misses, settling>>
    BY DEF Prime
  <1>3. /\ attached \in Seq(1..taken) /\ Backups(attached) /\ Len(attached) = 0
        /\ arrived \in Seq(0..taken)
    BY <1>1 DEF Counted
  <1>4. CASE peers = <<>>
    <2>1. step' = "none" /\ UNCHANGED <<taken, inFlight>> BY <1>1, <1>4 DEF Prime
    <2>2. Received' = Received BY <1>2 DEF Received
    <2>3. taken' \in taken..Len(peers) BY <1>1, <2>1
    <2>4. Counted' BY <1>1, <1>2, <1>3, <2>1, <2>3, CountedAgain
    <2>5. NoneLost' BY <1>1, <2>1 DEF NoneLost
    <2>6. LooksGoOn' BY <2>1 DEF LooksGoOn
    <2> QED BY <2>4, <2>5, <2>6 DEF SelInv
  <1>5. CASE peers # <<>>
    <2> DEFINE base == IF selectedReady THEN {} ELSE {0}
    <2>1. step' = "drain" /\ Start(cap, base) BY <1>5 DEF Prime
    <2>2. base \in SUBSET (0..taken) /\ (~ selectedReady => 0 \in base) BY <1>1
    <2> HIDE DEF base
    <2>3. /\ taken' \in taken..Len(peers) /\ inFlight' \in SUBSET (0..taken')
          /\ base \subseteq inFlight' /\ \A i \in (taken + 1)..taken' : i \in inFlight'
          /\ inFlight' = {} => taken' = Len(peers)
      BY <1>1, <2>1, <2>2, StartTakes
    <2>4. Counted' BY <1>1, <1>2, <1>3, <2>3, CountedAgain
    <2>5. NoneLost'
      <3>1. \A i \in 1..taken' : i \in inFlight' BY <1>1, <2>3
      <3>2. ~ selectedReady => 0 \in inFlight' BY <2>2, <2>3
      <3> QED BY <1>2, <3>1, <3>2 DEF NoneLost
    <2>6. LooksGoOn' BY <1>1, <1>2, <1>3, <2>1, <2>3 DEF LooksGoOn
    <2> QED BY <2>4, <2>5, <2>6 DEF SelInv
  <1> QED BY <1>4, <1>5

LEMMA FetchKeeps ==
  ASSUME SelInv, Selecting, NEW i \in inFlight, FetchDone(i)
  PROVE  SelInv'
  <1>1. /\ Counted /\ inFlight \in SUBSET (0..taken) /\ taken \in Nat /\ arrived \in Seq(0..taken)
        /\ Len(peers) \in Nat /\ taken \in 0..Len(peers)
    BY DEF SelInv, Counted, Sizes
  <1>2. /\ inFlight' = inFlight \ {i} /\ arrived' = Append(arrived, i)
        /\ UNCHANGED <<selected, peers, cap, step, taken, exhausted, selectedReady, canMatch,
                       completed, consumed, nextToAttach, attached, misses, settling>>
    BY DEF FetchDone
  <1>3. i \in 0..taken /\ step = "drain" BY <1>1 DEF SelInv, LooksGoOn, Selecting
  <1>4. /\ arrived' \in Seq(0..taken) /\ arrived' # <<>>
        /\ \A j : j \in Received' <=> j = i \/ j \in Received
    BY <1>1, <1>2, <1>3, ReceivedAppend
  <1>5. taken' \in taken..Len(peers) /\ inFlight' \in SUBSET (0..taken') BY <1>1, <1>2
  <1>6. /\ completed \in SUBSET (1..taken) /\ consumed \in SUBSET (1..taken)
        /\ attached \in Seq(1..taken) /\ Len(attached) <= cap /\ Backups(attached)
        /\ misses \in Nat /\ nextToAttach \in 1..(taken + 1)
    BY <1>1 DEF Counted
  <1>7. Counted' BY <1>1, <1>2, <1>4, <1>5, <1>6, CountedAgain
  <1>8. \A j : j \in inFlight \/ j \in Received => j \in inFlight' \/ j \in Received'
    BY <1>2, <1>4
  <1>9. NoneLost' BY <1>2, <1>8 DEF SelInv, NoneLost
  <1>10. LooksGoOn' BY <1>2, <1>3, <1>4 DEF SelInv, LooksGoOn
  <1> QED BY <1>7, <1>9, <1>10 DEF SelInv

LEMMA ReceiveKeeps ==
  ASSUME SelInv, Receive
  PROVE  SelInv'
  <1> DEFINE i == Head(arrived)
             active == ActiveCandidates - (IF i = 0 THEN 0 ELSE 1)
             room == Room(active, Cardinality(completed'), Len(attached'), misses')
  <1>0. /\ Counted /\ Sizes /\ step = "drain" /\ arrived # <<>> /\ arrived \in Seq(0..taken)
        /\ taken \in Nat /\ Len(peers) \in Nat /\ cap \in Nat
        /\ inFlight \in SUBSET (0..taken) /\ taken \in 0..Len(peers)
    BY DEF SelInv, Counted, Sizes, Receive
  <1>1. Absorbed BY ReceiveAbsorbs
  <1>2. /\ arrived' = Tail(arrived) /\ UNCHANGED <<selected, peers, cap>>
        /\ IF step' = "drain" THEN Start(room, inFlight)
           ELSE UNCHANGED <<taken, exhausted, inFlight>>
    BY DEF Receive
  <1>3. \A j : j \in Received <=> j = i \/ j \in Received' BY <1>0, <1>2, ReceivedTail
  <1>4. arrived' \in Seq(0..taken) /\ i \in 0..taken BY <1>0, <1>2, HeadTailProperties
  <1>5. ActiveCandidates \in Nat BY <1>0, ActiveIs
  <1>6. /\ completed' \in SUBSET (1..taken) /\ consumed' \in SUBSET (1..taken)
        /\ \A j \in 1..taken : j \in completed \/ j \in consumed \/ j = i =>
              j \in completed' \/ j \in consumed'
        /\ attached' \in Seq(1..taken) /\ Len(attached') <= cap /\ Backups(attached')
        /\ misses' \in Nat /\ nextToAttach' \in 1..(taken + 1)
        /\ step' \in {"drain", "full", "cannot"}
        /\ step' = "drain" => Len(attached') < cap
        /\ step' = "drain" /\ selectedReady' /\ canMatch'
             /\ (\A j \in 1..taken : j \in completed \/ j \in consumed \/ j = i) =>
              completed' = {}
        /\ step' = "drain" /\ ~ selectedReady' => ~ selectedReady /\ i # 0
    BY <1>1 DEF Absorbed
  <1>7. Cardinality(completed') \in Nat /\ (completed' = {} => Cardinality(completed') = 0)
    <2>1. IsFiniteSet(1..taken) BY <1>0, FS_Interval
    <2>2. IsFiniteSet(completed') BY <1>6, <2>1, FS_Subset
    <2> QED BY <2>2, FS_CardinalityType, FS_EmptySet
  <1>8. Len(attached') \in Nat BY <1>6
  <1>9. step' = "drain" => room \in Nat
    <2>1. active \in Int BY <1>5
    <2> HIDE DEF active, i
    <2> QED BY <1>0, <1>6, <1>7, <1>8, <2>1, RoomIs
  <1>10. inFlight = {} /\ arrived' = <<>> => active = 0
    <2> SUFFICES ASSUME inFlight = {}, arrived' = <<>> PROVE active = 0 OBVIOUS
    <2>1. Received' = {} BY DEF Received
    <2>2. Received = {i}
      <3> HIDE DEF i
      <3> QED BY <1>3, <2>1
    <2>3. CASE i = 0
      <3>1. ActiveCandidates = 0 BY <1>0, <2>2, <2>3, ActiveIs
      <3> HIDE DEF i
      <3> QED BY <2>3, <3>1
    <2>4. CASE i # 0
      <3>1. i \in 1..taken BY <1>0, <1>4, <2>4
      <3>2. ActiveCandidates = 1 BY <1>0, <2>2, <3>1, ActiveIs
      <3> QED BY <2>4, <3>2
    <2> QED BY <2>3, <2>4
  <1> HIDE DEF room, active, i
  <1>11. /\ taken' \in taken..Len(peers) /\ inFlight' \in SUBSET (0..taken')
         /\ inFlight \subseteq inFlight' /\ \A j \in (taken + 1)..taken' : j \in inFlight'
         /\ step' = "drain" /\ room # 0 /\ inFlight' = {} => taken' = taken /\ taken = Len(peers)
    <2>1. CASE step' = "drain"
      <3>1. Start(room, inFlight) BY <1>2, <2>1
      <3> QED BY <1>0, <1>9, <2>1, <3>1, StartTakes
    <2>2. CASE step' # "drain"
      <3>1. UNCHANGED <<taken, inFlight>> BY <1>2, <2>2
      <3>2. (taken + 1)..taken = {} /\ taken' \in taken..Len(peers) BY <1>0, <3>1
      <3> QED BY <1>0, <2>2, <3>1, <3>2
    <2> QED BY <2>1, <2>2
  <1>12. Counted' BY <1>0, <1>2, <1>4, <1>6, <1>11, CountedAgain
  <1>13. NoneLost'
    <2>1. \A j \in 1..taken' : j \in 1..taken \/ j \in (taken + 1)..taken' BY <1>0, <1>11
    <2>2. \A j \in 1..taken : j \in inFlight \/ j \in Received \/ j \in completed \/ j \in consumed
      BY DEF SelInv, NoneLost
    <2>3. \A j \in 1..taken' : \/ j \in inFlight' \/ j \in Received'
                               \/ j \in completed' \/ j \in consumed'
      BY <1>3, <1>6, <1>11, <2>1, <2>2
    <2>4. step' = "drain" /\ ~ selectedReady' => 0 \in inFlight' \/ 0 \in Received'
      <3>1. ~ selectedReady => 0 \in inFlight \/ 0 \in Received BY <1>0 DEF SelInv, NoneLost
      <3> QED BY <1>3, <1>6, <1>11, <3>1
    <2> QED BY <2>3, <2>4 DEF NoneLost
  <1>14. LooksGoOn'
    <2>1. ASSUME step' = "drain", inFlight' = {}, arrived' = <<>>, canMatch'
          PROVE  completed' = {} /\ taken' = Len(peers)
      <3>1. inFlight = {} /\ Received' = {} BY <1>11, <2>1 DEF Received
      <3>2. selectedReady' BY <1>13, <2>1, <3>1 DEF NoneLost
      <3>3. \A j \in 1..taken : j \in completed \/ j \in consumed \/ j = i
        BY <1>3, <3>1 DEF SelInv, NoneLost
      <3>4. completed' = {} BY <1>6, <2>1, <3>2, <3>3
      <3>5. active = 0 /\ Cardinality(completed') = 0 BY <1>7, <1>10, <2>1, <3>1, <3>4
      <3>6. room # 0
        <4>1. Len(attached') < cap BY <1>6, <2>1
        <4> QED BY <1>0, <1>6, <1>7, <1>8, <3>5, <4>1, RoomIs DEF room
      <3> QED BY <1>11, <2>1, <3>4, <3>6
    <2> QED BY <1>2, <1>6, <2>1 DEF LooksGoOn
  <1> QED BY <1>12, <1>13, <1>14 DEF SelInv

LEMMA SettleKeeps ==
  ASSUME SelInv, SettleExpires
  PROVE  SelInv'
  <1> DEFINE now == [att |-> attached, miss |-> misses, used |-> {}]
  <1>0. /\ Counted /\ Sizes /\ step = "drain" /\ taken \in Nat /\ Len(peers) \in Nat
        /\ taken \in 0..Len(peers) /\ arrived \in Seq(0..taken) /\ inFlight \in SUBSET (0..taken)
        /\ completed \in SUBSET (1..taken) /\ consumed \in SUBSET (1..taken)
        /\ attached \in Seq(1..taken) /\ Len(attached) <= cap /\ Backups(attached)
        /\ misses \in Nat /\ nextToAttach \in 1..(taken + 1)
    BY DEF SelInv, Counted, Sizes, SettleExpires
  <1>1. /\ UNCHANGED <<selected, peers, cap, taken, exhausted, inFlight, arrived,
                       selectedReady, canMatch, nextToAttach>>
        /\ FillCap(completed, consumed, now, TRUE) /\ Active > 0
    BY DEF SettleExpires
  <1>2. now \in [att : Seq(1..taken), miss : Nat, used : SUBSET (1..taken)] BY <1>0
  <1>3. Looked(completed, consumed)
    <2>1. now.att = attached OBVIOUS
    <2> HIDE DEF now
    <2> QED BY <1>0, <1>1, <1>2, <2>1, FillLooks
  <1>4. /\ completed' \subseteq completed /\ consumed' \in SUBSET (1..taken)
        /\ completed' \cup consumed' = completed \cup consumed
        /\ attached' \in Seq(1..taken) /\ Len(attached') <= cap /\ Backups(attached')
        /\ misses' \in Nat /\ step' = IF Len(attached') < cap THEN "drain" ELSE "full"
    BY <1>3 DEF Looked
  <1>5. Received' = Received BY <1>1 DEF Received
  <1>6. ~ (inFlight = {} /\ arrived = <<>>)
    <2> SUFFICES ASSUME inFlight = {}, arrived = <<>> PROVE FALSE OBVIOUS
    <2>1. Cardinality(inFlight) = 0 /\ Len(arrived) = 0 BY FS_EmptySet
    <2> QED BY <1>1, <2>1 DEF Active
  <1>7. Counted'
    <2>1. taken' \in taken..Len(peers) /\ completed' \in SUBSET (1..taken) BY <1>0, <1>1, <1>4
    <2> QED BY <1>0, <1>1, <1>4, <2>1, CountedAgain
  <1>8. NoneLost' BY <1>0, <1>1, <1>4, <1>5 DEF SelInv, NoneLost
  <1>9. LooksGoOn' BY <1>1, <1>4, <1>6 DEF LooksGoOn
  <1> QED BY <1>7, <1>8, <1>9 DEF SelInv

\* What is asked for and counted stays as it is.
Still == UNCHANGED <<selected, peers, cap, arrived, selectedReady, canMatch, completed,
                     consumed, nextToAttach, attached, misses>>

LEMMA StallKeeps ==
  ASSUME SelInv, StallSpeculates
  PROVE  SelInv'
  <1>0. /\ Counted /\ Sizes /\ step = "drain" /\ taken \in Nat /\ Len(peers) \in Nat
        /\ taken \in 0..Len(peers) /\ arrived \in Seq(0..taken) /\ inFlight \in SUBSET (0..taken)
        /\ completed \in SUBSET (1..taken) /\ consumed \in SUBSET (1..taken)
        /\ attached \in Seq(1..taken) /\ Len(attached) <= cap /\ Backups(attached)
        /\ misses \in Nat /\ nextToAttach \in 1..(taken + 1) /\ cap \in Nat
    BY DEF SelInv, Counted, Sizes, StallSpeculates
  <1>1. /\ Still /\ UNCHANGED step /\ ActiveCandidates \in 1..(cap - 1)
        /\ Start(cap - ActiveCandidates, inFlight) /\ arrived = <<>>
    BY DEF StallSpeculates, Still
  <1>2. cap - ActiveCandidates \in Nat BY <1>0, <1>1
  <1>3. /\ taken' \in taken..Len(peers) /\ inFlight' \in SUBSET (0..taken')
        /\ inFlight \subseteq inFlight' /\ \A i \in (taken + 1)..taken' : i \in inFlight'
    BY <1>0, <1>1, <1>2, StartTakes
  <1>4. UNCHANGED <<selected, peers, cap, arrived, selectedReady, canMatch, completed,
                    consumed, nextToAttach, attached, misses>> /\ Received' = Received
    BY <1>1 DEF Still, Received
  <1>5. Counted' BY <1>0, <1>3, <1>4, CountedAgain
  <1>6. inFlight' # {}
    <2>1. Received = {} BY <1>1 DEF Received
    <2>2. ASSUME inFlight = {} PROVE FALSE
      <3>1. (inFlight \cup Received) \ {0} = {} BY <2>1, <2>2
      <3>2. ActiveCandidates = 0 BY <3>1, FS_EmptySet DEF ActiveCandidates
      <3> QED BY <1>0, <1>1, <3>2
    <2> QED BY <1>3, <2>2
  <1>7. NoneLost'
    <2>1. \A i \in 1..taken' : i \in 1..taken \/ i \in (taken + 1)..taken' BY <1>0, <1>3
    <2> QED BY <1>1, <1>3, <1>4, <2>1 DEF SelInv, NoneLost
  <1>8. LooksGoOn' BY <1>0, <1>1, <1>4, <1>6 DEF SelInv, LooksGoOn
  <1> QED BY <1>5, <1>7, <1>8 DEF SelInv

\* A step that only ends the search, or none at all.
LEMMA EndKeeps ==
  ASSUME SelInv, Still, UNCHANGED <<taken, inFlight>>,
         \/ UNCHANGED step
         \/ step' = "tail"
         \/ step = "drain" /\ Active = 0 /\ step' = "done"
  PROVE  SelInv'
  <1>1. UNCHANGED <<selected, peers, cap, arrived, selectedReady, canMatch, completed,
                    consumed, nextToAttach, attached, misses>> /\ Received' = Received
    BY DEF Still, Received
  <1>2. Backups(attached)' <=> Backups(attached) BY <1>1 DEF Backups
  <1>3. Counted' BY <1>1, <1>2 DEF SelInv, Counted, Sizes
  <1>4. NoneForgotten' <=> (step' = "done" /\ canMatch =>
                               Len(attached) = cap \/ consumed = DOMAIN peers)
    BY <1>1 DEF NoneForgotten
  <1>5. CASE UNCHANGED step
    BY <1>1, <1>3, <1>4, <1>5 DEF SelInv, NoneLost, LooksGoOn, NoneForgotten
  <1>6. CASE step' = "tail"
    BY <1>1, <1>3, <1>6 DEF SelInv, NoneLost, LooksGoOn
  <1>7. CASE step = "drain" /\ Active = 0 /\ step' = "done"
    <2>1. inFlight = {} /\ arrived = <<>> BY <1>7, ActiveIs DEF SelInv
    <2>2. Received = {} BY <2>1 DEF Received
    <2>3. ASSUME canMatch PROVE consumed = DOMAIN peers
      <3>1. completed = {} /\ taken = Len(peers)
        BY <1>7, <2>1, <2>3 DEF SelInv, LooksGoOn
      <3>2. \A i \in 1..taken : i \in consumed
        BY <2>1, <2>2, <3>1 DEF SelInv, NoneLost
      <3>3. consumed \subseteq 1..taken /\ DOMAIN peers = 1..taken
        BY <3>1 DEF SelInv, Counted, Sizes
      <3> QED BY <3>2, <3>3
    <2>4. NoneLost' BY <1>1, <1>7 DEF SelInv, NoneLost
    <2>5. LooksGoOn' BY <1>1, <1>4, <1>7, <2>1, <2>3 DEF LooksGoOn
    <2> QED BY <1>3, <2>4, <2>5 DEF SelInv
  <1> QED BY <1>5, <1>6, <1>7

LEMMA SelKeeps ==
  ASSUME SelInv, SelNext \/ UNCHANGED selVars
  PROVE  SelInv'
  <1>1. CASE Prime BY <1>1, PrimeKeeps
  <1>2. CASE Receive BY <1>2, ReceiveKeeps
  <1>3. CASE SettleExpires BY <1>3, SettleKeeps
  <1>4. CASE StallSpeculates BY <1>4, StallKeeps
  <1>5. CASE Selecting /\ \E i \in inFlight : FetchDone(i) BY <1>5, FetchKeeps
  <1>6. CASE TailExpires
    <2>1. Still /\ UNCHANGED <<taken, inFlight>> /\ step' = "tail" BY <1>6 DEF TailExpires, Still
    <2> QED BY <2>1, EndKeeps
  <1>7. CASE StreamEnds
    <2>1. /\ Still /\ UNCHANGED <<taken, inFlight>>
          /\ step = "drain" /\ Active = 0 /\ step' = "done"
      BY <1>7 DEF StreamEnds, Still
    <2> QED BY <2>1, EndKeeps
  <1>8. CASE UNCHANGED selVars
    <2>1. Still /\ UNCHANGED <<taken, inFlight, step>> BY <1>8 DEF selVars, Still
    <2> QED BY <2>1, EndKeeps
  <1> QED BY <1>1, <1>2, <1>3, <1>4, <1>5, <1>6, <1>7, <1>8 DEF SelNext

\* The candidates are results of the search.
LEMMA PeersAre ==
  ASSUME NEW p, NEW pool \in Pools
  PROVE  PeersOf(p, pool) \in Seq(Range(pool))
  <1> DEFINE ok == {i \in DOMAIN pool : Prefetchable(p, pool[i])}
             first == {i \in ok : \A j \in ok : pool[j].link = pool[i].link => i <= j}
  <1>1. pool \in Seq(Range(pool)) BY SelectionAssumption
  <1>2. PeersOf(p, pool) = Kept(pool, first) BY Zenon DEF PeersOf
  <1>3. first \in SUBSET (DOMAIN pool) OBVIOUS
  <1> HIDE DEF first
  <1> QED BY <1>1, <1>2, <1>3, KeptIs

LEMMA SelStarts ==
  ASSUME SelInit
  PROVE  SelInv
  <1>1. PICK pool \in Pools : peers = PeersOf(selected, pool) BY DEF SelInit
  <1>2. peers \in Seq(Range(pool)) BY <1>1, PeersAre
  <1>3. Len(peers) \in Nat /\ DOMAIN peers = 1..Len(peers) BY <1>2, LenProperties
  <1>4. cap \in Nat \ {0} BY SelectionAssumption DEF SelInit
  <1>5. /\ step = "prime" /\ taken = 0 /\ inFlight = {} /\ arrived = <<>> /\ completed = {}
        /\ consumed = {} /\ nextToAttach = 1 /\ attached = <<>> /\ misses = 0
    BY DEF SelInit
  <1>6. Backups(attached) BY <1>5 DEF Backups
  <1>7. Counted BY <1>3, <1>4, <1>5, <1>6 DEF Counted, Sizes
  <1>8. NoneLost BY <1>5 DEF NoneLost
  <1>9. LooksGoOn BY <1>5 DEF LooksGoOn
  <1> QED BY <1>7, <1>8, <1>9 DEF SelInv

\* However the fetches of the manifests come in, stall or are given up: the streaming
\* selection (fallback_streams_select_streaming.py) that ends by itself with room left has
\* looked at every candidate the search results hold.
THEOREM NoneIsPassedOver == Init /\ [][Next]_vars => []NonePassedOver
  <1> DEFINE I == topic = "select" => SelInv
  <1>1. Init => I
    <2> SUFFICES ASSUME Init, topic = "select" PROVE SelInv OBVIOUS
    <2>1. SelInit BY DEF Init
    <2> QED BY <2>1, SelStarts
  <1>2. I /\ [Next]_vars => I' BY TopicSteps, SelKeeps
  <1>3. I => NonePassedOver
    BY DEF NonePassedOver, SelInv, LooksGoOn, NoneForgotten
  <1> QED BY <1>1, <1>2, <1>3, PTL

-----------------------------------------------------------------------------
(* FallbackSelection.  The ranking's keys are numbers, so that it has an   *)
(* order: the bytes of a posting are the sum of those of its files.        *)

LEMMA BytesAre ==
  ASSUME NEW files, IsFiniteSet(files), \A f \in files : f.bytes \in Nat
  PROVE  Bytes(files) \in Nat
  <1> DEFINE one(s) == CHOOSE x \in s : TRUE
             Sums(u, D) == u = [s \in D |->
                 IF s = {} THEN 0 ELSE one(s).bytes + u[s \ {one(s)}]]
             sum == CHOOSE u : Sums(u, SUBSET files)
             Small(n) == {s \in SUBSET files : Cardinality(s) <= n}
             Lacking == {n \in Nat : ~ \E u : Sums(u, Small(n))}
  <1>1. Bytes(files) = sum[files] BY Zenon DEF Bytes, MapThenSumSet, MapThenFoldSet
  <1>2. \A s \in SUBSET files : s # {} => one(s) \in s BY Zenon
  <1> HIDE DEF one
  <1>3. \A s \in SUBSET files : /\ IsFiniteSet(s) /\ Cardinality(s) \in Nat
                                /\ Cardinality(s) <= Cardinality(files)
                                /\ Cardinality(s) = 0 <=> s = {}
    BY FS_Subset, FS_CardinalityType, FS_EmptySet
  <1>4. \A s \in SUBSET files : s # {} =>
          /\ one(s) \in files /\ s \ {one(s)} \in SUBSET files
          /\ Cardinality(s \ {one(s)}) = Cardinality(s) - 1
    BY <1>2, <1>3, FS_RemoveElement
  <1>5. ASSUME Lacking # {} PROVE FALSE
    <2>1. PICK n \in Lacking : \A m \in Lacking : n <= m
      <3>1. Lacking \in SUBSET Nat OBVIOUS
      <3> HIDE DEF Lacking
      <3> QED BY <1>5, <3>1, First
    <2>2. n \in Nat /\ ~ \E u : Sums(u, Small(n)) BY <2>1
    <2>3. CASE n = 0
      <3>1. \A s \in Small(n) : s = {} BY <1>3, <2>3
      <3>2. Sums([s \in Small(n) |-> 0], Small(n))
        <4> HIDE DEF Small
        <4> QED BY <3>1
      <3> QED BY <2>2, <3>2
    <2>4. CASE n # 0
      <3>1. n - 1 \in Nat /\ n - 1 \notin Lacking
        <4>1. n - 1 \in Nat BY <2>2, <2>4
        <4> HIDE DEF Lacking
        <4> QED BY <2>1, <2>2, <4>1
      <3>2. PICK u : Sums(u, Small(n - 1)) BY <3>1
      <3> DEFINE v == [s \in Small(n) |->
                        IF Cardinality(s) = n THEN one(s).bytes + u[s \ {one(s)}] ELSE u[s]]
      <3>3. \A s \in Small(n) : v[s] = IF s = {} THEN 0 ELSE one(s).bytes + v[s \ {one(s)}]
        <4> TAKE s \in Small(n)
        <4>1. s \in SUBSET files /\ Cardinality(s) <= n /\ Cardinality(s) \in Nat BY <1>3
        <4>2. CASE Cardinality(s) = n
          <5>1. s # {} BY <1>3, <2>4, <4>1, <4>2
          <5>2. s \ {one(s)} \in Small(n) /\ Cardinality(s \ {one(s)}) # n
            BY <1>4, <2>2, <4>1, <4>2, <5>1
          <5>3. v[s \ {one(s)}] = u[s \ {one(s)}] BY <5>2
          <5> QED BY <4>2, <5>1, <5>3
        <4>3. CASE Cardinality(s) # n
          <5>1. s \in Small(n - 1) BY <2>2, <4>1, <4>3
          <5>2. v[s] = u[s] BY <4>3
          <5>3. u[s] = IF s = {} THEN 0 ELSE one(s).bytes + u[s \ {one(s)}]
            <6> HIDE DEF Small
            <6> QED BY <3>2, <5>1
          <5>4. CASE s = {} BY <5>2, <5>3, <5>4
          <5>5. CASE s # {}
            <6>1. s \ {one(s)} \in Small(n) /\ Cardinality(s \ {one(s)}) # n
              BY <1>4, <2>2, <4>1, <5>1, <5>5
            <6>2. v[s \ {one(s)}] = u[s \ {one(s)}] BY <6>1
            <6> QED BY <5>2, <5>3, <5>5, <6>2
          <5> QED BY <5>4, <5>5
        <4> QED BY <4>2, <4>3
      <3>4. v = [s \in Small(n) |-> v[s]] OBVIOUS
      <3>5. Sums(v, Small(n))
        <4> HIDE DEF v, Small
        <4> QED BY <3>3, <3>4
      <3> QED BY <2>2, <3>5
    <2> QED BY <2>3, <2>4
  <1>6. Cardinality(files) \in Nat BY <1>3
  <1>7. Small(Cardinality(files)) = SUBSET files BY <1>3
  <1>8. \E u : Sums(u, SUBSET files)
    <2>1. \E u : Sums(u, Small(Cardinality(files))) BY <1>5, <1>6
    <2> HIDE DEF Sums, Small
    <2> QED BY <1>7, <2>1
  <1>9. Sums(sum, SUBSET files)
    <2> HIDE DEF Sums
    <2> QED BY <1>8
  <1> HIDE DEF sum
  <1>10. \A s \in SUBSET files : sum[s] = IF s = {} THEN 0 ELSE one(s).bytes + sum[s \ {one(s)}]
    BY <1>9
  <1> HIDE DEF Sums, Small, Lacking
  <1> DEFINE Bad == {n \in Nat : \E s \in SUBSET files : sum[s] \notin Nat /\ Cardinality(s) = n}
  <1>11. ASSUME Bad # {} PROVE FALSE
    <2>1. PICK n \in Bad : \A m \in Bad : n <= m
      <3>1. Bad \in SUBSET Nat OBVIOUS
      <3> HIDE DEF Bad
      <3> QED BY <1>11, <3>1, First
    <2>2. PICK s \in SUBSET files : sum[s] \notin Nat /\ Cardinality(s) = n BY <2>1
    <2>3. s # {}
      <3>1. {} \in SUBSET files OBVIOUS
      <3>2. sum[{}] = 0 BY <1>10, <3>1, Zenon
      <3> QED BY <2>2, <3>2
    <2>4. /\ one(s) \in files /\ s \ {one(s)} \in SUBSET files
          /\ Cardinality(s \ {one(s)}) = n - 1 /\ n - 1 \in Nat /\ n \in Nat
      BY <1>3, <1>4, <2>2, <2>3
    <2>5. n - 1 \notin Bad
      <3> HIDE DEF Bad
      <3> QED BY <2>1, <2>4
    <2>6. sum[s \ {one(s)}] \in Nat BY <2>4, <2>5
    <2>7. sum[s] = one(s).bytes + sum[s \ {one(s)}] BY <1>10, <2>3
    <2>8. one(s).bytes \in Nat BY <2>4
    <2> QED BY <2>2, <2>6, <2>7, <2>8
  <1>12. sum[files] \in Nat BY <1>6, <1>11
  <1> QED BY <1>1, <1>12

\* The video an NZB is taken for is one of its files.
LEMMA BestVideoIs ==
  ASSUME NEW files, IsFiniteSet(files), \A f \in files : f.bytes \in Nat,
         IsFiniteSet(Articles(files)), NEW videos \in SUBSET files, videos # {}
  PROVE  BestVideo(videos) \in videos
  <1> DEFINE atLeast(f, g) ==
               \/ f.bytes > g.bytes
               \/ f.bytes = g.bytes /\ Cardinality(f.articles) >= Cardinality(g.articles)
             R == {e \in videos \X videos : atLeast(e[2], e[1])}
  <1>1. \A f \in videos : f.bytes \in Nat /\ Cardinality(f.articles) \in Nat
    <2> TAKE f \in videos
    <2>1. f.articles \subseteq Articles(files) BY DEF Articles
    <2>2. IsFiniteSet(f.articles) BY <2>1, FS_Subset
    <2> QED BY <2>2, FS_CardinalityType
  <1>2. IsFiniteSet(videos) BY FS_Subset
  <1>3. \A f, g \in videos : <<f, g>> \in R <=> atLeast(g, f) OBVIOUS
  <1>4. \A f, g \in videos : atLeast(f, g) \/ atLeast(g, f) BY <1>1
  <1>5. \A f, g, h \in videos : atLeast(g, f) /\ atLeast(h, g) => atLeast(h, f) BY <1>1
  <1>6. PICK m \in videos : \A g \in videos : <<g, m>> \in R
    <2> HIDE DEF R, atLeast
    <2> QED BY <1>2, <1>3, <1>4, <1>5, Greatest
  <1>7. \E f \in videos : \A g \in videos : atLeast(f, g)
    <2> HIDE DEF R, atLeast
    <2> QED BY <1>3, <1>6
  <1>8. BestVideo(videos) = CHOOSE f \in videos : \A g \in videos : atLeast(f, g)
    BY Zenon DEF BestVideo
  <1> HIDE DEF atLeast
  <1> QED BY <1>7, <1>8

\* The archive an NZB is taken for is a set of its files.
LEMMA BestArchiveIs ==
  ASSUME NEW files, IsFiniteSet(Articles(files)), IsFiniteSet(files),
         NEW good \in SUBSET SUBSET files, good # {}
  PROVE  (CHOOSE x \in good : \A y \in good :
             Cardinality(Articles(x)) >= Cardinality(Articles(y))) \in good
  <1> DEFINE n(x) == Cardinality(Articles(x))
             R == {e \in good \X good : n(e[2]) >= n(e[1])}
  <1>1. \A x \in good : n(x) \in Nat
    <2> TAKE x \in good
    <2>1. Articles(x) \subseteq Articles(files) BY DEF Articles
    <2>2. IsFiniteSet(Articles(x)) BY <2>1, FS_Subset
    <2> QED BY <2>2, FS_CardinalityType
  <1>2. IsFiniteSet(good)
    <2>1. IsFiniteSet(SUBSET files) BY FS_SUBSET
    <2> QED BY <2>1, FS_Subset
  <1>3. \A x, y \in good : <<x, y>> \in R <=> n(y) >= n(x) OBVIOUS
  <1> HIDE DEF R, n
  <1>4. \A x, y \in good : <<x, y>> \in R \/ <<y, x>> \in R
    <2>1. \A x, y \in good : n(y) >= n(x) \/ n(x) >= n(y) BY <1>1
    <2> QED BY <1>3, <2>1, Zenon
  <1>5. \A x, y, z \in good : <<x, y>> \in R /\ <<y, z>> \in R => <<x, z>> \in R
    <2>1. \A x, y, z \in good : n(y) >= n(x) /\ n(z) >= n(y) => n(z) >= n(x) BY <1>1
    <2> QED BY <1>3, <2>1, Zenon
  <1>6. PICK m \in good : \A y \in good : <<y, m>> \in R BY <1>2, <1>4, <1>5, Greatest
  <1>7. \E x \in good : \A y \in good : n(x) >= n(y) BY <1>3, <1>6
  <1>8. (CHOOSE x \in good : \A y \in good : n(x) >= n(y)) \in good BY <1>7
  <1> QED BY <1>8 DEF n

LEMMA ManifestBytes ==
  ASSUME NEW r, IsRelease(r)
  PROVE  Manifest(r).bytes \in Int
  <1> DEFINE files == r.nzb.files
             m == IF r.nzb.fetch = "ok" THEN Extract(files) ELSE Empty(r.nzb.fetch)
  <1>1. /\ r.size \in Int /\ IsFiniteSet(files) /\ \A f \in files : f.bytes \in Nat
        /\ IsFiniteSet(Articles(files))
    BY DEF IsRelease
  <1>2. \A why : Empty(why).bytes = 0 BY DEF Empty
  <1>3. \A part \in SUBSET files : Bytes(part) \in Nat
    <2> TAKE part \in SUBSET files
    <2>1. IsFiniteSet(part) BY <1>1, FS_Subset
    <2> QED BY <1>1, <2>1, BytesAre
  <1>4. \A kind, name, part : Group(kind, name, part).bytes = Bytes(part) BY DEF Group
  <1> HIDE DEF files
  <1>5. Extract(files).bytes \in Nat
    <2> DEFINE videos == {f \in OfKind(files, "video") : f.healthy}
               sets == ArchiveSets(files)
               good == {a \in sets : Healthy(a)}
               best == CHOOSE x \in good : \A y \in good :
                         Cardinality(Articles(x)) >= Cardinality(Articles(y))
               nameless == Nameless(files)
    <2>1. videos \in SUBSET files /\ good \in SUBSET SUBSET files /\ nameless \in SUBSET files
      BY DEF OfKind, ArchiveSets, Nameless
    <2>2. \/ videos # {} /\ \E n : Extract(files) = Group("video", n, {BestVideo(videos)})
          \/ good # {} /\ \E n : Extract(files) = Group("archive", n, best)
          \/ \E n : Extract(files) = Group("video", n, nameless)
          \/ \E why : Extract(files) = Empty(why)
      <3> QED BY Zenon DEF Extract
    <2>3. videos # {} => {BestVideo(videos)} \in SUBSET files
      <3> HIDE DEF videos
      <3> QED BY <1>1, <2>1, BestVideoIs
    <2>4. good # {} => best \in SUBSET files
      <3> HIDE DEF good
      <3>1. good # {} => best \in good BY <1>1, <2>1, BestArchiveIs
      <3> HIDE DEF best
      <3> QED BY <2>1, <3>1
    <2> HIDE DEF videos, sets, good, best, nameless
    <2> QED BY <1>2, <1>3, <1>4, <2>1, <2>2, <2>3, <2>4
  <1>6. m.bytes \in Nat BY <1>2, <1>5
  <1>7. Manifest(r) = Synthetic(m, r) BY Zenon DEF Manifest, files
  <1> HIDE DEF m
  <1>8. CASE Synthetic(m, r) = m BY <1>6, <1>7, <1>8
  <1>9. CASE Synthetic(m, r) # m
    <2> DEFINE s == [kind |-> "video", name |-> "", bytes |-> r.size, digest |-> {r.link},
                     reason |-> ""]
    <2>1. Synthetic(m, r) = s BY <1>9, Zenon DEF Synthetic
    <2>2. s.bytes = r.size OBVIOUS
    <2> HIDE DEF s
    <2>3. Manifest(r).bytes = r.size BY <1>7, <2>1, <2>2, Zenon
    <2> QED BY <1>1, <2>3, Zenon
  <1> QED BY <1>8, <1>9

\* The keys of the ranking are triples of numbers, compared in turn.
LEMMA KeyIs ==
  ASSUME NEW p, NEW c, IsRelease(p), IsRelease(c)
  PROVE  RankKey(p, c) \in Int \X Int \X Int
  <1> DEFINE m == Manifest(p)
             n == Manifest(c)
             a == ReleaseSize(m, p)
             b == ReleaseSize(n, c)
  <1>1. m.bytes \in Int /\ n.bytes \in Int /\ p.size \in Int /\ c.size \in Int
    BY ManifestBytes DEF IsRelease
  <1> HIDE DEF m, n
  <1>2. a \in Int /\ b \in Int BY <1>1 DEF ReleaseSize
  <1> HIDE DEF a, b
  <1>3. RankKey(p, c) = KeyOf(p, c, m, n, a, b) BY Zenon DEF RankKey, m, n, a, b
  <1> DEFINE x == IF SameVideoName(m, n) THEN 0 ELSE 1
             z == IF a > 0 THEN Abs(a - b) ELSE 0
  <1>4. KeyOf(p, c, m, n, a, b) = <<x, Tier(p, c, a, b), z>> BY Zenon DEF KeyOf
  <1>5. x \in Int OBVIOUS
  <1>6. z \in Int BY <1>2 DEF Abs
  <1>7. Tier(p, c, a, b) \in Int
    <2>1. Tier(p, c, a, b) \in {0, 1, 2, 3} BY Zenon DEF Tier
    <2> QED BY <2>1
  <1> HIDE DEF x, z
  <1> QED BY <1>3, <1>4, <1>5, <1>6, <1>7

LEMMA BeforeIs ==
  ASSUME NEW a \in Int \X Int \X Int, NEW b \in Int \X Int \X Int
  PROVE  Before(a, b) <=> \/ a[1] < b[1]
                          \/ a[1] = b[1] /\ a[2] < b[2]
                          \/ a[1] = b[1] /\ a[2] = b[2] /\ a[3] < b[3]
  <1>1. DOMAIN a = 1..3 OBVIOUS
  <1>2. \A i \in 1..3 : i = 1 \/ i = 2 \/ i = 3 OBVIOUS
  <1>3. (\A j \in 1..(1 - 1) : a[j] = b[j]) <=> TRUE OBVIOUS
  <1>4. (\A j \in 1..(2 - 1) : a[j] = b[j]) <=> a[1] = b[1]
    <2>1. \A j : j \in 1..(2 - 1) <=> j = 1 OBVIOUS
    <2> QED BY <2>1
  <1>5. (\A j \in 1..(3 - 1) : a[j] = b[j]) <=> a[1] = b[1] /\ a[2] = b[2]
    <2>1. \A j : j \in 1..(3 - 1) <=> j = 1 \/ j = 2 OBVIOUS
    <2> QED BY <2>1
  <1>6. 1 \in 1..3 /\ 2 \in 1..3 /\ 3 \in 1..3 OBVIOUS
  <1> QED BY <1>1, <1>2, <1>3, <1>4, <1>5, <1>6 DEF Before

\* The ranking orders what it ranks.
LEMMA RankOrders ==
  ASSUME NEW n \in Nat, NEW key \in [1..n -> Int \X Int \X Int], NEW S \in SUBSET (1..n), NEW R,
         \A i, j \in S : <<i, j>> \in R <=> Precedes(key[i], i, key[j], j)
  PROVE  TotalOrder(R, S)
  <1> DEFINE less(a, b) == \/ a[1] < b[1]
                           \/ a[1] = b[1] /\ a[2] < b[2]
                           \/ a[1] = b[1] /\ a[2] = b[2] /\ a[3] < b[3]
  <1>1. \A i \in S : key[i] \in Int \X Int \X Int /\ i \in Int OBVIOUS
  <1>2. \A i, j \in S : Before(key[i], key[j]) <=> less(key[i], key[j]) BY <1>1, BeforeIs
  <1>3. \A i, j \in S : <<i, j>> \in R <=> \/ less(key[i], key[j])
                                           \/ key[i] = key[j] /\ i < j
    <2> HIDE DEF less
    <2> QED BY <1>2 DEF Precedes
  <1> DEFINE T == Int \X Int \X Int
  <1>4. \A a \in T : ~ less(a, a) OBVIOUS
  <1>5. \A a, b \in T : less(a, b) \/ less(b, a) \/ a = b
    <2> TAKE a, b \in T
    <2>1. a = <<a[1], a[2], a[3]>> /\ b = <<b[1], b[2], b[3]>> OBVIOUS
    <2>2. a[1] = b[1] /\ a[2] = b[2] /\ a[3] = b[3] => a = b BY <2>1, Zenon
    <2>3. \A k \in {1, 2, 3} : a[k] \in Int /\ b[k] \in Int OBVIOUS
    <2> QED BY <2>2, <2>3
  <1>6. \A a, b, c \in T : less(a, b) /\ less(b, c) => less(a, c)
    <2> TAKE a, b, c \in T
    <2>1. \A k \in {1, 2, 3} : a[k] \in Int /\ b[k] \in Int /\ c[k] \in Int OBVIOUS
    <2> QED BY <2>1
  <1> HIDE DEF less
  <1>7. \A x \in S : <<x, x>> \notin R BY <1>1, <1>3, <1>4
  <1>8. \A x, y \in S : x # y => <<x, y>> \in R \/ <<y, x>> \in R
    <2> SUFFICES ASSUME NEW x \in S, NEW y \in S, x # y PROVE <<x, y>> \in R \/ <<y, x>> \in R
      OBVIOUS
    <2>1. x < y \/ y < x BY <1>1
    <2>2. less(key[x], key[y]) \/ less(key[y], key[x]) \/ key[x] = key[y] BY <1>1, <1>5
    <2> HIDE DEF T
    <2> QED BY <1>3, <2>1, <2>2
  <1>9. \A x, y, z \in S : <<x, y>> \in R /\ <<y, z>> \in R => <<x, z>> \in R
    <2> SUFFICES ASSUME NEW x \in S, NEW y \in S, NEW z \in S, <<x, y>> \in R, <<y, z>> \in R
                 PROVE  <<x, z>> \in R
      OBVIOUS
    <2>1. less(key[x], key[y]) /\ less(key[y], key[z]) => less(key[x], key[z]) BY <1>1, <1>6
    <2>2. x < y /\ y < z => x < z BY <1>1
    <2> QED BY <1>3, <2>1, <2>2
  <1> QED BY <1>7, <1>8, <1>9 DEF TotalOrder

\* What is ranked is some of the candidates, none of them twice.
RanksSome(p, n, cands) ==
  \E total \in Nat : \E order \in [1..total -> 1..n] :
     /\ Ranked(p, cands) = [k \in 1..total |-> cands[order[k]]]
     /\ \A k, m \in 1..total : k < m => order[k] # order[m]
LEMMA RankedAre ==
  ASSUME NEW p, IsRelease(p), NEW n \in Nat, NEW cands, DOMAIN cands = 1..n,
         \A i \in 1..n : IsRelease(cands[i])
  PROVE  RanksSome(p, n, cands)
  <1> DEFINE better(i, j) == Precedes(RankKey(p, cands[i]), i, RankKey(p, cands[j]), j)
             undated == {i \in DOMAIN cands : cands[i].posted = 0}
             dated == {i \in DOMAIN cands \ undated :
                          p.posted = 0 \/ Abs(cands[i].posted - p.posted) > SamePostWindow}
             anchor == AnchorOf(dated, cands)
             kept == {i \in dated : \A j \in dated : anchor[j] = anchor[i] => j = i \/ better(i, j)}
             in == undated \cup kept
             R == {e \in in \X in : better(e[1], e[2])}
             order == InOrder(in, R)
             key == [i \in 1..n |-> RankKey(p, cands[i])]
  <1>1. Ranked(p, cands) = Picked(order, cands) BY Zenon DEF Ranked
  <1>2. in \in SUBSET (1..n) OBVIOUS
  <1> HIDE DEF undated, dated, anchor, kept, in
  <1>3. key \in [1..n -> Int \X Int \X Int] BY KeyIs
  <1>4. \A i, j \in in : <<i, j>> \in R <=> Precedes(key[i], i, key[j], j) BY <1>2
  <1> HIDE DEF R, key
  <1>5. TotalOrder(R, in) BY <1>2, <1>3, <1>4, RankOrders
  <1>6. IsFiniteSet(in)
    <2>1. IsFiniteSet(1..n) BY FS_Interval
    <2> QED BY <1>2, <2>1, FS_Subset
  <1> HIDE DEF order
  <1>7. /\ Cardinality(in) \in Nat /\ order \in [1..Cardinality(in) -> in]
        /\ InSequence(order, Cardinality(in), R)
    BY <1>5, <1>6, Ordered DEF order
  <1>8. Picked(order, cands) = [k \in 1..Cardinality(in) |-> cands[order[k]]] BY <1>7 DEF Picked
  <1>9. \A k, m \in 1..Cardinality(in) : k < m => order[k] # order[m]
    BY <1>5, <1>7 DEF InSequence, TotalOrder
  <1>10. order \in [1..Cardinality(in) -> 1..n] BY <1>2, <1>7
  <1> QED BY <1>1, <1>7, <1>8, <1>9, <1>10 DEF RanksSome

\* The releases a selection is about are releases throughout.
AllReleases == IsRelease(selected) /\ \A i \in DOMAIN peers : IsRelease(peers[i])

\* What the list of backups says of its elements it says of the ranked list.
LEMMA RankedDiffer ==
  ASSUME Counted, AllReleases
  PROVE  BackupsDiffer
  <1> DEFINE n == Len(attached)
             cands == [k \in DOMAIN attached |-> peers[attached[k]]]
  <1>1. /\ n \in Nat /\ DOMAIN attached = 1..n /\ DOMAIN peers = 1..Len(peers)
        /\ \A k \in 1..n : attached[k] \in 1..Len(peers)
    <2>1. attached \in Seq(1..taken) /\ taken \in 0..Len(peers) /\ Len(peers) \in Nat
      BY DEF Counted, Sizes
    <2>2. \A k \in 1..n : attached[k] \in 1..taken BY <2>1, LenProperties, ElementOfSeq
    <2>3. \A i \in 1..taken : i \in 1..Len(peers) BY <2>1
    <2> QED BY <2>1, <2>2, <2>3, LenProperties DEF Counted, Sizes
  <1>2. /\ DOMAIN cands = 1..n /\ \A k \in 1..n : cands[k] = peers[attached[k]]
        /\ \A k \in 1..n : IsRelease(cands[k])
    BY <1>1 DEF AllReleases
  <1>3. IsRelease(selected) BY DEF AllReleases
  <1>4. Candidates = Ranked(selected, cands) BY Zenon DEF Candidates
  <1> HIDE DEF cands, n
  <1>5. PICK total \in Nat : \E order \in [1..total -> 1..n] :
            /\ Ranked(selected, cands) = [k \in 1..total |-> cands[order[k]]]
            /\ \A k, m \in 1..total : k < m => order[k] # order[m]
    <2>1. n \in Nat /\ DOMAIN cands = 1..n /\ \A k \in 1..n : IsRelease(cands[k])
      BY <1>1, <1>2
    <2>2. RanksSome(selected, n, cands) BY <1>3, <2>1, RankedAre
    <2> QED BY <2>2 DEF RanksSome
  <1>6. PICK order \in [1..total -> 1..n] :
            /\ Ranked(selected, cands) = [k \in 1..total |-> cands[order[k]]]
            /\ \A k, m \in 1..total : k < m => order[k] # order[m]
    BY <1>5
  <1>7. \A k \in 1..n : /\ ManifestFits(selected, cands[k]) /\ OtherPosting(cands[k], selected)
                        /\ \A m \in 1..(k - 1) : OtherPosting(cands[k], cands[m])
    <2> TAKE k \in 1..n
    <2>1. \A m \in 1..(k - 1) : m \in 1..n BY <1>1
    <2>2. /\ ManifestFits(selected, peers[attached[k]])
          /\ OtherPosting(peers[attached[k]], selected)
          /\ \A m \in 1..(k - 1) : OtherPosting(peers[attached[k]], peers[attached[m]])
      BY <1>1 DEF Counted, Backups
    <2> QED BY <1>2, <2>1, <2>2
  <1>8. \A c, r : OtherPosting(c, r) => OtherPosting(r, c) BY DEF OtherPosting, OtherDigest
  <1>9. \A k, m \in 1..n : k # m => OtherPosting(cands[k], cands[m])
    <2> TAKE k, m \in 1..n
    <2>1. CASE m < k
      <3>1. m \in 1..(k - 1) BY <1>1, <2>1
      <3> QED BY <1>7, <3>1
    <2>2. CASE k < m
      <3>1. k \in 1..(m - 1) BY <1>1, <2>2
      <3> QED BY <1>7, <1>8, <3>1
    <2> QED BY <1>1, <2>1, <2>2
  <1> DEFINE list == [k \in 1..total |-> cands[order[k]]]
  <1>10. \A k \in 1..total : /\ ManifestFits(selected, list[k]) /\ OtherPosting(list[k], selected)
                             /\ \A m \in 1..(k - 1) : OtherPosting(list[k], list[m])
    <2> TAKE k \in 1..total
    <2>1. list[k] = cands[order[k]] /\ order[k] \in 1..n BY <1>6
    <2>2. ASSUME NEW m \in 1..(k - 1) PROVE OtherPosting(list[k], list[m])
      <3>1. m \in 1..total /\ m < k BY <1>5
      <3>2. list[m] = cands[order[m]] /\ order[m] \in 1..n /\ order[m] # order[k] BY <1>6, <3>1
      <3> HIDE DEF list
      <3> QED BY <1>9, <2>1, <3>2
    <2> HIDE DEF list
    <2> QED BY <1>7, <2>1, <2>2
  <1>11. DOMAIN list = 1..total OBVIOUS
  <1>12. Candidates = list BY <1>4, <1>6, Zenon
  <1> HIDE DEF list
  <1>13. FitAndDiffer(list) BY <1>10, <1>11 DEF FitAndDiffer
  <1>14. Len(attached) <= cap BY DEF Counted
  <1> QED BY <1>12, <1>13, <1>14 DEF BackupsDiffer

\* In whatever order the manifests come in and whatever is given up: the backups a selection
\* attaches (fallback_streams_select_streaming.py), ranked and rid of their duplicates
\* (fallback_streams_attach.py), are no more than the limit, fit the selected release, and
\* are other postings than it and than each other, by their links and their articles.
THEOREM BackupsAreOthers == Init /\ [][Next]_vars => []PeersDiffer
  <1> DEFINE I == topic = "select" => SelInv /\ AllReleases
  <1>1. Init => I
    <2> SUFFICES ASSUME Init, topic = "select" PROVE SelInv /\ AllReleases OBVIOUS
    <2>1. SelInit BY DEF Init
    <2>2. PICK pool \in Pools : peers = PeersOf(selected, pool) BY <2>1 DEF SelInit
    <2>3. peers \in Seq(Range(pool)) BY <2>2, PeersAre
    <2>4. \A i \in DOMAIN peers : peers[i] \in Range(pool) BY <2>3, LenProperties, ElementOfSeq
    <2>5. IsRelease(selected) /\ \A r \in Range(pool) : IsRelease(r)
      BY <2>1, SelectionAssumption DEF SelInit
    <2> QED BY <2>1, <2>4, <2>5, SelStarts DEF AllReleases
  <1>2. ASSUME I, [Next]_vars PROVE I'
    <2> SUFFICES ASSUME topic' = "select" PROVE (SelInv /\ AllReleases)' OBVIOUS
    <2>1. topic = "select" /\ (SelNext \/ UNCHANGED selVars) BY <1>2, TopicSteps
    <2>2. UNCHANGED <<selected, peers>>
      <3>1. CASE SelNext
        BY <3>1 DEF SelNext, Prime, Receive, SettleExpires, TailExpires, StallSpeculates,
                    StreamEnds, FetchDone, selVars
      <3>2. CASE UNCHANGED selVars BY <3>2 DEF selVars
      <3> QED BY <2>1, <3>1, <3>2
    <2>3. SelInv /\ AllReleases BY <1>2, <2>1
    <2>4. AllReleases' BY <2>2, <2>3 DEF AllReleases
    <2> QED BY <2>1, <2>3, <2>4, SelKeeps
  <1>3. I => PeersDiffer BY RankedDiffer DEF PeersDiffer, SelInv
  <1> QED BY <1>1, <1>2, <1>3, PTL

-----------------------------------------------------------------------------
(* FolderScan.  A path names a folder; below it the listing of that folder  *)
(* names more.                                                             *)

LEMMA UpToTwo == ASSUME NEW n \in Nat, n <= 2 PROVE n \in {0, 1, 2}
  OBVIOUS

LEMMA RootPath == <<>> \in Paths /\ FolderAt(<<>>) = Root
  BY DEF Paths, FolderAt

\* Paths are the sequences of indexes that the listings allow, up to one more than MaxDepth.
LEMMA AppendPath ==
  ASSUME NEW p \in Seq(Nat), Len(p) <= MaxDepth, NEW i \in Nat
  PROVE  /\ Append(p, i) \in Seq(Nat) /\ Len(Append(p, i)) = Len(p) + 1
         /\ Append(p, i)[Len(p) + 1] = i /\ Parent(Append(p, i)) = p
         /\ Append(p, i) # <<>> /\ FolderAt(Append(p, i)) = Kids[FolderAt(p)][i]
  <1> DEFINE q == Append(p, i)
  <1>1. /\ q \in Seq(Nat) /\ Len(q) = Len(p) + 1 /\ q[Len(p) + 1] = i
        /\ \A n \in 1..Len(p) : q[n] = p[n]
    BY AppendProperties
  <1> HIDE DEF q
  <1>3. Len(p) \in Nat /\ Len(p) \in {0, 1, 2}
    <2>1. Len(p) \in Nat BY LenProperties
    <2>2. Len(p) <= 2 BY DEF MaxDepth
    <2> QED BY <2>1, <2>2, UpToTwo
  <1>2. Parent(q) = p
    <2>1. \A n \in 1..Len(p) : q[n] \in Nat BY <1>1, ElementOfSeq
    <2>2. /\ SubSeq(q, 1, Len(p)) \in Seq(Nat) /\ Len(SubSeq(q, 1, Len(p))) = Len(p)
          /\ \A n \in 1..Len(p) : SubSeq(q, 1, Len(p))[n] = q[n]
      BY <1>3, <2>1, SubSeqProperties
    <2>3. SubSeq(q, 1, Len(p)) = p BY <1>1, <2>2, SeqEqual
    <2>4. Len(q) - 1 = Len(p) BY <1>1, <1>3
    <2> QED BY <2>3, <2>4 DEF Parent
  <1>4. q # <<>> BY <1>1, <1>3, EmptySeq
  <1>5. FolderAt(q) = Kids[FolderAt(p)][i]
    <2>1. CASE Len(p) = 0 BY <1>1, <2>1 DEF FolderAt
    <2>2. CASE Len(p) = 1 BY <1>1, <2>2 DEF FolderAt
    <2>3. CASE Len(p) = 2 BY <1>1, <2>3 DEF FolderAt
    <2> QED BY <1>3, <2>1, <2>2, <2>3
  <1> QED BY <1>1, <1>2, <1>4, <1>5 DEF q

PathsUpTo(P, n) ==
  \A p \in P : p \in Seq(Nat) /\ Len(p) = n /\ FolderAt(p) \in Folders

LEMMA BelowPaths ==
  ASSUME NEW P, NEW n \in 0..MaxDepth, PathsUpTo(P, n)
  PROVE  /\ PathsUpTo(Below(P), n + 1)
         /\ \A q \in Below(P) : /\ Parent(q) \in P /\ q = Append(Parent(q), q[Len(q)])
                                /\ q[Len(q)] \in DOMAIN Kids[FolderAt(Parent(q))]
         /\ \A p \in P : \A i \in DOMAIN Kids[FolderAt(p)] : Append(p, i) \in Below(P)
  <1> DEFINE Good(q, p, i) == /\ q \in Seq(Nat) /\ Len(q) = n + 1 /\ FolderAt(q) \in Folders
                              /\ Parent(q) = p /\ q[Len(q)] = i
  <1>1. ASSUME NEW p \in P, NEW i \in DOMAIN Kids[FolderAt(p)]
        PROVE  Good(Append(p, i), p, i)
    <2>1. p \in Seq(Nat) /\ Len(p) = n /\ FolderAt(p) \in Folders BY DEF PathsUpTo
    <2>2. Kids[FolderAt(p)] \in Seq(Folders) BY <2>1, ScanAssumption
    <2>3. i \in Nat /\ Kids[FolderAt(p)][i] \in Folders BY <2>2, LenProperties, ElementOfSeq
    <2>4. Len(p) <= MaxDepth BY <2>1 DEF MaxDepth
    <2> QED BY <2>1, <2>3, <2>4, AppendPath
  <1>2. \A q \in Below(P) : \E p \in P : \E i \in DOMAIN Kids[FolderAt(p)] : q = Append(p, i)
    BY DEF Below
  <1>3. \A p \in P : \A i \in DOMAIN Kids[FolderAt(p)] : Append(p, i) \in Below(P)
    BY DEF Below
  <1>4. ASSUME NEW q \in Below(P)
        PROVE  /\ q \in Seq(Nat) /\ Len(q) = n + 1 /\ FolderAt(q) \in Folders
               /\ Parent(q) \in P /\ q = Append(Parent(q), q[Len(q)])
               /\ q[Len(q)] \in DOMAIN Kids[FolderAt(Parent(q))]
    <2>1. PICK p \in P : \E i \in DOMAIN Kids[FolderAt(p)] : q = Append(p, i) BY <1>2
    <2>2. PICK i \in DOMAIN Kids[FolderAt(p)] : q = Append(p, i) BY <2>1
    <2>3. Good(q, p, i) BY <1>1, <2>2
    <2> QED BY <2>2, <2>3
  <1> QED BY <1>3, <1>4 DEF PathsUpTo

LEMMA PathsAre ==
  \A p \in Paths :
       /\ p \in Seq(Nat) /\ Len(p) \in 0..(MaxDepth + 1) /\ FolderAt(p) \in Folders
       /\ p # <<>> => /\ Parent(p) \in Paths /\ p = Append(Parent(p), p[Len(p)])
                      /\ Len(Parent(p)) = Len(p) - 1
                      /\ p[Len(p)] \in DOMAIN Kids[FolderAt(Parent(p))]
       /\ Len(p) <= MaxDepth =>
            \A i \in DOMAIN Kids[FolderAt(p)] : Append(p, i) \in Paths
  <1> DEFINE d1 == Below({<<>>})
             d2 == Below(d1)
             d3 == Below(d2)
  <1>5. Paths = {<<>>} \cup d1 \cup d2 \cup d3 BY DEF Paths
  <1>1. PathsUpTo({<<>>}, 0) BY RootPath, ScanAssumption, EmptySeq DEF PathsUpTo
  <1> HIDE DEF d1, d2, d3
  <1>2. /\ PathsUpTo(d1, 1)
        /\ \A q \in d1 : /\ Parent(q) \in {<<>>} /\ q = Append(Parent(q), q[Len(q)])
                         /\ q[Len(q)] \in DOMAIN Kids[FolderAt(Parent(q))]
        /\ \A p \in {<<>>} : \A i \in DOMAIN Kids[FolderAt(p)] : Append(p, i) \in d1
    <2>1. 0 \in 0..MaxDepth BY DEF MaxDepth
    <2>2. PathsUpTo(d1, 0 + 1) /\ 0 + 1 = 1 BY <1>1, <2>1, BelowPaths DEF d1
    <2> QED BY <1>1, <2>1, <2>2, BelowPaths DEF d1
  <1>3. /\ PathsUpTo(d2, 2)
        /\ \A q \in d2 : /\ Parent(q) \in d1 /\ q = Append(Parent(q), q[Len(q)])
                         /\ q[Len(q)] \in DOMAIN Kids[FolderAt(Parent(q))]
        /\ \A p \in d1 : \A i \in DOMAIN Kids[FolderAt(p)] : Append(p, i) \in d2
    BY <1>2, BelowPaths DEF MaxDepth, d2
  <1>4. /\ PathsUpTo(d3, 3)
        /\ \A q \in d3 : /\ Parent(q) \in d2 /\ q = Append(Parent(q), q[Len(q)])
                         /\ q[Len(q)] \in DOMAIN Kids[FolderAt(Parent(q))]
        /\ \A p \in d2 : \A i \in DOMAIN Kids[FolderAt(p)] : Append(p, i) \in d3
    BY <1>3, BelowPaths DEF MaxDepth, d3
  <1>6. ASSUME NEW p \in Paths
        PROVE  p \in Seq(Nat) /\ Len(p) \in 0..(MaxDepth + 1) /\ FolderAt(p) \in Folders
    <2>1. MaxDepth + 1 = 3 BY DEF MaxDepth
    <2>2. p \in Seq(Nat) /\ FolderAt(p) \in Folders
      BY <1>1, <1>2, <1>3, <1>4, <1>5 DEF PathsUpTo
    <2>3. \E n \in 0..3 : Len(p) = n BY <1>1, <1>2, <1>3, <1>4, <1>5 DEF PathsUpTo
    <2> QED BY <2>1, <2>2, <2>3
  <1>7. ASSUME NEW p \in Paths, p # <<>>
        PROVE  /\ Parent(p) \in Paths /\ p = Append(Parent(p), p[Len(p)])
               /\ Len(Parent(p)) = Len(p) - 1
               /\ p[Len(p)] \in DOMAIN Kids[FolderAt(Parent(p))]
    <2>1. p \in d1 \cup d2 \cup d3 BY <1>5, <1>7
    <2>2. Len(<<>>) = 0 BY EmptySeq
    <2>3. CASE p \in d1 BY <2>2, <2>3, <1>2, <1>5 DEF PathsUpTo
    <2>4. CASE p \in d2 BY <2>4, <1>2, <1>3, <1>5 DEF PathsUpTo
    <2>5. CASE p \in d3 BY <2>5, <1>3, <1>4, <1>5 DEF PathsUpTo
    <2> QED BY <2>1, <2>3, <2>4, <2>5
  <1>8. ASSUME NEW p \in Paths, Len(p) <= MaxDepth, NEW i \in DOMAIN Kids[FolderAt(p)]
        PROVE  Append(p, i) \in Paths
    <2>1. Len(p) <= 2 BY <1>8 DEF MaxDepth
    <2>2. p \in d3 => Len(p) = 3 BY <1>4 DEF PathsUpTo
    <2>3. p \notin d3 BY <2>1, <2>2
    <2>4. CASE p = <<>> BY <1>2, <1>5, <1>8, <2>4
    <2>5. CASE p \in d1 BY <1>3, <1>5, <1>8, <2>5
    <2>6. CASE p \in d2 BY <1>4, <1>5, <1>8, <2>6
    <2> QED BY <1>5, <2>3, <2>4, <2>5, <2>6
  <1> QED BY <1>6, <1>7, <1>8

-----------------------------------------------------------------------------
(* FolderScan.  The ranks.  What the search for an episode must not confuse *)
(* is the wanted file, one that may be it, and one that is another's.      *)

Videos == FilesIn(Folders)
Metadata == [tag : {"same", "other", "none"}, size : Nat, words : Nat, aux : BOOLEAN]
OnShare == tree \in [Folders -> Listings] /\ floor \in Floors

LEMMA VideoIs ==
  ASSUME OnShare, NEW v \in Videos
  PROVE  /\ v[1] \in Folders /\ v[2] \in Nat /\ v[2] \in DOMAIN tree[v[1]]
         /\ v = <<v[1], v[2]>> /\ v # None /\ v \in FilesIn({v[1]})
         /\ File(v) \in Metadata /\ floor \in Nat
  <1>1. PICK f \in Folders : \E i \in DOMAIN tree[f] : v = <<f, i>> BY DEF Videos, FilesIn
  <1>2. PICK i \in DOMAIN tree[f] : v = <<f, i>> BY <1>1
  <1>3. tree[f] \in Seq(Metadata) BY ScanAssumption DEF OnShare, Metadata
  <1>4. i \in Nat /\ tree[f][i] \in Metadata BY <1>3, LenProperties, ElementOfSeq
  <1>5. floor \in Nat BY ScanAssumption DEF OnShare
  <1>6. v \in FilesIn({f}) BY <1>2 DEF FilesIn
  <1>7. v # None BY <1>2 DEF None
  <1> QED BY <1>2, <1>4, <1>5, <1>6, <1>7 DEF File

Worth(v) == IF Wanted(v) THEN 2 ELSE IF File(v).tag = "other" THEN 0 ELSE 1

\* A key begins with what a file is worth; what comes after decides among equals.
Leads(k, v) ==
  /\ {1, 2, 3} \subseteq DOMAIN k /\ DOMAIN k \subseteq Nat \ {0}
  /\ k[1] = Bit(EpisodeScore(v) >= 0) /\ k[2] = Bit(AboveFloor(File(v).size))
  /\ k[3] = EpisodeScore(v)

LEMMA WorthIs ==
  ASSUME OnShare, want = "episode", NEW v \in Videos, NEW u \in Videos,
         NEW k, NEW m, Leads(k, v), Leads(m, u)
  PROVE  /\ k[1] \in 0..1 /\ k[2] \in 0..1 /\ k[3] \in {-1000, 0, 1000}
         /\ m[1] \in 0..1 /\ m[2] \in 0..1 /\ m[3] \in {-1000, 0, 1000}
         /\ \/ k[1] < m[1]
            \/ k[1] = m[1] /\ k[2] < m[2]
            \/ k[1] = m[1] /\ k[2] = m[2] /\ k[3] <= m[3]
            => Worth(v) <= Worth(u)
  <1>1. File(v).tag \in {"same", "other", "none"} /\ File(u).tag \in {"same", "other", "none"}
    BY VideoIs DEF Metadata
  <1>2. /\ k[1] = (IF File(v).tag = "other" THEN 0 ELSE 1)
        /\ k[2] = (IF AboveFloor(File(v).size) THEN 1 ELSE 0)
        /\ k[3] = (IF File(v).tag = "same" THEN 1000
                   ELSE IF File(v).tag = "other" THEN -1000 ELSE 0)
    BY <1>1 DEF Leads, EpisodeScore, Bit
  <1>3. /\ m[1] = (IF File(u).tag = "other" THEN 0 ELSE 1)
        /\ m[2] = (IF AboveFloor(File(u).size) THEN 1 ELSE 0)
        /\ m[3] = (IF File(u).tag = "same" THEN 1000
                   ELSE IF File(u).tag = "other" THEN -1000 ELSE 0)
    BY <1>1 DEF Leads, EpisodeScore, Bit
  <1> QED BY <1>1, <1>2, <1>3 DEF Worth, Wanted

LEMMA LessWorth ==
  ASSUME OnShare, want = "episode", NEW v \in Videos, NEW u \in Videos,
         NEW k, NEW m, Leads(k, v), Leads(m, u)
  PROVE  /\ Less(k, m) => Worth(v) <= Worth(u)
         /\ ~ Less(k, m) => Worth(u) <= Worth(v)
  <1>1. ASSUME Less(k, m) PROVE Worth(v) <= Worth(u)
    <2>1. PICK i \in DOMAIN k : k[i] < m[i] /\ \A j \in 1..(i - 1) : k[j] = m[j]
      BY <1>1 DEF Less
    <2>2. i \in Nat \ {0} BY DEF Leads
    <2>3. CASE i = 1 BY <2>1, <2>3, WorthIs
    <2>4. CASE i = 2 BY <2>1, <2>4, WorthIs
    <2>5. CASE i = 3 BY <2>1, <2>5, WorthIs
    <2>6. CASE i > 3
      <3>1. 1 \in 1..(i - 1) /\ 2 \in 1..(i - 1) /\ 3 \in 1..(i - 1) BY <2>2, <2>6
      <3> QED BY <2>1, <3>1, WorthIs
    <2> QED BY <2>2, <2>3, <2>4, <2>5, <2>6
  <1>2. ASSUME ~ Less(k, m) PROVE Worth(u) <= Worth(v)
    <2>1. \A i \in {1, 2, 3} : ~ (k[i] < m[i] /\ \A j \in 1..(i - 1) : k[j] = m[j])
      BY <1>2 DEF Less, Leads
    <2>2. ~ (k[1] < m[1]) BY <2>1
    <2>3. k[1] = m[1] => ~ (k[2] < m[2])
      <3>1. \A j \in 1..(2 - 1) : j = 1 OBVIOUS
      <3> QED BY <2>1, <3>1
    <2>4. k[1] = m[1] /\ k[2] = m[2] => ~ (k[3] < m[3])
      <3>1. \A j \in 1..(3 - 1) : j = 1 \/ j = 2 OBVIOUS
      <3> QED BY <2>1, <3>1
    <2> QED BY <2>2, <2>3, <2>4, WorthIs
  <1> QED BY <1>1, <1>2

LEMMA KeyLeads ==
  ASSUME NEW v, NEW s, AboveFloor(s) <=> AboveFloor(File(v).size)
  PROVE  /\ Leads(Key(v, s), v)
         /\ s = HintOf(v) => \A i : Leads(SiblingKey(v, i), v)
  BY DEF Leads, Key, SiblingKey, Bit

\* A folder's best file is worth no less than any other of its candidates.
Eligible(f) == {v \in FilesIn({f}) : HasSignal(v)}

NotBefore(u, v) ==
  \/ Less(Key(u, File(u).size), Key(v, File(v).size))
  \/ Key(u, File(u).size) = Key(v, File(v).size) /\ v[2] <= u[2]
BestOf(f, v) == v \in Eligible(f) /\ \A u \in Eligible(f) : NotBefore(u, v)

LEMMA LessTotal ==
  ASSUME NEW a, NEW b, NEW c, DOMAIN a = 1..5, DOMAIN b = 1..5, DOMAIN c = 1..5,
         \A i \in 1..5 : a[i] \in Int /\ b[i] \in Int /\ c[i] \in Int
  PROVE  /\ Less(a, b) \/ Less(b, a) \/ (\A i \in 1..5 : a[i] = b[i])
         /\ Less(a, b) /\ Less(b, c) => Less(a, c)
         /\ ~ Less(a, a)
  <1>1. \A i \in 1..5 : \A j \in 1..(i - 1) : j \in 1..5 OBVIOUS
  <1>2. ASSUME ~ (\A i \in 1..5 : a[i] = b[i]) PROVE Less(a, b) \/ Less(b, a)
    <2> DEFINE D == {i \in 1..5 : a[i] # b[i]}
    <2>1. PICK i \in D : \A j \in D : i <= j BY <1>2
    <2>2. \A j \in 1..(i - 1) : a[j] = b[j] BY <2>1
    <2> QED BY <2>1, <2>2 DEF Less
  <1>3. ASSUME Less(a, b), Less(b, c) PROVE Less(a, c)
    <2>1. PICK i \in 1..5 : a[i] < b[i] /\ \A j \in 1..(i - 1) : a[j] = b[j] BY <1>3 DEF Less
    <2>2. PICK k \in 1..5 : b[k] < c[k] /\ \A j \in 1..(k - 1) : b[j] = c[j] BY <1>3 DEF Less
    <2>3. CASE i <= k
      <3>1. \A j \in 1..(i - 1) : a[j] = c[j] BY <2>1, <2>2, <2>3
      <3>2. a[i] < c[i] BY <2>1, <2>2, <2>3
      <3> QED BY <3>1, <3>2 DEF Less
    <2>4. CASE k < i
      <3>1. \A j \in 1..(k - 1) : a[j] = c[j] BY <2>1, <2>2, <2>4
      <3>2. a[k] < c[k] BY <2>1, <2>2, <2>4
      <3> QED BY <3>1, <3>2 DEF Less
    <2> QED BY <2>3, <2>4
  <1>4. ~ Less(a, a) BY DEF Less
  <1> QED BY <1>2, <1>3, <1>4

LEMMA BestIs ==
  ASSUME OnShare, NEW f \in Folders
  PROVE  /\ Eligible(f) = {} => BestHere(f) = None
         /\ Eligible(f) # {} =>
              /\ BestHere(f) \in Eligible(f) /\ BestOf(f, BestHere(f))
              /\ want = "episode" => \A u \in Eligible(f) : Worth(u) <= Worth(BestHere(f))
         /\ Eligible(f) \subseteq Videos
  <1> DEFINE C == Eligible(f)
             rank(v) == Key(v, File(v).size)
             AtLeast(u, v) == Less(rank(u), rank(v)) \/ (rank(u) = rank(v) /\ v[2] <= u[2])
             R == {e \in C \X C : AtLeast(e[1], e[2])}
  <1>1. C \subseteq Videos BY DEF Eligible, Videos, FilesIn
  <1>2. IsFiniteSet(C)
    <2>1. tree[f] \in Seq(Metadata) BY ScanAssumption DEF OnShare, Metadata
    <2>2. DOMAIN tree[f] = 1..Len(tree[f]) /\ Len(tree[f]) \in Nat BY <2>1, LenProperties
    <2>3. IsFiniteSet(DOMAIN tree[f])
      <3> DEFINE n == Len(tree[f])
      <3>1. n \in Nat BY <2>2
      <3> HIDE DEF n
      <3>2. IsFiniteSet(1..n) BY <3>1, FS_Interval
      <3> QED BY <2>2, <3>2 DEF n
    <2>4. \A v \in C : v = <<f, v[2]>> /\ v[2] \in DOMAIN tree[f] BY DEF Eligible, FilesIn
    <2> HIDE DEF C
    <2> DEFINE at == [v \in C |-> v[2]]
    <2>6. at \in [C -> DOMAIN tree[f]] BY <2>4
    <2>7. \A u, v \in C : at[u] = at[v] => u = v BY <2>4
    <2> HIDE DEF at
    <2>5. at \in Injection(C, DOMAIN tree[f]) BY <2>6, <2>7 DEF Injection, IsInjective
    <2> QED BY <2>3, <2>5, FS_Injection
  <1>3. ASSUME NEW v \in C
        PROVE  /\ DOMAIN rank(v) = 1..5 /\ \A i \in 1..5 : rank(v)[i] \in Int
               /\ v[2] \in Nat
    <2>1. File(v) \in Metadata /\ v[2] \in Nat BY <1>1, VideoIs
    <2>2. EpisodeScore(v) \in Int /\ TokenScore(v) \in Int /\ File(v).size \in Int
      BY <2>1 DEF EpisodeScore, TokenScore, Metadata
    <2> QED BY <2>1, <2>2 DEF Key, Bit
  <1>4. ASSUME NEW u \in C, NEW v \in C, \A i \in 1..5 : rank(u)[i] = rank(v)[i]
        PROVE  rank(u) = rank(v)
    BY <1>4 DEF Key
  <1>5. \A u, v \in C : AtLeast(u, v) \/ AtLeast(v, u)
    <2> SUFFICES ASSUME NEW u \in C, NEW v \in C PROVE AtLeast(u, v) \/ AtLeast(v, u) OBVIOUS
    <2>1. Less(rank(u), rank(v)) \/ Less(rank(v), rank(u)) \/ rank(u) = rank(v)
      <3> HIDE DEF rank
      <3> QED BY <1>3, <1>4, LessTotal
    <2>2. u[2] <= v[2] \/ v[2] <= u[2] BY <1>3
    <2> HIDE DEF rank
    <2> QED BY <2>1, <2>2
  <1>6. \A u, v, w \in C : AtLeast(u, v) /\ AtLeast(v, w) => AtLeast(u, w)
    <2> SUFFICES ASSUME NEW u \in C, NEW v \in C, NEW w \in C, AtLeast(u, v), AtLeast(v, w)
                 PROVE  AtLeast(u, w)
      OBVIOUS
    <2> HIDE DEF rank
    <2>1. Less(rank(u), rank(v)) /\ Less(rank(v), rank(w)) => Less(rank(u), rank(w))
      BY <1>3, LessTotal
    <2>2. v[2] <= u[2] /\ w[2] <= v[2] => w[2] <= u[2] BY <1>3
    <2> QED BY <2>1, <2>2
  <1>7. \A u, v \in C : <<u, v>> \in R <=> AtLeast(u, v) OBVIOUS
  <1>8. ASSUME C # {} PROVE \E m \in C : \A u \in C : AtLeast(u, m)
    <2> HIDE DEF C, R, AtLeast
    <2>1. PICK m \in C : \A u \in C : <<u, m>> \in R
      <3>1. \A u, v \in C : <<u, v>> \in R \/ <<v, u>> \in R BY <1>5, <1>7
      <3>2. \A u, v, w \in C : <<u, v>> \in R /\ <<v, w>> \in R => <<u, w>> \in R
        BY <1>6, <1>7
      <3> QED BY <1>2, <1>8, <3>1, <3>2, Greatest
    <2> QED BY <1>7, <2>1
  <1>9. BestHere(f) = IF C = {} THEN None ELSE CHOOSE v \in C : \A u \in C : AtLeast(u, v)
    BY DEF BestHere, Eligible
  <1>10. ASSUME C # {}
         PROVE  /\ BestHere(f) \in C
                /\ \A u \in C : AtLeast(u, BestHere(f))
    <2> HIDE DEF C, AtLeast
    <2> QED BY <1>8, <1>9, <1>10
  <1>11. ASSUME want = "episode", NEW u \in C, NEW v \in C, AtLeast(u, v)
         PROVE  Worth(u) <= Worth(v)
    <2>1. Leads(rank(u), u) /\ Leads(rank(v), v) BY KeyLeads
    <2>2. u \in Videos /\ v \in Videos BY <1>1
    <2> HIDE DEF rank
    <2>3. CASE Less(rank(u), rank(v)) BY <1>11, <2>1, <2>2, <2>3, LessWorth
    <2>4. CASE rank(u) = rank(v)
      <3>1. rank(u)[3] \in Int BY <2>1, <2>2, <1>11, WorthIs
      <3> QED BY <1>11, <2>1, <2>2, <2>4, <3>1, WorthIs
    <2> QED BY <1>11, <2>3, <2>4
  <1>12. ASSUME C # {} PROVE BestOf(f, BestHere(f))
    <2>1. \A u, v : AtLeast(u, v) <=> NotBefore(u, v) BY DEF NotBefore
    <2> HIDE DEF AtLeast
    <2> QED BY <1>10, <1>12, <2>1 DEF BestOf
  <1> HIDE DEF AtLeast
  <1> QED BY <1>1, <1>9, <1>10, <1>11, <1>12

\* A folder has one best file.
LEMMA OneBest ==
  ASSUME OnShare, NEW f \in Folders, NEW u, NEW v, BestOf(f, u), BestOf(f, v)
  PROVE  u = v
  <1> DEFINE rank(w) == Key(w, File(w).size)
  <1>1. u \in Eligible(f) /\ v \in Eligible(f) /\ NotBefore(u, v) /\ NotBefore(v, u)
    BY DEF BestOf
  <1>2. Eligible(f) \subseteq Videos BY BestIs
  <1>3. ASSUME NEW w \in Eligible(f)
        PROVE  /\ DOMAIN rank(w) = 1..5 /\ \A i \in 1..5 : rank(w)[i] \in Int
               /\ w[2] \in Nat /\ w = <<f, w[2]>>
    <2>1. File(w) \in Metadata /\ w[2] \in Nat BY <1>2, VideoIs
    <2>2. EpisodeScore(w) \in Int /\ TokenScore(w) \in Int /\ File(w).size \in Int
      BY <2>1 DEF EpisodeScore, TokenScore, Metadata
    <2>3. w = <<f, w[2]>> BY DEF Eligible, FilesIn
    <2> QED BY <2>1, <2>2, <2>3 DEF Key, Bit
  <1>4. /\ Less(rank(u), rank(v)) \/ (rank(u) = rank(v) /\ v[2] <= u[2])
        /\ Less(rank(v), rank(u)) \/ (rank(v) = rank(u) /\ u[2] <= v[2])
    BY <1>1 DEF NotBefore
  <1> HIDE DEF rank
  <1>5. ~ Less(rank(u), rank(u)) /\ ~ Less(rank(v), rank(v)) BY <1>1, <1>3, LessTotal
  <1>6. ~ (Less(rank(u), rank(v)) /\ Less(rank(v), rank(u))) BY <1>1, <1>3, <1>5, LessTotal
  <1>7. u[2] = v[2] BY <1>1, <1>3, <1>4, <1>5, <1>6
  <1> QED BY <1>1, <1>3, <1>7

-----------------------------------------------------------------------------
(* FolderScan.  The cache of sizes: a walk puts one file of a folder in it. *)

RoomForHints == IsFiniteSet(Folders) /\ Cardinality(Folders) <= HintMax

TrueHints(h) ==
  /\ h \in Seq(Videos \X Nat)
  /\ \A i \in DOMAIN h : h[i][2] = File(h[i][1]).size /\ h[i][2] > 0
  /\ \A i, j \in DOMAIN h : h[i][1] = h[j][1] => i = j
Known(v, h) == File(v).size > 0 => \E i \in DOMAIN h : h[i][1] = v
BestHints(h) == \A v \in Videos : (\E i \in DOMAIN h : h[i][1] = v) => BestOf(v[1], v)

LEMMA HintsFit ==
  ASSUME OnShare, TrueHints(hints), BestHints(hints), NEW F \in SUBSET Folders, IsFiniteSet(F),
         \A i \in DOMAIN hints : hints[i][1][1] \in F
  PROVE  Len(hints) <= Cardinality(F)
  <1> DEFINE n == Len(hints)
             of == [i \in 1..n |-> hints[i][1][1]]
  <1>1. n \in Nat /\ DOMAIN hints = 1..n BY LenProperties DEF TrueHints
  <1>2. \A i \in 1..n : hints[i][1] \in Videos BY <1>1, ElementOfSeq DEF TrueHints
  <1>3. ASSUME NEW i \in 1..n, NEW j \in 1..n, hints[i][1][1] = hints[j][1][1] PROVE i = j
    <2>1. BestOf(hints[i][1][1], hints[i][1]) /\ BestOf(hints[j][1][1], hints[j][1])
      BY <1>1, <1>2 DEF BestHints
    <2>2. hints[i][1][1] \in Folders BY <1>1
    <2>3. hints[i][1] = hints[j][1] BY <1>3, <2>1, <2>2, OneBest
    <2> QED BY <1>1, <2>3 DEF TrueHints
  <1>4. of \in Injection(1..n, F) BY <1>1, <1>3 DEF Injection, IsInjective
  <1>5. Cardinality(1..n) <= Cardinality(F) BY <1>4, FS_Injection
  <1> HIDE DEF n
  <1>6. Cardinality(1..n) = IF 1 > n THEN 0 ELSE n - 1 + 1 BY <1>1, FS_Interval
  <1>7. Cardinality(1..n) = n BY <1>1, <1>6
  <1> QED BY <1>5, <1>7 DEF n

\* Remembering a file that has room makes it known and forgets none.
LEMMA RememberedIs ==
  ASSUME OnShare, TrueHints(hints), NEW v \in Videos, NEW h,
         h = Remembered(v, File(v).size), Len(hints) <= HintMax,
         HintAt(v) = {} => Len(hints) < HintMax
  PROVE  /\ TrueHints(h) /\ Known(v, h) /\ \A u : Known(u, hints) => Known(u, h)
         /\ \A i \in DOMAIN h : h[i][1] = v \/ \E j \in DOMAIN hints : h[i][1] = hints[j][1]
  <1> DEFINE bytes == File(v).size
             e == <<v, bytes>>
  <1>1. bytes \in Nat BY VideoIs DEF Metadata
  <1>2. /\ hints \in Seq(Videos \X Nat) /\ Len(hints) \in Nat
        /\ DOMAIN hints = 1..Len(hints) /\ \A i \in 1..Len(hints) : hints[i] \in Videos \X Nat
    BY LenProperties, ElementOfSeq DEF TrueHints
  <1>3. HintMax \in Nat BY ScanAssumption
  <1>4. CASE bytes = 0
    <2>1. HintAt(v) = {} BY <1>1, <1>4 DEF HintAt, TrueHints
    <2>2. h = hints BY <1>4, <2>1 DEF Remembered
    <2> QED BY <1>4, <2>2 DEF Known
  <1>5. CASE bytes > 0 /\ HintAt(v) # {}
    <2> DEFINE kept == [i \in DOMAIN hints |-> IF i \in HintAt(v) THEN e ELSE hints[i]]
    <2>1. \A i \in HintAt(v) : hints[i] = e BY <1>2 DEF HintAt, TrueHints
    <2>2. kept = hints BY <1>2, <2>1 DEF HintAt
    <2>3. h = IF Len(kept) > HintMax THEN Tail(kept) ELSE kept BY <1>5 DEF Remembered
    <2> HIDE DEF kept
    <2>6. ~ (Len(hints) > HintMax) BY <1>2, <1>3
    <2>4. h = hints BY <2>2, <2>3, <2>6
    <2>5. \E i \in DOMAIN hints : hints[i][1] = v BY <1>5 DEF HintAt
    <2> QED BY <2>4, <2>5 DEF Known
  <1>6. CASE bytes > 0 /\ HintAt(v) = {}
    <2> DEFINE kept == Append(hints, e)
    <2>1. e \in Videos \X Nat BY <1>1
    <2>2. /\ kept \in Seq(Videos \X Nat) /\ Len(kept) = Len(hints) + 1
          /\ DOMAIN kept = 1..(Len(hints) + 1)
          /\ \A i \in 1..Len(hints) : kept[i] = hints[i] /\ kept[Len(hints) + 1] = e
      BY <1>2, <2>1, AppendProperties, LenProperties
    <2>3. kept[Len(hints) + 1] = e BY <1>2, <2>1, AppendProperties
    <2>4. \A i \in 1..Len(hints) : hints[i][1] # v BY <1>2, <1>6 DEF HintAt
    <2>5. h = IF Len(kept) > HintMax THEN Tail(kept) ELSE kept BY <1>6 DEF Remembered
    <2> HIDE DEF kept
    <2>6. TrueHints(kept)
      <3>1. \A i \in DOMAIN kept : kept[i] = e \/ (i \in 1..Len(hints) /\ kept[i] = hints[i])
        BY <1>2, <2>2, <2>3
      <3>2. \A i \in DOMAIN kept : kept[i][2] = File(kept[i][1]).size /\ kept[i][2] > 0
        BY <1>2, <1>6, <3>1 DEF TrueHints
      <3>3. \A i, j \in DOMAIN kept : kept[i][1] = kept[j][1] => i = j
        <4> SUFFICES ASSUME NEW i \in DOMAIN kept, NEW j \in DOMAIN kept, kept[i][1] = kept[j][1]
                     PROVE  i = j
          OBVIOUS
        <4>4. kept[Len(hints) + 1][1] = v BY <2>3
        <4>5. \A k \in 1..Len(hints) : kept[k][1] # v BY <2>2, <2>4
        <4>1. CASE i \in 1..Len(hints) /\ j \in 1..Len(hints)
          BY <1>2, <2>2, <4>1 DEF TrueHints
        <4>2. CASE i = Len(hints) + 1 /\ j \in 1..Len(hints) BY <4>2, <4>4, <4>5
        <4>3. CASE j = Len(hints) + 1 /\ i \in 1..Len(hints) BY <4>3, <4>4, <4>5
        <4> QED BY <1>2, <2>2, <4>1, <4>2, <4>3
      <3> QED BY <2>2, <3>2, <3>3 DEF TrueHints
    <2>7. h = kept
      <3>1. ~ (Len(hints) + 1 > HintMax) BY <1>2, <1>3, <1>6
      <3> QED BY <2>2, <2>5, <3>1
    <2>8. Known(v, kept) BY <1>2, <2>2, <2>3 DEF Known
    <2>9. ASSUME NEW u, Known(u, hints) PROVE Known(u, kept) BY <1>2, <2>2, <2>9 DEF Known
    <2>10. \A i \in DOMAIN kept : kept[i][1] = v \/ \E j \in DOMAIN hints : kept[i][1] = hints[j][1]
      <3>1. \A i \in DOMAIN kept : i \in 1..Len(hints) \/ i = Len(hints) + 1 BY <1>2, <2>2
      <3>2. \A i \in 1..Len(hints) : kept[i] = hints[i] /\ i \in DOMAIN hints BY <1>2, <2>2
      <3>3. kept[Len(hints) + 1][1] = v BY <2>3
      <3> QED BY <3>1, <3>2, <3>3
    <2> QED BY <2>6, <2>7, <2>8, <2>9, <2>10
  <1> QED BY <1>1, <1>4, <1>5, <1>6

\* The walk remembers the best file of a folder.
LEMMA BestRemembered ==
  ASSUME OnShare, RoomForHints, TrueHints(hints), BestHints(hints), NEW v \in Videos,
         BestOf(v[1], v), NEW h, h = Remembered(v, File(v).size)
  PROVE  /\ TrueHints(h) /\ BestHints(h) /\ Known(v, h)
         /\ \A u : Known(u, hints) => Known(u, h)
  <1>1. v[1] \in Folders BY VideoIs
  <1>8. \A i \in DOMAIN hints : hints[i][1] \in Videos /\ hints[i][1][1] \in Folders
    <2>1. DOMAIN hints = 1..Len(hints) BY LenProperties DEF TrueHints
    <2>2. \A i \in DOMAIN hints : hints[i][1] \in Videos BY <2>1, ElementOfSeq DEF TrueHints
    <2> QED BY <2>2, VideoIs
  <1>2. HintAt(v) = {} => \A i \in DOMAIN hints : hints[i][1][1] # v[1]
    <2> SUFFICES ASSUME NEW i \in DOMAIN hints, hints[i][1][1] = v[1] PROVE hints[i][1] = v
      BY DEF HintAt
    <2>1. BestOf(hints[i][1][1], hints[i][1]) BY <1>8 DEF BestHints
    <2> QED BY <1>1, <2>1, OneBest
  <1>3. /\ Len(hints) \in Nat /\ HintMax \in Nat /\ Cardinality(Folders) \in Nat
        /\ IsFiniteSet(Folders) /\ Cardinality(Folders) <= HintMax
    BY LenProperties, ScanAssumption, FS_CardinalityType DEF TrueHints, RoomForHints
  <1>4. HintAt(v) = {} => Len(hints) < HintMax
    <2> SUFFICES ASSUME HintAt(v) = {} PROVE Len(hints) < HintMax OBVIOUS
    <2> DEFINE F == Folders \ {v[1]}
    <2>1. IsFiniteSet(F) /\ Cardinality(F) = Cardinality(Folders) - 1
      BY <1>1, <1>3, FS_RemoveElement
    <2>2. \A i \in DOMAIN hints : hints[i][1][1] \in F BY <1>2, <1>8
    <2>3. Len(hints) <= Cardinality(F) BY <2>1, <2>2, HintsFit
    <2> HIDE DEF F
    <2> QED BY <1>3, <2>1, <2>3
  <1>5. Len(hints) <= HintMax
    <2>1. Len(hints) <= Cardinality(Folders) BY <1>3, <1>8, HintsFit
    <2> QED BY <1>3, <2>1
  <1>6. /\ TrueHints(h) /\ Known(v, h) /\ \A u : Known(u, hints) => Known(u, h)
        /\ \A i \in DOMAIN h : h[i][1] = v \/ \E j \in DOMAIN hints : h[i][1] = hints[j][1]
    BY <1>4, <1>5, RememberedIs
  <1>7. BestHints(h) BY <1>6 DEF BestHints
  <1> QED BY <1>6, <1>7

LEMMA HintIs ==
  ASSUME OnShare, TrueHints(hints), NEW v \in Videos, Known(v, hints)
  PROVE  HintOf(v) = File(v).size
  <1>1. File(v).size \in Nat BY VideoIs DEF Metadata
  <1>2. \A i \in HintAt(v) : hints[i][2] = File(v).size /\ hints[i][2] > 0
    BY DEF HintAt, TrueHints
  <1>3. CASE HintAt(v) = {}
    <2>1. ~ (File(v).size > 0) BY <1>3 DEF Known, HintAt
    <2> QED BY <1>1, <1>3, <2>1 DEF HintOf
  <1>4. CASE HintAt(v) # {} BY <1>2, <1>4 DEF HintOf
  <1> QED BY <1>3, <1>4

-----------------------------------------------------------------------------
(* FolderScan.  The walk.  `scan` goes from new over enter, mark, list and *)
(* collect to done; the files found so far are in the hands of the scans   *)
(* that collect.                                                           *)

Stages == {"new", "enter", "mark", "list", "collect", "done"}
Running == {"enter", "mark", "list", "collect"}

ScanTypes ==
  /\ OnShare /\ phase \in {"inventory", "walk", "found"}
  /\ scan \in [Paths -> Stages]
  /\ own \in [Paths -> Videos \cup {None}] /\ result \in [Paths -> Videos \cup {None}]
  /\ nextKid \in [Paths -> Nat] /\ queue \in [Paths -> Seq(Nat)]
  /\ sib \in [Paths -> (Videos \X Seq(Int)) \cup {None}]
  /\ visited \subseteq Folders

\* A folder's scan begins before those of its subfolders and ends after them.
WalkOrder ==
  /\ phase = "inventory" => \A p \in Paths : scan[p] = "new"
  /\ phase = "found" => scan[<<>>] \in {"new", "done"}
  /\ \A p \in Paths : scan[p] \in {"mark", "list", "collect"} => Len(p) <= MaxDepth
  /\ \A p \in Paths : p # <<>> =>
        /\ scan[p] # "new" => scan[Parent(p)] \in {"collect", "done"}
        /\ scan[p] \in Running => scan[Parent(p)] = "collect"
        /\ p[Len(p)] > nextKid[Parent(p)] => scan[p] = "new"
  /\ \A p \in Paths : \A k \in DOMAIN queue[p] :
        Append(p, queue[p][k]) \in Paths /\ scan[Append(p, queue[p][k])] = "done"

\* The size of every result is known, and a rank was given by the true size.
RankedRight ==
  /\ TrueHints(hints)
  /\ \A p \in Paths : result[p] # None => Known(result[p], hints)
  /\ \A p \in Paths : sib[p] # None => Known(sib[p][1], hints) /\ Leads(sib[p][2], sib[p][1])

\* While the walk goes on, a file it remembers or puts by is the best of its folder.
BestKept ==
  /\ phase = "inventory" => hints = <<>>
  /\ phase = "walk" => BestHints(hints)
  /\ \A p \in Paths : \A v \in Videos : own[p] = v => BestOf(v[1], v)

\* The files that the running scans hold between them.
InHand(v) ==
  \E q \in Paths :
    \/ scan[q] = "collect" /\ v = own[q]
    \/ scan[q] = "collect" /\ sib[q] # None /\ v = sib[q][1]
    \/ scan[q] = "collect" /\ \E k \in DOMAIN queue[q] : v = result[Append(q, queue[q][k])]
    \/ q = <<>> /\ scan[q] = "done" /\ v = result[q]
AsGood(n) == \E v \in Videos : InHand(v) /\ n <= Worth(v)

\* What was listed is still in hand, or something as good is; what a listing names has been
\* visited or will be, unless there is no need to look on.
Index(p) == p[Len(p)]
NamedBy(q, p) == p # <<>> /\ Len(p) <= MaxDepth /\ FolderAt(q) = FolderAt(Parent(p))
Ahead(q, p) == scan[q] = "collect" /\ scan[Append(q, Index(p))] \in {"new", "enter", "mark"}
NothingDropped ==
  \A f \in visited : \A v \in Eligible(f) :
    AsGood(Worth(v)) \/ \E q \in Paths : scan[q] = "list" /\ FolderAt(q) = f
KidsLooked ==
  \A p \in Paths : p # <<>> /\ Len(p) <= MaxDepth /\ FolderAt(Parent(p)) \in visited =>
    \/ FolderAt(p) \in visited
    \/ \E q \in Paths : NamedBy(q, p) /\ (scan[q] = "list" \/ Ahead(q, p))
    \/ AsGood(2)
RootLooked ==
  /\ scan[<<>>] \in {"new", "enter", "mark"} => visited = {}
  /\ scan[<<>>] \in {"list", "collect", "done"} => Root \in visited
FoundAtOnce ==
  phase = "found" /\ scan[<<>>] = "new" => Complete /\ result[<<>>] \in Selected

ScanInv ==
  /\ ScanTypes /\ WalkOrder /\ RankedRight /\ BestKept /\ RootLooked /\ FoundAtOnce
  /\ want = "episode" /\ unread = {} => NothingDropped /\ KidsLooked

LEMMA KidIs ==
  ASSUME NEW p \in Paths, NEW i \in Nat, Append(p, i) \in Paths
  PROVE  /\ Parent(Append(p, i)) = p /\ Index(Append(p, i)) = i /\ Append(p, i) # <<>>
         /\ Append(p, i) # p /\ Len(p) <= MaxDepth /\ Len(Append(p, i)) = Len(p) + 1
         /\ FolderAt(Append(p, i)) = Kids[FolderAt(p)][i] /\ i \in DOMAIN Kids[FolderAt(p)]
  <1>1. p \in Seq(Nat) /\ Len(p) \in Nat BY PathsAre, LenProperties
  <1>2. Len(Append(p, i)) = Len(p) + 1 BY <1>1, AppendProperties
  <1>3. Len(Append(p, i)) \in 0..(MaxDepth + 1) BY PathsAre
  <1>4. Len(p) <= MaxDepth BY <1>1, <1>2, <1>3 DEF MaxDepth
  <1>5. /\ Append(p, i)[Len(p) + 1] = i /\ Parent(Append(p, i)) = p
        /\ Append(p, i) # <<>> /\ FolderAt(Append(p, i)) = Kids[FolderAt(p)][i]
    BY <1>1, <1>4, AppendPath
  <1>6. Append(p, i)[Len(Append(p, i))] = i BY <1>2, <1>5
  <1>7. i \in DOMAIN Kids[FolderAt(p)] BY <1>5, <1>6, PathsAre
  <1>8. Append(p, i) # p BY <1>1, <1>2
  <1> QED BY <1>2, <1>4, <1>5, <1>6, <1>7, <1>8 DEF Index

LEMMA ParentIs ==
  ASSUME NEW p \in Paths, p # <<>>
  PROVE  /\ Parent(p) \in Paths /\ Parent(p) # p /\ p = Append(Parent(p), Index(p))
         /\ Index(p) \in Nat /\ Index(p) \in DOMAIN Kids[FolderAt(Parent(p))]
         /\ FolderAt(p) = Kids[FolderAt(Parent(p))][Index(p)]
         /\ Len(p) \in 1..3 /\ Len(Parent(p)) = Len(p) - 1
  <1>1. /\ Parent(p) \in Paths /\ p = Append(Parent(p), Index(p))
        /\ Len(Parent(p)) = Len(p) - 1 /\ Index(p) \in DOMAIN Kids[FolderAt(Parent(p))]
        /\ p \in Seq(Nat) /\ Len(p) \in 0..3
    BY PathsAre DEF Index, MaxDepth
  <1>2. Len(p) \in Nat /\ Len(p) # 0 BY <1>1, EmptySeq
  <1>3. Kids[FolderAt(Parent(p))] \in Seq(Folders) BY <1>1, PathsAre, ScanAssumption
  <1>4. Index(p) \in Nat BY <1>1, <1>3, LenProperties
  <1>5. FolderAt(p) = Kids[FolderAt(Parent(p))][Index(p)] BY <1>1, <1>4, KidIs
  <1>6. Len(p) \in 1..3 BY <1>1, <1>2
  <1>7. Parent(p) # p BY <1>1, <1>2
  <1> QED BY <1>1, <1>4, <1>5, <1>6, <1>7

LEMMA ThreeDown ==
  ASSUME NEW j \in 1..3, NEW k \in 1..3, NEW m \in 1..3, NEW n \in 1..3,
         k = j - 1, m = k - 1, n = m - 1
  PROVE  FALSE
  OBVIOUS

\* Above a running scan every scan collects.
LEMMA RootOf ==
  ASSUME ScanTypes, WalkOrder, NEW p \in Paths, scan[p] \in Running
  PROVE  /\ p = <<>> \/ scan[<<>>] = "collect"
         /\ phase = "walk"
  <1>1. ASSUME NEW q \in Paths, q # <<>>, scan[q] \in Running
        PROVE  /\ Parent(q) \in Paths /\ scan[Parent(q)] = "collect" /\ scan[Parent(q)] \in Running
               /\ Len(q) \in 1..3 /\ Len(Parent(q)) = Len(q) - 1
    BY <1>1, ParentIs DEF WalkOrder, Running
  <1>2. p = <<>> \/ scan[<<>>] = "collect"
    <2>1. SUFFICES ASSUME p # <<>>, scan[<<>>] # "collect" PROVE FALSE OBVIOUS
    <2> DEFINE a == Parent(p)
               b == Parent(a)
               c == Parent(b)
    <2>2. /\ a \in Paths /\ scan[a] = "collect" /\ scan[a] \in Running /\ a # <<>>
          /\ Len(p) \in 1..3 /\ Len(a) = Len(p) - 1
      BY <1>1, <2>1
    <2>3. /\ b \in Paths /\ scan[b] = "collect" /\ scan[b] \in Running /\ b # <<>>
          /\ Len(a) \in 1..3 /\ Len(b) = Len(a) - 1
      BY <1>1, <2>1, <2>2
    <2>4. /\ c \in Paths /\ scan[c] = "collect" /\ scan[c] \in Running /\ c # <<>>
          /\ Len(b) \in 1..3 /\ Len(c) = Len(b) - 1
      BY <1>1, <2>1, <2>3
    <2>5. Len(c) \in 1..3 BY <1>1, <2>4
    <2> HIDE DEF a, b, c
    <2> QED BY <2>2, <2>3, <2>4, <2>5, ThreeDown
  <1>3. phase = "walk"
    <2>1. phase # "inventory" BY DEF WalkOrder, Running
    <2>2. scan[<<>>] \in Running BY <1>2 DEF Running
    <2>3. phase # "found" BY <2>2 DEF WalkOrder, Running
    <2> QED BY <2>1, <2>3 DEF ScanTypes
  <1> QED BY <1>2, <1>3

\* A scan that goes on or ends keeps the order.
LEMMA MovesInOrder ==
  ASSUME ScanTypes, WalkOrder, NEW p \in Paths, scan[p] \in Running, NEW s \in Stages \ {"new"},
         scan' = [scan EXCEPT ![p] = s], UNCHANGED nextKid,
         s \in {"mark", "list", "collect"} => Len(p) <= MaxDepth,
         scan[p] = "collect" => s = "done" /\ \A q \in KidsOf(p) : scan[q] \notin Running,
         phase' = IF p = <<>> /\ s = "done" THEN "found" ELSE phase,
         \A q \in Paths : \A k \in DOMAIN queue'[q] :
           (Append(q, queue'[q][k]) = p /\ s = "done")
           \/ \E m \in DOMAIN queue[q] : queue'[q][k] = queue[q][m]
  PROVE  WalkOrder'
  <1>1. \A q \in Paths : scan'[q] = IF q = p THEN s ELSE scan[q] BY DEF ScanTypes
  <1>2. phase = "walk" BY RootOf
  <1>3. ASSUME NEW q \in Paths, q # <<>>, Parent(q) = p, scan[p] # "collect" PROVE scan[q] = "new"
    BY <1>3 DEF WalkOrder, Running
  <1>4. (phase = "inventory" => \A q \in Paths : scan[q] = "new")' BY <1>2
  <1>5. (phase = "found" => scan[<<>>] \in {"new", "done"})' BY <1>1, <1>2, RootPath
  <1>6. (\A q \in Paths : scan[q] \in {"mark", "list", "collect"} => Len(q) <= MaxDepth)'
    BY <1>1 DEF WalkOrder
  <1>7. ASSUME NEW q \in Paths, q # <<>>
        PROVE  /\ scan'[q] # "new" => scan'[Parent(q)] \in {"collect", "done"}
               /\ scan'[q] \in Running => scan'[Parent(q)] = "collect"
               /\ q[Len(q)] > nextKid'[Parent(q)] => scan'[q] = "new"
    <2>1. Parent(q) \in Paths /\ Parent(q) # q BY <1>7, ParentIs
    <2>2. CASE q = p
      <3>1. scan'[q] = s /\ scan'[Parent(q)] = scan[Parent(q)] BY <1>1, <2>1, <2>2
      <3>2. scan[q] \in Running /\ scan[q] # "new" BY <2>2 DEF Running
      <3>3. scan[Parent(q)] = "collect" /\ ~ (q[Len(q)] > nextKid[Parent(q)])
        BY <1>7, <3>2 DEF WalkOrder
      <3> QED BY <3>1, <3>3
    <2>3. CASE q # p /\ Parent(q) = p
      <3>1. scan'[q] = scan[q] /\ scan'[Parent(q)] = s BY <1>1, <2>1, <2>3
      <3>2. CASE scan[p] = "collect"
        <4>1. q \in KidsOf(p) BY <1>7, <2>3 DEF KidsOf
        <4>2. s = "done" /\ scan[q] \notin Running BY <3>2, <4>1
        <4>3. q[Len(q)] > nextKid[Parent(q)] => scan[q] = "new" BY <1>7 DEF WalkOrder
        <4> QED BY <3>1, <4>2, <4>3
      <3>3. CASE scan[p] # "collect"
        <4>1. scan[q] = "new" BY <1>3, <1>7, <2>3, <3>3
        <4> QED BY <3>1, <4>1 DEF Running
      <3> QED BY <3>2, <3>3
    <2>4. CASE q # p /\ Parent(q) # p
      <3>1. scan'[q] = scan[q] /\ scan'[Parent(q)] = scan[Parent(q)] BY <1>1, <2>1, <2>4
      <3> QED BY <1>7, <3>1 DEF WalkOrder
    <2> QED BY <2>2, <2>3, <2>4
  <1>8. ASSUME NEW q \in Paths, NEW k \in DOMAIN queue'[q]
        PROVE  Append(q, queue'[q][k]) \in Paths /\ scan'[Append(q, queue'[q][k])] = "done"
    <2>1. CASE Append(q, queue'[q][k]) = p /\ s = "done" BY <1>1, <2>1
    <2>2. CASE \E m \in DOMAIN queue[q] : queue'[q][k] = queue[q][m]
      <3>1. PICK m \in DOMAIN queue[q] : queue'[q][k] = queue[q][m] BY <2>2
      <3>2. Append(q, queue[q][m]) \in Paths /\ scan[Append(q, queue[q][m])] = "done"
        BY DEF WalkOrder
      <3>3. Append(q, queue[q][m]) # p BY <3>2 DEF Running
      <3> QED BY <1>1, <3>1, <3>2, <3>3
    <2> QED BY <2>1, <2>2
  <1>9. (\A q \in Paths : q # <<>> =>
          /\ scan[q] # "new" => scan[Parent(q)] \in {"collect", "done"}
          /\ scan[q] \in Running => scan[Parent(q)] = "collect"
          /\ q[Len(q)] > nextKid[Parent(q)] => scan[q] = "new")'
    BY <1>7
  <1>10. (\A q \in Paths : \A k \in DOMAIN queue[q] :
           Append(q, queue[q][k]) \in Paths /\ scan[Append(q, queue[q][k])] = "done")'
    BY <1>8
  <1> QED BY <1>4, <1>5, <1>6, <1>9, <1>10 DEF WalkOrder

-----------------------------------------------------------------------------
(* FolderScan.  What a step does to the order, the ranks and the hands.    *)

SameShare == UNCHANGED <<tree, floor, want>>

LEMMA ShareIs ==
  ASSUME SameShare
  PROVE  /\ Videos' = Videos /\ \A f : Eligible(f)' = Eligible(f)
         /\ \A v : File(v)' = File(v) /\ Worth(v)' = Worth(v) /\ Wanted(v)' = Wanted(v)
         /\ \A v, h : Known(v, h)' = Known(v, h)
         /\ \A v, k : Leads(k, v)' = Leads(k, v)
         /\ \A f, v : BestOf(f, v)' = BestOf(f, v)
  <1>1. /\ Videos' = Videos /\ \A f : Eligible(f)' = Eligible(f)
        /\ \A v : File(v)' = File(v) /\ Worth(v)' = Worth(v) /\ Wanted(v)' = Wanted(v)
        /\ \A v, h : Known(v, h)' = Known(v, h)
        /\ \A v, k : Leads(k, v)' = Leads(k, v)
    BY DEF SameShare, Videos, FilesIn, Eligible, HasSignal, EpisodeScore, File, Worth, Wanted,
           AboveFloor, Known, Leads
  <1>2. \A v, s : Key(v, s)' = Key(v, s)
    BY DEF SameShare, Key, EpisodeScore, TokenScore, File, AboveFloor
  <1>3. \A u, v : NotBefore(u, v)' = NotBefore(u, v)
    <2> SUFFICES ASSUME NEW u, NEW v PROVE NotBefore(u, v)' = NotBefore(u, v) OBVIOUS
    <2>1. /\ Key(u, File(u).size)' = Key(u, File(u).size)
          /\ Key(v, File(v).size)' = Key(v, File(v).size)
      BY DEF SameShare, Key, EpisodeScore, TokenScore, File, AboveFloor
    <2> QED BY <2>1 DEF NotBefore, Less
  <1>4. \A f, v : BestOf(f, v)' = BestOf(f, v) BY <1>1, <1>3 DEF BestOf
  <1> QED BY <1>1, <1>4

LEMMA HintsTrue ==
  ASSUME SameShare, TrueHints(hints') PROVE TrueHints(hints)'
  BY DEF TrueHints, Videos, FilesIn, File, SameShare

LEMMA GoodKept ==
  ASSUME SameShare, OnShare,
         \A u \in Videos : InHand(u) => \E w \in Videos : InHand(w)' /\ Worth(u) <= Worth(w)
  PROVE  \A n \in 0..2 : AsGood(n) => AsGood(n)'
  <1>1. SUFFICES ASSUME NEW n \in 0..2, AsGood(n) PROVE AsGood(n)' OBVIOUS
  <1>2. PICK u \in Videos : InHand(u) /\ n <= Worth(u) BY <1>1 DEF AsGood
  <1>3. PICK w \in Videos : InHand(w)' /\ Worth(u) <= Worth(w) BY <1>2
  <1>4. Worth(u) \in 0..2 /\ Worth(w) \in 0..2 BY DEF Worth
  <1>5. n <= Worth(w) BY <1>2, <1>3, <1>4
  <1>6. w \in Videos' /\ n <= Worth(w)' BY <1>5, ShareIs
  <1> QED BY <1>3, <1>6 DEF AsGood

LEMMA WorthRange == \A v : Worth(v) \in 0..2
  BY DEF Worth

LEMMA RanksKept ==
  ASSUME SameShare, RankedRight, TrueHints(hints)', UNCHANGED sib,
         \A u : Known(u, hints) => Known(u, hints'),
         \A q \in Paths : result'[q] # None =>
           result'[q] = result[q] \/ Known(result'[q], hints')
  PROVE  RankedRight'
  <1>1. ASSUME NEW q \in Paths, result'[q] # None PROVE Known(result'[q], hints')
    BY <1>1 DEF RankedRight
  <1>2. ASSUME NEW q \in Paths, sib[q] # None
        PROVE  Known(sib[q][1], hints') /\ Leads(sib[q][2], sib[q][1])
    BY <1>2 DEF RankedRight
  <1>3. (\A q \in Paths : result[q] # None => Known(result[q], hints))'
    BY <1>1 DEF SameShare, Known, File
  <1>4. (\A q \in Paths : sib[q] # None => Known(sib[q][1], hints) /\ Leads(sib[q][2], sib[q][1]))'
    <2>1. ASSUME NEW q \in Paths, sib'[q] # None PROVE Known(sib[q][1], hints)'
      BY <1>2, <2>1 DEF SameShare, Known, File
    <2>2. ASSUME NEW q \in Paths, sib'[q] # None PROVE Leads(sib[q][2], sib[q][1])'
      <3> DEFINE v == sib[q][1]
                 k == sib[q][2]
      <3>1. Leads(k, v) /\ v' = v /\ k' = k BY <1>2, <2>2
      <3>2. File(v)' = File(v) BY <3>1 DEF SameShare, File
      <3>3. EpisodeScore(v)' = EpisodeScore(v) BY <3>2 DEF SameShare, EpisodeScore
      <3>4. AboveFloor(File(v).size)' = AboveFloor(File(v).size) BY <3>2 DEF SameShare, AboveFloor
      <3> HIDE DEF v, k
      <3>5. Leads(k, v)' BY <3>1, <3>3, <3>4 DEF Leads
      <3> QED BY <3>5 DEF v, k
    <2> QED BY <2>1, <2>2
  <1> QED BY <1>3, <1>4 DEF RankedRight

LEMMA BestKeptOn ==
  ASSUME SameShare, BestKept, phase' # "inventory", phase' = "walk" => BestHints(hints'),
         \A q \in Paths : \A v \in Videos : own'[q] = v => own[q] = v \/ BestOf(v[1], v)
  PROVE  BestKept'
  <1>1. Videos' = Videos /\ \A f, v : BestOf(f, v)' = BestOf(f, v) BY ShareIs
  <1>2. BestHints(hints') => BestHints(hints)' BY <1>1 DEF BestHints
  <1>3. \A q \in Paths : \A v \in Videos' : own'[q] = v => BestOf(v[1], v)'
    BY <1>1 DEF BestKept
  <1> QED BY <1>2, <1>3 DEF BestKept

\* What a scan that returns leaves behind.
LEMMA ReturnIs ==
  ASSUME ScanTypes, WalkOrder, NEW p \in Paths, scan[p] \in Running,
         NEW v \in Videos \cup {None}, Return(p, v), SameShare, UNCHANGED <<own, sib, nextKid>>,
         scan[p] = "collect" => queue[p] = <<>> /\ \A q \in KidsOf(p) : scan[q] \notin Running
  PROVE  /\ \A q \in Paths : /\ scan'[q] = IF q = p THEN "done" ELSE scan[q]
                             /\ result'[q] = IF q = p THEN v ELSE result[q]
         /\ phase' = IF p = <<>> THEN "found" ELSE phase
         /\ WalkOrder'
         /\ visited' \subseteq Folders => ScanTypes'
         /\ v # None => InHand(v)'
         /\ \A u \in Videos : InHand(u) =>
              \/ InHand(u)'
              \/ scan[p] = "collect" /\ (u = own[p] \/ (sib[p] # None /\ u = sib[p][1]))
  <1>1. \A q \in Paths : /\ scan'[q] = IF q = p THEN "done" ELSE scan[q]
                         /\ result'[q] = IF q = p THEN v ELSE result[q]
    BY DEF Return, ScanTypes
  <1>2. phase' = IF p = <<>> THEN "found" ELSE phase BY DEF Return
  <1>3. ASSUME p # <<>>
        PROVE  /\ Parent(p) \in Paths /\ Parent(p) # p /\ Index(p) \in Nat
               /\ p = Append(Parent(p), Index(p)) /\ scan[Parent(p)] = "collect"
               /\ queue' = [queue EXCEPT ![Parent(p)] = Append(queue[Parent(p)], Index(p))]
    BY <1>3, ParentIs DEF Return, WalkOrder, Index
  <1>4. /\ queue' \in [Paths -> Seq(Nat)]
        /\ \A q \in Paths : \A k \in DOMAIN queue[q] :
             k \in DOMAIN queue'[q] /\ queue'[q][k] = queue[q][k]
        /\ \A q \in Paths : \A k \in DOMAIN queue'[q] :
             \/ k \in DOMAIN queue[q] /\ queue'[q][k] = queue[q][k]
             \/ p # <<>> /\ q = Parent(p) /\ queue'[q][k] = Index(p)
        /\ p # <<>> => \E k \in DOMAIN queue'[Parent(p)] : queue'[Parent(p)][k] = Index(p)
    <2>1. CASE p = <<>>
      <3>1. queue' = queue BY <2>1 DEF Return
      <3> QED BY <2>1, <3>1 DEF ScanTypes
    <2>2. CASE p # <<>>
      <3> DEFINE a == Parent(p)
                 s == queue[a]
                 t == Append(s, Index(p))
      <3>1. a \in Paths /\ Index(p) \in Nat /\ queue' = [queue EXCEPT ![a] = t]
        BY <1>3, <2>2
      <3>2. s \in Seq(Nat) /\ queue \in [Paths -> Seq(Nat)] BY <3>1 DEF ScanTypes
      <3>3. /\ t \in Seq(Nat) /\ Len(s) \in Nat /\ DOMAIN s = 1..Len(s)
            /\ DOMAIN t = 1..(Len(s) + 1) /\ t[Len(s) + 1] = Index(p)
            /\ \A k \in 1..Len(s) : t[k] = s[k]
        BY <3>1, <3>2, AppendProperties, LenProperties
      <3>5. /\ \A k \in DOMAIN s : k \in DOMAIN t /\ t[k] = s[k]
            /\ \A k \in DOMAIN t : (k \in DOMAIN s /\ t[k] = s[k]) \/ t[k] = Index(p)
            /\ \E k \in DOMAIN t : t[k] = Index(p)
        <4> HIDE DEF t
        <4>1. \A k \in 1..(Len(s) + 1) : k \in 1..Len(s) \/ k = Len(s) + 1 BY <3>3
        <4>2. 1..Len(s) \subseteq 1..(Len(s) + 1) /\ Len(s) + 1 \in 1..(Len(s) + 1) BY <3>3
        <4> QED BY <3>3, <4>1, <4>2
      <3>4. queue'[a] = t /\ \A q \in Paths \ {a} : queue'[q] = queue[q] BY <3>1, <3>2
      <3>6. queue' \in [Paths -> Seq(Nat)] BY <3>1, <3>2, <3>3
      <3> HIDE DEF a, t
      <3>7. /\ \A q \in Paths : \A k \in DOMAIN queue[q] :
                 k \in DOMAIN queue'[q] /\ queue'[q][k] = queue[q][k]
            /\ \A q \in Paths : \A k \in DOMAIN queue'[q] :
                 \/ k \in DOMAIN queue[q] /\ queue'[q][k] = queue[q][k]
                 \/ q = a /\ queue'[q][k] = Index(p)
            /\ \E k \in DOMAIN queue'[a] : queue'[a][k] = Index(p)
        BY <3>1, <3>4, <3>5
      <3> QED BY <2>2, <3>6, <3>7 DEF a
    <2> QED BY <2>1, <2>2
  <1>5. WalkOrder'
    <2>1. scan' = [scan EXCEPT ![p] = "done"] BY DEF Return
    <2>2. \A q \in Paths : \A k \in DOMAIN queue'[q] :
            (Append(q, queue'[q][k]) = p /\ "done" = "done")
            \/ \E m \in DOMAIN queue[q] : queue'[q][k] = queue[q][m]
      BY <1>3, <1>4
    <2>3. "done" \in Stages \ {"new"} BY DEF Stages
    <2> QED BY <1>2, <2>1, <2>2, <2>3, MovesInOrder
  <1>6. ASSUME visited' \subseteq Folders PROVE ScanTypes'
    <2>1. scan' \in [Paths -> Stages] /\ result' \in [Paths -> Videos \cup {None}]
      BY DEF Return, ScanTypes, Stages
    <2>2. phase' \in {"inventory", "walk", "found"} BY <1>2 DEF ScanTypes
    <2> QED BY <1>4, <1>6, <2>1, <2>2, ShareIs DEF ScanTypes, OnShare, SameShare
  <1>7. ASSUME v # None PROVE InHand(v)'
    <2>1. CASE p = <<>>
      <3>1. scan'[p] = "done" /\ result'[p] = v BY <1>1
      <3> QED BY <2>1, <3>1 DEF InHand
    <2>2. CASE p # <<>>
      <3>1. PICK k \in DOMAIN queue'[Parent(p)] : queue'[Parent(p)][k] = Index(p)
        BY <1>4, <2>2
      <3>2. result'[Append(Parent(p), queue'[Parent(p)][k])] = v BY <1>1, <1>3, <2>2, <3>1
      <3>3. scan'[Parent(p)] = "collect" BY <1>1, <1>3, <2>2
      <3> QED BY <1>3, <2>2, <3>1, <3>2, <3>3 DEF InHand
    <2> QED BY <2>1, <2>2
  <1>8. ASSUME NEW u \in Videos, InHand(u)
        PROVE  \/ InHand(u)'
               \/ scan[p] = "collect" /\ (u = own[p] \/ (sib[p] # None /\ u = sib[p][1]))
    <2>1. PICK q \in Paths :
            \/ scan[q] = "collect" /\ u = own[q]
            \/ scan[q] = "collect" /\ sib[q] # None /\ u = sib[q][1]
            \/ scan[q] = "collect" /\ \E k \in DOMAIN queue[q] : u = result[Append(q, queue[q][k])]
            \/ q = <<>> /\ scan[q] = "done" /\ u = result[q]
      BY <1>8 DEF InHand
    <2>2. CASE q = p
      <3>1. scan[p] # "done" BY DEF Running
      <3>3. DOMAIN <<>> = {} OBVIOUS
      <3>2. scan[p] = "collect" => ~ \E k \in DOMAIN queue[p] : TRUE BY <3>3
      <3> QED BY <2>1, <2>2, <3>1, <3>2
    <2>3. CASE q # p
      <3>1. scan'[q] = scan[q] /\ result'[q] = result[q] /\ own'[q] = own[q] /\ sib'[q] = sib[q]
        BY <1>1, <2>3
      <3>2. ASSUME NEW k \in DOMAIN queue[q], u = result[Append(q, queue[q][k])]
            PROVE  k \in DOMAIN queue'[q] /\ u = result'[Append(q, queue'[q][k])]
        <4>1. Append(q, queue[q][k]) \in Paths /\ scan[Append(q, queue[q][k])] = "done"
          BY DEF WalkOrder
        <4>2. Append(q, queue[q][k]) # p BY <4>1 DEF Running
        <4> QED BY <1>1, <1>4, <3>2, <4>1, <4>2
      <3>3. CASE scan[q] = "collect" /\ u = own[q] BY <3>1, <3>3 DEF InHand
      <3>4. CASE scan[q] = "collect" /\ sib[q] # None /\ u = sib[q][1]
        BY <3>1, <3>4 DEF InHand
      <3>5. CASE scan[q] = "collect"
                 /\ \E k \in DOMAIN queue[q] : u = result[Append(q, queue[q][k])]
        BY <3>1, <3>2, <3>5 DEF InHand
      <3>6. CASE q = <<>> /\ scan[q] = "done" /\ u = result[q] BY <3>1, <3>6 DEF InHand
      <3> QED BY <2>1, <3>3, <3>4, <3>5, <3>6
    <2> QED BY <2>2, <2>3
  <1> QED BY <1>1, <1>2, <1>5, <1>6, <1>7, <1>8

-----------------------------------------------------------------------------
(* FolderScan.  Where the search has been.                                 *)

SameDepth ==
  \A p, q \in Paths : FolderAt(p) = FolderAt(q) => Len(p) = Len(q)

LEMMA NamedIs ==
  ASSUME SameDepth, NEW p \in Paths, NEW q \in Paths, NamedBy(q, p)
  PROVE  /\ Append(q, Index(p)) \in Paths /\ Append(q, Index(p)) \in KidsOf(q)
         /\ Parent(Append(q, Index(p))) = q /\ Append(q, Index(p)) # <<>>
         /\ FolderAt(Append(q, Index(p))) = FolderAt(p)
         /\ Len(Append(q, Index(p))) = Len(p) /\ Len(p) <= MaxDepth
  <1> DEFINE a == Parent(p)
             i == Index(p)
  <1>1. /\ a \in Paths /\ i \in Nat /\ i \in DOMAIN Kids[FolderAt(a)]
        /\ FolderAt(p) = Kids[FolderAt(a)][i] /\ Len(p) \in 1..3 /\ Len(a) = Len(p) - 1
    BY ParentIs DEF NamedBy
  <1>2. FolderAt(q) = FolderAt(a) /\ Len(p) <= MaxDepth BY DEF NamedBy
  <1> HIDE DEF a, i
  <1>3. Len(q) = Len(p) - 1 BY <1>1, <1>2 DEF SameDepth
  <1>4. Len(q) <= MaxDepth BY <1>1, <1>2, <1>3 DEF MaxDepth
  <1>5. Append(q, i) \in Paths BY <1>1, <1>2, <1>4, PathsAre
  <1>6. /\ Parent(Append(q, i)) = q /\ Append(q, i) # <<>>
        /\ FolderAt(Append(q, i)) = Kids[FolderAt(q)][i]
    BY <1>1, <1>5, KidIs
  <1>7. FolderAt(Append(q, i)) = FolderAt(p) BY <1>1, <1>2, <1>6
  <1>8. Len(Append(q, i)) = Len(p) BY <1>5, <1>7 DEF SameDepth
  <1>9. Append(q, i) \in KidsOf(q) BY <1>5, <1>6 DEF KidsOf
  <1> QED BY <1>2, <1>5, <1>6, <1>7, <1>8, <1>9 DEF i

\* A step covers what was covered when it answers for each scan that leaves its listing, or
\* whose subfolder is no longer ahead.
LEMMA StillCovered ==
  ASSUME ScanTypes, SameShare, NothingDropped, KidsLooked,
         \A u \in Videos : InHand(u) => \E w \in Videos : InHand(w)' /\ Worth(u) <= Worth(w),
         visited \subseteq visited',
         \A f \in visited' \ visited : \E q \in Paths : scan'[q] = "list" /\ FolderAt(q) = f,
         \A q \in Paths : scan[q] = "list" /\ scan'[q] # "list" =>
           /\ \A v \in Eligible(FolderAt(q)) : AsGood(Worth(v))'
           /\ \A r \in Paths : NamedBy(q, r) => AsGood(2)' \/ Ahead(q, r)',
         \A q, r \in Paths : NamedBy(q, r) /\ Ahead(q, r) =>
           Ahead(q, r)' \/ FolderAt(r) \in visited' \/ AsGood(2)'
  PROVE  NothingDropped' /\ KidsLooked'
  <1>1. \A n \in 0..2 : AsGood(n) => AsGood(n)' BY GoodKept DEF ScanTypes
  <1>2. \A q, r : NamedBy(q, r)' <=> NamedBy(q, r) BY DEF NamedBy
  <1>3. ASSUME NEW f \in visited', NEW v \in Eligible(f)
        PROVE  AsGood(Worth(v))' \/ \E q \in Paths : scan'[q] = "list" /\ FolderAt(q) = f
    <2>1. CASE f \notin visited BY <2>1
    <2>2. CASE f \in visited
      <3>1. CASE AsGood(Worth(v))
        <4>1. \A n \in 0..2 : n = Worth(v) => AsGood(n)'
          BY <1>1, <3>1
        <4>2. PICK n \in 0..2 : n = Worth(v) BY WorthRange
        <4>3. AsGood(n)' /\ n = Worth(v)' BY <4>1, <4>2, ShareIs
        <4> QED BY <4>3 DEF AsGood
      <3>2. CASE \E q \in Paths : scan[q] = "list" /\ FolderAt(q) = f
        BY <3>2
      <3> QED BY <2>2, <3>1, <3>2 DEF NothingDropped
    <2> QED BY <2>1, <2>2
  <1>4. NothingDropped'
    <2>1. \A f : Eligible(f)' = Eligible(f) BY ShareIs
    <2> QED BY <1>3, <2>1 DEF NothingDropped
  <1>5. ASSUME NEW r \in Paths, r # <<>>, Len(r) <= MaxDepth, FolderAt(Parent(r)) \in visited'
        PROVE  \/ FolderAt(r) \in visited'
               \/ \E q \in Paths : NamedBy(q, r)' /\ (scan'[q] = "list" \/ Ahead(q, r)')
               \/ AsGood(2)'
    <2>1. \A q : FolderAt(q) = FolderAt(Parent(r)) => NamedBy(q, r) /\ NamedBy(q, r)'
      BY <1>2, <1>5 DEF NamedBy
    <2>2. CASE FolderAt(Parent(r)) \notin visited BY <1>5, <2>1, <2>2
    <2>3. CASE FolderAt(Parent(r)) \in visited
      <3>1. CASE FolderAt(r) \in visited BY <3>1
      <3>2. CASE AsGood(2) BY <1>1, <3>2
      <3>3. CASE \E q \in Paths : NamedBy(q, r) /\ (scan[q] = "list" \/ Ahead(q, r))
        <4>1. PICK q \in Paths : NamedBy(q, r) /\ (scan[q] = "list" \/ Ahead(q, r)) BY <3>3
        <4>2. NamedBy(q, r)' BY <1>2, <4>1
        <4> QED BY <4>1, <4>2
      <3> QED BY <1>5, <2>3, <3>1, <3>2, <3>3 DEF KidsLooked
    <2> QED BY <2>2, <2>3
  <1>6. KidsLooked' BY <1>5 DEF KidsLooked
  <1> QED BY <1>4, <1>6

LEMMA RootKept ==
  ASSUME RootLooked, scan'[<<>>] # "new", visited \subseteq visited',
         scan'[<<>>] \in {"enter", "mark"} => visited' = {},
         scan'[<<>>] \in {"list", "collect", "done"} =>
           scan[<<>>] \in {"list", "collect", "done"} \/ Root \in visited'
  PROVE  RootLooked' /\ FoundAtOnce'
  BY DEF RootLooked, FoundAtOnce

-----------------------------------------------------------------------------
(* FolderScan.  Each step of the search keeps the invariant.               *)

LEMMA InventoryKeeps ==
  ASSUME ScanInv, RoomForHints, Inventory
  PROVE  ScanInv'
  <1> USE DEF ScanInv
  <1>1. /\ \A p \in Paths : scan[p] = "new"
        /\ visited = {} /\ visited' = {} /\ scan[<<>>] = "new"
    BY RootPath DEF Inventory, WalkOrder, RootLooked
  <1>2. SameShare /\ UNCHANGED <<own, nextKid, queue, sib, unread>> BY DEF Inventory, SameShare
  <1>3. Reach \subseteq Folders BY PathsAre DEF Reach
  <1>4. Selected \subseteq Videos
    BY <1>3 DEF Selected, Exact, MainUntagged, FilesIn, Videos
  <1>5. ASSUME NEW p \in Paths PROVE queue[p] = <<>>
    <2>1. \A k \in DOMAIN queue[p] : FALSE BY <1>1 DEF WalkOrder
    <2>2. queue[p] \in Seq(Nat) BY DEF ScanTypes
    <2>3. Len(queue[p]) \in Nat /\ DOMAIN queue[p] = 1..Len(queue[p]) BY <2>2, LenProperties
    <2>4. Len(queue[p]) = 0
      <3> DEFINE n == Len(queue[p])
      <3>1. n \in Nat /\ \A k \in 1..n : FALSE BY <2>1, <2>3
      <3> HIDE DEF n
      <3>2. n = 0 BY <3>1
      <3> QED BY <3>2 DEF n
    <2> QED BY <2>2, <2>4, EmptySeq
  <1>6. CASE /\ want = "episode" /\ Complete /\ phase' = "found" /\ UNCHANGED scan
             /\ \E v \in Selected : /\ result' = [result EXCEPT ![<<>>] = v]
                                    /\ hints' = Remembered(v, File(v).size)
    <2>1. PICK v \in Selected : /\ result' = [result EXCEPT ![<<>>] = v]
                                /\ hints' = Remembered(v, File(v).size)
      BY <1>6
    <2>2. v \in Videos BY <1>4
    <2>3. /\ TrueHints(hints') /\ Known(v, hints')
          /\ \A u : Known(u, hints) => Known(u, hints')
      <3>1. hints = <<>> /\ Len(hints) = 0 BY EmptySeq DEF Inventory, BestKept
      <3>2. HintMax \in Nat \ {0} BY ScanAssumption
      <3>3. Len(hints) <= HintMax /\ Len(hints) < HintMax BY <3>1, <3>2
      <3> QED BY <2>1, <2>2, <3>3, RememberedIs DEF ScanTypes, RankedRight
    <2>4. result' \in [Paths -> Videos \cup {None}] /\ result'[<<>>] = v
          /\ \A q \in Paths : result'[q] = IF q = <<>> THEN v ELSE result[q]
      BY <2>1, <2>2, RootPath DEF ScanTypes
    <2>5. ScanTypes' BY <1>2, <1>6, <2>4, ShareIs DEF ScanTypes, OnShare, SameShare, Inventory
    <2>6. WalkOrder' BY <1>1, <1>2, <1>6, RootPath DEF WalkOrder
    <2>7. TrueHints(hints)' BY <2>3, <1>2, HintsTrue
    <2>8. \A q \in Paths : result'[q] # None =>
            result'[q] = result[q] \/ Known(result'[q], hints')
      BY <2>3, <2>4
    <2>9. RankedRight' BY <1>2, <2>3, <2>7, <2>8, RanksKept
    <2>10. RootLooked' BY <1>1, <1>6 DEF RootLooked
    <2>11. Complete' /\ result'[<<>>] \in Selected'
      <3>1. FilesIn(Reach)' = FilesIn(Reach) BY <1>2 DEF FilesIn, SameShare
      <3>2. \A u : File(u)' = File(u) BY <1>2, ShareIs
      <3>3. Complete' = Complete BY <3>1, <3>2 DEF Complete
      <3>4. Exact' = Exact BY <3>1, <3>2 DEF Exact
      <3>5. MainUntagged' = MainUntagged BY <3>1, <3>2 DEF MainUntagged
      <3>6. Selected' = Selected BY <3>2, <3>4, <3>5 DEF Selected
      <3> QED BY <1>6, <2>4, <3>3, <3>6
    <2>12. FoundAtOnce' BY <2>11 DEF FoundAtOnce
    <2>13. (NothingDropped /\ KidsLooked)' BY <1>1 DEF NothingDropped, KidsLooked
    <2>14. BestKept' BY <1>2, <1>6, BestKeptOn
    <2> QED BY <2>5, <2>6, <2>9, <2>10, <2>12, <2>13, <2>14
  <1>7. CASE /\ phase' = "walk" /\ scan' = [scan EXCEPT ![<<>>] = "enter"]
             /\ UNCHANGED <<result, hints>>
    <2>1. \A q \in Paths : scan'[q] = IF q = <<>> THEN "enter" ELSE "new"
      BY <1>1, <1>7 DEF ScanTypes
    <2>2. scan' \in [Paths -> Stages] BY <1>7 DEF ScanTypes, Stages
    <2>3. ScanTypes' BY <1>2, <1>7, <2>2, ShareIs DEF ScanTypes, OnShare, SameShare, Inventory
    <2>4. WalkOrder'
      <3>1. \A q \in Paths : q # <<>> => scan'[q] = "new" BY <2>1
      <3>2. \A q \in Paths : scan'[q] \notin {"mark", "list", "collect"} BY <2>1
      <3>3. \A q \in Paths : DOMAIN queue'[q] = {}
        <4>1. DOMAIN <<>> = {} OBVIOUS
        <4> QED BY <1>2, <1>5, <4>1
      <3>4. phase' = "walk" BY <1>7
      <3> QED BY <3>1, <3>2, <3>3, <3>4 DEF WalkOrder, Running
    <2>5. TrueHints(hints)' BY <1>2, <1>7, HintsTrue DEF RankedRight
    <2>6. RankedRight' BY <1>2, <1>7, <2>5, RanksKept
    <2>7. RootLooked' BY <1>1, <2>1, RootPath DEF RootLooked
    <2>8. FoundAtOnce' BY <1>7 DEF FoundAtOnce
    <2>9. (NothingDropped /\ KidsLooked)' BY <1>1 DEF NothingDropped, KidsLooked
    <2>10. BestKept'
      <3>1. hints' = <<>> BY <1>7 DEF Inventory, BestKept
      <3>2. DOMAIN <<>> = {} OBVIOUS
      <3>3. BestHints(hints') BY <3>1, <3>2 DEF BestHints
      <3> QED BY <1>2, <1>7, <3>3, BestKeptOn
    <2> QED BY <2>3, <2>4, <2>6, <2>7, <2>8, <2>9, <2>10
  <1> QED BY <1>6, <1>7 DEF Inventory

LEMMA HintsStay ==
  ASSUME SameShare, RankedRight, UNCHANGED hints
  PROVE  TrueHints(hints)' /\ \A u : Known(u, hints) => Known(u, hints')
  BY DEF TrueHints, Videos, FilesIn, File, SameShare, RankedRight

LEMMA ClaimKeeps ==
  ASSUME ScanInv, NEW p \in Paths, Claim(p)
  PROVE  ScanInv'
  <1> USE DEF ScanInv
  <1> DEFINE kid == Append(p, nextKid[p] + 1)
  <1>1. /\ SameShare /\ scan[p] = "collect" /\ nextKid[p] \in Nat
        /\ UNCHANGED <<phase, own, queue, sib, result, visited, hints, unread>>
        /\ nextKid' = [nextKid EXCEPT ![p] = nextKid[p] + 1]
        /\ scan' = [scan EXCEPT ![kid] = "enter"]
    BY DEF Claim, SameShare, ScanTypes
  <1>2. kid \in Paths => /\ Parent(kid) = p /\ kid # <<>> /\ kid # p /\ Index(kid) = nextKid[p] + 1
                         /\ scan[kid] = "new"
    <2>1. SUFFICES ASSUME kid \in Paths
                   PROVE  /\ Parent(kid) = p /\ kid # <<>> /\ kid # p /\ scan[kid] = "new"
                          /\ Index(kid) = nextKid[p] + 1
      OBVIOUS
    <2>2. nextKid[p] + 1 \in Nat BY <1>1
    <2>3. Parent(kid) = p /\ kid # <<>> /\ kid # p /\ Index(kid) = nextKid[p] + 1
      BY <2>1, <2>2, KidIs
    <2> HIDE DEF kid
    <2>4. Index(kid) > nextKid[Parent(kid)] BY <1>1, <2>3
    <2>5. scan[kid] = "new" BY <2>1, <2>3, <2>4 DEF WalkOrder, Index
    <2> QED BY <2>3, <2>5
  <1> HIDE DEF kid
  <1>3. \A q \in Paths : scan'[q] = IF q = kid THEN "enter" ELSE scan[q] BY <1>1 DEF ScanTypes
  <1>4. \A q \in Paths : /\ scan'[q] = "collect" <=> scan[q] = "collect"
                         /\ scan'[q] = "done" <=> scan[q] = "done"
                         /\ scan'[q] = "list" <=> scan[q] = "list"
                         /\ scan'[q] = "mark" <=> scan[q] = "mark"
    BY <1>2, <1>3
  <1>5. scan' \in [Paths -> Stages] /\ nextKid' \in [Paths -> Nat]
    <2>1. "enter" \in Stages BY DEF Stages
    <2>2. scan \in [Paths -> Stages] /\ nextKid \in [Paths -> Nat] BY DEF ScanTypes
    <2>3. scan' \in [Paths -> Stages] BY <1>1, <2>1, <2>2
    <2>4. nextKid[p] + 1 \in Nat BY <1>1
    <2> QED BY <1>1, <2>2, <2>3, <2>4
  <1>6. ScanTypes' BY <1>1, <1>5, ShareIs DEF ScanTypes, OnShare, SameShare
  <1>7. scan'[<<>>] = scan[<<>>] BY <1>2, <1>3, RootPath
  <1>8. WalkOrder'
    <2>1. phase # "inventory" BY <1>1 DEF WalkOrder
    <2>2. (phase = "inventory" => \A q \in Paths : scan[q] = "new")' BY <1>1, <2>1
    <2>3. (phase = "found" => scan[<<>>] \in {"new", "done"})' BY <1>1, <1>7 DEF WalkOrder
    <2>4. (\A q \in Paths : scan[q] \in {"mark", "list", "collect"} => Len(q) <= MaxDepth)'
      BY <1>4 DEF WalkOrder
    <2>5. ASSUME NEW q \in Paths, q # <<>>
          PROVE  /\ scan'[q] # "new" => scan'[Parent(q)] \in {"collect", "done"}
                 /\ scan'[q] \in Running => scan'[Parent(q)] = "collect"
                 /\ q[Len(q)] > nextKid'[Parent(q)] => scan'[q] = "new"
      <3>1. Parent(q) \in Paths /\ Index(q) \in Nat BY <2>5, ParentIs
      <3>2. nextKid'[Parent(q)] = IF Parent(q) = p THEN nextKid[p] + 1 ELSE nextKid[Parent(q)]
        BY <1>1, <3>1 DEF ScanTypes
      <3>3. CASE q = kid
        <4>1. scan'[Parent(q)] = "collect" BY <1>1, <1>2, <1>4, <3>3
        <4>2. ~ (Index(q) > nextKid'[Parent(q)]) BY <1>1, <1>2, <3>2, <3>3
        <4> QED BY <4>1, <4>2 DEF Index
      <3>4. CASE q # kid
        <4>1. scan'[q] = scan[q] BY <1>3, <3>4
        <4>2. Index(q) > nextKid'[Parent(q)] => Index(q) > nextKid[Parent(q)]
          BY <1>1, <3>1, <3>2
        <4>3. /\ scan[q] # "new" => scan[Parent(q)] \in {"collect", "done"}
              /\ scan[q] \in Running => scan[Parent(q)] = "collect"
              /\ Index(q) > nextKid[Parent(q)] => scan[q] = "new"
          BY <2>5 DEF WalkOrder, Index
        <4> QED BY <1>4, <3>1, <4>1, <4>2, <4>3 DEF Index
      <3> QED BY <3>3, <3>4
    <2>6. (\A q \in Paths : \A k \in DOMAIN queue[q] :
             Append(q, queue[q][k]) \in Paths /\ scan[Append(q, queue[q][k])] = "done")'
      <3>1. ASSUME NEW q \in Paths, NEW k \in DOMAIN queue'[q]
            PROVE  Append(q, queue'[q][k]) \in Paths /\ scan'[Append(q, queue'[q][k])] = "done"
        <4>1. Append(q, queue[q][k]) \in Paths /\ scan[Append(q, queue[q][k])] = "done"
          BY <1>1 DEF WalkOrder
        <4> QED BY <1>1, <1>4, <4>1
      <3> QED BY <3>1
    <2>7. (\A q \in Paths : q # <<>> =>
            /\ scan[q] # "new" => scan[Parent(q)] \in {"collect", "done"}
            /\ scan[q] \in Running => scan[Parent(q)] = "collect"
            /\ q[Len(q)] > nextKid[Parent(q)] => scan[q] = "new")'
      BY <2>5
    <2> QED BY <2>2, <2>3, <2>4, <2>6, <2>7 DEF WalkOrder
  <1>9. RankedRight' BY <1>1, HintsStay, RanksKept
  <1>10. RootLooked' /\ FoundAtOnce'
    <2>1. phase = "walk" BY <1>1, RootOf DEF Running
    <2> QED BY <1>1, <1>7, <2>1 DEF RootLooked, FoundAtOnce
  <1>11. ASSUME want = "episode", unread = {} PROVE NothingDropped' /\ KidsLooked'
    <2>1. ASSUME NEW u \in Videos, InHand(u) PROVE InHand(u)' /\ Worth(u) <= Worth(u)
      <3>1. InHand(u)' BY <1>1, <1>4, <2>1, RootPath DEF InHand
      <3>2. Worth(u) \in 0..2 BY WorthRange
      <3> QED BY <3>1, <3>2
    <2>2. ASSUME NEW q \in Paths, NEW r \in Paths, NamedBy(q, r), Ahead(q, r) PROVE Ahead(q, r)'
      <3>1. scan'[q] = "collect" BY <1>4, <2>2 DEF Ahead
      <3>2. scan'[Append(q, Index(r))] \in {"new", "enter", "mark"}
        BY <1>1, <2>2 DEF Ahead, ScanTypes
      <3> QED BY <3>1, <3>2 DEF Ahead
    <2> QED BY <1>1, <1>4, <1>11, <2>1, <2>2, StillCovered
  <1>12. BestKept'
    <2>1. phase = "walk" BY <1>1, RootOf DEF Running
    <2>2. BestHints(hints') BY <1>1, <2>1 DEF BestKept
    <2> QED BY <1>1, <2>1, <2>2, BestKeptOn
  <1> QED BY <1>1, <1>6, <1>8, <1>9, <1>10, <1>11, <1>12 DEF SameShare

\* A scan that goes on, and has nothing to hand over yet.
LEMMA GoesOn ==
  ASSUME ScanInv, NEW p \in Paths, scan[p] \in {"enter", "mark", "list"}, Len(p) <= MaxDepth,
         NEW s \in {"mark", "list", "collect"}, scan' = [scan EXCEPT ![p] = s],
         SameShare, UNCHANGED <<phase, nextKid, queue, sib, result, hints>>,
         own' \in [Paths -> Videos \cup {None}], \A q \in Paths \ {p} : own'[q] = own[q],
         own'[p] = own[p] \/ BestOf(own'[p][1], own'[p]) \/ own'[p] = None,
         visited' \subseteq Folders
  PROVE  /\ ScanTypes' /\ WalkOrder' /\ RankedRight' /\ BestKept'
         /\ \A q \in Paths : scan'[q] = IF q = p THEN s ELSE scan[q]
         /\ \A u \in Videos : InHand(u) => \E w \in Videos : InHand(w)' /\ Worth(u) <= Worth(w)
         /\ p = <<>> \/ scan[<<>>] = "collect"
  <1> USE DEF ScanInv
  <1>1. \A q \in Paths : scan'[q] = IF q = p THEN s ELSE scan[q] BY DEF ScanTypes
  <1>2. scan' \in [Paths -> Stages] BY DEF ScanTypes, Stages
  <1>3. ScanTypes' BY <1>2, ShareIs DEF ScanTypes, OnShare, SameShare
  <1>4. WalkOrder'
    <2>1. scan[p] \in Running /\ s \in Stages \ {"new"} /\ s # "done" /\ scan[p] # "collect"
      BY DEF Running, Stages
    <2>2. \A q \in Paths : \A k \in DOMAIN queue'[q] :
            (Append(q, queue'[q][k]) = p /\ s = "done")
            \/ \E m \in DOMAIN queue[q] : queue'[q][k] = queue[q][m]
      OBVIOUS
    <2> QED BY <2>1, <2>2, MovesInOrder
  <1>5. RankedRight' BY HintsStay, RanksKept
  <1>6. ASSUME NEW u \in Videos, InHand(u) PROVE InHand(u)'
    <2>1. PICK q \in Paths :
            \/ scan[q] = "collect" /\ u = own[q]
            \/ scan[q] = "collect" /\ sib[q] # None /\ u = sib[q][1]
            \/ scan[q] = "collect" /\ \E k \in DOMAIN queue[q] : u = result[Append(q, queue[q][k])]
            \/ q = <<>> /\ scan[q] = "done" /\ u = result[q]
      BY <1>6 DEF InHand
    <2>2. q # p BY <2>1
    <2>3. scan'[q] = scan[q] /\ own'[q] = own[q] BY <1>1, <2>2
    <2>4. \/ scan'[q] = "collect" /\ u = own'[q]
          \/ scan'[q] = "collect" /\ sib'[q] # None /\ u = sib'[q][1]
          \/ scan'[q] = "collect"
             /\ \E k \in DOMAIN queue'[q] : u = result'[Append(q, queue'[q][k])]
          \/ q = <<>> /\ scan'[q] = "done" /\ u = result'[q]
      BY <2>1, <2>3
    <2> QED BY <2>4 DEF InHand
  <1>7. ASSUME NEW u \in Videos, InHand(u)
        PROVE  \E w \in Videos : InHand(w)' /\ Worth(u) <= Worth(w)
    <2>1. Worth(u) <= Worth(u) BY WorthRange
    <2> QED BY <1>6, <1>7, <2>1
  <1>8. (p = <<>> \/ scan[<<>>] = "collect") /\ phase = "walk" BY RootOf DEF Running
  <1>9. BestKept'
    <2>1. BestHints(hints') /\ phase' = "walk" BY <1>8 DEF BestKept
    <2>2. ASSUME NEW q \in Paths, NEW v \in Videos, own'[q] = v
          PROVE  own[q] = v \/ BestOf(v[1], v)
      <3>1. v # None BY VideoIs DEF ScanTypes
      <3> QED BY <2>2, <3>1
    <2> QED BY <2>1, <2>2, BestKeptOn
  <1> QED BY <1>1, <1>3, <1>4, <1>5, <1>7, <1>8, <1>9

LEMMA ReturnsRanked ==
  ASSUME ScanInv, RoomForHints, SameShare, UNCHANGED <<own, sib>>, NEW p \in Paths,
         NEW v \in Videos \cup {None}, phase = "walk", phase' # "inventory",
         \A q \in Paths : result'[q] = IF q = p THEN v ELSE result[q],
         \/ hints' = hints /\ (v # None => Known(v, hints))
         \/ v # None /\ BestOf(v[1], v) /\ hints' = Remembered(v, File(v).size)
  PROVE  RankedRight' /\ BestKept'
  <1> USE DEF ScanInv
  <1>3. BestHints(hints) BY DEF BestKept
  <1>1. CASE hints' = hints /\ (v # None => Known(v, hints))
    <2>1. TrueHints(hints)' /\ \A u : Known(u, hints) => Known(u, hints') BY <1>1, HintsStay
    <2>2. \A q \in Paths : result'[q] # None =>
            result'[q] = result[q] \/ Known(result'[q], hints')
      BY <1>1, <2>1
    <2>3. BestKept' BY <1>1, <1>3, BestKeptOn
    <2> QED BY <2>1, <2>2, <2>3, RanksKept
  <1>2. CASE v # None /\ BestOf(v[1], v) /\ hints' = Remembered(v, File(v).size)
    <2>1. /\ TrueHints(hints') /\ BestHints(hints') /\ Known(v, hints')
          /\ \A u : Known(u, hints) => Known(u, hints')
      <3>1. OnShare /\ TrueHints(hints) /\ v \in Videos BY <1>2 DEF ScanTypes, RankedRight
      <3> QED BY <1>2, <1>3, <3>1, BestRemembered
    <2>2. TrueHints(hints)' BY <2>1, HintsTrue
    <2>3. \A q \in Paths : result'[q] # None =>
            result'[q] = result[q] \/ Known(result'[q], hints')
      BY <2>1
    <2>4. BestKept' BY <2>1, BestKeptOn
    <2> QED BY <2>1, <2>2, <2>3, <2>4, RanksKept
  <1> QED BY <1>1, <1>2

LEMMA EnterKeeps ==
  ASSUME ScanInv, SameDepth, RoomForHints, NEW p \in Paths, Enter(p)
  PROVE  ScanInv'
  <1> USE DEF ScanInv
  <1>1. /\ SameShare /\ scan[p] = "enter" /\ scan[p] \in Running
        /\ UNCHANGED <<own, nextKid, sib, visited, hints, unread>>
    BY DEF Enter, SameShare, Running
  <1>2. /\ p = <<>> \/ scan[<<>>] = "collect"
        /\ phase = "walk" /\ <<>> \in Paths /\ FolderAt(<<>>) = Root /\ visited \subseteq Folders
    BY <1>1, RootOf, RootPath DEF ScanTypes
  <1>3. CASE Len(p) > MaxDepth \/ FolderAt(p) \in visited
    <2>1. Return(p, None) BY <1>3 DEF Enter
    <2>2. /\ \A q \in Paths : /\ scan'[q] = IF q = p THEN "done" ELSE scan[q]
                              /\ result'[q] = IF q = p THEN None ELSE result[q]
          /\ WalkOrder' /\ ScanTypes' /\ phase' # "inventory"
          /\ \A u \in Videos : InHand(u) => InHand(u)'
      <3>1. None \in Videos \cup {None} /\ scan[p] # "collect" BY <1>1
      <3>2. visited' \subseteq Folders /\ UNCHANGED <<own, sib, nextKid>> BY <1>1, <1>2
      <3> QED BY <1>1, <1>2, <2>1, <3>1, <3>2, ReturnIs
    <2>3. RankedRight' /\ BestKept' BY <1>1, <1>2, <2>2, ReturnsRanked
    <2>4. p # <<>>
      <3>1. SUFFICES ASSUME p = <<>> PROVE FALSE OBVIOUS
      <3>2. visited = {} BY <1>1, <3>1 DEF RootLooked
      <3>3. Len(p) = 0 BY <3>1, EmptySeq
      <3> QED BY <1>3, <3>2, <3>3 DEF MaxDepth
    <2>5. RootLooked' /\ FoundAtOnce'
      <3>1. scan'[<<>>] = "collect" /\ scan[<<>>] = "collect" BY <1>2, <2>2, <2>4
      <3> QED BY <1>1, <3>1, RootKept
    <2>6. ASSUME want = "episode", unread = {} PROVE NothingDropped' /\ KidsLooked'
      <3>1. ASSUME NEW u \in Videos, InHand(u)
            PROVE  \E w \in Videos : InHand(w)' /\ Worth(u) <= Worth(w)
        <4>1. Worth(u) <= Worth(u) BY WorthRange
        <4> QED BY <2>2, <3>1, <4>1
      <3>2. \A q \in Paths : scan[q] = "list" => scan'[q] = "list" BY <1>1, <2>2
      <3>3. ASSUME NEW q \in Paths, NEW r \in Paths, NamedBy(q, r), Ahead(q, r)
            PROVE  Ahead(q, r)' \/ FolderAt(r) \in visited'
        <4> DEFINE kid == Append(q, Index(r))
        <4>1. /\ kid \in Paths /\ FolderAt(kid) = FolderAt(r)
              /\ Len(kid) = Len(r) /\ Len(r) <= MaxDepth
          BY <3>3, NamedIs
        <4> HIDE DEF kid
        <4>2. CASE kid = p
          <5>1. Len(p) \in 0..(MaxDepth + 1) BY PathsAre
          <5>2. ~ (Len(p) > MaxDepth) BY <4>1, <4>2, <5>1 DEF MaxDepth
          <5> QED BY <1>1, <1>3, <4>1, <4>2, <5>2
        <4>3. CASE kid # p
          <5>1. scan'[kid] = scan[kid] /\ scan'[q] = scan[q]
            BY <1>1, <2>2, <3>3, <4>1, <4>3 DEF Ahead
          <5> QED BY <3>3, <5>1 DEF Ahead, kid
        <4> QED BY <4>2, <4>3
      <3> QED BY <1>1, <2>6, <3>1, <3>2, <3>3, StillCovered
    <2> QED BY <1>1, <2>2, <2>3, <2>5, <2>6 DEF SameShare
  <1>4. CASE ~ (Len(p) > MaxDepth \/ FolderAt(p) \in visited)
    <2>1. scan' = [scan EXCEPT ![p] = "mark"] /\ UNCHANGED <<result, queue, phase>>
      BY <1>4 DEF Enter
    <2>2. Len(p) <= MaxDepth
      <3>1. Len(p) \in 0..(MaxDepth + 1) BY PathsAre
      <3> QED BY <1>4, <3>1 DEF MaxDepth
    <2>3. /\ ScanTypes' /\ WalkOrder' /\ RankedRight' /\ BestKept'
          /\ \A q \in Paths : scan'[q] = IF q = p THEN "mark" ELSE scan[q]
          /\ \A u \in Videos : InHand(u) => \E w \in Videos : InHand(w)' /\ Worth(u) <= Worth(w)
      BY <1>1, <1>2, <2>1, <2>2, GoesOn DEF ScanTypes
    <2>4. RootLooked' /\ FoundAtOnce'
      <3>1. scan'[<<>>] # "new" BY <1>2, <2>3
      <3>2. scan'[<<>>] \in {"enter", "mark"} => visited' = {}
        BY <1>1, <1>2, <2>3 DEF RootLooked
      <3>3. scan'[<<>>] \in {"list", "collect", "done"} =>
              scan[<<>>] \in {"list", "collect", "done"}
        BY <1>2, <2>3
      <3> QED BY <1>1, <3>1, <3>2, <3>3, RootKept
    <2>5. ASSUME want = "episode", unread = {} PROVE NothingDropped' /\ KidsLooked'
      <3>1. \A q \in Paths : scan[q] = "list" => scan'[q] = "list" BY <1>1, <2>3
      <3>2. ASSUME NEW q \in Paths, NEW r \in Paths, NamedBy(q, r), Ahead(q, r) PROVE Ahead(q, r)'
        <4> DEFINE kid == Append(q, Index(r))
        <4>1. kid \in Paths BY <3>2, NamedIs
        <4>2. scan[q] = "collect" /\ scan[kid] \in {"new", "enter", "mark"} BY <3>2 DEF Ahead
        <4> HIDE DEF kid
        <4>3. scan'[q] = "collect" /\ scan'[kid] \in {"new", "enter", "mark"}
          BY <1>1, <2>3, <4>1, <4>2
        <4> QED BY <4>3 DEF Ahead, kid
      <3> QED BY <1>1, <2>3, <2>5, <3>1, <3>2, StillCovered
    <2> QED BY <1>1, <2>3, <2>4, <2>5 DEF SameShare
  <1> QED BY <1>3, <1>4

LEMMA MarkKeeps ==
  ASSUME ScanInv, SameDepth, RoomForHints, NEW p \in Paths, Mark(p)
  PROVE  ScanInv'
  <1> USE DEF ScanInv
  <1>1. /\ SameShare /\ scan[p] = "mark" /\ scan' = [scan EXCEPT ![p] = "list"]
        /\ UNCHANGED <<phase, own, nextKid, queue, sib, result, hints, unread>>
        /\ visited' = visited \cup {FolderAt(p)}
    BY DEF Mark, SameShare
  <1>2. Len(p) <= MaxDepth BY <1>1 DEF WalkOrder
  <1>3. visited' \subseteq Folders BY <1>1, PathsAre DEF ScanTypes
  <1>4. /\ ScanTypes' /\ WalkOrder' /\ RankedRight' /\ BestKept'
        /\ \A q \in Paths : scan'[q] = IF q = p THEN "list" ELSE scan[q]
        /\ \A u \in Videos : InHand(u) => \E w \in Videos : InHand(w)' /\ Worth(u) <= Worth(w)
        /\ p = <<>> \/ scan[<<>>] = "collect"
    BY <1>1, <1>2, <1>3, GoesOn DEF ScanTypes
  <1>5. RootLooked' /\ FoundAtOnce'
    <2>1. scan'[<<>>] # "new" /\ scan'[<<>>] \notin {"enter", "mark"} BY <1>4, RootPath
    <2>2. p = <<>> => Root \in visited' BY <1>1, RootPath
    <2>3. p # <<>> => scan[<<>>] = "collect" BY <1>4
    <2> QED BY <1>1, <2>1, <2>2, <2>3, RootKept
  <1>6. ASSUME want = "episode", unread = {} PROVE NothingDropped' /\ KidsLooked'
    <2>1. \A q \in Paths : scan[q] = "list" => scan'[q] = "list" BY <1>1, <1>4
    <2>2. ASSUME NEW q \in Paths, NEW r \in Paths, NamedBy(q, r), Ahead(q, r)
          PROVE  Ahead(q, r)' \/ FolderAt(r) \in visited'
      <3> DEFINE kid == Append(q, Index(r))
      <3>1. kid \in Paths /\ FolderAt(kid) = FolderAt(r) BY <2>2, NamedIs
      <3>2. scan[q] = "collect" /\ scan[kid] \in {"new", "enter", "mark"} BY <2>2 DEF Ahead
      <3> HIDE DEF kid
      <3>3. CASE kid = p BY <1>1, <3>1, <3>3
      <3>4. CASE kid # p
        <4>1. scan'[q] = "collect" /\ scan'[kid] \in {"new", "enter", "mark"}
          BY <1>1, <1>4, <3>1, <3>2, <3>4
        <4> QED BY <4>1 DEF Ahead, kid
      <3> QED BY <3>3, <3>4
    <2>3. \A f \in visited' \ visited : \E q \in Paths : scan'[q] = "list" /\ FolderAt(q) = f
      BY <1>1, <1>4
    <2> QED BY <1>1, <1>4, <1>6, <2>1, <2>2, <2>3, StillCovered
  <1> QED BY <1>1, <1>4, <1>5, <1>6 DEF SameShare

\* Where a folder was listed, its best file is in hand and stands for all of its files.
LEMMA BestStands ==
  ASSUME SameShare, OnShare, want = "episode", NEW f \in Folders,
         \A b \in Videos : b = BestHere(f) => InHand(b)'
  PROVE  \A v \in Eligible(f) : AsGood(Worth(v))'
  <1>1. SUFFICES ASSUME NEW v \in Eligible(f) PROVE AsGood(Worth(v))' OBVIOUS
  <1>2. PICK b \in Videos : b = BestHere(f) /\ Worth(v) <= Worth(b)
    <2>1. /\ BestHere(f) \in Eligible(f) /\ Worth(v) <= Worth(BestHere(f))
          /\ Eligible(f) \subseteq Videos
      BY <1>1, BestIs
    <2> QED BY <2>1
  <1>3. InHand(b)' BY <1>2
  <1>4. b \in Videos' /\ Worth(v)' <= Worth(b)' BY <1>2, ShareIs
  <1> QED BY <1>3, <1>4 DEF AsGood

LEMMA ListKeeps ==
  ASSUME ScanInv, SameDepth, RoomForHints, NEW p \in Paths, List(p)
  PROVE  ScanInv'
  <1> USE DEF ScanInv
  <1>1. /\ SameShare /\ scan[p] = "list" /\ scan[p] \in Running
        /\ UNCHANGED <<nextKid, sib, visited, unread>>
    BY DEF List, SameShare, Running
  <1>2. /\ p = <<>> \/ scan[<<>>] = "collect"
        /\ phase = "walk" /\ <<>> \in Paths /\ FolderAt(<<>>) = Root /\ visited \subseteq Folders
        /\ FolderAt(p) \in Folders /\ Len(p) <= MaxDepth /\ OnShare
    BY <1>1, RootOf, RootPath, PathsAre DEF ScanTypes, WalkOrder
  <1>3. PICK b \in Videos \cup {None} :
          b = BestHere(FolderAt(p)) /\ (b # None => BestOf(b[1], b))
    <2> DEFINE f == FolderAt(p)
               c == BestHere(f)
    <2>1. /\ Eligible(f) \subseteq Videos
          /\ Eligible(f) = {} => c = None
          /\ Eligible(f) # {} => c \in Eligible(f) /\ BestOf(f, c)
      BY <1>2, BestIs
    <2>2. \A v \in Eligible(f) : v[1] = f BY DEF Eligible, FilesIn
    <2> HIDE DEF f, c
    <2> QED BY <2>1, <2>2 DEF f, c
  <1>4. ASSUME NEW q \in Paths, NEW r \in Paths, NamedBy(q, r), Ahead(q, r),
               NEW s \in Stages, \A o \in Paths : scan'[o] = IF o = p THEN s ELSE scan[o]
        PROVE  Ahead(q, r)'
    <2> DEFINE kid == Append(q, Index(r))
    <2>1. kid \in Paths /\ scan[q] = "collect" /\ scan[kid] \in {"new", "enter", "mark"}
      BY <1>4, NamedIs DEF Ahead
    <2> HIDE DEF kid
    <2>2. scan'[q] = "collect" /\ scan'[kid] \in {"new", "enter", "mark"} BY <1>1, <1>4, <2>1
    <2> QED BY <2>2 DEF Ahead, kid
  <1>5. CASE (b # None /\ ~Defers(p, b)) \/ KidsOf(p) = {}
    <2>1. /\ Return(p, b) /\ UNCHANGED own
          /\ hints' = IF b = None THEN hints ELSE Remembered(b, File(b).size)
      BY <1>3, <1>5 DEF List
    <2>2. /\ \A q \in Paths : /\ scan'[q] = IF q = p THEN "done" ELSE scan[q]
                              /\ result'[q] = IF q = p THEN b ELSE result[q]
          /\ WalkOrder' /\ ScanTypes' /\ phase' # "inventory"
          /\ b # None => InHand(b)'
          /\ \A u \in Videos : InHand(u) => InHand(u)'
      <3>1. visited' \subseteq Folders /\ UNCHANGED <<own, sib, nextKid>> /\ scan[p] # "collect"
        BY <1>1, <1>2, <2>1
      <3> QED BY <1>1, <1>2, <1>3, <2>1, <3>1, ReturnIs
    <2>3. RankedRight' /\ BestKept'
      <3>1. UNCHANGED <<own, sib>> BY <1>1, <2>1
      <3> QED BY <1>1, <1>2, <1>3, <2>1, <2>2, <3>1, ReturnsRanked
    <2>4. RootLooked' /\ FoundAtOnce'
      <3>1. scan'[<<>>] \in {"collect", "done"} /\ scan[<<>>] \in {"list", "collect"}
        BY <1>1, <1>2, <2>2
      <3> QED BY <1>1, <3>1, RootKept
    <2>5. ASSUME want = "episode", unread = {} PROVE NothingDropped' /\ KidsLooked'
      <3>1. ASSUME NEW u \in Videos, InHand(u)
            PROVE  \E w \in Videos : InHand(w)' /\ Worth(u) <= Worth(w)
        <4>1. Worth(u) <= Worth(u) BY WorthRange
        <4> QED BY <2>2, <3>1, <4>1
      <3>2. \A v \in Eligible(FolderAt(p)) : AsGood(Worth(v))'
        <4>1. \A v \in Videos : v = BestHere(FolderAt(p)) => InHand(v)'
          BY <1>3, <2>2, VideoIs, <1>2
        <4> QED BY <1>1, <1>2, <2>5, <4>1, BestStands
      <3>3. ASSUME NEW r \in Paths, NamedBy(p, r) PROVE AsGood(2)'
        <4>1. KidsOf(p) # {} BY <3>3, NamedIs
        <4>2. b # None /\ ~ Defers(p, b) BY <1>5, <4>1
        <4>3. b \in Videos BY <1>3, <4>2
        <4>4. File(b).tag \in {"same", "other", "none"} /\ File(b).size \in Nat /\ floor \in Nat
          BY <1>2, <4>3, VideoIs DEF Metadata
        <4>5. /\ ~ (EpisodeScore(b) < 1000)
              /\ ~ (floor > 0 /\ File(b).size \in 1..(floor - 1))
          BY <2>5, <4>1, <4>2 DEF Defers
        <4>6. File(b).tag = "same" BY <2>5, <4>4, <4>5 DEF EpisodeScore
        <4>7. AboveFloor(File(b).size) BY <4>4, <4>5 DEF AboveFloor
        <4>8. Worth(b) = 2 BY <4>6, <4>7 DEF Worth, Wanted
        <4>9. Worth(b)' = 2 /\ b \in Videos' BY <1>1, <4>3, <4>8, ShareIs
        <4> QED BY <2>2, <4>2, <4>9 DEF AsGood
      <3>4. \A q \in Paths : scan[q] = "list" /\ scan'[q] # "list" => q = p BY <2>2
      <3>5. \A q, r \in Paths : NamedBy(q, r) /\ Ahead(q, r) => Ahead(q, r)'
        BY <1>4, <2>2 DEF Stages
      <3> QED BY <1>1, <2>5, <3>1, <3>2, <3>3, <3>4, <3>5, StillCovered
    <2> QED BY <1>1, <2>2, <2>3, <2>4, <2>5 DEF SameShare
  <1>6. CASE ~ ((b # None /\ ~Defers(p, b)) \/ KidsOf(p) = {})
    <2>1. /\ scan' = [scan EXCEPT ![p] = "collect"] /\ own' = [own EXCEPT ![p] = b]
          /\ UNCHANGED <<result, queue, phase, hints>>
      BY <1>3, <1>6 DEF List
    <2>2. /\ own' \in [Paths -> Videos \cup {None}] /\ \A q \in Paths \ {p} : own'[q] = own[q]
          /\ own'[p] = b
      BY <1>3, <2>1 DEF ScanTypes
    <2>3. /\ ScanTypes' /\ WalkOrder' /\ RankedRight' /\ BestKept'
          /\ \A q \in Paths : scan'[q] = IF q = p THEN "collect" ELSE scan[q]
          /\ \A u \in Videos : InHand(u) => \E w \in Videos : InHand(w)' /\ Worth(u) <= Worth(w)
      <3>1. own'[p] = own[p] \/ BestOf(own'[p][1], own'[p]) \/ own'[p] = None
        BY <1>3, <2>2
      <3> QED BY <1>1, <1>2, <2>1, <2>2, <3>1, GoesOn
    <2>4. RootLooked' /\ FoundAtOnce'
      <3>1. scan'[<<>>] = "collect" /\ scan[<<>>] \in {"list", "collect"} BY <1>1, <1>2, <2>3
      <3> QED BY <1>1, <3>1, RootKept
    <2>5. ASSUME want = "episode", unread = {} PROVE NothingDropped' /\ KidsLooked'
      <3>1. InHand(b)' BY <2>2, <2>3 DEF InHand
      <3>2. \A v \in Eligible(FolderAt(p)) : AsGood(Worth(v))'
        <4>1. \A v \in Videos : v = BestHere(FolderAt(p)) => InHand(v)'
          BY <1>3, <3>1, VideoIs, <1>2
        <4> QED BY <1>1, <1>2, <2>5, <4>1, BestStands
      <3>3. ASSUME NEW r \in Paths, NamedBy(p, r) PROVE Ahead(p, r)'
        <4> DEFINE kid == Append(p, Index(r))
        <4>1. kid \in Paths /\ Parent(kid) = p /\ kid # <<>> BY <3>3, NamedIs
        <4> HIDE DEF kid
        <4>2. scan[kid] = "new" BY <1>1, <4>1 DEF WalkOrder
        <4>3. scan'[kid] = "new" /\ scan'[p] = "collect" BY <1>1, <2>3, <4>1, <4>2
        <4> QED BY <4>3 DEF Ahead, kid
      <3>4. \A q \in Paths : scan[q] = "list" /\ scan'[q] # "list" => q = p BY <2>3
      <3>5. \A q, r \in Paths : NamedBy(q, r) /\ Ahead(q, r) => Ahead(q, r)'
        BY <1>4, <2>3 DEF Stages
      <3> QED BY <1>1, <2>3, <2>5, <3>2, <3>3, <3>4, <3>5, StillCovered
    <2> QED BY <1>1, <2>3, <2>4, <2>5 DEF SameShare
  <1> QED BY <1>5, <1>6

LEMMA ListFailsKeeps ==
  ASSUME ScanInv, RoomForHints, NEW p \in Paths, ListFails(p)
  PROVE  ScanInv'
  <1> USE DEF ScanInv
  <1>1. /\ SameShare /\ scan[p] = "list" /\ scan[p] \in Running /\ scan[p] # "collect"
        /\ UNCHANGED <<own, nextKid, sib, visited, hints>> /\ unread' # {} /\ Return(p, None)
    BY DEF ListFails, SameShare, Running
  <1>2. /\ p = <<>> \/ scan[<<>>] = "collect"
        /\ phase = "walk" /\ <<>> \in Paths /\ visited' \subseteq Folders
    BY <1>1, RootOf, RootPath DEF ScanTypes
  <1>3. /\ \A q \in Paths : /\ scan'[q] = IF q = p THEN "done" ELSE scan[q]
                            /\ result'[q] = IF q = p THEN None ELSE result[q]
        /\ WalkOrder' /\ ScanTypes' /\ phase' # "inventory"
    <2>1. None \in Videos \cup {None} /\ UNCHANGED <<own, sib, nextKid>> BY <1>1
    <2> QED BY <1>1, <1>2, <2>1, ReturnIs
  <1>4. RankedRight' /\ BestKept' BY <1>1, <1>2, <1>3, ReturnsRanked
  <1>5. RootLooked' /\ FoundAtOnce'
    <2>1. scan'[<<>>] \in {"collect", "done"} /\ scan[<<>>] \in {"list", "collect"}
      BY <1>1, <1>2, <1>3
    <2> QED BY <1>1, <2>1, RootKept
  <1> QED BY <1>1, <1>3, <1>4, <1>5

LEMMA TailIs ==
  ASSUME NEW s \in Seq(Nat), s # <<>>
  PROVE  /\ Tail(s) \in Seq(Nat) /\ 1 \in DOMAIN s /\ Head(s) = s[1] /\ Head(s) \in Nat
         /\ \A k \in DOMAIN Tail(s) : \E m \in DOMAIN s : Tail(s)[k] = s[m]
         /\ \A m \in DOMAIN s : m = 1 \/ \E k \in DOMAIN Tail(s) : Tail(s)[k] = s[m]
  <1> DEFINE n == Len(s)
             t == Tail(s)
  <1>1. n \in Nat /\ DOMAIN s = 1..n /\ \A m \in 1..n : s[m] \in Nat
    BY LenProperties, ElementOfSeq
  <1>2. /\ t \in Seq(Nat) /\ Len(t) = n - 1 /\ \A k \in 1..Len(t) : t[k] = s[k + 1]
        /\ Head(s) = s[1]
    BY HeadTailProperties
  <1>3. DOMAIN t = 1..(n - 1) BY <1>2, LenProperties
  <1>4. n # 0 BY EmptySeq
  <1> HIDE DEF n, t
  <1>5. 1 \in 1..n BY <1>1, <1>4
  <1>6. \A k \in 1..(n - 1) : k + 1 \in 1..n /\ t[k] = s[k + 1] BY <1>1, <1>2
  <1>7. \A m \in 1..n : m = 1 \/ (m - 1 \in 1..(n - 1) /\ t[m - 1] = s[m])
    <2>1. \A m \in 1..n : m = 1 \/ (m - 1 \in 1..(n - 1) /\ m = (m - 1) + 1) BY <1>1
    <2> QED BY <1>6, <2>1
  <1> QED BY <1>1, <1>2, <1>3, <1>5, <1>6, <1>7 DEF t

LEMMA CollectKeeps ==
  ASSUME ScanInv, SameDepth, NEW p \in Paths, Collect(p)
  PROVE  ScanInv'
  <1> USE DEF ScanInv
  <1> DEFINE i == Head(queue[p])
             better(v) == v # None /\ (sib[p] = None \/ Less(sib[p][2], SiblingKey(v, i)))
  <1>1. /\ SameShare /\ scan[p] = "collect" /\ queue[p] \in Seq(Nat) /\ queue[p] # <<>>
        /\ UNCHANGED <<phase, scan, own, nextKid, result, visited, hints, unread>>
        /\ queue' = [queue EXCEPT ![p] = Tail(queue[p])]
        /\ OnShare /\ TrueHints(hints)
    BY DEF Collect, SameShare, ScanTypes, RankedRight
  <1>2. /\ Tail(queue[p]) \in Seq(Nat) /\ 1 \in DOMAIN queue[p] /\ i = queue[p][1] /\ i \in Nat
        /\ \A k \in DOMAIN Tail(queue[p]) :
             \E m \in DOMAIN queue[p] : Tail(queue[p])[k] = queue[p][m]
        /\ \A m \in DOMAIN queue[p] :
             m = 1 \/ \E k \in DOMAIN Tail(queue[p]) : Tail(queue[p])[k] = queue[p][m]
    BY <1>1, TailIs
  <1>3. Append(p, i) \in Paths BY <1>2 DEF WalkOrder
  <1>4. PICK v \in Videos \cup {None} : v = result[Append(p, i)] BY <1>3 DEF ScanTypes
  <1>5. sib' = IF better(v) THEN [sib EXCEPT ![p] = <<v, SiblingKey(v, i)>>] ELSE sib
    BY <1>4 DEF Collect
  <1>6. ASSUME v # None
        PROVE  /\ v \in Videos /\ Known(v, hints) /\ Leads(SiblingKey(v, i), v)
               /\ SiblingKey(v, i) \in Seq(Int)
    <2>1. v \in Videos BY <1>4, <1>6
    <2>2. Known(v, hints) BY <1>3, <1>4, <1>6 DEF RankedRight
    <2>3. HintOf(v) = File(v).size BY <1>1, <2>1, <2>2, HintIs
    <2>4. Leads(SiblingKey(v, i), v) BY <2>3, KeyLeads
    <2>5. File(v) \in Metadata BY <1>1, <2>1, VideoIs
    <2>6. EpisodeScore(v) \in Int /\ TokenScore(v) \in Int /\ HintOf(v) \in Int
      BY <2>3, <2>5 DEF EpisodeScore, TokenScore, Metadata
    <2> HIDE DEF i
    <2>7. SiblingKey(v, i) \in Seq(Int) BY <1>2, <2>6 DEF SiblingKey, Key, Bit
    <2> QED BY <2>1, <2>2, <2>4, <2>7
  <1> HIDE DEF i
  <1>7. /\ queue' \in [Paths -> Seq(Nat)] /\ queue'[p] = Tail(queue[p])
        /\ \A q \in Paths \ {p} : queue'[q] = queue[q]
    BY <1>1, <1>2 DEF ScanTypes
  <1>8. /\ sib' \in [Paths -> (Videos \X Seq(Int)) \cup {None}]
        /\ \A q \in Paths \ {p} : sib'[q] = sib[q]
        /\ sib'[p] = IF better(v) THEN <<v, SiblingKey(v, i)>> ELSE sib[p]
    <2>1. sib \in [Paths -> (Videos \X Seq(Int)) \cup {None}] BY DEF ScanTypes
    <2>2. better(v) => <<v, SiblingKey(v, i)>> \in Videos \X Seq(Int) BY <1>6
    <2> HIDE DEF better
    <2> QED BY <1>5, <2>1, <2>2
  <1>9. ScanTypes' BY <1>1, <1>7, <1>8, ShareIs DEF ScanTypes, OnShare, SameShare
  <1>10. WalkOrder'
    <2>1. \A q \in Paths : \A k \in DOMAIN queue'[q] :
            \E m \in DOMAIN queue[q] : queue'[q][k] = queue[q][m]
      <3>1. \A k \in DOMAIN queue'[p] : \E m \in DOMAIN queue[p] : queue'[p][k] = queue[p][m]
        BY <1>2, <1>7
      <3>2. \A q \in Paths \ {p} : \A k \in DOMAIN queue'[q] :
              \E m \in DOMAIN queue[q] : queue'[q][k] = queue[q][m]
        BY <1>7
      <3> QED BY <3>1, <3>2
    <2>2. ASSUME NEW q \in Paths, NEW k \in DOMAIN queue'[q]
          PROVE  Append(q, queue'[q][k]) \in Paths /\ scan'[Append(q, queue'[q][k])] = "done"
      BY <1>1, <2>1 DEF WalkOrder
    <2>3. (\A q \in Paths : \A k \in DOMAIN queue[q] :
             Append(q, queue[q][k]) \in Paths /\ scan[Append(q, queue[q][k])] = "done")'
      BY <2>2
    <2> QED BY <1>1, <2>3 DEF WalkOrder
  <1>11. RankedRight'
    <2>1. TrueHints(hints)' BY <1>1, HintsStay
    <2>2. (\A q \in Paths : result[q] # None => Known(result[q], hints))'
      BY <1>1 DEF RankedRight, SameShare, Known, File
    <2>3. ASSUME NEW q \in Paths, sib'[q] # None
          PROVE  Known(sib'[q][1], hints) /\ Leads(sib'[q][2], sib'[q][1])
      <3>1. CASE q = p /\ better(v) BY <1>6, <1>8, <3>1
      <3>2. CASE ~ (q = p /\ better(v)) BY <1>8, <2>3, <3>2 DEF RankedRight
      <3> QED BY <3>1, <3>2
    <2>4. (\A q \in Paths :
             sib[q] # None => Known(sib[q][1], hints) /\ Leads(sib[q][2], sib[q][1]))'
      <3>1. ASSUME NEW q \in Paths, sib'[q] # None PROVE Known(sib[q][1], hints)'
        BY <1>1, <2>3, <3>1 DEF SameShare, Known, File
      <3>2. ASSUME NEW q \in Paths, sib'[q] # None PROVE Leads(sib[q][2], sib[q][1])'
        <4>1. PICK w, k : w = sib'[q][1] /\ k = sib'[q][2] OBVIOUS
        <4>2. Leads(k, w) BY <2>3, <3>2, <4>1
        <4>3. Leads(k, w)' BY <1>1, <4>2, ShareIs
        <4> QED BY <4>1, <4>3 DEF Leads, EpisodeScore, AboveFloor, File
      <3> QED BY <3>1, <3>2
    <2> QED BY <2>1, <2>2, <2>4 DEF RankedRight
  <1>12. RootLooked' /\ FoundAtOnce'
    <2>1. phase = "walk" BY <1>1, RootOf DEF Running
    <2> QED BY <1>1, <2>1 DEF RootLooked, FoundAtOnce
  <1>13. ASSUME want = "episode", unread = {} PROVE NothingDropped' /\ KidsLooked'
    <2>1. ASSUME NEW u \in Videos, InHand(u)
          PROVE  \E w \in Videos : InHand(w)' /\ Worth(u) <= Worth(w)
      <3>1. Worth(u) <= Worth(u) BY WorthRange
      <3>2. ASSUME InHand(u)' PROVE \E w \in Videos : InHand(w)' /\ Worth(u) <= Worth(w)
        BY <3>1, <3>2
      <3>3. PICK q \in Paths :
              \/ scan[q] = "collect" /\ u = own[q]
              \/ scan[q] = "collect" /\ sib[q] # None /\ u = sib[q][1]
              \/ scan[q] = "collect"
                 /\ \E k \in DOMAIN queue[q] : u = result[Append(q, queue[q][k])]
              \/ q = <<>> /\ scan[q] = "done" /\ u = result[q]
        BY <2>1 DEF InHand
      <3>4. CASE scan[q] = "collect" /\ u = own[q] BY <1>1, <3>2, <3>4 DEF InHand
      <3>5. CASE q = <<>> /\ scan[q] = "done" /\ u = result[q] BY <1>1, <3>2, <3>5 DEF InHand
      <3>6. ASSUME NEW w \in Videos, scan[p] = "collect", sib'[p] # None, w = sib'[p][1]
            PROVE  InHand(w)'
        BY <1>1, <3>6 DEF InHand
      <3>7. sib[p] # None => /\ sib[p][1] \in Videos /\ Leads(sib[p][2], sib[p][1])
        BY DEF ScanTypes, RankedRight
      <3>8. ASSUME better(v) PROVE /\ v \in Videos /\ InHand(v)'
                                   /\ sib[p] # None => Worth(sib[p][1]) <= Worth(v)
        <4>1. v \in Videos /\ sib'[p] = <<v, SiblingKey(v, i)>> BY <1>6, <1>8, <3>8
        <4>4. sib'[p][1] = v /\ sib'[p] # None BY <4>1 DEF None
        <4>2. InHand(v)' BY <1>1, <3>6, <4>1, <4>4
        <4>3. sib[p] # None => Worth(sib[p][1]) <= Worth(v)
          BY <1>1, <1>6, <1>13, <3>7, <3>8, LessWorth
        <4> QED BY <4>1, <4>2, <4>3
      <3>9. CASE scan[q] = "collect" /\ sib[q] # None /\ u = sib[q][1]
        <4>1. CASE q = p /\ better(v) BY <3>8, <3>9, <4>1
        <4>2. CASE ~ (q = p /\ better(v))
          <5>1. sib'[q] = sib[q] BY <1>8, <4>2
          <5>2. InHand(u)' BY <1>1, <3>9, <5>1 DEF InHand
          <5> QED BY <3>2, <5>2
        <4> QED BY <4>1, <4>2
      <3>10. CASE scan[q] = "collect"
                  /\ \E k \in DOMAIN queue[q] : u = result[Append(q, queue[q][k])]
        <4>1. PICK k \in DOMAIN queue[q] : u = result[Append(q, queue[q][k])] BY <3>10
        <4>2. CASE q # p
          <5>1. InHand(u)' BY <1>1, <1>7, <3>10, <4>1, <4>2 DEF InHand
          <5> QED BY <3>2, <5>1
        <4>3. CASE q = p /\ k # 1
          <5>1. PICK m \in DOMAIN Tail(queue[p]) : Tail(queue[p])[m] = queue[p][k]
            BY <1>2, <4>1, <4>3
          <5>2. InHand(u)' BY <1>1, <1>7, <3>10, <4>1, <4>3, <5>1 DEF InHand
          <5> QED BY <3>2, <5>2
        <4>4. CASE q = p /\ k = 1
          <5>1. u = v /\ v # None BY <1>1, <1>2, <1>4, <4>1, <4>4, VideoIs
          <5>2. CASE better(v) BY <3>1, <3>8, <5>1, <5>2
          <5>3. CASE ~ better(v)
            <6>1. sib[p] # None /\ ~ Less(sib[p][2], SiblingKey(v, i)) BY <5>1, <5>3
            <6>2. Worth(v) <= Worth(sib[p][1])
              BY <1>1, <1>6, <1>13, <3>7, <5>1, <6>1, LessWorth
            <6>3. PICK w \in Videos : w = sib[p][1] BY <3>7, <6>1
            <6>4. InHand(w)' BY <1>1, <1>8, <3>6, <5>3, <6>1, <6>3
            <6> QED BY <5>1, <6>2, <6>3, <6>4
          <5> QED BY <5>2, <5>3
        <4> QED BY <4>2, <4>3, <4>4
      <3> QED BY <3>3, <3>4, <3>5, <3>9, <3>10
    <2>2. \A q, r \in Paths : NamedBy(q, r) /\ Ahead(q, r) => Ahead(q, r)'
      BY <1>1 DEF Ahead
    <2> QED BY <1>1, <1>13, <2>1, <2>2, StillCovered
  <1>14. BestKept'
    <2>1. phase = "walk" BY <1>1, RootOf DEF Running
    <2>2. BestHints(hints') BY <1>1, <2>1 DEF BestKept
    <2> QED BY <1>1, <2>1, <2>2, BestKeptOn
  <1> QED BY <1>1, <1>9, <1>10, <1>11, <1>12, <1>13, <1>14 DEF SameShare

LEMMA ConcludeKeeps ==
  ASSUME ScanInv, SameDepth, RoomForHints, NEW p \in Paths, Conclude(p)
  PROVE  ScanInv'
  <1> USE DEF ScanInv
  <1> DEFINE adopted == sib[p] # None /\ (own[p] = None \/ SiblingBeats(sib[p][1], own[p]))
  <1>1. /\ SameShare /\ scan[p] = "collect" /\ scan[p] \in Running /\ queue[p] = <<>>
        /\ \A q \in KidsOf(p) : scan[q] = "done" /\ scan[q] \notin Running
        /\ UNCHANGED <<own, nextKid, sib, visited, unread>> /\ OnShare /\ TrueHints(hints)
        /\ Return(p, IF adopted THEN sib[p][1] ELSE own[p])
        /\ hints' = IF adopted \/ own[p] = None THEN hints
                    ELSE Remembered(own[p], File(own[p]).size)
    BY DEF Conclude, SameShare, Running, ScanTypes, RankedRight
  <1>2. /\ p = <<>> \/ scan[<<>>] = "collect"
        /\ phase = "walk" /\ <<>> \in Paths /\ visited' \subseteq Folders /\ Len(p) <= MaxDepth
    BY <1>1, RootOf, RootPath DEF ScanTypes, WalkOrder
  <1>3. sib[p] # None => /\ sib[p][1] \in Videos /\ Known(sib[p][1], hints)
    BY DEF ScanTypes, RankedRight
  <1>4. own[p] \in Videos \cup {None} BY DEF ScanTypes
  <1>5. PICK v \in Videos \cup {None} : v = IF adopted THEN sib[p][1] ELSE own[p]
    BY <1>3, <1>4
  <1>6. /\ \A q \in Paths : /\ scan'[q] = IF q = p THEN "done" ELSE scan[q]
                            /\ result'[q] = IF q = p THEN v ELSE result[q]
        /\ WalkOrder' /\ ScanTypes' /\ phase' # "inventory"
        /\ v # None => InHand(v)'
        /\ \A u \in Videos : InHand(u) =>
             \/ InHand(u)'
             \/ u = own[p] \/ (sib[p] # None /\ u = sib[p][1])
    <2>1. Return(p, v) /\ UNCHANGED <<own, sib, nextKid>> BY <1>1, <1>5
    <2> HIDE DEF adopted
    <2> QED BY <1>1, <1>2, <2>1, ReturnIs
  <1>7. RankedRight' /\ BestKept'
    <2>3. UNCHANGED <<own, sib>> BY <1>1
    <2>1. CASE adopted \/ own[p] = None
      <3>1. hints' = hints /\ (v # None => Known(v, hints)) BY <1>1, <1>3, <1>5, <2>1
      <3> QED BY <1>1, <1>2, <1>6, <2>3, <3>1, ReturnsRanked
    <2>2. CASE ~ (adopted \/ own[p] = None)
      <3>1. v # None /\ hints' = Remembered(v, File(v).size) /\ own[p] = v
        BY <1>1, <1>5, <2>2
      <3>2. BestOf(v[1], v) BY <3>1 DEF BestKept
      <3> QED BY <1>1, <1>2, <1>6, <2>3, <3>1, <3>2, ReturnsRanked
    <2> QED BY <2>1, <2>2
  <1>8. RootLooked' /\ FoundAtOnce'
    <2>1. scan'[<<>>] \in {"collect", "done"} /\ scan[<<>>] = "collect" BY <1>1, <1>2, <1>6
    <2> QED BY <1>1, <2>1, RootKept
  <1>9. ASSUME want = "episode", unread = {} PROVE NothingDropped' /\ KidsLooked'
    <2>1. ASSUME NEW u \in Videos, u = own[p] \/ (sib[p] # None /\ u = sib[p][1])
          PROVE  v \in Videos /\ Worth(u) <= Worth(v)
      <3>0. OnShare BY <1>1
      <3>1. u # None /\ Worth(u) <= Worth(u)
        <4>1. u # None BY <3>0, VideoIs
        <4>2. Worth(u) \in 0..2 BY WorthRange
        <4> QED BY <4>1, <4>2
      <3>2. v \in Videos
        <4>1. CASE adopted BY <1>3, <1>5, <4>1
        <4>2. CASE ~ adopted BY <1>4, <1>5, <2>1, <3>1, <4>2
        <4> QED BY <4>1, <4>2
      <3>3. ASSUME sib[p] # None, own[p] # None
            PROVE  /\ SiblingBeats(sib[p][1], own[p]) => Worth(own[p]) <= Worth(sib[p][1])
                   /\ ~ SiblingBeats(sib[p][1], own[p]) => Worth(sib[p][1]) <= Worth(own[p])
        <4> DEFINE a == sib[p][1]
                   b == own[p]
        <4>1. a \in Videos /\ b \in Videos /\ Known(a, hints) BY <1>3, <1>4, <3>3
        <4> HIDE DEF a, b
        <4>2. HintOf(a) = File(a).size BY <1>1, <4>1, HintIs
        <4>3. Leads(Key(a, HintOf(a)), a) /\ Leads(Key(b, File(b).size), b) BY <4>2, KeyLeads
        <4>4. SiblingBeats(a, b) <=> ~ Less(Key(a, HintOf(a)), Key(b, File(b).size))
          BY <1>9 DEF SiblingBeats
        <4>5. /\ Less(Key(a, HintOf(a)), Key(b, File(b).size)) => Worth(a) <= Worth(b)
              /\ ~ Less(Key(a, HintOf(a)), Key(b, File(b).size)) => Worth(b) <= Worth(a)
          BY <1>1, <1>9, <4>1, <4>3, LessWorth
        <4> QED BY <4>4, <4>5 DEF a, b
      <3>4. Worth(u) <= Worth(v)
        <4>1. CASE adopted BY <1>5, <2>1, <3>1, <3>3, <4>1
        <4>2. CASE ~ adopted BY <1>5, <2>1, <3>1, <3>3, <4>2
        <4> QED BY <4>1, <4>2
      <3> QED BY <3>2, <3>4
    <2>2. ASSUME NEW u \in Videos, InHand(u)
          PROVE  \E w \in Videos : InHand(w)' /\ Worth(u) <= Worth(w)
      <3>1. CASE InHand(u)'
        <4>1. Worth(u) <= Worth(u) BY WorthRange
        <4> QED BY <3>1, <4>1
      <3>2. CASE u = own[p] \/ (sib[p] # None /\ u = sib[p][1])
        <4>1. v \in Videos /\ v # None /\ Worth(u) <= Worth(v) BY <1>1, <2>1, <3>2, VideoIs
        <4> QED BY <1>6, <4>1
      <3> QED BY <1>6, <2>2, <3>1, <3>2
    <2>3. \A q \in Paths : scan[q] = "list" => scan'[q] = "list" BY <1>1, <1>6
    <2>4. ASSUME NEW q \in Paths, NEW r \in Paths, NamedBy(q, r), Ahead(q, r) PROVE Ahead(q, r)'
      <3> DEFINE kid == Append(q, Index(r))
      <3>1. kid \in Paths /\ kid \in KidsOf(q) BY <2>4, NamedIs
      <3>2. scan[q] = "collect" /\ scan[kid] \in {"new", "enter", "mark"} BY <2>4 DEF Ahead
      <3> HIDE DEF kid
      <3>3. q # p /\ kid # p BY <1>1, <3>1, <3>2
      <3>4. scan'[q] = "collect" /\ scan'[kid] \in {"new", "enter", "mark"}
        BY <1>6, <3>1, <3>2, <3>3
      <3> QED BY <3>4 DEF Ahead, kid
    <2> QED BY <1>1, <1>6, <1>9, <2>2, <2>3, <2>4, StillCovered
  <1> QED BY <1>1, <1>6, <1>7, <1>8, <1>9 DEF SameShare

LEMMA ScanBegins ==
  ASSUME ScanInit PROVE ScanInv
  <1>1. ScanTypes
    <2>1. <<>> \in Seq(Nat) BY EmptySeq
    <2> QED BY <2>1 DEF ScanInit, ScanTypes, OnShare, Stages
  <1>2. WalkOrder
    <2>1. DOMAIN <<>> = {} OBVIOUS
    <2> QED BY <2>1 DEF ScanInit, WalkOrder, Running
  <1>3. RankedRight
    <2>1. DOMAIN <<>> = {} /\ <<>> \in Seq(Videos \X Nat) BY EmptySeq
    <2>2. TrueHints(hints) BY <2>1 DEF ScanInit, TrueHints
    <2> QED BY <2>2 DEF ScanInit, RankedRight
  <1>4. RootLooked /\ FoundAtOnce /\ NothingDropped /\ KidsLooked
    BY RootPath DEF ScanInit, RootLooked, FoundAtOnce, NothingDropped, KidsLooked
  <1>5. BestKept
    <2>1. OnShare BY <1>1 DEF ScanTypes
    <2>2. \A p \in Paths : \A v \in Videos : own[p] # v BY <2>1, VideoIs DEF ScanInit
    <2> QED BY <2>2 DEF ScanInit, BestKept
  <1> QED BY <1>1, <1>2, <1>3, <1>4, <1>5 DEF ScanInv

LEMMA ScanStands ==
  ASSUME ScanInv, UNCHANGED scanVars PROVE ScanInv'
  <1> USE DEF ScanInv, scanVars
  <1>1. SameShare BY DEF SameShare
  <1>2. ScanTypes' BY <1>1, ShareIs DEF ScanTypes, OnShare
  <1>3. WalkOrder' BY DEF WalkOrder
  <1>4. RankedRight' BY <1>1, HintsStay, RanksKept
  <1>5. RootLooked' BY DEF RootLooked
  <1>6. FoundAtOnce'
    <2>1. FilesIn(Reach)' = FilesIn(Reach) BY DEF FilesIn
    <2>2. \A u : File(u)' = File(u) BY <1>1, ShareIs
    <2>3. Complete' = Complete BY <2>1, <2>2 DEF Complete
    <2>4. Exact' = Exact BY <2>1, <2>2 DEF Exact
    <2>5. MainUntagged' = MainUntagged BY <2>1, <2>2 DEF MainUntagged
    <2>6. Selected' = Selected BY <2>2, <2>4, <2>5 DEF Selected
    <2> QED BY <2>3, <2>6 DEF FoundAtOnce
  <1>7. ASSUME want = "episode", unread = {} PROVE NothingDropped' /\ KidsLooked'
    <2>1. ASSUME NEW u \in Videos, InHand(u)
          PROVE  \E w \in Videos : InHand(w)' /\ Worth(u) <= Worth(w)
      <3>1. InHand(u)' BY <2>1 DEF InHand
      <3>2. Worth(u) <= Worth(u) BY WorthRange
      <3> QED BY <3>1, <3>2
    <2>2. \A q, r : Ahead(q, r)' <=> Ahead(q, r) BY DEF Ahead
    <2> QED BY <1>1, <1>7, <2>1, <2>2, StillCovered
  <1>8. BestKept'
    <2>1. Videos' = Videos /\ \A f, v : BestOf(f, v)' = BestOf(f, v) BY <1>1, ShareIs
    <2> QED BY <2>1 DEF BestKept, BestHints
  <1> QED BY <1>2, <1>3, <1>4, <1>5, <1>6, <1>7, <1>8

LEMMA ScanKeeps ==
  ASSUME SameDepth, RoomForHints, ScanInv, ScanNext \/ UNCHANGED scanVars PROVE ScanInv'
  <1>1. CASE Inventory BY <1>1, InventoryKeeps
  <1>2. CASE ScanFound \/ UNCHANGED scanVars BY <1>2, ScanStands DEF ScanFound
  <1>3. ASSUME NEW p \in Paths,
               \/ Claim(p) \/ Enter(p) \/ Mark(p) \/ List(p) \/ ListFails(p)
               \/ Collect(p) \/ Conclude(p)
        PROVE  ScanInv'
    BY <1>3, ClaimKeeps, EnterKeeps, MarkKeeps, ListKeeps, ListFailsKeeps, CollectKeeps,
       ConcludeKeeps
  <1> QED BY <1>1, <1>2, <1>3 DEF ScanNext

\* Once the job's scan has ended every folder in reach was visited, or there was no need.
LEMMA FoundIsGood ==
  ASSUME ScanInv PROVE EpisodeFound
  <1> USE DEF ScanInv
  <1>1. SUFFICES ASSUME phase = "found", unread = {}, want = "episode" PROVE EpisodeFound
    BY DEF EpisodeFound
  <1> DEFINE got == result[<<>>]
  <1>2. OnShare /\ <<>> \in Paths BY RootPath DEF ScanTypes
  <1>3. Reach \subseteq Folders BY PathsAre DEF Reach
  <1>4. FilesIn(Reach) \subseteq Videos BY <1>3 DEF FilesIn, Videos
  <1>5. CASE scan[<<>>] = "new"
    <2>1. Complete /\ got \in Selected BY <1>1, <1>5 DEF FoundAtOnce
    <2>2. PICK v : v = got OBVIOUS
    <2>3. /\ v \in FilesIn(Reach) /\ v \in Videos /\ v # None /\ File(v) \in Metadata
          /\ floor \in Nat
      <3>1. v \in FilesIn(Reach) BY <2>1, <2>2 DEF Selected, Exact, MainUntagged
      <3> QED BY <1>2, <1>4, <3>1, VideoIs
    <2>4. File(v).tag # "other"
      <3>1. Exact # {} => v \in Exact BY <2>1, <2>2 DEF Selected
      <3>2. Exact = {} => v \in MainUntagged BY <2>1, <2>2 DEF Selected
      <3>3. v \in MainUntagged => File(v).tag = "none" BY DEF MainUntagged
      <3> QED BY <3>1, <3>2, <3>3 DEF Exact
    <2>5. ASSUME NEW u \in Exact, Wanted(u) PROVE Wanted(v)
      <3>1. v \in Exact /\ File(u).size <= File(v).size BY <2>1, <2>2, <2>5 DEF Selected
      <3>2. u \in FilesIn(Reach) BY DEF Exact
      <3>3. u \in Videos BY <1>4, <3>2
      <3>4. File(u).size \in Nat /\ File(v).size \in Nat
        BY <1>2, <2>3, <3>3, VideoIs DEF Metadata
      <3>5. File(u).size > 0 BY <2>1, <3>2 DEF Complete
      <3>6. AboveFloor(File(v).size)
        BY <2>3, <2>5, <3>1, <3>4, <3>5 DEF Wanted, AboveFloor
      <3> QED BY <3>1, <3>6 DEF Exact, Wanted
    <2> QED BY <2>2, <2>3, <2>4, <2>5 DEF EpisodeFound
  <1>6. CASE scan[<<>>] = "done"
    <2>1. \A q \in Paths : scan[q] \notin Running BY <1>1, RootOf
    <2>2. \A q \in Paths : scan[q] # "list" /\ scan[q] # "collect" BY <2>1 DEF Running
    <2>3. \A v \in Videos : InHand(v) => v = got BY <2>2 DEF InHand
    <2>4. NothingDropped /\ KidsLooked BY <1>1
    <2>5. ASSUME ~ AsGood(2), NEW p \in Paths, Len(p) <= MaxDepth PROVE FolderAt(p) \in visited
      <3>1. Root \in visited BY <1>6 DEF RootLooked
      <3>2. ASSUME NEW q \in Paths, q # <<>>, Len(q) <= MaxDepth, FolderAt(Parent(q)) \in visited
            PROVE  FolderAt(q) \in visited
        BY <2>2, <2>4, <2>5, <3>2 DEF KidsLooked, Ahead
      <3>3. CASE p = <<>> BY <3>1, <3>3, RootPath
      <3>4. CASE p # <<>>
        <4> DEFINE a == Parent(p)
        <4>1. a \in Paths /\ Len(p) \in 1..3 /\ Len(a) = Len(p) - 1 BY <3>4, ParentIs
        <4>2. Len(a) <= MaxDepth BY <2>5, <4>1 DEF MaxDepth
        <4> HIDE DEF a
        <4>3. CASE a = <<>>
          <5>1. FolderAt(a) \in visited BY <3>1, <4>3, RootPath
          <5> QED BY <2>5, <3>2, <3>4, <5>1 DEF a
        <4>4. CASE a # <<>>
          <5> DEFINE b == Parent(a)
          <5>1. b \in Paths /\ Len(a) \in 1..3 /\ Len(b) = Len(a) - 1 BY <4>1, <4>4, ParentIs
          <5> HIDE DEF b
          <5>2. Len(b) = 0 /\ b \in Seq(Nat) BY <2>5, <4>1, <5>1, PathsAre DEF MaxDepth
          <5>3. b = <<>> BY <5>2, EmptySeq
          <5>4. FolderAt(b) \in visited BY <3>1, <5>3, RootPath
          <5>5. FolderAt(a) \in visited BY <3>2, <4>1, <4>2, <4>4, <5>4 DEF b
          <5> QED BY <2>5, <3>2, <3>4, <5>5 DEF a
        <4> QED BY <4>3, <4>4
      <3> QED BY <3>3, <3>4
    <2>6. \A n : AsGood(n) => got \in Videos /\ n <= Worth(got) BY <2>3 DEF AsGood
    <2>7. ASSUME NEW v \in FilesIn(Reach), HasSignal(v)
          PROVE  got \in Videos /\ Worth(v) <= Worth(got)
      <3>1. PICK p \in Paths : Len(p) <= MaxDepth /\ v \in FilesIn({FolderAt(p)})
        BY DEF FilesIn, Reach
      <3>2. v \in Eligible(FolderAt(p)) BY <2>7, <3>1 DEF Eligible
      <3>3. CASE AsGood(2)
        <4>1. got \in Videos /\ 2 <= Worth(got) BY <2>6, <3>3
        <4>2. Worth(v) \in 0..2 /\ Worth(got) \in 0..2 BY WorthRange
        <4> QED BY <4>1, <4>2
      <3>4. CASE ~ AsGood(2)
        <4>1. FolderAt(p) \in visited BY <2>5, <3>1, <3>4
        <4>2. AsGood(Worth(v)) BY <2>2, <2>4, <3>2, <4>1 DEF NothingDropped
        <4> QED BY <2>6, <4>2
      <3> QED BY <3>3, <3>4
    <2>8. got \in Videos => got # None BY <1>2, VideoIs
    <2>9. ASSUME NEW v \in Exact, HasSignal(v), Wanted(v) PROVE got # None /\ Wanted(got)
      <3>1. v \in FilesIn(Reach) BY DEF Exact
      <3>2. got \in Videos /\ Worth(v) <= Worth(got) BY <2>7, <2>9, <3>1
      <3>3. Worth(v) = 2 BY <2>9 DEF Worth
      <3>4. Worth(got) \in 0..2 BY WorthRange
      <3>5. Worth(got) = 2 BY <3>2, <3>3, <3>4
      <3>6. Wanted(got) BY <3>5 DEF Worth
      <3> QED BY <2>8, <3>2, <3>6
    <2>10. ASSUME File(got).tag = "other", NEW v \in FilesIn(Reach), HasSignal(v)
           PROVE  File(v).tag = "other"
      <3>1. Worth(v) <= Worth(got) BY <2>7, <2>10
      <3>2. Worth(got) = 0 BY <2>10 DEF Worth, Wanted
      <3>3. Worth(v) \in 0..2 BY WorthRange
      <3>4. Worth(v) = 0 BY <3>1, <3>2, <3>3
      <3> QED BY <3>4 DEF Worth
    <2> QED BY <2>9, <2>10 DEF EpisodeFound
  <1> QED BY <1>1, <1>5, <1>6 DEF WalkOrder

\* find_video_stream_for_folder: on a share whose folders have one depth each and fit the
\* cache of sizes, whatever order the threads list and answer in, the scan that could read
\* every folder gives the wanted episode when a main video of sufficient size holds it, and
\* another's only when nothing else is there.
THEOREM EpisodeIsFound ==
  ASSUME SameDepth, RoomForHints
  PROVE  Init /\ [][Next]_vars => []FindsEpisode
  <1> DEFINE I == topic = "scan" => ScanInv
  <1>1. Init => I BY ScanBegins DEF Init
  <1>2. I /\ [Next]_vars => I'
    <2> SUFFICES ASSUME I, [Next]_vars, topic' = "scan" PROVE ScanInv' OBVIOUS
    <2>1. topic = "scan" /\ (ScanNext \/ UNCHANGED scanVars) BY TopicSteps
    <2> QED BY <2>1, ScanKeeps
  <1>3. I => FindsEpisode BY FoundIsGood DEF FindsEpisode
  <1> QED BY <1>1, <1>2, <1>3, PTL

-----------------------------------------------------------------------------
(* PlayRoute.  The rows: what is sorted or filtered is made of other rows, *)
(* in which each link stands once.                                         *)

\* Each link stands once; in what the picker offers the season pack stands apart.
Distinct(rows) == \A i, j \in DOMAIN rows : rows[i].link = rows[j].link => i = j
DistinctButPack(rows) ==
  \A i, j \in DOMAIN rows :
    rows[i] # PackRow /\ rows[j] # PackRow /\ rows[i].link = rows[j].link => i = j

\* _dedupe_results_by_link
LEMMA DedupedIs ==
  ASSUME NEW D \in SUBSET Nat, IsFiniteSet(D), NEW lists \in [D -> Seq(Rows)]
  PROVE  Deduped(lists) \in Seq(Rows) /\ Distinct(Deduped(lists))
  <1> DEFINE at(p) == {<<p, i>> : i \in DOMAIN lists[p]}
             all == UNION {at(p) : p \in D}
             row(e) == lists[e[1]][e[2]]
             first == {e \in all : /\ row(e).link # ""
                                   /\ \A d \in all : row(d).link = row(e).link => ~Sooner(d, e)}
             R == {e \in first \X first : Sooner(e[1], e[2])}
             f == [e \in all |-> row(e)]
  <1>1. \A p \in D : lists[p] \in Seq(Rows) /\ Len(lists[p]) \in Nat
                     /\ DOMAIN lists[p] = 1..Len(lists[p])
    <2> TAKE p \in D
    <2>1. lists[p] \in Seq(Rows) OBVIOUS
    <2> QED BY <2>1, LenProperties
  <1>2. \A e \in all : /\ e = <<e[1], e[2]>> /\ e[1] \in D /\ e[2] \in Nat
                       /\ e[2] \in DOMAIN lists[e[1]] /\ row(e) \in Rows
    <2> SUFFICES ASSUME NEW p \in D, NEW i \in DOMAIN lists[p]
                 PROVE  i \in Nat /\ lists[p][i] \in Rows
      OBVIOUS
    <2> QED BY <1>1, ElementOfSeq
  <1>3. IsFiniteSet(all)
    <2> DEFINE g == [p \in D |-> at(p)]
    <2>1. \A p \in D : IsFiniteSet(at(p))
      <3> TAKE p \in D
      <3> DEFINE h == [i \in DOMAIN lists[p] |-> <<p, i>>]
      <3>1. h \in Surjection(DOMAIN lists[p], at(p)) BY DEF Surjection
      <3>2. IsFiniteSet(DOMAIN lists[p]) BY <1>1, FS_Interval
      <3> DEFINE A == at(p)
      <3> HIDE DEF h, A
      <3>3. h \in Surjection(DOMAIN lists[p], A) BY <3>1 DEF A
      <3>4. IsFiniteSet(A) BY <3>2, <3>3, FS_Surjection
      <3> QED BY <3>4 DEF A
    <2> HIDE DEF at
    <2>2. g \in Surjection(D, {at(p) : p \in D}) BY DEF Surjection
    <2> HIDE DEF g
    <2>3. IsFiniteSet({at(p) : p \in D}) BY <2>2, FS_Surjection
    <2> QED BY <2>1, <2>3, FS_UNION
  <1>4. DOMAIN lists = D OBVIOUS
  <1>5. Deduped(lists) = Picked(InOrder(first, R), f) BY <1>4 DEF Deduped
  <1> HIDE DEF all
  <1>6. \A e \in first : e \in all /\ f[e] = row(e) /\ f[e] \in Rows BY <1>2
  <1>7. IsFiniteSet(first) BY <1>3, FS_Subset
  <1>8. \A x, y \in first : <<x, y>> \in R <=> Sooner(x, y)
    <2> HIDE DEF first
    <2> QED OBVIOUS
  <1>9. \A x \in first : x = <<x[1], x[2]>> /\ x[1] \in Nat /\ x[2] \in Nat BY <1>2, <1>6
  <1>10. \A d, e \in first : row(d).link = row(e).link => ~Sooner(d, e) BY <1>6
  <1>11. \A d, e \in first : ~Sooner(d, e) /\ ~Sooner(e, d) => d = e
    <2> HIDE DEF first
    <2> TAKE d, e \in first
    <2> HAVE ~Sooner(d, e) /\ ~Sooner(e, d)
    <2>1. d[1] = e[1] /\ d[2] = e[2] BY <1>9 DEF Sooner
    <2> QED BY <1>9, <2>1
  <1> HIDE DEF first, R
  <1>12. TotalOrder(R, first)
    <2>1. \A x \in first : ~Sooner(x, x) BY <1>9 DEF Sooner
    <2>2. \A x, y, z \in first : Sooner(x, y) /\ Sooner(y, z) => Sooner(x, z)
      BY <1>9 DEF Sooner
    <2> QED BY <1>8, <1>11, <2>1, <2>2 DEF TotalOrder
  <1>13. PICK s \in Seq(Rows) : Picked(InOrder(first, R), f) = s /\ Lists(s, f, first)
    <2>1. \A x \in first : f[x] \in Rows BY <1>6
    <2> HIDE DEF f
    <2> QED BY <1>7, <1>12, <2>1, PickedIs
  <1>14. PICK o \in [1..Len(s) -> first] :
            /\ \A i \in 1..Len(s) : s[i] = f[o[i]]
            /\ \A i, j \in 1..Len(s) : o[i] = o[j] => i = j
    BY <1>13 DEF Lists
  <1>15. DOMAIN s = 1..Len(s) BY LenProperties
  <1>16. \A i, j \in 1..Len(s) : s[i].link = s[j].link => i = j
    <2> SUFFICES ASSUME NEW i \in 1..Len(s), NEW j \in 1..Len(s), s[i].link = s[j].link
                 PROVE  o[i] = o[j]
      BY <1>14
    <2>1. o[i] \in first /\ o[j] \in first OBVIOUS
    <2>2. row(o[i]).link = row(o[j]).link BY <1>6, <1>14, <2>1
    <2>3. ~Sooner(o[i], o[j]) /\ ~Sooner(o[j], o[i])
      <3> HIDE DEF row
      <3> QED BY <1>10, <2>1, <2>2
    <2> QED BY <1>11, <2>1, <2>3
  <1> HIDE DEF f
  <1>17. Deduped(lists) = s BY <1>5, <1>13
  <1> QED BY <1>15, <1>16, <1>17 DEF Distinct

\* _sort_results
LEMMA SortedIs ==
  ASSUME NEW rows \in Seq(Rows), Distinct(rows), NEW order \in Orders
  PROVE  /\ Sorted(rows, order) \in Seq(Rows) /\ Distinct(Sorted(rows, order))
         /\ ToSet(Sorted(rows, order)) = ToSet(rows)
  <1> DEFINE key(i) == CASE order = "largest"  -> -rows[i].bytes
                         [] order = "smallest" -> rows[i].bytes
                         [] order = "newest"   -> -rows[i].posted
                         [] order = "oldest"   -> rows[i].posted
             before(i, j) == key(i) < key(j) \/ (key(i) = key(j) /\ i < j)
             P == DOMAIN rows
             R == {e \in P \X P : before(e[1], e[2])}
  <1>1. Len(rows) \in Nat /\ P = 1..Len(rows) BY LenProperties
  <1>2. \A i \in P : rows[i] \in Rows BY <1>1, ElementOfSeq
  <1>3. \A i \in P : key(i) \in Int BY <1>2 DEF Rows, Orders
  <1>4. IsFiniteSet(P) BY <1>1, FS_Interval
  <1>5. Sorted(rows, order) = Picked(InOrder(P, R), rows) BY DEF Sorted
  <1> HIDE DEF key
  <1>6. \A x, y \in P : <<x, y>> \in R <=> before(x, y) OBVIOUS
  <1> HIDE DEF R
  <1>7. TotalOrder(R, P) BY <1>1, <1>3, <1>6 DEF TotalOrder
  <1>8. PICK s \in Seq(Rows) : Picked(InOrder(P, R), rows) = s /\ Lists(s, rows, P)
    <2> HIDE DEF P
    <2> QED BY <1>2, <1>4, <1>7, PickedIs
  <1>9. PICK o \in [1..Len(s) -> P] :
            /\ \A i \in 1..Len(s) : s[i] = rows[o[i]]
            /\ \A i, j \in 1..Len(s) : o[i] = o[j] => i = j
            /\ \A x \in P : \E i \in 1..Len(s) : o[i] = x
    BY <1>8 DEF Lists
  <1>10. DOMAIN s = 1..Len(s) BY LenProperties
  <1>11. Distinct(s) BY <1>9, <1>10 DEF Distinct
  <1>12. ToSet(s) = ToSet(rows)
    <2>1. \A x \in ToSet(s) : x \in ToSet(rows) BY <1>9, <1>10 DEF ToSet
    <2>2. \A x \in ToSet(rows) : x \in ToSet(s) BY <1>9, <1>10 DEF ToSet
    <2> QED BY <2>1, <2>2
  <1> QED BY <1>5, <1>8, <1>11, <1>12

\* A filter keeps the rows it says, each once.
LEMMA FilterIs ==
  ASSUME NEW rows \in Seq(Rows), NEW S \in SUBSET (DOMAIN rows)
  PROVE  \E s \in Seq(Rows) :
           /\ Kept(rows, S) = s
           /\ \A i \in DOMAIN s : \E k \in S : s[i] = rows[k]
           /\ \A k \in S : rows[k] \in ToSet(s)
           /\ Distinct(rows) => Distinct(s)
           /\ DistinctButPack(rows) => DistinctButPack(s)
  <1>1. PICK s \in Seq(Rows) : Kept(rows, S) = s /\ Lists(s, rows, S) BY KeptIs
  <1>2. PICK o \in [1..Len(s) -> S] :
            /\ \A i \in 1..Len(s) : s[i] = rows[o[i]]
            /\ \A i, j \in 1..Len(s) : o[i] = o[j] => i = j
            /\ \A x \in S : \E i \in 1..Len(s) : o[i] = x
    BY <1>1 DEF Lists
  <1>3. DOMAIN s = 1..Len(s) BY LenProperties
  <1>4. \A i \in DOMAIN s : o[i] \in S /\ o[i] \in DOMAIN rows /\ s[i] = rows[o[i]]
    BY <1>2, <1>3
  <1>5. \A k \in S : rows[k] \in ToSet(s) BY <1>2, <1>3 DEF ToSet
  <1>6. Distinct(rows) => Distinct(s) BY <1>2, <1>3, <1>4 DEF Distinct
  <1>7. DistinctButPack(rows) => DistinctButPack(s) BY <1>2, <1>3, <1>4 DEF DistinctButPack
  <1> QED BY <1>1, <1>4, <1>5, <1>6, <1>7

\* The first rows of a list.
LEMMA FewIs ==
  ASSUME NEW rows \in Seq(Rows), NEW n \in Nat
  PROVE  LET few == SubSeq(rows, 1, IF Len(rows) < n THEN Len(rows) ELSE n)
         IN  /\ few \in Seq(Rows) /\ (Distinct(rows) => Distinct(few))
             /\ ToSet(few) \subseteq ToSet(rows)
  <1> DEFINE m == IF Len(rows) < n THEN Len(rows) ELSE n
             few == SubSeq(rows, 1, m)
  <1>1. Len(rows) \in Nat /\ DOMAIN rows = 1..Len(rows) BY LenProperties
  <1>2. m \in Nat /\ m <= Len(rows) BY <1>1
  <1>3. \A i \in 1..m : i \in DOMAIN rows /\ rows[i] \in Rows BY <1>1, <1>2, ElementOfSeq
  <1> HIDE DEF m
  <1>4. few \in Seq(Rows) /\ Len(few) = m /\ \A i \in 1..m : few[i] = rows[i]
    <2>1. /\ few \in Seq(Rows) /\ Len(few) = IF 1 <= m THEN m - 1 + 1 ELSE 0
          /\ \A i \in 1..(m - 1 + 1) : few[i] = rows[1 + i - 1]
      BY <1>2, <1>3, SubSeqProperties
    <2>2. m - 1 + 1 = m /\ \A i \in 1..m : 1 + i - 1 = i BY <1>2
    <2> HIDE DEF few
    <2> QED BY <1>2, <2>1, <2>2
  <1> HIDE DEF few
  <1>5. DOMAIN few = 1..m BY <1>4, LenProperties
  <1>6. Distinct(rows) => Distinct(few) BY <1>3, <1>4, <1>5 DEF Distinct
  <1>7. ToSet(few) \subseteq ToSet(rows) BY <1>3, <1>4, <1>5 DEF ToSet
  <1> QED BY <1>4, <1>6, <1>7 DEF few, m

LEMMA PackRowIs == PackRow \in Rows BY DEF PackRow, Rows, Texts

\* What the picker starts with.
LEMMA OfferedIs ==
  ASSUME NEW rows \in Seq(Rows), Distinct(rows)
  PROVE  LET some == WithPack(Shown(rows))
         IN  /\ some \in Seq(Rows) /\ DistinctButPack(some)
             /\ ToSet(some) \subseteq ToSet(rows) \cup {PackRow}
  <1> DEFINE S == {i \in DOMAIN rows : rows[i].shown}
             few(p) == SubSeq(p, 1, IF Len(p) < MaxShown THEN Len(p) ELSE MaxShown)
  <1>1. PICK p \in Seq(Rows) : /\ Kept(rows, S) = p /\ Distinct(p)
                               /\ \A i \in DOMAIN p : \E k \in S : p[i] = rows[k]
    BY FilterIs
  <1>2. ToSet(p) \subseteq ToSet(rows) BY <1>1 DEF ToSet
  <1>3. MaxShown \in Nat BY RouteAssumption
  <1>4. few(p) \in Seq(Rows) /\ Distinct(few(p)) /\ ToSet(few(p)) \subseteq ToSet(rows)
    BY <1>1, <1>2, <1>3, FewIs
  <1>5. Shown(rows) = few(p) BY <1>1 DEF Shown
  <1>6. PICK q \in Seq(Rows) : Shown(rows) = q /\ Distinct(q) /\ ToSet(q) \subseteq ToSet(rows)
    BY <1>4, <1>5
  <1>7. CASE ~Pack
    <2>1. WithPack(Shown(rows)) = q BY <1>6, <1>7 DEF WithPack
    <2> QED BY <1>6, <2>1 DEF Distinct, DistinctButPack
  <1>8. CASE Pack
    <2> DEFINE all == <<PackRow>> \o q
    <2>1. WithPack(Shown(rows)) = all BY <1>6, <1>8 DEF WithPack
    <2>2. <<PackRow>> \in Seq(Rows) /\ Len(<<PackRow>>) = 1 /\ <<PackRow>>[1] = PackRow
      BY PackRowIs
    <2>3. /\ all \in Seq(Rows) /\ Len(all) = 1 + Len(q)
          /\ \A i \in 1..(1 + Len(q)) : all[i] = IF i <= 1 THEN <<PackRow>>[i] ELSE q[i - 1]
      BY <2>2, ConcatProperties
    <2> HIDE DEF all
    <2>4. DOMAIN all = 1..(1 + Len(q)) /\ DOMAIN q = 1..Len(q) /\ Len(q) \in Nat
      BY <2>3, LenProperties
    <2>5. \A i \in DOMAIN all : all[i] = PackRow \/ (i - 1 \in DOMAIN q /\ all[i] = q[i - 1])
      BY <2>2, <2>3, <2>4
    <2>6. \A i, j \in DOMAIN all : i - 1 = j - 1 => i = j BY <2>4
    <2>7. DistinctButPack(all) BY <1>6, <2>5, <2>6 DEF Distinct, DistinctButPack
    <2>8. ToSet(all) \subseteq ToSet(q) \cup {PackRow} BY <2>5 DEF ToSet
    <2> QED BY <1>6, <2>1, <2>3, <2>7, <2>8
  <1> QED BY <1>7, <1>8

\* The rows among them.
LEMMA OfferedRows ==
  ASSUME NEW some \in Seq(Rows), DistinctButPack(some)
  PROVE  \E s \in Seq(Rows) :
           /\ Kept(some, {i \in DOMAIN some : some[i] # PackRow}) = s
           /\ Distinct(s) /\ ToSet(s) = ToSet(some) \ {PackRow}
  <1> DEFINE S == {i \in DOMAIN some : some[i] # PackRow}
  <1>1. PICK s \in Seq(Rows) :
           /\ Kept(some, S) = s
           /\ \A i \in DOMAIN s : \E k \in S : s[i] = some[k]
           /\ \A k \in S : some[k] \in ToSet(s)
           /\ DistinctButPack(s)
    BY FilterIs
  <1>2. \A i \in DOMAIN s : s[i] # PackRow BY <1>1
  <1>3. Distinct(s) BY <1>1, <1>2 DEF Distinct, DistinctButPack
  <1>4. \A x \in ToSet(s) : x \in ToSet(some) \ {PackRow} BY <1>1 DEF ToSet
  <1>5. \A x \in ToSet(some) \ {PackRow} : x \in ToSet(s) BY <1>1 DEF ToSet
  <1> QED BY <1>1, <1>3, <1>4, <1>5

\* _compute_fallback_candidates: of the rows on offer no peer of the pick is withheld.
LEMMA PoolHas ==
  ASSUME NEW rows \in Seq(Rows), Distinct(rows), NEW extra \in Seq(Rows),
         NEW r \in ToSet(rows), r # PackRow,
         NEW o \in ToSet(rows), o # r, o.content = r.content
  PROVE  o \in ToSet(Pool(r, rows, extra))
  <1>1. Len(rows) \in Nat /\ DOMAIN rows = 1..Len(rows) BY LenProperties
  <1>2. PICK i \in DOMAIN rows : rows[i] = r BY DEF ToSet
  <1>3. PICK k \in DOMAIN rows : rows[k] = o BY DEF ToSet
  <1>4. i # k /\ o.link # r.link BY <1>2, <1>3 DEF Distinct
  <1>5. Len(rows) # 1 /\ rows # <<r>> BY <1>1, <1>2, <1>3, <1>4
  <1>6. Peers(r, rows) # {} BY <1>3, <1>4 DEF Peers
  <1> DEFINE all == rows \o extra
             first == all[CHOOSE x \in Peers(r, all) : \A y \in Peers(r, all) : x <= y]
             rest == Kept(all, {x \in DOMAIN all : all[x] # r /\ all[x] # first})
  <1>7. Pool(r, rows, extra) = <<r, first>> \o rest
    BY <1>5, <1>6 DEF Pool, HasLoader
  <1>8. all \in Seq(Rows) /\ k \in DOMAIN all /\ all[k] = o
    <2>1. /\ all \in Seq(Rows) /\ Len(all) = Len(rows) + Len(extra)
          /\ \A x \in 1..(Len(rows) + Len(extra)) :
                all[x] = IF x <= Len(rows) THEN rows[x] ELSE extra[x - Len(rows)]
      BY ConcatProperties
    <2>2. Len(extra) \in Nat BY LenProperties
    <2> HIDE DEF all
    <2>3. DOMAIN all = 1..(Len(rows) + Len(extra)) BY <2>1, LenProperties
    <2>4. k \in 1..(Len(rows) + Len(extra)) /\ k <= Len(rows) BY <1>1, <2>2
    <2> QED BY <1>3, <2>1, <2>3, <2>4
  <1> HIDE DEF all, first
  <1> DEFINE T == Rows \cup {first}
             S == {x \in DOMAIN all : all[x] # r /\ all[x] # first}
  <1>9. r \in Rows BY <1>1, <1>2, ElementOfSeq
  <1>10. PICK s \in Seq(Rows) : rest = s /\ \A x \in S : all[x] \in ToSet(s) BY <1>8, FilterIs
  <1>11. s \in Seq(T) /\ <<r, first>> \in Seq(T) /\ Len(<<r, first>>) = 2
    BY <1>9, SeqMonotonic
  <1> DEFINE pool == <<r, first>> \o s
  <1>12. /\ pool \in Seq(T) /\ Len(pool) = 2 + Len(s)
         /\ \A x \in 1..(2 + Len(s)) :
               pool[x] = IF x <= 2 THEN <<r, first>>[x] ELSE s[x - 2]
    BY <1>11, ConcatProperties
  <1>13. Len(s) \in Nat /\ DOMAIN s = 1..Len(s) BY LenProperties
  <1> HIDE DEF pool
  <1>14. DOMAIN pool = 1..(2 + Len(s)) BY <1>12, LenProperties
  <1>15. CASE o = first
    <2>1. 2 \in 1..(2 + Len(s)) /\ 2 <= 2 BY <1>13
    <2>2. pool[2] = <<r, first>>[2] BY <1>12, <2>1
    <2>3. <<r, first>>[2] = first OBVIOUS
    <2>4. 2 \in DOMAIN pool /\ pool[2] = o BY <1>14, <1>15, <2>1, <2>2, <2>3
    <2>5. o \in ToSet(pool) BY <2>4 DEF ToSet
    <2> QED BY <1>7, <1>10, <2>5 DEF pool
  <1>16. CASE o # first
    <2>1. k \in S BY <1>8, <1>16
    <2>2. PICK x \in DOMAIN s : s[x] = o BY <1>8, <1>10, <2>1 DEF ToSet
    <2>3. x + 2 \in DOMAIN pool /\ pool[x + 2] = o BY <1>12, <1>13, <1>14, <2>2
    <2>4. o \in ToSet(pool) BY <2>3 DEF ToSet
    <2> QED BY <1>7, <1>10, <2>4 DEF pool
  <1> QED BY <1>15, <1>16

\* The backend's history.
LEMMA HistoryIs ==
  ASSUME NEW h \in Histories \cup {NotAsked}
  PROVE  Len(h.jobs) \in Nat /\ DOMAIN h.jobs = 1..Len(h.jobs)
  <1> DEFINE J == [name : STRING, bytes : Nat]
  <1>1. h.jobs \in Seq(J)
    <2>1. CASE h \in Histories BY <2>1, RouteAssumption
    <2>2. CASE h = NotAsked BY <2>2 DEF NotAsked
    <2> QED BY <2>1, <2>2
  <1> HIDE DEF J
  <1> QED BY <1>1, LenProperties

\* _completed_job_matches_result: the job of a row is in the history, under its name, and is
\* of that upload.
LEMMA DownloadedIs ==
  ASSUME NEW h \in Histories \cup {NotAsked}, NEW r, Downloaded(h, r) # NoJob
  PROVE  LET job == Downloaded(h, r)
         IN  job \in ToSet(h.jobs) /\ job.name = r.title /\ SameUpload(r, job)
  <1> DEFINE of == {i \in DOMAIN h.jobs : h.jobs[i].name = r.title}
             better(i, j) == IF call.backend = "nzbget" THEN i <= j ELSE j <= i
             best == CHOOSE i \in of : \A j \in of : better(i, j)
             job == JobOf(h, r.title)
  <1>1. Downloaded(h, r) = job /\ job # NoJob /\ SameUpload(r, job) BY DEF Downloaded
  <1>2. of # {} /\ job = h.jobs[best] BY <1>1 DEF JobOf
  <1>3. Len(h.jobs) \in Nat /\ of \in SUBSET (1..Len(h.jobs)) BY HistoryIs
  <1>4. \E i \in of : \A j \in of : better(i, j)
    <2> HIDE DEF of
    <2>1. of \in SUBSET Nat BY <1>3
    <2>2. CASE call.backend = "nzbget" BY <1>2, <2>1, <2>2, First
    <2>3. CASE call.backend # "nzbget" BY <1>2, <1>3, <2>3, Highest
    <2> QED BY <2>2, <2>3
  <1>5. best \in of
    <2> HIDE DEF of, better
    <2> QED BY <1>4
  <1> HIDE DEF best
  <1> QED BY <1>1, <1>2, <1>5 DEF ToSet

LEMMA NotAskedHasNone == \A r : Downloaded(NotAsked, r) = NoJob
  BY DEF Downloaded, JobOf, NotAsked

\* What is found in a history depends on the call alone.
LEMMA SameDownload ==
  ASSUME UNCHANGED call
  PROVE  \A h, r : Downloaded(h, r)' = Downloaded(h, r)
  BY DEF Downloaded, JobOf, SameUpload

-----------------------------------------------------------------------------
(* PlayRoute.  What is handed to the resolver.                             *)

\* _same_name_backups: other uploads under the name of the pick, each once.
LEMMA NamedAlikeIs ==
  ASSUME NEW rows \in Seq(Rows), Distinct(rows), NEW r
  PROVE  LET alike == NamedAlike(r, rows)
         IN  /\ Distinct(alike)
             /\ \A i \in DOMAIN alike : alike[i].title = r.title /\ alike[i].link # r.link
  <1> DEFINE S == {i \in DOMAIN rows : rows[i].link # r.link /\ rows[i].title = r.title}
             few(p) == SubSeq(p, 1, IF Len(p) < MaxBackups THEN Len(p) ELSE MaxBackups)
  <1>1. PICK p \in Seq(Rows) : /\ Kept(rows, S) = p /\ Distinct(p)
                               /\ \A i \in DOMAIN p : \E k \in S : p[i] = rows[k]
    BY FilterIs
  <1>2. MaxBackups \in Nat BY RouteAssumption
  <1>3. few(p) \in Seq(Rows) /\ Distinct(few(p)) /\ ToSet(few(p)) \subseteq ToSet(p)
    BY <1>1, <1>2, FewIs
  <1>4. NamedAlike(r, rows) = few(p) BY <1>1 DEF NamedAlike
  <1>5. \A x \in ToSet(p) : x.title = r.title /\ x.link # r.link BY <1>1 DEF ToSet
  <1>6. \A i \in DOMAIN few(p) : few(p)[i] \in ToSet(p) BY <1>3 DEF ToSet
  <1> HIDE DEF few
  <1> QED BY <1>3, <1>4, <1>5, <1>6

\* Every claim to the resolver, from what the step that hands the pick over has found out.
LEMMA GivenTrue ==
  ASSUME offered \in Seq(Rows), DistinctButPack(offered),
         NEW r \in Rows, NEW job, NEW looked \in BOOLEAN, NEW h \in Histories \cup {NotAsked},
         job # NoJob => job = Downloaded(h, r),
         looked /\ call.backend = "nzbdav" /\ r # PackRow /\ ~(call.path = "script" /\ call.auto)
           => h.read /\ Downloaded(h, r) = NoJob,
         r = PackRow => job = NoJob,
         HandTo(r, job, looked), history' = h, UNCHANGED <<call, offered>>
  PROVE  ToldTheTruth'
  <1> DEFINE rows == Kept(offered, {i \in DOMAIN offered : offered[i] # PackRow})
  <1>1. PICK extra \in Seq(Rows) : given' = Given(r, job, looked, extra)
    <2>1. PICK e \in Extras : given' = Given(r, job, looked, IF call.hydra THEN e ELSE <<>>)
      BY DEF HandTo
    <2>2. e \in Seq(Rows) /\ <<>> \in Seq(Rows) BY RouteAssumption
    <2> QED BY <2>1, <2>2
  <1>2. /\ picked' = r /\ given'.told /\ given'.link = r.link /\ given'.job = job
        /\ given'.looked = looked /\ given'.pool = Pool(r, rows, extra)
        /\ given'.dupes = Dupes(r, rows)
    BY <1>1 DEF HandTo, Given
  <1>3. PICK s \in Seq(Rows) : rows = s /\ Distinct(s) /\ ToSet(s) = ToSet(offered) \ {PackRow}
    BY OfferedRows
  <1> HIDE DEF rows
  <1>4. \A g, x : Downloaded(g, x)' = Downloaded(g, x) BY SameDownload
  <1>5. job # NoJob => /\ job \in ToSet(h.jobs) /\ job.name = r.title
                       /\ SameUpload(r, job)
    BY DownloadedIs
  <1>6. SameUpload(r, job)' <=> SameUpload(r, job) BY DEF SameUpload
  <1>7. \A i \in DOMAIN Dupes(r, rows) :
          LET d == Dupes(r, rows)
          IN  /\ d[i].title = r.title /\ d[i].link # r.link
              /\ \A j \in DOMAIN d : d[i].link = d[j].link => i = j
    <2>1. CASE Dupes(r, rows) = <<>> BY <2>1
    <2>2. CASE Dupes(r, rows) = NamedAlike(r, s)
      <3> DEFINE d == NamedAlike(r, s)
      <3>1. Distinct(d) /\ \A i \in DOMAIN d : d[i].title = r.title /\ d[i].link # r.link
        BY <1>3, NamedAlikeIs
      <3> HIDE DEF d
      <3>2. Dupes(r, rows) = d BY <2>2 DEF d
      <3> QED BY <3>1, <3>2 DEF Distinct
    <2> QED BY <1>3, <2>1, <2>2 DEF Dupes
  <1>8. ASSUME r \in ToSet(offered), r # PackRow, NEW o \in ToSet(offered) \ {r, PackRow},
               o.content = r.content
        PROVE  o \in ToSet(Pool(r, rows, extra))
    <2>1. r \in ToSet(s) /\ o \in ToSet(s) BY <1>3, <1>8
    <2> QED BY <1>1, <1>3, <1>8, <2>1, PoolHas
  <1>9. r = PackRow => Dupes(r, rows) = <<>> /\ Pool(r, rows, extra) = <<>>
    BY DEF Dupes, Pool, HasLoader
  <1> DEFINE d == Dupes(r, rows)
             pool == Pool(r, rows, extra)
  <1>10. /\ given'.link = picked'.link
         /\ given'.job # NoJob => /\ given'.job \in ToSet(history'.jobs)
                                  /\ given'.job.name = picked'.title
                                  /\ SameUpload(r, job)'
    BY <1>2, <1>5, <1>6
  <1>11. given'.looked /\ call'.backend = "nzbdav" /\ picked' # PackRow
           /\ ~(call'.path = "script" /\ call'.auto)
           => history'.read /\ Downloaded(h, r)' = NoJob
    BY <1>2, <1>4
  <1>12. \A i \in DOMAIN given'.dupes :
            /\ given'.dupes[i].title = picked'.title /\ given'.dupes[i].link # picked'.link
            /\ \A j \in DOMAIN given'.dupes : given'.dupes[i].link = given'.dupes[j].link => i = j
    <2> HIDE DEF d
    <2> QED BY <1>2, <1>7 DEF d
  <1>13. picked' \in ToSet(offered') /\ picked' # PackRow
           => \A o \in ToSet(offered') \ {picked', PackRow} :
                 o.content = picked'.content => o \in ToSet(given'.pool)
    BY <1>2, <1>8
  <1>14. picked' = PackRow => given'.job = NoJob /\ given'.dupes = <<>> /\ given'.pool = <<>>
    BY <1>2, <1>9
  <1>15. /\ SameUpload(r, job)' <=> SameUpload(picked, given.job)'
         /\ Downloaded(h, r)' = Downloaded(history, picked)'
    BY <1>2 DEF SameUpload, Downloaded, JobOf
  <1> QED BY <1>10, <1>11, <1>12, <1>13, <1>14, <1>15 DEF ToldTheTruth

\* What is known of a call on its way to the resolver.  The marks are those of the rows
\* found, in the history last read; nothing is told before the resolver is reached.
ToldRows ==
  /\ cached \in Seq(Rows) /\ Distinct(cached)
  /\ found.rows \in Seq(Rows) /\ Distinct(found.rows)
  /\ offered \in Seq(Rows) /\ DistinctButPack(offered)
  /\ ToSet(offered) \subseteq ToSet(found.rows) \cup {PackRow}
ToldMarks ==
  /\ found.rows = <<>> => history = NotAsked
  /\ \A r \in ToSet(found.rows) : marks[r.link] = Downloaded(history, r)
Told ==
  /\ call \in Calls /\ found = [rows |-> found.rows, failed |-> found.failed]
  /\ history \in Histories \cup {NotAsked}
  /\ ToldRows
  /\ stage \in {"start", "search"} => offered = <<>>
  /\ stage = "auto" => call.auto /\ offered # <<>>
  /\ stage = "pick" => ToldMarks
  /\ stage \notin {"resolve", "over"} => ~given.told
  /\ ToldTheTruth

\* A step before the pick tells nothing.
LEMMA NothingTold ==
  ASSUME Told, stage \notin {"resolve", "over"}, UNCHANGED given
  PROVE  ~given'.told /\ ToldTheTruth'
  BY DEF Told, ToldTheTruth

\* What is true of the call, the rows, the history and the pick stays true while they stay.
LEMMA TruthStays ==
  ASSUME ToldTheTruth, UNCHANGED <<call, offered, history, picked, given>>
  PROVE  ToldTheTruth'
  <1>1. Downloaded(history, picked)' = Downloaded(history, picked)
    BY DEF Downloaded, JobOf, SameUpload
  <1>2. SameUpload(picked, given.job)' <=> SameUpload(picked, given.job) BY DEF SameUpload
  <1> QED BY <1>1, <1>2 DEF ToldTheTruth

LEMMA RowsStay ==
  ASSUME ToldRows, UNCHANGED <<cached, found, offered>>
  PROVE  ToldRows'
  BY DEF ToldRows, Distinct, DistinctButPack

\* _search_all_providers, with the cache in front of it.
LEMMA SearchTells ==
  ASSUME Told, Search
  PROVE  Told'
  <1>1. /\ stage = "search" /\ stage' = "found" /\ offered = <<>> /\ offered' = <<>>
        /\ call \in Calls /\ call' \in Calls
    BY DEF Search, Go, Told
  <1>2. \A answer \in ProviderReplies :
          /\ Collected(answer).rows \in Seq(Rows) /\ Distinct(Collected(answer).rows)
          /\ Collected(answer) = [rows |-> Collected(answer).rows,
                                  failed |-> Collected(answer).failed]
    <2> TAKE answer \in ProviderReplies
    <2> DEFINE D == {q \in Enabled : ~answer[q].failed}
               lists == [p \in D |-> answer[p].rows]
    <2>1. Collected(answer).rows = Deduped(lists)
          /\ Collected(answer) = [rows |-> Collected(answer).rows,
                                  failed |-> Collected(answer).failed]
      BY DEF Collected
    <2>2. Enabled \subseteq Providers BY <1>1, RouteAssumption DEF Enabled
    <2>3. Cardinality(Providers) \in Nat BY RouteAssumption, FS_CardinalityType
    <2>4. Providers \in SUBSET Nat
      <3>1. Providers = 1..Cardinality(Providers) BY RouteAssumption
      <3> QED BY <2>3, <3>1
    <2>5. D \in SUBSET Nat /\ IsFiniteSet(D)
      <3> D \subseteq Providers BY <2>2
      <3> QED BY <2>4, RouteAssumption, FS_Subset
    <2>6. lists \in [D -> Seq(Rows)]
      <3>1. \A p \in D : answer[p] \in Replies BY DEF ProviderReplies
      <3> HIDE DEF D
      <3> QED BY <3>1, RouteAssumption
    <2> HIDE DEF D, lists
    <2> QED BY <2>1, <2>5, <2>6, DedupedIs
  <1>3. /\ found'.rows \in Seq(Rows) /\ Distinct(found'.rows)
        /\ found' = [rows |-> found'.rows, failed |-> found'.failed]
        /\ cached' \in Seq(Rows) /\ Distinct(cached')
    <2>1. CASE found' = [rows |-> cached, failed |-> FALSE] /\ UNCHANGED cached
      BY <2>1 DEF Told, ToldRows
    <2>2. CASE \E answer \in ProviderReplies :
                 /\ found' = Collected(answer)
                 /\ cached' = IF call.path # "script" /\ found'.rows # <<>> THEN found'.rows
                              ELSE cached
      BY <1>2, <2>2 DEF Told, ToldRows
    <2> QED BY <2>1, <2>2 DEF Search
  <1>4. ToldRows' BY <1>1, <1>3 DEF ToldRows, Distinct, DistinctButPack, ToSet
  <1>5. UNCHANGED <<given, history>> BY DEF Search
  <1>6. ~given'.told /\ ToldTheTruth' BY <1>1, <1>5, NothingTold
  <1> QED BY <1>1, <1>3, <1>4, <1>5, <1>6 DEF Told

LEMMA FilterTells ==
  ASSUME Told, Filter
  PROVE  Told'
  <1>1. PICK order \in Orders : found' = [found EXCEPT !.rows = Sorted(@, order)] BY DEF Filter
  <1>2. found = [rows |-> found.rows, failed |-> found.failed] BY DEF Told
  <1>3. /\ found'.rows = Sorted(found.rows, order)
        /\ found' = [rows |-> found'.rows, failed |-> found'.failed]
    BY <1>1, <1>2
  <1>4. found'.rows \in Seq(Rows) /\ Distinct(found'.rows)
    BY <1>3, SortedIs DEF Told, ToldRows
  <1>5. offered' = WithPack(Shown(found'.rows)) BY DEF Filter
  <1>6. /\ offered' \in Seq(Rows) /\ DistinctButPack(offered')
        /\ ToSet(offered') \subseteq ToSet(found'.rows) \cup {PackRow}
    BY <1>4, <1>5, OfferedIs
  <1>7. ToldRows'
    <2>1. UNCHANGED cached BY DEF Filter
    <2> QED BY <1>4, <1>6, <2>1 DEF ToldRows, Told, Distinct, DistinctButPack
  <1>8. /\ stage = "found" /\ UNCHANGED <<call, given, history>> /\ stage' \in {"auto", "mark"}
        /\ stage' = "auto" => call.auto /\ offered' # <<>>
    BY DEF Filter, Go
  <1>9. ~given'.told /\ ToldTheTruth' BY <1>8, NothingTold
  <1> QED BY <1>3, <1>7, <1>8, <1>9 DEF Told

\* _tag_available: the mark of a row is its own job.
LEMMA MarkTells ==
  ASSUME Told, MarkRows
  PROVE  Told'
  <1>1. /\ stage = "mark" /\ stage' = "pick"
        /\ UNCHANGED <<call, meant, cached, found, offered, picked, given, answers, bookmark>>
    BY DEF MarkRows, Go
  <1>2. PICK h \in Histories \cup {NotAsked} :
          /\ history' = h /\ (found.rows = <<>> => h = NotAsked)
          /\ marks' = [l \in {found.rows[i].link : i \in DOMAIN found.rows} |->
                         Downloaded(h, CHOOSE r \in ToSet(found.rows) : r.link = l)]
    BY DEF MarkRows
  <1>3. Distinct(found.rows) BY DEF Told, ToldRows
  <1>4. \A r \in ToSet(found.rows) : marks'[r.link] = Downloaded(h, r)
    <2> TAKE r \in ToSet(found.rows)
    <2>1. \A x \in ToSet(found.rows) : x.link = r.link => x = r BY <1>3 DEF Distinct, ToSet
    <2>2. (CHOOSE x \in ToSet(found.rows) : x.link = r.link) = r BY <2>1
    <2>3. r.link \in {found.rows[i].link : i \in DOMAIN found.rows} BY DEF ToSet
    <2> QED BY <1>2, <2>2, <2>3
  <1>5. \A g, x : Downloaded(g, x)' = Downloaded(g, x) BY <1>1, SameDownload
  <1>6. ToldMarks' BY <1>1, <1>2, <1>4, <1>5 DEF ToldMarks
  <1>7. ToldRows' BY <1>1, RowsStay DEF Told
  <1>8. ~given'.told /\ ToldTheTruth' BY <1>1, NothingTold
  <1> QED BY <1>1, <1>2, <1>6, <1>7, <1>8 DEF Told

LEMMA HandsOver ==
  ASSUME Told, history' \in Histories \cup {NotAsked}, ToldTheTruth',
         NEW r, NEW job, NEW looked, HandTo(r, job, looked),
         UNCHANGED <<call, cached, found, offered>>
  PROVE  Told'
  <1>1. stage' = "resolve" BY DEF HandTo, Go
  <1>2. ToldRows' BY RowsStay DEF Told
  <1> QED BY <1>1, <1>2 DEF Told

\* A row of the picker is a row that was found, or the pack.
LEMMA ChoosableAre ==
  ASSUME Told, NEW r \in Choosable
  PROVE  r \in Rows /\ (r # PackRow => r \in ToSet(found.rows))
  <1>1. found.rows \in Seq(Rows) /\ ToSet(offered) \subseteq ToSet(found.rows) \cup {PackRow}
    BY DEF Told, ToldRows
  <1>2. DOMAIN found.rows = 1..Len(found.rows) BY <1>1, LenProperties
  <1>3. ToSet(found.rows) \subseteq Rows BY <1>1, <1>2, ElementOfSeq DEF ToSet
  <1>4. ToSet(WithPack(found.rows)) \subseteq ToSet(found.rows) \cup {PackRow}
    <2> DEFINE q == found.rows
               all == <<PackRow>> \o q
    <2>1. <<PackRow>> \in Seq(Rows) /\ Len(<<PackRow>>) = 1 /\ <<PackRow>>[1] = PackRow
      BY PackRowIs
    <2>2. /\ all \in Seq(Rows) /\ Len(all) = 1 + Len(q)
          /\ \A i \in 1..(1 + Len(q)) : all[i] = IF i <= 1 THEN <<PackRow>>[i] ELSE q[i - 1]
      BY <1>1, <2>1, ConcatProperties
    <2> HIDE DEF all
    <2>3. DOMAIN all = 1..(1 + Len(q)) /\ Len(q) \in Nat BY <1>1, <2>2, LenProperties
    <2>4. \A i \in DOMAIN all : all[i] = PackRow \/ (i - 1 \in DOMAIN q /\ all[i] = q[i - 1])
      BY <1>2, <2>1, <2>2, <2>3
    <2>5. ToSet(all) \subseteq ToSet(q) \cup {PackRow} BY <2>4 DEF ToSet
    <2> QED BY <2>5 DEF WithPack, all
  <1> QED BY <1>1, <1>3, <1>4, PackRowIs DEF Choosable

LEMMA PickTells ==
  ASSUME Told, Pick
  PROVE  Told'
  <1>1. stage = "pick" /\ UNCHANGED <<call, cached, found, offered>> BY DEF Pick
  <1>2. ToldMarks /\ offered \in Seq(Rows) /\ DistinctButPack(offered)
    BY <1>1 DEF Told, ToldRows
  <1>3. PICK r \in Choosable :
          LET marked == IF r = PackRow THEN NoJob ELSE marks[r.link]
              again == call.path = "script" /\ r # PackRow /\ marked = NoJob /\ ~LookedUp
          IN  \/ /\ ~again /\ HandTo(r, marked, marked = NoJob /\ LookedUp) /\ UNCHANGED history
              \/ /\ again
                 /\ \E h \in Histories : history' = h /\ HandTo(r, Downloaded(h, r), FALSE)
    BY DEF Pick
  <1>4. r \in Rows /\ (r # PackRow => r \in ToSet(found.rows)) BY ChoosableAre
  <1> DEFINE marked == IF r = PackRow THEN NoJob ELSE marks[r.link]
  <1>5. r # PackRow => marked = Downloaded(history, r) BY <1>2, <1>4 DEF ToldMarks
  <1>6. r = PackRow => marked = NoJob OBVIOUS
  <1>7. history \in Histories \cup {NotAsked} BY DEF Told
  <1> HIDE DEF marked
  <1>8. ASSUME HandTo(r, marked, marked = NoJob /\ LookedUp), UNCHANGED history
        PROVE  Told'
    <2> DEFINE looked == marked = NoJob /\ LookedUp
    <2>1. looked \in BOOLEAN OBVIOUS
    <2>2. looked /\ call.backend = "nzbdav" /\ r # PackRow
            => history.read /\ Downloaded(history, r) = NoJob
      BY <1>5 DEF LookedUp
    <2>3. HandTo(r, marked, looked) BY <1>8
    <2> HIDE DEF looked
    <2>4. ToldTheTruth'
      <3>1. marked # NoJob => marked = Downloaded(history, r) BY <1>5, <1>6
      <3>2. history' = history BY <1>8
      <3> QED BY <1>1, <1>2, <1>4, <1>6, <1>7, <2>1, <2>2, <2>3, <3>1, <3>2, GivenTrue
    <2> QED BY <1>1, <1>7, <1>8, <2>3, <2>4, HandsOver
  <1>9. ASSUME NEW h \in Histories, r # PackRow, history' = h, HandTo(r, Downloaded(h, r), FALSE)
        PROVE  Told'
    <2>1. ToldTheTruth'
      <3> DEFINE job == Downloaded(h, r)
      <3>1. HandTo(r, job, FALSE) BY <1>9
      <3>2. job = Downloaded(h, r) OBVIOUS
      <3> HIDE DEF job
      <3> QED BY <1>1, <1>2, <1>4, <1>9, <3>1, <3>2, GivenTrue
    <2> QED BY <1>1, <1>9, <2>1, HandsOver
  <1> QED BY <1>3, <1>8, <1>9 DEF marked

LEMMA AutoTells ==
  ASSUME Told, AutoSelect
  PROVE  Told'
  <1>1. /\ stage = "auto" /\ UNCHANGED <<call, cached, found, offered>>
        /\ call.auto /\ offered # <<>>
    BY DEF AutoSelect, Told
  <1>2. offered \in Seq(Rows) /\ DistinctButPack(offered) BY DEF Told, ToldRows
  <1> DEFINE r == Head(offered)
  <1>3. r \in Rows BY <1>1, <1>2, HeadTailProperties
  <1> HIDE DEF r
  <1>4. ASSUME NEW h \in Histories, r # PackRow, history' = h,
               HandTo(r, Downloaded(h, r), call.path = "script" /\ Downloaded(h, r) = NoJob)
        PROVE  Told'
    <2> DEFINE job == Downloaded(h, r)
               looked == call.path = "script" /\ Downloaded(h, r) = NoJob
    <2>1. HandTo(r, job, looked) /\ looked \in BOOLEAN /\ (looked => call.path = "script") BY <1>4
    <2>2. job = Downloaded(h, r) OBVIOUS
    <2> HIDE DEF job, looked
    <2>3. ToldTheTruth' BY <1>1, <1>2, <1>3, <1>4, <2>1, <2>2, GivenTrue
    <2> QED BY <1>1, <1>4, <2>1, <2>3, HandsOver
  <1>5. ASSUME r = PackRow \/ (call.backend # "nzbget" /\ call.path # "script"),
               HandTo(r, NoJob, call.path = "script"), UNCHANGED history
        PROVE  Told'
    <2> DEFINE looked == call.path = "script"
    <2>1. HandTo(r, NoJob, looked) /\ looked \in BOOLEAN /\ (looked => r = PackRow) BY <1>5
    <2> HIDE DEF looked
    <2>2. history' = history /\ history \in Histories \cup {NotAsked} BY <1>5 DEF Told
    <2>3. ToldTheTruth' BY <1>1, <1>2, <1>3, <1>5, <2>1, <2>2, GivenTrue
    <2> QED BY <1>1, <2>1, <2>2, <2>3, HandsOver
  <1> QED BY <1>4, <1>5 DEF AutoSelect, r

LEMMA ToldStep ==
  ASSUME Told, RouteNext \/ UNCHANGED routeVars
  PROVE  Told'
  <1>1. CASE Search BY <1>1, SearchTells
  <1>2. CASE Filter BY <1>2, FilterTells
  <1>3. CASE MarkRows BY <1>3, MarkTells
  <1>4. CASE Pick BY <1>4, PickTells
  <1>5. CASE AutoSelect BY <1>5, AutoTells
  <1>6. ASSUME UNCHANGED <<call, cached, found, offered, history, picked, given>>,
               \/ stage' = stage /\ UNCHANGED marks
               \/ stage' = "search" /\ stage = "start"
               \/ stage' = "stream" /\ stage = "start"
               \/ stage' = "over"
        PROVE  Told'
    <2>1. ToldTheTruth' BY <1>6, TruthStays DEF Told
    <2>2. ToldRows' BY <1>6, RowsStay DEF Told
    <2>3. stage' = stage /\ UNCHANGED marks => (stage' = "pick" => ToldMarks')
      <3> SUFFICES ASSUME stage' = "pick", ToldMarks, UNCHANGED marks PROVE ToldMarks'
        BY <1>6 DEF Told
      <3>1. \A g, x : Downloaded(g, x)' = Downloaded(g, x) BY <1>6, SameDownload
      <3> QED BY <1>6, <3>1 DEF ToldMarks
    <2> QED BY <1>6, <2>1, <2>2, <2>3 DEF Told
  <1>7. CASE Identify BY <1>6, <1>7 DEF Identify, Go
  <1>8. CASE NothingFound BY <1>6, <1>8 DEF NothingFound, Ends, Go
  <1>9. CASE Dismiss BY <1>6, <1>9 DEF Dismiss, Ends, Go
  <1>10. CASE Resolved BY <1>6, <1>10 DEF Resolved, Ends, Go
  <1>11. CASE StreamNzb BY <1>6, <1>11 DEF StreamNzb, Go
  <1>12. CASE OtherRoute BY <1>6, <1>12 DEF OtherRoute, Ends, Go
  <1>13. CASE Raise BY <1>6, <1>13 DEF Raise, Ends, Go
  <1>14. CASE UNCHANGED routeVars BY <1>6, <1>14 DEF routeVars
  <1> QED BY <1>1, <1>2, <1>3, <1>4, <1>5, <1>7, <1>8, <1>9, <1>10, <1>11, <1>12, <1>13, <1>14
          DEF RouteNext, RouteOver

LEMMA ToldFirst == RouteInit => Told
  <1> SUFFICES ASSUME RouteInit PROVE Told OBVIOUS
  <1>1. cached \in Seq(Rows) /\ Distinct(cached)
    <2>1. CASE cached = <<>> BY <2>1 DEF Distinct
    <2>2. ASSUME NEW answer \in Replies, cached = Deduped(<<answer.rows>>)
          PROVE  cached \in Seq(Rows) /\ Distinct(cached)
      <3>1. answer.rows \in Seq(Rows) BY RouteAssumption
      <3>2. <<answer.rows>> \in [1..1 -> Seq(Rows)]
        <4>1. <<answer.rows>> \in Seq(Seq(Rows)) /\ Len(<<answer.rows>>) = 1 BY <3>1
        <4> QED BY <4>1, LenProperties
      <3>3. 1..1 \in SUBSET Nat /\ IsFiniteSet(1..1)
        <4>1. IsFiniteSet({1}) BY FS_Singleton
        <4>2. 1..1 = {1} OBVIOUS
        <4> QED BY <4>1, <4>2
      <3> QED BY <2>2, <3>2, <3>3, DedupedIs
    <2> QED BY <2>1, <2>2 DEF RouteInit, CachedRows
  <1>2. ToldRows BY <1>1 DEF RouteInit, ToldRows, Distinct, DistinctButPack, ToSet
  <1>3. ToldTheTruth BY DEF RouteInit, ToldTheTruth, NotTold
  <1> QED BY <1>2, <1>3 DEF RouteInit, Told, NotTold

\* Whatever the way to a pick - the auto-select setting, a marked row, the script's second
\* look at the history - and whatever the answers, what the resolver is told of downloads,
\* backups and fallbacks is true of the row that was picked (router_play.py,
\* router_scriptplay.py).
THEOREM ToldWhatIsTrue == Init /\ [][Next]_vars => []TellsTheTruth
  <1> DEFINE Inv == topic = "route" => Told
  <1>1. Init => Inv BY ToldFirst DEF Init
  <1>2. Inv /\ [Next]_vars => Inv' BY TopicSteps, ToldStep
  <1>3. Inv => TellsTheTruth BY DEF Told, TellsTheTruth
  <1> QED BY <1>1, <1>2, <1>3, PTL
=================================================================================
