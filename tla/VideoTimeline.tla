---------------------------- MODULE VideoTimeline ----------------------------
(* The timeline of the video editor (VideoTimeline): clips are dragged, split *)
(* and deleted by the mouse and by keys, and the playhead moves. The editor   *)
(* follows the playhead by the events of the timeline (videoBus), and changes *)
(* the project beside it.                                                     *)
(* The picture follows, a state machine of its own.                           *)
EXTENDS Page

Last == 3 \* bound: the last frame of the project
Frames == 0..Last
Edges == {"body", "start", "end"}

\* A clip is on the frames from start to end of a track; a film (not a still) shows the frames
\* of its source from `from' on.
Clip(id, still, start, end) ==
  [id |-> id, still |-> still, start |-> start, end |-> end, from |-> 0, muted |-> FALSE,
   track |-> IF still THEN 1 ELSE 2]

\* `known' is the project that the keys work on, `drag' the one of the drag. `want'
\* are the clips as the user made them, `frame' is the frame the editor knows of.
Init ==
  LET clips == {Clip(1, TRUE, 0, 1), Clip(2, FALSE, 0, 2)}
  IN  view = [gestures |-> 0, calls |-> <<>>, lapses |-> {}, faults |-> 0, open |-> TRUE,
              clips |-> clips, want |-> clips, known |-> clips, selected |-> Null, drag |-> Null,
              playhead |-> 0, frame |-> 0, playing |-> FALSE, reached |-> 0]

Of(clips, id) == {c \in clips : c.id = id}
Others(clips, id) == clips \ Of(clips, id)

\* --- Changes beside the timeline: in the inspector, or by an asset that has been
\* read, which may come while a clip is dragged. The keys do not see them.
new == view.gestures + 1

Insert(track, start) ==
  LET c == [Clip(10 + new, TRUE, start, start + 1) EXCEPT !.track = track]
  IN  Gesture([view EXCEPT !.clips = @ \union {c}, !.want = @ \union {c}])

AssetRead == Insert(2, view.frame)

DropAsset == view.drag = Null /\ \E f \in Frames, t \in {2, 3} : Insert(t, f)

\* The lane of a track goes with its clips; the selection stays.
DeleteTrack ==
  /\ view.drag = Null
  /\ \E t \in {c.track : c \in view.clips} :
       LET rest(clips) == {c \in clips : c.track # t}
       IN  Gesture([view EXCEPT !.clips = rest(@), !.want = rest(@)])

\* A track is muted or played alone: its clips are. (A track without clips is left
\* out.)
ToggleTrack ==
  /\ view.drag = Null
  /\ \E t \in {c.track : c \in view.clips} :
       LET toggled(clips) == {IF c.track = t THEN [c EXCEPT !.muted = ~@] ELSE c : c \in clips}
       IN  Gesture([view EXCEPT !.clips = toggled(@), !.want = toggled(@)])

\* --- The mouse. Pressing a clip selects it: when it was not selected, the keys
\* learn the project.
Press ==
  /\ view.drag = Null
  /\ \E c \in view.clips, edge \in Edges :
       Gesture([view EXCEPT !.selected = c.id, !.known = IF view.selected = c.id THEN @ ELSE view.clips,
                            !.drag = [clip |-> c, edge |-> edge, clips |-> view.clips]])

\* To where the mouse is: the start or the end stays before or after the other.
Moved(drag, f) ==
  LET c == drag.clip
  IN  IF drag.edge = "body" THEN [c EXCEPT !.start = f, !.end = f + (c.end - c.start)]
      ELSE IF drag.edge = "start" THEN [c EXCEPT !.start = IF f < c.end THEN f ELSE c.end - 1]
      ELSE [c EXCEPT !.end = IF f > c.start THEN f ELSE c.start + 1]

\* The clip is moved in the project of the press: what came since is lost (`since').
Move ==
  /\ view.drag # Null
  /\ \E f \in Frames :
       LET id == view.drag.clip.id
           moved == Moved(view.drag, f)
           since == IF Others(view.clips, id) # Others(view.drag.clips, id) \/ Of(view.clips, id) = {}
                    THEN {"since"} ELSE {}
       IN  Gesture(Lapse([view EXCEPT
                            !.clips = Others(view.drag.clips, id) \union {moved},
                            !.want = Others(@, id) \union (IF Of(@, id) = {} THEN {} ELSE {moved})], since))

Release == view.drag # Null /\ view' = [view EXCEPT !.drag = Null]

\* --- Deleting and splitting, by a button in the project that is shown, by a key in
\* the one the keys know (`stale').
Stale(base) == IF base # view.clips THEN {"stale"} ELSE {}
Bases == {view.known} \union (IF view.drag = Null THEN {view.clips} ELSE {})

Cut(clips, want) ==
  [view EXCEPT !.clips = clips, !.want = want, !.selected = Null, !.known = clips]

Delete ==
  /\ view.selected # Null
  /\ \E base \in Bases :
       Gesture(Lapse(Cut(Others(base, view.selected), Others(view.want, view.selected)), Stale(base)))

\* Both halves of a clip, at a frame inside of it but for its last.
Halves(c, frame, from) ==
  {[c EXCEPT !.id = 100 + new, !.end = frame - 1], [c EXCEPT !.id = 200 + new, !.start = frame, !.from = from]}

Splits(clips, frame) ==
  {c \in Of(clips, view.selected) : c.start < frame /\ frame < c.end}

\* The second half of a film starts with the frames the first one starts with
\* (`split').
Split ==
  /\ view.selected # Null
  /\ \E base \in Bases :
       /\ Splits(base, view.playhead) # {}
       /\ LET c == CHOOSE d \in Splits(base, view.playhead) : TRUE
              d == Of(view.want, view.selected)
              rest(clips) == Others(clips, view.selected)
              from == IF c.still THEN c.from ELSE c.from + (view.playhead - c.start)
          IN  Gesture(Lapse(Cut(rest(base) \union Halves(c, view.playhead, c.from),
                                rest(view.want) \union (IF d = {} THEN {} ELSE Halves(c, view.playhead, from))),
                            Stale(base) \union (IF c.still THEN {} ELSE {"split"})))

\* --- The playhead.

At(v, f) == [v EXCEPT !.playhead = f, !.frame = f]

\* A click on the ruler or on a lane, or an arrow key. Playing goes on where it was
\* (`playing').
Seek ==
  \E f \in Frames : Gesture(Lapse(At(view, f), IF view.playing THEN {"playing"} ELSE {}))

Play == Gesture([view EXCEPT !.playing = ~@, !.reached = IF view.playing THEN @ ELSE view.playhead])

Stop == Gesture([At(view, 0) EXCEPT !.playing = FALSE])

\* A frame or several later. That it goes back to the start in the end is not told
\* to the editor (`ended').
Tick ==
  /\ view.playing
  /\ \E n \in 1..Last + 1 :
       LET reached == view.reached + n
       IN  view' = IF reached > Last
                   THEN Lapse([view EXCEPT !.playhead = 0, !.playing = FALSE], {"ended"})
                   ELSE [At(view, reached) EXCEPT !.reached = reached]

\* The hub is shown, and another timeline after it; the editor stays where it was
\* (`hub').
Remount ==
  /\ view.drag = Null
  /\ Gesture(Lapse([view EXCEPT !.playhead = 0, !.playing = FALSE, !.selected = Null, !.known = view.clips],
                   IF view.frame # 0 THEN {"hub"} ELSE {}))

Next ==
  \/ AssetRead \/ DropAsset \/ DeleteTrack \/ ToggleTrack \/ Press \/ Move \/ Release \/ Delete \/ Split
  \/ Seek \/ Play \/ Stop \/ Tick \/ Remount

\* --- Properties.

\* The clips are those the user put where they are, and each keeps its frames: a key
\* or a drag brings nothing back and takes nothing else away.
CutAsMade ==
  view.lapses = {} =>
    /\ view.clips = view.want
    /\ \A c, d \in view.clips : c.start <= c.end /\ (c.id = d.id => c = d)

\* The editor shows the frame the playhead is at, and playing goes on from there.
FrameShown ==
  view.lapses = {} =>
    /\ view.frame = view.playhead
    /\ view.playing => view.reached = view.playhead

-----------------------------------------------------------------------------
(* The picture of the video editor (VideoPreview): the compositor is made     *)
(* when it is mounted, a frame is drawn at the next animation frame after a   *)
(* change, and the textures of the clips are loaded when they are first drawn *)
(* (SceneCompositor).                                                         *)

Clips == {1, 2}
PreviewFrames == {1, 2}

\* The clips of the project with the frames they are on, and whether they have a
\* thumbnail. The first is on both frames, the second on the last.
On(c) == IF c = 1 THEN PreviewFrames ELSE {2}

\* A mesh of the pool knows the texture it has asked for and the one it shows; its
\* number tells it from an earlier one of the same clip. `size' is of what the
\* renderer draws, the project's or the page's.
PreviewInit ==
  view = [gestures |-> 0, calls |-> <<<<[op |-> "init"]>>>>, lapses |-> {}, faults |-> 0, open |-> TRUE,
          clips |-> Clips, urls |-> {1}, frame |-> 1, ready |-> FALSE, broken |-> FALSE, due |-> FALSE,
          renderer |-> FALSE, pool |-> {}, meshes |-> 0, cache |-> {}, visible |-> {}]

\* --- Drawing a frame: the meshes of clips that are gone are disposed, those of the
\* frame are shown, made if need be, and get the texture of their clip, from the
\* cache or later.

Mesh(v, c) == CHOOSE m \in v.pool : m.clip = c
Has(v, c) == \E m \in v.pool : m.clip = c

Kept(v) == [v EXCEPT !.pool = {m \in @ : m.clip \in v.clips}, !.visible = {}, !.due = FALSE]

Made(v, c) ==
  IF Has(v, c) THEN v
  ELSE [v EXCEPT !.pool = @ \union {[clip |-> c, no |-> v.meshes + 1, asked |-> FALSE, shows |-> FALSE]},
                 !.meshes = @ + 1]

Textured(v, c) ==
  LET m == Mesh(v, c)
      w == [v EXCEPT !.pool = (@ \ {m}) \union {[m EXCEPT !.asked = TRUE, !.shows = @ \/ c \in v.cache]}]
  IN  IF c \notin v.urls \/ m.asked THEN v
      ELSE IF c \in v.cache THEN w
      ELSE Ask(w, <<[op |-> "texture", clip |-> c, no |-> m.no]>>)

Drawn(v, c) ==
  IF c \in v.clips /\ v.frame \in On(c)
  THEN LET w == Textured(Made(v, c), c) IN [w EXCEPT !.visible = @ \union {c}]
  ELSE v

Render(v) == IF v.renderer THEN Drawn(Drawn(Kept(v), 1), 2) ELSE [v EXCEPT !.due = FALSE]

\* --- The page. What changes cancels the frame that is due and makes another.

Changed(v) == Gesture([v EXCEPT !.due = v.ready])

Scrub == \E f \in PreviewFrames \ {view.frame} : Changed([view EXCEPT !.frame = f])

Remove == \E c \in view.clips : Changed([view EXCEPT !.clips = @ \ {c}])

\* A clip comes back, as an edit of a former project brings it.
Restore == \E c \in Clips \ view.clips : Changed([view EXCEPT !.clips = @ \union {c}])

Thumbnail == \E c \in Clips \ view.urls : Changed([view EXCEPT !.urls = @ \union {c}])

FrameDue == view.open /\ view.due /\ view' = Render(view)

\* The page is resized: what is shown is drawn at once, the frame that is due again.
Resize == Gesture(IF view.ready THEN [Render(view) EXCEPT !.due = view.due] ELSE view)

\* --- The graphics processor answers in any order.

Landed(i) == [view EXCEPT !.calls = SubSeq(@, 1, i - 1) \o SubSeq(@, i + 1, Len(@))]

\* A compositor that has been disposed is made all the same (`left').
Ready ==
  \E i \in DOMAIN view.calls :
    /\ view.calls[i][1].op = "init"
    /\ \/ view' = [Landed(i) EXCEPT !.renderer = TRUE, !.ready = view.open, !.due = view.open]
       \/ view' = [Landed(i) EXCEPT !.broken = TRUE]

\* A texture that could not be loaded is not asked for again (`failed').
Loaded ==
  \E i \in DOMAIN view.calls :
    LET c == view.calls[i][1]
    IN  /\ c.op = "texture"
        /\ \/ view' = [Landed(i) EXCEPT !.cache = @ \union {c.clip},
                         !.pool = {IF m.no = c.no THEN [m EXCEPT !.shows = TRUE] ELSE m : m \in @}]
           \/ view.faults < MaxFaults /\ view' = Lapse([Landed(i) EXCEPT !.faults = @ + 1], {"failed"})

\* What is still being made or loaded comes after it (`left').
Close ==
  Gesture(Lapse([view EXCEPT !.open = FALSE, !.due = FALSE, !.pool = {}, !.cache = {}, !.visible = {},
                             !.renderer = FALSE],
                IF view.calls # <<>> THEN {"left"} ELSE {}))

PreviewNext ==
  \/ Scrub \/ Remove \/ Restore \/ Thumbnail \/ FrameDue \/ Resize \/ Ready \/ Loaded \/ Close

\* --- Properties.

\* When nothing is due or being loaded, the picture is of the clips of the frame,
\* each with its thumbnail; the compositor keeps nothing of clips that are gone, and
\* nothing at all when it is closed.
PictureShown ==
  view.lapses = {} =>
    /\ view.open /\ view.ready /\ ~view.due /\ view.calls = <<>> =>
         /\ view.visible = {c \in view.clips : view.frame \in On(c)}
         /\ \A c \in view.visible : Has(view, c) /\ (c \in view.urls => Mesh(view, c).shows)
         /\ {m.clip : m \in view.pool} \subseteq view.clips
    /\ \A m, n \in view.pool : m.clip = n.clip => m = n
    /\ ~view.open => ~view.renderer /\ view.cache = {} /\ view.pool = {}
=============================================================================
