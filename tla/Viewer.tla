------------------------------- MODULE Viewer -------------------------------
(* The viewer of the dashboard: what it loads for the file it shows, and the  *)
(* commands that work on that file or show what they made of it               *)
(* (DocumentViewer).                                                          *)
(* The players follow, a state machine of their own.                          *)
EXTENDS Page

\* A file: its kind and its name.
Files == {<<"image", "a">>, <<"svg", "b">>, <<"audio", "c">>, <<"archive", "d">>}

Commands == {"import", "index", "ocr", "rectify", "pdf", "svg", "gltf"}

\* The file a command makes of f.
Product(op, f) ==
  CASE op = "import" -> <<f[1], "kept">>
    [] op = "rectify" -> <<"image", "made">>
    [] op \in {"pdf", "svg"} -> <<op, "made">>

Init ==
  \E d \in {"in", "out"} :
    view = [gestures |-> 0, calls |-> <<>>, lapses |-> {}, faults |-> 0, open |-> TRUE,
            s |-> [initialState EXCEPT !.zone = "z", !.path = d, !.entries = d],
            busy |-> {}, quality |-> Null, size |-> Null,
            markup |-> Null, broken |-> FALSE, fetch |-> Null]

\* Another file is shown: a drawing is fetched, which ends the fetch before it;
\* the size of a sound and the metadata are asked for.
Viewed(v) ==
  LET p == v.s.vpath
      v1 == [v EXCEPT !.quality = Null, !.size = Null, !.markup = Null, !.broken = FALSE,
                      !.fetch = IF p # Null /\ p[1] = "svg" THEN p ELSE Null]
      v2 == IF p # Null /\ p[1] = "audio" THEN Ask(v1, <<[op |-> "size", path |-> p]>>) ELSE v1
  IN  IF p = view.s.vpath THEN v
      ELSE IF p = Null THEN v1
      ELSE Ask(v2, <<[op |-> "meta", path |-> p, keep |-> FALSE]>>)

\* The dashboard reads the text of the file that is selected. One that is
\* selected already is emptied and not read again (`again').
Select ==
  \E f \in Files :
    LET v == Viewed([view EXCEPT !.s = SelectFile(@, f)])
    IN  Gesture(IF f = view.s.sel THEN Lapse(v, {"again"})
                ELSE Ask([v EXCEPT !.s = SetViewer(@, f, Null)], <<[op |-> "text", path |-> f]>>))

TextRead ==
  \E c \in Served({"text"}) :
    \/ Answer(TRUE, Viewed([view EXCEPT !.s = SetViewer(@, c.path, c.path)]))
    \/ Answer(FALSE, Lapse(view, {"unread"}))

\* After an index a failure leaves the metadata as they are.
MetaRead ==
  \E c \in Served({"meta"}), ok \in BOOLEAN :
    Answer(ok, Lapse([view EXCEPT !.s.meta = IF ok THEN c.path ELSE IF c.keep THEN @ ELSE Null],
                     IF ok THEN {} ELSE {"unread"}))

SizeRead ==
  \E c \in Served({"size"}) :
    Answer(TRUE, [view EXCEPT !.size = c.path]) \/ Answer(FALSE, Lapse(view, {"unread"}))

Fetched ==
  /\ view.fetch # Null
  /\ \/ view' = [view EXCEPT !.markup = view.fetch, !.fetch = Null]
     \/ view' = [view EXCEPT !.broken = TRUE, !.fetch = Null]

\* The message of a failure is put away, and nothing fetched again (`retry').
RetryDrawing ==
  view.broken /\ Gesture(Lapse([view EXCEPT !.broken = FALSE, !.markup = Null], {"retry"}))

\* --- Commands.

\* Import and index work on the file that is selected, the others on the file
\* that is shown, which may be a product of it (`original').
Target(op) == IF op \in {"import", "index"} THEN view.s.sel ELSE view.s.vpath

Kind == IF view.s.vpath = Null THEN Null ELSE view.s.vpath[1]

\* The button of an archive is not blocked while it is being indexed (`twice').
Offered(op) ==
  CASE op = "import" -> view.s.path = "in" /\ "import" \notin view.busy
    [] op = "index" -> /\ Kind # "image"
                       /\ \/ view.s.path = "out" /\ view.busy \intersect {"index", "ocr"} = {}
                          \/ Kind = "archive"
    [] OTHER -> Kind = "image" /\ op \notin view.busy

Command ==
  \E op \in Commands :
    /\ Target(op) # Null /\ Offered(op)
    /\ Gesture(Ask(Lapse([view EXCEPT !.busy = @ \union {op}],
                         (IF op \in view.busy THEN {"twice"} ELSE {})
                         \union (IF Target(op) # view.s.vpath THEN {"original"} ELSE {})),
                   <<[op |-> op, path |-> Target(op)]>>))

Scan(d) == <<[op |-> "scan", path |-> d]>>

Meta(f, keep) == <<[op |-> "meta", path |-> f, keep |-> keep]>>

\* What the page becomes with the answer to a command, and what it asks next.
Taken(v, c) ==
  CASE c.op = "index" -> v
    [] c.op = "ocr" -> [v EXCEPT !.quality = c.path, !.s.content = c.path]
    [] c.op = "gltf" -> v
    [] OTHER -> Viewed([v EXCEPT !.s = SetViewerPath(@, Product(c.op, c.path))])

After(v, c) ==
  CASE c.op = "import" -> Scan("out")
    [] c.op = "index" -> Meta(c.path, TRUE)
    [] c.op = "ocr" -> Meta(c.path, FALSE) \o (IF v.s.path = "out" THEN Scan("out") ELSE <<>>)
    [] OTHER -> Scan(v.s.path)

\* The answer is taken for the file that is shown by then (`moved').
Done ==
  \E c \in Served(Commands) :
    LET v == [view EXCEPT !.busy = @ \ {c.op}]
        moved == IF c.path # view.s.vpath THEN {"moved"} ELSE {}
    IN  \/ AnswerThen(TRUE, Lapse(Taken(v, c), moved), After(v, c))
        \/ Answer(FALSE, [v EXCEPT !.s.error = TRUE])

Scanned ==
  \E c \in Served({"scan"}) :
    Answer(TRUE, [view EXCEPT !.s.entries = c.path]) \/ Answer(FALSE, view)

Next ==
  \/ Select \/ TextRead \/ MetaRead \/ SizeRead \/ Fetched \/ RetryDrawing
  \/ Command \/ Done \/ Scanned

\* --- Properties.

\* When nothing is in flight, the viewer shows of its file its metadata, its
\* drawing or its failure, and nothing of another file.
FileShown ==
  view.calls = <<>> /\ view.fetch = Null /\ view.lapses = {} /\ view.s.vpath # Null =>
    LET p == view.s.vpath
    IN  /\ view.s.meta = p
        /\ view.s.content \in {Null, p} /\ view.quality \in {Null, p}
        /\ p[1] = "audio" => view.size = p
        /\ p[1] = "svg" => view.broken \/ view.markup = p

\* A command is shown as running exactly while it is.
CommandsBusy ==
  view.lapses = {} => \A op \in Commands : op \in view.busy <=> Waits(LAMBDA c : c.op = op)

-----------------------------------------------------------------------------
(* What the viewer shows or plays by itself: a sound                          *)
(* (useAudioPlaybackWithVisualization), a video (VideoPlayer), a model in     *)
(* space (ThreeDViewer). The files come over the local scheme, not from the   *)
(* host's bindings, in any order.                                             *)

MediaFiles == {"f", "g"}
Kinds == {"sound", "video", "model"}

\* A viewer is mounted for a kind of file; each has its own state.
MediaInit ==
  \E kind \in Kinds :
    view = [gestures |-> 0, calls |-> <<>>, lapses |-> {}, faults |-> 0, open |-> TRUE,
            kind |-> kind, file |-> "f",
            loads |-> IF kind = "model" THEN {[id |-> 0, file |-> "f"]} ELSE {},
            loading |-> kind = "model", error |-> FALSE,
            on |-> FALSE,                                  \* playing is shown
            sounding |-> {}, source |-> Null,              \* sounds, and the one that stop() knows
            ending |-> {},                                 \* stopped, and not yet told of
            element |-> [file |-> "f", paused |-> TRUE, broken |-> FALSE], events |-> <<>>,
            scene |-> {}, object |-> Null, info |-> Null, wired |-> FALSE, wires |-> {}]

Of(kind) == view.kind = kind

\* A load ends well, becoming v, or not, becoming w.
Loaded(l, v, w) ==
  \/ view' = [v EXCEPT !.loads = @ \ {l}]
  \/ view.faults < MaxFaults /\ view' = [w EXCEPT !.loads = @ \ {l}, !.faults = @ + 1]

\* --- The sound.

Silenced(v) ==
  [v EXCEPT !.sounding = @ \ {v.source}, !.ending = @ \union (v.sounding \intersect {v.source})]

Stopped(v) == [Silenced(v) EXCEPT !.source = Null, !.on = FALSE, !.loading = FALSE]

\* A load goes on after a stop (`loading').
Stop == view.on /\ Gesture(Stopped(view))

SelectSound ==
  Gesture(Lapse([Stopped(view) EXCEPT !.file = CHOOSE f \in MediaFiles : f # view.file],
                IF view.loading THEN {"loading"} ELSE {}))

Play ==
  /\ ~view.on /\ ~view.loading
  /\ Gesture([Silenced(view) EXCEPT !.loading = TRUE,
                          !.loads = @ \union {[id |-> view.gestures, file |-> view.file]}])

SoundLoaded ==
  \E l \in view.loads :
    Loaded(l, [view EXCEPT !.sounding = @ \union {l}, !.source = l, !.on = TRUE, !.loading = FALSE],
              [view EXCEPT !.on = FALSE, !.loading = FALSE])

\* The end of any sound, also of one that was stopped, is taken for the end of
\* the one that is shown (`ended').
SoundEnds ==
  \E l \in view.sounding \union view.ending :
    view' = Lapse([view EXCEPT !.sounding = @ \ {l}, !.ending = @ \ {l}, !.on = FALSE],
                  IF l \in view.ending /\ view.sounding # {} THEN {"ended"} ELSE {})

\* --- The video. The element tells of what it does by events, which a load of
\* another file removes.

Element(v, e, event) == [v EXCEPT !.element = e, !.events = Append(@, event)]

SelectVideo ==
  LET f == CHOOSE f \in MediaFiles : f # view.file
  IN  Gesture([view EXCEPT !.file = f, !.on = FALSE, !.error = FALSE, !.events = <<>>,
                           !.element = [file |-> f, paused |-> TRUE, broken |-> FALSE]])

TogglePlay ==
  Gesture(IF view.element.paused
          THEN Element(view, [view.element EXCEPT !.paused = FALSE], "play")
          ELSE Element(view, [view.element EXCEPT !.paused = TRUE], "pause"))

\* A file that cannot be played, or the end of one.
VideoFails ==
  /\ view.faults < MaxFaults /\ ~view.element.broken
  /\ view' = [Element(view, [view.element EXCEPT !.broken = TRUE], "error") EXCEPT !.faults = @ + 1]

VideoEnds ==
  /\ ~view.element.paused /\ ~view.element.broken
  /\ view' = Element(view, [view.element EXCEPT !.paused = TRUE], "pause")

Retry ==
  view.error /\ Gesture([view EXCEPT !.error = FALSE, !.events = <<"play">>,
                                     !.element = [@ EXCEPT !.paused = FALSE, !.broken = FALSE]])

EventTaken ==
  /\ view.events # <<>>
  /\ view' = [view EXCEPT !.events = Tail(@),
                !.on = Head(view.events) = "play",
                !.error = @ \/ Head(view.events) = "error"]

\* --- The model.

\* The scene is taken down and built anew; that the one before was left is
\* forgotten as soon as there is another, so that a load of before is still taken
\* (`late').
SelectModel ==
  LET f == CHOOSE f \in MediaFiles : f # view.file
  IN  Gesture(Lapse([view EXCEPT !.file = f, !.loads = @ \union {[id |-> view.gestures + 1, file |-> f]},
                       !.loading = TRUE, !.error = FALSE, !.scene = {}, !.object = Null,
                       !.info = Null, !.wired = FALSE, !.wires = {}],
                    IF view.loads = {} THEN {} ELSE {"late"}))

ModelLoaded ==
  \E l \in view.loads :
    Loaded(l, [view EXCEPT !.loading = FALSE, !.info = l.file, !.object = l.file,
                 !.scene = IF l.file = view.file THEN {l.file} ELSE @],
              [view EXCEPT !.loading = FALSE, !.error = TRUE])

\* The controls work on the model that was loaded last.
Wire ==
  /\ ~view.loading /\ ~view.error
  /\ Gesture([view EXCEPT !.wired = ~@, !.wires = IF view.wired THEN {} ELSE {view.object}])

MediaNext ==
  \/ Of("sound") /\ (Stop \/ SelectSound \/ Play \/ SoundLoaded \/ SoundEnds)
  \/ Of("video") /\ (SelectVideo \/ TogglePlay \/ VideoFails \/ VideoEnds \/ Retry \/ EventTaken)
  \/ Of("model") /\ (SelectModel \/ ModelLoaded \/ Wire)

\* --- Properties.

\* The sound that is heard is the one that is shown as playing and that Stop
\* stops; the buttons of a video say what it does; the model in the scene is the
\* file, with its own data and in the form the controls show.
PlayedIsShown ==
  view.lapses = {} =>
    /\ Of("sound") =>
         /\ view.sounding \subseteq {view.source} /\ (view.on <=> view.sounding # {})
         /\ \A l \in view.sounding : l.file = view.file
         /\ view.loading <=> view.loads # {}
    /\ Of("video") /\ view.events = <<>> =>
         /\ view.error <=> view.element.broken
         /\ ~view.error => (view.on <=> ~view.element.paused)
    /\ Of("model") =>
         /\ view.loading <=> view.loads # {}
         /\ ~view.loading /\ ~view.error =>
              /\ view.scene = {view.file} /\ view.info = view.file
              /\ view.wires = IF view.wired THEN {view.file} ELSE {}
=============================================================================
