-------------------------------- MODULE Desk --------------------------------
(* The desk of the dashboard: the zone menu, the browser of the zone's        *)
(* directories, the search, and the viewer of the file that is selected       *)
(* (Dashboard, FileBrowser, SearchBar, SearchResults over the store).         *)
(* The import of picked files follows, a state machine of its own.            *)
EXTENDS Page

Dirs == {"in", "out", "notes"}
Files == {"f", "g", "h"}
DirOf == [f |-> "in", g |-> "in", h |-> "out"]
FilesIn(d) == {f \in Files : DirOf[f] = d}
Zone == "z"

Init ==
  view = [gestures |-> 0, calls |-> <<>>, lapses |-> {}, faults |-> 0, open |-> TRUE,
          s |-> initialState, loading |-> FALSE, center |-> "default",
          hostZone |-> Null, job |-> FALSE]

\* --- What follows a change of the store.

\* The list of files loads a directory; the store is given its path once more.
Navigate(v, d) ==
  Ask([v EXCEPT !.s = SetPath(@, d), !.loading = TRUE], <<[op |-> "scan", path |-> d]>>)

\* A selection is followed by the statistics, the text and the metadata of the
\* file; nothing stops these when another file is selected.
Follow(v, f) ==
  Ask([v EXCEPT !.s = SetViewer(@, f, Null), !.center = "default"],
      <<[op |-> "stats", path |-> f], [op |-> "text", path |-> f], [op |-> "meta", path |-> f]>>)

InView(v) == v.center = "default" /\ (v.s.sel # Null \/ v.s.dir = Null)

\* The effects of the parts of the dashboard after they are rendered with the
\* store of v: the list first, then the viewer, then the dashboard.
Effects(v) ==
  LET s == v.s
      old == view.s
      listed == IF s.path \notin {Null, old.path} THEN Navigate(v, s.path) ELSE v
      viewed == IF s.vpath \notin {Null, old.vpath} /\ InView(v)
                THEN Ask(listed, <<[op |-> "meta", path |-> s.vpath]>>) ELSE listed
      zoned == IF s.zone = old.zone THEN viewed
               ELSE [viewed EXCEPT !.center = IF s.zone = Null THEN "default" ELSE "zone"]
  IN  IF s.sel \notin {Null, old.sel} THEN Follow(zoned, s.sel) ELSE zoned

\* What was asked for a file that is no longer selected still comes (`left').
Leaving(s) ==
  IF s.sel = Null /\ Waits(LAMBDA c : c.op \in {"stats", "text", "meta"}) THEN {"left"} ELSE {}

Become(v, s) == Effects(Lapse([v EXCEPT !.s = s], Leaving(s)))

\* --- The list of files.

Listed == IF view.loading \/ view.s.error \/ view.s.entries = Null THEN {}
          ELSE FilesIn(view.s.entries)

\* A directory of the list or of the path above it, or a tab of the zone.
OpenDir ==
  \E d \in Dirs : Gesture(Become(Navigate(view, d), SetPath(view.s, d)))

Scanned ==
  \E c \in Served({"scan"}) :
    \/ Answer(TRUE, [view EXCEPT !.loading = FALSE, !.s.entries = c.path])
    \/ Answer(FALSE, Lapse([view EXCEPT !.loading = FALSE, !.s.error = TRUE], {"unlisted"}))

\* The answer to another listing that the page asked for: an error is ignored.
Rescanned ==
  \E c \in Served({"rescan"}) :
    Answer(TRUE, [view EXCEPT !.s.entries = c.path]) \/ Answer(FALSE, view)

\* A file is clicked. One that is selected already loses what was shown of it,
\* and nothing asks for it again (`again').
Click ==
  \E f \in Listed :
    Gesture(Become(IF f = view.s.sel THEN Lapse(view, {"again"}) ELSE view, SelectFile(view.s, f)))

\* The end of a transfer into the directory that is listed.
Transferred ==
  view.s.path # Null /\ Gesture(Ask(view, <<[op |-> "rescan", path |-> view.s.path]>>))

\* The notes: their directory is made, if need be, before it is opened.
OpenNotes ==
  view.s.zone # Null /\ Gesture(Ask(view, <<[op |-> "mkdir"]>>))

NotesMade ==
  \E c \in Served({"mkdir"}), ok \in BOOLEAN :
    AnswerThen(ok, Become(Navigate(view, "notes"), SetPath(view.s, "notes")), <<>>)

\* --- Indexing.

\* The button is blocked while a job is known to run.
BulkIndex ==
  /\ view.s.zone # Null /\ view.s.path # Null /\ ~view.s.indexing
  /\ Gesture(Ask([view EXCEPT !.s.indexing = TRUE], <<[op |-> "index"]>>))

\* A job that is refused is never over for the page (`refused').
IndexAnswered ==
  \E c \in Served({"index"}) :
    \/ Answer(TRUE, [view EXCEPT !.job = TRUE])
    \/ Answer(FALSE, Lapse([view EXCEPT !.s.error = TRUE], {"refused"}))

JobEnds == view.job /\ view' = [view EXCEPT !.job = FALSE, !.s.indexing = FALSE]

\* --- The viewer.

StatsRead ==
  \E c \in Served({"stats"}) :
    Answer(TRUE, [view EXCEPT !.s.stats = c.path]) \/ Answer(FALSE, Lapse(view, {"unread"}))

TextRead ==
  \E c \in Served({"text"}) :
    \/ Answer(TRUE, Effects([view EXCEPT !.s = SetViewer(@, c.path, c.path)]))
    \/ Answer(FALSE, Lapse(view, {"unread"}))

MetaRead ==
  \E c \in Served({"meta"}), ok \in BOOLEAN :
    Answer(ok, Lapse([view EXCEPT !.s.meta = IF ok THEN c.path ELSE Null],
                     IF ok THEN {} ELSE {"unread"}))

\* --- The zone menu.

Activate ==
  view.s.zone = Null /\ Gesture(Ask(view, <<[op |-> "openzone"]>>))

\* The list is emptied, and loaded only if the directory changes (`sameplace').
ZoneOpened ==
  \E c \in Served({"openzone"}) :
    \/ Answer(TRUE, Become(Lapse([view EXCEPT !.hostZone = Zone],
                                IF view.s.path = "in" THEN {"sameplace"} ELSE {}),
                          SetZone(view.s, Zone, "in")))
    \/ Answer(FALSE, [view EXCEPT !.s.error = TRUE])

\* The host is not told that the zone is left (`adrift').
LeaveZone ==
  /\ view.s.zone # Null
  /\ Gesture(Become(Lapse(view, {"adrift"}), SetZone(view.s, Null, Null)))

\* --- Search.

Search ==
  Gesture(Ask([view EXCEPT !.s.searching = TRUE],
              <<[op |-> "search"]>>))

\* The first answer ends the waiting for all searches (`several').
SearchAnswered ==
  \E c \in Served({"search"}), ok \in BOOLEAN :
    Answer(ok, Lapse([view EXCEPT !.s.searching = FALSE, !.s.results = IF ok THEN Files ELSE {}],
                     IF Cardinality({i \in DOMAIN view.calls : view.calls[i][1].op = "search"}) > 1
                     THEN {"several"} ELSE {}))

\* Closing the results is not a cancel (`several').
Closed(s) == [s EXCEPT !.results = Null, !.searching = FALSE]

CloseSearch ==
  /\ view.s.searching \/ view.s.results # Null
  /\ Gesture(Lapse([view EXCEPT !.s = Closed(@)], IF view.s.searching THEN {"several"} ELSE {}))

\* The directory of a result is opened and the result selected, both at once: a
\* directory that was not shown is navigated to after that, which ends the
\* selection again (`elsewhere').
SelectResult ==
  /\ view.s.results # Null /\ ~view.s.searching
  /\ \E f \in view.s.results :
       Gesture(Become(Lapse(view, (IF DirOf[f] # view.s.path THEN {"elsewhere"} ELSE {})
                                  \union (IF f = view.s.sel THEN {"again"} ELSE {})),
                      SelectFile(SetPath(Closed(view.s), DirOf[f]), f)))

\* --- The center of the page.

\* The dashboards, the bookmarks, or the tab of the desk are chosen over a file
\* that is selected (`over').
OpenCenter ==
  \E c \in {"zone", "bookmarks", "workflows"} :
    Gesture(Lapse([view EXCEPT !.center = c], IF view.s.sel = Null THEN {} ELSE {"over"}))

CloseCenter == view.center # "default" /\ Gesture([view EXCEPT !.center = "default"])

\* A directory or a file is chosen in one of them.
GoDir ==
  /\ view.center \in {"zone", "bookmarks"}
  /\ \E d \in Dirs :
       Gesture(Ask(Become([view EXCEPT !.center = "default"], SetPath(view.s, d)),
                   <<[op |-> "rescan", path |-> d]>>))

GoFile ==
  /\ view.center \in {"zone", "bookmarks"}
  /\ \E f \in Files :
       Gesture(Become([IF f = view.s.sel THEN Lapse(view, {"again"}) ELSE view
                         EXCEPT !.center = "default"], SelectFile(view.s, f)))

DismissError == view.s.error /\ Gesture([view EXCEPT !.s.error = FALSE])

Next ==
  \/ OpenDir \/ Scanned \/ Rescanned \/ Click \/ Transferred \/ OpenNotes \/ NotesMade
  \/ BulkIndex \/ IndexAnswered \/ JobEnds \/ StatsRead \/ TextRead \/ MetaRead
  \/ Activate \/ ZoneOpened \/ LeaveZone \/ Search \/ SearchAnswered \/ CloseSearch \/ SelectResult
  \/ OpenCenter \/ CloseCenter \/ GoDir \/ GoFile \/ DismissError

\* --- Properties.

\* When nothing is in flight, the viewer shows the file that is selected and
\* nothing else, the list shows the directory of the path, and the zone of the
\* page is the one the host works in.
SelectionShown ==
  view.calls = <<>> /\ view.lapses = {} =>
    LET s == view.s
    IN  /\ {s.vpath, s.content, s.meta, s.stats} = {s.sel}
        /\ s.entries = s.path
        /\ s.zone = view.hostZone
        /\ s.sel # Null => view.center = "default"

\* The page says it is indexing, listing or searching exactly while it is.
Busy ==
  view.lapses \intersect {"refused", "several"} = {} =>
    /\ view.s.indexing <=> view.job \/ Waits(LAMBDA c : c.op = "index")
    /\ view.s.searching <=> Waits(LAMBDA c : c.op = "search")

-----------------------------------------------------------------------------
(* Files are picked and imported into a zone, one after the other, each with  *)
(* a dialog of its own (ImportSelectBox, ImportModal).                        *)

ImportFiles == {"a", "b", "c"}
Picks == {<<"a">>, <<"b", "c">>}
ImportDirs == {"p", "q"}

ImportInit ==
  view = [gestures |-> 0, calls |-> <<>>, lapses |-> {}, faults |-> 0, open |-> TRUE,
          picking |-> FALSE, queue |-> <<>>, file |-> Null, running |-> FALSE, dialog |-> 0,
          path |-> "p", entries |-> "p", picked |-> {}, skipped |-> {}, imported |-> {}]

\* The next file of the queue gets a dialog.
Shown(v) ==
  IF v.file = Null /\ v.queue # <<>>
  THEN [v EXCEPT !.file = Head(v.queue), !.queue = Tail(@), !.running = FALSE, !.dialog = @ + 1]
  ELSE v

\* The zones are read, then the files picked in a dialog of the system.
OpenPicker ==
  ~view.picking /\ Gesture(Ask([view EXCEPT !.picking = TRUE], <<[op |-> "zones"], [op |-> "pick"]>>))

ZonesRead == \E c \in Served({"zones"}) : Answer(TRUE, view) \/ Answer(FALSE, view)

\* ImportFiles that are still waiting are replaced (`replaced').
Picked ==
  \E c \in Served({"pick"}) :
    LET v == [view EXCEPT !.picking = FALSE]
    IN  \/ Answer(TRUE, v)
        \/ \E q \in Picks :
             Answer(TRUE, Shown(Lapse([v EXCEPT !.queue = q, !.picked = @ \union {q[i] : i \in DOMAIN q}],
                                      IF view.queue # <<>> THEN {"replaced"} ELSE {})))

DialogClosed(v) == Shown([v EXCEPT !.file = Null, !.running = FALSE])

\* A dialog can be closed while its file is imported.
Cancel ==
  view.file # Null /\ Gesture(DialogClosed([view EXCEPT !.skipped = IF view.running THEN @ ELSE @ \union {view.file}]))

Import ==
  /\ view.file # Null /\ ~view.running
  /\ Gesture(Ask([view EXCEPT !.running = TRUE],
                 <<[op |-> "import", file |-> view.file, dialog |-> view.dialog, path |-> view.path]>>))

\* Whatever dialog is open is closed, also the one of the next file (`next'). A
\* failure is shown, and not of which file it is (`unseen').
Imported ==
  \E c \in Served({"import"}) :
    LET mine == c.dialog = view.dialog /\ view.file # Null
        v == [view EXCEPT !.imported = @ \union {c.file}]
    IN  \/ AnswerThen(TRUE, DialogClosed(Lapse(v, IF mine \/ view.file = Null THEN {} ELSE {"next"})),
                      <<[op |-> "scan", path |-> c.path]>>)
        \/ Answer(FALSE, IF mine THEN [view EXCEPT !.running = FALSE] ELSE Lapse(view, {"unseen"}))

\* The files of the directory of the import are listed, whatever the directory
\* is by then (`elsewhere').
ImportScanned ==
  \E c \in Served({"scan"}) :
    Answer(TRUE, Lapse([view EXCEPT !.entries = c.path], IF c.path # view.path THEN {"elsewhere"} ELSE {}))

ImportNavigate ==
  \E d \in ImportDirs \ {view.path} : Gesture([view EXCEPT !.path = d, !.entries = d])

ImportNext ==
  \/ OpenPicker \/ ZonesRead \/ Picked \/ Cancel \/ Import \/ Imported \/ ImportScanned \/ ImportNavigate

\* --- Properties.

\* A file that was picked is imported, skipped by the user, or still in a dialog,
\* in the queue or on its way.
PickKept ==
  view.lapses = {} =>
    \A f \in view.picked :
      \/ f \in view.imported \union view.skipped
      \/ f = view.file \/ (\E i \in DOMAIN view.queue : view.queue[i] = f)
      \/ Waits(LAMBDA c : c.op = "import" /\ c.file = f)

ListShown == view.lapses = {} => view.entries = view.path

ImportBusy ==
  view.lapses = {} =>
    /\ view.picking <=> Waits(LAMBDA c : c.op \in {"zones", "pick"})
    /\ view.running <=> (view.file # Null /\ Waits(LAMBDA c : c.op = "import" /\ c.dialog = view.dialog))
=============================================================================
