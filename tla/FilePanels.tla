----------------------------- MODULE FilePanels -----------------------------
(* Two panels of files and the command bar, whose dialogs work on the marks   *)
(* of the panel that had the focus last and propose the path of the other     *)
(* (FileBrowser, FilePanel, CommandBar, FileOpDialogs).                       *)
(* The panel beside the viewer follows, a state machine of its own.           *)
EXTENDS Page

Dirs == {"p", "q"}
Names == {"a", "b", "zip"}
Sides == {"left", "right"}
OtherSide == [left |-> "right", right |-> "left"]
In(d) == {<<d, n>> : n \in view.disk[d]}
Gone(files) == {f \in files : f[2] \notin view.disk[f[1]]}

\* A panel: the directory, the paths it shows, the rows marked in it, and the
\* marks the dashboard knows of.
Panel(d, shown) == [path |-> d, shown |-> shown, marked |-> {}, picked |-> {}]

Init ==
  view = [gestures |-> 0, calls |-> <<>>, lapses |-> {}, faults |-> 0, open |-> TRUE,
          disk |-> [p |-> {"a", "b"}, q |-> {"b"}],
          panel |-> [left |-> Panel("p", {"p"} \X {"a", "b"}), right |-> Panel(Null, {})],
          active |-> "left", dialog |-> Null, timers |-> {}, transfers |-> {}]

Scan(side, d) == <<[op |-> "scan", side |-> side, path |-> d]>>

\* --- A panel.

Marked(v, side, marks) ==
  [v EXCEPT !.panel[side].marked = marks, !.panel[side].picked = marks, !.active = side]

\* Both clear the marks before they list another directory.
Navigated(v, side, d) ==
  Ask([Marked(v, side, {}) EXCEPT !.panel[side].path = d], Scan(side, d))

Navigate ==
  \E side \in Sides, d \in Dirs :
    view.panel[side].path # Null /\ Gesture(Navigated(view, side, d))

\* A list that could not be read is empty on the right, and as it was on the left.
Scanned ==
  \E c \in Served({"scan"}) :
    \/ Answer(TRUE, [view EXCEPT !.panel[c.side].shown = In(c.path)])
    \/ Answer(FALSE, Lapse([view EXCEPT !.panel[c.side].shown = IF c.side = "left" THEN @ ELSE {}],
                           {"unlisted"}))

Listing(side) == Waits(LAMBDA c : c.op = "scan" /\ c.side = side)

\* A click marks one file, with a key it adds or takes one; all files; none. The
\* row of a file that is gone can still be marked (`kept').
Mark ==
  \E side \in Sides :
    LET p == view.panel[side]
    IN  /\ p.path # Null /\ ~Listing(side)
        /\ \E marks \in {{f} : f \in p.shown} \union {(p.marked \union {f}) \ (p.marked \intersect {f}) : f \in p.shown}
                         \union {p.shown, {}} :
             Gesture(Lapse(Marked(view, side, marks), {"kept" : f \in Gone(marks)}))

\* The path of the left panel is the one of the store: another zone, a search
\* result, a tab or a dashboard change it under the marks (`elsewhere').
Elsewhere ==
  \E d \in Dirs \ {view.panel.left.path} :
    Gesture(Lapse(Ask([view EXCEPT !.panel.left.path = d], Scan("left", d)),
                  IF view.panel.left.marked = {} THEN {} ELSE {"elsewhere"}))

\* The right panel is mounted when it is opened.
OpenRight ==
  view.panel.right.path = Null /\ Gesture(Navigated(view, "right", "q"))

\* --- The dialogs.

\* The marks of the panel with the focus, also while a dialog is open.
Sources == view.panel[view.active].picked

OpenDialog ==
  /\ view.dialog = Null /\ Sources # {}
  /\ \E op \in {"copy", "move", "delete", "pack"} :
       Gesture([view EXCEPT !.dialog =
                  [op |-> op, id |-> view.gestures, busy |-> FALSE,
                   dest |-> view.panel[IF op = "pack" THEN view.active ELSE OtherSide[view.active]].path]])

CloseDialog == view.dialog # Null /\ Gesture([view EXCEPT !.dialog = Null])

\* A transfer is run in the background when it is large.
Execute ==
  /\ view.dialog # Null /\ ~view.dialog.busy
  /\ view.dialog.op \in {"copy", "move"} => view.dialog.dest # Null
  /\ \E started \in IF view.dialog.op \in {"copy", "move"} THEN BOOLEAN ELSE {FALSE} :
       Gesture(Ask([view EXCEPT !.dialog.busy = TRUE],
         <<[op |-> IF started THEN "start" ELSE "run", do |-> view.dialog.op, id |-> view.dialog.id,
            files |-> Sources, dest |-> view.dialog.dest, left |-> view.panel.left.path]>>))

\* What the host does with the files it still finds; a name that is taken is not
\* followed here.
Done(disk, c) ==
  LET found == c.files \ Gone(c.files)
      less == [d \in Dirs |-> {n \in disk[d] : <<d, n>> \notin found}]
      names == {f[2] : f \in found}
  IN  CASE c.do = "copy" -> [disk EXCEPT ![c.dest] = @ \union names]
        [] c.do = "move" -> [less EXCEPT ![c.dest] = @ \union names]
        [] c.do = "delete" -> less
        [] c.do = "pack" -> IF found = {} THEN disk ELSE [disk EXCEPT ![c.dest] = @ \union {"zip"}]

Settled(v, c) == IF v.dialog # Null /\ v.dialog.id = c.id THEN [v EXCEPT !.dialog.busy = FALSE] ELSE v

\* The panel on the right is told of nothing but transfers that end in its
\* directory (`unseen'); the marks of files that are gone are kept (`kept').
Changed(v, c, disk) ==
  Lapse([v EXCEPT !.disk = disk],
    {"unseen" : d \in {d \in Dirs : d = v.panel.right.path /\ disk[d] # v.disk[d]
                                    /\ ~(c.op = "start" /\ d = c.dest)}}
    \union {"kept" : f \in {f \in UNION {v.panel[s].picked : s \in Sides} : f[2] \notin disk[f[1]]}})

\* The list on the left is loaded again some time after it worked, and whatever
\* dialog is open is closed; not at all if a file could not be done (`partly').
Ran ==
  \E c \in Served({"run"}) :
    LET v == Settled(view, c)
        missing == Gone(c.files) # {}
    IN  \/ /\ ~missing \/ c.do = "pack"
           /\ Answer(TRUE, [Changed(v, c, Done(view.disk, c)) EXCEPT !.timers = @ \union {[left |-> c.left, list |-> TRUE]}])
        \/ missing /\ Answer(TRUE, Lapse(Changed(v, c, Done(view.disk, c)), {"partly"}))
        \/ Answer(FALSE, v)

\* The directory listed again is the one of the gesture, which may not be the one
\* of the panel any more (`movedon').
MovedOn(v, d) == Lapse(v, IF d # v.panel.left.path THEN {"movedon"} ELSE {})

Started ==
  \E c \in Served({"start"}) :
    \/ AnswerThen(TRUE, MovedOn([Settled(view, c) EXCEPT !.transfers = @ \union {c},
                                   !.timers = @ \union {[left |-> c.left, list |-> FALSE]}], c.left),
                  Scan("left", c.left))
    \/ Answer(FALSE, Settled(view, c))

TimerDue ==
  \E t \in view.timers :
    LET v == [view EXCEPT !.timers = @ \ {t}, !.dialog = Null]
    IN  view' = IF t.list THEN Ask(MovedOn(v, t.left), Scan("left", t.left)) ELSE v

\* The end of a transfer in the background, of all its files or after a cancel of
\* some: the left panel listens for both ends of it, the right one for the
\* directory it went to.
TransferEnds ==
  \E c \in view.transfers : \E files \in SUBSET c.files :
    LET v == Changed([view EXCEPT !.transfers = @ \ {c}], c, Done(view.disk, [c EXCEPT !.files = files]))
        touched == {c.dest} \union {f[1] : f \in c.files}
        v2 == IF v.panel.left.path \in touched THEN Ask(v, Scan("left", v.panel.left.path)) ELSE v
    IN  view' = IF v.panel.right.path = c.dest THEN Navigated(v2, "right", c.dest) ELSE v2

Next ==
  \/ Navigate \/ Scanned \/ Mark \/ Elsewhere \/ OpenRight \/ OpenDialog \/ CloseDialog
  \/ Execute \/ Ran \/ Started \/ TimerDue \/ TransferEnds

\* --- Properties.

\* The files a command would work on are marked in a panel, and shown there.
MarksShown ==
  view.lapses = {} =>
    \A side \in Sides :
      LET p == view.panel[side]
      IN  p.picked = p.marked /\ (Listing(side) \/ p.picked \subseteq p.shown)

\* When nothing is in flight, the panels show what is on disk.
DiskShown ==
  view.calls = <<>> /\ view.timers = {} /\ view.transfers = {} /\ view.lapses = {} =>
    \A side \in Sides :
      view.panel[side].path # Null => view.panel[side].shown = In(view.panel[side].path)

\* An open dialog is busy exactly while its command is.
DialogBusy ==
  view.dialog # Null =>
    (view.dialog.busy <=> Waits(LAMBDA c : c.op \in {"run", "start"} /\ c.id = view.dialog.id))

-----------------------------------------------------------------------------
(* The panel beside the viewer: the analysis of the text that is shown, the   *)
(* life of the selected document, and the commands on it (AnalysisPanel).     *)

\* Two pictures, a text and an archive, which has no text to analyse.
Files == {"photo", "scan", "note", "bundle"}
Pictures == {"photo", "scan"}
Texts == {"photo", "scan", "note"}

\* What the panel holds of a file, named by the file it came from.
Blank == [words |-> Null, exif |-> Null, life |-> Null, reason |-> Null, link |-> Null]

AnalysisInit ==
  view = [gestures |-> 0, calls |-> <<>>, lapses |-> {}, faults |-> 0, open |-> TRUE,
          sel |-> Null, text |-> Null, colours |-> Null, busy |-> {}] @@ Blank

\* The life of a file is its snapshot and its timeline, taken together.
Life(f) == [op |-> "life", path |-> f, first |-> FALSE]

\* Another file is selected. What is in flight for the file before is not taken
\* back, but its first life and its colours (`left').
Selected(v, f) ==
  LET v1 == Drop(Blank @@ [v EXCEPT !.sel = f, !.text = Null, !.colours = Null],
                 LAMBDA c : c.op = "colours" \/ (c.op = "life" /\ c.first))
      v2 == Lapse(v1, IF Waits(LAMBDA c : c.op \in {"words", "exif"}) THEN {"left"} ELSE {})
      asked == (IF f \in Pictures THEN <<<<[op |-> "exif", path |-> f]>>, <<[op |-> "colours", path |-> f]>>>>
                ELSE <<>>)
               \o <<<<[Life(f) EXCEPT !.first = TRUE]>>>>
               \o (IF f \in Texts THEN <<<<[op |-> "text", path |-> f]>>>> ELSE <<>>)
  IN  IF f = Null THEN v2 ELSE [v2 EXCEPT !.calls = @ \o asked]

Select == \E f \in Files \ {view.sel} : Gesture(Selected(view, f))

\* The viewer's text, or the snippet kept of it, is analysed in four calls that
\* are taken together. A text that comes late is analysed as well (`left').
TextRead ==
  \E c \in Served({"text"}) :
    IF c.path = view.text
    THEN Answer(TRUE, view)
    ELSE AnswerThen(TRUE, Lapse([view EXCEPT !.text = c.path, !.busy = @ \union {"words"}],
                                IF c.path # view.sel THEN {"left"} ELSE {}),
                    <<[op |-> "words", path |-> c.path]>>)

\* The first answer ends the waiting for all analyses.
WordsFound ==
  \E c \in Served({"words"}) :
    LET v == [view EXCEPT !.busy = @ \ {"words"}]
    IN  \/ Answer(TRUE, [v EXCEPT !.words = c.path])
        \/ Answer(FALSE, v)

\* A picture without data leaves those of another.
ExifRead ==
  \E c \in Served({"exif"}) :
    Answer(TRUE, [view EXCEPT !.exif = c.path]) \/ Answer(TRUE, view)

ColoursFound ==
  \E c \in Served({"colours"}) :
    Answer(TRUE, [view EXCEPT !.colours = c.path]) \/ Answer(FALSE, view)

\* The life read again after a command is that of the document of the command
\* (`moved').
LifeRead ==
  \E c \in Served({"life"}) :
    \/ Answer(TRUE, Lapse([view EXCEPT !.life = c.path],
                          IF c.path # view.sel THEN {"moved"} ELSE {}))
    \/ Answer(FALSE, view)

TypeReason ==
  view.life # Null /\ Gesture([view EXCEPT !.reason = view.sel])

TypeLink ==
  view.life # Null /\ Gesture([view EXCEPT !.link = view.sel])

\* A transition the life offers, some of them not without a reason.
Transition ==
  /\ view.life # Null /\ "move" \notin view.busy
  /\ \E needsReason \in BOOLEAN :
       IF needsReason /\ view.reason = Null
       THEN UNCHANGED view
       ELSE Gesture(Ask([view EXCEPT !.busy = @ \union {"move"}],
              <<[op |-> "move", path |-> view.sel, of |-> view.life, text |-> view.reason]>>))

AddLink ==
  /\ view.life # Null /\ view.link # Null /\ "link" \notin view.busy
  /\ Gesture(Ask([view EXCEPT !.busy = @ \union {"link"}],
       <<[op |-> "link", path |-> view.sel, of |-> view.life, text |-> view.link]>>))

\* The text is cleared, also one typed since the command was given (`typed').
Commanded ==
  \E c \in Served({"move", "link"}) :
    LET v == [view EXCEPT !.busy = @ \ {c.op}]
        field == IF c.op = "move" THEN view.reason ELSE view.link
    IN  \/ AnswerThen(TRUE, Lapse(IF c.op = "move" THEN [v EXCEPT !.reason = Null]
                                  ELSE [v EXCEPT !.link = Null],
                                  IF field # c.text THEN {"typed"} ELSE {}),
                      <<Life(c.path)>>)
        \/ Answer(FALSE, v)

\* Filing a document of the global index into a zone ends the selection, whatever
\* is selected by then (`moved').
File ==
  /\ view.sel # Null /\ "file" \notin view.busy
  /\ Gesture(Ask([view EXCEPT !.busy = @ \union {"file"}], <<[op |-> "file", path |-> view.sel]>>))

Filed ==
  \E c \in Served({"file"}) :
    LET v == [view EXCEPT !.busy = @ \ {"file"}]
    IN  \/ Answer(TRUE, Lapse(Selected(v, Null), IF c.path # view.sel THEN {"moved"} ELSE {}))
        \/ Answer(FALSE, v)

AnalysisNext ==
  \/ Select \/ TextRead \/ WordsFound \/ ExifRead \/ ColoursFound \/ LifeRead
  \/ TypeReason \/ TypeLink \/ Transition \/ AddLink \/ Commanded \/ File \/ Filed

\* --- Properties.

\* What the panel shows is of the selected file.
PanelShown ==
  view.lapses = {} =>
    {view.words, view.exif, view.colours, view.life, view.text} \subseteq {Null, view.sel}

\* A document is moved along its own workflow and linked to its own target, for
\* the reason that was typed for it.
CommandsAreOwn ==
  view.lapses = {} =>
    \A i \in DOMAIN view.calls : \A j \in DOMAIN view.calls[i] :
      LET c == view.calls[i][j]
      IN  c.op \in {"move", "link"} => c.of = c.path /\ c.text \in {Null, c.path}

\* A command is shown as running exactly while it is.
PanelBusy ==
  view.lapses = {} =>
    \A op \in {"words", "move", "link", "file"} : op \in view.busy <=> Waits(LAMBDA c : c.op = op)
=============================================================================
