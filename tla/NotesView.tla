----------------------------- MODULE NotesView ------------------------------
(* The notes of a zone: a list of notes and collections, and an editor that   *)
(* saves 600 ms after the last keystroke (NotesView).                         *)
EXTENDS Page

Names == {"n", "n-2", "c", "c-2"}
InRoot == {"n", "n-2"}
InBox == Names \ InRoot

\* The names a new note may get, in the order they are tried.
NamesIn == [root |-> <<"n", "n-2">>, box |-> <<"c", "c-2">>]

\* A text: the note it was written for, and the keystroke that made it.
Text(p, k) == [of |-> p, at |-> k]
Blank == Text(Null, 0)

Shown(v) == v.root \union v.box

\* The answer to the reading of a note that is no longer selected is ignored.
Quiet(v) == Drop(v, LAMBDA c : c.op = "read")

\* Mutant: the timer is stopped and that is all.
NoFlush(v, p) == <<>>

\* Mutant: the text goes to the note that is selected now.
FlushToSelected(v, p) ==
  IF v.armed /\ v.target \notin {Null, p}
  THEN <<<<[op |-> "flush", path |-> p, text |-> v.content]>>>> ELSE <<>>

\* The text of the note before is written at once if it has been typed in: what
\* the page looks at is a timer it does not forget when that has fired, so that a
\* text saved long ago is written again.
Flush(v, p) ==
  IF v.armed /\ v.target \notin {Null, p}
  THEN <<<<[op |-> "flush", path |-> v.target, text |-> v.content]>>>> ELSE <<>>

Select(v, p) ==
  CASE p = v.selected -> v
    [] p = Null /\ p # v.selected ->
         Lapse([Quiet(v) EXCEPT !.selected = Null, !.target = Null,
                                !.content = Blank, !.status = "idle"],
               IF v.timer THEN {"deselected"} ELSE {})
    [] OTHER -> [Quiet(v) EXCEPT !.selected = p, !.timer = FALSE, !.armed = FALSE,
                   !.status = "idle",
                   !.calls = @ \o Flush(v, p) \o <<<<[op |-> "read", path |-> p]>>>>]

\* A search result waits for its note to be listed.
Resolve(v) ==
  IF v.wanted \in Shown(v) THEN Select([v EXCEPT !.wanted = Null], v.wanted) ELSE v

List(then) == [op |-> "list", then |-> then]

\* `timer' says that a save is to come, `armed' that the page holds a timer, fired
\* or not.
Init ==
  \E w \in {Null, "c"} :
    view = [gestures |-> 0, calls |-> <<<<List(Null)>>>>, lapses |-> {}, faults |-> 0,
            disk |-> [p \in Names |-> IF p \in {"n", "c"} THEN Text(p, 0) ELSE Null],
            boxOnDisk |-> TRUE, root |-> {}, box |-> {}, boxed |-> FALSE, loading |-> TRUE,
            wanted |-> w, selected |-> Null, target |-> Null, content |-> Blank,
            timer |-> FALSE, armed |-> FALSE, status |-> "idle",
            typed |-> [p \in Names |-> 0], open |-> TRUE]

\* --- The list.

RootListed ==
  \E c \in Served({"list"}) :
    \/ AnswerThen(TRUE, [view EXCEPT !.loading = FALSE],
         <<[op |-> "box", then |-> c.then, boxed |-> view.boxOnDisk,
            root |-> {p \in InRoot : view.disk[p] # Null}]>>)
    \/ Answer(FALSE, Select([view EXCEPT !.loading = FALSE, !.root = {}, !.box = {}, !.boxed = FALSE],
                     IF c.then = Null THEN view.selected ELSE c.then))

BoxListed ==
  \E c \in Served({"box"}), read \in BOOLEAN :
    LET boxed == c.boxed /\ read
        v == Resolve([view EXCEPT !.root = c.root, !.boxed = boxed,
               !.box = IF boxed THEN {p \in InBox : view.disk[p] # Null} ELSE {}])
    IN  Answer(read, IF c.then = Null THEN v ELSE Select(v, c.then))

Reload(ok, v, then) == AnswerThen(ok, [v EXCEPT !.loading = TRUE], <<List(then)>>)

Navigate(p) == Gesture(Resolve([view EXCEPT !.wanted = p]))

SelectNote ==
  \E p \in Shown(view) :
    ~view.loading /\ Gesture(Select(view, p))

NoteRead ==
  \E c \in Served({"read"}) :
    LET v == [view EXCEPT !.target = c.path]
    IN  \/ /\ view.disk[c.path] # Null
           /\ Answer(TRUE, [v EXCEPT !.content = view.disk[c.path]])
        \/ Answer(view.disk[c.path] = Null, [v EXCEPT !.content = Blank])

\* --- The editor.

\* Typing before the note is read changes the text of the note before (`early');
\* a note that could not be read is an empty one (`unread').
Type ==
  /\ view.selected # Null
  /\ LET k == view.gestures + 1
         v == [view EXCEPT !.content.at = k, !.timer = TRUE, !.armed = TRUE, !.status = "saving",
                           !.typed[view.selected] = k]
     IN  Gesture(Lapse(v, IF Waits(LAMBDA c : c.op = "read") THEN {"early"}
                          ELSE IF view.content.of # view.selected THEN {"unread"} ELSE {}))

SaveDue ==
  /\ view.timer
  /\ view' = IF view.selected = Null THEN [view EXCEPT !.timer = FALSE]
             ELSE Ask([view EXCEPT !.timer = FALSE],
                      <<[op |-> "save", path |-> view.selected, text |-> view.content]>>)

\* The host makes the directory of a file it writes.
Write(p, text) == [view EXCEPT !.disk[p] = text, !.boxOnDisk = @ \/ p \in InBox]

Saved ==
  \E c \in Served({"save", "flush"}), ok \in BOOLEAN :
    LET v == [(IF ok THEN Write(c.path, c.text) ELSE view) EXCEPT !.status = 
                IF c.op = "flush" \/ ~view.open THEN @ ELSE IF ok THEN "saved" ELSE "error"]
    IN  Answer(ok, Lapse(v, IF ~ok THEN {"failed"}
                          ELSE IF view.disk[c.path] = Null THEN {"revived"} ELSE {}))

Rested == view.status = "saved" /\ view' = [view EXCEPT !.status = "idle"]

\* --- Notes and collections.

\* The first name that the list does not show.
FreshName(dir, listed) ==
  LET names == NamesIn[dir]
      free == {i \in DOMAIN names : names[i] \notin listed}
  IN  names[CHOOSE i \in free : \A j \in free : i <= j]

CommitNewNote ==
  \E dir \in {"root"} \union (IF view.boxed THEN {"box"} ELSE {}) :
    LET listed == IF dir = "root" THEN view.root ELSE view.box
    IN  /\ \E i \in DOMAIN NamesIn[dir] : NamesIn[dir][i] \notin listed
        /\ Gesture(Ask(view, <<[op |-> "mkdir", dir |-> dir, path |-> FreshName(dir, listed)]>>))

CreateCollection == Gesture(Ask(view, <<[op |-> "mkdir", dir |-> "box", path |-> Null]>>))

DirCreated ==
  \E c \in Served({"mkdir"}), ok \in BOOLEAN :
    LET v == [view EXCEPT !.boxOnDisk = @ \/ (ok /\ c.dir = "box")]
    IN  IF c.path = Null THEN Reload(ok, v, Null)
        ELSE AnswerThen(ok, v, <<[op |-> "create", path |-> c.path]>>)

\* A note the list does not show yet is replaced by the new one (`unlisted').
NoteCreated ==
  \E c \in Served({"create"}) :
    \/ Reload(TRUE, Lapse(Write(c.path, Text(c.path, 0)),
                      IF view.disk[c.path] = Null THEN {} ELSE {"unlisted"}), c.path)
    \/ Answer(FALSE, view)

\* The selection that the handlers compare is the one of the gesture.
DeleteNote ==
  \E p \in Shown(view) :
    /\ ~view.loading
    /\ Gesture(Ask(view, <<[op |-> "delete", paths |-> {p}, dir |-> Null,
                           deselect |-> view.selected = p]>>))

DeleteCollection ==
  /\ view.boxed /\ ~view.loading
  /\ Gesture(Ask(view, <<[op |-> "delete", paths |-> view.box, dir |-> "box",
                         deselect |-> view.selected \in view.box]>>))

Without(disk, gone) == [p \in Names |-> IF p \in gone THEN Null ELSE disk[p]]

\* The host answers that it deleted the files whether it could or not; a
\* collection is removed with whatever it still holds.
Deleted ==
  \E c \in Served({"delete", "rmdir"}) :
    \E ok \in BOOLEAN :
      LET gone == CASE ~ok -> {} [] c.op = "delete" -> c.paths [] OTHER -> InBox
          v == [view EXCEPT !.disk = Without(@, gone),
                            !.typed = [p \in Names |-> IF p \in gone THEN 0 ELSE @[p]],
                            !.boxOnDisk = @ /\ ~(ok /\ c.op = "rmdir"),
                            !.lapses = @ \union
                               {"unasked" : p \in {q \in gone \ c.paths : view.disk[q] # Null}}]
      IN  IF c.op = "delete" /\ c.dir = "box"
          THEN AnswerThen(ok, v, <<[c EXCEPT !.op = "rmdir"]>>)
          ELSE Reload(ok, IF c.deselect THEN Select(v, Null) ELSE v, Null)

Next ==
  \/ Navigate("c") \/ SelectNote \/ Type \/ SaveDue \/ Rested
  \/ CommitNewNote \/ CreateCollection \/ DeleteNote \/ DeleteCollection \/ Leave
  \/ RootListed \/ BoxListed \/ NoteRead \/ Saved
  \/ DirCreated \/ NoteCreated \/ Deleted

\* --- Properties.

\* The file of a note holds a text of that note, but for a text typed before the
\* note was read, or for a note that could not be read.
NoteIsOwn ==
  \A p \in Names :
    view.disk[p] # Null /\ view.lapses \intersect {"early", "unread"} = {}
      => view.disk[p].of = p

\* What was last typed for a note is on disk, about to be written or in the
\* editor with its timer running.
TypedIsKept ==
  view.lapses = {} =>
    \A p \in Names :
      LET last(t) == t.at = view.typed[p]
      IN  \/ view.disk[p] = Null \/ last(view.disk[p])
          \/ view.selected = p /\ view.timer /\ last(view.content)
          \/ Waits(LAMBDA c : c.op \in {"save", "flush"} /\ c.path = p /\ last(c.text))
=============================================================================
