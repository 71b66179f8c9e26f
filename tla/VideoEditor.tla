----------------------------- MODULE VideoEditor -----------------------------
(* The project of the video editor (VideoEditorPage): the hub it is opened    *)
(* from (ProjectHub), the projects of the host (videoStorage), which know no  *)
(* thumbnails, the save after an edit, the thumbnails fetched for the clips   *)
(* that have none, and the export.                                            *)
(* Finding media follows, a state machine of its own.                         *)
EXTENDS Page

Names == {"m", "n"}

\* A clip changes its looks with the number of the gesture. `url' says it has its
\* thumbnail: it is grey without.
Clip(id, url) == [id |-> id, look |-> 0, url |-> url]
Bare(p) == [p EXCEPT !.clips = {[c EXCEPT !.url = FALSE] : c \in @}]
stored == [name |-> "m", clips |-> {Clip(0, FALSE)}]
blank(name) == [name |-> name, clips |-> {}]
new == view.gestures + 1

\* `enriched' are the clips a thumbnail has been asked for, `alive' names the fetch
\* whose answer is still taken, `path' is the file of the export dialog. `want' are
\* the projects as they were edited, `chosen' is the one that was opened last.
Init ==
  \E first \in BOOLEAN :
    view = [gestures |-> 0, calls |-> <<<<[op |-> "list"]>>>>, lapses |-> {}, faults |-> 0, open |-> TRUE,
            screen |-> "loading", project |-> Null, chosen |-> Null, timer |-> Null, enriched |-> {},
            alive |-> 0, path |-> Null, exporting |-> FALSE, dialog |-> FALSE,
            disk |-> [m |-> IF first THEN Null ELSE stored, n |-> Null],
            want |-> [m |-> IF first THEN Null ELSE stored, n |-> Null],
            files |-> [m |-> Null, n |-> Null]]

\* --- Showing a project. The clips are looked through when the tracks change: the
\* thumbnails that were being fetched are dropped, and those not asked for yet are
\* asked for. What was asked for is not asked for again: not when the fetch is
\* dropped (`grey').
Shown(v, p) ==
  LET pending == {c.id : c \in {d \in p.clips : ~d.url}} \ v.enriched
      w == [v EXCEPT !.project = p, !.alive = @ + 1, !.enriched = @ \union pending]
      grey == IF Waits(LAMBDA c : c.op = "thumbs" /\ c.fetch = v.alive) THEN {"grey"} ELSE {}
  IN  Lapse(IF pending = {} THEN w ELSE Ask(w, <<[op |-> "thumbs", fetch |-> v.alive + 1, ids |-> pending]>>),
            grey)

Thumbs ==
  \E c \in Served({"thumbs"}) :
    LET got == {IF d.id \in c.ids THEN [d EXCEPT !.url = TRUE] ELSE d : d \in view.project.clips}
    IN  \/ Answer(TRUE, IF view.open /\ c.fetch = view.alive
                        THEN [view EXCEPT !.project.clips = got, !.alive = @ + 1] ELSE view)
        \/ Answer(FALSE, Lapse(view, {"failed"}))

\* --- The hub.

Listed ==
  \E c \in Served({"list"}) :
    LET none == \A n \in Names : view.disk[n] = Null
    IN  \/ AnswerThen(TRUE, IF none THEN view ELSE [view EXCEPT !.screen = IF view.open THEN "hub" ELSE @],
                      IF none THEN <<[op |-> "create", name |-> "m"]>> ELSE <<>>)
        \/ AnswerThen(FALSE, Lapse(view, {"unlisted"}), <<[op |-> "create", name |-> "m"]>>)

ShowHub == view.screen = "editor" /\ Gesture([view EXCEPT !.screen = "hub", !.dialog = FALSE])

\* An asset that is being read brings the project before back, its export path
\* stays (`switched'). An edit that is still to be saved is not in what is read, and
\* is not saved at all when the next project is edited before it is (`unsaved').
Switch(v) ==
  Lapse(v, (IF view.path # Null \/ Waits(LAMBDA c : c.op = "asset") THEN {"switched"} ELSE {})
           \union (IF view.timer # Null THEN {"unsaved"} ELSE {}))

Open ==
  /\ view.screen = "hub"
  /\ \E n \in Names :
       /\ view.disk[n] # Null
       /\ Gesture(Ask(Switch([view EXCEPT !.screen = "loading"]), <<[op |-> "load", name |-> n]>>))

\* A project that cannot be read leaves the one before (`failed'). One that is
\* opened again is read without its thumbnails (`again').
Opened ==
  \E c \in Served({"load"}) :
    LET p == view.disk[c.name]
        v == [view EXCEPT !.screen = "editor"]
        again == IF {d.id : d \in p.clips} \cap view.enriched # {} THEN {"again"} ELSE {}
        w == [Shown(view, p) EXCEPT !.screen = "editor", !.chosen = c.name,
                                    !.want[c.name] = IF @ = Null THEN p ELSE @]
    IN  \/ Answer(TRUE, IF view.open THEN Lapse(w, again) ELSE view)
        \/ Answer(FALSE, Lapse(v, {"failed"}))

\* A name that is made up is new.
New ==
  /\ view.screen = "hub"
  /\ \E n \in Names :
       /\ view.disk[n] = Null /\ view.want[n] = Null
       /\ Gesture(Ask(Switch([view EXCEPT !.screen = "loading"]), <<[op |-> "create", name |-> n]>>))

Made ==
  \E c \in Served({"create"}) :
    LET p == blank(c.name)
        v == [view EXCEPT !.disk[c.name] = p, !.want[c.name] = p]
    IN  \/ Answer(TRUE, IF view.open THEN [Shown(v, p) EXCEPT !.screen = "editor", !.chosen = c.name] ELSE v)
        \/ Answer(FALSE, Lapse([view EXCEPT !.screen = "editor"], {"failed"}))

\* --- Edits. Each is saved half a second after the last one, under the name the
\* project has; that it failed is only logged.

Changed(v, p) == [v EXCEPT !.timer = Bare(p)]

Edit(p) ==
  /\ view.screen = "editor" /\ view.project # Null
  /\ Gesture([Changed(Shown(view, p), p) EXCEPT !.want[p.name] = Bare(p)])

\* The clip that is inspected, or moved, muted, split or deleted on the timeline.
EditClip ==
  view.project # Null /\ \E c \in view.project.clips :
    \/ Edit([view.project EXCEPT !.clips = (@ \ {c}) \union {[c EXCEPT !.look = new]}])
    \/ Edit([view.project EXCEPT !.clips = @ \ {c}])

\* Files that are dropped on the timeline, or a directory of pictures.
AddClips ==
  view.project # Null /\ \E ids \in {{10 + new}, {10 + new, 20 + new}} :
    Edit([view.project EXCEPT !.clips = @ \union {Clip(i, FALSE) : i \in ids}])

\* The project under the former name stays, one of the new name is replaced
\* (`over'). The tracks are the same: no thumbnail is looked for.
Rename ==
  /\ view.screen = "editor" /\ view.project # Null
  /\ \E n \in Names \ {view.project.name} :
       LET p == [view.project EXCEPT !.name = n]
           over == IF view.disk[n] # Null \/ view.path # Null THEN {"over"} ELSE {}
           v == Changed([view EXCEPT !.project = p, !.chosen = n, !.want[view.project.name] = Null], p)
       IN  Gesture(Lapse([v EXCEPT !.want[n] = IF @ = Null THEN Bare(p) ELSE @], over))

\* A file of the asset browser: its thumbnail is fetched first, and the clip added
\* to the project of the gesture. What was edited meanwhile is lost (`meanwhile').
PickAsset ==
  /\ view.screen = "editor" /\ view.project # Null
  /\ Gesture(Ask(view, <<[op |-> "asset", id |-> 10 + new, project |-> view.project]>>))

AssetRead ==
  \E c \in Served({"asset"}) : \E url \in BOOLEAN :
    LET p == [c.project EXCEPT !.clips = @ \union {Clip(c.id, url)}]
        meanwhile == IF view.want[view.chosen] # Bare(c.project) THEN {"meanwhile"} ELSE {}
        lost == IF ~url \/ view.project # c.project THEN {"grey"} ELSE {}
        v == Shown([view EXCEPT !.enriched = @ \union {c.id}], p)
        w == IF view.open THEN Changed(v, p) ELSE Changed(view, p)
    IN  Answer(TRUE, Lapse([w EXCEPT !.want[view.chosen].clips = @ \union {Clip(c.id, FALSE)}], meanwhile \union lost))

SaveDue ==
  /\ view.timer # Null
  /\ view' = Ask([view EXCEPT !.timer = Null], <<[op |-> "save", project |-> view.timer]>>)

Saved ==
  \E c \in Served({"save"}) :
    \/ Answer(TRUE, [view EXCEPT !.disk[c.project.name] = c.project])
    \/ Answer(FALSE, Lapse(view, {"failed"}))

\* --- The export, to the path that was found when its dialog was first opened.

OpenExport ==
  /\ view.screen = "editor" /\ view.project # Null /\ ~view.dialog
  /\ Gesture([view EXCEPT !.dialog = TRUE, !.path = IF @ = Null THEN view.project.name ELSE @])

CancelExport == view.dialog /\ Gesture([view EXCEPT !.dialog = FALSE])

Export ==
  /\ view.screen = "editor" /\ view.dialog /\ ~view.exporting
  /\ Gesture(Ask([view EXCEPT !.exporting = TRUE],
                 <<[op |-> "export", path |-> view.path, project |-> Bare(view.project)]>>))

\* The dialog that is open when it ends is closed.
Exported ==
  \E c \in Served({"export"}) :
    LET v == [view EXCEPT !.exporting = FALSE, !.dialog = FALSE]
    IN  Answer(TRUE, [v EXCEPT !.files[c.path] = c.project]) \/ Answer(FALSE, v)

\* The save that was to come still comes.
Close == Leave

Next ==
  \/ Thumbs \/ Listed \/ ShowHub \/ Open \/ Opened \/ New \/ Made \/ EditClip \/ AddClips \/ Rename
  \/ PickAsset \/ AssetRead \/ SaveDue \/ Saved \/ OpenExport \/ CancelExport \/ Export \/ Exported \/ Close

\* --- Properties.

\* The project that was opened last is shown with the edits that were made in it,
\* and every project is on disk with its edits when nothing is to be saved, also
\* when the editor has been closed.
CutKept ==
  view.lapses = {} =>
    /\ view.open /\ view.screen = "editor" => /\ view.project.name = view.chosen
                                              /\ Bare(view.project) = view.want[view.chosen]
    /\ view.timer = Null /\ ~Waits(LAMBDA c : c.op \in {"save", "asset"}) =>
         \A n \in Names : view.want[n] # Null => view.disk[n] = view.want[n]

\* A file that is exported is the project of its name.
ExportIsOwn ==
  view.lapses = {} => \A n \in Names : view.files[n] # Null => view.files[n].name = n

\* When nothing is fetched, every clip has its thumbnail.
ThumbsShown ==
  view.lapses = {} /\ view.open /\ view.project # Null /\ ~Waits(LAMBDA c : c.op = "thumbs") =>
    \A c \in view.project.clips : c.url

\* The editor is loading while a project is being listed, read or made, and
\* exports while the export is.
EditorBusy ==
  view.lapses = {} =>
    /\ view.open => (view.screen = "loading" <=> Waits(LAMBDA c : c.op \in {"list", "load", "create"}))
    /\ view.exporting <=> Waits(LAMBDA c : c.op = "export")

-----------------------------------------------------------------------------
(* Finding media for the video editor: the asset browser (AssetBrowser) lists *)
(* a directory, and the dialog of a sequence (SequenceImportDialog) the       *)
(* pictures of one, the browser's or one that is picked, which become the     *)
(* clips of the sequence (handleSeqConfirm).                                  *)

Dirs == {"p", "q"}

\* `path' is the directory that is browsed, `entries' the one that is listed, `told'
\* the one the editor knows. The dialog has a folder and the files of the folder it
\* has listed last. `kind' filters what is listed.
AssetInit ==
  \E start \in Dirs \union {Null} :
    view = [gestures |-> 0, lapses |-> {}, faults |-> 0, open |-> TRUE, path |-> start, entries |-> Null,
            told |-> Null, error |-> FALSE, loading |-> start # Null, kind |-> Null,
            calls |-> IF start = Null THEN <<>> ELSE <<<<[op |-> "scan", dir |-> start]>>>>,
            dialog |-> FALSE, folder |-> Null, files |-> Null, wrong |-> FALSE, scanning |-> FALSE,
            listing |-> 0, clips |-> Null]

\* --- The browser.

Scan(v, d) == Ask([v EXCEPT !.loading = TRUE, !.error = FALSE], <<[op |-> "scan", dir |-> d]>>)

\* By an entry, a path that is typed, or one that is picked. The first of several
\* answers ends the loading (`several').
Navigate ==
  \E d \in Dirs :
    Gesture(Lapse(Scan(view, d), IF view.loading THEN {"several"} ELSE {}))

\* Where it could not go, it does not go.
Scanned ==
  \E c \in Served({"scan"}) :
    LET v == [view EXCEPT !.loading = FALSE]
    IN  \/ Answer(TRUE, [v EXCEPT !.path = c.dir, !.entries = c.dir, !.told = c.dir])
        \/ Answer(FALSE, [v EXCEPT !.error = TRUE])

Filter == \E k \in {Null, "image"} \ {view.kind} : Gesture([view EXCEPT !.kind = k])

\* --- The dialog. It lists the folder when it is shown and when that changes.

DialogOpened(v, d) ==
  LET w == [v EXCEPT !.dialog = TRUE, !.folder = d, !.files = IF v.dialog THEN @ ELSE Null]
  IN  IF v.dialog /\ v.folder = d THEN v
      ELSE Ask([w EXCEPT !.scanning = TRUE, !.wrong = FALSE, !.listing = @ + 1],
               <<[op |-> "files", dir |-> d, listing |-> v.listing + 1]>>)

Import ==
  IF view.told # Null THEN ~view.dialog /\ Gesture(DialogOpened(view, view.told))
  ELSE Gesture(Ask(view, <<[op |-> "pick"]>>))

\* A second folder that is picked replaces the one of the dialog.
Picked ==
  \E c \in Served({"pick"}) :
    \/ \E d \in Dirs : Answer(TRUE, DialogOpened(view, d))
    \/ Answer(TRUE, view)

\* The answer of a folder that is not shown any more is left. A folder that could
\* not be listed leaves the files of the one before it (`unlisted').
AssetListed ==
  \E c \in Served({"files"}) :
    LET taken == view.dialog /\ c.listing = view.listing
        v == IF taken THEN [view EXCEPT !.scanning = FALSE] ELSE view
    IN  \/ Answer(TRUE, IF taken THEN [v EXCEPT !.files = c.dir] ELSE v)
        \/ Answer(FALSE, Lapse(IF taken THEN [v EXCEPT !.wrong = TRUE] ELSE v,
                               IF taken /\ view.files # Null THEN {"unlisted"} ELSE {}))

Cancel == view.dialog /\ Gesture([view EXCEPT !.dialog = FALSE, !.scanning = FALSE])

Confirm ==
  /\ view.dialog /\ ~view.scanning /\ view.files # Null
  /\ Gesture([view EXCEPT !.dialog = FALSE, !.clips = [files |-> view.files, folder |-> view.folder]])

AssetNext ==
  \/ Navigate \/ Scanned \/ Filter \/ Import \/ Picked \/ AssetListed \/ Cancel \/ Confirm

\* --- Properties.

\* The clips of a sequence are the files of the folder its dialog has shown.
SequenceIsOwn ==
  view.lapses = {} /\ view.clips # Null => view.clips.files = view.clips.folder

\* What is listed is what the path says, and the editor is told of it.
AssetsShown ==
  view.lapses = {} =>
    /\ view.entries # Null => view.entries = view.path /\ view.told = view.path
    /\ view.error => ~view.loading

AssetsBusy ==
  view.lapses = {} =>
    /\ view.loading <=> Waits(LAMBDA c : c.op = "scan")
    /\ view.scanning => Waits(LAMBDA c : c.op = "files" /\ c.listing = view.listing)
=============================================================================
