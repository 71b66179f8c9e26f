------------------------------ MODULE Timeline ------------------------------
(* Two pages that show what the host knows of a place: the files of a zone by *)
(* their days (TimelinePage) and the dashboard of a folder (FolderDashboard). *)
(* The bookmarks of a zone follow, a state machine of their own.              *)
EXTENDS Page

\* The zones, of which z has no directory for what comes in, and the folder that
\* is shown when none is open. Kind is the page that is mounted.
Zones == {"x", "y", "z"}
Folders == {"f", "g"}

Of(kind) == view.kind = kind

Place(zone) == IF zone = Null THEN "folder" ELSE zone

Load(op, of) == <<[op |-> op, of |-> of, id |-> view.gestures + 1]>>

\* The files of a place are scanned; the workflow of a zone is read, and how many
\* documents are in a state of it.
Asked(v, zone) ==
  LET v1 == Ask([v EXCEPT !.zone = zone, !.loading = TRUE], Load("scan", Place(zone)))
      v2 == Ask(v1, Load("workflow", zone))
  IN  IF zone = Null THEN [v1 EXCEPT !.workflow = Null, !.counts = Null]
      ELSE IF zone = "z" THEN v2
      ELSE Ask(v2, Load("counts", zone))

Mounted(kind) ==
  [gestures |-> 0, calls |-> <<>>, lapses |-> {}, faults |-> 0, open |-> TRUE, kind |-> kind,
   zone |-> Null, entries |-> Null, filter |-> "all", workflow |-> Null, counts |-> Null,
   loading |-> kind = "folder", folder |-> "f", latest |-> 0, data |-> Null]

InitTimeline ==
  \E zone \in Zones \union {Null} :
    view = LET v == Mounted("timeline")
               Call(op, of) == <<[op |-> op, of |-> of, id |-> 0]>>
           IN  [v EXCEPT !.zone = zone, !.loading = TRUE,
                         !.calls = <<Call("scan", Place(zone))>>
                           \o (IF zone = Null THEN <<>> ELSE <<Call("workflow", zone)>>)
                           \o (IF zone \in {Null, "z"} THEN <<>> ELSE <<Call("counts", zone)>>)]

Init ==
  \/ InitTimeline
  \/ view = Ask(Mounted("folder"), <<[op |-> "folder", of |-> "f", id |-> 0]>>)

\* --- The timeline.

\* A zone without a directory leaves the counts of the zone before (`uncounted').
EnterZone ==
  \E zone \in (Zones \union {Null}) \ {view.zone} :
    Gesture(Lapse(Asked(view, zone),
                  IF zone = "z" /\ (view.counts # Null \/ Waits(LAMBDA c : c.op = "counts"))
                  THEN {"uncounted"} ELSE {}))

Rescan ==
  ~view.loading /\ Gesture(Ask([view EXCEPT !.loading = TRUE], Load("scan", Place(view.zone))))

\* The first of two scans ends the waiting for both (`several').
Scanned ==
  \E c \in Served({"scan"}) :
    LET v == Lapse([view EXCEPT !.loading = FALSE],
                   IF Waits(LAMBDA d : d.op = "scan" /\ d # c) THEN {"several"} ELSE {})
    IN  Answer(TRUE, [v EXCEPT !.entries = c.of]) \/ Answer(FALSE, Lapse(v, {"unread"}))

\* A workflow and counts that come after the zone was left are taken all the same
\* (`late').
Told ==
  \E c \in Served({"workflow", "counts"}) :
    LET v == Lapse(view, IF view.zone = Null THEN {"late"} ELSE {})
    IN  \/ Answer(TRUE, IF c.op = "workflow" THEN [v EXCEPT !.workflow = c.of] ELSE [v EXCEPT !.counts = c.of])
        \/ Answer(FALSE, Lapse(v, {"unread"}))

Filter == \E k \in {"all", "images"} \ {view.filter} : Gesture([view EXCEPT !.filter = k])

\* A file leads to the viewer, a state of the workflow to the page of those.
Follow ==
  /\ (~view.loading /\ view.entries # Null) \/ view.workflow # Null
  /\ Gesture([view EXCEPT !.open = FALSE])

\* --- The folder.

\* What is in flight for the folder before is not taken.
SetFolder ==
  \E f \in Folders \ {view.folder} :
    Gesture(Ask([view EXCEPT !.folder = f, !.latest = view.gestures + 1, !.loading = TRUE],
                Load("folder", f)))

FolderRead ==
  \E c \in Served({"folder"}) :
    LET v == [view EXCEPT !.loading = FALSE]
    IN  IF c.id # view.latest THEN Answer(TRUE, view)
        ELSE Answer(TRUE, [v EXCEPT !.data = c.of]) \/ Answer(FALSE, Lapse(v, {"unread"}))

\* A file of the folder leads to the viewer, the folder above to its files.
Open == view.data # Null /\ Gesture([view EXCEPT !.open = FALSE])

Next ==
  \/ Of("timeline") /\ (EnterZone \/ Rescan \/ Scanned \/ Told \/ Filter \/ Follow)
  \/ Of("folder") /\ (SetFolder \/ FolderRead \/ Open)

\* --- Properties.

\* When nothing is in flight, a page shows the place that is open.
PlaceShown ==
  view.calls = <<>> /\ view.lapses = {} =>
    IF Of("folder") THEN view.data = view.folder
    ELSE /\ view.entries = Place(view.zone)
         /\ view.workflow = view.zone
         /\ view.counts \in {Null, view.zone}

PlaceBusy ==
  view.lapses = {} =>
    (view.loading <=> Waits(LAMBDA c : c.op = "scan" \/ (c.op = "folder" /\ c.id = view.latest)))

-----------------------------------------------------------------------------
(* The bookmarks of the zone that is open (BookmarksView), as the host keeps  *)
(* them: a row has an id, and its place in the list, which bookmark_add makes *)
(* 0 for every row.                                                           *)

BookmarkZones == {"x", "y"}

Row(i, z, label) == [id |-> i, zone |-> z, label |-> label, order |-> 0]

Reload(v, z) == Ask([v EXCEPT !.loading = TRUE, !.error = FALSE], <<[op |-> "list", zone |-> z]>>)

BookmarkInit ==
  view = Reload([gestures |-> 0, calls |-> <<>>, lapses |-> {}, faults |-> 0, open |-> TRUE,
                 zone |-> "x", rows |-> {}, loading |-> FALSE, error |-> FALSE, edit |-> Null,
                 saving |-> FALSE, target |-> Null,
                 disk |-> {Row(1, "x", "a"), Row(2, "x", "b"), Row(3, "y", "c")}], "x")

\* The form that is open stays open.
OpenZone ==
  \E z \in BookmarkZones \ {view.zone} : Gesture(Reload([view EXCEPT !.zone = z], z))

\* Rows that could not be loaded stay those of the zone before (`unread').
Listed ==
  \E c \in Served({"list"}) :
    LET v == [view EXCEPT !.loading = FALSE]
        several == IF Waits(LAMBDA d : d.op = "list" /\ d # c) THEN {"several"} ELSE {}
    IN  \/ Answer(TRUE, Lapse([v EXCEPT !.rows = {r \in view.disk : r.zone = c.zone}], several))
        \/ Answer(FALSE, Lapse([v EXCEPT !.error = TRUE], {"unread"} \union several))

GoTo ==
  \E r \in view.rows :
    ~view.loading /\ Gesture(Ask(view, <<[op |-> "resolve", zone |-> view.zone, row |-> r]>>))

\* A bookmark is resolved in the zone that is open, the page left for it.
Resolved ==
  \E c \in Served({"resolve"}) :
    \/ Answer(TRUE, [view EXCEPT !.open = FALSE, !.target = [zone |-> c.zone, row |-> c.row.zone]])
    \/ Answer(FALSE, [view EXCEPT !.error = TRUE])

\* A new bookmark starts with an empty form, which is not shown: none is made.
StartAdd == Gesture([view EXCEPT !.edit = Null])

StartEdit == \E r \in view.rows : ~view.loading /\ Gesture([view EXCEPT !.edit = r.id])

CancelEdit == view.edit # Null /\ Gesture([view EXCEPT !.edit = Null])

\* The form is shown in its row.
CommitEdit ==
  /\ ~view.saving /\ ~view.loading
  /\ \E r \in view.rows :
       /\ r.id = view.edit
       /\ Gesture(Ask([view EXCEPT !.saving = TRUE],
                      <<[op |-> "update", row |-> [r EXCEPT !.label = "new"], form |-> TRUE]>>))

Put(rows, row) == {IF r.id = row.id THEN row ELSE r : r \in rows}

\* A row that is gone is not updated. The form that is open by then is closed
\* (`other').
Updated ==
  \E c \in Served({"update"}) :
    LET v == IF c.form THEN Lapse([view EXCEPT !.saving = FALSE, !.edit = Null],
                                  IF view.edit \notin {Null, c.row.id} THEN {"other"} ELSE {})
             ELSE view
        found == \E r \in view.disk : r.id = c.row.id
    IN  \/ Answer(TRUE, [v EXCEPT !.disk = Put(@, c.row),
                           !.rows = IF c.form /\ found THEN Put(@, c.row) ELSE @])
        \/ Answer(FALSE, IF c.form THEN [v EXCEPT !.error = TRUE] ELSE Lapse(v, {"unmoved"}))

\* The answer is not looked at: a row that could not be deleted is not shown
\* (`undeleted').
Delete ==
  \E r \in view.rows : ~view.loading /\ Gesture(Ask(view, <<[op |-> "delete", id |-> r.id]>>))

Deleted ==
  \E c \in Served({"delete"}) :
    LET Without(rows) == {r \in rows : r.id # c.id}
        v == [view EXCEPT !.rows = Without(@)]
    IN  Answer(TRUE, [v EXCEPT !.disk = Without(@)]) \/ Answer(FALSE, Lapse(v, {"undeleted"}))

\* Two neighbours change their orders, one call for each: all orders being 0,
\* nothing is moved. A row that is edited meanwhile is written as it was (`stale').
Move ==
  /\ ~view.loading
  /\ \E a, b \in view.rows :
       /\ a.id + 1 = b.id
       /\ LET c == [a EXCEPT !.order = b.order]
              d == [b EXCEPT !.order = a.order]
              Script(r) == <<[op |-> "update", row |-> r, form |-> FALSE]>>
          IN  Gesture(Ask(Ask(Lapse([view EXCEPT !.rows = Put(Put(@, c), d)],
                                    IF Waits(LAMBDA e : e.op = "update" /\ e.form) THEN {"stale"} ELSE {}),
                              Script(c)), Script(d)))

BookmarkNext ==
  \/ OpenZone \/ Listed \/ GoTo \/ Resolved \/ StartAdd \/ StartEdit \/ CancelEdit \/ CommitEdit
  \/ Updated \/ Delete \/ Deleted \/ Move

\* --- Properties.

\* A bookmark is followed in the zone it was made in.
TargetIsOwn ==
  view.lapses = {} /\ view.target # Null => view.target.zone = view.target.row

\* When nothing is in flight, the page shows the bookmarks of its zone as they
\* are kept.
RowsShown ==
  view.calls = <<>> /\ view.lapses = {} => view.rows = {r \in view.disk : r.zone = view.zone}

RowsBusy ==
  view.lapses = {} =>
    /\ view.loading <=> Waits(LAMBDA c : c.op = "list")
    /\ view.saving <=> Waits(LAMBDA c : c.op = "update" /\ c.form)
=============================================================================
