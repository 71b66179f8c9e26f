---------------------------- MODULE Preferences ----------------------------
(* The theme and the settings: two contexts that live as long as the page,    *)
(* loaded once and written when the user asks for it (ThemeProvider,          *)
(* SettingsProvider), and the panel that changes them (ThemePanel). Nothing   *)
(* is shown before the settings are loaded, the theme is loaded after.        *)
(* The tab of the language models follows, a state machine of its own.        *)
EXTENDS Page

\* A value is a default, a stored one, or the one of a gesture. The keyboard
\* scheme is the panel's own.
default == 0
stored == 1
chosen == view.gestures + 2

Theme(preset, colours) == [preset |-> preset, colours |-> colours]
Settings(locale, paper, limit) == [locale |-> locale, paper |-> paper, limit |-> limit]

Load(k) == <<[op |-> "load", key |-> k]>>

Init ==
  \E first \in BOOLEAN :
    LET defaults == [theme |-> Theme(default, {}), settings |-> Settings(default, default, default),
                     scheme |-> default]
        disk == IF first THEN defaults
                ELSE [theme |-> Theme(stored, {stored}), settings |-> Settings(stored, stored, stored),
                      scheme |-> stored]
    IN  view = [gestures |-> 0, calls |-> <<Load("settings") \o Load("theme")>>, lapses |-> {},
                faults |-> 0, open |-> FALSE, now |-> defaults, disk |-> disk, want |-> disk,
                asked |-> disk, unread |-> {"theme", "settings", "scheme"}, saving |-> {}, saved |-> FALSE]

\* The panel reads the scheme whenever it is opened.
OpenPanel ==
  /\ ~view.open /\ "settings" \notin view.unread /\ view.gestures < Gestures
  /\ view' = Ask([view EXCEPT !.open = TRUE, !.gestures = @ + 1, !.now.scheme = default, !.saved = FALSE,
                              !.unread = @ \union {"scheme"}], Load("scheme"))

\* A setting that is changed is not saved; the panel can be closed with it. The
\* scheme it has asked for is taken by nobody.
ClosePanel ==
  Gesture(Drop([view EXCEPT !.open = FALSE], LAMBDA c : c.op = "load" /\ c.key = "scheme"))

\* What is stored is taken over what was chosen meanwhile: each field of a theme,
\* the settings and the scheme as a whole.
Loaded ==
  \E c \in Served({"load"}) :
    LET v == [view EXCEPT !.unread = @ \ {c.key}]
    IN  \/ Answer(TRUE, [v EXCEPT !.now[c.key] = view.disk[c.key]])
        \/ Answer(FALSE, Lapse(v, {"unread"}))

\* A choice made before what is stored is loaded is replaced (`early'); one made
\* while the choice before it is saved, or shown as saved, is not (`since').
Chosen(k, value, v) ==
  Lapse([v EXCEPT !.now[k] = value, !.want[k] = value],
        (IF k \in view.unread THEN {"early"} ELSE {})
        \union (IF k # "scheme" /\ (view.saved \/ view.saving # {}) THEN {"since"} ELSE {}))

SetTheme ==
  \/ Gesture(Chosen("theme", Theme(chosen, {}), view))
  \/ Gesture(Chosen("theme", [view.now.theme EXCEPT !.colours = @ \union {chosen}], view))

SetSetting ==
  \E field \in {"paper", "limit"} :
    Gesture(Chosen("settings", [view.now.settings EXCEPT ![field] = chosen], view))

Write(k, value) == <<[op |-> "write", key |-> k, value |-> value]>>

\* The language and the scheme are written at once, the language with all other
\* settings as they are (`along').
SetLocale ==
  LET s == [view.now.settings EXCEPT !.locale = chosen]
  IN  Gesture(Ask(Lapse([Chosen("settings", s, view) EXCEPT !.asked.settings = s],
                        IF view.now.settings # view.asked.settings THEN {"along"} ELSE {}),
                  Write("settings", s)))

SetScheme ==
  Gesture(Ask([Chosen("scheme", chosen, view) EXCEPT !.asked.scheme = chosen],
              Write("scheme", chosen)))

\* Both are written, and shown as saved whatever the answers are (`unsaved').
Save ==
  /\ view.saving = {}
  /\ LET v == [view EXCEPT !.saving = {"theme", "settings"},
                 !.asked = [@ EXCEPT !.theme = view.now.theme, !.settings = view.now.settings],
                 !.calls = @ \o <<Write("theme", view.now.theme), Write("settings", view.now.settings)>>]
     IN  Gesture(Lapse(v, IF view.unread \intersect v.saving # {} THEN {"early"} ELSE {}))

Written ==
  \E c \in Served({"write"}) :
    LET saving == IF Waits(LAMBDA d : d.op = "write" /\ d.key = c.key /\ d # c) THEN view.saving
                  ELSE view.saving \ {c.key}
        v == [view EXCEPT !.saving = saving, !.saved = @ \/ (view.saving # {} /\ saving = {})]
    IN  \/ Answer(TRUE, [v EXCEPT !.disk[c.key] = c.value])
        \/ Answer(FALSE, Lapse(v, {"unsaved"}))

\* The mark of a save goes by itself.
Rested == view.saved /\ view' = [view EXCEPT !.saved = FALSE]

Next ==
  \/ OpenPanel \/ ClosePanel \/ Loaded \/ SetTheme \/ SetSetting \/ SetLocale \/ SetScheme
  \/ Save \/ Written \/ Rested

\* --- Properties.

\* What a user chose is what the program uses, and stays until it is chosen anew;
\* what is shown as saved is on disk.
ChoiceKept ==
  view.lapses = {} =>
    /\ \A k \in {"theme", "settings"} : k \in view.unread \/ view.now[k] = view.want[k]
    /\ view.open /\ "scheme" \notin view.unread => view.now.scheme = view.want.scheme
    /\ view.saved => \A k \in {"theme", "settings"} : view.disk[k] = view.now[k]

\* Nothing is written but what a user asked to be saved.
SavedIsAsked ==
  view.lapses = {} /\ view.calls = <<>> => view.disk = view.asked /\ view.saving = {}

-----------------------------------------------------------------------------
(* The tab of the settings in which a language model is downloaded and        *)
(* deleted (ModelsTab). The download itself is the one of ModelDownloader;    *)
(* here it runs in the host and ends.                                         *)

\* The catalog and the directory are asked for when the tab is shown.
Shown(v) ==
  [v EXCEPT !.open = TRUE, !.active = Null, !.listed = FALSE, !.saved = FALSE,
            !.calls = @ \o <<<<[op |-> "list"]>>, <<[op |-> "dir"]>>>>]

ModelsInit ==
  \E model \in BOOLEAN :
    view = Shown([gestures |-> 0, calls |-> <<>>, lapses |-> {}, faults |-> 0, open |-> TRUE,
                  model |-> model, status |-> <<>>, active |-> Null, listed |-> FALSE,
                  dir |-> "old", shown |-> Null, saved |-> FALSE])

\* The downloads of the host, by their ids.
Running == {d \in DOMAIN view.status : view.status[d] = "downloading"}

Ends ==
  \E d \in Running :
    \/ view' = [view EXCEPT !.status[d] = "completed", !.model = TRUE]
    \/ view.faults < MaxFaults /\ view' = [view EXCEPT !.status[d] = "failed", !.faults = @ + 1]

\* The tab is left; a download goes on, and is not found again (`left').
LeaveTab ==
  Gesture(Lapse([view EXCEPT !.open = FALSE, !.active = Null],
                IF view.active # Null \/ Waits(LAMBDA c : c.op = "start") THEN {"left"} ELSE {}))

EnterTab == ~view.open /\ view.gestures < Gestures /\ view' = [Shown(view) EXCEPT !.gestures = @ + 1]

Listed ==
  \E c \in Served({"list"}) :
    Answer(TRUE, [view EXCEPT !.listed = view.model]) \/ Answer(FALSE, Lapse(view, {"unread"}))

DirRead ==
  \E c \in Served({"dir"}) : Answer(TRUE, [view EXCEPT !.shown = view.dir]) \/ Answer(FALSE, view)

\* The button is not blocked until the download is known to run (`twice').
Download ==
  /\ ~view.listed /\ view.active = Null
  /\ Gesture(Ask(Lapse(view, IF Waits(LAMBDA c : c.op = "start") THEN {"twice"} ELSE {}),
                 <<[op |-> "start"]>>))

\* A model that is there is not downloaded again, and one that is being
\* downloaded is not downloaded twice.
Started ==
  \E c \in Served({"start"}) :
    LET d == IF Running # {} THEN CHOOSE e \in Running : TRUE ELSE Len(view.status) + 1
        v == IF Running # {} THEN view ELSE [view EXCEPT !.status = Append(@, "downloading")]
    IN  IF view.model THEN Answer(TRUE, view)
        ELSE Answer(TRUE, [v EXCEPT !.active = IF view.open THEN d ELSE @])

\* While a download is shown, the host is asked for it again and again.
Poll ==
  /\ view.open /\ view.active # Null /\ ~Waits(LAMBDA c : c.op = "progress")
  /\ view' = Ask(view, <<[op |-> "progress", id |-> view.active]>>)

Polled ==
  \E c \in Served({"progress"}) :
    IF view.status[c.id] = "downloading" THEN Answer(TRUE, view)
    ELSE AnswerThen(TRUE, [view EXCEPT !.active = Null], <<[op |-> "list"]>>)

Cancel ==
  view.active # Null /\ Gesture(Ask(view, <<[op |-> "cancel", id |-> view.active]>>))

\* One that has ended by then is not listed (`ended').
Cancelled ==
  \E c \in Served({"cancel"}) :
    Answer(TRUE, Lapse([view EXCEPT !.active = Null,
                          !.status[c.id] = IF @ = "downloading" THEN "cancelled" ELSE @],
                       IF view.status[c.id] = "completed" THEN {"ended"} ELSE {}))

\* A file that could not be deleted is listed again.
Delete == view.listed /\ Gesture(Ask(view, <<[op |-> "delete"], [op |-> "list"]>>))

Deleted ==
  \E c \in Served({"delete"}) : Answer(TRUE, [view EXCEPT !.model = FALSE]) \/ Answer(FALSE, view)

\* A directory is typed or picked, and saved for the next start; that it could
\* not be is not looked at (`unsaved').
SaveDir ==
  view.shown # Null /\ Gesture(Ask(view, <<[op |-> "save", dir |-> "new"]>>))

DirSaved ==
  \E c \in Served({"save"}) :
    LET v == [view EXCEPT !.shown = c.dir, !.saved = TRUE]
    IN  Answer(TRUE, [v EXCEPT !.dir = c.dir]) \/ Answer(FALSE, Lapse(v, {"unsaved"}))

ModelsNext ==
  \/ Ends \/ LeaveTab \/ EnterTab \/ Listed \/ DirRead \/ Download \/ Started \/ Poll \/ Polled
  \/ Cancel \/ Cancelled \/ Delete \/ Deleted \/ SaveDir \/ DirSaved

\* --- Properties.

\* A download that runs is shown, with its button, and no model is downloaded
\* twice at a time. What is shown has run, and is asked for until it has ended.
DownloadShown ==
  view.lapses = {} =>
    /\ Cardinality(Running) <= 1
    /\ view.open /\ ~Waits(LAMBDA c : c.op = "start") => \A d \in Running : view.active = d

\* When nothing is in flight, the catalog shows what is on disk.
CatalogShown ==
  view.open /\ view.calls = <<>> /\ view.active = Null /\ view.lapses = {} =>
    /\ view.listed = view.model
    /\ view.shown \in {Null, view.dir}
=============================================================================
