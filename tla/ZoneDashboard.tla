--------------------------- MODULE ZoneDashboard ---------------------------
(* The dashboard of the zone that is open: what it shows of the zone, its     *)
(* palette, and the editor of its workflow (ZoneDashboard). Another zone can  *)
(* be opened over it; it stays mounted.                                       *)
(* The form of a zone (ZonePanel) follows, a state machine of its own.        *)
EXTENDS Page

Zones == {"x", "y"}
Parts == {"bookmarks", "stats", "disk"}

State(k, d) == [key |-> k, isDefault |-> d]
Workflow(z, states, transitions) == [of |-> z, states |-> states, transitions |-> transitions]

Init ==
  LET stored == [x |-> Workflow("x", <<State("A", TRUE), State("B", FALSE)>>, <<<<"A", "B">>>>),
                 y |-> Workflow("y", <<State("C", TRUE)>>, <<>>)]
  IN  view = [gestures |-> 0, calls |-> <<>>, lapses |-> {}, faults |-> 0, open |-> TRUE,
              zone |-> "x", part |-> [p \in Parts |-> "x"], workflow |-> stored["x"],
              loading |-> {}, saving |-> FALSE, error |-> FALSE, edited |-> Null,
              colours |-> {"x"}, disk |-> stored, palettes |-> [z \in Zones |-> {z}]]

Keys(w) == {w.states[i].key : i \in DOMAIN w.states}

Load(op) == <<[op |-> op, zone |-> view.zone]>>

\* --- The zone.

\* Another zone is opened: all parts are loaded again but the palette.
OpenZone ==
  \E z \in Zones \ {view.zone} :
    Gesture([Lapse(view, IF view.edited # Null THEN {"dropped"} ELSE {})
               EXCEPT !.zone = z, !.error = FALSE, !.edited = Null,
                      !.loading = @ \union {"disk", "workflow"},
                      !.calls = @ \o <<<<[op |-> "bookmarks", zone |-> z]>>, <<[op |-> "stats", zone |-> z]>>,
                                       <<[op |-> "disk", zone |-> z]>>, <<[op |-> "workflow", zone |-> z]>>>>])

\* A part that could not be loaded stays what it was (`unread').
PartLoaded ==
  \E c \in Served(Parts) :
    LET v == [view EXCEPT !.loading = @ \ {c.op}]
    IN  \/ Answer(TRUE, [v EXCEPT !.part[c.op] = c.zone])
        \/ Answer(FALSE, Lapse(v, {"unread"}))

\* Two loads are waited for as one (`several').
WorkflowLoaded ==
  \E c \in Served({"workflow"}) :
    LET v == Lapse([view EXCEPT !.loading = @ \ {"workflow"}],
                   IF Waits(LAMBDA d : d.op = "workflow" /\ d # c) THEN {"several"} ELSE {})
    IN  \/ Answer(TRUE, [v EXCEPT !.workflow = view.disk[c.zone], !.edited = Null])
        \/ Answer(FALSE, Lapse([v EXCEPT !.error = TRUE], {"unread"}))

ReloadWorkflow ==
  /\ "workflow" \notin view.loading
  /\ Gesture(Ask([view EXCEPT !.loading = @ \union {"workflow"}, !.error = FALSE, !.edited = Null],
                 Load("workflow")))

\* A bookmark is resolved, and the page left for what it stands for.
GoTo == view.part["bookmarks"] # Null /\ Gesture(Ask(view, Load("resolve")))

Resolved ==
  \E c \in Served({"resolve"}) :
    Answer(TRUE, [view EXCEPT !.open = FALSE]) \/ Answer(FALSE, view)

\* The colours are those of the zone the page was mounted with (`palette').
AddColour ==
  Gesture(Lapse([view EXCEPT !.colours = @ \union {view.zone},
                             !.palettes[view.zone] = view.colours \union {view.zone}],
                IF view.colours \subseteq {view.zone} THEN {} ELSE {"palette"}))

RemoveColour ==
  \E c \in view.colours :
    Gesture([view EXCEPT !.colours = @ \ {c}, !.palettes[view.zone] = view.colours \ {c}])

\* --- The editor of the workflow. It is shown unless the workflow is loading.

Edited(w) ==
  /\ "workflow" \notin view.loading
  /\ Gesture([view EXCEPT !.workflow = w, !.edited = w])

flow == view.workflow

\* A state that is renamed takes its transitions with it, and those of another
\* state of that name.
RenameState ==
  \E i \in DOMAIN flow.states, k \in {"A", "B", "D"} :
    LET old == flow.states[i].key
        Renamed(key) == IF key = old THEN k ELSE key
    IN  Edited([flow EXCEPT !.states[i].key = k,
                  !.transitions = [j \in DOMAIN @ |-> <<Renamed(@[j][1]), Renamed(@[j][2])>>]])

SetDefaultState ==
  \E k \in Keys(flow) :
    Edited([flow EXCEPT !.states = [i \in DOMAIN @ |-> State(@[i].key, @[i].key = k)]])

\* The last of the two changes wins: the state stays, its transitions go.
RemoveState ==
  \E k \in Keys(flow) :
    Len(flow.states) > 1 /\ Edited([flow EXCEPT !.transitions = SelectSeq(@, LAMBDA t : k \notin {t[1], t[2]})])

AddState == Edited([flow EXCEPT !.states = Append(@, State("STATE_" \o ToString(Len(@) + 1), @ = <<>>))])

AddTransition ==
  /\ Len(flow.states) > 1
  /\ Edited([flow EXCEPT !.transitions = Append(@, <<flow.states[1].key, flow.states[2].key>>)])

EditTransition ==
  \E i \in DOMAIN flow.transitions, side \in {1, 2}, k \in Keys(flow) :
    Edited([flow EXCEPT !.transitions[i][side] = k])

RemoveTransition ==
  \E i \in DOMAIN flow.transitions :
    Edited([flow EXCEPT !.transitions = SubSeq(@, 1, i - 1) \o SubSeq(@, i + 1, Len(@))])

Valid(w) ==
  /\ w.states # <<>>
  /\ Cardinality(Keys(w)) = Len(w.states)
  /\ Cardinality({i \in DOMAIN w.states : w.states[i].isDefault}) = 1
  /\ \A i \in DOMAIN w.transitions : {w.transitions[i][1], w.transitions[i][2]} \subseteq Keys(w)
  /\ \A i, j \in DOMAIN w.transitions : w.transitions[i] = w.transitions[j] => i = j

SaveWorkflow ==
  /\ "workflow" \notin view.loading /\ ~view.saving
  /\ IF Valid(flow)
     THEN Gesture(Ask([view EXCEPT !.saving = TRUE, !.error = FALSE],
                      <<[op |-> "save", zone |-> view.zone, workflow |-> flow]>>))
     ELSE Gesture([view EXCEPT !.error = TRUE])

\* The editor shows what the host made of it, in place of what was changed since
\* (`typed') and of the workflow of another zone (`moved').
Saved ==
  \E c \in Served({"save"}) :
    \/ Answer(TRUE, Lapse([view EXCEPT !.saving = FALSE, !.workflow = c.workflow, !.edited = Null,
                             !.disk[c.zone] = c.workflow],
                          (IF view.edited \notin {Null, c.workflow} THEN {"typed"} ELSE {})
                          \union (IF view.zone # c.zone THEN {"moved"} ELSE {})))
    \/ Answer(FALSE, [view EXCEPT !.saving = FALSE, !.error = TRUE])

Next ==
  \/ OpenZone \/ PartLoaded \/ WorkflowLoaded \/ ReloadWorkflow \/ GoTo \/ Resolved
  \/ AddColour \/ RemoveColour
  \/ RenameState \/ SetDefaultState \/ RemoveState \/ AddState
  \/ AddTransition \/ EditTransition \/ RemoveTransition \/ SaveWorkflow \/ Saved

\* --- Properties.

\* What a user changed in the editor is there until it is saved or given up, and
\* every transition leads from and to a state, one of them the default.
DraftKept ==
  view.lapses = {} =>
    /\ view.edited \in {Null, flow}
    /\ \A i \in DOMAIN flow.transitions : {flow.transitions[i][1], flow.transitions[i][2]} \subseteq Keys(flow)
    /\ \E i \in DOMAIN flow.states : flow.states[i].isDefault

\* A zone is given its own workflow and its own colours.
SavedIsOwn ==
  view.lapses = {} =>
    \A z \in Zones : view.disk[z].of = z /\ Valid(view.disk[z]) /\ view.palettes[z] \subseteq {z}

\* When nothing is in flight, the dashboard shows the zone that is open.
DashboardShown ==
  view.calls = <<>> /\ view.lapses = {} =>
    flow.of = view.zone /\ \A p \in Parts : view.part[p] = view.zone

DashboardBusy ==
  view.lapses = {} =>
    /\ view.saving <=> Waits(LAMBDA c : c.op = "save")
    /\ "workflow" \in view.loading <=> Waits(LAMBDA c : c.op = "workflow")

-----------------------------------------------------------------------------
(* The form in which a zone is made, or the one that is open is changed: its  *)
(* source may be a share of the network, of which the host is asked where it  *)
(* is mounted (ZonePanel).                                                    *)

\* Sources: a directory, and a share with the place it is mounted at.
Sources == {"dir", "share"}
Place == [dir |-> "dir", share |-> "mount"]
Names == {"new", "old"}         \* "old" is a zone already, and encrypted

FormInit ==
  view = [gestures |-> 0, calls |-> <<>>, lapses |-> {}, faults |-> 0, open |-> TRUE,
          name |-> "new", source |-> "dir", resolved |-> Null, status |-> "idle", timer |-> FALSE,
          encrypt |-> FALSE, password |-> FALSE, encrypted |-> FALSE, keyMissing |-> FALSE,
          error |-> FALSE, zones |-> {"old"}, keys |-> {}, dirs |-> {}, records |-> <<>>,
          zone |-> Null, hostZone |-> Null]

\* The path is looked at when it has not changed for a while. Until then the
\* place of the path before it is kept (`early').
TypeSource ==
  \E s \in Sources \ {view.source} : Gesture([view EXCEPT !.source = s, !.timer = TRUE])

\* A directory is chosen in a dialog of the system.
PickSource ==
  Gesture([view EXCEPT !.source = "dir", !.resolved = Null, !.status = "idle",
                       !.timer = @ \/ view.source # "dir"])

Resolve ==
  /\ view.timer
  /\ LET v == [view EXCEPT !.timer = FALSE, !.resolved = Null]
     IN  view' = IF view.source = "dir" THEN [v EXCEPT !.status = "idle"]
                 ELSE Ask([v EXCEPT !.status = "resolving"], <<[op |-> "resolve", source |-> view.source]>>)

\* The answer is taken whatever the path is by then (`late').
SourceResolved ==
  \E c \in Served({"resolve"}) :
    LET v == Lapse(view, IF c.source # view.source THEN {"late"} ELSE {})
    IN  \/ Answer(TRUE, [v EXCEPT !.resolved = Place[c.source], !.status = "mounted"])
        \/ Answer(TRUE, [v EXCEPT !.status = "unmounted"])

TypeName == \E n \in Names \ {view.name} : Gesture([view EXCEPT !.name = n])

TypePassword == (view.encrypt \/ view.keyMissing) /\ Gesture([view EXCEPT !.password = ~@])

ToggleEncrypt == ~view.encrypted /\ Gesture([view EXCEPT !.encrypt = ~@, !.password = FALSE])

\* One of the zones that are known is taken into the form.
LoadHistoryZone ==
  Gesture([view EXCEPT !.name = "old", !.timer = @ \/ view.source # "dir", !.source = "dir",
                       !.encrypted = TRUE, !.encrypt = TRUE, !.password = FALSE])

Effective == IF view.resolved # Null THEN view.resolved ELSE view.source

Password == view.password /\ ((view.encrypt /\ ~view.encrypted) \/ view.keyMissing)

\* The button is not blocked while the zone is being made (`twice').
Apply ==
  IF \/ view.source = "share" /\ view.status = "unmounted"
     \/ view.encrypt /\ ~view.encrypted /\ ~view.password
  THEN Gesture([view EXCEPT !.error = TRUE, !.keyMissing = FALSE])
  ELSE LET z == [name |-> view.name, source |-> Effective, typed |-> view.source, secret |-> Password]
       IN  Gesture(Ask(Lapse([view EXCEPT !.error = FALSE, !.keyMissing = FALSE],
                             (IF view.timer \/ view.status = "resolving" THEN {"early"} ELSE {})
                             \union (IF Waits(LAMBDA c : c.op = "save") THEN {"twice"} ELSE {})
                             \union (IF view.name \in view.zones /\ ~view.encrypted THEN {"taken"} ELSE {})),
                       <<[op |-> "exists", zone |-> z], [op |-> "save", zone |-> z], [op |-> "open", zone |-> z]>>))

\* The directory of the zone is made if there is none; without it the rest of the
\* script is not run.
WorkspaceChecked ==
  \E c \in Served({"exists"}) :
    \/ Answer(TRUE, view)
    \/ c.zone.name \notin view.dirs /\ Answer(TRUE, [view EXCEPT !.dirs = @ \union {c.zone.name}])
    \/ c.zone.name \notin view.dirs /\ AnswerThen(FALSE, [view EXCEPT !.error = TRUE], <<>>)

\* The record of the zone is written under its name, over one of that name; that
\* it could not be written is not looked at (`unsaved').
ZoneSaved ==
  \E c \in Served({"save"}) :
    \/ Answer(TRUE, [view EXCEPT !.zones = @ \union {c.zone.name}, !.records = Append(@, c.zone)])
    \/ Answer(FALSE, Lapse(view, {"unsaved"}))

\* The database is opened, with the password if its key is not known to the
\* system; then the zone is the one of the page, and the form closed.
ZoneOpened ==
  \E c \in Served({"open"}) :
    \/ AnswerThen(TRUE, [view EXCEPT !.zone = c.zone, !.hostZone = c.zone.name, !.open = FALSE,
                           !.keys = IF c.zone.secret THEN @ \union {c.zone.name} ELSE @], <<>>)
    \/ AnswerThen(FALSE, [view EXCEPT !.error = TRUE], <<>>)
    \/ /\ c.zone.name \notin view.keys /\ ~c.zone.secret /\ c.zone.name = "old"
       /\ AnswerThen(FALSE, [view EXCEPT !.error = TRUE, !.keyMissing = TRUE], <<>>)

\* A zone that is being made is made all the same (`closed').
Cancel ==
  Gesture(Lapse([view EXCEPT !.open = FALSE], IF view.calls = <<>> THEN {} ELSE {"closed"}))

FormNext ==
  \/ TypeSource \/ PickSource \/ Resolve \/ SourceResolved \/ TypeName \/ TypePassword \/ ToggleEncrypt
  \/ LoadHistoryZone \/ Apply \/ WorkspaceChecked \/ ZoneSaved \/ ZoneOpened \/ Cancel

\* --- Properties.

\* A zone is made of the source that was typed for it; the zone the page works in
\* has a record and a directory, and is the one the host works in.
ZoneIsOwn ==
  view.lapses = {} =>
    /\ \A i \in DOMAIN view.records : view.records[i].source = Place[view.records[i].typed]
    /\ view.zone # Null =>
         view.zone.name = view.hostZone /\ \E i \in DOMAIN view.records : view.records[i] = view.zone

\* When nothing is in flight, the place shown is the one of the source.
PlaceShown ==
  view.calls = <<>> /\ ~view.timer /\ view.lapses = {} =>
    /\ view.resolved \in {Null, Place[view.source]}
    /\ view.status = "mounted" => view.resolved = Place[view.source]
    /\ view.status # "resolving"
=============================================================================
