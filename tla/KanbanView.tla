----------------------------- MODULE KanbanView -----------------------------
(* The kanban board of a zone: a lane is a text file with one line per card,  *)
(* descriptions and comments are in a sidecar beside it (KanbanView).         *)
(* The documents of a zone by workflow state follow, a state machine of its   *)
(* own.                                                                       *)
EXTENDS Page, SequencesExt

Lanes == <<"a", "b", "x">>
Starters == <<"a", "b">>
Names == ToSet(Lanes)

\* A card of a file: its title, and the key its comment carries (Null in a line
\* of the old style). A key names the load or the gesture that made it.
Card(t, key) == [t |-> t, key |-> key]

\* What a sidecar says of a card, and nothing.
NoNote == [desc |-> 0, comments |-> {}]
Entry(t, key, note) == [t |-> t, key |-> key, note |-> note]

OnDisk == SelectSeq(Lanes, LAMBDA n : view.disk[n] # Null)

\* A card of the board is found by an identity that every load makes anew.
HasCard(board, i, t, load) ==
  i \in DOMAIN board.lanes /\ board.load = load /\ \E c \in board.lanes[i].cards : c.t = t

Scan == [op |-> "scan", again |-> FALSE]

Init ==
  view = [gestures |-> 0, calls |-> <<<<Scan>>>>, lapses |-> {}, faults |-> 0, open |-> TRUE,
          disk |-> [n \in Names |-> CASE n = "a" -> {Card(1, Null), Card(2, 0)}
                                      [] n = "b" -> {} [] OTHER -> Null],
          side |-> [n \in Names |-> {}], loads |-> 0, loading |-> TRUE,
          board |-> [load |-> 0, lanes |-> <<>>], detail |-> Null, timers |-> {},
          cards |-> {1, 2}, notes |-> {}]

\* A script goes on; the board is hidden from the moment its reload begins.
Proceed(ok, v) ==
  Answer(ok, IF Rest # <<>> /\ Head(Rest) = Scan THEN [v EXCEPT !.loading = TRUE] ELSE v)

\* --- Loading the board.

WriteLane(name, cards) == [op |-> "lane", name |-> name, cards |-> cards]
WriteSide(name, side) == [op |-> "side", name |-> name, side |-> side]

\* The end of a load: every card has a new identity, so a dialog is closed.
Loaded(v, board) ==
  [v EXCEPT !.loading = FALSE, !.board = board, !.detail = Null]

Scanned ==
  \E c \in Served({"scan"}), ok \in BOOLEAN :
    LET v == [view EXCEPT !.loads = @ + 1]
        board == [load |-> v.loads, lanes |-> <<>>]
    IN  CASE ~ok /\ ~c.again ->
               AnswerThen(FALSE, Lapse([v EXCEPT !.loading = FALSE], {"unread"}), <<>>)
          [] ok /\ OnDisk # <<>> ->
               AnswerThen(TRUE, v, <<[op |-> "read", todo |-> OnDisk, board |-> board]>>)
          [] ok /\ OnDisk = <<>> /\ ~c.again ->
               AnswerThen(TRUE, v, [i \in DOMAIN Starters |-> WriteLane(Starters[i], {})]
                                   \o <<[op |-> "scan", again |-> TRUE]>>)
          [] OTHER -> AnswerThen(ok, Loaded(v, board), <<>>)

\* A board that cannot be listed stays, a lane that cannot be read is shown without cards (`unread').
LaneRead ==
  \E c \in Served({"read"}), ok \in BOOLEAN :
    LET name == Head(c.todo)
        file == IF ok /\ view.disk[name] # Null THEN view.disk[name] ELSE {}
        keyed == {[k EXCEPT !.key = IF @ = Null THEN c.board.load ELSE @] : k \in file}
    IN  AnswerThen(ok, Lapse(view, IF ok THEN {} ELSE {"unread"}),
          <<[c EXCEPT !.op = "readside",
               !.board.lanes = Append(@, [name |-> name, cards |-> keyed])]>>)

NoteOf(side, t, key) ==
  LET found == {e \in side : e.t = t /\ e.key = key}
  IN  IF found = {} THEN NoNote ELSE (CHOOSE e \in found : TRUE).note

SideRead ==
  \E c \in Served({"readside"}), ok \in BOOLEAN :
    LET name == Head(c.todo)
        side == IF ok THEN view.side[name] ELSE {}
        last == Len(c.board.lanes)
        board == [c.board EXCEPT !.lanes[last].cards =
                    {Entry(k.t, k.key, NoteOf(side, k.t, k.key)) : k \in @}]
        v == Lapse(view, IF ok THEN {} ELSE {"unread"})
    IN  IF Len(c.todo) = 1 THEN AnswerThen(ok, Loaded(v, board), <<>>)
        ELSE AnswerThen(ok, v, <<[op |-> "read", todo |-> Tail(c.todo), board |-> board]>>)

\* --- Files.

\* A file write that fails is not noticed (`failed').
LaneWritten ==
  \E c \in Served({"lane"}), ok \in BOOLEAN :
    Proceed(ok, [Lapse(view, IF ok THEN {} ELSE {"failed"})
                   EXCEPT !.disk[c.name] = IF ok THEN c.cards ELSE @])

SideWritten ==
  \E c \in Served({"side"}), ok \in BOOLEAN :
    Proceed(ok, [Lapse(view, IF ok THEN {} ELSE {"failed"})
                   EXCEPT !.side[c.name] = IF ok THEN c.side ELSE @])

Removed ==
  \E c \in Served({"remove", "removeside"}), ok \in BOOLEAN :
    Proceed(ok, [Lapse(view, IF ok THEN {} ELSE {"failed"})
                   EXCEPT !.disk[c.name] = IF ok /\ c.op = "remove" THEN Null ELSE @,
                          !.side[c.name] = IF ok /\ c.op = "removeside" THEN {} ELSE @])

\* The notes follow a renamed lane if it has any.
SideCopied ==
  \E c \in Served({"copyside"}), ok \in BOOLEAN :
    AnswerThen(ok, Lapse(view, IF ok THEN {} ELSE {"unread"}),
      (IF ok /\ view.side[c.name] # {} THEN <<WriteSide(c.to, view.side[c.name])>> ELSE <<>>)
      \o Rest)

\* --- Handlers of the board. Each writes files from the lanes of the board that
\* was shown; one made before an earlier one has reloaded undoes it (`stale').

Lane(i) == view.board.lanes[i]
Lines(cards) == {Card(c.t, c.key) : c \in cards}
Notes(cards) == {c \in cards : c.note # NoNote}
Changing == Waits(LAMBDA c : c.op \in {"lane", "side", "remove", "removeside", "copyside", "read", "readside", "scan"})

Handle(v, script) ==
  /\ ~view.loading
  /\ Gesture(Ask(Lapse(v, IF Changing THEN {"stale"} ELSE {}), script))

ToggleCard ==
  \E i \in DOMAIN view.board.lanes :
    /\ Lane(i).cards # {}
    /\ Handle(view, <<WriteLane(Lane(i).name, Lines(Lane(i).cards)), Scan>>)

DeleteCard ==
  \E i \in DOMAIN view.board.lanes : \E card \in Lane(i).cards :
    LET rest == Lane(i).cards \ {card}
    IN  Handle([view EXCEPT !.cards = @ \ {card.t}],
               <<WriteLane(Lane(i).name, Lines(rest)), WriteSide(Lane(i).name, Notes(rest)), Scan>>)

AddCard ==
  \E i \in DOMAIN view.board.lanes :
    LET t == 10 + view.gestures
    IN  Handle([view EXCEPT !.cards = @ \union {t}],
               <<WriteLane(Lane(i).name, Lines(Lane(i).cards) \union {Card(t, 0)}), Scan>>)

DeleteLane ==
  \E i \in DOMAIN view.board.lanes :
    Handle([view EXCEPT !.cards = @ \ {c.t : c \in Lane(i).cards},
                        !.detail = IF @ # Null /\ @.lane = i THEN Null ELSE @],
           <<[op |-> "remove", name |-> Lane(i).name],
             [op |-> "removeside", name |-> Lane(i).name], Scan>>)

\* A lane renamed or added to the name of another replaces it (`replaced').
Replaces(n) == IF view.disk[n] = Null THEN {} ELSE {"replaced"}

RenameLane ==
  \E i \in DOMAIN view.board.lanes : \E n \in Names \ {Lane(i).name} :
    Handle(Lapse(view, Replaces(n)),
      <<WriteLane(n, Lines(Lane(i).cards)), [op |-> "copyside", name |-> Lane(i).name, to |-> n],
        [op |-> "remove", name |-> Lane(i).name],
        [op |-> "removeside", name |-> Lane(i).name], Scan>>)

AddLane ==
  \E n \in Names : Handle(Lapse(view, Replaces(n)), <<WriteLane(n, {}), Scan>>)

MoveCard ==
  \E i, j \in DOMAIN view.board.lanes : \E card \in Lane(i).cards :
    LET src == Lane(i).cards \ {card}
        tgt == Lane(j).cards \union {card}
    IN  /\ i # j
        /\ Handle(view, <<WriteLane(Lane(i).name, Lines(src)), WriteLane(Lane(j).name, Lines(tgt)),
                          WriteSide(Lane(i).name, Notes(src)), WriteSide(Lane(j).name, Notes(tgt)), Scan>>)

\* --- The dialog of a card.

OpenCard ==
  \E i \in DOMAIN view.board.lanes : \E card \in Lane(i).cards :
    /\ ~view.loading /\ view.detail = Null
    /\ Gesture([view EXCEPT !.detail = [lane |-> i, t |-> card.t, at |-> view.gestures]])

CloseCard == ~view.loading /\ view.detail # Null /\ Gesture([view EXCEPT !.detail = Null])

\* The cards of a board with a change made to the note of one.
Noted(board, d, load, Change(_)) ==
  IF ~HasCard(board, d.lane, d.t, load) THEN board
  ELSE [board EXCEPT !.lanes[d.lane].cards =
          {IF c.t = d.t THEN [c EXCEPT !.note = Change(@)] ELSE c : c \in @}]

\* The note of a card changes on the board that is shown, and the sidecar is
\* written from the board the handler was made for (`stale').
SaveNote(v, board, d, Change(_)) ==
  LET old == Noted(board, d, board.load, Change)
      lane == old.lanes[d.lane]
      v2 == [v EXCEPT !.board = Noted(@, d, board.load, Change)]
  IN  Ask(Lapse(v2, (IF v.board # board \/ Changing THEN {"stale"} ELSE {})
                    \union {"unkeyed" : c \in {k \in lane.cards : k.t = d.t /\ k.key = board.load}}),
          <<WriteSide(lane.name, Notes(lane.cards))>>)

\* The description is saved 800 ms after the last keystroke, by the handler of
\* the board of that keystroke; closing the dialog does not stop the timer.
TypeDescription ==
  /\ view.detail # Null /\ ~view.loading
  /\ LET timer == [d |-> view.detail, board |-> view.board, desc |-> view.gestures + 1]
     IN  Gesture([view EXCEPT !.timers = {t \in @ : t.d # view.detail} \union {timer},
                    !.notes = {n \in @ : ~(n.t = view.detail.t /\ n.desc)}
                              \union {[t |-> view.detail.t, desc |-> TRUE, at |-> timer.desc]}])

DescriptionDue ==
  \E t \in view.timers :
    view' = SaveNote([view EXCEPT !.timers = @ \ {t}], t.board, t.d,
                     LAMBDA n : [n EXCEPT !.desc = t.desc])

PostComment ==
  /\ view.detail # Null /\ ~view.loading
  /\ LET k == view.gestures + 1
     IN  Gesture([SaveNote(view, view.board, view.detail,
                           LAMBDA n : [n EXCEPT !.comments = @ \union {k}])
                    EXCEPT !.notes = @ \union {[t |-> view.detail.t, desc |-> FALSE, at |-> k]}])

Next ==
  \/ Scanned \/ LaneRead \/ SideRead \/ LaneWritten \/ SideWritten \/ Removed \/ SideCopied
  \/ ToggleCard \/ DeleteCard \/ AddCard \/ DeleteLane \/ RenameLane \/ AddLane \/ MoveCard
  \/ OpenCard \/ CloseCard \/ TypeDescription \/ DescriptionDue \/ PostComment \/ Leave

\* --- Properties.

AtRest == view.calls = <<>> /\ view.timers = {}

\* When nothing is in flight, every card that was made and not deleted is on one
\* lane.
CardsKept ==
  AtRest /\ view.lapses \intersect {"stale", "failed", "unread", "replaced"} = {} =>
    \A t \in view.cards :
      Cardinality({n \in Names : view.disk[n] # Null /\ \E c \in view.disk[n] : c.t = t}) = 1

\* ... with the description and the comments it was given.
NotesKept ==
  AtRest /\ view.lapses = {} =>
    \A n \in view.notes :
      n.t \in view.cards =>
        \E l \in {m \in Names : view.disk[m] # Null} : \E c \in view.disk[l] :
          /\ c.t = n.t
          /\ LET note == NoteOf(view.side[l], c.t, c.key)
             IN  IF n.desc THEN note.desc = n.at ELSE n.at \in note.comments

-----------------------------------------------------------------------------
(* The documents of a zone by workflow state, and a card that moves the       *)
(* selected one (WorkflowsPage, InstancesPanel, TransitionCard). The zone is   *)
(* the one of the store: it may change while the page is shown.               *)

Zones == {"z1", "z2"}
Docs == {"d1", "d2"}
States == {"draft", "review"}

\* The workflow of both zones: to review with a reason, and back without.
NeedsReason(to) == to = "review"
Other(s) == CHOOSE t \in States : t # s

\* A row of the dashboard is a snapshot of a document.
Row(z, d) == [zone |-> z, doc |-> d, state |-> view.host[z][d]]

Load(op, z) == <<[op |-> op, zone |-> z]>>

WorkflowInit ==
  view = [gestures |-> 0, lapses |-> {}, faults |-> 0, open |-> TRUE,
          calls |-> <<Load("workflow", "z1"), Load("dashboard", "z1")>>,
          host |-> [z \in Zones |-> [d \in Docs |-> IF d = "d1" THEN "draft" ELSE "review"]],
          zone |-> "z1", workflow |-> Null, dash |-> Null,
          wfLoading |-> TRUE, dashLoading |-> TRUE, wfError |-> FALSE, dashError |-> FALSE,
          selected |-> Null, busy |-> FALSE, error |-> FALSE, pending |-> Null, moves |-> {}]

LoadDashboard(v, z) ==
  Ask([v EXCEPT !.dashLoading = TRUE, !.dashError = FALSE], Load("dashboard", z))

\* Mutant: the documents are loaded when the page is opened, and no more.
ZoneChangedHalf ==
  \E z \in Zones \ {view.zone} :
    Gesture(Ask([view EXCEPT !.zone = z, !.wfLoading = TRUE, !.wfError = FALSE],
                Load("workflow", z)))

\* The store opens another zone; the page keeps its selection, and what it
\* shows until the answers come.
ZoneChanged ==
  \E z \in Zones \ {view.zone} :
    Gesture(LoadDashboard(Ask([view EXCEPT !.zone = z, !.wfLoading = TRUE, !.wfError = FALSE],
                              Load("workflow", z)), z))

WorkflowLoaded ==
  \E c \in Served({"workflow"}), ok \in BOOLEAN :
    Answer(ok, Lapse([view EXCEPT !.wfLoading = FALSE, !.wfError = ~ok,
                                  !.workflow = IF ok THEN c.zone ELSE @],
                     IF ok THEN {} ELSE {"failed"}))

DashboardLoaded ==
  \E c \in Served({"dashboard"}), ok \in BOOLEAN :
    Answer(ok, Lapse([view EXCEPT !.dashLoading = FALSE, !.dashError = ~ok,
                        !.dash = IF ok THEN [zone |-> c.zone, rows |-> {Row(c.zone, d) : d \in Docs}]
                                 ELSE @],
                     IF ok THEN {} ELSE {"failed"}))

ReloadDashboard == ~view.dashLoading /\ Gesture(LoadDashboard(view, view.zone))

\* The card stays mounted when another row is selected: its transition that
\* waits for a reason stays too (`inherited').
SelectDoc ==
  /\ view.workflow # Null /\ view.dash # Null
  /\ \E row \in view.dash.rows \ {view.selected} :
       Gesture(Lapse([view EXCEPT !.selected = row],
                     IF view.pending = Null THEN {} ELSE {"inherited"}))

\* Mutant: the card that is closed stays busy.
NoCardBusy(v) == [v EXCEPT !.selected = Null, !.error = FALSE, !.pending = Null]

NoCard(v) == [v EXCEPT !.selected = Null, !.busy = FALSE, !.error = FALSE, !.pending = Null]

Deselect == view.selected # Null /\ ~view.busy /\ Gesture(NoCard(view))

Execute(row, to, for) ==
  Gesture(Ask([view EXCEPT !.busy = TRUE, !.error = FALSE],
              <<[op |-> "move", doc |-> row.doc, zone |-> row.zone, to |-> to,
                 page |-> view.zone, picked |-> for]>>))

\* A transition of the selected row, out of the state the row shows.
InitiateTransition ==
  /\ view.selected # Null /\ ~view.busy /\ view.pending = Null
  /\ LET row == view.selected
         to == Other(row.state)
         for == [zone |-> row.zone, doc |-> row.doc]
     IN  IF NeedsReason(to) THEN Gesture([view EXCEPT !.pending = [to |-> to, for |-> for]])
         ELSE Execute(row, to, for)

ConfirmReason ==
  /\ view.selected # Null /\ ~view.busy /\ view.pending # Null
  /\ Execute(view.selected, view.pending.to, view.pending.for)

CancelReason == view.pending # Null /\ ~view.busy /\ Gesture([view EXCEPT !.pending = Null])

\* The host moves a document only along the workflow. The card is closed and
\* the zone of the gesture is loaded again, whatever is shown now (`late').
Moved ==
  \E c \in Served({"move"}), ok \in BOOLEAN :
    LET legal == view.host[c.zone][c.doc] = Other(c.to)
        done == [NoCard(view) EXCEPT !.host[c.zone][c.doc] = c.to, !.moves = @ \union {c}]
    IN  IF ok /\ legal
        THEN Answer(TRUE, LoadDashboard(Lapse(done, IF c.page # view.zone THEN {"late"} ELSE {}), c.page))
        ELSE Answer(~legal \/ ok, [view EXCEPT !.busy = FALSE, !.error = TRUE])

WorkflowNext ==
  \/ ZoneChanged \/ WorkflowLoaded \/ DashboardLoaded \/ ReloadDashboard
  \/ SelectDoc \/ Deselect \/ InitiateTransition \/ ConfirmReason \/ CancelReason \/ Moved \/ Leave

\* --- Properties.

\* When nothing is in flight, the schema and the documents are those of the zone.
ZoneShown ==
  view.calls = <<>> /\ view.lapses = {} =>
    /\ view.workflow = view.zone /\ view.dash.zone = view.zone
    /\ view.selected = Null => \A row \in view.dash.rows : row = Row(row.zone, row.doc)

\* A document is moved by the transition that was picked for it.
MovesAreOwn ==
  view.lapses = {} => \A m \in view.moves : m.picked = [zone |-> m.zone, doc |-> m.doc]

\* The card is busy exactly while its move is in flight.
BusyIsAwaited == view.busy <=> Waits(LAMBDA c : c.op = "move")
=============================================================================
