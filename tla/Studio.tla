------------------------------- MODULE Studio -------------------------------
(* The project of the audio studio (AudioTimelinePage): the tracks and the    *)
(* arrangement it shows, the project file they are loaded from when it opens, *)
(* and the save that follows an edit of the tracks after a pause.             *)
(* Playing the tracks follows, a state machine of its own.                    *)
EXTENDS Page, SequencesExt

Names == {"untitled", "song"}

\* The tracks and their number, the sections and the number of tracks they have
\* a slot for; what changes has the number of its gesture.
Doc(tracks, sections, count) ==
  [tracks |-> tracks, sections |-> sections, count |-> count, slots |-> count]

empty == Doc(0, 0, 1)
stored == Doc(1, 1, 2)
new == view.gestures + 2

\* As the page is opened, its tracks are changed once, which starts a save of the
\* empty project; the most recent project is asked for.
Init ==
  \E recent \in Names \union {Null} :
    view = [gestures |-> 0, calls |-> <<<<[op |-> "list"]>>>>, lapses |-> {}, faults |-> 0,
            open |-> TRUE, name |-> "untitled", doc |-> empty, want |-> empty, touched |-> FALSE,
            timer |-> [name |-> "untitled", doc |-> empty], recent |-> recent,
            disk |-> [n \in Names |-> IF n = recent THEN stored ELSE Null], file |-> Null]

\* The most recent project: the one there was, before anything is saved.
Listed ==
  \E c \in Served({"list"}) :
    \/ AnswerThen(TRUE, view, IF view.recent = Null THEN <<>>
                              ELSE <<[op |-> "load", name |-> view.recent]>>)
    \/ Answer(FALSE, Lapse(view, {"unread"}))

\* A preset replaces tracks and arrangement, and is saved as the project.
Applied(v, doc, name) ==
  IF v.open THEN [v EXCEPT !.doc = doc, !.name = name, !.timer = [name |-> name, doc |-> doc]] ELSE v

\* Edits made before the project is there are lost (`early').
Loaded ==
  \E c \in Served({"load"}) :
    \/ Answer(TRUE, Lapse([Applied(view, view.disk[c.name], c.name) EXCEPT !.want = view.disk[c.name]],
                          IF view.touched THEN {"early"} ELSE {}))
    \/ Answer(FALSE, Lapse(view, {"unread"}))

Edit(doc) ==
  Gesture([view EXCEPT !.doc = doc, !.want = doc, !.touched = TRUE,
                       !.timer = [name |-> view.name, doc |-> doc]])

\* Notes, mode, length, mute, solo, octave, scale, instrument or patch of a
\* track, or the tempo.
EditTrack == Edit([view.doc EXCEPT !.tracks = new])

\* The sections get a slot for the track after the save has been started with
\* what it will write (`slotless').
AddTrack ==
  LET added == [view.doc EXCEPT !.tracks = new, !.count = @ + 1]
      doc == [added EXCEPT !.slots = added.count]
  IN  Gesture(Lapse([view EXCEPT !.doc = doc, !.want = doc, !.touched = TRUE,
                                 !.timer = [name |-> view.name, doc |-> added]],
                    {"slotless"}))

\* A change of the arrangement starts no save (`sections').
EditSections ==
  LET doc == [view.doc EXCEPT !.sections = new]
  IN  Gesture(Lapse([view EXCEPT !.doc = doc, !.want = doc, !.touched = TRUE], {"sections"}))

\* The save comes due, 800 ms after the last edit. The one of the opening
\* replaces the project that is being loaded (`wiped').
SaveDue ==
  /\ view.open /\ view.timer # Null
  /\ LET loading == Waits(LAMBDA c : c.op \in {"list", "load"})
         v == Ask([view EXCEPT !.timer = Null],
                  <<[op |-> "save", name |-> view.timer.name, doc |-> view.timer.doc]>>)
     IN  view' = Lapse(v, IF loading /\ view.disk[view.timer.name] # Null THEN {"wiped"} ELSE {})

\* That it failed is only logged.
Saved ==
  \E c \in Served({"save"}) :
    \/ Answer(TRUE, [view EXCEPT !.disk[c.name] = c.doc])
    \/ Answer(FALSE, Lapse(view, {"unsaved"}))

\* An example, or the pattern of a file: picked, read and applied. An edit made
\* meanwhile is lost (`meanwhile').
LoadBundled == Edit(Doc(new, new, 2))

LoadPattern == Gesture(Ask(view, <<[op |-> "open", seen |-> view.doc]>>))

PatternRead ==
  \E c \in Served({"open"}) :
    LET doc == Doc(new + 100, new, 2)
    IN  \/ Answer(TRUE, Lapse([Applied(view, doc, view.name) EXCEPT !.want = doc, !.touched = TRUE],
                              IF c.seen # view.doc THEN {"meanwhile"} ELSE {}))
        \/ Answer(FALSE, view)

\* The pattern of the gesture is written to the path that is picked after it
\* (`since').
SavePattern == Gesture(Ask(view, <<[op |-> "pick", doc |-> view.doc], [op |-> "export", doc |-> view.doc]>>))

PathPicked ==
  \E c \in Served({"pick"}) :
    \/ Answer(TRUE, Lapse(view, IF c.doc # view.doc THEN {"since"} ELSE {}))
    \/ AnswerThen(TRUE, view, <<>>)

Exported ==
  \E c \in Served({"export"}) :
    \/ Answer(TRUE, Lapse([view EXCEPT !.file = [doc |-> c.doc, shown |-> view.doc]],
                          IF c.doc # view.doc THEN {"since"} ELSE {}))
    \/ Answer(FALSE, view)

\* The studio is closed, with the save that was to come (`closed').
Close ==
  Gesture(Lapse([view EXCEPT !.open = FALSE, !.timer = Null],
                IF view.timer # Null THEN {"closed"} ELSE {}))

Next ==
  \/ Listed \/ Loaded \/ EditTrack \/ AddTrack \/ EditSections \/ SaveDue \/ Saved \/ LoadBundled
  \/ LoadPattern \/ PatternRead \/ SavePattern \/ PathPicked \/ Exported \/ Close

\* --- Properties.

\* What was edited last is what is shown, and on disk when nothing is to be saved.
ProjectKept ==
  view.lapses = {} =>
    /\ view.open => view.doc = view.want
    /\ view.touched /\ view.timer = Null /\ view.calls = <<>> => view.disk[view.name] = view.doc

\* A project nobody touches stays what it is; a pattern that is written to a file
\* is the one that is shown.
ProjectIsOwn ==
  view.lapses = {} =>
    /\ ~view.touched /\ view.recent # Null => view.disk[view.recent] = stored
    /\ view.file # Null => view.file.doc = view.file.shown

\* When nothing is in flight, the studio shows the project it was opened for, and
\* every section has a slot for every track.
ProjectShown ==
  view.lapses = {} /\ view.open /\ ~Waits(LAMBDA c : c.op \in {"list", "load"}) =>
    /\ view.recent # Null => view.name = view.recent
    /\ view.doc.slots = view.doc.count

-----------------------------------------------------------------------------
(* Playing in the audio studio: the clock of the step sequencer               *)
(* (AudioTimeline), the arranger that advances through the sections           *)
(* (useArrangement), and which tracks are heard (mute and solo).              *)

Tracks == {"t", "u"}

\* Bounds: the number of sections, the repeats of one.
MaxSections == 3
MaxRepeat == 3

\* A section is played `repeat' cycles long. (The slots of a section that mute a
\* track for it alone are in its state, the audible set below is without them.)
Section(id, repeat) == [id |-> id, repeat |-> repeat, muted |-> {}]

\* `active' is the index of the section being played, `place' the section the
\* user last saw it enter; `played' counts its cycles as heard, `counter' as the
\* arranger does. A clock is an interval that is not cleared; `timer' is the one
\* the component knows.
SequencerInit ==
  view = [gestures |-> 0, calls |-> <<>>, lapses |-> {}, faults |-> 0, open |-> TRUE,
          mute |-> {}, solo |-> {}, silent |-> {},
          sections |-> <<Section(1, 1), Section(2, 2)>>, active |-> 1, place |-> 1, counter |-> 0,
          played |-> 0, loop |-> TRUE, skipped |-> FALSE,
          clocks |-> {}, timer |-> Null, playing |-> FALSE, awake |-> FALSE]

\* --- The clock.

Tick(v) ==
  LET id == v.gestures + 1
  IN  [v EXCEPT !.clocks = @ \union {id}, !.timer = id, !.playing = v.open, !.awake = TRUE]

\* A sleeping audio context is woken first, and the clock started after that. The
\* button still says play meanwhile (`twice'), and the page can be closed (`left').
Start ==
  /\ ~view.playing
  /\ IF view.awake THEN Gesture(Tick(view))
     ELSE Gesture(Lapse(Ask(view, <<[op |-> "resume"]>>),
                        IF Waits(LAMBDA c : c.op = "resume") THEN {"twice"} ELSE {}))

Resumed == \E c \in Served({"resume"}) : Answer(TRUE, Tick(view))

Stopped(v) ==
  [v EXCEPT !.clocks = @ \ {v.timer}, !.timer = Null, !.playing = FALSE]

Stop == view.playing /\ Gesture(Stopped(view))

SequencerClose ==
  Gesture(Lapse([view EXCEPT !.open = FALSE, !.clocks = @ \ {view.timer}],
                IF Waits(LAMBDA c : c.op = "resume") THEN {"left"} ELSE {}))

\* --- The arranger. It goes on with the index, whatever section is there.

Enter(v, i) == [v EXCEPT !.active = i, !.place = v.sections[i].id, !.played = 0]

\* A cycle of the section at i has been played: `counter' decides whether the next
\* section is entered. After the last, an arrangement that does not loop stays.
Cycled(w, i) ==
  LET section == w.sections[i]
      v == [w EXCEPT !.played = @ + 1]
      done == [v EXCEPT !.counter = 0, !.skipped = @ \/ v.played # section.repeat]
  IN  IF w.counter + 1 < section.repeat THEN [v EXCEPT !.counter = @ + 1]
      ELSE IF i < Len(w.sections) THEN Enter(done, i + 1)
      ELSE IF w.loop THEN Enter(done, 1)
      ELSE [done EXCEPT !.played = 0]

\* A tick that comes late plays two cycles, the second for the section of the
\* first (`behind').
Cycle ==
  /\ view.clocks # {} /\ view.open
  /\ LET once == Cycled(view, view.active)
     IN  view' = once \/ view' = Lapse(Cycled(once, view.active), {"behind"})

AddSection ==
  /\ Len(view.sections) < MaxSections
  /\ Gesture([view EXCEPT !.sections = Append(@, Section(view.gestures + 3, 1))])

\* The index goes back by one, and the counter goes on: right for a section that
\* is before the active one (`removed').
RemoveSection ==
  /\ Len(view.sections) > 1
  /\ \E i \in DOMAIN view.sections :
       LET v == [view EXCEPT !.sections = RemoveAt(@, i), !.active = IF @ > 1 THEN @ - 1 ELSE 1]
       IN  Gesture(Lapse(v, IF i >= view.active THEN {"removed"} ELSE {}))

\* The index stays with the place, not with the section (`moved').
MoveSection ==
  \E i \in 1..Len(view.sections) - 1 :
    LET swapped == [view EXCEPT !.sections[i] = view.sections[i + 1], !.sections[i + 1] = view.sections[i]]
    IN  Gesture(Lapse(swapped, IF view.active \in {i, i + 1} THEN {"moved"} ELSE {}))

\* A number of cycles below those already played is noticed a cycle later
\* (`shorter').
SetRepeat ==
  \E i \in DOMAIN view.sections : \E d \in {"more", "fewer"} :
    LET repeat == view.sections[i].repeat
        next == IF d = "more" THEN repeat + 1 ELSE IF repeat > 1 THEN repeat - 1 ELSE 1
    IN  /\ next <= MaxRepeat
        /\ Gesture(Lapse([view EXCEPT !.sections[i].repeat = next],
                         IF i = view.active /\ next <= view.counter THEN {"shorter"} ELSE {}))

GoToSection ==
  \E i \in DOMAIN view.sections : Gesture([Enter(view, i) EXCEPT !.counter = 0])

ToggleLoop == Gesture([view EXCEPT !.loop = ~@])

ToggleSlot ==
  \E i \in DOMAIN view.sections, t \in Tracks :
    Gesture([view EXCEPT !.sections[i].muted = IF t \in @ THEN @ \ {t} ELSE @ \union {t}])

\* --- Mute and solo. `silent' is what the clock looks at.

Heard(v) == IF v.solo # {} THEN v.solo ELSE Tracks \ v.mute

Mute ==
  \E t \in Tracks :
    LET v == [view EXCEPT !.mute = IF t \in @ THEN @ \ {t} ELSE @ \union {t}]
    IN  Gesture([v EXCEPT !.silent = Tracks \ Heard(v)])

\* A solo that is taken back leaves the other tracks silent (`unsolo').
Solo ==
  \E t \in Tracks :
    IF t \in view.solo
    THEN Gesture(Lapse([view EXCEPT !.solo = @ \ {t}], {"unsolo"}))
    ELSE LET v == [view EXCEPT !.solo = {t}] IN Gesture([v EXCEPT !.silent = Tracks \ v.solo])

SequencerNext ==
  \/ Start \/ Resumed \/ Stop \/ SequencerClose \/ Cycle \/ AddSection \/ RemoveSection \/ MoveSection
  \/ SetRepeat \/ GoToSection \/ ToggleLoop \/ ToggleSlot \/ Mute \/ Solo

\* --- Properties.

\* One clock runs while the studio says it plays, and none otherwise.
OneClock ==
  view.lapses = {} => view.clocks = IF view.playing /\ view.open THEN {view.timer} ELSE {}

\* The section that is played is the one that was entered, for as many cycles as
\* it says, whatever is added, removed or moved around it.
SectionsPlayed ==
  view.lapses = {} =>
    /\ view.sections[view.active].id = view.place
    /\ ~view.skipped

\* The tracks that are silent are those that are not heard by what is shown.
SilentAsShown == view.lapses = {} => view.silent = Tracks \ Heard(view)
=============================================================================
