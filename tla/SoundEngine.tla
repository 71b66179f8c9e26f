----------------------------- MODULE SoundEngine ---------------------------
(* The sound engine of the audio studio: one for the program (CsoundEngine),  *)
(* used by the editor of orchestras (CsdEditor, through useCsound) and by the *)
(* patcher (usePatch), whose patch is routed by a loop of animation frames    *)
(* (PatchEngine). What is sent to an engine that performs (events, channels)  *)
(* changes nothing of this, and is left out.                                  *)
(* The registry of patches follows, a state machine of its own.               *)
EXTENDS Page

\* The engine tells its changes of state to the component that made it, which is
\* the editor: it is mounted first. `told' is whether that one is still mounted.
\* `shown' is the state the editor knows; the patcher knows none.
Fresh == [state |-> "loading", told |-> TRUE, whole |-> FALSE]

\* A patch is the set of its blocks, `compiled' those of the orchestra the engine
\* has, `routed' the patch of the loop.
Init ==
  view = [gestures |-> 0, calls |-> <<<<[op |-> "init"]>>>>, lapses |-> {}, faults |-> 0, open |-> TRUE,
          engine |-> Fresh, shown |-> "loading", ref |-> FALSE, failed |-> FALSE,
          patch |-> {}, held |-> FALSE, playing |-> FALSE, compiled |-> {}, routed |-> {}, loop |-> FALSE]

SetState(v, s) == [v EXCEPT !.engine.state = s, !.shown = IF v.engine.told THEN s ELSE @]

\* What could not be loaded is not loaded again.
Loaded ==
  \E c \in Served({"init"}) :
    \/ Answer(TRUE, [SetState(view, "ready") EXCEPT !.engine.whole = TRUE, !.ref = view.open])
    \/ Answer(FALSE, [SetState(view, "error") EXCEPT !.failed = view.open])

\* The studio is closed: the editor takes no more news; what plays goes on, and a
\* patch that is being started will (`left').
Close ==
  Gesture(Lapse([view EXCEPT !.open = FALSE, !.engine.told = FALSE, !.ref = FALSE, !.held = FALSE,
                             !.playing = FALSE],
                IF view.engine.state = "playing" \/ view.loop \/ Waits(LAMBDA c : c.op \in {"compile", "start"})
                THEN {"left"} ELSE {}))

\* It is opened again: the engine is there, and tells the editor nothing
\* (`again').
Reopen ==
  /\ ~view.open /\ view.gestures < Gestures
  /\ view' = Lapse([view EXCEPT !.open = TRUE, !.gestures = @ + 1, !.shown = "idle", !.failed = FALSE,
                                !.ref = TRUE, !.patch = {}],
                   {"again"})

\* --- The editor of orchestras.

Run == view.shown = "ready" /\ view.ref /\ Gesture(Ask(view, <<[op |-> "compile", blocks |-> {}]>>))

\* An orchestra that is wrong is refused; the instruments there are stay.
Compiled ==
  \E c \in Served({"compile"}) :
    LET v == [SetState(view, "playing") EXCEPT !.compiled = @ \union c.blocks]
    IN  Answer(TRUE, v) \/ AnswerThen(FALSE, view, <<>>)

\* The engine is stopped, and forgets its instruments, for the patcher too
\* (`other').
StopEngine == <<[op |-> "stop"]>>

StopLive ==
  view.shown = "playing" /\ view.ref
  /\ Gesture(Ask(Lapse(view, IF view.playing \/ view.loop \/ Waits(LAMBDA c : c.op = "start") THEN {"other"} ELSE {}),
                 StopEngine))

StoppedEngine ==
  \E c \in Served({"stop"}) : Answer(TRUE, [SetState(view, "ready") EXCEPT !.compiled = {}])

\* A performance ends by itself; the patcher is not told (`ended').
Ends ==
  /\ view.engine.state = "playing" /\ view.faults < MaxFaults
  /\ view' = [Lapse(SetState(view, "ready"), IF view.playing \/ Waits(LAMBDA c : c.op = "start") THEN {"ended"} ELSE {})
                 EXCEPT !.faults = @ + 1]

\* --- The patcher.

\* A block is added to, or removed from, the patch, or another patch is loaded:
\* the loop takes it when there is an engine. A block that is added while it plays
\* has no instrument (`added').
EditPatch ==
  \E patch \in SUBSET {"a", "b"} \ {view.patch} :
    LET started == Waits(LAMBDA c : c.op = "start")
        v == [view EXCEPT !.patch = patch, !.routed = IF view.held THEN patch ELSE @]
    IN  Gesture(Lapse(v, (IF view.playing /\ ~(patch \subseteq view.compiled) THEN {"added"} ELSE {})
                         \union (IF started THEN {"since"} ELSE {})))

\* The engine is asked for, its orchestra compiled, and the loop started with the
\* patch of the gesture (`since'); a patch without blocks has no orchestra. An
\* engine that is being loaded, or could not be, is there all the same: it throws
\* when it is to compile, and nothing is started. That a start is under way is not
\* seen (`twice').
Start(v, patch) == [v EXCEPT !.routed = patch, !.loop = TRUE, !.playing = v.open]

StartPatch ==
  /\ ~view.playing
  /\ LET v == Lapse([view EXCEPT !.held = TRUE],
                    IF Waits(LAMBDA c : c.op = "start") THEN {"twice"} ELSE {})
     IN  IF view.patch = {} THEN Gesture(Start(v, {}))
         ELSE IF ~view.engine.whole THEN Gesture(v)
         ELSE Gesture(Ask(v, <<[op |-> "compile", blocks |-> view.patch],
                               [op |-> "start", patch |-> view.patch]>>))

Started == \E c \in Served({"start"}) : Answer(TRUE, Start(view, c.patch))

\* The loop is stopped at once, the engine after it; the button can be used until
\* then, and the second answer tells nothing of what is started meanwhile
\* (`stopping'). An engine that is not loaded throws, and the patcher shows that it
\* plays (`unstopped').
StopPatch ==
  /\ view.playing
  /\ LET v == [view EXCEPT !.loop = FALSE]
     IN  IF ~view.engine.whole THEN Gesture(Lapse(v, {"unstopped"}))
         ELSE Gesture(Ask(Lapse(v, IF Waits(LAMBDA c : c.op = "stopped") THEN {"stopping"} ELSE {}),
                          StopEngine \o <<[op |-> "stopped"]>>))

Stopped ==
  \E c \in Served({"stopped"}) : Answer(TRUE, [view EXCEPT !.playing = FALSE])

Next ==
  \/ Loaded \/ Close \/ Reopen \/ Run \/ Compiled \/ StopLive \/ StoppedEngine \/ Ends
  \/ EditPatch \/ StartPatch \/ Started \/ StopPatch \/ Stopped

\* --- Properties.

\* When nothing is in flight, the editor shows the state of the engine, and the
\* patcher plays the patch it shows, every block of it.
EngineShown ==
  view.lapses = {} /\ view.open /\ view.calls = <<>> =>
    /\ view.shown = view.engine.state
    /\ view.playing => view.routed = view.patch /\ view.patch \subseteq view.compiled

\* The loop runs while the patcher plays, and the engine with it.
LoopIsPlaying ==
  view.lapses = {} /\ view.calls = <<>> =>
    /\ view.loop <=> view.playing
    /\ view.playing /\ view.patch # {} => view.engine.state = "playing"

-----------------------------------------------------------------------------
(* The patches of the audio studio: the registry that the patcher and the     *)
(* sequencer share (PatchStoreProvider), and the patcher, which shows one of  *)
(* them and edits a copy that it puts back (PatchWorkstation, usePatch).      *)

Names == {"m", "n"}
Blocks == {"a", "b"}

\* A cable drives the parameter of a block from a port of another; of each block
\* one parameter and one port are taken.
Patch(blocks, cables) == [blocks |-> blocks, cables |-> cables]
Empty == Patch({}, {})

Entry(id, name, patch) == [id |-> id, name |-> name, patch |-> patch]

\* An edit is put back as soon as the patcher has shown it.
Put(v, id, patch) == [v EXCEPT !.entries = {IF e.id = id THEN [e EXCEPT !.patch = patch] ELSE e : e \in @}]

Show(v, id, patch) == Put([v EXCEPT !.active = id, !.patch = patch], id, patch)

\* The patcher makes a patch when it finds none. `track' is the patch a track of
\* the sequencer plays, and the name it had when it was chosen.
PatcherInit ==
  view = [gestures |-> 0, calls |-> <<>>, lapses |-> {}, faults |-> 0, open |-> TRUE,
          entries |-> {Entry(0, "m", Empty)}, active |-> 0, patch |-> Empty, editing |-> Null,
          track |-> Null, file |-> Null]

id == view.gestures + 1

Of(k) == CHOOSE e \in view.entries : e.id = k
Known(k) == \E e \in view.entries : e.id = k

Create ==
  \E name \in Names :
    Gesture(Show([view EXCEPT !.entries = @ \union {Entry(id, name, Empty)}], id, Empty))

Select == \E e \in view.entries : Gesture(Show(view, e.id, e.patch))

Rename ==
  \E e \in view.entries, name \in Names :
    Gesture([view EXCEPT !.entries = (@ \ {e}) \union {[e EXCEPT !.name = name]}])

\* A track that plays it plays nothing, and is saved without it (`used'). When it
\* is the last one, a new one is made.
Remove ==
  \E e \in view.entries :
    LET rest == view.entries \ {e}
        v == Lapse([view EXCEPT !.entries = rest], IF view.track = e.id THEN {"used"} ELSE {})
    IN  IF view.active # e.id THEN Gesture(v)
        ELSE IF rest = {} THEN Gesture(Show([v EXCEPT !.entries = {Entry(id, "m", Empty)}], id, Empty))
        ELSE \E f \in rest : Gesture(Show(v, f.id, f.patch))

\* --- The patch that is shown. It is not the one of the registry when a pattern
\* has brought another of its name (`imported').

Edit(v, patch) == Gesture(Put([v EXCEPT !.patch = patch], v.active, patch))

AddBlock ==
  \E b \in Blocks \ view.patch.blocks : Edit(view, [view.patch EXCEPT !.blocks = @ \union {b}])

RemoveBlock ==
  \E b \in view.patch.blocks :
    Edit(view, Patch(view.patch.blocks \ {b}, {c \in view.patch.cables : b \notin {c[1], c[2]}}))

\* A cell of the matrix: no cable, and one is put, in place of the one that drives
\* the parameter; a cable, and its transform is shown; that one, and it is taken
\* away.
Cell ==
  \E s, t \in view.patch.blocks :
    /\ s # t
    /\ LET others == {c \in view.patch.cables : c[2] # t}
       IN  IF <<s, t>> \notin view.patch.cables
           THEN Edit(view, [view.patch EXCEPT !.cables = others \union {<<s, t>>}])
           ELSE IF view.editing = <<s, t>>
           THEN Edit([view EXCEPT !.editing = Null], [view.patch EXCEPT !.cables = @ \ {<<s, t>>}])
           ELSE Gesture([view EXCEPT !.editing = <<s, t>>])

\* --- Files. A preset replaces the patch of its name, or makes one.

Preset == Patch({"a"}, {})

Named(name) == {e \in view.entries : e.name = name}

\* The entries of the gesture are looked through when it is read: one that is gone
\* by then is shown and is not there (`gone'), one that came since is made again
\* (`since').
LoadPreset ==
  \E name \in Names : Gesture(Ask(view, <<[op |-> "open", name |-> name, known |-> Named(name)]>>))

PresetRead ==
  \E c \in Served({"open"}) :
    LET first == CHOOSE e \in c.known : TRUE
        gone == IF Known(first.id) THEN {} ELSE {"gone"}
        v == IF c.known = {} THEN [view EXCEPT !.entries = @ \union {Entry(100 + id, c.name, Preset)}]
             ELSE [view EXCEPT !.entries = {IF e.id = first.id THEN [e EXCEPT !.name = c.name] ELSE e : e \in @}]
    IN  \/ Answer(TRUE, IF c.known = {}
                        THEN Lapse(Show(v, 100 + id, Preset), IF Named(c.name) # {} THEN {"since"} ELSE {})
                        ELSE Lapse(Show(v, first.id, Preset), gone))
        \/ Answer(FALSE, view)

\* The patch of the gesture is written to the path that is picked after it
\* (`before').
SavePreset ==
  Known(view.active) /\ Gesture(Ask(view, <<[op |-> "save", entry |-> Of(view.active)]>>))

PresetSaved ==
  \E c \in Served({"save"}) :
    \/ Answer(TRUE, Lapse([view EXCEPT !.file = [saved |-> c.entry.patch, shown |-> view.patch]],
                          IF view.patch # c.entry.patch THEN {"before"} ELSE {}))
    \/ Answer(FALSE, view)

\* A pattern brings its patches: those it finds by name are replaced, in the
\* registry only.
ImportPattern ==
  \E name \in Names :
    LET found == CHOOSE e \in Named(name) : \A f \in Named(name) : e.id <= f.id
    IN  IF Named(name) = {} THEN Gesture([view EXCEPT !.entries = @ \union {Entry(id, name, Preset)}])
        ELSE Gesture(Lapse(Put(view, found.id, Preset),
                           IF found.id = view.active /\ view.patch # Preset THEN {"imported"} ELSE {}))

\* --- The sequencer.

PickPatch == \E e \in view.entries : Gesture([view EXCEPT !.track = e.id])

PatcherNext ==
  \/ Create \/ Select \/ Rename \/ Remove \/ AddBlock \/ RemoveBlock \/ Cell \/ LoadPreset
  \/ PresetRead \/ SavePreset \/ PresetSaved \/ ImportPattern \/ PickPatch

\* --- Properties.

\* The patch that is edited is in the registry as it is shown, and in the file it
\* is saved to; a track finds the patch it plays, and every cable joins blocks of
\* its patch, one for a parameter.
PatchKept ==
  view.lapses = {} =>
    /\ view.file # Null => view.file.saved = view.file.shown
    /\ Known(view.active) /\ Of(view.active).patch = view.patch
    /\ view.track # Null => Known(view.track)
    /\ \A e \in view.entries : \A c \in e.patch.cables :
         {c[1], c[2]} \subseteq e.patch.blocks /\ \A d \in e.patch.cables : c[2] = d[2] => c = d
=============================================================================
