----------------------------- MODULE AudioFiles ----------------------------
(* The parts of the audio studio that read and write files: the rendering of  *)
(* the tracks to a file (OfflineRenderDialog), the orchestra that is checked  *)
(* and exported (CsdEditor), and the samples (AudioSampleBrowser). Each has a *)
(* state of its own: a behaviour is of one.                                   *)
(* The score that is rendered follows, a state machine of its own.            *)
EXTENDS Page, SequencesExt

Kinds == {"render", "orchestra", "samples"}
Of(kind) == view.kind = kind

\* A path that is typed may do without its suffix.
Paths == {"wav", "bare"}
Dirs == {"p", "q"}

\* `text' is what is to be written: the plan of the rendering, with its options, or
\* the orchestra with its score. `result' is what is said of it. `audio' and
\* `loop' are what is written where.
Init ==
  \E kind \in Kinds :
    view = [gestures |-> 0, lapses |-> {}, faults |-> 0, open |-> TRUE, kind |-> kind, text |-> 0,
            path |-> Null, state |-> "idle", result |-> Null, audio |-> [p \in Paths |-> Null],
            loop |-> Null, said |-> Null, dir |-> "p", entries |-> Null, loading |-> kind = "samples",
            calls |-> IF kind = "samples" THEN <<<<[op |-> "scan", dir |-> "p"]>>>> ELSE <<>>]

Change ==
  /\ ~Of("samples")
  /\ LET v == [view EXCEPT !.text = view.gestures + 1]
     IN  IF Of("orchestra") THEN Gesture([v EXCEPT !.result = Null]) ELSE Gesture(v)

\* --- The rendering.

TypePath == Of("render") /\ \E p \in Paths : Gesture([view EXCEPT !.path = p])

\* A path that is picked has the suffix, and replaces what is typed meanwhile.
Browse == Of("render") /\ Gesture(Ask(view, <<[op |-> "pick"]>>))

Picked ==
  \E c \in Served({"pick"}) : Answer(TRUE, [view EXCEPT !.path = "wav"]) \/ Answer(TRUE, view)

\* The loop goes to the file beside the audio: the audio file itself for a path
\* that has no suffix (`bare').
Render ==
  /\ Of("render") /\ view.state # "rendering" /\ view.path # Null
  /\ LET what == [path |-> view.path, text |-> view.text]
     IN  Gesture(Ask(Lapse([view EXCEPT !.state = "rendering"],
                           IF view.path = "bare" THEN {"bare"} ELSE {}),
                     <<[op |-> "audio", what |-> what], [op |-> "loop", what |-> what]>>))

AudioWritten ==
  \E c \in Served({"audio"}) :
    \/ Answer(TRUE, [view EXCEPT !.audio[c.what.path] = c.what.text])
    \/ AnswerThen(FALSE, [view EXCEPT !.state = "error"], <<>>)

\* That the loop could not be written is not said (`loopless').
LoopWritten ==
  \E c \in Served({"loop"}) :
    LET v == [view EXCEPT !.state = "done", !.said = c.what]
    IN  \/ Answer(TRUE, IF c.what.path = "bare" THEN [v EXCEPT !.audio["bare"] = "loop"]
                        ELSE [v EXCEPT !.loop = c.what.text])
        \/ Answer(FALSE, Lapse(v, {"loopless"}))

\* A rendering goes on when the dialog is closed; another can be started to the
\* same file (`again').
Reopen ==
  /\ Of("render")
  /\ Gesture(Lapse([view EXCEPT !.path = Null, !.state = "idle", !.said = Null],
                   IF view.state = "rendering" THEN {"again"} ELSE {}))

\* --- The orchestra.

\* What is said of it is of the text of the gesture (`edited').
Validate ==
  /\ Of("orchestra") /\ view.state # "checking"
  /\ Gesture(Ask([view EXCEPT !.state = "checking", !.result = Null],
                 <<[op |-> "check", text |-> view.text]>>))

Validated ==
  \E c \in Served({"check"}) :
    LET v == [view EXCEPT !.state = "idle", !.result = c.text]
    IN  Answer(TRUE, Lapse(v, IF c.text # view.text THEN {"edited"} ELSE {}))

\* So is what is written to the path that is picked after it.
Export ==
  /\ Of("orchestra") /\ view.path = Null
  /\ Gesture(Ask(view, <<[op |-> "place"], [op |-> "export", text |-> view.text]>>))

Placed ==
  \E c \in Served({"place"}) :
    \/ Answer(TRUE, [view EXCEPT !.path = "wav"])
    \/ AnswerThen(TRUE, view, <<>>)

Exported ==
  \E c \in Served({"export"}) :
    LET v == [view EXCEPT !.path = Null, !.result = c.text]
        edited == IF c.text # view.text THEN {"edited"} ELSE {}
    IN  Answer(TRUE, Lapse([v EXCEPT !.audio["wav"] = c.text], edited)) \/ Answer(FALSE, Lapse(v, edited))

\* --- The samples.

Navigate ==
  /\ Of("samples")
  /\ \E d \in Dirs :
       Gesture(Lapse(Ask([view EXCEPT !.loading = TRUE], <<[op |-> "scan", dir |-> d]>>),
                     IF view.loading THEN {"several"} ELSE {}))

\* Where it could not go, it does not go. The first of several answers ends the
\* loading (`several').
Scanned ==
  \E c \in Served({"scan"}) :
    LET v == [view EXCEPT !.loading = FALSE]
    IN  Answer(TRUE, [v EXCEPT !.dir = c.dir, !.entries = c.dir]) \/ Answer(FALSE, v)

Next ==
  \/ Change \/ TypePath \/ Browse \/ Picked \/ Render \/ AudioWritten \/ LoopWritten \/ Reopen
  \/ Validate \/ Validated \/ Export \/ Placed \/ Exported \/ Navigate \/ Scanned

\* --- Properties.

\* What is said to be rendered is in the file, with its loop beside it.
RenderedIsOwn ==
  view.lapses = {} /\ view.said # Null /\ ~Waits(LAMBDA c : c.op = "audio") =>
    /\ view.state = "done" => view.audio[view.said.path] = view.said.text
    /\ view.state = "done" /\ ~Waits(LAMBDA c : c.op = "loop") => view.loop = view.said.text

\* What is said of an orchestra is said of the one that is shown, and the samples
\* that are listed are those of the directory.
ResultShown ==
  view.lapses = {} =>
    /\ view.result \in {Null, view.text}
    /\ view.entries \in {Null, view.dir}

FilesBusy ==
  view.lapses = {} =>
    /\ view.loading <=> Waits(LAMBDA c : c.op = "scan")
    /\ view.state = "checking" <=> Waits(LAMBDA c : c.op = "check")
    /\ view.state = "rendering" <=> Waits(LAMBDA c : c.op \in {"audio", "loop"})

-----------------------------------------------------------------------------
(* The score of the offline renderer (arrangementToScore) next to what the    *)
(* step sequencer plays (the tick of AudioTimeline): two readings of the same *)
(* tracks and sections. A note is a track and the step it begins at. Pitch,   *)
(* tempo and tracks that play a patch, which the renderer leaves out, are not *)
(* here; Studio changes the sections in more ways.                             *)

Tracks == {"t", "u"}
Lengths == {1, 2}
Steps == {0, 1}

\* Bounds: the repeats of a section, the number of sections.
Repeats == {1, 2}
MaxSections == 2

Section == [repeat |-> 1, muted |-> {}, copy |-> [t \in Tracks |-> Null]]

\* `silent' are the tracks that mute and solo leave out. `wav' is what was rendered,
\* `heard' what the sequencer played of it then.
ScoreInit ==
  view = [gestures |-> 0, calls |-> <<>>, lapses |-> {}, faults |-> 0, open |-> TRUE,
          length |-> [t \in Tracks |-> 2], notes |-> [t \in Tracks |-> IF t = "t" THEN {0} ELSE {1}],
          silent |-> {}, sections |-> <<Section>>, wav |-> Null, heard |-> Null]

\* A cycle lasts as long as the longest track, and one step without any.
CycleLength(v, tracks) == Max({v.length[t] : t \in tracks} \union {1})

\* The cycles are sections. For the renderer, each as often as it is repeated.
Cycles(v) ==
  FlattenSeq([i \in DOMAIN v.sections |-> [k \in 1..v.sections[i].repeat |-> v.sections[i]]])

\* --- The renderer.

\* Every note once in a cycle, at its step modulo the length of its track.
Emitted(v, cycle, start) ==
  UNION {{<<t, start + (n % v.length[t])>> :
            n \in IF cycle.copy[t] = Null THEN v.notes[t] ELSE cycle.copy[t]} : t \in Tracks \ cycle.muted}

\* One cycle after the other.
Score(v, cycles) ==
  FoldLeft(LAMBDA plan, cycle :
             [end |-> plan.end + CycleLength(v, Tracks \ cycle.muted),
              notes |-> plan.notes \union Emitted(v, cycle, plan.end)],
           [end |-> 0, notes |-> {}], cycles)

\* Without the arrangement: one cycle of what is not silent.
Once(v) == <<[Section EXCEPT !.muted = v.silent]>>

\* --- The sequencer.

\* The arranger counts the cycles of the section it is in, and goes on to the next.
Played(v) ==
  LET next(p) == IF p.at > Len(v.sections) THEN p
                 ELSE IF p.count + 1 < v.sections[p.at].repeat THEN [p EXCEPT !.count = @ + 1]
                 ELSE [at |-> p.at + 1, count |-> 0]
      place[k \in 1 .. Len(v.sections) * Max(Repeats)] ==
        IF k = 1 THEN [at |-> 1, count |-> 0] ELSE next(place[k - 1])
      places == SelectSeq(place, LAMBDA p : p.at <= Len(v.sections))
  IN  [k \in DOMAIN places |-> v.sections[places[k].at]]

\* Step after step, every track from its own beginning when it is at its end.
Heard(v, cycles) ==
  LET length == CycleLength(v, Tracks)
  IN  [end |-> Len(cycles) * length,
       notes |-> {<<t, at>> \in Tracks \X (0 .. (Len(cycles) * length) - 1) :
                    /\ t \notin v.silent /\ t \notin cycles[(at \div length) + 1].muted
                    /\ (at % length) % v.length[t] \in v.notes[t]}]

\* --- The tracks and the sections.

ToggleStep ==
  \E t \in Tracks, s \in Steps :
    /\ s < view.length[t]
    /\ Gesture([view EXCEPT !.notes[t] = IF s \in @ THEN @ \ {s} ELSE @ \union {s}])

\* The notes beyond a shorter length stay.
SetLength ==
  \E t \in Tracks, n \in Lengths : n # view.length[t] /\ Gesture([view EXCEPT !.length[t] = n])

Silence == \E s \in {{}, {"t"}} \ {view.silent} : Gesture([view EXCEPT !.silent = s])

AddSection ==
  /\ Len(view.sections) < MaxSections
  /\ Gesture([view EXCEPT !.sections = Append(@, Section)])

SetRepeat ==
  \E i \in DOMAIN view.sections, n \in Repeats :
    n # view.sections[i].repeat /\ Gesture([view EXCEPT !.sections[i].repeat = n])

ToggleSlot ==
  \E i \in DOMAIN view.sections, t \in Tracks :
    Gesture([view EXCEPT !.sections[i].muted = IF t \in @ THEN @ \ {t} ELSE @ \union {t}])

\* A pattern can bring a section with its own copy of a track.
LoadCopy ==
  \E i \in DOMAIN view.sections, t \in Tracks :
    view.sections[i].copy[t] = Null /\ Gesture([view EXCEPT !.sections[i].copy[t] = {0}])

\* The rendered tracks are not those that are heard where a track is shorter than
\* the cycle or has notes beyond its end (`uneven', `beyond'), where the arrangement
\* is rendered while tracks are silent or have copies (`silent', `copied'), and
\* where a cycle has no track at all (`rest').
When(condition, name) == IF condition THEN {name} ELSE {}

Apart(v, cycles, arranged) ==
  UNION {When(Cardinality({v.length[t] : t \in Tracks}) > 1, "uneven"),
         When(\E t \in Tracks : \E n \in v.notes[t] : n >= v.length[t], "beyond"),
         When(arranged /\ v.silent # {}, "silent"),
         When(\E k \in DOMAIN cycles : \E t \in Tracks : cycles[k].copy[t] # Null, "copied"),
         When(\E k \in DOMAIN cycles : Tracks \subseteq cycles[k].muted, "rest")}

RenderScore ==
  \E arranged \in BOOLEAN :
    LET cycles == IF arranged THEN Cycles(view) ELSE Once(view)
        played == IF arranged THEN Played(view) ELSE Once(view)
    IN  Gesture(Lapse([view EXCEPT !.wav = Score(view, cycles), !.heard = Heard(view, played)],
                      Apart(view, cycles, arranged)))

ScoreNext ==
  \/ ToggleStep \/ SetLength \/ Silence \/ AddSection \/ SetRepeat \/ ToggleSlot \/ LoadCopy \/ RenderScore

\* --- Properties.

\* What is rendered is what is heard, note by note, and as long.
RenderedAsHeard == view.lapses = {} => view.wav = view.heard
=============================================================================
