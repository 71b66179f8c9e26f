-------------------------------- MODULE Page --------------------------------
(* What the pages of the dashboard have in common. A page is a React          *)
(* component: `view' is its state, with the files it works on, and a handler  *)
(* of a gesture or of an answer is one step. A call of the host waits in      *)
(* view.calls: the first one is performed and answered in one step, before or *)
(* after the gestures made meanwhile, and since the host's bindings run on    *)
(* the threads of a pool, a call may first be overtaken by later ones. A form *)
(* or a confirmation that holds nothing but its own input is part of the      *)
(* gesture that commits it.                                                   *)
(* The store that some of them share follows.                                 *)
EXTENDS Naturals, Sequences, FiniteSets, TLC

CONSTANTS Null,     \* no value
          Gestures, \* bound: gestures made on a page
          MaxCalls, \* bound: calls of a page in flight when a gesture is made
          MaxFaults \* bound: calls of a page that fail

VARIABLE view

\* A handler that awaits several calls is a script: its first call is in the
\* queue, the next one is made when that is answered.
Ask(v, script) == [v EXCEPT !.calls = Append(@, script)]

Drop(v, Dropped(_)) == [v EXCEPT !.calls = SelectSeq(@, LAMBDA s : ~Dropped(Head(s)))]

Waits(Kind(_)) == \E i \in DOMAIN view.calls : \E j \in DOMAIN view.calls[i] : Kind(view.calls[i][j])

\* The call the host serves next, if it is one of those.
Served(ops) ==
  IF view.calls # <<>> /\ Head(Head(view.calls)).op \in ops THEN {Head(Head(view.calls))} ELSE {}

\* The page takes the answer, good or not, becomes v and goes on with a script.
AnswerThen(ok, v, script) ==
  /\ ok \/ view.faults < MaxFaults
  /\ view' = [v EXCEPT !.calls = Tail(@) \o (IF script = <<>> THEN <<>> ELSE <<script>>),
                      !.faults = IF ok THEN @ ELSE @ + 1]

Rest == Tail(Head(view.calls))

Answer(ok, v) == AnswerThen(ok, v, Rest)

\* A call is overtaken by those made after it.
Overtaken(v) == [v EXCEPT !.calls = Tail(@) \o <<Head(@)>>]

\* A gesture on the page while it is open.
Gesture(v) ==
  /\ view.open
  /\ view.gestures < Gestures
  /\ Len(view.calls) < MaxCalls
  /\ view' = [v EXCEPT !.gestures = @ + 1]

\* The page is closed; its timers and its calls go on.
Leave == Gesture([view EXCEPT !.open = FALSE])

\* The cases a property names as exceptions, as they happen. A bound of the
\* runs: a page is not followed beyond its first lapse.
BeforeLapse == view.lapses = {}

Lapse(v, cases) == [v EXCEPT !.lapses = @ \union cases]

-----------------------------------------------------------------------------
(* The store that the parts of the dashboard share: the zone, the directory   *)
(* that is listed, the selected file and what the viewer shows of it          *)
(* (dms-store).                                                               *)

NoFile == [sel |-> Null, vpath |-> Null, content |-> Null, meta |-> Null, stats |-> Null]

initialState ==
  [zone |-> Null, path |-> Null, dir |-> Null, entries |-> Null, error |-> FALSE,
   indexing |-> FALSE, searching |-> FALSE, results |-> Null] @@ NoFile

SetZone(s, z, in) ==
  NoFile @@ [s EXCEPT !.zone = z, !.path = in, !.dir = in, !.entries = Null, !.error = FALSE]

SetPath(s, p) == NoFile @@ [s EXCEPT !.path = p, !.dir = p, !.error = FALSE]

SelectFile(s, p) == [sel |-> p, vpath |-> p] @@ NoFile @@ [s EXCEPT !.error = FALSE]

SetViewer(s, p, content) == [s EXCEPT !.vpath = p, !.content = content]

SetViewerPath(s, p) == [s EXCEPT !.vpath = p, !.content = Null, !.error = FALSE]
=============================================================================
