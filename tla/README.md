# Syngrafo in TLA+

A verification development of Syngrafo, a desktop document manager: a C++23
host (SQLite, Saucer web view, a local language model) and a TypeScript page
that calls it.  The modules of the host model the parts where several threads,
several databases, the file system or a crash meet; those of the page model its
document editor and every view the program mounts, where gestures, timers and
answers of the host meet.  Each definition was read off the source, and
`PROJECT.json` names the lines it stands for.

Contents: 1 the system, 2 the modules, 3 the runs, 4 bounds and fairness,
5 the proofs, 6 what the code does that its documents do not say, 7 what is not
modelled, 8 the plan.

## 1. The system

The page calls *exposed* functions of the host.  Saucer runs each call on a
thread of a pool, so any two handlers may run at once; they share `DMSHandle`,
whose `db_mutex` protects the databases, one lock section at a time.  Each SQL
statement commits on its own unless a transaction is opened, which few handlers
do.  A process may die between any two statements.

| component | state it keeps | operations | interacts with |
|---|---|---|---|
| document lifecycle service | registry, state, event and content-version rows of each document | ensure, transition, record an extraction | called by indexing, workflow, zones; shares the active database |
| zone workflow | states and transitions of a zone, the workflow key of each document | get (seeds lazily), save, move a document | writes the same event log and counter as the lifecycle service |
| indexing and search | documents, notes, embeddings, FTS rows, chunks; the bulk thread | index one file, bulk index, stop, search | lifecycle service; the active database, which opening a zone replaces |
| zone storage | one database per zone, the zones table | open, import into, file to a zone | moves rows and files of all of the above |
| inference queue | a deque of requests, the worker thread, a stop token | submit, cancel, worker loop, destructor | owned by the engine, replaced when a model is loaded |
| chat requests | the page's map of pending promises, the host's request ids | lmChat, lmCancelAll, answers, pushed results, load, unload | page and host by messages that may overtake each other |
| model downloader | a registry of downloads, a worker per download, `.tmp` files | start, cancel, delete | the network; the models directory |
| file transfers | a map of tasks, one detached thread per task, files on disk | plan, copy or move, cancel | the file system, which others change too |
| editor store, undo history | the open document, its snapshots, selection, dirty flag, path | a reducer of about forty messages | everything in the editor |
| document editor | text typed and not yet in the store, pictures of a bundle, calls in flight | typing, keys, mouse, toolbar, panels, open, save, export, analysis | the store; host calls answered later |
| dashboard store and desk | zone, directory, selected file, what is shown of it, search | open and leave a zone, navigate, select, search, index | all panels read it |
| file panels, viewer, analysis panel, players | marks, dialogs, loaded content, the life of a document, what plays | copy, move, delete, import, rectify, transitions, play | file and lifecycle bindings, the store |
| notes, board, workflows | text being edited, lanes and cards, a pending move | type, drag, rename, move; saves after a pause | text files of the zone |
| zones, folders, imports, bookmarks, settings, models | forms, drafts, queues of files, rows | edit, save, import, download | zone, bookmark, settings and model bindings |
| audio studio and engine | project, tracks, sections, patches, a clock, one Csound | edit, play, patch, render, export | project files, the audio context |
| video editor | project, thumbnails, playhead, textures | cut, split, drag, play, import, export | the table of projects, the media scheme |
| updater, tray, network monitor, codecs, handlers over one table | little or none | - | - |

The page is one thread: a handler runs to its end, and what can come between two
of its parts is an `await`, a timer or an effect.  The user acts in between,
and may have selected another file, opened another zone or closed the view by the
time an answer is there; and since the host's bindings run on a pool of threads
(lm_bindings.hh:190), a call may be answered before one made earlier.

What makes each correct, and what is hard about it:

* **Lifecycle.**  The log of a document is numbered densely and replays to its
  state; versions name the event they came from; the registry follows a document
  through every replacement of its row.  Hard: nothing is transactional.
* **Workflow.**  A document is in a state its workflow knows and moves only along
  a transition that is defined; a workflow keeps exactly one default.  Hard: the
  workflow is seeded lazily and edited as a whole, while documents refer to it.
* **Indexing.**  A document that counts as indexed can be found, and what was
  derived from a text belongs to that document in that zone.  Hard: five lock
  sections per file, a new id at each replacement, a database that changes in
  between.
* **Queue and chat.**  A request is settled exactly once and with its own answer;
  a cancelled one never runs; the destructor ends.  Hard: condition variables,
  ids that both sides invent, results that overtake answers.
* **Downloader.**  What lies at the destination is whole; partial files do not
  outlive their workers; one download per model.  Hard: two critical sections,
  detached threads.
* **Transfers.**  Nothing the user did not replace is ever without a whole copy,
  and the outcome reported is the one on disk.  Hard: partial failures, a plan
  made once, cancels at any point.
* **Zone storage.**  A file that is filed, and its history, exist somewhere at
  every moment and in one place at the end.  Hard: the file, the database of the
  zone and the global one change one after the other, and only one of the three
  steps is a transaction.
* **Editor.**  An edit is in the undo history until it is undone, an analysis or a
  save does not undo it, a document shown as clean is the stored one, typed text
  reaches the store, selection, pictures and path belong to the document.  Hard:
  text lives in the DOM until a blur, answers arrive after other gestures, and
  nothing tells an answer which document it was asked for.
* **Views.**  What was typed, moved or cut is on disk or on its way there; what
  is written is written where it was meant; when nothing is in flight a view
  shows what it is asked to show; it is busy exactly while it waits.  Hard: delayed
  saves, closures over the state of an earlier render, answers without identity.
* **Audio and video.**  One clock per sequencer; the sections played are those
  shown; the file rendered is what is heard; the engine that is handed out works;
  the project stored is the one edited.  Hard: singletons that start
  asynchronously, autosaves against loads, keyboard handlers bound to an old state.

`PROJECT.json` lists under `hazards` where in the code each of these bites.

## 2. The modules

| module | models | source |
|---|---|---|
| `EventSourcedDocument` | the promise of the lifecycle service: a log and the state it replays to | `document_lifecycle_service.hh` |
| `DocumentLifecycle` | the service, one SQL statement per step, with crashes | same |
| `DocumentLifecycleProofs` | its theorems | |
| `InferenceQueue` | the promise of the queue: first in, first out, each request settled once | `lm_engine.hh` 60-110 |
| `WorkQueue` | mutex, condition variable, worker loop, destructor | `lm_engine.hh` 83-210 |
| `WorkQueueProofs` | its theorems | |
| `LMChat`, `LMChatProofs` | the page's registry of promises, the handlers, the watchers | `lm-service.ts`, `lm_bindings.hh`, `lm_engine.hh` |
| `ZoneWorkflow`, `ZoneWorkflowProofs` | seeding, editing and following a workflow, with crashes | `workflow_helpers.hh`, `lifecycle_impl.hh` |
| `ModelDownloader` | start, cancel, delete and the workers, step by step on the `.tmp` | `model_downloader.cpp` |
| `FileTransfer` | the background copy and move of files and trees over others | `file_bindings.hh` |
| `FileJobsProofs` | the theorems of the two modules above, whose threads do work on files | |
| `IndexPipeline`, `IndexPipelineProofs` | index_one by lock section on several threads, the bulk job, zones, search | `index_service.hh`, `search_service.hh`, `nlp_bindings.hh` |
| `FileToZone`, `FileToZoneProofs` | the move of a file, its document and its history into a zone | `zone_impl.hh` |
| `UndoLog` | the promise of undo: a log and a position in it | `history.ts` |
| `EditorStore` | functions of the undo stack and on trees of blocks; the reducer; what the parts of an open editor share | `history.ts`, `sdm-factory.ts`, `editor-store.tsx`, `BlockView.tsx`, `EditorShell.tsx` |
| `EditorGestures`, `EditorFiles` | the page with its keys, toolbar and panels; open, save, export | `BlockView.tsx`, `StylePanel.tsx`, `ExportPanel.tsx`, ... |
| `Editor` | the two over one store, and the properties | |
| `EditorProofs` | its theorems | |
| `Page` | what the views have in common (calls, gestures, lapses) and the store some of them share | `dms-service.ts`, `dms-store.tsx` |
| `Desk` | zones, browser, search; the import of picked files | `Dashboard.tsx`, `FileBrowser.tsx`, `SearchBar.tsx`, `ImportModal.tsx` |
| `FilePanels` | panels and dialogs; the life of a document | `FilePanel.tsx`, `FileOpDialogs.tsx`, `AnalysisPanel.tsx` |
| `Viewer` | what is loaded and commanded; the players | `DocumentViewer.tsx`, `ThreeDViewer.tsx`, `VideoPlayer.tsx`, `useAudioPlaybackWithVisualization.ts` |
| `NotesView` | notes and collections | `NotesView.tsx` |
| `KanbanView` | the board; documents by workflow state | `KanbanView.tsx`, `WorkflowsPage.tsx` |
| `ZoneDashboard`, `Timeline` | a zone and its workflow editor, the form of a zone; days, folders, bookmarks | `ZoneDashboard.tsx`, `ZonePanel.tsx`, `TimelinePage.tsx`, `FolderDashboard.tsx`, `BookmarksView.tsx` |
| `Preferences` | theme and settings; the language models | `ThemePanel.tsx`, `settings-store.tsx`, `theme-store.tsx` |
| `Studio` | the audio project and its autosave; clock, sections, mute | `AudioTimelinePage.tsx`, `AudioTimeline.tsx`, `useArrangement.ts` |
| `AudioFiles` | renders, orchestras, samples; the score that is rendered | `OfflineRenderDialog.tsx`, `CsdEditor.tsx`, `arrangementToScore.ts` |
| `SoundEngine` | the one Csound, its users and the routing loop; the registry of patches | `CsoundEngine.ts`, `usePatch.ts`, `PatchEngine.ts`, `patch-store.tsx` |
| `VideoEditor` | project, thumbnails, export; finding media | `VideoEditorPage.tsx`, `videoStorage.ts`, `AssetBrowser.tsx` |
| `VideoTimeline` | clips and playhead; frames and textures | `VideoTimeline.tsx`, `VideoPreview.tsx`, `SceneCompositor.ts` |
| `Pages` | a visit of any one of the views | |

Modules whose names begin with MC hold the values a `.cfg` cannot write.  Where a
row of a view names two things, its module holds two state machines, each with an
Init, a Next and properties of its own, one above the line and one below it.

**DocumentLifecycle.**  `documents` is the table of indexed paths, `registry`,
`states`, `events` and `versions` the tables of the service.  `call` is the
method in progress with the statement it is at: every public method takes
`db_mutex` for its whole body (transition_state for all that writes), so one
call runs at a time, and what can come between its statements is a crash.
`InsertEvent` and `BumpCounter` are the two statements of append_event_locked;
an INSERT that violates the UNIQUE index throws, and its method gives up.
`EventSourced` maps the tables to the log of `EventSourcedDocument`: until the
first crash every statement is a step of it or a stutter.

**WorkQueue.**  The worker's loop has its own steps: take the lock, evaluate the
predicate, sleep, wake, pop, unlock, test the flag, run.  Evaluating the
predicate and sleeping are two steps, since request_stop and notify_all are
called without the mutex; submit's notify_one comes after its unlock.  Spurious
wake-ups are there.  `ImplementsQueue` refines it to `InferenceQueue`.

**LMChat.**  `pending` is the page's Map in insertion order (lmCancelAll goes
through it in that order and can throw half-way), `inbox` what the host has sent
and the page has not processed: the answer of lm_chat_start and the result that
watch_and_push posts are two messages, in either order.  The history `early`
holds the calls whose result was pushed before their lm_chat_start had replied.
`IdShared` says that a reload of the model gave two calls one id.  An unload may
hang (`HangReset`): when the queue is empty and its worker at rest, the stop can be
missed as in `queue_destroy`, and the join then waits for a wake-up nobody promises
(`SpuriousWake`).

**ZoneWorkflow.**  Each INSERT of the lazy seeding is a step; save_zone_workflow
is one transaction.  A document whose event is written and whose counter is not
is *wedged*, as in DocumentLifecycle: the counter and the log are kept to model
that, because a wedged document blocks every save that must move it.

**ModelDownloader.**  The two critical sections of start_download, the worker's
file operations (each of which may fail), the deferred removal of the `.tmp`, and
cancel and delete between any of them.  Bytes whose flush fails in fclose, whose
result nobody examines (model_downloader.cpp:302), are lost without a word (`broke`
is then "flush"), and an fs::remove that throws on the worker's thread ends the
process (`RemoveThrows`).  The history `shared` says that two
workers were at one time on the same `.tmp`.

**FileTransfer.**  The plan is made at once from the directories as they are;
then each item is renamed or copied in steps of open, fill and finish; each can
fail, a cancel is tested where the code tests it, and the process can die
anywhere.  `AddFile` is the user, or another program, adding a file to a source.
A source is a file or a directory with a list of files; a path is a record of
directory, name, number of the copy and file, so that a directory is there through
its files and no source lies within another (a directory moved into itself, or
sources of which one contains the other, are not modelled).  A source may lie in the
destination itself.
A read that breaks off in the middle ends its copy as a success in the code; the
history `cut` holds the contents it happened to.  (The close of the copy, which is
not examined either, has the same outcome.)

**IndexPipeline.**  `derived` holds the rows of notes, embeddings, FTS and chunks
with the text they came from and the id they were written under.  Each lock
section of index_one is an action and reads `active` afresh.  The files a bulk job
finds come in any order, as a recursive_directory_iterator may give them.  The bulk job's
stop token belongs to a thread that exists only once the files are listed.  A row of the
FTS table may not be written, which nobody notices: an exception is swallowed,
also where SQLite has no FTS5 and the table is missing (`FtsNotWritten`).  Any other INSERT that
fails ends the call of a user, and on the bulk thread the process (`InsertThrows`).
The histories `cut` (the process ended under a call, or an INSERT of it failed), `dropped`
(ids whose FTS row was not written) and `strayed` (the zone changed
under a call or a search) say what a property has to except.

**FileToZone.**  The rows are read in one lock section; rename, copy and unlink
of the file, and the opening of the zone, are steps without the lock; `Commit` is
the transaction on the zone, with what INSERT OR REPLACE and the foreign keys
remove; each DELETE in the old database is a step under the same lock section,
which a crash can cut short (`halfway`).  The history `aside` says that the lifecycle rows
were sought while a zone was open.

**The editor.**  A document is its blocks in document order with their depths, so
that a subtree is a run of deeper blocks and every function of `sdm-factory.ts` is
one on sequences.  `EditorStore` has these functions, one operator per message of
the reducer, from state to state, and the variables of the session: besides the
store the text in the DOM that the store does not have yet (`drafts`), the pictures
at hand and the calls in flight with what each was started with.  The actions of
`EditorGestures` and `EditorFiles` are the handlers, each whole: a key that blurs a
block writes its draft and pushes the snapshot in the same step.  `Editor` refines
the history of the store to `UndoLog`.  The sets of the values a document is made of
(`Texts`, `Blocks`, `Trees`, `Documents`) are the TypeScript types of `sdm.ts`; the
title of a new document and what it holds are constants.

**The views.**  The state of a view is one record, `view`, with the files or rows
it works on; a handler is an action.  `Page` gives them the queue of calls; the
first is performed and answered in one step, which may fail `MaxFaults` times, and
`Overtake` puts it behind the others; a handler that awaits several calls is a
*script* whose next call is made when the former is answered, so that gestures
fall between them.  A form that holds only its own input is part of the gesture
that commits it.  Twelve views keep their promises whatever overtakes what; for the
other thirteen (`InOrder`: a late answer replaces a newer one, or a late write a
newer one) an overtaking is itself a lapse, so that what is shown for them holds as
long as calls are served in the order they are made.  `Pages` composes the views: one is mounted, and a behaviour is
a visit of it.  Where a view can break a property, the action that does it adds
its cause to `view.lapses`, under a name that says what happened (a choice made
before the theme was loaded, an answer for another zone); the property holds
while there is no lapse, and each cause is listed in section 6.  A lapse is
recorded by the situation in the code, never by the property failing.

**The score** (`AudioFiles`).  Two readings of the same tracks and sections: the notes the
tick of the sequencer plays, step by step, and the score arrangementToScore
writes.  A note is a track and the step it begins at.

Histories are variables that no guard reads: they record that one of the
disagreements of section 6 happened, so that a property can say what holds when
it did not, in the same run in which it does.

## 3. The runs

Ten runs pass.

| run | instance | what it shows |
|---|---|---|
| `lifecycle_crash` | 2 documents, 2 identities, 2 contents, 3 events, 2 crashes | with the process dying between any two statements: event numbers dense (`EventNumbersDense`), a state at most one event from its log (`StateNearLog`), versions dense and tied to the events that recorded them (`VersionProvenance`), the registry following its document through replaced rows (`RegistryFollowsDocument`), a log ahead of its counter stuck for good (`AheadIsForever`); until the first crash the service implements `EventSourcedDocument` (`EventSourced`) |
| `queue_fair` | 3 requests | no promise dropped (`PendingIsHeld`), a request found by cancel never runs (`CancelledNeverRuns`), no sleep while a request waits and nobody is about to notify (`NoSleepOnWork`), the abstract queue implemented (`ImplementsQueue`), every request settled (`EveryTicketSettles`) |
| `chat_calls` | 2 chats, 1 unload or reload | a promise gets its own text and the page's map holds only what is awaited (`RegistrySound`), nothing is settled twice (`SettledOnce`), every chat settles unless its result came early, a reload interfered, or an unload hung before the host had accepted it (`EveryChatSettles`) |
| `workflow_crash` | 2 documents, 3 edits, 4 events, 2 crashes | documents are in states the workflow or the lifecycle knows, next to their log, and transitions into nowhere are only ever the default ones (`WorkflowSound`); documents move only as defined and a wedged one keeps its state in the workflow (`MovesAreLegal`) |
| `downloader_calls` | 2 downloads of one model | what is at the destination is whole, unless fclose lost bytes of it, and only the system makes a download fail, both unless workers shared a `.tmp` (`DownloadSound`); no `.tmp` outlives its workers (`NothingLeftBehind`), every worker ends with a final status, unless a throwing remove ends the process (`EveryDownloadEnds`) |
| `transfer_safe` | a folder of 2 files, a single file, and a file of the same name that lies in the destination; 3 old contents or fewer, copy or move, keep, replace or skip | nothing is lost but what was replaced, cut by a read error, added too late or displaced by the other source of its name (`NothingLost`), the outcome reported is the one on disk (`TransferSound`) |
| `index_threads` | 1 user, 1 bulk job, 2 files, 2 texts, 1 edit, 1 change of zone, 1 crash, any failing write | a document whose indexing was neither cut nor strayed is complete under the id it has, but for an FTS row that was not written (`IndexComplete`), nothing lies under another document's id (`IndexSound`), a search shows the document that matched (`SearchShowsMatch`) |
| `zone_calls` | 2 calls, 3 files of which two have the name of a file that is in the zone, 2 changes of zone, 1 crash | a file exists at every step (`FileKept`), so does its complete history (`HistoryKept`), and after a successful call all of it has one home (`ZoneSound`), unless a file or a document of the same name took its place |
| `editor_session` | a paragraph and a box with a list item, a bundle with a picture, 4 gestures of two to five kinds, 2 calls in flight | edits are in the history (`EditsSurvive`), a clean document is the stored one (`CleanMeansSaved`), what is displayed is what the store has (`ShownIsStored`), a draft leaves the page only into the store (`DraftsLand`), the selection is in the document (`StoreSound`), pictures and path are the document's (`FilesAreOwn`), the history is a log with a position (`ImplementsUndo`) |
| `pages_visits` | each of 25 views, 2 or 3 things of each kind, 3 to 5 gestures, up to 5 calls, 1 failure | the four promises of section 1, each a conjunction over the views, until the first lapse: `EditsKept`, `WritesAreOwn`, `ShownIsCurrent`, `BusyIsAwaited`.  Answers come in any order in twelve views; in the thirteen of `InOrder` one that overtakes another is a lapse.  A thumbnail is promised to clips of a project opened once (`ThumbsShown`), and what is said of the desk (`SelectionShown`) is said of the selected file, not of the results of a search |

Two runs end in a counterexample; section 6 discusses them: `queue_destroy`
(`DestructionEnds`) and `chat_early` (`EarlyChatSettles`).

The type invariant of a module is a property of its own where it is proved, and
otherwise a conjunct of the invariant named `...Sound`.  For every property of a
passing run `PROJECT.json` names a mutant, an operator next to the one it
replaces, under which TLC finds the property violated.

## 4. Bounds and fairness

Every counter that would grow has a constant that bounds it (`MaxEventNo`,
`MaxDocId`, `MaxEvents`, `MaxJobs`, `MaxBulks`, `MaxEdits`, `MaxSwitches`,
`MaxResets`, `MaxCrashes`, `MaxGestures`, `Gestures`, `MaxCalls`, `MaxFaults`,
`MaxEntries`, `MaxSections`, `MaxRepeat`), tested in the guard of the action that increments
it; requests, chats, downloads and calls are used at most once each.  A run whose
actions are all bounded may stop, and its `.cfg` turns the deadlock check off.

Two documents, two requests or two files are enough for interference: no action
of the code touches three of them, and each hazard listed needs at most two
actors and a crash.  Three requests are used for the queue (one running, one
cancelled, one waiting).  Two crashes let a document that one crash wedged meet
another.  A `.tmp` has two blocks, so that a half-written one exists.  `zone_calls`
gives the resident of the zone the row id of one file and the name of two others,
since ids are counted by each database for itself and two calls can file two files
of one name.  Symmetry is over documents,
identities, hashes or callers, only in runs without liveness properties.

In the editor four gestures suffice for the longest pattern of a race: change,
ask, change again or load, answer, undo.  `MaxEntries` is 2, so that the history
is full after two edits.  A behaviour uses gestures of the few kinds one element
of `KindSets` allows, each set made of kinds that touch the same state; this
keeps four gestures affordable where all kinds at once would not be.  In the
views three gestures are the least (an edit, a change of what is shown, an edit
again), and `Pages` gives more where a view needs a selection or an opening
first.  The constraint `BeforeLapse` ends a visit after its first lapse: what
happens once a view has mixed up its data is not of interest.  `On` makes a
conjunct speak only of the view that is mounted.

Fairness is weak and only on what the scheduler guarantees: threads that can
run do run, and the page's event loop processes its inbox.  Users need not
click, cancel or close anything, and a destructor need not be called; once the
join has begun, `Join` is fair.  `WorkQueue` also assumes that a generation ends
(it is bounded by `max_tokens`), `ModelDownloader` that the network delivers or
fails (the code sets no timeout: a stalled connection would hold a worker for
ever).  `LMChat` does not assume that a reset ends: its end is fair once the worker
has seen the stop, and a worker that missed it stays asleep.  The modules in which the process may die, and those of the page, have no
fairness and state only safety: a user need not go on, and that a view does not
wait for ever is `BusyIsAwaited`, the invariant that it waits only for a call in
flight.

## 5. The proofs

TLAPS checks these theorems for every value of the constants: any number of
documents, files, threads, calls and crashes.  Each states the property of the same
run of section 3 under its name, so that a run shows it on an instance and the
theorem in general.

| module | theorems | properties |
|---|---|---|
| `DocumentLifecycleProofs` | `TypeCorrect`, `NumbersDense`, `StateStaysNearLog`, `RegistryKeepsUp`, `VersionsKnowTheirEvents`, `AheadStaysAhead`, `ImplementsEventSourcing` | `TypeOK`, `EventNumbersDense`, `StateNearLog`, `RegistryFollowsDocument`, `VersionProvenance`, `AheadIsForever`, `EventSourced` |
| `WorkQueueProofs` | `QueueTypeCorrect`, `NoPromiseLost`, `CancelIsFinal`, `WorkerIsWoken`, `QueueImplements` | `TypeOK`, `PendingIsHeld`, `CancelledNeverRuns`, `NoSleepOnWork`, `ImplementsQueue` |
| `LMChatProofs` | `RegistryIsSound`, `PromisesSettleOnce` | `RegistrySound`, `SettledOnce` |
| `ZoneWorkflowProofs` | `WorkflowIsSound`, `MovesStayLegal` | `WorkflowSound`, `MovesAreLegal` |
| `FileJobsProofs` | `DownloadIsSound`, `LeavesNothing`, `NothingIsLost`, `TransferIsSound` | `DownloadSound`, `NothingLeftBehind`, `NothingLost`, `TransferSound` |
| `IndexPipelineProofs` | `IndexIsSound`, `SearchIsRight`, `IndexIsComplete` | `IndexSound`, `SearchShowsMatch`, `IndexComplete` |
| `FileToZoneProofs` | `FilesAreKept`, `HistoryIsKept`, `ZoneIsSound` | `FileKept`, `HistoryKept`, `ZoneSound` |
| `EditorProofs` | `StoreIsSound`, `NoEditIsLost`, `CleanIsSaved`, `TypedIsAtCaret`, `FilesAreItsOwn`, `StoreIsLog` | `StoreSound`, `EditsSurvive`, `CleanMeansSaved`, `ShownIsStored`, `FilesAreOwn`, `ImplementsUndo` |

None of the properties but the types is inductive as it stands.  What has to be
added, and why:

* **Lifecycle.**  `TypeInv` types the tables and the record of the call.
  `NumberInv` ties the step a call is at to what it has read: while an append is
  between INSERT and UPDATE its number is one more than the counter and the event
  of that number is there; without it a call that holds an old number satisfies
  the density of the log and its INSERT leaves a gap.  `MoveInv` does the same for
  the state column: a call that is about to set it has just written the event that
  names the new value.  `VersionInv` says of a call between its TEXT_EXTRACTED
  event and the version that all versions are older than the event, and that a text
  that was new still is.  The registry needs only the types: a row that is replaced
  loses its reference in the statement that replaces it.  For the refinement,
  `OriginInv` says that each pending UPDATE finds its event, and that until a call
  is cut short only the document being created has an empty log; each statement
  then is one move of `EventSourcedDocument` or changes neither the log up to the
  counter nor the state.
* **Queue.**  The invariant says what the worker holds at each of its steps, that
  the queue has no duplicates and that a pending request is in the queue or in the
  worker's hands.  `QueueImplements` is a refinement: every step of the queue with
  its lock and condition variable is a step of `InferenceQueue` or a stutter.
* **Chat.**  `Entries` says whose entry each key of the page's map is and what it
  waits for, `Mail` what each message on its way will find there, whatever is
  before it in the inbox, `Progressed` how far a call has come on both sides, and
  `IdsAreFresh` that one queue gives no id twice.
* **Workflow.**  `CallInv` says what a handler between its statements has read and
  that the seeding has not gone beyond the definition, `DefinitionInv` that the
  default is there from the first state on, `RowInv` that the row of a document is
  at the end of its newest event or, when a crash came in between, at its beginning.
* **Downloader.**  `ClearInv` says that whoever may have left a `.tmp` is still
  running and will remove it.  `AloneInv` holds until two workers share a `.tmp`:
  there is one user of it, who knows what lies there (`Knows`).
* **Indexing.**  `IssuedInv` ties each id to the one text it was given to, and
  every row, job and match to an id that was issued in the open database, unless
  a zone was opened under it; two documents then never share an id, and what a
  search finds under an id is what it matched.  `FinishedInv` says who still owes
  a document which row: for each of note, FTS row and chunks either the row is
  there, or its id is `dropped` (the FTS row only), or the call that owns the document's id has not come to it.  A call whose
  document was replaced owns nothing; that its exception at the chunks ends the
  call is therefore no loss.
* **Filing.**  `CallsInv` is what each call knows of itself (what it read, where its
  file is).  `FilesInv` says of each file whether it is at home, on its way or
  placed.  `OriginInv` keeps rows with the file they were written for, and
  `KeptInv`, while no call has run with a zone open, says for each step of the
  deletions what has gone and that the zone has all of it (`Landed`, `Cleared`).
  The transaction of a second call is the hard step: it may remove rows of a
  document that a first call is deleting at home, but only with the document that
  has its name, which is `Superseded`.
* **Transfers.**  `PlanInv` says where in the plan the files of each source lie (the
  plan is the concatenation of one list for each source, FlattenSeq, of which
  `FlattenPlaces` says which list an entry comes from) and that a target is a
  path nothing lay at unless the rule is "Replace".  `SourceInv` is what makes a
  replacement safe: the source of every item still to come is untouched, and the one
  in hand is whole until its target is.  `StayInv`, `KeptInv` and `PartialInv` follow
  a content that no item takes, one whose target is its own, and a half-written
  one.  The removal of a moved directory is the hard step: `CountInv` shows that the
  successes counted for a source are those of its files, so that when the count is
  full each of them has arrived.
* **Editor.**  `EditorInvariant` proves `EditorInv`, from which the five invariants follow.
  `Held`: the document and its snapshots are versions of one document,
  and those that show pictures of a bundle are of the bundle whose pictures are in
  memory.  Without it an undo could bring back another document's content, under
  this one's path or without its pictures.  `Poised`: what is edited or has the rail is
  selected, so that only the selection has to be followed.  `Called`: what each
  call captured, and that there is one analysis and one export at most; without
  that the first answer would lower a flag another call still needs.  `Caret`: the
  caret is in the selected block and has what is typed and not written; a
  gesture of the mouse happens with no caret, hence with no draft.  `Filed` is about the path
  and the content last written.  A message of the reducer does `Work`: whatever set
  of documents, closed under edits, holds the store's holds them afterwards, and
  the history is as it was or has new snapshots behind its position (`Edits`).  `Work` is
  closed under composition, which is how a handler of several messages (a blur, then
  the gesture) is one step of `UndoLog`: `StoreIsLog`.  The functions on
  trees of blocks are recursions over document order; the lemmas say which blocks,
  identities and pictures each of them keeps, and that the first block stays at depth 0.

Assumptions are the ASSUMEs of the modules (naturals for bounds, distinguished
values outside the sets they are distinguished from, a default workflow whose first
state is its default, a zone that numbers its documents above those it has, sources
of a transfer that are different paths, a new document that shows pictures of no
bundle); TLC evaluates them.

Induction over data is in reach where it can be put as a set: a non-empty set of
naturals has a least element (`NatLessThanWellFounded` with `WFMin`), and from that
come `UpTo`, induction to a bound, and `RecursionExists`, that a function
defined by recursion on a place has its values.  Both modules that need them prove
them.

What stays with TLC, and why:

* the liveness properties `EveryTicketSettles`, `EveryChatSettles` and
  `EveryDownloadEnds`: fairness and ENABLED are beyond the prover;
* `DraftsLand` of `Editor`: it speaks of one block before and after a step, so that a
  proof needs that a block keeps its kind under its identity in every version of the
  document and every captured one, and that an identity given by `uuid` is in none of
  them; pasted JSON brings the identities it was exported with, so this holds only of
  documents that agree, an invariant of its own over all snapshots;
* the properties of `Pages`: conjunctions over 25 state machines, of small sets
  written into the modules; a theorem would say no more than the run.

## 6. What the code does that its documents do not say

Runs that TLC ends with a counterexample; `PROJECT.json` quotes the document:

| run | what happens |
|---|---|
| `queue_destroy` | the destructor's notification falls between the worker's test and its sleep; the join never returns |
| `chat_early` | a result that arrives before the answer that announces its id is dropped, and the promise never settles |

What the passing runs had to except; each exception is named in the property that
makes it.  Four comments of the source say otherwise, and are wrong:

* "Get or create the singleton engine.  Calling get() multiple times is safe."
  (`CsoundEngine.ts:37`): a get() while another one loads the engine, or after that
  failed, returns at once what throws when it is used.  This one is followed without
  an exception: the patcher's compile throws and nothing is started, so that what is
  shown stays right (`EngineShown`, `LoopIsPlaying`); only a patch without blocks is
  started, and cannot be stopped before the engine is there (`unstopped`).
* "The ref-guard ensures we don't save the default empty state over a freshly loaded
  project." (`AudioTimelinePage.tsx:109`): the guard compares the tracks with
  EMPTY_TRACKS, an effect of the mount replaces them by a copy, and 800 ms later the
  empty project is saved, whether the stored one has been read by then or not.
  `ProjectKept`, `ProjectIsOwn` and `ProjectShown` except it (`wiped`, `early`).
* A thumbnail "is re-derived on every load" (`VideoEditorPage.tsx:133`): a clip is
  asked for once while the editor is open, and a project opened a second time from
  the hub is read without the thumbnails.  `ThumbsShown` excepts it (`again`).
* the one named under *Editor*, which no property here is about.

No document that was found contradicts the others:

* *Lifecycle.*  A crash between the event and the UPDATE of the counter wedges the
  document: every later append meets the UNIQUE index.  A crash between the event
  and the UPDATE of the state leaves a state its log does not replay to.
* *Chat.*  Request ids restart when the model is reloaded, and an old result can
  resolve a new promise.  An unload whose join hangs holds the handler, and a chat that
  the host has not accepted by then is never answered.  lmCancelAll while a start is unanswered leaves an
  undefined entry at which the next one throws.
* *Workflow.*  A workflow saved without transitions gets the default ones at the
  next read, which may refer to states it lacks.
* *Downloader.*  A restart after a cancel shares its `.tmp` with the worker that is
  still cleaning up, and can lose it.  Two starts at once download the same model
  twice.  The last bytes are flushed by fclose, whose result is not looked at: when that
  fails, a truncated file is renamed to the destination and reported complete.  An
  fs::remove that fails throws out of the worker's thread, and the process ends.
* *Transfer.*  Two sources of one name get one target; moved, one of them is lost,
  whatever the rule (`Displaced`).  "Replace" into the directory a source lies in deletes that
  source: the target is removed first and is the source, and neither the dialog
  (FileOpDialogs.tsx) nor dms_transfer_files_start compares the two; the end is
  reported with an error.  A read error in the middle of a file ends its copy as a success, and
  a move then removes the source.  A file added to a moved directory after the
  plan is removed with it.
* *Indexing.*  A crash after the upsert leaves a document that counts as unchanged
  and cannot be found; so does an INSERT that fails after it.  An FTS row that cannot be
  written is left out without a word, and its text is found by no full-text match.  A zone opened in the middle of index_one gets the rest of
  the rows.  A stop while the files are being listed is not heeded.
* *Filing.*  A file of the same name in the zone is replaced, and its registry row
  and log with it.  If the zone cannot be opened or the transaction fails, the
  file has moved and the rows have not.  While a zone is open, lifecycle rows are
  read and deleted there with an id of the global database.  Two calls for one
  file on another device can leave a partial copy.  Of two files of one name filed
  together the zone can keep the file of one and the rows of the other: the rows
  are decided by the second lock section, the file by the move before it.  The full-text row, with the
  whole text, stays in the global database.  Of the state row the workflow
  columns (workflow_id, workflow_state_key) are not copied, nor are the reasons of
  events: a filed document has left its workflow.


Of the page; a lapse or an exception of an invariant names each.  First of all,
no answer says what it was asked for: in the thirteen views of `InOrder` two
answers in the wrong order leave the older one shown, or the older text stored.

* *Editor.*  Save in the header of the shell reports "Saved" and writes nothing,
  since the dashboard opens the editor without onSave.  In layout mode the focus
  that starts the editing of a paragraph, heading, quote or code ends it again
  (the comment on handleKeyDown says otherwise); an arrow key also acts on the
  ancestors; Escape in layout and Ctrl with a digit leave typed text unwritten;
  every blur pushes a snapshot; merging a block upwards loses its draft.
  An analysis answered late restores the blocks as they were when it was asked
  for, also into a store that has another document by then: with it come the former
  document's identity and pictures under the later one's path.  A save answered after
  an edit marks the edited document clean, and one answered after a load puts its path
  on the other document; a save that is slow can also land in the bundle another
  document has been opened from since.  A broken bundle
  drops the pictures at hand; opening a recent document or JSON keeps those of the
  former one; a picture of a bundle, typed as a source or imported with JSON, is
  looked for among those at hand.  Undo, redo and merge can leave the selection on a block that is
  gone.
* *Notes.*  Typing before a note is read writes the text to the new note with the
  former one's, or replaces a note that cannot be read; a note is written again when it
  is left, long after its save, since a timer that has fired is not forgotten, and one
  whose delete is under way is brought back by that; deleting one note while another is typed in deselects it
  and drops the text; creating over a file that is not listed overwrites it.
* *Board.*  The second of two quick changes is made from the board before the
  first; a drop writes two files and looks at neither answer; an unreadable lane is
  shown empty and then overwritten; a lane renamed to an existing name replaces
  it; a comment within 800 ms of a description is lost to the timer's older board.
* *Workflows.*  A pending reason survives the selection of another document; an
  answer after a change of zone reloads the former one.
* *Desk.*  Clicking the selected file blanks the viewer; a result in another
  directory is deselected at once; leaving a zone is never told to the host; a
  failed bulk index leaves the page indexing for ever; the first of two searches
  to answer ends the waiting; entries stay after a failed scan.
* *File panels.*  Marks survive a change of path made elsewhere and the collapse of
  the panel; the other panel is not listed again after a copy, delete or move; a
  transfer's end closes whatever dialog is open; "Delete originals after
  compression" has no effect.
* *Viewer, analysis, players.*  Retry of an SVG loads nothing; a command's answer is
  taken for whatever is shown by then; after an import the commands go to the
  original while the product is shown.  The life read after a command is shown
  under the document selected by then, and the next transition follows it.  Stop
  during a load does not stop it; a late end of one sound marks the next as not
  playing; loads of the 3D viewer share one flag.
* *Zones.*  A state is never removed from the workflow editor; a failed load leaves
  the former zone's workflow, and Save writes it into the new zone; edits are
  dropped by a change of zone.  A resolved share is taken for a path typed since;
  applying while one is being resolved stores the address; editing the name makes a
  second zone.
* *Settings, models.*  A theme chosen before its load answers is overwritten, saved
  before it writes the defaults; "Saved" is shown when the write failed; changing
  the language saves every other pending setting.  Leaving the tab loses sight of a
  running download; a completed download that is cancelled is never listed.
* *Bookmarks, imports, timeline.*  No bookmark can be added from the view (its form
  appears only when the empty form is not empty), and since each has place 0, moving
  one changes nothing.  Cancel during an import lets the answer close the next file's
  dialog.  Counts and days of a zone that was left are taken for the next one's.
* *Studio.*  The empty first project is saved over the stored one; a late load
  overwrites edits; changes of the arrangement are not saved; closing within 800 ms
  drops the last edits.
* *Sequencer, score.*  Two starts while the audio context resumes leave a clock that
  nothing clears; removing a section always decrements the active index; un-solo
  leaves the other tracks silent.  The file rendered differs from what is heard
  where a track is shorter than the cycle, has notes beyond its length or is muted,
  and where a section has local copies or mutes everything.
* *Engine, patches, audio files.*  get() during a load returns an engine that is not
  initialised, and one that could not be loaded is never retried; a patch without
  blocks started meanwhile is shown as playing after its stop has thrown; after the portal is reopened Run stays disabled; blocks added while
  playing are never compiled.  An imported pattern replaces the patch being edited;
  a removed patch leaves tracks dangling.  A render to a path without .wav is
  overwritten by its own sidecar; answers of a check are about the text of the
  click.
* *Video.*  A rename leaves the former project in the table; a clip is added to the
  project of the gesture; opening another project cancels the first one's save; a
  track change during a fetch drops a thumbnail for good, and a project opened again
  is never enriched;
  Delete and split by key act on the project as of the selection; the second half of
  a split keeps the first one's offset; the end of playback moves the playhead
  without telling the editor; a remounted timeline starts at 0 while the editor does
  not; a compositor closed during its start is not disposed of; a failed texture is
  not tried again; a failed listing leaves the former folder's files to confirm.

## 7. What is not modelled

`PROJECT.json` gives the reason for each component.  In short: codecs, the NLP
algorithms, the backends of audio and video, the tray, the command line, icons
and rendering are sequential or thin wrappers.  Undefined behaviour at a data race
is left out rather than guessed at: LMEngine's unlocked use of `queue_` and the
order of destruction at shutdown are hazards with a note, and OCR uses the
database without its mutex.  Within modelled components: the
semantic re-rank of search (it reads only), labels and colours, progress
reports, the synchronous file operations, register_blob, and of zone storage
everything but file_to_zone.

Of the page, what is pure conversion is left out (block trees to and from HTML,
Markdown and PDF, the naming and palette tables, orchestra text, shaders), and
what nothing mounts or calls: Header and Sidebar, the two dashboards of
statistics, CollectionListView and bookmark-store, AudioFilesPage, BlockArranger,
useCsoundSequencer, block-patch.ts, font-service.ts, promoteSlotCopy, the shader
chain and morph target of the video editor; of the host, the asynchronous NLP
tasks.

## 8. The plan

Done: the host (lifecycle, queue and chat, workflow, downloader, transfers,
indexing, filing), with every safety property a run checks proved; the editor, with
all of its properties but `DraftsLand` proved and its history proved to be a log;
every view that is mounted.

Next: import_to_zone and the synchronous file operations beside their modelled
siblings; a composition of `IndexPipeline` with `DocumentLifecycle`, since
index_one calls the service between its lock sections; two views at once where
both are mounted (viewer, analysis panel and desk share the store); the shutdown
order of the host.

Next theorems: `DraftsLand`, from an invariant on the kinds and identities of the blocks
of all snapshots and captured documents; a refinement of `FileTransfer` by an abstract
transfer (each file is at its source or at its target); nested sources, for
which a path becomes a sequence of names.
