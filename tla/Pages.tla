-------------------------------- MODULE Pages -------------------------------
(* The pages of the dashboard. One is mounted at a time, with a state of its  *)
(* own that ends with it: a behaviour is a visit of one page.                 *)
EXTENDS Naturals, Sequences, FiniteSets

CONSTANTS Null, Gestures, MaxCalls, MaxFaults

VARIABLES page, view

vars == <<page, view>>

Host == INSTANCE Page
Notes == INSTANCE NotesView
Kanban == INSTANCE KanbanView
Workflows == INSTANCE KanbanView
Desktop == INSTANCE Desk WITH Gestures <- Gestures + 2, MaxCalls <- MaxCalls + 2
Panels == INSTANCE FilePanels WITH Gestures <- Gestures + 2, MaxCalls <- MaxCalls + 2
Showing == INSTANCE Viewer WITH Gestures <- Gestures + 1, MaxCalls <- MaxCalls + 2
Analysis == INSTANCE FilePanels WITH Gestures <- Gestures + 1, MaxCalls <- MaxCalls + 2
Media == INSTANCE Viewer WITH Gestures <- Gestures + 2
Dashboard == INSTANCE ZoneDashboard WITH Gestures <- Gestures + 1, MaxCalls <- MaxCalls + 3
Zones == INSTANCE ZoneDashboard WITH Gestures <- Gestures + 2, MaxCalls <- MaxCalls + 1
Settings == INSTANCE Preferences WITH Gestures <- Gestures + 1, MaxCalls <- MaxCalls + 2
Models == INSTANCE Preferences WITH Gestures <- Gestures + 2, MaxCalls <- MaxCalls + 2
Marks == INSTANCE Timeline WITH Gestures <- Gestures + 1, MaxCalls <- MaxCalls + 2
Times == INSTANCE Timeline WITH Gestures <- Gestures + 2, MaxCalls <- MaxCalls + 2
Import == INSTANCE Desk WITH Gestures <- Gestures + 2, MaxCalls <- MaxCalls + 2
AudioProject == INSTANCE Studio WITH MaxCalls <- MaxCalls + 2
Playing == INSTANCE Studio WITH Gestures <- Gestures + 1, MaxCalls <- MaxCalls + 2
Engine == INSTANCE SoundEngine WITH Gestures <- Gestures + 1, MaxCalls <- MaxCalls + 2
Rendering == INSTANCE AudioFiles WITH Gestures <- Gestures + 2
Patches == INSTANCE SoundEngine WITH MaxCalls <- MaxCalls + 1
Sounds == INSTANCE AudioFiles WITH Gestures <- Gestures + 1, MaxCalls <- MaxCalls + 2
Cut == INSTANCE VideoEditor WITH Gestures <- Gestures + 1, MaxCalls <- MaxCalls + 2
Clips == INSTANCE VideoTimeline
Picture == INSTANCE VideoTimeline WITH Gestures <- Gestures + 1, MaxCalls <- MaxCalls + 2
Assets == INSTANCE VideoEditor WITH Gestures <- Gestures + 1, MaxCalls <- MaxCalls + 2

Init ==
  \/ page = "notes" /\ Notes!Init
  \/ page = "kanban" /\ Kanban!Init
  \/ page = "workflows" /\ Workflows!WorkflowInit
  \/ page = "desk" /\ Desktop!Init
  \/ page = "panels" /\ Panels!Init
  \/ page = "viewer" /\ Showing!Init
  \/ page = "analysis" /\ Analysis!AnalysisInit
  \/ page = "media" /\ Media!MediaInit
  \/ page = "dashboard" /\ Dashboard!Init
  \/ page = "zones" /\ Zones!FormInit
  \/ page = "settings" /\ Settings!Init
  \/ page = "models" /\ Models!ModelsInit
  \/ page = "marks" /\ Marks!BookmarkInit
  \/ page = "times" /\ Times!Init
  \/ page = "import" /\ Import!ImportInit
  \/ page = "studio" /\ AudioProject!Init
  \/ page = "sequencer" /\ Playing!SequencerInit
  \/ page = "engine" /\ Engine!Init
  \/ page = "score" /\ Rendering!ScoreInit
  \/ page = "patcher" /\ Patches!PatcherInit
  \/ page = "audio" /\ Sounds!Init
  \/ page = "video" /\ Cut!Init
  \/ page = "timeline" /\ Clips!Init
  \/ page = "preview" /\ Picture!PreviewInit
  \/ page = "assets" /\ Assets!AssetInit

\* The pages that take answers for those of the calls they made last, or whose
\* writes replace each other: their calls are followed in the order they are made.
InOrder == {"notes", "panels", "settings", "workflows", "desk", "viewer", "dashboard",
            "models", "marks", "times", "engine", "studio", "video"}

Overtake ==
  /\ Len(view.calls) > 1
  /\ view' = Host!Lapse(Host!Overtaken(view), IF page \in InOrder THEN {"overtaken"} ELSE {})

Next ==
  /\ UNCHANGED page
  /\ \/ page = "notes" /\ Notes!Next
     \/ page = "kanban" /\ Kanban!Next
     \/ page = "workflows" /\ Workflows!WorkflowNext
     \/ page = "desk" /\ Desktop!Next
     \/ page = "panels" /\ Panels!Next
     \/ page = "viewer" /\ Showing!Next
     \/ page = "analysis" /\ Analysis!AnalysisNext
     \/ page = "media" /\ Media!MediaNext
     \/ page = "dashboard" /\ Dashboard!Next
     \/ page = "zones" /\ Zones!FormNext
     \/ page = "settings" /\ Settings!Next
     \/ page = "models" /\ Models!ModelsNext
     \/ page = "marks" /\ Marks!BookmarkNext
     \/ page = "times" /\ Times!Next
     \/ page = "import" /\ Import!ImportNext
     \/ page = "studio" /\ AudioProject!Next
     \/ page = "sequencer" /\ Playing!SequencerNext
     \/ page = "engine" /\ Engine!Next
     \/ page = "score" /\ Rendering!ScoreNext
     \/ page = "patcher" /\ Patches!PatcherNext
     \/ page = "audio" /\ Sounds!Next
     \/ page = "video" /\ Cut!Next
     \/ page = "timeline" /\ Clips!Next
     \/ page = "preview" /\ Picture!PreviewNext
     \/ page = "assets" /\ Assets!AssetNext
     \/ Overtake

Spec == Init /\ [][Next]_vars

BeforeLapse == view.lapses = {}

On(name, P) == page = name => P

\* What a user typed, moved, chose or cut is stored or on its way there, through
\* delayed saves, late answers and failed calls.
EditsKept ==
  /\ On("notes", Notes!TypedIsKept)
  /\ On("kanban", Kanban!CardsKept /\ Kanban!NotesKept)
  /\ On("dashboard", Dashboard!DraftKept)
  /\ On("settings", Settings!ChoiceKept)
  /\ On("import", Import!PickKept)
  /\ On("studio", AudioProject!ProjectKept)
  /\ On("patcher", Patches!PatchKept)
  /\ On("video", Cut!CutKept)
  /\ On("timeline", Clips!CutAsMade)

\* What is written, moved, commanded or rendered is what it was meant for: the note
\* that was typed in, the document that was shown, the tracks that were heard.
WritesAreOwn ==
  /\ On("notes", Notes!NoteIsOwn)
  /\ On("workflows", Workflows!MovesAreOwn)
  /\ On("panels", Panels!MarksShown)
  /\ On("analysis", Analysis!CommandsAreOwn)
  /\ On("dashboard", Dashboard!SavedIsOwn)
  /\ On("zones", Zones!ZoneIsOwn)
  /\ On("settings", Settings!SavedIsAsked)
  /\ On("marks", Marks!TargetIsOwn)
  /\ On("studio", AudioProject!ProjectIsOwn)
  /\ On("score", Rendering!RenderedAsHeard)
  /\ On("audio", Sounds!RenderedIsOwn)
  /\ On("video", Cut!ExportIsOwn)
  /\ On("assets", Assets!SequenceIsOwn)

\* When nothing is in flight, a page shows what it is asked to show.
ShownIsCurrent ==
  /\ On("workflows", Workflows!ZoneShown)
  /\ On("desk", Desktop!SelectionShown)
  /\ On("panels", Panels!DiskShown)
  /\ On("viewer", Showing!FileShown)
  /\ On("analysis", Analysis!PanelShown)
  /\ On("media", Media!PlayedIsShown)
  /\ On("dashboard", Dashboard!DashboardShown)
  /\ On("zones", Zones!PlaceShown)
  /\ On("models", Models!CatalogShown)
  /\ On("marks", Marks!RowsShown)
  /\ On("times", Times!PlaceShown)
  /\ On("import", Import!ListShown)
  /\ On("studio", AudioProject!ProjectShown)
  /\ On("sequencer", Playing!SectionsPlayed /\ Playing!SilentAsShown)
  /\ On("engine", Engine!EngineShown)
  /\ On("audio", Sounds!ResultShown)
  /\ On("video", Cut!ThumbsShown)
  /\ On("timeline", Clips!FrameShown)
  /\ On("preview", Picture!PictureShown)
  /\ On("assets", Assets!AssetsShown)

\* A page is busy exactly while a call it waits for is in flight.
BusyIsAwaited ==
  /\ On("workflows", Workflows!BusyIsAwaited)
  /\ On("desk", Desktop!Busy)
  /\ On("panels", Panels!DialogBusy)
  /\ On("viewer", Showing!CommandsBusy)
  /\ On("analysis", Analysis!PanelBusy)
  /\ On("dashboard", Dashboard!DashboardBusy)
  /\ On("models", Models!DownloadShown)
  /\ On("marks", Marks!RowsBusy)
  /\ On("times", Times!PlaceBusy)
  /\ On("import", Import!ImportBusy)
  /\ On("sequencer", Playing!OneClock)
  /\ On("engine", Engine!LoopIsPlaying)
  /\ On("audio", Sounds!FilesBusy)
  /\ On("video", Cut!EditorBusy)
  /\ On("assets", Assets!AssetsBusy)

=============================================================================
