--------------------------- MODULE EditorGestures ---------------------------
(* What the user does in the editor: on the page (BlockView, EditorCanvas) and *)
(* in the shell around it (EditorShell), typing, keys, the mouse on blocks and *)
(* the contexts; and, with the mouse, in the toolbar and the panels beside the *)
(* page (Toolbar, BlockTreePanel, StylePanel, DocumentPanel, NLPPanel,         *)
(* StatsPanel, useNLPAnalyze).                                                 *)
EXTENDS EditorStore

Block(s, b) == FindBlock(s.doc.blocks, b)

\* The caret is put into a block: the block that had it is written first, and
\* onFocus selects the new one, which in layout also ends editing.
FocusOn(s, b) ==
  SelectBlock(IF focus \in Ids(s.doc.blocks) /\ focus # b /\ Inline(s, focus)
              THEN Commit(s, focus, Shown(focus)) ELSE s, b)

Focused(s, b) ==
  Shows(FocusOn(s, b), b, IF focus = b THEN DOMAIN drafts ELSE DOMAIN drafts \ {focus})

\* The user types into the block that has the caret.
Type ==
  /\ Gesture("type") /\ focus # Null
  /\ \E text \in Words :
       /\ text # Shown(focus)
       /\ drafts' = [b \in DOMAIN drafts \union {focus} |->
                       IF b = focus THEN text ELSE drafts[b]]
  /\ HostUnchanged /\ UNCHANGED <<store, focus, mode, base, lapses, uuid>>

\* Mutant: The page is left as typed, the store is not told.
LeaveUnwritten ==
  /\ open /\ NoGesture /\ focus # Null
  /\ Shows(StopEditingBlock(store, focus), Null, DOMAIN drafts \ {focus})
  /\ HostUnchanged /\ UNCHANGED <<base, lapses, uuid>>

\* The caret leaves its block: the mouse is pressed elsewhere.
Leave ==
  /\ open /\ NoGesture /\ focus # Null
  /\ Shows(Commit(store, focus, Shown(focus)), Null, DOMAIN drafts \ {focus})
  /\ HostUnchanged /\ UNCHANGED <<base, lapses, uuid>>

\* A click selects; in compose the block gets the caret. In layout it starts
\* editing, and the frame after it moves the caret: an element that has the
\* focus already keeps it (li), any other gets it, whose onFocus selects the
\* block and so ends editing again.
ClickBlock ==
  /\ Gesture("click") /\ Mouse
  /\ store.ctx \in {"compose", "layout", "review", "nlp"}
  /\ \E b \in Ids(store.doc.blocks) :
       IF store.ctx = "compose" /\ IsEditable(Block(store, b)) THEN Focused(store, b)
       ELSE IF store.ctx = "layout" /\ Block(store, b).type = "li"
       THEN Shows(StartEditingBlock(SelectBlock(store, b), b), b, DOMAIN drafts)
       ELSE IF store.ctx = "layout" /\ IsEditable(Block(store, b))
       THEN Clicked(SelectBlock(StartEditingBlock(store, b), b))
       ELSE Clicked(SelectBlock(store, b))
  /\ HostUnchanged /\ UNCHANGED <<base, lapses, uuid>>

\* The background of the page takes the selection away; when the document has
\* no block it makes a paragraph, which in compose gets the caret.
ClickPage ==
  /\ Gesture("click") /\ Mouse
  /\ store.ctx \in {"compose", "layout", "review", "nlp"}
  /\ IF store.doc.blocks # << >> THEN Clicked(SelectBlock(store, Null)) /\ UNCHANGED uuid
     ELSE LET s == SelectBlock(AddBlock(store, CreateBlock("p", uuid), Null), Null)
          IN  /\ uuid' = uuid + 1
              /\ IF s.ctx = "compose" THEN Focused(s, uuid) ELSE Clicked(s)
  /\ HostUnchanged /\ UNCHANGED <<base, lapses>>

\* An arrow in layout moves the selection once for the block and once more for
\* each block around it, whose handler the key reaches too; the block being
\* edited leaves it to those around it.
Arrow ==
  /\ Gesture("arrow") /\ store.ctx = "layout" /\ HasSelectedBlock(store)
  /\ \E direction \in {"up", "down"} :
       LET depth == SelectedBlock(store).depth
           times == IF store.ed = Null THEN depth + 1 ELSE depth
       IN  /\ times > 0
           /\ Keyed(SelectFarNeighbor(store, direction, times))
           /\ Lapse(IF focus \in DOMAIN drafts THEN {"arrow"} ELSE {})
  /\ HostUnchanged /\ UNCHANGED <<base, uuid>>

EnterInLayout ==
  /\ Gesture("arrow") /\ store.ctx = "layout" /\ store.ed = Null
  /\ HasSelectedBlock(store) /\ IsEditable(SelectedBlock(store))
  /\ LET b == store.sel
         started == StartEditingBlock(store, b)
     IN  IF Block(store, b).type = "li" THEN Shows(started, b, DOMAIN drafts)
         ELSE Shows(SelectBlock(started, b), Null, DOMAIN drafts)
  /\ HostUnchanged /\ UNCHANGED <<base, lapses, uuid>>

DeleteInLayout ==
  /\ Gesture("delete") /\ store.ctx = "layout" /\ store.ed = Null /\ HasSelectedBlock(store)
  /\ Keyed(Deleted(store, store.sel))
  /\ HostUnchanged /\ UNCHANGED <<base, lapses, uuid>>

\* Escape ends editing; what was typed stays on the page, unwritten.
EscapeInLayout ==
  /\ Gesture("escape") /\ store.ctx = "layout" /\ focus # Null
  /\ Keyed(StopEditingBlock(store, focus))
  /\ Lapse(IF focus \in DOMAIN drafts THEN {"escape"} ELSE {})
  /\ HostUnchanged /\ UNCHANGED <<base, uuid>>

\* Enter in compose makes a paragraph behind the block and goes there.
EnterInCompose ==
  /\ Gesture("enter") /\ store.ctx = "compose" /\ focus # Null
  /\ IsText(Block(store, focus))
  /\ Focused(AddBlock(store, CreateBlock("p", uuid), focus), uuid)
  /\ uuid' = uuid + 1
  /\ HostUnchanged /\ UNCHANGED <<base, lapses>>

\* Backspace deletes an empty block and, with the caret before the text, joins
\* the block to the one above: the text of the store, not what was typed.
Backspace ==
  /\ Gesture("backspace") /\ store.ctx = "compose" /\ focus # Null
  /\ IsText(Block(store, focus))
  /\ LET merged == MergeBlockUp(store, focus)
     IN  IF Shown(focus) = Empty
         THEN Keyed(Deleted(store, focus)) /\ UNCHANGED lapses
         ELSE /\ MergesUp(store, focus)
              /\ Shows(SelectBlock(merged, merged.sel), merged.sel, DOMAIN drafts)
              /\ Lapse(IF focus \in DOMAIN drafts THEN {"merge"} ELSE {})
  /\ HostUnchanged /\ UNCHANGED <<base, uuid>>

\* `# ' at the start of a paragraph makes it an empty heading.
HeadingShortcut ==
  /\ Gesture("type") /\ store.ctx = "compose" /\ focus # Null
  /\ Block(store, focus).type = "p" /\ Shown(focus) = Heading
  /\ LET s == SetBlockSpans(ChangeBlockType(store, focus, "h"), focus, Empty)
     IN  Shows(SelectBlock(s, focus), focus, DOMAIN drafts)
  /\ HostUnchanged /\ UNCHANGED <<base, lapses, uuid>>

\* The rail of the selected block: its type, a new block behind it.
RailType ==
  /\ Gesture("rail") /\ Mouse /\ store.ctx = "compose" /\ HasSelectedBlock(store)
  /\ \E type \in {"p", "h"} : Clicked(ChangeBlockType(store, store.sel, type))
  /\ HostUnchanged /\ UNCHANGED <<base, lapses, uuid>>

RailInsert ==
  /\ Gesture("rail") /\ Mouse /\ store.ctx = "compose" /\ HasSelectedBlock(store)
  /\ Clicked(AddBlock(store, CreateBlock("p", uuid), store.sel))
  /\ uuid' = uuid + 1
  /\ HostUnchanged /\ UNCHANGED <<base, lapses>>

\* A token of an annotated block, and the rail that its selection opens.
ClickToken ==
  /\ Gesture("token") /\ Mouse /\ store.ctx = "nlp"
  /\ \E b \in Ids(store.doc.blocks) :
       Block(store, b).nlp # Null /\ Clicked(SelectToken(store, b))
  /\ HostUnchanged /\ UNCHANGED <<base, lapses, uuid>>

TokenRail ==
  /\ Gesture("token") /\ Mouse /\ store.ctx = "nlp" /\ store.tok # Null
  /\ store.tok \in Ids(store.doc.blocks) /\ Block(store, store.tok).nlp # Null
  /\ \E s \in {SelectBlock(store, store.tok), ClearSelectedToken(store)} : Clicked(s)
  /\ HostUnchanged /\ UNCHANGED <<base, lapses, uuid>>

\* Ctrl+Z and Ctrl+Y work in every context and leave the caret alone.
UndoKey ==
  /\ Gesture("undo")
  /\ \E s \in {Undo(store), Redo(store)} :
       /\ s # store /\ Keyed(s)
       /\ Lapse(Orphans(s, "undo") \union
            {"overwritten" : b \in {b \in DOMAIN drafts : b \notin KeptDrafts(s, DOMAIN drafts)}})
  /\ HostUnchanged /\ UNCHANGED <<base, uuid>>

\* Going to compose puts the caret into the first block.
Entered(s, before, of) ==
  LET first == IF s.doc.blocks = << >> THEN Null ELSE EditableIn(s, s.doc.blocks[1].id)
      written == IF before # Null /\ before # first /\ Inline(s, before)
                 THEN Commit(s, before, Shown(before)) ELSE s
  IN  IF s.ctx = "compose" /\ store.ctx # "compose" /\ first # Null
      THEN Shows(SelectBlock(written, first), first,
                 IF before = first THEN of ELSE of \ {before})
      ELSE Shows(s, IF before # Null /\ Inline(s, before) THEN before ELSE Null, of)

\* Mutant: The tab is pressed without the caret leaving its block.
ContextTabAtOnce ==
  /\ Gesture("context")
  /\ \E context \in Contexts \ {store.ctx} :
       Entered(SetContext(store, context), Null, DOMAIN drafts)
  /\ HostUnchanged /\ UNCHANGED <<base, lapses, uuid>>

\* A tab takes the caret away first; Ctrl+1 to Ctrl+6 do not, so that the text
\* typed into a block that can no longer be edited is never written.
ContextTab ==
  /\ Gesture("context") /\ Mouse
  /\ \E context \in Contexts \ {store.ctx} :
       Entered(SetContext(store, context), Null, DOMAIN drafts)
  /\ HostUnchanged /\ UNCHANGED <<base, lapses, uuid>>

ContextKey ==
  /\ Gesture("contextKey")
  /\ \E context \in Contexts \ {store.ctx} :
       LET s == SetContext(store, context)
       IN  /\ Entered(s, focus, DOMAIN drafts)
           /\ Lapse(IF focus \in DOMAIN drafts /\ ~Inline(s, focus) THEN {"switch"} ELSE {})
  /\ HostUnchanged /\ UNCHANGED <<base, uuid>>

\* The Save button of the header, which the dashboard gives nothing to call:
\* it is offered when there are changes and takes the mark away.
HeaderSave ==
  /\ Gesture("headerSave") /\ Mouse /\ store.dirty
  /\ Clicked(SetFlag(store, "dirty", FALSE))
  /\ Lapse({"unwritten"})
  /\ HostUnchanged /\ UNCHANGED <<base, uuid>>

\* Escape that no block handles, and the close button, unmount the editor.
Close ==
  /\ Gesture("close") /\ open'= FALSE
  /\ UNCHANGED <<store, focus, drafts, mode, blobs, calls, files, db, base, lapses, uuid>>

CanvasNext ==
  \/ Type \/ Leave \/ ClickBlock \/ ClickPage \/ Arrow \/ EnterInLayout \/ DeleteInLayout
  \/ EscapeInLayout \/ EnterInCompose \/ Backspace \/ HeadingShortcut
  \/ RailType \/ RailInsert \/ ClickToken \/ TokenRail \/ UndoKey
  \/ ContextTab \/ ContextKey \/ HeaderSave \/ Close

-----------------------------------------------------------------------------
(* The toolbar and the panels.                                               *)

ToolbarShown == store.ctx \in {"compose", "layout", "nlp"}
LeftShown == store.ctx \in {"layout", "nlp"}

PanelFrame == HostUnchanged /\ UNCHANGED base
Calm == PanelFrame /\ UNCHANGED <<lapses, uuid>>

\* A store after a deletion through a panel, which also selects nothing.
DeletedAndDeselected(id) == SelectBlock(Deleted(store, id), Null)

\* --- Toolbar: buttons for the selected block.

ToolbarUndo ==
  /\ Gesture("toolbar") /\ Mouse /\ ToolbarShown
  /\ \E s \in (IF CanUndo(store.hist) THEN {Undo(store)} ELSE {})
             \union (IF CanRedo(store.hist) THEN {Redo(store)} ELSE {}) :
       /\ Clicked(s)
       /\ Lapse(Orphans(s, "undo"))
  /\ PanelFrame /\ UNCHANGED uuid

ToolbarType ==
  /\ Gesture("toolbar") /\ Mouse /\ ToolbarShown /\ HasSelectedBlock(store)
  /\ SelectedBlock(store).type \in {"p", "h"}
  /\ \E type \in {"p", "h"} : Clicked(ChangeBlockType(store, store.sel, type))
  /\ Calm

\* Alignment is an override of the block that a second click takes back.
ToolbarAlign ==
  /\ Gesture("toolbar") /\ Mouse /\ ToolbarShown /\ HasSelectedBlock(store)
  /\ Clicked(Update(store, store.sel, LAMBDA b : [b EXCEPT !.over = ~@]))
  /\ Calm

\* The classes offered are those of the document; `None' takes the class away.
ClassesOf(s) == {c \in Classes : s.doc.styles[c] # "none"}

PickClass ==
  /\ Gesture("toolbar") /\ Mouse /\ ToolbarShown /\ HasSelectedBlock(store)
  /\ \E c \in ClassesOf(store) \union {Null} :
       Clicked(Update(store, store.sel, LAMBDA b : [b EXCEPT !.style = c]))
  /\ Calm

ToolbarBlock ==
  /\ Gesture("toolbar") /\ Mouse /\ ToolbarShown /\ HasSelectedBlock(store)
  /\ \/ \E direction \in {"up", "down"} : Clicked(Moved(store, store.sel, direction))
     \/ Clicked(DeletedAndDeselected(store.sel))
  /\ Calm

ToolbarDuplicate ==
  /\ Gesture("toolbar") /\ Mouse /\ ToolbarShown /\ HasSelectedBlock(store)
  /\ Clicked(Duplicated(store, store.sel, uuid))
  /\ uuid' = uuid + Len(store.doc.blocks)
  /\ PanelFrame /\ UNCHANGED lapses

\* --- The tree of blocks: any block, not only the selected one.

TreeSelect ==
  /\ Gesture("tree") /\ Mouse /\ LeftShown
  /\ \E b \in Ids(store.doc.blocks) : Clicked(SelectBlock(store, b))
  /\ Calm

TreeDelete ==
  /\ Gesture("tree") /\ Mouse /\ LeftShown
  /\ \E b \in Ids(store.doc.blocks) :
       LET s == IF store.sel = b THEN DeletedAndDeselected(b) ELSE Deleted(store, b)
       IN  Clicked(s) /\ Lapse(Orphans(s, "ancestor"))
  /\ PanelFrame /\ UNCHANGED uuid

TreeMove ==
  /\ Gesture("tree") /\ Mouse /\ LeftShown
  /\ \E b \in Ids(store.doc.blocks), direction \in {"up", "down"} :
       Clicked(Moved(store, b, direction))
  /\ Calm

TreeDuplicate ==
  /\ Gesture("tree") /\ Mouse /\ LeftShown
  /\ \E b \in Ids(store.doc.blocks) : Clicked(Duplicated(store, b, uuid))
  /\ uuid' = uuid + Len(store.doc.blocks)
  /\ PanelFrame /\ UNCHANGED lapses

\* A new block goes behind the selected one and is selected.
TreeAdd ==
  /\ Gesture("tree") /\ Mouse /\ LeftShown
  /\ \E type \in {"p", "code", "box"} :
       Clicked(SelectBlock(AddBlock(store, CreateBlock(type, uuid), store.sel), uuid))
  /\ uuid' = uuid + 1
  /\ PanelFrame /\ UNCHANGED lapses

\* --- The style panel: the class of the selected block, or its overrides.

StyleGesture(kind) == Gesture(kind) /\ Mouse /\ StylePanelShows(store)

EditsClass == mode = "class" /\ StyleOf(store) # Null

PatchStyle(s, set) ==
  IF EditsClass THEN UpdateStyleClass(s, StyleOf(store), IF set THEN "set" ELSE "bare")
  ELSE Update(s, store.sel, LAMBDA b : [b EXCEPT !.over = set])

ClearCurrentProps(s) ==
  IF EditsClass THEN AddStyleClass(s, StyleOf(store), "bare")
  ELSE Update(s, store.sel, LAMBDA b : [b EXCEPT !.over = FALSE])

Typography ==
  /\ StyleGesture("style")
  /\ \E set \in BOOLEAN : Clicked(PatchStyle(store, set))
  /\ Calm

ClearStyle ==
  /\ StyleGesture("style")
  /\ IF EditsClass THEN store.doc.styles[StyleOf(store)] = "set" ELSE SelectedBlock(store).over
  /\ Clicked(ClearCurrentProps(store))
  /\ Calm

ToggleMode ==
  /\ StyleGesture("style") /\ StyleOf(store) # Null
  /\ mode' = IF mode = "class" THEN "override" ELSE "class"
  /\ Calm /\ UNCHANGED <<store, focus, drafts>>

\* The overrides become a class under a name no class has.
SaveAsClass ==
  /\ StyleGesture("style") /\ mode = "override" /\ SelectedBlock(store).over
  /\ \E c \in Classes :
       /\ store.doc.styles[c] = "none"
       /\ Clicked(Update(AddStyleClass(store, c, "set"), store.sel,
                         LAMBDA b : [b EXCEPT !.style = c, !.over = FALSE]))
  /\ Calm

\* The list of classes in the panel.
ApplyClass ==
  /\ StyleGesture("style")
  /\ \E c \in ClassesOf(store) \union {Null} :
       Clicked(Update(store, store.sel, LAMBDA b : [b EXCEPT !.style = c]))
  /\ Calm

DeleteClass ==
  /\ StyleGesture("style") /\ StyleOf(store) # Null
  /\ Clicked(RemoveStyleClass(store, StyleOf(store)))
  /\ Calm

\* The text of the block in the panel, written at every key.
TypeContent ==
  /\ StyleGesture("content") /\ IsText(SelectedBlock(store))
  /\ \E text \in Words : Clicked(SetBlockSpans(store, store.sel, text))
  /\ Calm

\* Pictures: a source that is typed or cleared at once, or one that is picked
\* in a dialog and set when it answers, on the block of the click.
ImageSource ==
  /\ StyleGesture("image") /\ SelectedBlock(store).type = "img"
  /\ \E src \in {Empty, {"asset"}} :
       /\ Clicked(Update(store, store.sel, LAMBDA b : [b EXCEPT !.text = src]))
       /\ Lapse(IF src = {"asset"} /\ blobs # store.doc.pics THEN {"pictures"} ELSE {})
  /\ PanelFrame /\ UNCHANGED uuid

PickImage ==
  /\ StyleGesture("image") /\ SelectedBlock(store).type = "img"
  /\ \A c \in calls : c.kind # "image"
  /\ Cardinality(calls) < MaxCalls
  /\ Clicked(store)
  /\ calls' = calls \union {[kind |-> "image", doc |-> Null, at |-> store.sel]}
  /\ UNCHANGED <<blobs, files, db, base, open, lapses, uuid>>

ImagePicked ==
  /\ NoGesture /\ open
  /\ \E c \in calls :
       /\ c.kind = "image"
       /\ calls' = calls \ {c}
       /\ \/ Keyed(store)
          \/ Keyed(Update(store, c.at, LAMBDA b : [b EXCEPT !.text = {"local"}]))
  /\ UNCHANGED <<blobs, files, db, base, open, lapses, uuid>>

\* Alignment, spacing, caption and the other fields of a block.
Attribute ==
  /\ StyleGesture("style")
  /\ Clicked(Update(store, store.sel, LAMBDA b : [b EXCEPT !.attr = ~@]))
  /\ Calm

\* --- The document panel.

\* The file name follows the title while it is the one the title gives.
TitleBlur ==
  /\ Gesture("document") /\ Mouse /\ LeftShown
  /\ \E title \in Titles :
       LET follows == store.doc.file = "" \/ store.doc.file = Slug[store.doc.title]
           file == IF follows THEN Slug[title] ELSE store.doc.file
       IN  Clicked(IF title # store.doc.title \/ file # store.doc.file
                   THEN UpdateMeta(store, title, file) ELSE store)
  /\ Calm

FilenameBlur ==
  /\ Gesture("document") /\ Mouse /\ LeftShown
  /\ \E title \in Titles :
       Clicked(IF Slug[title] # store.doc.file
               THEN UpdateMeta(store, store.doc.title, Slug[title]) ELSE store)
  /\ Calm

PageSetup ==
  /\ Gesture("document") /\ Mouse /\ LeftShown
  /\ Clicked(UpdatePage(store, 1 - store.doc.page))
  /\ Calm

\* --- The analysis of the document, from the NLP or the statistics panel.

Analyze ==
  /\ Gesture("analyze") /\ Mouse /\ store.ctx \in {"nlp", "stats"} /\ ~store.analyzing
  /\ Cardinality(calls) < MaxCalls
  /\ Clicked(SetFlag(store, "analyzing", TRUE))
  /\ calls' = calls \union {[kind |-> "analyze", doc |-> store.doc, at |-> Null]}
  /\ UNCHANGED <<blobs, files, db, base, open, lapses, uuid>>

\* Blocks whose analysis fails are left as they were; the document that was
\* captured, annotated, replaces the one in the store.
RunAnalysis(doc, done) ==
  LET bs == doc.blocks
      annotated == [i \in DOMAIN bs |->
                      IF i \in done THEN [bs[i] EXCEPT !.nlp = bs[i].text] ELSE bs[i]]
  IN  [doc EXCEPT !.blocks = annotated]

Analyzed ==
  /\ NoGesture /\ open
  /\ \E c \in calls :
       LET withText == {i \in DOMAIN c.doc.blocks :
                          IsText(c.doc.blocks[i]) /\ c.doc.blocks[i].text # Empty}
       IN  /\ c.kind = "analyze"
           /\ calls' = calls \ {c}
           /\ \E done \in SUBSET withText :
                LET s == [SetDocument(store, RunAnalysis(c.doc, done))
                            EXCEPT !.summary = TRUE, !.analyzing = FALSE]
                IN  /\ Keyed(s)
                    /\ Lapse(Orphans(s, "stale") \union
                         (IF Content(c.doc) # Content(store.doc) THEN {"stale"} ELSE {}))
  /\ UNCHANGED <<blobs, files, db, base, open, uuid>>

PanelsNext ==
  \/ ToolbarUndo \/ ToolbarType \/ ToolbarAlign \/ PickClass \/ ToolbarBlock
  \/ ToolbarDuplicate \/ TreeSelect \/ TreeDelete \/ TreeMove \/ TreeDuplicate
  \/ TreeAdd \/ Typography \/ ClearStyle \/ ToggleMode \/ SaveAsClass
  \/ ApplyClass \/ DeleteClass \/ TypeContent \/ ImageSource \/ PickImage \/ ImagePicked
  \/ Attribute \/ TitleBlur \/ FilenameBlur \/ PageSetup \/ Analyze \/ Analyzed
=============================================================================
