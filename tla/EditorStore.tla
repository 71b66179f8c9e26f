---------------------------- MODULE EditorStore -----------------------------
(* The state the parts of an open document editor share.                     *)
(*                                                                           *)
(* First the undo stack (models/history.ts): a snapshot that is shown, the   *)
(* snapshots before it and those undone, as functions from stack to stack.   *)
(* The store keeps one for the document.                                     *)
(*                                                                           *)
(* Then the blocks of a document (models/sdm-factory.ts): a tree is the      *)
(* sequence of its blocks in document order, each with its depth: the        *)
(* descendants of a block are the deeper blocks that follow it, and the      *)
(* blocks of depth 0 are the top level.                                      *)
(*                                                                           *)
(* Then the store (store/editor-store.tsx): its state and, for each message  *)
(* of the reducer, the state after it. A document has an identity, a title   *)
(* and a file name that may follow it, style classes, a page set-up, blocks, *)
(* and `pics', the bundle its asset:// pictures are in. Wording (the status  *)
(* line), the intent and the layers shown are left out.                      *)
(*                                                                           *)
(* Last the session: the store, the text the user has typed into a block of  *)
(* the page and the store does not have yet, the pictures of the bundle that *)
(* was opened, and the calls of the host that are under way.                 *)
EXTENDS Integers, Sequences, FiniteSets

CONSTANT Null   \* no block, no class, no annotation

CreateHistory(x) == [past |-> << >>, present |-> x, future |-> << >>]

\* The newest n elements of s.
LastOf(s, n) == IF Len(s) > n THEN SubSeq(s, Len(s) - n + 1, Len(s)) ELSE s

PushHistory(h, next, maxEntries) ==
  [past |-> LastOf(Append(h.past, h.present), maxEntries),
   present |-> next, future |-> << >>]

CanUndo(h) == Len(h.past) > 0
CanRedo(h) == Len(h.future) > 0

\* Mutant: What is undone goes behind what was undone before it.
UndoHistoryBehind(h) ==
  IF ~CanUndo(h) THEN h
  ELSE [past |-> SubSeq(h.past, 1, Len(h.past) - 1),
        present |-> h.past[Len(h.past)],
        future |-> Append(h.future, h.present)]

UndoHistory(h) ==
  IF ~CanUndo(h) THEN h
  ELSE [past |-> SubSeq(h.past, 1, Len(h.past) - 1),
        present |-> h.past[Len(h.past)],
        future |-> <<h.present>> \o h.future]

RedoHistory(h) ==
  IF ~CanRedo(h) THEN h
  ELSE [past |-> Append(h.past, h.present),
        present |-> Head(h.future),
        future |-> Tail(h.future)]

-----------------------------------------------------------------------------

\* A text is the set of its words.
Empty == {}

\* Blocks with spans; blocks whose text the user types; blocks with children.
IsText(b) == b.type \in {"p", "h", "li"}
IsEditable(b) == IsText(b) \/ b.type = "code"

CreateBlock(type, id) ==
  [id |-> id, depth |-> 0, type |-> type, text |-> Empty, style |-> Null,
   over |-> FALSE, attr |-> FALSE, nlp |-> Null]

Ids(bs) == {bs[i].id : i \in DOMAIN bs}

\* The first block of that id in document order, 0 if there is none.
IndexOf(bs, id) ==
  IF id \in Ids(bs)
  THEN CHOOSE i \in DOMAIN bs :
         bs[i].id = id /\ \A j \in 1 .. i - 1 : bs[j].id # id
  ELSE 0

FindBlock(bs, id) == bs[IndexOf(bs, id)]

\* The last of the block at i and its descendants.
EndOf(bs, i) ==
  CHOOSE j \in i .. Len(bs) :
    /\ \A k \in i + 1 .. j : bs[k].depth > bs[i].depth
    /\ j < Len(bs) => bs[j + 1].depth <= bs[i].depth

\* The position of the id among the top-level blocks, 0 if it is not there.
TopIndexOf(bs, id) ==
  LET top == {i \in DOMAIN bs : bs[i].depth = 0 /\ bs[i].id = id}
  IN  IF top = {} THEN 0 ELSE CHOOSE i \in top : \A j \in top : i <= j

Part(bs, i) == SubSeq(bs, i, EndOf(bs, i))

UpdateBlock(bs, id, Updated(_)) ==
  [i \in DOMAIN bs |-> IF bs[i].id = id THEN Updated(bs[i]) ELSE bs[i]]

\* Behind a top-level block, or at the end.
InsertBlocks(bs, new, after) ==
  LET i == TopIndexOf(bs, after)
      at == IF i = 0 THEN Len(bs) ELSE EndOf(bs, i)
  IN  SubSeq(bs, 1, at) \o new \o SubSeq(bs, at + 1, Len(bs))

\* The position k is that of a block of the id or of one of its descendants.
Within(bs, id, k) == \E i \in 1 .. k : bs[i].id = id /\ k <= EndOf(bs, i)

DeleteBlock(bs, id) ==
  LET left[k \in 0 .. Len(bs)] ==
        IF k = 0 THEN << >>
        ELSE IF Within(bs, id, k) THEN left[k - 1] ELSE Append(left[k - 1], bs[k])
  IN  left[Len(bs)]

\* The neighbour among the top-level blocks changes places with the block.
MoveBlock(bs, id, direction) ==
  LET i == TopIndexOf(bs, id)
      first == IF direction = "down" THEN i
               ELSE CHOOSE j \in 1 .. i - 1 : bs[j].depth = 0 /\ EndOf(bs, j) = i - 1
      second == EndOf(bs, first) + 1
  IN  IF \/ i = 0
         \/ direction = "up" /\ i = 1
         \/ direction = "down" /\ EndOf(bs, i) = Len(bs)
      THEN bs
      ELSE SubSeq(bs, 1, first - 1) \o Part(bs, second) \o Part(bs, first)
             \o SubSeq(bs, EndOf(bs, second) + 1, Len(bs))

\* A copy with new identities, from `fresh' on.
CloneBlock(part, fresh) ==
  [k \in DOMAIN part |-> [part[k] EXCEPT !.id = fresh + k - 1]]

DuplicateBlock(bs, id, fresh) ==
  LET i == TopIndexOf(bs, id)
  IN  IF i = 0 THEN bs
      ELSE InsertBlocks(bs, CloneBlock(Part(bs, i), fresh), id)

\* The annotations of an analysis are not part of what is saved or typed.
StripNlp(bs) == [i \in DOMAIN bs |-> [bs[i] EXCEPT !.nlp = Null]]

-----------------------------------------------------------------------------
(* The store.                                                                *)

CONSTANTS MaxEntries,   \* 50 snapshots before the oldest is dropped
          Slug          \* slugifyDocumentFilename on the titles in use

ASSUME MaxEntriesAssumption == MaxEntries \in Nat \ {0}

Contexts == {"compose", "layout", "review", "stats", "nlp", "export"}

\* A document read from elsewhere gets a title from its path and a file name.
NormalizeDocumentMetadata(doc, stem) ==
  LET title == IF doc.title = "" THEN stem ELSE doc.title
  IN  [doc EXCEPT !.title = title,
                  !.file = IF @ = "" THEN Slug[title] ELSE @]

InitialState(doc, context, path) ==
  [doc |-> doc, hist |-> CreateHistory(doc), sel |-> Null, ed |-> Null,
   tok |-> Null, ctx |-> context, summary |-> FALSE, analyzing |-> FALSE,
   dirty |-> FALSE, exporting |-> FALSE, path |-> path]

\* Mutant: The snapshot is the document before the change.
MutatedLate(s, doc) ==
  [s EXCEPT !.doc = doc, !.hist = PushHistory(@, s.doc, MaxEntries), !.dirty = TRUE]

\* Every mutation puts a snapshot on the history and marks the document
\* changed, also one that changed nothing.
Mutated(s, doc) ==
  [s EXCEPT !.doc = doc, !.hist = PushHistory(@, doc, MaxEntries), !.dirty = TRUE]

WithBlocks(s, blocks) == Mutated(s, [s.doc EXCEPT !.blocks = blocks])

\* The annotated document of an analysis: no snapshot.
SetDocument(s, doc) == [s EXCEPT !.doc = doc]

\* Mutant: A document without a path gets that of the one before.
LoadDocumentAtPath(s, doc, path, stem) ==
  LET loaded == NormalizeDocumentMetadata(doc, stem)
  IN  [s EXCEPT !.doc = loaded, !.hist = CreateHistory(loaded),
                !.path = IF path = Null THEN @ ELSE path,
                !.ctx = "layout", !.dirty = FALSE, !.ed = Null, !.sel = Null,
                !.tok = Null]

LoadDocument(s, doc, path, stem) ==
  LET loaded == NormalizeDocumentMetadata(doc, stem)
  IN  [s EXCEPT !.doc = loaded, !.hist = CreateHistory(loaded), !.path = path,
                !.ctx = "layout", !.dirty = FALSE, !.ed = Null, !.sel = Null,
                !.tok = Null]

Update(s, id, Patched(_)) == WithBlocks(s, UpdateBlock(s.doc.blocks, id, Patched))

SetBlockSpans(s, id, text) ==
  Update(s, id, LAMBDA b : IF IsText(b) THEN [b EXCEPT !.text = text] ELSE b)

SetBlockText(s, id, text) ==
  Update(s, id, LAMBDA b : IF b.type = "code" THEN [b EXCEPT !.text = text] ELSE b)

ChangeBlockType(s, id, type) ==
  Update(s, id, LAMBDA b : IF IsText(b) THEN [b EXCEPT !.type = type] ELSE b)

AddBlock(s, block, after) ==
  WithBlocks(s, InsertBlocks(s.doc.blocks, <<block>>, after))

ImportBlocks(s, blocks) == WithBlocks(s, InsertBlocks(s.doc.blocks, blocks, Null))

Without(ref, id) == IF ref = id THEN Null ELSE ref

\* Mutant: The selection stays on the block.
DeletedUnderSelection(s, id) == WithBlocks(s, DeleteBlock(s.doc.blocks, id))

Deleted(s, id) ==
  [WithBlocks(s, DeleteBlock(s.doc.blocks, id)) EXCEPT
     !.sel = Without(@, id), !.ed = Without(@, id), !.tok = Without(@, id)]

\* The text of the block joins the block before it in document order.
MergesUp(s, id) ==
  LET i == IndexOf(s.doc.blocks, id)
  IN  i > 1 /\ IsText(s.doc.blocks[i]) /\ IsText(s.doc.blocks[i - 1])

MergeBlockUp(s, id) ==
  LET bs == s.doc.blocks
      current == FindBlock(bs, id)
      previous == bs[IndexOf(bs, id) - 1]
      text == previous.text \union current.text
      joined == UpdateBlock(bs, previous.id,
                  LAMBDA b : IF IsText(b) THEN [b EXCEPT !.text = text] ELSE b)
  IN  IF ~MergesUp(s, id) THEN s
      ELSE [WithBlocks(s, DeleteBlock(joined, id)) EXCEPT !.sel = previous.id]

SelectNeighbor(s, direction) ==
  LET i == IndexOf(s.doc.blocks, s.sel)
      next == IF direction = "up" /\ i > 1 THEN i - 1
              ELSE IF direction = "down" /\ i < Len(s.doc.blocks) THEN i + 1 ELSE i
  IN  IF s.sel = Null \/ i = 0 THEN s
      ELSE [s EXCEPT !.sel = s.doc.blocks[next].id, !.ed = Null]

\* An arrow that reaches so many handlers, one after the other.
SelectFarNeighbor(s, direction, times) ==
  LET after[n \in 0 .. times] == IF n = 0 THEN s ELSE SelectNeighbor(after[n - 1], direction)
  IN  after[times]

Moved(s, id, direction) == WithBlocks(s, MoveBlock(s.doc.blocks, id, direction))

Duplicated(s, id, fresh) == WithBlocks(s, DuplicateBlock(s.doc.blocks, id, fresh))

\* A class holds properties, is there without any, or does not exist.
AddStyleClass(s, class, props) ==
  Mutated(s, [s.doc EXCEPT !.styles[class] = props])

UpdateStyleClass(s, class, props) ==
  IF s.doc.styles[class] = "none" THEN s
  ELSE Mutated(s, [s.doc EXCEPT !.styles[class] = props])

RemoveStyleClass(s, class) ==
  LET bs == s.doc.blocks
      bare == [i \in DOMAIN bs |-> [bs[i] EXCEPT !.style = Without(bs[i].style, class)]]
  IN  Mutated(s, [s.doc EXCEPT !.styles[class] = "none", !.blocks = bare])

UpdateMeta(s, title, file) == Mutated(s, [s.doc EXCEPT !.title = title, !.file = file])

UpdatePage(s, page) == Mutated(s, [s.doc EXCEPT !.page = page])

\* Mutant: A saved document stays saved when an edit is undone.
UndoUnmarked(s) ==
  LET h == UndoHistory(s.hist)
  IN  IF ~CanUndo(s.hist) THEN s ELSE [s EXCEPT !.doc = h.present, !.hist = h]

\* The document follows the stack; selection and editing stay as they are.
Undo(s) ==
  LET h == UndoHistory(s.hist)
  IN  IF ~CanUndo(s.hist) THEN s ELSE [s EXCEPT !.doc = h.present, !.hist = h, !.dirty = TRUE]

Redo(s) ==
  LET h == RedoHistory(s.hist)
  IN  IF ~CanRedo(s.hist) THEN s ELSE [s EXCEPT !.doc = h.present, !.hist = h, !.dirty = TRUE]

SelectBlock(s, id) ==
  [s EXCEPT !.sel = id, !.ed = Null, !.tok = IF id = @ THEN @ ELSE Null]

SelectToken(s, id) == [s EXCEPT !.sel = id, !.tok = id]

ClearSelectedToken(s) == [s EXCEPT !.tok = Null]

StartEditingBlock(s, id) ==
  IF s.ctx # "layout" THEN s ELSE [s EXCEPT !.sel = id, !.ed = id]

StopEditingBlock(s, id) == [s EXCEPT !.ed = Without(@, id)]

SetContext(s, context) ==
  [s EXCEPT !.ctx = context,
            !.ed = IF context = "layout" THEN @ ELSE Null,
            !.tok = IF context = "nlp" THEN @ ELSE Null]

SetFlag(s, flag, value) == [s EXCEPT ![flag] = value]

SetDocumentPath(s, path) == [s EXCEPT !.path = path]

\* The block of the selection, if the document has it (useSelectedBlock).
HasSelectedBlock(s) == s.sel \in Ids(s.doc.blocks)
SelectedBlock(s) == FindBlock(s.doc.blocks, s.sel)

-----------------------------------------------------------------------------
(* The session.                                                              *)

CONSTANTS Words,        \* what one typing writes into a block
          Heading,      \* the word that makes a paragraph a heading: #
          Titles, Paths, Classes,
          NewDocument,  \* the document the editor is opened with
          OnDisk,       \* [Paths -> documents], the bundle behind each path
          KindSets,     \* the kinds of gesture one behaviour may have
          MaxGestures, MaxCalls

\* The words of a document, and those that are written or picked here.
WordsOf(doc) == UNION {doc.blocks[i].text : i \in DOMAIN doc.blocks}

WordsRead ==
  UNION {WordsOf(doc) : doc \in {NewDocument} \cup {OnDisk[p] : p \in Paths}}

Texts == SUBSET (WordsRead \cup {"asset", "local"} \cup UNION Words)

Blocks ==
  [id : Nat, depth : Nat, type : {"p", "h", "li", "code", "box", "img"}, text : Texts,
   style : Classes \cup {Null}, over : BOOLEAN, attr : BOOLEAN, nlp : Texts \cup {Null}]

Trees == {bs \in Seq(Blocks) : bs # << >> => bs[1].depth = 0}

FileNames == {Slug[title] : title \in Titles} \cup {""}

Documents ==
  [id : Nat, title : Titles, file : FileNames, page : {0, 1},
   styles : [Classes -> {"none", "bare", "set"}], blocks : Trees, pics : Paths \cup {Null}]

\* Null is none of the things it stands for the absence of, and a document
\* that was never in a bundle has no pictures in one.
ASSUME EditorAssumption ==
  /\ Null \notin Nat /\ Null \notin Paths
  /\ NewDocument \in Documents /\ NewDocument.pics = Null
  /\ OnDisk \in [Paths -> Documents]

VARIABLES
  store,    \* EditorState
  focus,    \* the block that has the caret, Null if none has
  drafts,   \* block -> text on the page that differs from the store's
  mode,     \* what the style panel edits: the class or the block's overrides
  blobs,    \* blobStore: the bundle whose pictures are in memory
  calls,    \* asynchronous calls of the host, with what they captured
  files,    \* path -> the identity of the document in the bundle there
  db,       \* the documents of the database
  base,     \* the content that was last loaded, or written when dirty ended
  lapses,   \* what happened since the load that the invariants excuse
  uuid,     \* the next identity crypto.randomUUID gives
  open,     \* the editor is mounted
  kinds, gestures

vars == <<store, focus, drafts, mode, blobs, calls, files, db, base, lapses,
          uuid, open, kinds, gestures>>

Content(doc) == [doc EXCEPT !.blocks = StripNlp(@)]

\* The user can type into the block: always in compose, in layout after
\* editing was started.
Inline(s, b) == s.ctx = "compose" \/ (s.ctx = "layout" /\ s.ed = b)

Shown(b) == IF b \in DOMAIN drafts THEN drafts[b] ELSE FindBlock(store.doc.blocks, b).text

\* React keeps the element of a block, and what was typed into it, while the
\* block keeps its identity, its tag and its text.
SameElement(s, b) ==
  /\ b \in Ids(s.doc.blocks)
  /\ FindBlock(s.doc.blocks, b).type = FindBlock(store.doc.blocks, b).type

KeptDrafts(s, of) ==
  {b \in of : /\ SameElement(s, b)
              /\ LET new == FindBlock(s.doc.blocks, b)
                 IN  /\ new.text = FindBlock(store.doc.blocks, b).text
                     /\ ~(s.ctx = "nlp" /\ new.nlp # Null)}

\* The style panel shows the class again when another block or another class
\* is selected, and when it is mounted.
StyleOf(s) == IF HasSelectedBlock(s) THEN SelectedBlock(s).style ELSE Null
StylePanelShows(s) == s.ctx = "layout" /\ HasSelectedBlock(s)

ModeAfter(s) ==
  IF /\ StylePanelShows(store) /\ StylePanelShows(s)
     /\ s.sel = store.sel /\ StyleOf(s) = StyleOf(store)
  THEN mode
  ELSE IF StyleOf(s) = Null THEN "override" ELSE "class"

\* The page after the store became s, the caret being put into `caret'.
Shows(s, caret, of) ==
  /\ store' = s
  /\ focus' = caret
  /\ drafts' = [b \in KeptDrafts(s, of) |-> drafts[b]]
  /\ mode' = ModeAfter(s)

\* A key or an answer: the caret stays where it is while it can.
Keyed(s) ==
  Shows(s, IF focus # Null /\ SameElement(s, focus) /\ Inline(s, focus) THEN focus ELSE Null,
        DOMAIN drafts)

\* Leaving the block of the caret writes what the page shows (handleSpanBlur,
\* handleCodeBlur).
Commit(s, b, text) ==
  LET written == IF FindBlock(store.doc.blocks, b).type = "code"
                 THEN SetBlockText(s, b, text) ELSE SetBlockSpans(s, b, text)
  IN  IF s.ctx = "layout" THEN StopEditingBlock(written, b) ELSE written

\* The mouse is used with no caret on the page: pressing it anywhere but in the
\* block of the caret has taken the caret away (Leave).
Mouse == focus = Null

Clicked(s) == Shows(s, Null, DOMAIN drafts)

\* The first block of the element that can take the caret, Null if none can.
EditableIn(s, b) ==
  LET i == IndexOf(s.doc.blocks, b)
      able == {j \in i .. EndOf(s.doc.blocks, i) : IsEditable(s.doc.blocks[j])}
  IN  IF i = 0 \/ able = {} THEN Null
      ELSE s.doc.blocks[CHOOSE j \in able : \A k \in able : j <= k].id

Gesture(kind) ==
  /\ open /\ kind \in kinds /\ gestures < MaxGestures
  /\ gestures' = gestures + 1
  /\ UNCHANGED kinds

NoGesture == UNCHANGED <<kinds, gestures>>

\* What gestures on the page and the panels leave alone.
HostUnchanged == UNCHANGED <<blobs, calls, files, db, base, open>>

Lapse(new) == lapses' = lapses \union new

\* The lapse a step is when it leaves the selection on no block.
Orphans(s, name) ==
  IF HasSelectedBlock(store) /\ s.sel # Null /\ ~HasSelectedBlock(s) THEN {name} ELSE {}

Init ==
  /\ kinds \in KindSets
  /\ store = InitialState(NormalizeDocumentMetadata(NewDocument, ""), "layout", Null)
  /\ focus = Null /\ drafts = << >> /\ mode = "override"
  /\ blobs = Null /\ calls = {} /\ db = {}
  /\ files = [p \in Paths |-> OnDisk[p].id]
  /\ base = Content(store.doc) /\ lapses = {}
  /\ uuid = 100 /\ open = TRUE /\ gestures = 0
=============================================================================
