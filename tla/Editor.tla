------------------------------- MODULE Editor -------------------------------
(* The document editor: the page, the panels and the files over one store.   *)
(* Gestures of the user and answers of the host come in any order. What the  *)
(* invariants have to excuse is recorded in `lapses' since the last load.    *)
EXTENDS EditorGestures, EditorFiles

Next == CanvasNext \/ PanelsNext \/ FilesNext

Spec == Init /\ [][Next]_vars

-----------------------------------------------------------------------------
CallKinds ==
  {"analyze", "image", "pick", "template", "recent", "save", "saveAs", "writeAs", "export"}

EditorStates ==
  [doc : Documents,
   hist : [past : Seq(Documents), present : Documents, future : Seq(Documents)],
   sel : Nat \cup {Null}, ed : Nat \cup {Null}, tok : Nat \cup {Null},
   ctx : Contexts, summary : BOOLEAN, analyzing : BOOLEAN, dirty : BOOLEAN,
   exporting : BOOLEAN, path : Paths \cup {Null}]

(* The types; the past and the future of the undo stack stay within its bound  *)
(* together (redoHistory has none of its own, but what is redone was undone);  *)
(* and a flag that shows the user a call is under way is up exactly while one  *)
(* is (isAnalyzing, isExporting): none outlives its call.                      *)
TypeOK ==
  /\ store \in EditorStates
  /\ Len(store.hist.past) + Len(store.hist.future) <= MaxEntries
  /\ mode \in {"class", "override"}
  /\ \A c \in calls : c.kind \in CallKinds
  /\ open => /\ store.analyzing = (\E c \in calls : c.kind = "analyze")
             /\ store.exporting = (\E c \in calls : c.kind = "export")

(* What the page shows is what undo and redo work on: no edit is in the        *)
(* document and not in its history, or in the history and not in the document. *)
(* The one exception is the answer of an analysis that was asked for before    *)
(* an edit: it puts the old document back, and the next edit makes that the    *)
(* newest snapshot (useNLPAnalyze).                                            *)
EditsSurvive ==
  "stale" \notin lapses => Content(store.doc) = Content(store.hist.present)

(* A document that is not marked as changed is the one that was last loaded or *)
(* written. The exceptions: the Save button of the header, which writes        *)
(* nothing; a save whose answer comes after an edit it did not write; and the  *)
(* answer of an analysis that undoes edits.                                    *)
CleanMeansSaved ==
  \/ store.dirty
  \/ lapses \cap {"unwritten", "overtaken", "stale"} # {}
  \/ Content(store.doc) = base

(* Text on the page that the store does not have is only ever in the block     *)
(* with the caret, from which leaving it writes it. The exceptions leave the   *)
(* block without the caret leaving it: Escape, an arrow, a switch of context   *)
(* by key, a document loaded under the page.                                   *)
ShownIsStored ==
  \/ lapses \cap {"escape", "switch", "arrow", "load"} # {}
  \/ DOMAIN drafts \subseteq {focus}

(* A draft that is no longer on the page as such is in the store, or its block *)
(* is gone with it, or was given another text, or the draft was the shortcut   *)
(* that makes the block a heading: leaving a block, whatever the gesture,      *)
(* writes what was typed into it. The exceptions are a merge, an undo and a    *)
(* load while the caret is in the block, and the answer of an analysis.        *)
DraftLands(b) ==
  \/ b \notin Ids(store'.doc.blocks)
  \/ FindBlock(store'.doc.blocks, b).text = drafts[b]
  \/ FindBlock(store'.doc.blocks, b).text # FindBlock(store.doc.blocks, b).text
  \/ drafts[b] = Heading /\ FindBlock(store'.doc.blocks, b).type = "h"
  \/ lapses' \cap {"merge", "overwritten", "load", "stale", "escape", "switch", "arrow"} # {}

DraftsLand == [][\A b \in DOMAIN drafts \ DOMAIN drafts' : DraftLands(b)]_vars

(* The selection, the block being edited and the token rail are about blocks   *)
(* the document has. The exceptions: undo and redo, which leave the selection  *)
(* where it was; deleting in the tree a block around the selected one; and an  *)
(* analysis that takes back the block that was added since.                    *)
SelectionKnown ==
  \/ lapses \cap {"undo", "ancestor", "stale"} # {}
  \/ {store.sel, store.ed, store.tok} \subseteq Ids(store.doc.blocks) \cup {Null}

(* A document whose pictures are in a bundle has that bundle's pictures in     *)
(* memory, so that saving it writes them. The exceptions: a bundle that cannot *)
(* be read; documents of the database, which leave the pictures of another     *)
(* document in memory; a picture of a bundle that is typed or imported into a  *)
(* document of another one; and an analysis that puts an older document back.  *)
PicturesAtHand ==
  \/ lapses \cap {"pictures", "stale"} # {}
  \/ HasPictures(store.doc) => blobs = store.doc.pics

(* The path that Save writes to is the bundle of this document: a save never   *)
(* puts a document over another one. The exceptions: a save whose answer comes *)
(* after another document was opened and has the path, and an analysis that    *)
(* puts the document of before back.                                           *)
PathIsOwn ==
  \/ lapses \cap {"path", "stale"} # {}
  \/ store.path = Null
  \/ files[store.path] = store.doc.id

(* The undo history of the store, whatever the gesture and the answer that     *)
(* changed it, is a log of snapshots with a position in it.                    *)
HistoryLog(h) ==
  [i \in 1 .. Len(h.past) + 1 + Len(h.future) |->
     IF i <= Len(h.past) THEN h.past[i]
     ELSE IF i = Len(h.past) + 1 THEN h.present ELSE h.future[i - Len(h.past) - 1]]

Ideal == INSTANCE UndoLog WITH log <- HistoryLog(store.hist),
                               at <- Len(store.hist.past) + 1

ImplementsUndo == Ideal!Spec

\* The store is typed, and its selection is a block of the document.
StoreSound == TypeOK /\ SelectionKnown

\* The pictures at hand and the path are those of the document.
FilesAreOwn == PicturesAtHand /\ PathIsOwn
=============================================================================
