---------------------------- MODULE EditorFiles ----------------------------
(* The documents an editor opens, saves and exports (ExportPanel and the PDF *)
(* button of the shell). Every operation is one or more calls of the host;   *)
(* its answers work on the store of that moment with the document, the path  *)
(* and the pictures of the moment it was started.                            *)
EXTENDS EditorStore

PanelShown == store.ctx = "export"

Room == Cardinality(calls) < MaxCalls

Start(call) == Room /\ calls' = calls \union {call}
Finish(call) == calls' = calls \ {call}

Call(kind, at) == [kind |-> kind, doc |-> store.doc, at |-> at]

HasPictures(doc) ==
  \E i \in DOMAIN doc.blocks :
    doc.blocks[i].type = "img" /\ doc.blocks[i].text = {"asset"}

\* A load makes the document the one open; what was typed on the page and not
\* written (`load') is gone, but for a block that stays.
Opened(doc, path, stem, pictures) ==
  LET s == LoadDocument(store, doc, path, stem)
  IN  /\ Keyed(s)
      /\ blobs' = pictures
      /\ base' = Content(s.doc)
      /\ lapses' = (IF DOMAIN drafts # {} THEN {"load"} ELSE {}) \union
           (IF HasPictures(doc) /\ pictures # doc.pics THEN {"pictures"} ELSE {})

\* Blocks from elsewhere may show pictures that are not those in memory.
Strange(doc) ==
  IF HasPictures(doc) /\ blobs # store.doc.pics THEN {"pictures"} ELSE {}

\* Opening a bundle forgets the pictures in memory before it reads the bundle.
BrokenBundle == /\ Keyed(store) /\ blobs' = Null
                /\ Lapse({"pictures"}) /\ UNCHANGED base

Nothing == Keyed(store) /\ UNCHANGED <<blobs, base, lapses>>

\* --- Opening.

StartOpen ==
  /\ Gesture("open") /\ PanelShown
  /\ \E kind \in {"pick", "template", "recent"} :
       /\ kind = "pick" => \A c \in calls : c.kind # "pick"
       /\ kind = "recent" => db # {}
       /\ Start([kind |-> kind, doc |-> Null, at |-> Null])
  /\ Nothing
  /\ UNCHANGED <<files, db, uuid, open>>

\* A file of the dialog: a bundle, a document in JSON, a page of markup whose
\* blocks are new, a fragment of blocks that bring their identities.
FilePicked ==
  /\ NoGesture /\ open
  /\ \E c \in calls :
       /\ c.kind = "pick" /\ Finish(c)
       /\ \/ Nothing /\ UNCHANGED uuid
          \/ BrokenBundle /\ UNCHANGED uuid
          \/ \E p \in Paths :
               /\ files[p] = OnDisk[p].id
               /\ Opened(OnDisk[p], p, "", OnDisk[p].pics) /\ UNCHANGED uuid
          \/ Opened([NewDocument EXCEPT !.id = uuid], Null, "", blobs) /\ uuid' = uuid + 1
          \/ /\ Keyed(ImportBlocks(store, <<CreateBlock("p", uuid)>>))
             /\ uuid' = uuid + 1 /\ UNCHANGED <<blobs, base, lapses>>
          \/ /\ Keyed(ImportBlocks(store, NewDocument.blocks))
             /\ UNCHANGED <<blobs, base, uuid>>
             /\ Lapse(Strange(NewDocument))
  /\ UNCHANGED <<files, db, open>>

\* A template gets an identity of its own and no path.
TemplateRead ==
  /\ NoGesture /\ open
  /\ \E c \in calls :
       /\ c.kind = "template" /\ Finish(c)
       /\ \/ Nothing
          \/ BrokenBundle
          \/ \E p \in Paths :
               Opened([OnDisk[p] EXCEPT !.id = uuid], Null, "", OnDisk[p].pics)
          \/ Opened([NewDocument EXCEPT !.id = uuid], Null, "", blobs)
  /\ uuid' = uuid + 1
  /\ UNCHANGED <<files, db, open>>

\* A document of the database is read without its pictures and its file name,
\* and the pictures in memory stay.
RecentRead ==
  /\ NoGesture /\ open
  /\ \E c \in calls :
       /\ c.kind = "recent" /\ Finish(c)
       /\ \/ Nothing
          \/ \E doc \in db : Opened([doc EXCEPT !.file = ""], Null, "", blobs)
  /\ UNCHANGED <<files, db, uuid, open>>

\* --- Saving.

\* A document with the path of a bundle is written there, any other into the
\* database.
StartSave ==
  /\ Gesture("save") /\ PanelShown
  /\ Start(Call("save", store.path))
  /\ Nothing
  /\ UNCHANGED <<files, db, uuid, open>>

\* The bundle at the path of the call is the document it captured.
Written(c) == [files EXCEPT ![c.at] = c.doc.id]

\* What the store is told after a save: nothing is unsaved.
Overtaken(doc) == IF Content(doc) # Content(store.doc) THEN {"overtaken"} ELSE {}

\* The answer of a save finds another document open.
Elsewhere(doc) == IF doc.id # store.doc.id THEN {"path"} ELSE {}

Saved ==
  /\ NoGesture /\ open
  /\ \E c \in calls :
       /\ c.kind = "save" /\ Finish(c)
       /\ \/ UNCHANGED <<files, db>> /\ Nothing
          \/ /\ files' = IF c.at = Null THEN files ELSE Written(c)
             /\ db' = IF c.at # Null THEN db
                      ELSE {d \in db : d.id # c.doc.id} \union {Content(c.doc)}
             /\ Keyed(SetFlag(store, "dirty", FALSE))
             /\ base' = Content(c.doc)
             /\ Lapse(Overtaken(c.doc) \union
                        (IF c.at # Null /\ c.at = store.path THEN Elsewhere(c.doc) ELSE {}))
             /\ UNCHANGED blobs
  /\ UNCHANGED <<uuid, open>>

\* Save as: a dialog for the path; then the bundle is written and recorded,
\* and its path becomes the document's.
StartSaveAs ==
  /\ Gesture("save") /\ PanelShown
  /\ Start(Call("saveAs", Null))
  /\ Nothing
  /\ UNCHANGED <<files, db, uuid, open>>

PathPicked ==
  /\ NoGesture /\ open
  /\ \E c \in calls :
       /\ c.kind = "saveAs"
       /\ \/ Finish(c)
          \/ \E p \in Paths :
               calls' = (calls \ {c})
                          \union {[kind |-> "writeAs", doc |-> c.doc, at |-> p]}
  /\ Nothing
  /\ UNCHANGED <<files, db, uuid, open>>

SavedAs ==
  /\ NoGesture /\ open
  /\ \E c \in calls :
       /\ c.kind = "writeAs" /\ Finish(c)
       /\ \/ UNCHANGED files /\ Nothing
          \/ /\ files' = Written(c)
             /\ Keyed(store) /\ UNCHANGED <<blobs, base>> /\ Lapse(Elsewhere(c.doc))
          \/ /\ files' = Written(c)
             /\ Keyed(SetFlag(SetDocumentPath(store, c.at), "dirty", FALSE))
             /\ base' = Content(c.doc)
             /\ Lapse(Overtaken(c.doc) \union Elsewhere(c.doc))
             /\ UNCHANGED blobs
  /\ UNCHANGED <<db, uuid, open>>

\* --- Exporting: PDF from the header or the preview bar, and the formats of
\* the panel; one at a time.

ExportPDF ==
  /\ Gesture("export") /\ Mouse /\ ~store.exporting
  /\ Start(Call("export", Null))
  /\ Clicked(SetFlag(store, "exporting", TRUE))
  /\ UNCHANGED <<blobs, base, lapses, files, db, uuid, open>>

\* HTML, Markdown, AsciiDoc.
ExportText ==
  /\ Gesture("export") /\ PanelShown /\ ~store.exporting
  /\ Start(Call("export", Null))
  /\ Clicked(SetFlag(store, "exporting", TRUE))
  /\ UNCHANGED <<blobs, base, lapses, files, db, uuid, open>>

\* Written, cancelled in the dialog, or failed.
Exported ==
  /\ NoGesture /\ open
  /\ \E c \in calls : c.kind = "export" /\ Finish(c)
  /\ Keyed(SetFlag(store, "exporting", FALSE))
  /\ UNCHANGED <<blobs, base, lapses, files, db, uuid, open>>

\* --- Importing what was pasted into the panel.

ImportMarkup ==
  /\ Gesture("import") /\ PanelShown
  /\ Keyed(ImportBlocks(store, <<CreateBlock("p", uuid)>>))
  /\ uuid' = uuid + 1
  /\ UNCHANGED <<blobs, base, lapses, files, db, open, calls>>

\* The blocks bring the identities they were exported with.
ImportJson ==
  /\ Gesture("import") /\ PanelShown
  /\ Keyed(ImportBlocks(store, NewDocument.blocks))
  /\ Lapse(Strange(NewDocument))
  /\ UNCHANGED <<blobs, base, files, db, uuid, open, calls>>

FilesNext ==
  \/ StartOpen \/ FilePicked \/ TemplateRead \/ RecentRead
  \/ StartSave \/ Saved \/ StartSaveAs \/ PathPicked \/ SavedAs
  \/ ExportPDF \/ ExportText \/ Exported \/ ImportMarkup \/ ImportJson
=============================================================================
