---------------------------- MODULE IndexPipeline ----------------------------
(***************************************************************************)
(* IndexService::index_one on several threads: calls from the user         *)
(* interface and the bulk thread.  Each lock section of index_one is an     *)
(* action; every one asks active_db() anew which database is open, and the  *)
(* user may open another zone between any two.  A search likewise collects  *)
(* ids in one section and reads the documents in later ones.                *)
(*                                                                         *)
(* The calls into the lifecycle service are those of DocumentLifecycle and  *)
(* left out.  The text of a file is known by its version, which also stands *)
(* for its hash.                                                            *)
(***************************************************************************)
EXTENDS Naturals

CONSTANTS
  Dbs, Global,     \* the databases; the one that is always there
  Paths,           \* the files
  Versions, First, \* the texts a file may have; the one it has at first
  Users,           \* the threads of the user interface that index
  Bulk,            \* the bulk thread
  BulkFiles,       \* the files a bulk job finds
  Nobody,          \* no document, no database, no hit
  MaxJobs,         \* indexing calls of the users
  MaxBulks,        \* bulk jobs
  MaxEdits, MaxSwitches, MaxCrashes

Workers == Users \cup {Bulk}

ASSUME IndexAssumption ==
  /\ Global \in Dbs /\ First \in Versions /\ Bulk \notin Users
  /\ BulkFiles \subseteq Paths
  /\ {MaxJobs, MaxBulks, MaxEdits, MaxSwitches, MaxCrashes} \subseteq Nat

VARIABLES
  active,     \* the open database
  target,     \* the zone that dms_open_zone_db is about to open
  doc,        \* dms_documents: the row of a path, [id, hash]
  next,       \* the AUTOINCREMENT counter of each database
  derived,    \* the rows of nlp_notes, nlp_embeddings, dms_fts, dms_chunks
  issued,     \* which document got which id in which database
  content,    \* the text of each file
  pc, job,    \* where a worker is in index_one, and with what
  phase,      \* of the bulk job: "none", "listing" its files, "running"
  left,       \* its files to come, in whatever order the directory gives them
  stop,       \* its stop token
  cut,        \* history: the files whose indexing an exception or the end of the
              \* process cut short
  strayed,    \* history: those whose indexing or search a change of zone fell into
  dropped,    \* history: the ids whose FTS row was not written, without a word
  hit, found, \* the row a search matched, and the document it shows for it
  jobs, bulks, edits, switches, crashes

tables == <<doc, next, derived, issued>>
bulk == <<phase, left, stop>>
history == <<cut, strayed, dropped>>
search == <<hit, found>>
bounds == <<jobs, bulks, edits, switches, crashes>>
vars == <<active, target, tables, content, pc, job, bulk, history, search, bounds>>

Init ==
  /\ active = Global
  /\ target = Nobody
  /\ doc = [db \in Dbs |-> [p \in Paths |-> Nobody]]
  /\ next = [db \in Dbs |-> 1]
  /\ derived = [db \in Dbs |-> {}]
  /\ issued = [db \in Dbs |-> {}]
  /\ content = [p \in Paths |-> First]
  /\ pc = [w \in Workers |-> "idle"]
  /\ job = [w \in Workers |-> Nobody]
  /\ phase = "none"
  /\ left = {}
  /\ stop = FALSE
  /\ cut = {} /\ strayed = {}
  /\ dropped = [db \in Dbs |-> {}]
  /\ hit = Nobody
  /\ found = Nobody
  /\ jobs = 0 /\ bulks = 0 /\ edits = 0 /\ switches = 0 /\ crashes = 0

-----------------------------------------------------------------------------
Goto(w, step) == pc' = [pc EXCEPT ![w] = step]

(* The text is read before anything is locked.                               *)
Begin(w, p) ==
  /\ pc[w] = "idle"
  /\ Goto(w, "check")
  /\ job' = [job EXCEPT ![w] = [path |-> p, hash |-> content[p], id |-> 0]]

IndexDocument(w, p) ==
  /\ w \in Users /\ jobs < MaxJobs
  /\ jobs' = jobs + 1
  /\ Begin(w, p)
  /\ UNCHANGED <<active, target, tables, content, bulk, history, search, bulks, edits, switches, crashes>>

(* bulk_active is taken, then the directory is listed.                       *)
BulkIndexStart ==
  /\ phase = "none" /\ bulks < MaxBulks
  /\ phase' = "listing"
  /\ bulks' = bulks + 1
  /\ UNCHANGED <<active, target, tables, content, pc, job, left, stop, history, search, jobs, edits, switches, crashes>>

(* The new thread has a stop token of its own.                               *)
BulkThread ==
  /\ phase = "listing"
  /\ phase' = "running"
  /\ left' = BulkFiles
  /\ stop' = FALSE
  /\ UNCHANGED <<active, target, tables, content, pc, job, history, search, bounds>>

BulkFile(p) ==
  /\ phase = "running" /\ ~stop
  /\ p \in left
  /\ Begin(Bulk, p)
  /\ left' = left \ {p}
  /\ UNCHANGED <<active, target, tables, content, phase, stop, history, search, bounds>>

BulkEnd ==
  /\ phase = "running" /\ pc[Bulk] = "idle"
  /\ stop \/ left = {}
  /\ phase' = "none"
  /\ UNCHANGED <<active, target, tables, content, pc, job, left, stop, history, search, bounds>>

(* While the files are listed, bulk_thread is still the job before.          *)
RequestStop ==
  stop' = (stop \/ phase = "running")

BulkIndexStop ==
  /\ phase # "none" /\ ~stop
  /\ RequestStop
  /\ UNCHANGED <<active, target, tables, content, pc, job, phase, left, history, search, bounds>>

-----------------------------------------------------------------------------
Check(w) ==
  /\ pc[w] = "check"
  /\ LET row == doc[active][job[w].path]
     IN  Goto(w, IF row # Nobody /\ row.hash = job[w].hash THEN "idle" ELSE "upsert")
  /\ UNCHANGED <<active, target, tables, content, job, bulk, history, search, bounds>>

(* INSERT OR REPLACE gives the document a new id; the chunks of the old one  *)
(* go with it, its notes, embedding and FTS row stay.                         *)
Upsert(w) ==
  /\ pc[w] = "upsert"
  /\ LET p == job[w].path
         old == doc[active][p]
         new == [id |-> next[active], hash |-> job[w].hash]
     IN  /\ doc' = [doc EXCEPT ![active][p] = new]
         /\ next' = [next EXCEPT ![active] = @ + 1]
         /\ derived' = [derived EXCEPT ![active] =
              {r \in @ : old = Nobody \/ r.kind # "chunks" \/ r.id # old.id}]
         /\ issued' = [issued EXCEPT ![active] = @ \cup {[path |-> p, hash |-> new.hash, id |-> new.id]}]
         /\ job' = [job EXCEPT ![w].id = new.id]
  /\ Goto(w, "note")
  /\ UNCHANGED <<active, target, content, bulk, history, search, bounds>>

Row(w, kind) == [kind |-> kind, path |-> job[w].path, hash |-> job[w].hash, id |-> job[w].id]

Put(db, rows) == derived' = [derived EXCEPT ![db] = @ \cup rows]

(* Only the note of an id may be there twice.                                *)
Replace(db, row) ==
  derived' = [derived EXCEPT ![db] = {r \in @ : r.kind # row.kind \/ r.id # row.id} \cup {row}]

(* Mutant: the id is looked up by the path.                                  *)
NoteByPath(w) ==
  /\ pc[w] = "note"
  /\ LET row == doc[active][job[w].path]
     IN  Put(active, IF row = Nobody THEN {} ELSE {[Row(w, "note") EXCEPT !.id = row.id]})
  /\ Goto(w, "embed")
  /\ UNCHANGED <<active, target, doc, next, issued, content, job, bulk, history, search, bounds>>

Note(w) ==
  /\ pc[w] = "note"
  /\ Put(active, {Row(w, "note")})
  /\ Goto(w, "embed")
  /\ UNCHANGED <<active, target, doc, next, issued, content, job, bulk, history, search, bounds>>

(* The embedding model may not be loaded.                                    *)
Embed(w) ==
  /\ pc[w] = "embed"
  /\ Replace(active, Row(w, "embedding")) \/ UNCHANGED derived
  /\ Goto(w, "fts")
  /\ UNCHANGED <<active, target, doc, next, issued, content, job, bulk, history, search, bounds>>

(* Mutant: the FTS rows of earlier ids of the file are deleted as well.      *)
FtsByName(w) ==
  /\ pc[w] = "fts"
  /\ derived' = [derived EXCEPT ![active] =
       {r \in @ : r.kind # "fts" \/ r.path # job[w].path} \cup {Row(w, "fts")}]
  /\ Goto(w, "chunks")
  /\ UNCHANGED <<active, target, doc, next, issued, content, job, bulk, history, search, bounds>>

(* Mutant: the id is what last_insert_rowid says by now.                     *)
FtsLastRowid(w) ==
  /\ pc[w] = "fts"
  /\ Replace(active, [Row(w, "fts") EXCEPT !.id = next[active] - 1])
  /\ Goto(w, "chunks")
  /\ UNCHANGED <<active, target, doc, next, issued, content, job, bulk, history, search, bounds>>

FtsWritten(w) ==
  /\ Replace(active, Row(w, "fts"))
  /\ UNCHANGED dropped

(* An exception is swallowed (the table is missing where SQLite has no FTS5), *)
(* and nobody looks at what sqlite3_step returns: nothing is done, or only    *)
(* the former row of the id deleted.                                          *)
FtsNotWritten(w) ==
  /\ \/ UNCHANGED derived
     \/ derived' = [derived EXCEPT ![active] = {r \in @ : r.kind # "fts" \/ r.id # job[w].id}]
  /\ dropped' = [dropped EXCEPT ![active] = @ \cup {job[w].id}]

Fts(w) ==
  /\ pc[w] = "fts"
  /\ FtsWritten(w) \/ FtsNotWritten(w)
  /\ Goto(w, "chunks")
  /\ UNCHANGED <<active, target, doc, next, issued, content, job, bulk, cut, strayed, search, bounds>>

HasDocument(db, id) == \E p \in Paths : doc[db][p] # Nobody /\ doc[db][p].id = id

Chunks(w) ==
  /\ pc[w] = "chunks"
  /\ HasDocument(active, job[w].id)
  /\ Replace(active, Row(w, "chunks"))
  /\ Goto(w, "idle")
  /\ UNCHANGED <<active, target, doc, next, issued, content, job, bulk, history, search, bounds>>

UnderWay == {job[w].path : w \in {v \in Workers : pc[v] # "idle"}}

(* What a process keeps in memory.                                           *)
Restart ==
  /\ cut' = cut \cup UnderWay
  /\ active' = Global
  /\ target' = Nobody
  /\ pc' = [w \in Workers |-> "idle"]
  /\ job' = [w \in Workers |-> Nobody]
  /\ phase' = "none"
  /\ left' = {}
  /\ stop' = FALSE
  /\ hit' = Nobody
  /\ found' = Nobody

(* An exception ends the call of a user, and on the bulk thread, where nothing *)
(* catches it, the process.                                                    *)
Throw(w) ==
  /\ IF w = Bulk
       THEN Restart
       ELSE Goto(w, "idle") /\ UNCHANGED <<active, target, job, bulk, search>>
  /\ UNCHANGED <<tables, content, strayed, dropped, bounds>>

(* The foreign key has no document.                                          *)
ChunksThrow(w) ==
  /\ pc[w] = "chunks"
  /\ ~HasDocument(active, job[w].id)
  /\ Throw(w)
  /\ w # Bulk => UNCHANGED cut

(* The database refuses another INSERT: a full disk, a lock.                 *)
InsertThrows(w) ==
  /\ pc[w] \in {"note", "embed", "chunks"}
  /\ Throw(w)
  /\ w # Bulk => cut' = cut \cup {job[w].path}

-----------------------------------------------------------------------------
(* dms_open_zone_db: the bulk job is told to stop, then the zone is swapped. *)
OpenZone(db) ==
  /\ target = Nobody /\ switches < MaxSwitches
  /\ target' = db
  /\ switches' = switches + 1
  /\ RequestStop
  /\ UNCHANGED <<active, tables, content, pc, job, phase, left, history, search, jobs, bulks, edits, crashes>>

SwapZone ==
  /\ target # Nobody
  /\ active' = target
  /\ target' = Nobody
  /\ strayed' = IF target = active THEN strayed
                 ELSE strayed \cup UnderWay \cup (IF hit = Nobody THEN {} ELSE {hit.path})
  /\ UNCHANGED <<tables, content, pc, job, bulk, cut, dropped, search, bounds>>

EditFile(p, v) ==
  /\ edits < MaxEdits
  /\ v # content[p]
  /\ content' = [content EXCEPT ![p] = v]
  /\ edits' = edits + 1
  /\ UNCHANGED <<active, target, tables, pc, job, bulk, history, search, jobs, bulks, switches, crashes>>

Crash ==
  /\ crashes < MaxCrashes
  /\ crashes' = crashes + 1
  /\ Restart
  /\ UNCHANGED <<tables, content, strayed, dropped, jobs, bulks, edits, switches>>

(* SearchService::search: the FTS matches, or without any the notes that are  *)
(* LIKE the query, then their documents.                                      *)
SearchMatch(r) ==
  /\ hit = Nobody
  /\ r.kind \in {"fts", "note"}
  /\ hit' = r
  /\ UNCHANGED <<active, target, tables, content, pc, job, bulk, history, found, bounds>>

SearchShow ==
  /\ hit # Nobody
  /\ found = Nobody
  /\ \E p \in Paths :
       /\ doc[active][p] # Nobody /\ doc[active][p].id = hit.id
       /\ found' = p
  /\ UNCHANGED <<active, target, tables, content, pc, job, bulk, history, hit, bounds>>

SearchEnd ==
  /\ hit # Nobody
  /\ found # Nobody \/ ~HasDocument(active, hit.id)
  /\ hit' = Nobody
  /\ found' = Nobody
  /\ UNCHANGED <<active, target, tables, content, pc, job, bulk, history, bounds>>

Next ==
  \/ \E w \in Users, p \in Paths : IndexDocument(w, p)
  \/ BulkIndexStart
  \/ BulkThread
  \/ \E p \in BulkFiles : BulkFile(p)
  \/ BulkEnd
  \/ BulkIndexStop
  \/ \E w \in Workers :
       \/ Check(w)
       \/ Upsert(w)
       \/ Note(w)
       \/ Embed(w)
       \/ Fts(w)
       \/ Chunks(w)
       \/ ChunksThrow(w)
       \/ InsertThrows(w)
  \/ \E db \in Dbs : OpenZone(db)
  \/ SwapZone
  \/ \E p \in Paths, v \in Versions : EditFile(p, v)
  \/ Crash
  \/ \E r \in derived[active] : SearchMatch(r)
  \/ SearchShow
  \/ SearchEnd

Spec == Init /\ [][Next]_vars

-----------------------------------------------------------------------------
Ids == Nat \ {0}
Kinds == {"note", "embedding", "fts", "chunks"}
Texts == [path : Paths, hash : Versions, id : Ids]
Rows == [kind : Kinds, path : Paths, hash : Versions, id : Ids]
Steps == {"idle", "check", "upsert", "note", "embed", "fts", "chunks"}

TypeOK ==
  /\ active \in Dbs
  /\ target \in Dbs \cup {Nobody}
  /\ doc \in [Dbs -> [Paths -> [id : Ids, hash : Versions] \cup {Nobody}]]
  /\ next \in [Dbs -> Ids]
  /\ derived \in [Dbs -> SUBSET Rows]
  /\ issued \in [Dbs -> SUBSET Texts]
  /\ content \in [Paths -> Versions]
  /\ pc \in [Workers -> Steps]
  /\ job \in [Workers -> [path : Paths, hash : Versions, id : Nat] \cup {Nobody}]
  /\ phase \in {"none", "listing", "running"}
  /\ left \subseteq BulkFiles
  /\ stop \in BOOLEAN
  /\ cut \subseteq Paths /\ strayed \subseteq Paths
  /\ dropped \in [Dbs -> SUBSET Nat]
  /\ hit \in Rows \cup {Nobody}
  /\ found \in Paths \cup {Nobody}

Indexing(p) == \E w \in Workers : pc[w] # "idle" /\ job[w].path = p

(* The document shares its id with rows of a call that went astray.          *)
Disturbed(db, p) ==
  \/ p \in cut \cup strayed
  \/ \E r \in derived[db] : r.id = doc[db][p].id /\ r.path \in strayed

DerivedRow(db, p, kind) ==
  [kind |-> kind, path |-> p, hash |-> doc[db][p].hash, id |-> doc[db][p].id]

(* A document that has a row, and that nobody is indexing, can be found: its  *)
(* note and its chunks are there under its id, of the text the row tells the   *)
(* next call is unchanged, and its FTS row unless the write of that row failed *)
(* without a word.  However many calls index it at once; but one that a crash  *)
(* or an exception cuts short leaves a row that no later call completes, and   *)
(* one that a change of zone falls into writes to the wrong database.          *)
IndexComplete ==
  \A db \in Dbs, p \in Paths :
    doc[db][p] # Nobody /\ ~Indexing(p) /\ ~Disturbed(db, p) =>
      /\ {DerivedRow(db, p, "note"), DerivedRow(db, p, "chunks")} \subseteq derived[db]
      /\ DerivedRow(db, p, "fts") \in derived[db] \/ doc[db][p].id \in dropped[db]

(* What index_one derives from a text lies in the database where the document *)
(* of that text got its id, under that id: not with another document, crashes *)
(* included, and not in another zone, unless zones change under the call.     *)
DerivedIsOwn ==
  \A db \in Dbs : \A r \in derived[db] :
    r.path \in strayed \/ [path |-> r.path, hash |-> r.hash, id |-> r.id] \in issued[db]

(* A search shows the document whose text matched, through replacements of     *)
(* that document and of its rows, unless zones change under it.                *)
SearchShowsMatch == found # Nobody => found = hit.path \/ hit.path \in strayed

\* The index is typed and what it derived belongs to the text it was derived from.
IndexSound == TypeOK /\ DerivedIsOwn
=============================================================================
