----------------------------- MODULE FileToZone -----------------------------
(***************************************************************************)
(* DMSHandle::file_to_zone: a file is moved into the directory of a zone,  *)
(* and its document, with notes, embedding and lifecycle, from the global  *)
(* database into the database of the zone.                                 *)
(*                                                                         *)
(* The rows are read in one lock section, the file is moved and the zone's *)
(* database opened without the lock, and a second lock section writes the  *)
(* rows to the zone in one transaction and then deletes the old ones, each *)
(* statement by itself.  Two calls may be under way at once, any step may  *)
(* fail, and the process may die between any two.  The lifecycle rows are  *)
(* read and deleted through active_db(), which the user may change.        *)
(*                                                                         *)
(* A file stands for its content, its document and its document_uid.       *)
(***************************************************************************)
EXTENDS Naturals

CONSTANTS
  Files,        \* every file: at home before, or in the zone already
  Resident,     \* those that are in the zone already
  NameOf,       \* the file name of each
  IdOf,         \* the row id of its document, counted by each database
  FirstId,      \* the AUTOINCREMENT counter of the zone's database at first
  Callers,      \* calls of file_to_zone, each made at most once
  Nothing,      \* no file at a path, no row, no call
  Partial,      \* a file of which only a part was copied
  MaxSwitches,  \* how often the user opens a database
  MaxCrashes

Dbs == {"global", "zone"}
LogKinds == {"state", "events", "versions"}
DerivedKinds == {"note", "embedding", "fts", "chunks"}

(* Paths: where a file was at home, or a name in the directory of the zone. *)
Home(f) == [at |-> "home", name |-> f]
In(n) == [at |-> "zone", name |-> n]
Names == {NameOf[f] : f \in Files}
Paths == {Home(f) : f \in Files} \cup {In(n) : n \in Names}

ASSUME FileToZoneAssumption ==
  /\ Resident \subseteq Files
  /\ {Nothing, Partial} \cap Files = {} /\ Nothing # Partial /\ Nothing \notin Callers
  /\ \A f \in Files : IdOf[f] \in Nat \ {0}
  /\ \A f, g \in Files : f # g /\ (f \in Resident <=> g \in Resident) => IdOf[f] # IdOf[g]
  /\ \A f, g \in Resident : f # g => NameOf[f] # NameOf[g]
  /\ FirstId \in Nat /\ \A f \in Resident : IdOf[f] < FirstId
  /\ MaxSwitches \in Nat /\ MaxCrashes \in Nat

VARIABLES
  home,        \* the files that are at home
  placed,      \* what lies under each name in the zone
  docs,        \* dms_documents of each database: [path, id, of]
  nextId,      \* the AUTOINCREMENT counter of the zone's
  derived,     \* its notes, embeddings, fulltext rows and chunks: [kind, id, of]
  registry,    \* dms_document_registry: [uid, path, docId]
  logs,        \* states, events and versions: [uid, kind]
  active,      \* what active_db() is
  holder,      \* the call that holds db_mutex for its second lock section
  call,        \* where each call is, and what it has read
  aside,       \* history: lifecycle rows were sought outside the global database
  documented,  \* history: the files that had a document before
  switches, crashes

disk == <<home, placed>>
tables == <<docs, nextId, derived, registry, logs>>
bounds == <<documented, switches, crashes>>
vars == <<disk, tables, active, holder, call, aside, bounds>>

Idle == [step |-> "idle", file |-> Nothing, row |-> Nothing, uid |-> Nothing,
         kinds |-> {}, logs |-> {}]

DocOf(f) ==
  [path |-> IF f \in Resident THEN In(NameOf[f]) ELSE Home(f), id |-> IdOf[f], of |-> f]
DbOf(f) == IF f \in Resident THEN "zone" ELSE "global"

(* Some of the files at home have been indexed, and all that are in the zone. *)
Init ==
  /\ home = Files \ Resident
  /\ placed = [n \in Names |-> IF \E f \in Resident : NameOf[f] = n
                               THEN CHOOSE f \in Resident : NameOf[f] = n ELSE Nothing]
  /\ \E indexed \in SUBSET home :
       LET Of(db) == {f \in documented : DbOf(f) = db} IN
       /\ documented = indexed \cup Resident
       /\ docs = [db \in Dbs |-> {DocOf(f) : f \in Of(db)}]
       /\ derived = [db \in Dbs |-> {[kind |-> k, id |-> IdOf[f], of |-> f] :
                                      k \in DerivedKinds, f \in Of(db)}]
       /\ registry = [db \in Dbs |-> {[uid |-> f, path |-> DocOf(f).path, docId |-> IdOf[f]] :
                        f \in Of(db)}]
       /\ logs = [db \in Dbs |-> {[uid |-> f, kind |-> k] : f \in Of(db), k \in LogKinds}]
  /\ nextId = FirstId
  /\ active = "global"
  /\ holder = Nothing
  /\ call = [c \in Callers |-> Idle]
  /\ aside = FALSE
  /\ switches = 0 /\ crashes = 0

-----------------------------------------------------------------------------
At(c, step) == call[c].step = step
Goto(c, step) == call' = [call EXCEPT ![c].step = step]
Target(c) == NameOf[call[c].file]
Ended == {"idle", "ok", "failed", "dead", "halfway"}
Deleting == {"document", "note", "embedding", "events", "versions", "state", "registry"}
Steps == Ended \cup Deleting \cup
         {"reading", "moving", "copying", "unlinking", "opening", "committing"}

(* A source that is not there ends the call at once. *)
Begin(c, f) ==
  /\ At(c, "idle")
  /\ f \in home
  /\ call' = [call EXCEPT ![c] = [Idle EXCEPT !.step = "reading", !.file = f]]
  /\ UNCHANGED <<disk, tables, active, holder, aside, bounds>>

(* The registry row is looked for by path or by the id of the document, in    *)
(* whatever database is open.                                                 *)
Uids(row) == {r.uid : r \in {q \in registry[active] : q.path = row.path \/ q.docId = row.id}}

Read(c) ==
  /\ At(c, "reading")
  /\ holder = Nothing
  /\ LET rows == {d \in docs["global"] : d.path = Home(call[c].file)} IN
     \/ rows = {} /\ Goto(c, "moving") /\ UNCHANGED aside
     \/ \E row \in rows :
          /\ \E uid \in IF Uids(row) = {} THEN {Nothing} ELSE Uids(row) :
               call' = [call EXCEPT ![c] =
                 [@ EXCEPT !.step = "moving", !.row = row, !.uid = uid,
                    !.kinds = {r.kind : r \in {q \in derived["global"] : q.id = row.id}}
                                \cap {"note", "embedding"},
                    !.logs = {l.kind : l \in {q \in logs[active] : q.uid = uid}}]]
          /\ aside' = (aside \/ active # "global")
  /\ UNCHANGED <<disk, tables, active, holder, bounds>>

-----------------------------------------------------------------------------
(* The file.                                                                 *)

Rename(c) ==
  /\ At(c, "moving")
  /\ call[c].file \in home
  /\ home' = home \ {call[c].file}
  /\ placed' = [placed EXCEPT ![Target(c)] = call[c].file]
  /\ Goto(c, "opening")
  /\ UNCHANGED <<tables, active, holder, aside, bounds>>

(* Another device, or another call was first. *)
RenameFails(c) ==
  /\ At(c, "moving")
  /\ Goto(c, "copying")
  /\ UNCHANGED <<disk, tables, active, holder, aside, bounds>>

Copy(c) ==
  /\ At(c, "copying")
  /\ call[c].file \in home
  /\ placed' = [placed EXCEPT ![Target(c)] = call[c].file]
  /\ Goto(c, "unlinking")
  /\ UNCHANGED <<home, tables, active, holder, aside, bounds>>

(* Mutant: the error of the copy is not looked at.                           *)
CopyFailsUnnoticed(c) ==
  /\ At(c, "copying")
  /\ placed' = [placed EXCEPT ![Target(c)] = Partial]
  /\ Goto(c, "unlinking")
  /\ UNCHANGED <<home, tables, active, holder, aside, bounds>>

CopyFails(c) ==
  /\ At(c, "copying")
  /\ \/ UNCHANGED placed
     \/ call[c].file \in home /\ placed' = [placed EXCEPT ![Target(c)] = Partial]
  /\ Goto(c, "failed")
  /\ UNCHANGED <<home, tables, active, holder, aside, bounds>>

(* The removal of the source may fail without a word.                        *)
Unlink(c) ==
  /\ At(c, "unlinking")
  /\ home' \in {home, home \ {call[c].file}}
  /\ Goto(c, "opening")
  /\ UNCHANGED <<placed, tables, active, holder, aside, bounds>>

(* It looks the zone up under the lock.  The file stays where it is by now if *)
(* its zone cannot be opened.                                                 *)
OpenZoneDb(c) ==
  /\ At(c, "opening")
  /\ holder = Nothing
  /\ \/ Goto(c, "failed")
     \/ Goto(c, IF call[c].row = Nothing THEN "ok" ELSE "committing")
  /\ UNCHANGED <<disk, tables, active, holder, aside, bounds>>

-----------------------------------------------------------------------------
(* The rows.                                                                 *)

(* ON DELETE CASCADE from the registry, and from a document to its chunks.    *)
LogsWithout(db, uids) == {l \in logs[db] : l.uid \notin uids}
ChunksWithout(db, ids) == {r \in derived[db] : r.kind # "chunks" \/ r.id \notin ids}

(* ON DELETE SET NULL from a document to its registry row.                    *)
Released(db, ids) == {[r EXCEPT !.docId = IF @ \in ids THEN 0 ELSE @] : r \in registry[db]}

(* INSERT OR REPLACE: the rows that hold the path or the uid go first.        *)
ReplacedDocs(c) == {d \in docs["zone"] : d.path = In(Target(c))}
ReplacedRegistry(c) ==
  {r \in registry["zone"] : r.path = In(Target(c)) \/ r.uid = call[c].uid}

(* Mutant: the events are not copied.                                         *)
CopiedLogsButEvents(c) == {[uid |-> call[c].uid, kind |-> k] : k \in call[c].logs \ {"events"}}

(* Of the state row the workflow columns are left behind, of the events the    *)
(* reasons.                                                                   *)
CopiedLogs(c) == {[uid |-> call[c].uid, kind |-> k] : k \in call[c].logs}

CopiedDerived(c) ==
  {[kind |-> k, id |-> nextId, of |-> call[c].file] : k \in call[c].kinds}

Commit(c) ==
  /\ At(c, "committing")
  /\ holder = Nothing
  /\ LET old == {d.id : d \in ReplacedDocs(c)}
         gone == ReplacedRegistry(c)
     IN
     /\ docs' = [docs EXCEPT !["zone"] = (@ \ ReplacedDocs(c)) \cup
                   {[path |-> In(Target(c)), id |-> nextId, of |-> call[c].file]}]
     /\ derived' = [derived EXCEPT !["zone"] = ChunksWithout("zone", old) \cup CopiedDerived(c)]
     /\ IF call[c].uid = Nothing
          THEN /\ registry' = [registry EXCEPT !["zone"] = Released("zone", old)]
               /\ UNCHANGED logs
          ELSE /\ registry' = [registry EXCEPT !["zone"] =
                    {r \in Released("zone", old) : r.uid \notin {g.uid : g \in gone}} \cup
                    {[uid |-> call[c].uid, path |-> In(Target(c)), docId |-> nextId]}]
               /\ logs' = [logs EXCEPT !["zone"] =
                    LogsWithout("zone", {g.uid : g \in gone}) \cup CopiedLogs(c)]
  /\ nextId' = nextId + 1
  /\ holder' = c
  /\ aside' = (aside \/ active # "global")
  /\ Goto(c, "document")
  /\ UNCHANGED <<disk, active, bounds>>

(* An exception in the transaction undoes it and ends the call.               *)
CommitFails(c) ==
  /\ At(c, "committing")
  /\ Goto(c, "failed")
  /\ UNCHANGED <<disk, tables, active, holder, aside, bounds>>

DeleteDocument(c) ==
  /\ At(c, "document")
  /\ LET id == call[c].row.id IN
     /\ docs' = [docs EXCEPT !["global"] = {d \in @ : d.id # id}]
     /\ derived' = [derived EXCEPT !["global"] = ChunksWithout("global", {id})]
     /\ registry' = [registry EXCEPT !["global"] = Released("global", {id})]
  /\ Goto(c, "note")
  /\ UNCHANGED <<disk, nextId, logs, active, holder, aside, bounds>>

(* Mutant: the embedding is deleted by the row id it has in the zone.         *)
DeleteDerivedByNewId(c, kind, next) ==
  /\ At(c, kind)
  /\ derived' = [derived EXCEPT !["global"] =
       {r \in @ : r.kind # kind \/ r.id # (IF kind = "note" THEN call[c].row.id ELSE nextId - 1)}]
  /\ Goto(c, next)
  /\ UNCHANGED <<disk, docs, nextId, registry, logs, active, holder, aside, bounds>>

DeleteDerived(c, kind, next) ==
  /\ At(c, kind)
  /\ derived' = [derived EXCEPT !["global"] = {r \in @ : r.kind # kind \/ r.id # call[c].row.id}]
  /\ Goto(c, next)
  /\ UNCHANGED <<disk, docs, nextId, registry, logs, active, holder, aside, bounds>>

(* The full-text row of the document is not deleted.                          *)
EndWithoutRegistry(c) ==
  /\ At(c, "events")
  /\ call[c].uid = Nothing
  /\ holder' = Nothing
  /\ Goto(c, "ok")
  /\ UNCHANGED <<disk, tables, active, aside, bounds>>

DeleteLog(c, kind, next) ==
  /\ At(c, kind)
  /\ call[c].uid # Nothing
  /\ logs' = [logs EXCEPT ![active] = @ \ {[uid |-> call[c].uid, kind |-> kind]}]
  /\ Goto(c, next)
  /\ UNCHANGED <<disk, docs, nextId, derived, registry, active, holder, aside, bounds>>

DeleteRegistry(c) ==
  /\ At(c, "registry")
  /\ registry' = [registry EXCEPT ![active] = {r \in @ : r.uid # call[c].uid}]
  /\ logs' = [logs EXCEPT ![active] = LogsWithout(active, {call[c].uid})]
  /\ holder' = Nothing
  /\ Goto(c, "ok")
  /\ UNCHANGED <<disk, docs, nextId, derived, active, aside, bounds>>

-----------------------------------------------------------------------------
(* dms_open_zone_db takes the lock to change active_db().                     *)
OpenDb(db) ==
  /\ holder = Nothing
  /\ db # active
  /\ switches < MaxSwitches
  /\ switches' = switches + 1
  /\ active' = db
  /\ UNCHANGED <<disk, tables, holder, call, aside, documented, crashes>>

Crash ==
  /\ crashes < MaxCrashes
  /\ crashes' = crashes + 1
  /\ call' = [c \in Callers |-> IF call[c].step \in Ended THEN call[c]
                                ELSE [call[c] EXCEPT !.step = IF @ \in Deleting THEN "halfway"
                                                              ELSE "dead"]]
  /\ holder' = Nothing
  /\ active' = "global"
  /\ UNCHANGED <<disk, tables, aside, documented, switches>>

Next ==
  \/ \E c \in Callers :
       \/ \E f \in Files : Begin(c, f)
       \/ Read(c)
       \/ Rename(c)
       \/ RenameFails(c)
       \/ Copy(c)
       \/ CopyFails(c)
       \/ Unlink(c)
       \/ OpenZoneDb(c)
       \/ Commit(c)
       \/ CommitFails(c)
       \/ DeleteDocument(c)
       \/ DeleteDerived(c, "note", "embedding")
       \/ DeleteDerived(c, "embedding", "events")
       \/ EndWithoutRegistry(c)
       \/ DeleteLog(c, "events", "versions")
       \/ DeleteLog(c, "versions", "state")
       \/ DeleteLog(c, "state", "registry")
       \/ DeleteRegistry(c)
  \/ \E db \in Dbs : OpenDb(db)
  \/ Crash

Spec == Init /\ [][Next]_vars

-----------------------------------------------------------------------------
DocRows == [path : Paths, id : Nat, of : Files]

(* The tables are typed, and their keys are kept: a path and an id have one    *)
(* document, a path and a uid one registry row.                                *)
TypeOK ==
  /\ home \subseteq Files
  /\ placed \in [Names -> Files \cup {Nothing, Partial}]
  /\ docs \in [Dbs -> SUBSET DocRows]
  /\ derived \in [Dbs -> SUBSET [kind : DerivedKinds, id : Nat, of : Files]]
  /\ registry \in [Dbs -> SUBSET [uid : Files, path : Paths, docId : Nat]]
  /\ logs \in [Dbs -> SUBSET [uid : Files, kind : LogKinds]]
  /\ nextId \in Nat
  /\ \A db \in Dbs :
       /\ \A d, e \in docs[db] : d.path = e.path \/ d.id = e.id => d = e
       /\ \A r, q \in registry[db] : r.path = q.path \/ r.uid = q.uid => r = q
  /\ active \in Dbs
  /\ holder \in Callers \cup {Nothing}
  /\ call \in [Callers -> [step : Steps, file : Files \cup {Nothing},
                          row : DocRows \cup {Nothing}, uid : Files \cup {Nothing},
                          kinds : SUBSET {"note", "embedding"}, logs : SUBSET LogKinds]]
  /\ aside \in BOOLEAN
  /\ documented \subseteq Files

(* Another file of the same name has been moved, or begun to be, over f.      *)
Overwritten(f) ==
  \E g \in Files \ {f} : NameOf[g] = NameOf[f] /\ placed[NameOf[f]] \in {g, Partial}

(* Two calls copied f to another device together, and the second copy failed   *)
(* over the first.                                                             *)
Collided(f) ==
  /\ placed[NameOf[f]] = Partial
  /\ \E c, d \in Callers : c # d /\ call[c].file = f /\ call[d].file = f

(* A file is at home or whole in the zone, at every step: also when a rename   *)
(* or a copy fails, and when the process dies.  What can take it away is a     *)
(* file of the same name, which nothing asks about, or a second call for the   *)
(* same file.                                                                  *)
FileKept ==
  \A f \in Files :
    f \in home \/ placed[NameOf[f]] = f \/ Overwritten(f) \/ Collided(f)

(* The lifecycle of a document: its registry row with state, events, versions. *)
HistoryIn(db, f) ==
  /\ \E r \in registry[db] : r.uid = f
  /\ \A k \in LogKinds : [uid |-> f, kind |-> k] \in logs[db]

(* The rows of f have been written to the zone.                               *)
Written(f) ==
  \/ f \in Resident
  \/ \E c \in Callers :
       /\ call[c].file = f /\ call[c].row # Nothing
       /\ call[c].step \in Deleting \cup {"ok", "halfway"}

(* The rows of another document of the same name have replaced those of f:     *)
(* whose rows stay is decided by the second lock section, and whose file by    *)
(* the move, which need not come in the same order.                            *)
Superseded(f) ==
  Written(f) /\ \E d \in docs["zone"] : d.path = In(NameOf[f]) /\ d.of # f

(* The history of a document is complete in one of the two databases, at every *)
(* step: none is deleted before all of it is committed elsewhere, whatever     *)
(* fails and wherever the process dies.  The exceptions are a document whose   *)
(* rows were replaced and calls that ran while a zone was open.                *)
HistoryKept ==
  ~aside => \A f \in documented : Superseded(f) \/ \E db \in Dbs : HistoryIn(db, f)

Filed(f) == \E c \in Callers : At(c, "ok") /\ call[c].file = f /\ call[c].row # Nothing

(* A document that was filed has one home: its row, notes, embedding and       *)
(* registry row are in the zone and belong together, and of all it had in the   *)
(* global database nothing is left but the full-text row.                      *)
OneHome ==
  \A f \in Files : Filed(f) /\ ~Superseded(f) /\ ~aside =>
    /\ \E d \in docs["zone"] :
         /\ d.path = In(NameOf[f]) /\ d.of = f
         /\ \A k \in {"note", "embedding"} : [kind |-> k, id |-> d.id, of |-> f] \in derived["zone"]
         /\ [uid |-> f, path |-> d.path, docId |-> d.id] \in registry["zone"]
    /\ \A d \in docs["global"] : d.of # f
    /\ \A r \in derived["global"] : r.of = f => r.kind = "fts"
    /\ \A r \in registry["global"] : r.uid # f
    /\ \A l \in logs["global"] : l.uid # f

\* The calls are typed and a document is at home in one database.
ZoneSound == TypeOK /\ OneHome
=============================================================================
