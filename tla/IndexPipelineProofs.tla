------------------------ MODULE IndexPipelineProofs ------------------------
(***************************************************************************)
(* Safety of IndexPipeline for any databases, files, threads and bulk      *)
(* jobs, and any number of edits, changes of zone and crashes.             *)
(*                                                                         *)
(* IssuedInv ties ids to the documents they were given to, and every row   *)
(* and job to an id that was issued; FinishedInv says of each document who  *)
(* still owes it which row.                                                *)
(***************************************************************************)
EXTENDS IndexPipeline, TLAPS

Jobs == [path : Paths, hash : Versions, id : Nat]

(* The steps at which a call has the id of its document.                     *)
Writing == {"note", "embed", "fts", "chunks"}

JobOK(w) ==
  /\ pc[w] # "idle" => job[w] \in Jobs
  /\ pc[w] \in Writing => job[w].id \in Ids

TypeInv == TypeOK /\ \A w \in Workers : JobOK(w)

-----------------------------------------------------------------------------
TextOf(r) == [path |-> r.path, hash |-> r.hash, id |-> r.id]

(* No id is given twice.                                                      *)
IdsAreOnce ==
  \A db \in Dbs :
    /\ \A t \in issued[db] : t.id < next[db]
    /\ \A t, u \in issued[db] : t.id = u.id => t = u

DocIsIssued(db, p) ==
  doc[db][p] # Nobody =>
    [path |-> p, hash |-> doc[db][p].hash, id |-> doc[db][p].id] \in issued[db]

JobIsOwn(w) ==
  pc[w] \in Writing => job[w].path \in strayed \/ TextOf(job[w]) \in issued[active]

HitIsOwn ==
  /\ hit # Nobody => hit.path \in strayed \/ TextOf(hit) \in issued[active]
  /\ found # Nobody => hit # Nobody

IssuedInv ==
  /\ IdsAreOnce
  /\ \A db \in Dbs, p \in Paths : DocIsIssued(db, p)
  /\ \A w \in Workers : JobIsOwn(w)
  /\ DerivedIsOwn
  /\ HitIsOwn
  /\ SearchShowsMatch

-----------------------------------------------------------------------------
(* The steps of a call that come before it has written a row.                *)
Before(kind) ==
  CASE kind = "note" -> {"note"}
    [] kind = "fts" -> {"note", "embed", "fts"}
    [] kind = "chunks" -> Writing

Found == {"note", "fts", "chunks"}

Owner(w, db, p) ==
  db = active /\ job[w] = [path |-> p, hash |-> doc[db][p].hash, id |-> doc[db][p].id]

(* The row is there, or one of a call that went astray is in its place, or it  *)
(* is an FTS row whose write failed without a word.                           *)
Has(db, p, kind) ==
  \/ DerivedRow(db, p, kind) \in derived[db]
  \/ \E r \in derived[db] : r.kind = kind /\ r.id = doc[db][p].id /\ r.path \in strayed
  \/ kind = "fts" /\ doc[db][p].id \in dropped[db]

Finished(db, p, kind) ==
  doc[db][p] # Nobody /\ p \notin cut \cup strayed =>
    \/ Has(db, p, kind)
    \/ \E w \in Workers : Owner(w, db, p) /\ pc[w] \in Before(kind)

FinishedInv == \A db \in Dbs, p \in Paths, kind \in Found : Finished(db, p, kind)

-----------------------------------------------------------------------------
(* Types.                                                                    *)

LEMMA TypeInit == Init => TypeInv
<1> SUFFICES ASSUME Init PROVE TypeInv
  OBVIOUS
<1>1. 1 \in Ids
  BY DEF Ids
<1>2. TypeOK
  BY <1>1, IndexAssumption DEF Init, TypeOK, Steps
<1>3. \A w \in Workers : JobOK(w)
  BY DEF Init, JobOK, Writing
<1> QED  BY <1>2, <1>3 DEF TypeInv

(* A step of a worker that keeps its job.                                     *)
LEMMA GotoTypes ==
  ASSUME TypeInv, NEW w \in Workers, NEW step \in Steps, Goto(w, step), UNCHANGED job,
         step # "idle" => pc[w] # "idle",
         step \in Writing => pc[w] \in Writing
  PROVE  pc' \in [Workers -> Steps] /\ \A v \in Workers : JobOK(v)'
<1>1. pc \in [Workers -> Steps]
  BY DEF TypeInv, TypeOK
<1>2. pc' \in [Workers -> Steps] /\ pc'[w] = step /\ \A v \in Workers \ {w} : pc'[v] = pc[v]
  BY <1>1 DEF Goto
<1> QED  BY <1>2 DEF TypeInv, JobOK

(* A new job.                                                                 *)
LEMMA BeginTypes ==
  ASSUME TypeInv, NEW w \in Workers, NEW p \in Paths, Begin(w, p)
  PROVE  /\ pc' \in [Workers -> Steps] /\ job' \in [Workers -> Jobs \cup {Nobody}]
         /\ \A v \in Workers : JobOK(v)'
         /\ pc'[w] = "check" /\ \A v \in Workers \ {w} : pc'[v] = pc[v] /\ job'[v] = job[v]
<1> DEFINE new == [path |-> p, hash |-> content[p], id |-> 0]
<1>1. pc \in [Workers -> Steps] /\ job \in [Workers -> Jobs \cup {Nobody}]
  BY DEF TypeInv, TypeOK, Jobs
<1>2. new \in Jobs
  BY DEF TypeInv, TypeOK, Jobs
<1>3. pc' = [pc EXCEPT ![w] = "check"] /\ job' = [job EXCEPT ![w] = new]
  BY DEF Begin, Goto
<1> HIDE DEF new
<1>4. /\ pc' \in [Workers -> Steps] /\ job' \in [Workers -> Jobs \cup {Nobody}]
      /\ pc'[w] = "check" /\ job'[w] = new
      /\ \A v \in Workers \ {w} : pc'[v] = pc[v] /\ job'[v] = job[v]
  BY <1>1, <1>2, <1>3 DEF Steps
<1>5. \A v \in Workers : JobOK(v)'
  BY <1>2, <1>4 DEF TypeInv, JobOK, Writing
<1> QED  BY <1>4, <1>5

(* What Upsert does to the tables.                                            *)
Upserts(w, p, hash, id) ==
  /\ p \in Paths /\ id \in Ids /\ hash \in Versions
  /\ doc' \in [Dbs -> [Paths -> [id : Ids, hash : Versions] \cup {Nobody}]]
  /\ doc'[active][p] = [id |-> id, hash |-> hash]
  /\ \A db \in Dbs, q \in Paths : db # active \/ q # p => doc'[db][q] = doc[db][q]
  /\ next' \in [Dbs -> Ids] /\ next'[active] = id + 1
  /\ \A db \in Dbs \ {active} : next'[db] = next[db]
  /\ derived' \in [Dbs -> SUBSET Rows]
  /\ derived'[active] = {r \in derived[active] : \/ doc[active][p] = Nobody
                                                 \/ r.kind # "chunks"
                                                 \/ r.id # doc[active][p].id}
  /\ \A db \in Dbs \ {active} : derived'[db] = derived[db]
  /\ issued' \in [Dbs -> SUBSET Texts]
  /\ issued'[active] = issued[active] \cup {[path |-> p, hash |-> hash, id |-> id]}
  /\ \A db \in Dbs \ {active} : issued'[db] = issued[db]
  /\ job' \in [Workers -> Jobs \cup {Nobody}]
  /\ job'[w] = [path |-> p, hash |-> hash, id |-> id]
  /\ \A v \in Workers \ {w} : job'[v] = job[v]
  /\ pc[w] = "upsert"
  /\ pc' \in [Workers -> Steps] /\ pc'[w] = "note"
  /\ \A v \in Workers \ {w} : pc'[v] = pc[v]

LEMMA UpsertIs ==
  ASSUME TypeInv, NEW w \in Workers, Upsert(w), NEW p, p = job[w].path, NEW id, id = next[active],
         NEW hash, hash = job[w].hash
  PROVE  Upserts(w, p, hash, id)
<1>1. /\ active \in Dbs
      /\ doc \in [Dbs -> [Paths -> [id : Ids, hash : Versions] \cup {Nobody}]]
      /\ next \in [Dbs -> Ids] /\ derived \in [Dbs -> SUBSET Rows]
      /\ issued \in [Dbs -> SUBSET Texts]
      /\ pc \in [Workers -> Steps] /\ job \in [Workers -> Jobs \cup {Nobody}]
  BY DEF TypeInv, TypeOK, Jobs
<1>2. pc[w] = "upsert" /\ job[w] \in Jobs
  BY DEF Upsert, TypeInv, JobOK
<1>3. p \in Paths /\ hash \in Versions /\ id \in Ids /\ id + 1 \in Ids
  BY <1>1, <1>2 DEF Jobs, Ids
<1> DEFINE new == [id |-> id, hash |-> hash]
           text == [path |-> p, hash |-> hash, id |-> id]
           stay == {r \in derived[active] : \/ doc[active][p] = Nobody
                                            \/ r.kind # "chunks" \/ r.id # doc[active][p].id}
           got == [job[w] EXCEPT !.id = id]
<1>4. /\ doc' = [doc EXCEPT ![active] = [doc[active] EXCEPT ![p] = new]]
      /\ next' = [next EXCEPT ![active] = id + 1]
      /\ derived' = [derived EXCEPT ![active] = stay]
      /\ issued' = [issued EXCEPT ![active] = issued[active] \cup {text}]
      /\ job' = [job EXCEPT ![w] = got]
      /\ pc' = [pc EXCEPT ![w] = "note"]
  BY <1>1, <1>2 DEF Upsert, Goto
<1>5. new \in [id : Ids, hash : Versions] /\ text \in Texts /\ stay \subseteq Rows
  BY <1>1, <1>3 DEF Texts
<1>6. got = text /\ got \in Jobs
  BY <1>2, <1>3 DEF Jobs, Ids
<1> HIDE DEF new, text, stay, got
<1>7. doc[active] \in [Paths -> [id : Ids, hash : Versions] \cup {Nobody}]
  BY <1>1
<1>8. /\ [doc[active] EXCEPT ![p] = new] \in [Paths -> [id : Ids, hash : Versions] \cup {Nobody}]
      /\ [doc[active] EXCEPT ![p] = new][p] = new
      /\ \A q \in Paths \ {p} : [doc[active] EXCEPT ![p] = new][q] = doc[active][q]
  BY <1>3, <1>5, <1>7
<1>9. /\ doc' \in [Dbs -> [Paths -> [id : Ids, hash : Versions] \cup {Nobody}]]
      /\ doc'[active] = [doc[active] EXCEPT ![p] = new]
      /\ \A db \in Dbs \ {active} : doc'[db] = doc[db]
  BY <1>1, <1>4, <1>8
<1>10. /\ doc'[active][p] = new
       /\ \A db \in Dbs, q \in Paths : db # active \/ q # p => doc'[db][q] = doc[db][q]
  BY <1>8, <1>9
<1>11. /\ next' \in [Dbs -> Ids] /\ next'[active] = id + 1
       /\ \A db \in Dbs \ {active} : next'[db] = next[db]
  BY <1>1, <1>3, <1>4
<1>12. /\ derived' \in [Dbs -> SUBSET Rows] /\ derived'[active] = stay
       /\ \A db \in Dbs \ {active} : derived'[db] = derived[db]
  BY <1>1, <1>4, <1>5
<1>13. /\ issued' \in [Dbs -> SUBSET Texts] /\ issued'[active] = issued[active] \cup {text}
       /\ \A db \in Dbs \ {active} : issued'[db] = issued[db]
  BY <1>1, <1>4, <1>5
<1>14. /\ job' \in [Workers -> Jobs \cup {Nobody}] /\ job'[w] = text
       /\ \A v \in Workers \ {w} : job'[v] = job[v]
  BY <1>1, <1>4, <1>6
<1>15. /\ pc' \in [Workers -> Steps] /\ pc'[w] = "note"
       /\ \A v \in Workers \ {w} : pc'[v] = pc[v]
  BY <1>1, <1>4 DEF Steps
<1> QED
  BY <1>2, <1>3, <1>9, <1>10, <1>11, <1>12, <1>13, <1>14, <1>15 DEF Upserts, new, text, stay

(* The rows a call adds are typed.                                            *)
LEMMA RowIs ==
  ASSUME TypeInv, NEW w \in Workers, pc[w] \in Writing, NEW kind \in Kinds
  PROVE  Row(w, kind) \in Rows
BY DEF TypeInv, JobOK, Jobs, Row, Rows, Writing

(* The tables after a write of one row: it is there, and only rows of its     *)
(* kind and id are not.                                                       *)
Wrote(row) ==
  /\ derived' \in [Dbs -> SUBSET Rows]
  /\ row \in derived'[active]
  /\ \A db \in Dbs : \A r \in derived'[db] : r \in derived[db] \/ (db = active /\ r = row)
  /\ \A db \in Dbs : \A r \in derived[db] :
       r \in derived'[db] \/ (db = active /\ r.kind = row.kind /\ r.id = row.id)

LEMMA PutIs ==
  ASSUME TypeInv, NEW row \in Rows, Put(active, {row}) \/ Replace(active, row)
  PROVE  Wrote(row)
<1>1. active \in Dbs /\ derived \in [Dbs -> SUBSET Rows]
  BY DEF TypeInv, TypeOK
<1>2. CASE Put(active, {row})
  <2>1. derived' = [derived EXCEPT ![active] = derived[active] \cup {row}]
    BY <1>1, <1>2 DEF Put
  <2>2. derived' \in [Dbs -> SUBSET Rows] /\ derived'[active] = derived[active] \cup {row}
        /\ \A db \in Dbs \ {active} : derived'[db] = derived[db]
    BY <1>1, <2>1
  <2> QED  BY <2>2 DEF Wrote
<1>3. CASE Replace(active, row)
  <2> DEFINE stay == {r \in derived[active] : r.kind # row.kind \/ r.id # row.id}
  <2>1. derived' = [derived EXCEPT ![active] = stay \cup {row}]
    BY <1>1, <1>3 DEF Replace
  <2>2. stay \subseteq derived[active] /\ stay \subseteq Rows
    BY <1>1
  <2>3. \A r \in derived[active] : r \in stay \/ (r.kind = row.kind /\ r.id = row.id)
    OBVIOUS
  <2> HIDE DEF stay
  <2>4. derived' \in [Dbs -> SUBSET Rows] /\ derived'[active] = stay \cup {row}
        /\ \A db \in Dbs \ {active} : derived'[db] = derived[db]
    BY <1>1, <2>1, <2>2
  <2> QED  BY <2>2, <2>3, <2>4 DEF Wrote
<1> QED  BY <1>2, <1>3

(* A step that writes its row.                                                *)
Writes(w) == Note(w) \/ Embed(w) \/ (Fts(w) /\ FtsWritten(w)) \/ Chunks(w)

(* A write of the FTS row that fails: at most the former rows of the id go.   *)
Loses(w) ==
  /\ pc[w] = "fts" /\ pc' \in [Workers -> Steps] /\ pc'[w] = "chunks"
  /\ \A v \in Workers \ {w} : pc'[v] = pc[v]
  /\ derived' \in [Dbs -> SUBSET Rows]
  /\ \A db \in Dbs : derived'[db] \subseteq derived[db]
  /\ \A db \in Dbs : \A r \in derived[db] :
       r \in derived'[db] \/ (db = active /\ r.kind = "fts" /\ r.id = job[w].id)
  /\ dropped' \in [Dbs -> SUBSET Nat]
  /\ \A db \in Dbs : dropped[db] \subseteq dropped'[db]
  /\ job[w].id \in dropped'[active]
  /\ UNCHANGED <<active, target, doc, next, issued, content, job, bulk, cut, strayed, search>>

LEMMA LosesIs ==
  ASSUME TypeInv, NEW w \in Workers, Fts(w), FtsNotWritten(w)
  PROVE  Loses(w)
<1>1. /\ active \in Dbs /\ derived \in [Dbs -> SUBSET Rows] /\ dropped \in [Dbs -> SUBSET Nat]
      /\ pc \in [Workers -> Steps]
  BY DEF TypeInv, TypeOK
<1>2. pc[w] = "fts" /\ pc' = [pc EXCEPT ![w] = "chunks"]
  BY DEF Fts, Goto
<1>3. job[w].id \in Nat
  BY <1>2 DEF TypeInv, JobOK, Jobs, Writing
<1>4. /\ pc' \in [Workers -> Steps] /\ pc'[w] = "chunks"
      /\ \A v \in Workers \ {w} : pc'[v] = pc[v]
  BY <1>1, <1>2 DEF Steps
<1>5. dropped' = [dropped EXCEPT ![active] = dropped[active] \cup {job[w].id}]
  BY <1>1 DEF FtsNotWritten
<1>6. /\ dropped' \in [Dbs -> SUBSET Nat] /\ job[w].id \in dropped'[active]
      /\ \A db \in Dbs : dropped[db] \subseteq dropped'[db]
  BY <1>1, <1>3, <1>5
<1>7. /\ derived' \in [Dbs -> SUBSET Rows]
      /\ \A db \in Dbs : derived'[db] \subseteq derived[db]
      /\ \A db \in Dbs : \A r \in derived[db] :
           r \in derived'[db] \/ (db = active /\ r.kind = "fts" /\ r.id = job[w].id)
  <2> DEFINE stay == {r \in derived[active] : r.kind # "fts" \/ r.id # job[w].id}
  <2>1. CASE UNCHANGED derived
    BY <1>1, <2>1
  <2>2. CASE derived' = [derived EXCEPT ![active] = stay]
    <3>1. stay \subseteq derived[active] /\ stay \subseteq Rows
      BY <1>1
    <3>2. \A r \in derived[active] : r \in stay \/ (r.kind = "fts" /\ r.id = job[w].id)
      OBVIOUS
    <3> HIDE DEF stay
    <3>3. derived' \in [Dbs -> SUBSET Rows] /\ derived'[active] = stay
          /\ \A db \in Dbs \ {active} : derived'[db] = derived[db]
      BY <1>1, <2>2, <3>1
    <3> QED  BY <3>1, <3>2, <3>3
  <2> QED  BY <1>1, <2>1, <2>2 DEF FtsNotWritten
<1>8. UNCHANGED <<active, target, doc, next, issued, content, job, bulk, cut, strayed, search>>
  BY DEF Fts
<1> QED  BY <1>2, <1>4, <1>6, <1>7, <1>8 DEF Loses

LEMMA RestartTypes ==
  ASSUME TypeInv, Restart, UNCHANGED <<tables, content, strayed, dropped>>
  PROVE  TypeInv'
<1>1. {} \subseteq BulkFiles
  OBVIOUS
<1>2. UnderWay \subseteq Paths
  BY DEF UnderWay, TypeInv, JobOK, Jobs
<1>3. TypeOK'
  BY <1>1, <1>2, IndexAssumption DEF TypeInv, TypeOK, Restart, tables, Steps
<1>4. \A w \in Workers : JobOK(w)'
  BY DEF Restart, JobOK, Writing
<1> QED  BY <1>3, <1>4 DEF TypeInv

LEMMA TypeStep == TypeInv /\ [Next]_vars => TypeInv'
<1> SUFFICES ASSUME TypeInv, [Next]_vars PROVE TypeInv'
  OBVIOUS
<1> USE DEF tables, bulk, history, search, bounds
<1>0. TypeOK /\ \A w \in Workers : JobOK(w)
  BY DEF TypeInv
<1>1. ASSUME NEW w \in Users, NEW p \in Paths, IndexDocument(w, p) PROVE TypeInv'
  <2>1. w \in Workers /\ Begin(w, p)
    BY <1>1 DEF IndexDocument, Workers
  <2>2. TypeOK'
    BY <1>0, <1>1, <2>1, BeginTypes DEF IndexDocument, TypeOK, Jobs
  <2> QED  BY <2>1, <2>2, BeginTypes DEF TypeInv
<1>2. ASSUME BulkIndexStart \/ BulkEnd \/ BulkIndexStop PROVE TypeInv'
  <2>1. TypeOK'
    BY <1>0, <1>2 DEF BulkIndexStart, BulkEnd, BulkIndexStop, RequestStop, TypeOK
  <2>2. UNCHANGED <<pc, job>>
    BY <1>2 DEF BulkIndexStart, BulkEnd, BulkIndexStop
  <2> QED  BY <1>0, <2>1, <2>2 DEF TypeInv, JobOK
<1>3. ASSUME BulkThread PROVE TypeInv'
  <2>1. TypeOK' /\ UNCHANGED <<pc, job>>
    BY <1>0, <1>3 DEF BulkThread, TypeOK
  <2> QED  BY <1>0, <2>1 DEF TypeInv, JobOK
<1>4. ASSUME NEW p \in BulkFiles, BulkFile(p) PROVE TypeInv'
  <2>1. Bulk \in Workers /\ Begin(Bulk, p) /\ p \in Paths
    BY <1>4, IndexAssumption DEF BulkFile, Workers
  <2>2. TypeOK'
    BY <1>0, <1>4, <2>1, BeginTypes DEF BulkFile, TypeOK, Jobs
  <2> QED  BY <2>1, <2>2, BeginTypes DEF TypeInv
<1>5. ASSUME NEW w \in Workers, Check(w) PROVE TypeInv'
  <2>1. \E step \in Steps : Goto(w, step) /\ step \notin Writing
    BY <1>5 DEF Check, Steps, Writing
  <2>2. pc[w] # "idle" /\ UNCHANGED job
    BY <1>5 DEF Check
  <2>3. pc' \in [Workers -> Steps] /\ \A v \in Workers : JobOK(v)'
    BY <2>1, <2>2, GotoTypes
  <2> QED  BY <1>0, <1>5, <2>3 DEF Check, TypeInv, TypeOK
<1>6. ASSUME NEW w \in Workers, Upsert(w) PROVE TypeInv'
  <2> DEFINE p == job[w].path
             hash == job[w].hash
             id == next[active]
  <2>1. p = job[w].path /\ hash = job[w].hash /\ id = next[active]
    OBVIOUS
  <2> HIDE DEF p, hash, id
  <2>2. Upserts(w, p, hash, id)
    BY <1>6, <2>1, UpsertIs
  <2>3. TypeOK'
    BY <1>0, <1>6, <2>2 DEF Upsert, Upserts, TypeOK, Jobs
  <2>4. \A v \in Workers : JobOK(v)'
    <3>1. JobOK(w)'
      BY <2>2 DEF Upserts, JobOK, Jobs, Ids
    <3>2. \A v \in Workers \ {w} : JobOK(v)'
      BY <1>0, <2>2 DEF Upserts, JobOK
    <3> QED  BY <3>1, <3>2
  <2> QED  BY <2>3, <2>4 DEF TypeInv
<1>7. ASSUME NEW w \in Workers, Writes(w) PROVE TypeInv'
  <2>1. UNCHANGED job /\ pc[w] \in Writing /\ \E step \in Steps : Goto(w, step)
    BY <1>7 DEF Writes, Note, Embed, Fts, FtsWritten, Chunks, Writing, Steps
  <2>2. pc' \in [Workers -> Steps] /\ \A v \in Workers : JobOK(v)'
    BY <2>1, GotoTypes DEF Writing
  <2>3. derived' \in [Dbs -> SUBSET Rows]
    <3>1. \A kind \in Kinds : Row(w, kind) \in Rows
      BY <2>1, RowIs
    <3>2. \/ UNCHANGED derived
          \/ \E kind \in Kinds : Put(active, {Row(w, kind)}) \/ Replace(active, Row(w, kind))
      BY <1>7 DEF Writes, Note, Embed, Fts, FtsWritten, Chunks, Kinds
    <3> QED  BY <1>0, <3>1, <3>2, PutIs DEF TypeOK, Wrote
  <2>4. UNCHANGED <<active, target, doc, next, issued, content, job, bulk, history, search>>
    BY <1>7 DEF Writes, Note, Embed, Fts, FtsWritten, Chunks
  <2>5. TypeOK'
    BY <1>0, <2>2, <2>3, <2>4 DEF TypeOK
  <2> QED  BY <2>2, <2>5 DEF TypeInv
<1>8. ASSUME NEW w \in Workers, ChunksThrow(w) \/ InsertThrows(w) PROVE TypeInv'
  <2>1. CASE w = Bulk
    BY <1>8, <2>1, RestartTypes DEF ChunksThrow, InsertThrows, Throw
  <2>2. CASE w # Bulk
    <3>1. /\ Goto(w, "idle") /\ "idle" \in Steps /\ "idle" \notin Writing
          /\ UNCHANGED <<active, target, doc, next, derived, issued, content, job, bulk,
                         strayed, dropped, search>>
      BY <1>8, <2>2 DEF ChunksThrow, InsertThrows, Throw, Steps, Writing
    <3>2. pc' \in [Workers -> Steps] /\ \A v \in Workers : JobOK(v)'
      BY <3>1, GotoTypes
    <3>3. pc[w] \in Writing => job[w].path \in Paths
      BY <1>0 DEF JobOK, Jobs, Writing
    <3>4. cut' \subseteq Paths
      BY <1>0, <1>8, <2>2, <3>3 DEF ChunksThrow, InsertThrows, TypeOK, Writing
    <3> QED  BY <1>0, <3>1, <3>2, <3>4 DEF TypeInv, TypeOK
  <2> QED  BY <2>1, <2>2
<1>9. ASSUME NEW db \in Dbs, OpenZone(db) PROVE TypeInv'
  BY <1>0, <1>9 DEF OpenZone, RequestStop, TypeInv, TypeOK, JobOK
<1>10. ASSUME SwapZone PROVE TypeInv'
  <2>1. UnderWay \subseteq Paths
    BY <1>0 DEF UnderWay, JobOK, Jobs
  <2>2. hit # Nobody => hit.path \in Paths
    BY <1>0 DEF TypeOK, Rows
  <2>3. TypeOK' /\ UNCHANGED <<pc, job>>
    BY <1>0, <1>10, <2>1, <2>2 DEF SwapZone, TypeOK
  <2> QED  BY <1>0, <2>3 DEF TypeInv, JobOK
<1>11. ASSUME NEW p \in Paths, NEW v \in Versions, EditFile(p, v) PROVE TypeInv'
  BY <1>0, <1>11 DEF EditFile, TypeInv, TypeOK, JobOK
<1>12. ASSUME Crash PROVE TypeInv'
  BY <1>12, RestartTypes DEF Crash
<1>13. ASSUME NEW r \in derived[active], SearchMatch(r) PROVE TypeInv'
  BY <1>0, <1>13 DEF SearchMatch, TypeInv, TypeOK, JobOK
<1>14. ASSUME SearchShow \/ SearchEnd PROVE TypeInv'
  BY <1>0, <1>14 DEF SearchShow, SearchEnd, TypeInv, TypeOK, JobOK
<1>15. ASSUME NEW w \in Workers, Fts(w), FtsNotWritten(w) PROVE TypeInv'
  <2>1. Loses(w)
    BY <1>15, LosesIs
  <2>2. TypeOK'
    BY <1>0, <2>1 DEF Loses, TypeOK
  <2>3. \A v \in Workers : JobOK(v)'
    BY <1>0, <2>1 DEF Loses, JobOK, Writing
  <2> QED  BY <2>2, <2>3 DEF TypeInv
<1>16. ASSUME UNCHANGED vars PROVE TypeInv'
  BY <1>0, <1>16 DEF vars, TypeInv, TypeOK, JobOK
<1> QED
  BY <1>1, <1>2, <1>3, <1>4, <1>5, <1>6, <1>7, <1>8, <1>9, <1>10, <1>11, <1>12, <1>13, <1>14, <1>15,
     <1>16 DEF Next, Writes, Fts

LEMMA TypeAlways == Spec => []TypeInv
BY TypeInit, TypeStep, PTL DEF Spec

-----------------------------------------------------------------------------
(* Ids and the texts they were given to.                                     *)

LEMMA IssuedInit == Init => IssuedInv
<1> SUFFICES ASSUME Init PROVE IssuedInv
  OBVIOUS
<1>1. /\ \A db \in Dbs : issued[db] = {} /\ derived[db] = {}
      /\ \A db \in Dbs, p \in Paths : doc[db][p] = Nobody
      /\ \A w \in Workers : pc[w] = "idle"
      /\ hit = Nobody /\ found = Nobody
  BY DEF Init
<1> QED
  BY <1>1 DEF IssuedInv, IdsAreOnce, DocIsIssued, JobIsOwn, Writing, DerivedIsOwn, HitIsOwn,
              SearchShowsMatch

(* Only the calls that have an id and the tables matter.                      *)
LEMMA IssuedKept ==
  ASSUME IssuedInv, UNCHANGED <<active, doc, next, derived, issued, strayed, hit, found>>,
         \A w \in Workers : pc'[w] \in Writing => pc[w] \in Writing /\ job'[w] = job[w]
  PROVE  IssuedInv'
<1>1. IdsAreOnce' /\ DerivedIsOwn' /\ HitIsOwn' /\ SearchShowsMatch'
  BY DEF IssuedInv, IdsAreOnce, DerivedIsOwn, HitIsOwn, SearchShowsMatch, TextOf
<1>2. \A db \in Dbs, p \in Paths : DocIsIssued(db, p)'
  BY DEF IssuedInv, DocIsIssued
<1>3. \A w \in Workers : JobIsOwn(w)'
  BY DEF IssuedInv, JobIsOwn, TextOf
<1> QED  BY <1>1, <1>2, <1>3 DEF IssuedInv

LEMMA IssuedUpsert ==
  ASSUME TypeInv, IssuedInv, NEW w \in Workers, NEW p, NEW hash, NEW id, Upserts(w, p, hash, id),
         id = next[active], UNCHANGED <<active, strayed, hit, found>>
  PROVE  IssuedInv'
<1> DEFINE text == [path |-> p, hash |-> hash, id |-> id]
<1>1. /\ active \in Dbs /\ issued \in [Dbs -> SUBSET Texts] /\ id \in Nat
      /\ next \in [Dbs -> Ids]
  BY DEF TypeInv, TypeOK, Upserts, Ids
<1>2. /\ issued'[active] = issued[active] \cup {text}
      /\ \A db \in Dbs \ {active} : issued'[db] = issued[db] /\ next'[db] = next[db]
      /\ \A db \in Dbs : issued[db] \subseteq issued'[db]
      /\ \A db \in Dbs : derived'[db] \subseteq derived[db]
      /\ next'[active] = id + 1
  BY <1>1 DEF Upserts
<1>3. text.id = id
  OBVIOUS
<1>4. IdsAreOnce'
  <2>1. ASSUME NEW db \in Dbs, NEW t \in issued'[db] PROVE t.id < next'[db]
    <3>1. CASE db # active
      BY <1>2, <2>1, <3>1 DEF IssuedInv, IdsAreOnce
    <3>2. CASE db = active /\ t \in issued[active]
      <4>1. t.id < id /\ t.id \in Nat
        BY <1>1, <3>2 DEF IssuedInv, IdsAreOnce, Texts, Ids
      <4> QED  BY <1>1, <1>2, <3>2, <4>1
    <3>3. CASE db = active /\ t = text
      BY <1>1, <1>2, <1>3, <3>3
    <3> QED  BY <1>2, <2>1, <3>1, <3>2, <3>3
  <2>2. ASSUME NEW db \in Dbs, NEW t \in issued'[db], NEW u \in issued'[db], t.id = u.id
        PROVE  t = u
    <3>1. CASE db # active
      BY <1>2, <2>2, <3>1 DEF IssuedInv, IdsAreOnce
    <3>2. CASE db = active
      <4>1. \A s \in issued[active] : s.id \in Nat /\ s.id < id
        BY <1>1 DEF IssuedInv, IdsAreOnce, Texts, Ids
      <4>2. \A s \in issued[active] : s.id # id
        BY <1>1, <4>1
      <4>3. \A s, r \in issued[active] : s.id = r.id => s = r
        BY <1>1 DEF IssuedInv, IdsAreOnce
      <4> HIDE DEF text
      <4>4. t \in issued[active] \/ t = text
        BY <1>2, <3>2
      <4>5. u \in issued[active] \/ u = text
        BY <1>2, <3>2
      <4> QED  BY <1>3, <2>2, <4>2, <4>3, <4>4, <4>5
    <3> QED  BY <3>1, <3>2
  <2> QED  BY <2>1, <2>2 DEF IdsAreOnce
<1>5. \A db \in Dbs, q \in Paths : DocIsIssued(db, q)'
  <2> SUFFICES ASSUME NEW db \in Dbs, NEW q \in Paths PROVE DocIsIssued(db, q)'
    OBVIOUS
  <2>1. CASE db = active /\ q = p
    <3>1. doc'[db][q] = [id |-> id, hash |-> hash]
      BY <2>1 DEF Upserts
    <3>2. doc'[db][q].id = id /\ doc'[db][q].hash = hash
      BY <3>1
    <3> QED  BY <1>2, <2>1, <3>2 DEF DocIsIssued
  <2>2. CASE db # active \/ q # p
    <3>1. doc'[db][q] = doc[db][q]
      BY <2>2 DEF Upserts
    <3>2. DocIsIssued(db, q) /\ issued[db] \subseteq issued'[db]
      BY <1>2 DEF IssuedInv
    <3> QED  BY <3>1, <3>2 DEF DocIsIssued
  <2> QED  BY <2>1, <2>2
<1>6. \A v \in Workers : JobIsOwn(v)'
  <2>1. JobIsOwn(w)'
    <3>1. TextOf(job[w])' = text
      BY DEF Upserts, TextOf
    <3> QED  BY <1>2, <3>1 DEF JobIsOwn
  <2>2. ASSUME NEW v \in Workers \ {w} PROVE JobIsOwn(v)'
    BY <1>1, <1>2, <2>2 DEF IssuedInv, JobIsOwn, TextOf, Upserts
  <2> QED  BY <2>1, <2>2
<1>7. DerivedIsOwn' /\ HitIsOwn' /\ SearchShowsMatch'
  BY <1>1, <1>2 DEF IssuedInv, DerivedIsOwn, HitIsOwn, SearchShowsMatch, TextOf
<1> QED  BY <1>4, <1>5, <1>6, <1>7 DEF IssuedInv

(* A row written for a job belongs to the text of the job.                     *)
LEMMA IssuedWrite ==
  ASSUME TypeInv, IssuedInv, NEW w \in Workers, NEW kind, NEW row, row = Row(w, kind),
         pc[w] \in Writing, Wrote(row),
         UNCHANGED <<active, doc, next, issued, strayed, hit, found, job>>,
         \A v \in Workers : pc'[v] \in Writing => pc[v] \in Writing
  PROVE  IssuedInv'
<1>1. IdsAreOnce' /\ HitIsOwn' /\ SearchShowsMatch'
  BY DEF IssuedInv, IdsAreOnce, HitIsOwn, SearchShowsMatch, TextOf
<1>2. \A db \in Dbs, p \in Paths : DocIsIssued(db, p)'
  BY DEF IssuedInv, DocIsIssued
<1>3. \A v \in Workers : JobIsOwn(v)'
  BY DEF IssuedInv, JobIsOwn, TextOf
<1>4. row.path \in strayed \/ TextOf(row) \in issued[active]
  BY DEF IssuedInv, JobIsOwn, Row, TextOf
<1>5. DerivedIsOwn'
  <2> SUFFICES ASSUME NEW db \in Dbs, NEW r \in derived'[db]
               PROVE  r.path \in strayed \/ TextOf(r) \in issued[db]
    BY DEF DerivedIsOwn, TextOf
  <2>1. CASE r \in derived[db]
    BY <2>1 DEF IssuedInv, DerivedIsOwn, TextOf
  <2>2. CASE db = active /\ r = row
    BY <1>4, <2>2
  <2> QED  BY <2>1, <2>2 DEF Wrote
<1> QED  BY <1>1, <1>2, <1>3, <1>5 DEF IssuedInv

(* So does what a failed write of an FTS row leaves.                           *)
LEMMA IssuedLoses ==
  ASSUME IssuedInv, NEW w \in Workers, Loses(w)
  PROVE  IssuedInv'
<1>1. IdsAreOnce' /\ HitIsOwn' /\ SearchShowsMatch'
  BY DEF IssuedInv, IdsAreOnce, HitIsOwn, SearchShowsMatch, TextOf, Loses, search
<1>2. \A db \in Dbs, p \in Paths : DocIsIssued(db, p)'
  BY DEF IssuedInv, DocIsIssued, Loses
<1>3. \A v \in Workers : JobIsOwn(v)'
  BY DEF IssuedInv, JobIsOwn, TextOf, Loses, Writing
<1>4. DerivedIsOwn'
  BY DEF IssuedInv, DerivedIsOwn, Loses
<1> QED  BY <1>1, <1>2, <1>3, <1>4 DEF IssuedInv

LEMMA IssuedRestart ==
  ASSUME IssuedInv, Restart, UNCHANGED <<tables, strayed>>
  PROVE  IssuedInv'
<1>1. IdsAreOnce' /\ DerivedIsOwn'
  BY DEF IssuedInv, IdsAreOnce, DerivedIsOwn, tables
<1>2. \A db \in Dbs, p \in Paths : DocIsIssued(db, p)'
  BY DEF IssuedInv, DocIsIssued, tables
<1>3. (\A v \in Workers : JobIsOwn(v)') /\ HitIsOwn' /\ SearchShowsMatch'
  BY DEF Restart, JobIsOwn, Writing, HitIsOwn, SearchShowsMatch
<1> QED  BY <1>1, <1>2, <1>3 DEF IssuedInv

LEMMA IssuedSwap == ASSUME TypeInv, IssuedInv, SwapZone PROVE IssuedInv'
<1>1. IdsAreOnce'
  BY DEF IssuedInv, IdsAreOnce, SwapZone, tables
<1>2. \A db \in Dbs, p \in Paths : DocIsIssued(db, p)'
  BY DEF IssuedInv, DocIsIssued, SwapZone, tables
<1>3. strayed \subseteq strayed'
  BY DEF SwapZone
<1>4. DerivedIsOwn' /\ SearchShowsMatch'
  BY <1>3 DEF IssuedInv, DerivedIsOwn, SearchShowsMatch, SwapZone, tables, search
<1>5. \A v \in Workers : JobIsOwn(v)'
  <2>1. CASE target = active
    BY <2>1 DEF IssuedInv, JobIsOwn, SwapZone, TextOf, tables
  <2>2. CASE target # active
    <3>1. \A v \in Workers : pc[v] \in Writing => job[v].path \in strayed'
      BY <2>2 DEF SwapZone, UnderWay, Writing
    <3> QED  BY <3>1 DEF JobIsOwn, SwapZone
  <2> QED  BY <2>1, <2>2
<1>6. HitIsOwn'
  <2>1. CASE target = active
    BY <2>1 DEF IssuedInv, HitIsOwn, SwapZone, TextOf, tables, search
  <2>2. CASE target # active
    BY <2>2 DEF IssuedInv, HitIsOwn, SwapZone, search
  <2> QED  BY <2>1, <2>2
<1> QED  BY <1>1, <1>2, <1>4, <1>5, <1>6 DEF IssuedInv

LEMMA IssuedSearch ==
  ASSUME TypeInv, IssuedInv,
         (\E r \in derived[active] : SearchMatch(r)) \/ SearchShow \/ SearchEnd
  PROVE  IssuedInv'
<1>1. UNCHANGED <<active, doc, next, derived, issued, strayed, pc, job>>
  BY DEF SearchMatch, SearchShow, SearchEnd, tables, history
<1>2. IdsAreOnce' /\ DerivedIsOwn'
  BY <1>1 DEF IssuedInv, IdsAreOnce, DerivedIsOwn
<1>3. \A db \in Dbs, p \in Paths : DocIsIssued(db, p)'
  BY <1>1 DEF IssuedInv, DocIsIssued
<1>4. \A v \in Workers : JobIsOwn(v)'
  BY <1>1 DEF IssuedInv, JobIsOwn, TextOf
<1>5. HitIsOwn' /\ SearchShowsMatch'
  <2>1. ASSUME NEW r \in derived[active], SearchMatch(r) PROVE HitIsOwn' /\ SearchShowsMatch'
    <3>1. active \in Dbs
      BY DEF TypeInv, TypeOK
    <3>2. r.path \in strayed \/ TextOf(r) \in issued[active]
      BY <3>1 DEF IssuedInv, DerivedIsOwn, TextOf
    <3>3. found = Nobody /\ found' = Nobody /\ hit' = r
      BY <2>1 DEF IssuedInv, HitIsOwn, SearchMatch
    <3> QED  BY <1>1, <3>2, <3>3 DEF HitIsOwn, SearchShowsMatch, TextOf
  <2>2. ASSUME SearchShow PROVE HitIsOwn' /\ SearchShowsMatch'
    <3>1. hit' = hit /\ hit # Nobody
      BY <2>2 DEF SearchShow
    <3>2. PICK p \in Paths : /\ doc[active][p] # Nobody /\ doc[active][p].id = hit.id
                             /\ found' = p
      BY <2>2 DEF SearchShow
    <3>3. active \in Dbs
      BY DEF TypeInv, TypeOK
    <3> DEFINE shown == [path |-> p, hash |-> doc[active][p].hash, id |-> doc[active][p].id]
    <3>4. shown \in issued[active] /\ shown.id = hit.id /\ shown.path = p
      BY <3>2, <3>3 DEF IssuedInv, DocIsIssued
    <3>5. hit.path \in strayed \/ TextOf(hit) \in issued[active]
      BY <3>1 DEF IssuedInv, HitIsOwn
    <3>6. TextOf(hit).id = hit.id /\ TextOf(hit).path = hit.path
      BY DEF TextOf
    <3> HIDE DEF shown
    <3>7. TextOf(hit) \in issued[active] => hit.path = p
      BY <3>3, <3>4, <3>6 DEF IssuedInv, IdsAreOnce
    <3> QED  BY <1>1, <3>1, <3>2, <3>5, <3>7 DEF HitIsOwn, SearchShowsMatch, TextOf
  <2>3. ASSUME SearchEnd PROVE HitIsOwn' /\ SearchShowsMatch'
    BY <2>3 DEF SearchEnd, HitIsOwn, SearchShowsMatch
  <2> QED  BY <2>1, <2>2, <2>3
<1> QED  BY <1>2, <1>3, <1>4, <1>5 DEF IssuedInv

LEMMA IssuedStep == TypeInv /\ IssuedInv /\ [Next]_vars => IssuedInv'
<1> SUFFICES ASSUME TypeInv, IssuedInv, [Next]_vars PROVE IssuedInv'
  OBVIOUS
<1> USE DEF tables, bulk, history, search, bounds
<1>0. pc \in [Workers -> Steps]
  BY DEF TypeInv, TypeOK
<1>1. ASSUME NEW w \in Users, NEW p \in Paths, IndexDocument(w, p) PROVE IssuedInv'
  <2>1. w \in Workers /\ Begin(w, p)
    BY <1>1 DEF IndexDocument, Workers
  <2> QED  BY <1>1, <2>1, BeginTypes, IssuedKept DEF IndexDocument, Writing
<1>2. ASSUME BulkIndexStart \/ BulkEnd \/ BulkIndexStop \/ BulkThread PROVE IssuedInv'
  BY <1>2, IssuedKept DEF BulkIndexStart, BulkEnd, BulkIndexStop, BulkThread
<1>3. ASSUME NEW p \in BulkFiles, BulkFile(p) PROVE IssuedInv'
  <2>1. Bulk \in Workers /\ Begin(Bulk, p) /\ p \in Paths
    BY <1>3, IndexAssumption DEF BulkFile, Workers
  <2> QED  BY <1>3, <2>1, BeginTypes, IssuedKept DEF BulkFile, Writing
<1>4. ASSUME NEW w \in Workers, Check(w) PROVE IssuedInv'
  <2>1. pc'[w] \notin Writing /\ \A v \in Workers \ {w} : pc'[v] = pc[v]
    BY <1>0, <1>4 DEF Check, Goto, Writing
  <2> QED  BY <1>4, <2>1, IssuedKept DEF Check
<1>5. ASSUME NEW w \in Workers, Upsert(w) PROVE IssuedInv'
  <2> DEFINE p == job[w].path
             hash == job[w].hash
             id == next[active]
  <2>1. p = job[w].path /\ hash = job[w].hash /\ id = next[active]
    OBVIOUS
  <2> HIDE DEF p, hash, id
  <2>2. Upserts(w, p, hash, id)
    BY <1>5, <2>1, UpsertIs
  <2>3. UNCHANGED <<active, strayed, hit, found>>
    BY <1>5 DEF Upsert
  <2> QED  BY <2>1, <2>2, <2>3, IssuedUpsert
<1>6. ASSUME NEW w \in Workers, Writes(w) PROVE IssuedInv'
  <2>1. /\ pc[w] \in Writing
        /\ UNCHANGED <<active, doc, next, issued, strayed, hit, found, job>>
    BY <1>6 DEF Writes, Note, Embed, Fts, FtsWritten, Chunks, Writing
  <2>2. \A v \in Workers : pc'[v] \in Writing => pc[v] \in Writing
    BY <1>0, <1>6, <2>1 DEF Writes, Note, Embed, Fts, FtsWritten, Chunks, Goto
  <2>3. \/ UNCHANGED derived
        \/ \E kind \in Kinds : Put(active, {Row(w, kind)}) \/ Replace(active, Row(w, kind))
    BY <1>6 DEF Writes, Note, Embed, Fts, FtsWritten, Chunks, Kinds
  <2>4. CASE UNCHANGED derived
    BY <2>1, <2>2, <2>4, IssuedKept
  <2>5. ASSUME NEW kind \in Kinds, Put(active, {Row(w, kind)}) \/ Replace(active, Row(w, kind))
        PROVE  IssuedInv'
    <3> DEFINE row == Row(w, kind)
    <3>1. row \in Rows /\ row = Row(w, kind)
      BY <2>1, RowIs
    <3> HIDE DEF row
    <3>2. Wrote(row)
      BY <2>5, <3>1, PutIs
    <3> QED  BY <2>1, <2>2, <3>1, <3>2, IssuedWrite
  <2> QED  BY <2>3, <2>4, <2>5
<1>7. ASSUME NEW w \in Workers, ChunksThrow(w) \/ InsertThrows(w) PROVE IssuedInv'
  <2>1. CASE w = Bulk
    BY <1>7, <2>1, IssuedRestart DEF ChunksThrow, InsertThrows, Throw
  <2>2. CASE w # Bulk
    <3>1. /\ pc'[w] \notin Writing /\ \A v \in Workers \ {w} : pc'[v] = pc[v]
          /\ UNCHANGED <<active, doc, next, derived, issued, strayed, job, hit, found>>
      BY <1>0, <1>7, <2>2 DEF ChunksThrow, InsertThrows, Throw, Goto, Writing
    <3> QED  BY <3>1, IssuedKept
  <2> QED  BY <2>1, <2>2
<1>8. ASSUME NEW db \in Dbs, OpenZone(db) PROVE IssuedInv'
  BY <1>8, IssuedKept DEF OpenZone
<1>9. CASE SwapZone
  BY <1>9, IssuedSwap
<1>10. ASSUME NEW p \in Paths, NEW v \in Versions, EditFile(p, v) PROVE IssuedInv'
  BY <1>10, IssuedKept DEF EditFile
<1>11. CASE Crash
  BY <1>11, IssuedRestart DEF Crash
<1>12. CASE (\E r \in derived[active] : SearchMatch(r)) \/ SearchShow \/ SearchEnd
  BY <1>12, IssuedSearch
<1>13. ASSUME NEW w \in Workers, Fts(w), FtsNotWritten(w) PROVE IssuedInv'
  BY <1>13, LosesIs, IssuedLoses
<1>14. CASE UNCHANGED vars
  BY <1>14, IssuedKept DEF vars
<1> QED
  BY <1>1, <1>2, <1>3, <1>4, <1>5, <1>6, <1>7, <1>8, <1>9, <1>10, <1>11, <1>12, <1>13, <1>14
     DEF Next, Writes, Fts

LEMMA IssuedAlways == Spec => []IssuedInv
BY TypeAlways, IssuedInit, IssuedStep, PTL DEF Spec

(* The index is typed, and every row lies in the database that gave its id,    *)
(* under the text that got it.                                                 *)
THEOREM IndexIsSound == Spec => []IndexSound
<1>1. TypeInv /\ IssuedInv => IndexSound
  BY DEF TypeInv, IssuedInv, IndexSound
<1> QED  BY <1>1, TypeAlways, IssuedAlways, PTL

(* A search shows the document whose text it matched.                          *)
THEOREM SearchIsRight == Spec => []SearchShowsMatch
<1>1. IssuedInv => SearchShowsMatch
  BY DEF IssuedInv
<1> QED  BY <1>1, IssuedAlways, PTL

-----------------------------------------------------------------------------
(* Who owes a document which row.                                            *)

LEMMA FinishedInit == Init => FinishedInv
BY DEF Init, FinishedInv, Finished

LEMMA FinishedKept ==
  ASSUME FinishedInv, UNCHANGED <<active, doc, derived, cut, strayed, dropped>>,
         \A w \in Workers : pc[w] \in Writing => pc'[w] = pc[w] /\ job'[w] = job[w]
  PROVE  FinishedInv'
<1> SUFFICES ASSUME NEW db \in Dbs, NEW p \in Paths, NEW kind \in Found PROVE Finished(db, p, kind)'
  BY DEF FinishedInv
<1>1. Finished(db, p, kind) /\ Before(kind) \subseteq Writing
  BY DEF FinishedInv, Found, Before, Writing
<1>2. Has(db, p, kind) => Has(db, p, kind)'
  BY DEF Has, DerivedRow
<1>3. \A w \in Workers : Owner(w, db, p) /\ pc[w] \in Before(kind) =>
                         Owner(w, db, p)' /\ pc'[w] \in Before(kind)
  BY <1>1 DEF Owner
<1> QED  BY <1>1, <1>2, <1>3 DEF Finished

(* Two documents of a database never share an id.                             *)
LEMMA IdIsOne ==
  ASSUME IssuedInv, NEW db \in Dbs, NEW p \in Paths, NEW q \in Paths,
         doc[db][p] # Nobody, doc[db][q] # Nobody, doc[db][p].id = doc[db][q].id
  PROVE  p = q
<1> DEFINE t == [path |-> p, hash |-> doc[db][p].hash, id |-> doc[db][p].id]
           u == [path |-> q, hash |-> doc[db][q].hash, id |-> doc[db][q].id]
<1>1. t \in issued[db] /\ u \in issued[db]
  BY DEF IssuedInv, DocIsIssued
<1>2. t.id = u.id /\ t.path = p /\ u.path = q
  OBVIOUS
<1> HIDE DEF t, u
<1> QED  BY <1>1, <1>2 DEF IssuedInv, IdsAreOnce

(* A row with the id of a document is its row, or of a call that went astray. *)
LEMMA RowIsOwn ==
  ASSUME IssuedInv, NEW db \in Dbs, NEW p \in Paths, doc[db][p] # Nobody, NEW row \in Rows,
         row.id = doc[db][p].id, row.path \notin strayed, TextOf(row) \in issued[db]
  PROVE  row = DerivedRow(db, p, row.kind)
<1> DEFINE t == [path |-> p, hash |-> doc[db][p].hash, id |-> doc[db][p].id]
           u == TextOf(row)
<1>1. t \in issued[db] /\ u \in issued[db] /\ t.id = u.id
  BY DEF IssuedInv, DocIsIssued, TextOf
<1>2. /\ t.path = p /\ t.hash = doc[db][p].hash
      /\ u.path = row.path /\ u.hash = row.hash
  BY DEF TextOf
<1> HIDE DEF t, u
<1>3. t = u
  BY <1>1 DEF IssuedInv, IdsAreOnce
<1>4. row.path = p /\ row.hash = doc[db][p].hash
  BY <1>2, <1>3
<1> QED  BY <1>4 DEF Rows, DerivedRow

LEMMA FinishedUpsert ==
  ASSUME TypeInv, IssuedInv, FinishedInv, NEW w \in Workers, NEW p, NEW hash, NEW id,
         Upserts(w, p, hash, id), UNCHANGED <<active, cut, strayed, dropped>>
  PROVE  FinishedInv'
<1> SUFFICES ASSUME NEW db \in Dbs, NEW q \in Paths, NEW kind \in Found PROVE Finished(db, q, kind)'
  BY DEF FinishedInv
<1>1. Finished(db, q, kind) /\ "note" \in Before(kind) /\ "upsert" \notin Before(kind)
  BY DEF FinishedInv, Found, Before, Writing
<1>2. CASE db = active /\ q = p
  <2>1. doc'[db][q] = [id |-> id, hash |-> hash] /\ job'[w] = [path |-> p, hash |-> hash, id |-> id]
    BY <1>2 DEF Upserts
  <2>2. doc'[db][q].id = id /\ doc'[db][q].hash = hash
    BY <2>1
  <2>3. Owner(w, db, q)' /\ pc'[w] = "note"
    BY <1>2, <2>1, <2>2 DEF Owner, Upserts
  <2> QED  BY <1>1, <2>3 DEF Finished
<1>3. CASE db # active \/ q # p
  <2>1. doc'[db][q] = doc[db][q]
    BY <1>3 DEF Upserts
  <2>2. ASSUME doc[db][q] # Nobody, NEW r \in derived[db], r.id = doc[db][q].id
        PROVE  r \in derived'[db]
    <3>1. CASE db # active
      BY <2>2, <3>1 DEF Upserts
    <3>2. CASE db = active
      <4>1. p \in Paths /\ q # p
        BY <1>3, <3>2 DEF Upserts
      <4>2. doc[active][p] # Nobody => doc[active][p].id # r.id
        BY <2>2, <3>2, <4>1, IdIsOne
      <4> QED  BY <2>2, <3>2, <4>2 DEF Upserts
    <3> QED  BY <3>1, <3>2
  <2>3. doc[db][q] # Nobody /\ Has(db, q, kind) => Has(db, q, kind)'
    <3>1. DerivedRow(db, q, kind).id = doc[db][q].id /\ DerivedRow(db, q, kind)' = DerivedRow(db, q, kind)
      BY <2>1 DEF DerivedRow
    <3> QED  BY <2>1, <2>2, <3>1 DEF Has
  <2>4. \A v \in Workers : Owner(v, db, q) /\ pc[v] \in Before(kind) =>
                           Owner(v, db, q)' /\ pc'[v] \in Before(kind)
    <3> SUFFICES ASSUME NEW v \in Workers, Owner(v, db, q), pc[v] \in Before(kind)
                 PROVE  Owner(v, db, q)' /\ pc'[v] \in Before(kind)
      OBVIOUS
    <3>1. v # w
      BY <1>1 DEF Upserts
    <3>2. job'[v] = job[v] /\ pc'[v] = pc[v]
      BY <3>1 DEF Upserts
    <3> QED  BY <2>1, <3>2 DEF Owner
  <2> QED  BY <1>1, <2>1, <2>3, <2>4 DEF Finished
<1> QED  BY <1>2, <1>3

(* The kind of row written at a step.                                         *)
KindAt(step) == CASE step = "note" -> "note"
                  [] step = "embed" -> "embedding"
                  [] step = "fts" -> "fts"
                  [] step = "chunks" -> "chunks"

(* A call at a step writes the row of that step, which for the embedding it    *)
(* need not, and goes to the next.                                            *)
LEMMA FinishedWrite ==
  ASSUME TypeInv, IssuedInv, FinishedInv, NEW w \in Workers, pc[w] \in Writing,
         NEW kind0 \in Kinds, kind0 = KindAt(pc[w]), NEW row, row = Row(w, kind0), row \in Rows,
         Wrote(row) \/ (pc[w] = "embed" /\ UNCHANGED derived),
         UNCHANGED <<active, doc, cut, strayed, dropped, job>>,
         \A v \in Workers \ {w} : pc'[v] = pc[v],
         \A kind \in Found \ {kind0} : pc[w] \in Before(kind) => pc'[w] \in Before(kind)
  PROVE  FinishedInv'
<1> SUFFICES ASSUME NEW db \in Dbs, NEW p \in Paths, NEW kind \in Found,
                    doc[db][p] # Nobody, p \notin cut \cup strayed
             PROVE  Has(db, p, kind)' \/
                    \E v \in Workers : Owner(v, db, p)' /\ pc'[v] \in Before(kind)
  BY DEF FinishedInv, Finished
<1>1. Has(db, p, kind) \/ \E v \in Workers : Owner(v, db, p) /\ pc[v] \in Before(kind)
  BY DEF FinishedInv, Finished
<1>2. DerivedRow(db, p, kind)' = DerivedRow(db, p, kind) /\ DerivedRow(db, p, kind).kind = kind
      /\ DerivedRow(db, p, kind).id = doc[db][p].id
  BY DEF DerivedRow
<1>3. Wrote(row) /\ db = active /\ row.kind = kind /\ row.id = doc[db][p].id => Has(db, p, kind)'
  <2> SUFFICES ASSUME Wrote(row), db = active, row.kind = kind, row.id = doc[db][p].id
               PROVE  Has(db, p, kind)'
    OBVIOUS
  <2>1. row \in derived'[db]
    BY DEF Wrote
  <2>2. CASE row.path \in strayed
    BY <2>1, <2>2 DEF Has
  <2>3. CASE row.path \notin strayed
    <3>1. row.path = job[w].path /\ TextOf(row) = TextOf(job[w])
      BY DEF Row, TextOf
    <3>2. TextOf(row) \in issued[db]
      BY <2>3, <3>1 DEF IssuedInv, JobIsOwn
    <3>3. row = DerivedRow(db, p, kind)
      BY <2>3, <3>2, RowIsOwn
    <3> QED  BY <1>2, <2>1, <3>3 DEF Has
  <2> QED  BY <2>2, <2>3
<1>4. CASE Has(db, p, kind)
  <2>0. CASE kind = "fts" /\ doc[db][p].id \in dropped[db]
    BY <2>0 DEF Has
  <2>1. CASE Wrote(row) /\ ~(kind = "fts" /\ doc[db][p].id \in dropped[db])
    <3>1. PICK r \in derived[db] : /\ r.kind = kind /\ r.id = doc[db][p].id
                                   /\ r = DerivedRow(db, p, kind) \/ r.path \in strayed
      BY <1>2, <1>4, <2>1 DEF Has
    <3>2. r \in derived'[db] => Has(db, p, kind)'
      BY <1>2, <3>1 DEF Has
    <3>3. r \notin derived'[db] => db = active /\ r.kind = row.kind /\ r.id = row.id
      BY <2>1 DEF Wrote
    <3> QED  BY <1>3, <2>1, <3>1, <3>2, <3>3
  <2>2. CASE UNCHANGED derived
    BY <1>2, <1>4, <2>2 DEF Has
  <2> QED  BY <2>0, <2>1, <2>2
<1>5. ASSUME NEW v \in Workers, Owner(v, db, p), pc[v] \in Before(kind)
      PROVE  Has(db, p, kind)' \/ (Owner(v, db, p)' /\ pc'[v] \in Before(kind))
  <2>1. Owner(v, db, p)'
    BY <1>5 DEF Owner
  <2>2. CASE v # w
    BY <1>5, <2>1, <2>2
  <2>3. CASE v = w /\ kind # kind0
    BY <1>5, <2>1, <2>3
  <2>4. CASE v = w /\ kind = kind0
    <3>1. pc[w] # "embed"
      BY <2>4 DEF Found, KindAt
    <3>2. row.kind = kind /\ row.id = doc[db][p].id /\ db = active
      BY <1>5, <2>4 DEF Owner, Row
    <3> QED  BY <1>3, <3>1, <3>2
  <2> QED  BY <2>2, <2>3, <2>4
<1> QED  BY <1>1, <1>4, <1>5

(* A failed write of the FTS row is remembered under the id of the document.   *)
LEMMA FinishedLoses ==
  ASSUME FinishedInv, NEW w \in Workers, Loses(w)
  PROVE  FinishedInv'
<1> SUFFICES ASSUME NEW db \in Dbs, NEW p \in Paths, NEW kind \in Found,
                    doc[db][p] # Nobody, p \notin cut \cup strayed
             PROVE  Has(db, p, kind)' \/
                    \E v \in Workers : Owner(v, db, p)' /\ pc'[v] \in Before(kind)
  BY DEF FinishedInv, Finished, Loses
<1>1. Has(db, p, kind) \/ \E v \in Workers : Owner(v, db, p) /\ pc[v] \in Before(kind)
  BY DEF FinishedInv, Finished
<1>2. /\ DerivedRow(db, p, kind)' = DerivedRow(db, p, kind)
      /\ DerivedRow(db, p, kind).kind = kind /\ DerivedRow(db, p, kind).id = doc[db][p].id
      /\ doc' = doc /\ strayed' = strayed /\ dropped[db] \subseteq dropped'[db]
  BY DEF DerivedRow, Loses
<1>3. ASSUME kind = "fts", doc[db][p].id \in dropped'[db] PROVE Has(db, p, kind)'
  BY <1>2, <1>3 DEF Has
<1>4. ASSUME NEW r \in derived[db], r.kind = kind, r.id = doc[db][p].id, r \notin derived'[db]
      PROVE  kind = "fts" /\ doc[db][p].id \in dropped'[db]
  BY <1>4 DEF Loses
<1>5. CASE Has(db, p, kind)
  <2>1. CASE DerivedRow(db, p, kind) \in derived[db]
    BY <1>2, <1>3, <1>4, <2>1 DEF Has
  <2>2. ASSUME NEW r \in derived[db], r.kind = kind, r.id = doc[db][p].id, r.path \in strayed
        PROVE  Has(db, p, kind)'
    BY <1>2, <1>3, <1>4, <2>2 DEF Has
  <2>3. CASE kind = "fts" /\ doc[db][p].id \in dropped[db]
    BY <1>2, <1>3, <2>3
  <2> QED  BY <1>5, <2>1, <2>2, <2>3 DEF Has
<1>6. ASSUME NEW v \in Workers, Owner(v, db, p), pc[v] \in Before(kind)
      PROVE  Has(db, p, kind)' \/ (Owner(v, db, p)' /\ pc'[v] \in Before(kind))
  <2>1. Owner(v, db, p)'
    BY <1>6 DEF Owner, Loses
  <2>2. CASE v # w
    BY <1>6, <2>1, <2>2 DEF Loses
  <2>3. CASE v = w /\ kind = "fts"
    <3>1. db = active /\ job[w].id = doc[db][p].id
      BY <1>6, <2>3 DEF Owner
    <3>2. doc[db][p].id \in dropped'[db]
      BY <3>1 DEF Loses
    <3> QED  BY <1>3, <2>3, <3>2
  <2>4. CASE v = w /\ kind # "fts"
    <3>1. pc[w] = "fts" /\ pc'[w] = "chunks"
      BY DEF Loses
    <3>2. kind = "chunks"
      BY <1>6, <2>4, <3>1 DEF Found, Before
    <3> QED  BY <2>1, <2>4, <3>1, <3>2 DEF Before, Writing
  <2> QED  BY <2>2, <2>3, <2>4
<1> QED  BY <1>1, <1>5, <1>6

LEMMA FinishedRestart ==
  ASSUME FinishedInv, Restart, UNCHANGED <<tables, strayed, dropped>>
  PROVE  FinishedInv'
<1> SUFFICES ASSUME NEW db \in Dbs, NEW p \in Paths, NEW kind \in Found,
                    doc[db][p] # Nobody, p \notin cut' \cup strayed
             PROVE  Has(db, p, kind)'
  BY DEF FinishedInv, Finished, tables
<1>1. cut \subseteq cut' /\ UnderWay \subseteq cut'
  BY DEF Restart
<1>2. Has(db, p, kind) \/ \E w \in Workers : Owner(w, db, p) /\ pc[w] \in Before(kind)
  BY <1>1 DEF FinishedInv, Finished
<1>3. ASSUME NEW w \in Workers, Owner(w, db, p), pc[w] \in Before(kind) PROVE FALSE
  <2>1. pc[w] # "idle" /\ job[w].path = p
    BY <1>3 DEF Owner, Found, Before, Writing
  <2> QED  BY <1>1, <2>1 DEF UnderWay
<1>4. Has(db, p, kind) => Has(db, p, kind)'
  BY DEF Has, DerivedRow, tables
<1> QED  BY <1>2, <1>3, <1>4

LEMMA FinishedSwap == ASSUME FinishedInv, SwapZone PROVE FinishedInv'
<1> SUFFICES ASSUME NEW db \in Dbs, NEW p \in Paths, NEW kind \in Found,
                    doc[db][p] # Nobody, p \notin cut \cup strayed'
             PROVE  Has(db, p, kind)' \/
                    \E w \in Workers : Owner(w, db, p)' /\ pc'[w] \in Before(kind)
  BY DEF FinishedInv, Finished, SwapZone, tables
<1>1. strayed \subseteq strayed'
  BY DEF SwapZone
<1>2. Has(db, p, kind) \/ \E w \in Workers : Owner(w, db, p) /\ pc[w] \in Before(kind)
  BY <1>1 DEF FinishedInv, Finished
<1>3. Has(db, p, kind) => Has(db, p, kind)'
  BY <1>1 DEF Has, DerivedRow, SwapZone, tables
<1>4. ASSUME NEW w \in Workers, Owner(w, db, p), pc[w] \in Before(kind)
      PROVE  Owner(w, db, p)' /\ pc'[w] \in Before(kind)
  <2>1. pc[w] # "idle" /\ job[w].path = p
    BY <1>4 DEF Owner, Found, Before, Writing
  <2>2. p \in UnderWay
    BY <2>1 DEF UnderWay
  <2>3. target = active
    BY <2>2 DEF SwapZone
  <2> QED  BY <1>4, <2>3 DEF Owner, SwapZone, tables
<1> QED  BY <1>2, <1>3, <1>4

LEMMA FinishedStep == TypeInv /\ IssuedInv /\ FinishedInv /\ [Next]_vars => FinishedInv'
<1> SUFFICES ASSUME TypeInv, IssuedInv, FinishedInv, [Next]_vars PROVE FinishedInv'
  OBVIOUS
<1> USE DEF tables, bulk, history, search, bounds
<1>0. pc \in [Workers -> Steps]
  BY DEF TypeInv, TypeOK
<1>1. ASSUME NEW w \in Users, NEW p \in Paths, IndexDocument(w, p) PROVE FinishedInv'
  <2>1. w \in Workers /\ Begin(w, p)
    BY <1>1 DEF IndexDocument, Workers
  <2>2. pc[w] \notin Writing
    BY <2>1 DEF Begin, Writing
  <2> QED  BY <1>1, <2>1, <2>2, BeginTypes, FinishedKept DEF IndexDocument
<1>2. ASSUME BulkIndexStart \/ BulkEnd \/ BulkIndexStop \/ BulkThread PROVE FinishedInv'
  BY <1>2, FinishedKept DEF BulkIndexStart, BulkEnd, BulkIndexStop, BulkThread
<1>3. ASSUME NEW p \in BulkFiles, BulkFile(p) PROVE FinishedInv'
  <2>1. Bulk \in Workers /\ Begin(Bulk, p) /\ p \in Paths
    BY <1>3, IndexAssumption DEF BulkFile, Workers
  <2>2. pc[Bulk] \notin Writing
    BY <2>1 DEF Begin, Writing
  <2> QED  BY <1>3, <2>1, <2>2, BeginTypes, FinishedKept DEF BulkFile
<1>4. ASSUME NEW w \in Workers, Check(w) PROVE FinishedInv'
  <2>1. pc[w] \notin Writing /\ \A v \in Workers \ {w} : pc'[v] = pc[v]
    BY <1>0, <1>4 DEF Check, Goto, Writing
  <2> QED  BY <1>4, <2>1, FinishedKept DEF Check
<1>5. ASSUME NEW w \in Workers, Upsert(w) PROVE FinishedInv'
  <2> DEFINE p == job[w].path
             hash == job[w].hash
             id == next[active]
  <2>1. p = job[w].path /\ hash = job[w].hash /\ id = next[active]
    OBVIOUS
  <2> HIDE DEF p, hash, id
  <2>2. Upserts(w, p, hash, id)
    BY <1>5, <2>1, UpsertIs
  <2>3. UNCHANGED <<active, cut, strayed, dropped>>
    BY <1>5 DEF Upsert
  <2> QED  BY <2>2, <2>3, FinishedUpsert
<1>6. ASSUME NEW w \in Workers, Writes(w) PROVE FinishedInv'
  <2> DEFINE kind0 == KindAt(pc[w])
             row == Row(w, kind0)
  <2>1. pc[w] \in Writing /\ UNCHANGED <<active, doc, cut, strayed, dropped, job>>
    BY <1>6 DEF Writes, Note, Embed, Fts, FtsWritten, Chunks, Writing
  <2>2. kind0 \in Kinds /\ kind0 = KindAt(pc[w]) /\ row = Row(w, kind0)
    BY <2>1 DEF Writing, KindAt, Kinds
  <2>3. row \in Rows
    BY <2>1, <2>2, RowIs
  <2>4. \/ Put(active, {row}) \/ Replace(active, row)
        \/ (pc[w] = "embed" /\ UNCHANGED derived)
    BY <1>6 DEF Writes, Note, Embed, Fts, FtsWritten, Chunks, KindAt
  <2>5. \A v \in Workers \ {w} : pc'[v] = pc[v]
    BY <1>0, <1>6 DEF Writes, Note, Embed, Fts, FtsWritten, Chunks, Goto
  <2>6. \A kind \in Found \ {kind0} : pc[w] \in Before(kind) => pc'[w] \in Before(kind)
    <3> SUFFICES ASSUME NEW kind \in Found, kind # kind0, pc[w] \in Before(kind)
                 PROVE  pc'[w] \in Before(kind)
      OBVIOUS
    <3>1. CASE Note(w)
      <4>1. pc[w] = "note" /\ pc'[w] = "embed" /\ kind # "note"
        BY <1>0, <3>1 DEF Note, Goto, KindAt
      <4> QED  BY <4>1 DEF Before, Found, Writing
    <3>2. CASE Embed(w)
      <4>1. pc[w] = "embed" /\ pc'[w] = "fts"
        BY <1>0, <3>2 DEF Embed, Goto
      <4> QED  BY <4>1 DEF Before, Found, Writing
    <3>3. CASE Fts(w) /\ FtsWritten(w)
      <4>1. pc[w] = "fts" /\ pc'[w] = "chunks" /\ kind # "fts"
        BY <1>0, <3>3 DEF Fts, Goto, KindAt
      <4> QED  BY <4>1 DEF Before, Found, Writing
    <3>4. CASE Chunks(w)
      <4>1. pc[w] = "chunks" /\ kind # "chunks"
        BY <1>0, <3>4 DEF Chunks, KindAt
      <4> QED  BY <4>1 DEF Before, Found
    <3> QED  BY <1>6, <3>1, <3>2, <3>3, <3>4 DEF Writes
  <2> HIDE DEF kind0, row
  <2>7. Wrote(row) \/ (pc[w] = "embed" /\ UNCHANGED derived)
    BY <2>3, <2>4, PutIs
  <2> QED  BY <2>1, <2>2, <2>3, <2>5, <2>6, <2>7, FinishedWrite
<1>7. ASSUME NEW w \in Workers, ChunksThrow(w) \/ InsertThrows(w) PROVE FinishedInv'
  <2>1. CASE w = Bulk
    BY <1>7, <2>1, FinishedRestart DEF ChunksThrow, InsertThrows, Throw
  <2>2. CASE w # Bulk
    <3>1. /\ UNCHANGED <<active, doc, derived, strayed, dropped, job>> /\ cut \subseteq cut'
          /\ \A v \in Workers \ {w} : pc'[v] = pc[v]
      BY <1>0, <1>7, <2>2 DEF ChunksThrow, InsertThrows, Throw, Goto
    <3> SUFFICES ASSUME NEW db \in Dbs, NEW p \in Paths, NEW kind \in Found, doc[db][p] # Nobody,
                        p \notin cut'
                 PROVE  Finished(db, p, kind) => Finished(db, p, kind)'
      BY <3>1 DEF FinishedInv, Finished
    <3>2. Has(db, p, kind) => Has(db, p, kind)'
      BY <3>1 DEF Has, DerivedRow
    <3>3. ~Owner(w, db, p)
      <4> SUFFICES ASSUME Owner(w, db, p) PROVE FALSE
        OBVIOUS
      <4>1. db = active /\ doc[active][p].id = job[w].id /\ job[w].path = p
        BY DEF Owner
      <4>2. CASE ChunksThrow(w)
        BY <4>1, <4>2 DEF ChunksThrow, HasDocument
      <4>3. CASE InsertThrows(w)
        BY <2>2, <4>1, <4>3 DEF InsertThrows
      <4> QED  BY <1>7, <4>2, <4>3
    <3>4. ASSUME NEW v \in Workers, Owner(v, db, p), pc[v] \in Before(kind)
          PROVE  Owner(v, db, p)' /\ pc'[v] \in Before(kind)
      BY <3>1, <3>3, <3>4 DEF Owner
    <3> QED  BY <3>1, <3>2, <3>4 DEF Finished
  <2> QED  BY <2>1, <2>2
<1>8. ASSUME NEW db \in Dbs, OpenZone(db) PROVE FinishedInv'
  BY <1>8, FinishedKept DEF OpenZone
<1>9. CASE SwapZone
  BY <1>9, FinishedSwap
<1>10. ASSUME NEW p \in Paths, NEW v \in Versions, EditFile(p, v) PROVE FinishedInv'
  BY <1>10, FinishedKept DEF EditFile
<1>11. CASE Crash
  BY <1>11, FinishedRestart DEF Crash
<1>12. CASE (\E r \in derived[active] : SearchMatch(r)) \/ SearchShow \/ SearchEnd
  BY <1>12, FinishedKept DEF SearchMatch, SearchShow, SearchEnd
<1>13. ASSUME NEW w \in Workers, Fts(w), FtsNotWritten(w) PROVE FinishedInv'
  BY <1>13, LosesIs, FinishedLoses
<1>14. CASE UNCHANGED vars
  BY <1>14, FinishedKept DEF vars
<1> QED
  BY <1>1, <1>2, <1>3, <1>4, <1>5, <1>6, <1>7, <1>8, <1>9, <1>10, <1>11, <1>12, <1>13, <1>14
     DEF Next, Writes, Fts

(* A document that nobody is indexing has its note and its chunks, and its FTS *)
(* row unless its write failed without a word, unless a crash, an exception or  *)
(* a change of zone came in between.                                           *)
THEOREM IndexIsComplete == Spec => []IndexComplete
<1>1. FinishedInv => IndexComplete
  <2> SUFFICES ASSUME FinishedInv, NEW db \in Dbs, NEW p \in Paths, NEW kind \in Found,
                      doc[db][p] # Nobody, ~Indexing(p), ~Disturbed(db, p)
               PROVE  \/ DerivedRow(db, p, kind) \in derived[db]
                      \/ kind = "fts" /\ doc[db][p].id \in dropped[db]
    BY DEF IndexComplete, Found
  <2>1. Has(db, p, kind) \/ \E w \in Workers : Owner(w, db, p) /\ pc[w] \in Before(kind)
    BY DEF FinishedInv, Finished, Disturbed
  <2>2. ASSUME NEW w \in Workers, Owner(w, db, p), pc[w] \in Before(kind) PROVE FALSE
    <3>1. pc[w] # "idle" /\ job[w].path = p
      BY <2>2 DEF Owner, Found, Before, Writing
    <3> QED  BY <3>1 DEF Indexing
  <2> QED  BY <2>1, <2>2 DEF Has, Disturbed
<1> QED  BY <1>1, TypeAlways, IssuedAlways, FinishedInit, FinishedStep, PTL DEF Spec

=============================================================================
