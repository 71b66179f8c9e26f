-------------------------- MODULE FileToZoneProofs --------------------------
(***************************************************************************)
(* Safety of FileToZone for any files, names and callers, and any number   *)
(* of crashes and of changes of the open database.                         *)
(*                                                                         *)
(* CallsInv is what every call knows of itself.  With it the files         *)
(* (FilesInv) and the rows (OriginInv, and KeptInv as long as no call has  *)
(* run while a zone was open) are each kept by an invariant of their own.  *)
(***************************************************************************)
EXTENDS FileToZone, TLAPS

-----------------------------------------------------------------------------
(* The calls.                                                                *)

Unread == {"idle", "reading"}

CallOK(c) ==
  /\ At(c, "idle") => call[c].file = Nothing
  /\ call[c].step \in Unread => call[c].row = Nothing
  /\ ~At(c, "idle") => call[c].file \in Files
  /\ call[c].step \in Deleting \cup {"committing"} => call[c].row # Nothing
  /\ call[c].step \in Deleting => holder = c

Fresh == \A d \in docs["zone"] : d.id < nextId

CallsInv == TypeOK /\ Fresh /\ \A c \in Callers : CallOK(c)

(* The files.                                                                *)

Settled(f) == placed[NameOf[f]] = f \/ Overwritten(f) \/ Collided(f)

FilesInv ==
  /\ \A f \in Files : f \in home \/ Settled(f)
  /\ \A f \in Files : \A c \in Callers : At(c, "unlinking") /\ call[c].file = f => Settled(f)

(* The rows of the global database are those it had: they are only deleted.  *)

Moved == documented \ Resident

OriginInv ==
  /\ Resident \subseteq documented
  /\ \A d \in docs["global"] : d.of \in Moved /\ d = DocOf(d.of)
  /\ \A r \in registry["global"] :
       r.uid \in Moved /\ r.path = Home(r.uid) /\ r.docId \in {0, IdOf[r.uid]}
  /\ \A r \in derived["global"] : r.of \in Moved /\ r.id = IdOf[r.of]

(* The rows, as long as every call read and wrote with the global database   *)
(* open.                                                                     *)

(* What a call has read is the document of its file, and all of it.          *)
Knows(c) ==
  call[c].step \notin Unread /\ call[c].row # Nothing =>
    /\ call[c].file \in Moved
    /\ call[c].row = DocOf(call[c].file)
    /\ call[c].uid = call[c].file
    /\ call[c].kinds = {"note", "embedding"}
    /\ call[c].logs = LogKinds

Companions(db, f, id) ==
  \A k \in {"note", "embedding"} : [kind |-> k, id |-> id, of |-> f] \in derived[db]

(* A document that has its row has all that belongs to it.                   *)
Intact(f) ==
  DocOf(f) \in docs["global"] => HistoryIn("global", f) /\ Companions("global", f, IdOf[f])

AtHome(f) ==
  /\ HistoryIn("zone", f)
  /\ \E d \in docs["zone"] :
       /\ d.path = In(NameOf[f]) /\ d.of = f
       /\ Companions("zone", f, d.id)
       /\ [uid |-> f, path |-> d.path, docId |-> d.id] \in registry["zone"]

Landed(f) == Written(f) => Superseded(f) \/ AtHome(f)

Safe(f) == f \in documented => Written(f) \/ HistoryIn("global", f)

(* The deletions a call has made, by the step it is at.                      *)
Past(c, steps) == call[c].step \in steps \cup {"ok"} /\ call[c].row # Nothing

NoDerived(kind, f) == \A r \in derived["global"] : r.of = f => r.kind # kind

Cleared(c) ==
  /\ Past(c, Deleting \ {"document"}) => \A d \in docs["global"] : d.of # call[c].file
  /\ Past(c, Deleting \ {"document"}) => NoDerived("chunks", call[c].file)
  /\ Past(c, Deleting \ {"document", "note"}) => NoDerived("note", call[c].file)
  /\ Past(c, {"events", "versions", "state", "registry"}) => NoDerived("embedding", call[c].file)
  /\ Past(c, {}) => \A r \in registry["global"] : r.uid # call[c].file
  /\ Past(c, {}) => \A l \in logs["global"] : l.uid # call[c].file

KeptInv ==
  /\ \A c \in Callers : call[c].step \in Deleting => active = "global"
  /\ \A c \in Callers : Knows(c)
  /\ \A f \in Files : Intact(f)
  /\ \A r \in registry["zone"] : r.path = In(NameOf[r.uid])
  /\ \A f \in Files : Landed(f)
  /\ \A f \in Files : Safe(f)
  /\ \A c \in Callers : Cleared(c)

RowsInv == OriginInv /\ (~aside => KeptInv)

-----------------------------------------------------------------------------
(* The helpers.                                                              *)

LEMMA StepsAre ==
  /\ Ended \subseteq Steps /\ Deleting \subseteq Steps
  /\ {"reading", "moving", "copying", "unlinking", "opening", "committing"} \subseteq Steps
BY DEF Steps

(* A registry row that loses its document keeps its uid and its path.         *)
LEMMA ReleasedIs ==
  ASSUME TypeOK, NEW db \in Dbs, NEW ids
  PROVE  /\ Released(db, ids) \subseteq [uid : Files, path : Paths, docId : Nat]
         /\ \A r \in Released(db, ids) : \E q \in registry[db] :
              r.uid = q.uid /\ r.path = q.path /\ r.docId \in {0, q.docId}
         /\ \A q \in registry[db] : \E r \in Released(db, ids) :
              r.uid = q.uid /\ r.path = q.path /\ (q.docId \notin ids => r = q)
         /\ \A r, q \in Released(db, ids) : r.path = q.path \/ r.uid = q.uid => r = q
<1> DEFINE Row == [uid : Files, path : Paths, docId : Nat]
           One(q) == [q EXCEPT !.docId = IF @ \in ids THEN 0 ELSE @]
<1>1. registry[db] \subseteq Row
  BY DEF TypeOK
<1>2. Released(db, ids) = {One(q) : q \in registry[db]}
  BY DEF Released
<1>3. ASSUME NEW q \in Row
      PROVE  /\ One(q) \in Row /\ One(q).uid = q.uid /\ One(q).path = q.path
             /\ One(q).docId \in {0, q.docId} /\ (q.docId \notin ids => One(q) = q)
  OBVIOUS
<1>4. \A r, q \in registry[db] : r.path = q.path \/ r.uid = q.uid => r = q
  BY DEF TypeOK
<1> HIDE DEF One, Row
<1>5. Released(db, ids) \subseteq Row
  BY <1>1, <1>2, <1>3
<1>6. ASSUME NEW r \in Released(db, ids)
      PROVE  \E q \in registry[db] : r.uid = q.uid /\ r.path = q.path /\ r.docId \in {0, q.docId}
  <2>1. PICK q \in registry[db] : r = One(q)
    BY <1>2
  <2> QED  BY <2>1, <1>1, <1>3
<1>7. ASSUME NEW q \in registry[db]
      PROVE  \E r \in Released(db, ids) :
               r.uid = q.uid /\ r.path = q.path /\ (q.docId \notin ids => r = q)
  <2>1. One(q) \in Released(db, ids)
    BY <1>2
  <2> QED  BY <2>1, <1>1, <1>3
<1>8. ASSUME NEW r \in Released(db, ids), NEW q \in Released(db, ids),
             r.path = q.path \/ r.uid = q.uid
      PROVE  r = q
  <2>1. PICK a \in registry[db] : r = One(a)
    BY <1>2
  <2>2. PICK b \in registry[db] : q = One(b)
    BY <1>2
  <2>3. a.path = b.path \/ a.uid = b.uid
    BY <2>1, <2>2, <1>1, <1>3, <1>8
  <2> QED  BY <2>1, <2>2, <2>3, <1>4
<1> QED
  BY <1>5, <1>6, <1>7, <1>8 DEF Row

LEMMA ReleasedKeeps ==
  ASSUME TypeOK, NEW db \in Dbs, NEW ids, NEW q \in registry[db], q.docId \notin ids
  PROVE  q \in Released(db, ids)
<1>1. q \in [uid : Files, path : Paths, docId : Nat]
  BY DEF TypeOK
<1>2. [q EXCEPT !.docId = IF @ \in ids THEN 0 ELSE @] = q
  BY <1>1
<1> QED  BY <1>2 DEF Released

LEMMA PathsAre ==
  /\ \A f \in Files : Home(f) \in Paths /\ In(NameOf[f]) \in Paths /\ NameOf[f] \in Names
  /\ \A f, g : Home(f) = Home(g) => f = g
  /\ \A m, n : In(m) = In(n) => m = n
  /\ \A f, n : Home(f) # In(n)
<1>1. ASSUME NEW f, NEW g, Home(f) = Home(g) PROVE f = g
  <2>1. Home(f).name = f /\ Home(g).name = g
    BY DEF Home
  <2> QED  BY <1>1, <2>1
<1>2. ASSUME NEW m, NEW n, In(m) = In(n) PROVE m = n
  <2>1. In(m).name = m /\ In(n).name = n
    BY DEF In
  <2> QED  BY <1>2, <2>1
<1>3. ASSUME NEW f, NEW n PROVE Home(f) # In(n)
  <2>1. Home(f).at = "home" /\ In(n).at = "zone"
    BY DEF Home, In
  <2> QED  BY <2>1
<1>4. ASSUME NEW f \in Files
      PROVE  Home(f) \in Paths /\ In(NameOf[f]) \in Paths /\ NameOf[f] \in Names
  BY DEF Paths, Names
<1> QED
  BY <1>1, <1>2, <1>3, <1>4

LEMMA DocsAre ==
  \A f \in Files : /\ DocOf(f) \in DocRows /\ DocOf(f).of = f /\ DocOf(f).id = IdOf[f]
                   /\ f \in Resident => DocOf(f).path = In(NameOf[f])
                   /\ f \notin Resident => DocOf(f).path = Home(f)
BY FileToZoneAssumption, PathsAre DEF DocOf, DocRows

(* What the initial state holds.                                              *)
LEMMA InitIs ==
  ASSUME Init
  PROVE  /\ Resident \subseteq documented /\ documented \subseteq Files
         /\ docs \in [Dbs -> SUBSET DocRows]
         /\ derived \in [Dbs -> SUBSET [kind : DerivedKinds, id : Nat, of : Files]]
         /\ registry \in [Dbs -> SUBSET [uid : Files, path : Paths, docId : Nat]]
         /\ logs \in [Dbs -> SUBSET [uid : Files, kind : LogKinds]]
         /\ \A db \in Dbs : \A d \in docs[db] :
              d.of \in documented /\ DbOf(d.of) = db /\ d = DocOf(d.of)
         /\ \A db \in Dbs : \A r \in registry[db] :
              /\ r.uid \in documented /\ DbOf(r.uid) = db
              /\ r.path = DocOf(r.uid).path /\ r.docId = IdOf[r.uid]
         /\ \A db \in Dbs : \A r \in derived[db] :
              r.of \in documented /\ DbOf(r.of) = db /\ r.id = IdOf[r.of]
         /\ \A f \in documented :
              /\ DocOf(f) \in docs[DbOf(f)]
              /\ [uid |-> f, path |-> DocOf(f).path, docId |-> IdOf[f]] \in registry[DbOf(f)]
              /\ HistoryIn(DbOf(f), f)
              /\ Companions(DbOf(f), f, IdOf[f])
<1> DEFINE Of(db) == {f \in documented : DbOf(f) = db}
<1>1. /\ documented \subseteq Files /\ Resident \subseteq documented
      /\ docs = [db \in Dbs |-> {DocOf(f) : f \in Of(db)}]
      /\ derived = [db \in Dbs |-> {[kind |-> k, id |-> IdOf[f], of |-> f] :
                                      k \in DerivedKinds, f \in Of(db)}]
      /\ registry = [db \in Dbs |-> {[uid |-> f, path |-> DocOf(f).path, docId |-> IdOf[f]] :
                                       f \in Of(db)}]
      /\ logs = [db \in Dbs |-> {[uid |-> f, kind |-> k] : f \in Of(db), k \in LogKinds}]
  BY FileToZoneAssumption DEF Init
<1>2. \A db : Of(db) \subseteq Files
  BY <1>1
<1>3. \A f \in Files : DocOf(f) \in DocRows /\ DocOf(f).of = f /\ DocOf(f).id = IdOf[f]
                       /\ DocOf(f).path \in Paths /\ IdOf[f] \in Nat
  BY DocsAre, FileToZoneAssumption DEF DocRows
<1>4. \A f \in documented : DbOf(f) \in Dbs /\ f \in Of(DbOf(f))
  BY DEF DbOf, Dbs
<1>5. ASSUME NEW db \in Dbs
      PROVE  /\ docs[db] = {DocOf(f) : f \in Of(db)}
             /\ derived[db] = {[kind |-> k, id |-> IdOf[f], of |-> f] :
                                 k \in DerivedKinds, f \in Of(db)}
             /\ registry[db] = {[uid |-> f, path |-> DocOf(f).path, docId |-> IdOf[f]] :
                                  f \in Of(db)}
             /\ logs[db] = {[uid |-> f, kind |-> k] : f \in Of(db), k \in LogKinds}
  BY <1>1
<1>6. \A db, f : f \in Of(db) => f \in documented /\ DbOf(f) = db
  OBVIOUS
<1> HIDE DEF Of
<1>7. docs \in [Dbs -> SUBSET DocRows]
  BY <1>1, <1>2, <1>3
<1>8. derived \in [Dbs -> SUBSET [kind : DerivedKinds, id : Nat, of : Files]]
  BY <1>1, <1>2, <1>3
<1>9. registry \in [Dbs -> SUBSET [uid : Files, path : Paths, docId : Nat]]
  BY <1>1, <1>2, <1>3
<1>10. logs \in [Dbs -> SUBSET [uid : Files, kind : LogKinds]]
  BY <1>1, <1>2
<1>11. ASSUME NEW db \in Dbs, NEW d \in docs[db]
       PROVE  d.of \in documented /\ DbOf(d.of) = db /\ d = DocOf(d.of)
  BY <1>2, <1>3, <1>5, <1>6
<1>12. ASSUME NEW db \in Dbs, NEW r \in registry[db]
       PROVE  /\ r.uid \in documented /\ DbOf(r.uid) = db
              /\ r.path = DocOf(r.uid).path /\ r.docId = IdOf[r.uid]
  BY <1>5, <1>6
<1>13. ASSUME NEW db \in Dbs, NEW r \in derived[db]
       PROVE  r.of \in documented /\ DbOf(r.of) = db /\ r.id = IdOf[r.of]
  BY <1>5, <1>6
<1>14. ASSUME NEW f \in documented
       PROVE  /\ DocOf(f) \in docs[DbOf(f)]
              /\ [uid |-> f, path |-> DocOf(f).path, docId |-> IdOf[f]] \in registry[DbOf(f)]
              /\ HistoryIn(DbOf(f), f)
              /\ Companions(DbOf(f), f, IdOf[f])
  <2>1. f \in Of(DbOf(f)) /\ DbOf(f) \in Dbs
    BY <1>4
  <2>2. [uid |-> f, path |-> DocOf(f).path, docId |-> IdOf[f]] \in registry[DbOf(f)]
    BY <2>1, <1>5
  <2>3. DocOf(f) \in docs[DbOf(f)]
    BY <2>1, <1>5
  <2>4. \A k \in LogKinds : [uid |-> f, kind |-> k] \in logs[DbOf(f)]
    BY <2>1, <1>5
  <2>5. \A k \in DerivedKinds : [kind |-> k, id |-> IdOf[f], of |-> f] \in derived[DbOf(f)]
    BY <2>1, <1>5
  <2>6. HistoryIn(DbOf(f), f)
    BY <2>2, <2>4 DEF HistoryIn
  <2>7. Companions(DbOf(f), f, IdOf[f])
    BY <2>5 DEF Companions, DerivedKinds
  <2> QED  BY <2>2, <2>3, <2>6, <2>7
<1> QED
  BY <1>1, <1>7, <1>8, <1>9, <1>10, <1>11, <1>12, <1>13, <1>14

-----------------------------------------------------------------------------
(* What every call knows of itself.                                          *)

LEMMA TypeInit == Init => TypeOK
<1> SUFFICES ASSUME Init PROVE TypeOK
  OBVIOUS
<1> USE FileToZoneAssumption
<1>1. home \subseteq Files
  BY DEF Init
<1>2. placed \in [Names -> Files \cup {Nothing, Partial}]
  <2>1. placed = [n \in Names |-> IF \E f \in Resident : NameOf[f] = n
                                  THEN CHOOSE f \in Resident : NameOf[f] = n ELSE Nothing]
    BY DEF Init
  <2>2. \A n \in Names : (\E f \in Resident : NameOf[f] = n) =>
                           (CHOOSE f \in Resident : NameOf[f] = n) \in Resident
    OBVIOUS
  <2> QED  BY <2>1, <2>2
<1>3. ASSUME NEW db \in Dbs, NEW d \in docs[db], NEW e \in docs[db], d.path = e.path \/ d.id = e.id
      PROVE  d = e
  <2>1. /\ d = DocOf(d.of) /\ d.of \in Files /\ DbOf(d.of) = db
        /\ e = DocOf(e.of) /\ e.of \in Files /\ DbOf(e.of) = db
    BY InitIs
  <2>2. d.of = e.of
    BY <2>1, <1>3, DocsAre, PathsAre DEF DbOf
  <2> QED  BY <2>1, <2>2
<1>4. ASSUME NEW db \in Dbs, NEW r \in registry[db], NEW q \in registry[db],
             r.path = q.path \/ r.uid = q.uid
      PROVE  r = q
  <2>1. /\ r.uid \in Files /\ DbOf(r.uid) = db /\ r.path = DocOf(r.uid).path
        /\ q.uid \in Files /\ DbOf(q.uid) = db /\ q.path = DocOf(q.uid).path
        /\ r.docId = IdOf[r.uid] /\ q.docId = IdOf[q.uid]
    BY InitIs
  <2>2. r.uid = q.uid
    BY <2>1, <1>4, DocsAre, PathsAre DEF DbOf
  <2>3. /\ r = [uid |-> r.uid, path |-> r.path, docId |-> r.docId]
        /\ q = [uid |-> q.uid, path |-> q.path, docId |-> q.docId]
    BY InitIs
  <2> QED  BY <2>1, <2>2, <2>3
<1>5. call \in [Callers -> [step : Steps, file : Files \cup {Nothing},
                          row : DocRows \cup {Nothing}, uid : Files \cup {Nothing},
                          kinds : SUBSET {"note", "embedding"}, logs : SUBSET LogKinds]]
  BY StepsAre DEF Init, Idle, Ended
<1>6. nextId \in Nat /\ active \in Dbs /\ holder \in Callers \cup {Nothing} /\ aside \in BOOLEAN
  BY DEF Init, Dbs
<1> QED
  BY <1>1, <1>2, <1>3, <1>4, <1>5, <1>6, InitIs DEF TypeOK

LEMMA CallsInit == Init => CallsInv
<1> SUFFICES ASSUME Init PROVE CallsInv
  OBVIOUS
<1>1. \A c \in Callers : CallOK(c)
  BY DEF Init, CallOK, At, Idle, Deleting, Unread
<1>2. Fresh
  <2> SUFFICES ASSUME NEW d \in docs["zone"] PROVE d.id < nextId
    BY DEF Fresh
  <2>1. d = DocOf(d.of) /\ d.of \in Files /\ DbOf(d.of) = "zone"
    BY InitIs DEF Dbs
  <2>2. d.of \in Resident /\ d.id = IdOf[d.of]
    BY <2>1, DocsAre DEF DbOf
  <2> QED  BY <2>2, FileToZoneAssumption DEF Init
<1> QED  BY <1>1, <1>2, TypeInit DEF CallsInv

CallRows ==
  [step : Steps, file : Files \cup {Nothing}, row : DocRows \cup {Nothing},
   uid : Files \cup {Nothing}, kinds : SUBSET {"note", "embedding"}, logs : SUBSET LogKinds]

(* A call goes on with what it has read.                                      *)
Alike(c) ==
  /\ call'[c].file = call[c].file /\ call'[c].row = call[c].row /\ call'[c].uid = call[c].uid
  /\ call'[c].kinds = call[c].kinds /\ call'[c].logs = call[c].logs

Moves(c, s) ==
  /\ call' \in [Callers -> CallRows]
  /\ call'[c].step = s /\ Alike(c)
  /\ \A e \in Callers \ {c} : call'[e] = call[e]

LEMMA GotoIs ==
  ASSUME TypeOK, NEW c \in Callers, NEW s \in Steps, Goto(c, s)
  PROVE  Moves(c, s)
<1>1. call \in [Callers -> CallRows]
  BY DEF TypeOK, CallRows
<1>2. call' = [call EXCEPT ![c] = [call[c] EXCEPT !.step = s]]
  BY <1>1 DEF Goto
<1>3. [call[c] EXCEPT !.step = s] \in CallRows
  BY <1>1 DEF CallRows
<1> DEFINE row == [call[c] EXCEPT !.step = s]
<1>4. /\ row.step = s /\ row.file = call[c].file /\ row.row = call[c].row
      /\ row.uid = call[c].uid /\ row.kinds = call[c].kinds /\ row.logs = call[c].logs
  BY <1>1 DEF CallRows
<1> HIDE DEF row
<1>5. call'[c] = row /\ \A e \in Callers \ {c} : call'[e] = call[e]
  BY <1>1, <1>2 DEF row
<1>6. call' \in [Callers -> CallRows]
  BY <1>1, <1>2, <1>3
<1> QED  BY <1>4, <1>5, <1>6 DEF Moves, Alike

(* The call of one caller moves within its own lines.                         *)
LEMMA CallMoves ==
  ASSUME CallsInv, NEW c \in Callers, NEW s \in Steps, Moves(c, s),
         ~At(c, "idle"), s \notin Unread,
         s \in Deleting \cup {"committing"} => call[c].row # Nothing,
         s \in Deleting => holder' = c,
         \A e \in Callers \ {c} : call[e].step \in Deleting => holder' = e
  PROVE  /\ \A e \in Callers : CallOK(e)'
         /\ call' \in [Callers -> CallRows]
<1>1. CallOK(c)'
  BY DEF CallsInv, CallOK, At, Moves, Alike, Unread
<1>2. ASSUME NEW e \in Callers, e # c PROVE CallOK(e)'
  BY <1>2 DEF CallsInv, CallOK, At, Moves
<1> QED  BY <1>1, <1>2 DEF Moves

(* One call at a time deletes.                                                *)
LEMMA HolderIs ==
  ASSUME CallsInv
  PROVE  /\ holder = Nothing => \A c \in Callers : call[c].step \notin Deleting
         /\ \A c, d \in Callers : call[c].step \in Deleting /\ c # d =>
              call[d].step \notin Deleting
BY FileToZoneAssumption DEF CallsInv, CallOK

(* A step that leaves the tables alone.                                       *)
LEMMA QuietTypes ==
  ASSUME CallsInv, UNCHANGED <<tables, documented>>,
         home' \subseteq Files, placed' \in [Names -> Files \cup {Nothing, Partial}],
         active' \in Dbs, holder' \in Callers \cup {Nothing}, aside' \in BOOLEAN,
         call' \in [Callers -> CallRows], \A c \in Callers : CallOK(c)'
  PROVE  CallsInv'
<1>1. TypeOK'
  BY DEF CallsInv, TypeOK, CallRows, tables
<1>2. Fresh'
  BY DEF CallsInv, Fresh, tables
<1> QED  BY <1>1, <1>2 DEF CallsInv

(* A deletion: the call that holds the lock goes on, and may let go of it.    *)
LEMMA DeletesCalls ==
  ASSUME CallsInv, NEW c \in Callers, call[c].step \in Deleting,
         NEW s \in Deleting \cup {"ok"}, Goto(c, s),
         s \in Deleting => UNCHANGED holder,
         UNCHANGED <<disk, active, aside, documented, nextId>>,
         holder' \in Callers \cup {Nothing},
         docs' \in [Dbs -> SUBSET DocRows], \A db \in Dbs : docs'[db] \subseteq docs[db],
         derived' \in [Dbs -> SUBSET [kind : DerivedKinds, id : Nat, of : Files]],
         registry' \in [Dbs -> SUBSET [uid : Files, path : Paths, docId : Nat]],
         \A db \in Dbs : \A r, q \in registry'[db] : r.path = q.path \/ r.uid = q.uid => r = q,
         logs' \in [Dbs -> SUBSET [uid : Files, kind : LogKinds]]
  PROVE  CallsInv'
<1>1. s \in Steps /\ s \notin Unread /\ s # "committing" /\ ~At(c, "idle")
  BY DEF Steps, Ended, Deleting, At, Unread
<1>2. Moves(c, s)
  BY <1>1, GotoIs DEF CallsInv
<1>3. \A e \in Callers \ {c} : call[e].step \notin Deleting
  BY HolderIs
<1>4. call[c].row # Nothing /\ holder = c
  BY DEF CallsInv, CallOK
<1>5. (\A e \in Callers : CallOK(e)') /\ call' \in [Callers -> CallRows]
  BY <1>1, <1>2, <1>3, <1>4, CallMoves
<1>6. \A db \in Dbs : \A d, e \in docs'[db] : d.path = e.path \/ d.id = e.id => d = e
  BY DEF CallsInv, TypeOK
<1>7. TypeOK'
  BY <1>5, <1>6 DEF CallsInv, TypeOK, CallRows, disk
<1>8. Fresh'
  BY DEF CallsInv, Fresh, Dbs
<1> QED  BY <1>5, <1>7, <1>8 DEF CallsInv

LEMMA BeginCalls ==
  ASSUME CallsInv, NEW c \in Callers, NEW f \in Files, Begin(c, f)
  PROVE  CallsInv'
<1> DEFINE row == [Idle EXCEPT !.step = "reading", !.file = f]
<1>1. row \in CallRows /\ row.step = "reading" /\ row.file = f /\ row.row = Nothing
  BY StepsAre DEF Idle, CallRows
<1>2. call \in [Callers -> CallRows]
  BY DEF CallsInv, TypeOK, CallRows
<1>3. call' = [call EXCEPT ![c] = row]
  BY DEF Begin
<1> HIDE DEF row
<1>4. call' \in [Callers -> CallRows] /\ call'[c] = row /\ \A e \in Callers \ {c} : call'[e] = call[e]
  BY <1>1, <1>2, <1>3
<1>5. CallOK(c)'
  BY <1>1, <1>4 DEF CallOK, At, Deleting, Unread
<1>6. \A e \in Callers \ {c} : CallOK(e)'
  BY <1>4 DEF Begin, CallsInv, CallOK, At
<1> QED
  BY <1>4, <1>5, <1>6, QuietTypes DEF Begin, CallsInv, TypeOK, disk, bounds

(* What a call reads is a row of the global database.                         *)
LEMMA ReadIs ==
  ASSUME CallsInv, NEW c \in Callers, Read(c)
  PROVE  /\ call' \in [Callers -> CallRows]
         /\ call'[c].step = "moving" /\ call'[c].file = call[c].file
         /\ \A e \in Callers \ {c} : call'[e] = call[e]
         /\ \/ Alike(c) /\ UNCHANGED aside
            \/ /\ call'[c].row \in docs["global"] /\ call'[c].row.path = Home(call[c].file)
               /\ \/ Uids(call'[c].row) = {} /\ call'[c].uid = Nothing
                  \/ call'[c].uid \in Uids(call'[c].row)
               /\ call'[c].kinds =
                    {r.kind : r \in {q \in derived["global"] : q.id = call'[c].row.id}}
                      \cap {"note", "embedding"}
               /\ call'[c].logs = {l.kind : l \in {q \in logs[active] : q.uid = call'[c].uid}}
               /\ aside' = (aside \/ active # "global")
<1> DEFINE rows == {d \in docs["global"] : d.path = Home(call[c].file)}
<1>1. call \in [Callers -> CallRows]
  BY DEF CallsInv, TypeOK, CallRows
<1>2. CASE rows = {} /\ Goto(c, "moving") /\ UNCHANGED aside
  <2>1. Moves(c, "moving")
    BY <1>2, GotoIs, StepsAre DEF CallsInv
  <2> QED  BY <2>1, <1>2 DEF Moves, Alike
<1>3. ASSUME NEW row \in rows, NEW uid \in IF Uids(row) = {} THEN {Nothing} ELSE Uids(row),
             call' = [call EXCEPT ![c] =
                 [@ EXCEPT !.step = "moving", !.row = row, !.uid = uid,
                    !.kinds = {r.kind : r \in {q \in derived["global"] : q.id = row.id}}
                                \cap {"note", "embedding"},
                    !.logs = {l.kind : l \in {q \in logs[active] : q.uid = uid}}]],
             aside' = (aside \/ active # "global")
      PROVE  /\ call' \in [Callers -> CallRows]
             /\ call'[c].step = "moving" /\ call'[c].file = call[c].file
             /\ \A e \in Callers \ {c} : call'[e] = call[e]
             /\ /\ call'[c].row \in docs["global"] /\ call'[c].row.path = Home(call[c].file)
                /\ \/ Uids(call'[c].row) = {} /\ call'[c].uid = Nothing
                   \/ call'[c].uid \in Uids(call'[c].row)
                /\ call'[c].kinds =
                     {r.kind : r \in {q \in derived["global"] : q.id = call'[c].row.id}}
                       \cap {"note", "embedding"}
                /\ call'[c].logs = {l.kind : l \in {q \in logs[active] : q.uid = call'[c].uid}}
                /\ aside' = (aside \/ active # "global")
  <2> DEFINE kinds == {r.kind : r \in {q \in derived["global"] : q.id = row.id}}
                         \cap {"note", "embedding"}
             kept == {l.kind : l \in {q \in logs[active] : q.uid = uid}}
             read == [call[c] EXCEPT !.step = "moving", !.row = row, !.uid = uid,
                                     !.kinds = kinds, !.logs = kept]
  <2>1. row \in DocRows /\ row \in docs["global"] /\ row.path = Home(call[c].file)
    BY DEF CallsInv, TypeOK, Dbs
  <2>2. uid \in Files \cup {Nothing}
    <3>1. Uids(row) \subseteq Files
      <4>1. registry[active] \subseteq [uid : Files, path : Paths, docId : Nat]
        BY DEF CallsInv, TypeOK
      <4> QED  BY <4>1 DEF Uids
    <3> QED  BY <3>1
  <2>3. kept \subseteq LogKinds
    <3>1. logs[active] \subseteq [uid : Files, kind : LogKinds]
      BY DEF CallsInv, TypeOK
    <3> QED  BY <3>1
  <2>4. kinds \subseteq {"note", "embedding"}
    OBVIOUS
  <2>5. call' = [call EXCEPT ![c] = read]
    BY <1>3
  <2> HIDE DEF kinds, kept
  <2>6. /\ read \in CallRows /\ read.step = "moving" /\ read.file = call[c].file
        /\ read.row = row /\ read.uid = uid /\ read.kinds = kinds /\ read.logs = kept
    BY <1>1, <2>1, <2>2, <2>3, <2>4, StepsAre DEF CallRows
  <2> HIDE DEF read
  <2>7. call' \in [Callers -> CallRows] /\ call'[c] = read /\ \A e \in Callers \ {c} : call'[e] = call[e]
    BY <1>1, <2>5, <2>6
  <2>8. \/ Uids(row) = {} /\ uid = Nothing
        \/ uid \in Uids(row)
    OBVIOUS
  <2>9. /\ call'[c].step = "moving" /\ call'[c].file = call[c].file
        /\ call'[c].row = row /\ call'[c].uid = uid
        /\ call'[c].kinds = kinds /\ call'[c].logs = kept
    BY <2>6, <2>7
  <2>10. /\ kinds = {r.kind : r \in {q \in derived["global"] : q.id = call'[c].row.id}}
                       \cap {"note", "embedding"}
         /\ kept = {l.kind : l \in {q \in logs[active] : q.uid = call'[c].uid}}
    BY <2>9 DEF kinds, kept
  <2>11. \/ Uids(call'[c].row) = {} /\ call'[c].uid = Nothing
         \/ call'[c].uid \in Uids(call'[c].row)
    <3>1. Uids(call'[c].row) = Uids(row)
      BY <2>9
    <3> QED  BY <2>8, <2>9, <3>1
  <2> QED  BY <1>3, <2>1, <2>7, <2>9, <2>10, <2>11
<1>4. \/ rows = {} /\ Goto(c, "moving") /\ UNCHANGED aside
      \/ \E row \in rows :
           /\ \E uid \in IF Uids(row) = {} THEN {Nothing} ELSE Uids(row) :
                call' = [call EXCEPT ![c] =
                 [@ EXCEPT !.step = "moving", !.row = row, !.uid = uid,
                    !.kinds = {r.kind : r \in {q \in derived["global"] : q.id = row.id}}
                                \cap {"note", "embedding"},
                    !.logs = {l.kind : l \in {q \in logs[active] : q.uid = uid}}]]
           /\ aside' = (aside \/ active # "global")
  BY DEF Read
<1> QED  BY <1>2, <1>3, <1>4

LEMMA ReadCalls ==
  ASSUME CallsInv, NEW c \in Callers, Read(c)
  PROVE  CallsInv'
<1>1. CallOK(c)'
  BY ReadIs DEF Read, CallsInv, CallOK, At, Deleting, Unread
<1>2. \A e \in Callers \ {c} : CallOK(e)'
  BY ReadIs DEF Read, CallsInv, CallOK, At
<1>3. aside' \in BOOLEAN
  BY ReadIs DEF CallsInv, TypeOK
<1> QED
  BY <1>1, <1>2, <1>3, ReadIs, QuietTypes DEF Read, CallsInv, TypeOK, disk, bounds

(* A step of a call that only moves files.                                    *)
LEMMA FilesCalls ==
  ASSUME CallsInv, NEW c \in Callers, NEW s \in Steps, Goto(c, s),
         call[c].step \notin Ended \cup Deleting, s \notin Deleting \cup Unread,
         s = "committing" => call[c].row # Nothing,
         UNCHANGED <<tables, documented, active, holder, aside>>,
         home' \subseteq Files, placed' \in [Names -> Files \cup {Nothing, Partial}]
  PROVE  CallsInv'
<1>1. Moves(c, s)
  BY GotoIs DEF CallsInv
<1>2. ~At(c, "idle") /\ \A e \in Callers \ {c} : call[e].step \in Deleting => holder' = e
  BY DEF CallsInv, CallOK, At, Ended
<1>3. (\A e \in Callers : CallOK(e)') /\ call' \in [Callers -> CallRows]
  BY <1>1, <1>2, CallMoves
<1> QED
  BY <1>3, QuietTypes DEF CallsInv, TypeOK

LEMMA CommitCalls ==
  ASSUME CallsInv, NEW c \in Callers, Commit(c)
  PROVE  CallsInv'
<1> DEFINE old == {d.id : d \in ReplacedDocs(c)}
           gone == ReplacedRegistry(c)
           f == call[c].file
           uid == call[c].uid
           doc == [path |-> In(Target(c)), id |-> nextId, of |-> f]
           row == [uid |-> uid, path |-> In(Target(c)), docId |-> nextId]
<1>1. f \in Files /\ uid \in Files \cup {Nothing} /\ call[c].kinds \subseteq {"note", "embedding"}
      /\ call[c].logs \subseteq LogKinds /\ nextId \in Nat /\ In(Target(c)) \in Paths
  BY PathsAre DEF CallsInv, CallOK, TypeOK, Commit, At, Target
<1>2. "zone" \in Dbs
  BY DEF Dbs
<1>3. /\ docs' = [docs EXCEPT !["zone"] = (@ \ ReplacedDocs(c)) \cup {doc}]
      /\ derived' = [derived EXCEPT !["zone"] = ChunksWithout("zone", old) \cup CopiedDerived(c)]
      /\ nextId' = nextId + 1 /\ holder' = c /\ aside' = (aside \/ active # "global")
      /\ Goto(c, "document") /\ UNCHANGED <<disk, active, bounds>>
  BY DEF Commit
<1>4. \/ /\ uid = Nothing
         /\ registry' = [registry EXCEPT !["zone"] = Released("zone", old)]
         /\ UNCHANGED logs
      \/ /\ uid # Nothing
         /\ registry' = [registry EXCEPT !["zone"] =
              {r \in Released("zone", old) : r.uid \notin {g.uid : g \in gone}} \cup {row}]
         /\ logs' = [logs EXCEPT !["zone"] =
              LogsWithout("zone", {g.uid : g \in gone}) \cup CopiedLogs(c)]
  BY DEF Commit
<1>5. CallsInv /\ holder = Nothing /\ call[c].step = "committing"
  BY DEF Commit, At
<1> DEFINE kept == {r \in Released("zone", old) : r.uid \notin {g.uid : g \in gone}}
<1>6. /\ docs'["zone"] = (docs["zone"] \ ReplacedDocs(c)) \cup {doc}
      /\ \A db \in Dbs : db # "zone" => docs'[db] = docs[db]
      /\ docs' \in [Dbs -> SUBSET DocRows]
  <2>1. doc \in DocRows
    BY <1>1 DEF DocRows
  <2>2. docs \in [Dbs -> SUBSET DocRows]
    BY DEF CallsInv, TypeOK
  <2> HIDE DEF doc
  <2> QED  BY <1>2, <1>3, <2>1, <2>2
<1>7. \A db \in Dbs : \A d, e \in docs'[db] : d.path = e.path \/ d.id = e.id => d = e
  <2>1. \A db \in Dbs : \A d, e \in docs[db] : d.path = e.path \/ d.id = e.id => d = e
    BY DEF CallsInv, TypeOK
  <2>2. doc.path = In(Target(c)) /\ doc.id = nextId
    OBVIOUS
  <2>3. \A d \in docs["zone"] \ ReplacedDocs(c) : d.path # doc.path /\ d.id # doc.id
    <3> SUFFICES ASSUME NEW d \in docs["zone"] \ ReplacedDocs(c)
                 PROVE  d.path # doc.path /\ d.id # doc.id
      OBVIOUS
    <3>1. d.id < nextId /\ d.id \in Nat
      BY <1>2 DEF CallsInv, Fresh, TypeOK, DocRows
    <3> QED  BY <1>1, <2>2, <3>1 DEF ReplacedDocs
  <2> HIDE DEF doc
  <2> QED  BY <1>2, <1>6, <2>1, <2>3
<1>8. Fresh'
  <2> SUFFICES ASSUME NEW d \in docs'["zone"] PROVE d.id < nextId'
    BY DEF Fresh
  <2>1. CASE d = doc
    BY <2>1, <1>1, <1>3
  <2>2. CASE d \in docs["zone"]
    <3>1. d.id < nextId /\ d.id \in Nat
      BY <1>2, <2>2 DEF CallsInv, Fresh, TypeOK, DocRows
    <3> QED  BY <3>1, <1>1, <1>3
  <2> QED  BY <2>1, <2>2, <1>6
<1>9. derived' \in [Dbs -> SUBSET [kind : DerivedKinds, id : Nat, of : Files]]
  <2>1. CopiedDerived(c) \subseteq [kind : DerivedKinds, id : Nat, of : Files]
    BY <1>1 DEF CopiedDerived, DerivedKinds
  <2>2. ChunksWithout("zone", old) \subseteq derived["zone"]
    BY DEF ChunksWithout
  <2>3. derived \in [Dbs -> SUBSET [kind : DerivedKinds, id : Nat, of : Files]]
    BY DEF CallsInv, TypeOK
  <2> HIDE DEF old
  <2> QED  BY <1>2, <1>3, <2>1, <2>2, <2>3
<1>10. /\ registry' \in [Dbs -> SUBSET [uid : Files, path : Paths, docId : Nat]]
       /\ logs' \in [Dbs -> SUBSET [uid : Files, kind : LogKinds]]
       /\ \A db \in Dbs : \A r, q \in registry'[db] : r.path = q.path \/ r.uid = q.uid => r = q
  <2>1. registry \in [Dbs -> SUBSET [uid : Files, path : Paths, docId : Nat]]
        /\ logs \in [Dbs -> SUBSET [uid : Files, kind : LogKinds]]
    BY DEF CallsInv, TypeOK
  <2>2. \A db \in Dbs : \A r, q \in registry[db] : r.path = q.path \/ r.uid = q.uid => r = q
    BY DEF CallsInv, TypeOK
  <2> HIDE DEF old
  <2>3. /\ Released("zone", old) \subseteq [uid : Files, path : Paths, docId : Nat]
        /\ \A r, q \in Released("zone", old) : r.path = q.path \/ r.uid = q.uid => r = q
        /\ \A r \in Released("zone", old) : \E q \in registry["zone"] :
             r.uid = q.uid /\ r.path = q.path
    <3>1. TypeOK
      BY DEF CallsInv
    <3> QED  BY <1>2, <3>1, ReleasedIs
  <2>4. CASE uid = Nothing
    <3>1. registry' = [registry EXCEPT !["zone"] = Released("zone", old)] /\ logs' = logs
      BY <2>4, <1>4
    <3> QED  BY <3>1, <1>2, <2>1, <2>2, <2>3
  <2>5. CASE uid # Nothing
    <3>1. /\ registry' = [registry EXCEPT !["zone"] = kept \cup {row}]
          /\ logs' = [logs EXCEPT !["zone"] =
              LogsWithout("zone", {g.uid : g \in gone}) \cup CopiedLogs(c)]
      BY <2>5, <1>4
    <3>2. uid \in Files
      BY <2>5, <1>1
    <3>3. row \in [uid : Files, path : Paths, docId : Nat] /\ row.uid = uid /\ row.path = In(Target(c))
      BY <1>1, <3>2
    <3>4. CopiedLogs(c) \subseteq [uid : Files, kind : LogKinds]
      BY <1>1, <3>2 DEF CopiedLogs
    <3>5. LogsWithout("zone", {g.uid : g \in gone}) \subseteq logs["zone"]
      BY DEF LogsWithout
    <3>6. logs' \in [Dbs -> SUBSET [uid : Files, kind : LogKinds]]
      BY <3>1, <3>4, <3>5, <2>1, <1>2
    <3>7. ASSUME NEW r \in kept PROVE r.uid # row.uid /\ r.path # row.path
      <4>1. PICK q \in registry["zone"] : r.uid = q.uid /\ r.path = q.path
        BY <2>3
      <4>2. q \notin gone
        BY <4>1
      <4> QED  BY <4>1, <4>2, <3>3 DEF ReplacedRegistry
    <3>8. kept \subseteq Released("zone", old)
      OBVIOUS
    <3> HIDE DEF row, kept
    <3>9. registry' \in [Dbs -> SUBSET [uid : Files, path : Paths, docId : Nat]]
      BY <3>1, <3>3, <3>8, <2>1, <2>3, <1>2
    <3>10. registry'["zone"] = kept \cup {row} /\ \A db \in Dbs : db # "zone" => registry'[db] = registry[db]
      BY <3>1, <2>1, <1>2
    <3>11. ASSUME NEW r \in kept \cup {row}, NEW q \in kept \cup {row}, r.path = q.path \/ r.uid = q.uid
           PROVE  r = q
      BY <3>11, <3>7, <3>8, <2>3
    <3> QED  BY <3>6, <3>9, <3>10, <3>11, <2>2
  <2> QED  BY <2>4, <2>5
<1>11. (\A e \in Callers : CallOK(e)') /\ call' \in [Callers -> CallRows]
  <2>1. "document" \in Steps /\ "document" \in Deleting /\ "document" \notin Unread
    BY DEF Steps, Deleting, Unread
  <2>2. Moves(c, "document")
    BY <1>3, <2>1, GotoIs DEF CallsInv
  <2>3. \A e \in Callers : call[e].step \notin Deleting
    BY <1>5, HolderIs
  <2>4. ~At(c, "idle") /\ call[c].row # Nothing
    BY <1>5 DEF CallsInv, CallOK, At
  <2> QED  BY <1>3, <2>1, <2>2, <2>3, <2>4, CallMoves
<1>12. TypeOK'
  <2>1. /\ home' \subseteq Files /\ placed' \in [Names -> Files \cup {Nothing, Partial}]
        /\ nextId' \in Nat /\ active' \in Dbs /\ holder' \in Callers \cup {Nothing}
        /\ aside' \in BOOLEAN /\ documented' \subseteq Files
    BY <1>1, <1>3 DEF CallsInv, TypeOK, disk, bounds
  <2> QED  BY <2>1, <1>6, <1>7, <1>9, <1>10, <1>11 DEF TypeOK, CallRows
<1> QED  BY <1>8, <1>11, <1>12 DEF CallsInv

(* The tables as the deletions find them.                                     *)
LEMMA TablesAre ==
  ASSUME TypeOK
  PROVE  /\ docs \in [Dbs -> SUBSET DocRows]
         /\ derived \in [Dbs -> SUBSET [kind : DerivedKinds, id : Nat, of : Files]]
         /\ registry \in [Dbs -> SUBSET [uid : Files, path : Paths, docId : Nat]]
         /\ logs \in [Dbs -> SUBSET [uid : Files, kind : LogKinds]]
         /\ \A db \in Dbs : \A r, q \in registry[db] : r.path = q.path \/ r.uid = q.uid => r = q
         /\ active \in Dbs /\ holder \in Callers \cup {Nothing}
BY DEF TypeOK

LEMMA DeleteDocumentCalls ==
  ASSUME CallsInv, NEW c \in Callers, DeleteDocument(c)
  PROVE  CallsInv'
<1> DEFINE id == call[c].row.id
<1>1. "global" \in Dbs /\ "document" \in Deleting /\ "note" \in Deleting /\ call[c].step \in Deleting
  BY DEF Dbs, Deleting, DeleteDocument, At
<1>2. /\ docs' = [docs EXCEPT !["global"] = {d \in @ : d.id # id}]
      /\ derived' = [derived EXCEPT !["global"] = ChunksWithout("global", {id})]
      /\ registry' = [registry EXCEPT !["global"] = Released("global", {id})]
      /\ Goto(c, "note")
      /\ UNCHANGED <<disk, nextId, logs, active, holder, aside, bounds>>
  BY DEF DeleteDocument
<1>3. TypeOK
  BY DEF CallsInv
<1> HIDE DEF id
<1>4. ChunksWithout("global", {id}) \subseteq derived["global"]
  BY DEF ChunksWithout
<1>5. docs' \in [Dbs -> SUBSET DocRows] /\ \A db \in Dbs : docs'[db] \subseteq docs[db]
  BY <1>1, <1>2, <1>3, TablesAre
<1>6. derived' \in [Dbs -> SUBSET [kind : DerivedKinds, id : Nat, of : Files]]
  BY <1>1, <1>2, <1>3, <1>4, TablesAre
<1>7. /\ Released("global", {id}) \subseteq [uid : Files, path : Paths, docId : Nat]
      /\ \A r, q \in Released("global", {id}) : r.path = q.path \/ r.uid = q.uid => r = q
  BY <1>1, <1>3, ReleasedIs
<1>8. /\ registry' \in [Dbs -> SUBSET [uid : Files, path : Paths, docId : Nat]]
      /\ \A db \in Dbs : \A r, q \in registry'[db] : r.path = q.path \/ r.uid = q.uid => r = q
  BY <1>1, <1>2, <1>3, <1>7, TablesAre
<1> QED
  BY <1>1, <1>2, <1>3, <1>5, <1>6, <1>8, TablesAre, DeletesCalls DEF bounds

LEMMA DeleteDerivedCalls ==
  ASSUME CallsInv, NEW c \in Callers, NEW kind \in Deleting, NEW next \in Deleting,
         DeleteDerived(c, kind, next)
  PROVE  CallsInv'
<1>1. "global" \in Dbs /\ call[c].step \in Deleting
  BY DEF Dbs, DeleteDerived, At
<1>2. TypeOK
  BY DEF CallsInv
<1>3. /\ derived' = [derived EXCEPT !["global"] =
                       {r \in @ : r.kind # kind \/ r.id # call[c].row.id}]
      /\ Goto(c, next)
      /\ UNCHANGED <<disk, docs, nextId, registry, logs, active, holder, aside, bounds>>
  BY DEF DeleteDerived
<1>4. derived' \in [Dbs -> SUBSET [kind : DerivedKinds, id : Nat, of : Files]]
  BY <1>1, <1>2, <1>3, TablesAre
<1> QED
  BY <1>1, <1>2, <1>3, <1>4, TablesAre, DeletesCalls DEF bounds

LEMMA EndWithoutRegistryCalls ==
  ASSUME CallsInv, NEW c \in Callers, EndWithoutRegistry(c)
  PROVE  CallsInv'
<1>1. call[c].step \in Deleting /\ Goto(c, "ok") /\ holder' = Nothing
      /\ UNCHANGED <<disk, tables, active, aside, bounds>>
  BY DEF EndWithoutRegistry, At, Deleting
<1>2. TypeOK /\ "ok" \notin Deleting
  BY DEF CallsInv, Deleting
<1> QED
  BY <1>1, <1>2, TablesAre, DeletesCalls DEF tables, bounds

LEMMA DeleteLogCalls ==
  ASSUME CallsInv, NEW c \in Callers, NEW kind \in Deleting, NEW next \in Deleting,
         DeleteLog(c, kind, next)
  PROVE  CallsInv'
<1>1. call[c].step \in Deleting
  BY DEF DeleteLog, At
<1>2. TypeOK
  BY DEF CallsInv
<1>3. /\ logs' = [logs EXCEPT ![active] = @ \ {[uid |-> call[c].uid, kind |-> kind]}]
      /\ Goto(c, next)
      /\ UNCHANGED <<disk, docs, nextId, derived, registry, active, holder, aside, bounds>>
  BY DEF DeleteLog
<1>4. logs' \in [Dbs -> SUBSET [uid : Files, kind : LogKinds]]
  BY <1>2, <1>3, TablesAre
<1> QED
  BY <1>1, <1>2, <1>3, <1>4, TablesAre, DeletesCalls DEF bounds

LEMMA DeleteRegistryCalls ==
  ASSUME CallsInv, NEW c \in Callers, DeleteRegistry(c)
  PROVE  CallsInv'
<1>1. call[c].step \in Deleting /\ "ok" \notin Deleting
  BY DEF DeleteRegistry, At, Deleting
<1>2. TypeOK
  BY DEF CallsInv
<1>3. /\ registry' = [registry EXCEPT ![active] = {r \in @ : r.uid # call[c].uid}]
      /\ logs' = [logs EXCEPT ![active] = LogsWithout(active, {call[c].uid})]
      /\ holder' = Nothing /\ Goto(c, "ok")
      /\ UNCHANGED <<disk, docs, nextId, derived, active, aside, bounds>>
  BY DEF DeleteRegistry
<1>4. LogsWithout(active, {call[c].uid}) \subseteq logs[active]
  BY DEF LogsWithout
<1>5. logs' \in [Dbs -> SUBSET [uid : Files, kind : LogKinds]]
  BY <1>2, <1>3, <1>4, TablesAre
<1>6. /\ registry' \in [Dbs -> SUBSET [uid : Files, path : Paths, docId : Nat]]
      /\ \A db \in Dbs : \A r, q \in registry'[db] : r.path = q.path \/ r.uid = q.uid => r = q
  BY <1>2, <1>3, TablesAre
<1> QED
  BY <1>1, <1>2, <1>3, <1>5, <1>6, TablesAre, DeletesCalls DEF bounds

(* A call that was under way is dead after a crash, and halfway if it had     *)
(* written its rows.                                                          *)
LEMMA CrashIs ==
  ASSUME CallsInv, Crash
  PROVE  /\ call' \in [Callers -> CallRows]
         /\ \A c \in Callers :
              /\ Alike(c)
              /\ call[c].step \in Ended => call'[c].step = call[c].step
              /\ call[c].step \in Deleting => call'[c].step = "halfway"
              /\ call[c].step \notin Ended \cup Deleting => call'[c].step = "dead"
<1> DEFINE after(c) == [call[c] EXCEPT !.step = IF @ \in Deleting THEN "halfway" ELSE "dead"]
<1>1. call \in [Callers -> CallRows]
  BY DEF CallsInv, TypeOK, CallRows
<1>2. call' = [c \in Callers |-> IF call[c].step \in Ended THEN call[c] ELSE after(c)]
  BY DEF Crash
<1>3. ASSUME NEW c \in Callers
      PROVE  /\ after(c) \in CallRows /\ after(c).file = call[c].file /\ after(c).row = call[c].row
             /\ after(c).uid = call[c].uid /\ after(c).kinds = call[c].kinds
             /\ after(c).logs = call[c].logs
             /\ after(c).step = IF call[c].step \in Deleting THEN "halfway" ELSE "dead"
  BY <1>1, StepsAre DEF CallRows, Ended
<1> HIDE DEF after
<1>4. ASSUME NEW c \in Callers
      PROVE  call'[c] = IF call[c].step \in Ended THEN call[c] ELSE after(c)
  BY <1>2
<1>5. call' \in [Callers -> CallRows]
  BY <1>1, <1>2, <1>3
<1>6. Ended \cap Deleting = {}
  BY DEF Ended, Deleting
<1>7. ASSUME NEW c \in Callers
      PROVE  /\ Alike(c)
             /\ call[c].step \in Ended => call'[c].step = call[c].step
             /\ call[c].step \in Deleting => call'[c].step = "halfway"
             /\ call[c].step \notin Ended \cup Deleting => call'[c].step = "dead"
  BY <1>3, <1>4, <1>6 DEF Alike
<1> QED  BY <1>5, <1>7

LEMMA CrashCalls == ASSUME CallsInv, Crash PROVE CallsInv'
<1>1. \A c \in Callers : CallOK(c)'
  <2> SUFFICES ASSUME NEW c \in Callers PROVE CallOK(c)'
    OBVIOUS
  <2>1. CallOK(c)
    BY DEF CallsInv
  <2> QED  BY <2>1, CrashIs DEF CallOK, At, Alike, Ended, Deleting, Unread
<1> QED
  BY <1>1, CrashIs, QuietTypes DEF Crash, CallsInv, TypeOK, disk, Dbs

LEMMA CallsStep == CallsInv /\ [Next]_vars => CallsInv'
<1> SUFFICES ASSUME CallsInv, [Next]_vars PROVE CallsInv'
  OBVIOUS
<1> USE DEF Ended, Deleting, Unread
<1>0. /\ home \subseteq Files /\ placed \in [Names -> Files \cup {Nothing, Partial}]
      /\ active \in Dbs /\ holder \in Callers \cup {Nothing} /\ aside \in BOOLEAN
      /\ call \in [Callers -> CallRows] /\ \A c \in Callers : CallOK(c)
  BY DEF CallsInv, TypeOK, CallRows
<1>1. ASSUME NEW c \in Callers, Rename(c) PROVE CallsInv'
  <2>1. Goto(c, "opening") /\ "opening" \in Steps /\ call[c].step = "moving"
        /\ UNCHANGED <<tables, documented, active, holder, aside>>
    BY <1>1 DEF Rename, Steps, At, bounds
  <2>2. home' \subseteq Files /\ placed' \in [Names -> Files \cup {Nothing, Partial}]
    BY <1>0, <1>1 DEF Rename
  <2> QED  BY <2>1, <2>2, FilesCalls
<1>2. ASSUME NEW c \in Callers, RenameFails(c) PROVE CallsInv'
  <2>1. Goto(c, "copying") /\ "copying" \in Steps /\ call[c].step = "moving"
        /\ UNCHANGED <<disk, tables, documented, active, holder, aside>>
    BY <1>2 DEF RenameFails, Steps, At, bounds
  <2> QED  BY <1>0, <2>1, FilesCalls DEF disk
<1>3. ASSUME NEW c \in Callers, Copy(c) PROVE CallsInv'
  <2>1. Goto(c, "unlinking") /\ "unlinking" \in Steps /\ call[c].step = "copying"
        /\ UNCHANGED <<tables, documented, active, holder, aside>>
    BY <1>3 DEF Copy, Steps, At, bounds
  <2>2. home' \subseteq Files /\ placed' \in [Names -> Files \cup {Nothing, Partial}]
    BY <1>0, <1>3 DEF Copy
  <2> QED  BY <2>1, <2>2, FilesCalls
<1>4. ASSUME NEW c \in Callers, CopyFails(c) PROVE CallsInv'
  <2>1. Goto(c, "failed") /\ "failed" \in Steps /\ call[c].step = "copying"
        /\ UNCHANGED <<tables, documented, active, holder, aside>>
    BY <1>4 DEF CopyFails, Steps, At, bounds
  <2>2. home' \subseteq Files /\ placed' \in [Names -> Files \cup {Nothing, Partial}]
    BY <1>0, <1>4 DEF CopyFails
  <2> QED  BY <2>1, <2>2, FilesCalls
<1>5. ASSUME NEW c \in Callers, Unlink(c) PROVE CallsInv'
  <2>1. Goto(c, "opening") /\ "opening" \in Steps /\ call[c].step = "unlinking"
        /\ UNCHANGED <<tables, documented, active, holder, aside>>
    BY <1>5 DEF Unlink, Steps, At, bounds
  <2>2. home' \subseteq Files /\ placed' \in [Names -> Files \cup {Nothing, Partial}]
    BY <1>0, <1>5 DEF Unlink
  <2> QED  BY <2>1, <2>2, FilesCalls
<1>6. ASSUME NEW c \in Callers, OpenZoneDb(c) PROVE CallsInv'
  <2>1. /\ call[c].step = "opening"
        /\ UNCHANGED <<disk, tables, documented, active, holder, aside>>
        /\ \/ Goto(c, "failed") \/ Goto(c, "ok")
           \/ Goto(c, "committing") /\ call[c].row # Nothing
    BY <1>6 DEF OpenZoneDb, At, bounds
  <2>2. {"failed", "ok", "committing"} \subseteq Steps
    BY DEF Steps
  <2> QED  BY <1>0, <2>1, <2>2, FilesCalls DEF disk
<1>7. ASSUME NEW c \in Callers, CommitFails(c) PROVE CallsInv'
  <2>1. Goto(c, "failed") /\ "failed" \in Steps /\ call[c].step = "committing"
        /\ UNCHANGED <<disk, tables, documented, active, holder, aside>>
    BY <1>7 DEF CommitFails, Steps, At, bounds
  <2> QED  BY <1>0, <2>1, FilesCalls DEF disk
<1>8. ASSUME NEW db \in Dbs, OpenDb(db) PROVE CallsInv'
  <2>1. \A c \in Callers : CallOK(c)'
    BY <1>0, <1>8 DEF OpenDb, CallOK, At
  <2> QED  BY <1>0, <1>8, <2>1, QuietTypes DEF OpenDb, disk
<1>9. ASSUME UNCHANGED vars PROVE CallsInv'
  <2>1. \A c \in Callers : CallOK(c)'
    BY <1>0, <1>9 DEF vars, CallOK, At
  <2> QED  BY <1>0, <1>9, <2>1, QuietTypes DEF vars, disk, bounds
<1>10. ASSUME NEW c \in Callers,
              \/ DeleteDerived(c, "note", "embedding")
              \/ DeleteDerived(c, "embedding", "events")
       PROVE  CallsInv'
  BY <1>10, DeleteDerivedCalls
<1>11. ASSUME NEW c \in Callers,
              \/ DeleteLog(c, "events", "versions")
              \/ DeleteLog(c, "versions", "state")
              \/ DeleteLog(c, "state", "registry")
       PROVE  CallsInv'
  BY <1>11, DeleteLogCalls
<1> QED
  BY <1>1, <1>2, <1>3, <1>4, <1>5, <1>6, <1>7, <1>8, <1>9, <1>10, <1>11, BeginCalls, ReadCalls,
     CommitCalls, DeleteDocumentCalls, EndWithoutRegistryCalls, DeleteRegistryCalls, CrashCalls
     DEF Next

LEMMA CallsAlways == Spec => []CallsInv
BY CallsInit, CallsStep, PTL DEF Spec

-----------------------------------------------------------------------------
(* The files.                                                                *)

LEMMA FilesInit == Init => FilesInv
<1> SUFFICES ASSUME Init PROVE FilesInv
  OBVIOUS
<1>1. ASSUME NEW f \in Files PROVE f \in home \/ Settled(f)
  <2>1. CASE f \in Resident
    <3>1. placed[NameOf[f]] = CHOOSE g \in Resident : NameOf[g] = NameOf[f]
      BY <2>1, PathsAre DEF Init
    <3> DEFINE g == CHOOSE g \in Resident : NameOf[g] = NameOf[f]
    <3>2. g \in Resident /\ NameOf[g] = NameOf[f]
      BY <2>1
    <3> HIDE DEF g
    <3>3. g = f
      BY <2>1, <3>2, FileToZoneAssumption
    <3> QED  BY <3>1, <3>3 DEF Settled, g
  <2> QED  BY <2>1 DEF Init
<1>2. \A c \in Callers : ~At(c, "unlinking")
  BY DEF Init, At, Idle
<1> QED  BY <1>1, <1>2 DEF FilesInv

(* No call gives up its file.                                                 *)
SameFiles == \A c \in Callers : call[c].file \in Files => call'[c].file = call[c].file

LEMMA SettledStays ==
  ASSUME SameFiles, NEW f \in Files, Settled(f), placed'[NameOf[f]] = placed[NameOf[f]]
  PROVE  Settled(f)'
<1>1. CASE placed[NameOf[f]] = f
  BY <1>1 DEF Settled
<1>2. CASE Overwritten(f)
  BY <1>2 DEF Settled, Overwritten
<1>3. CASE Collided(f)
  <2>1. PICK c \in Callers, d \in Callers : c # d /\ call[c].file = f /\ call[d].file = f
    BY <1>3 DEF Collided
  <2>2. call'[c].file = f /\ call'[d].file = f
    BY <2>1 DEF SameFiles
  <2> QED  BY <1>3, <2>1, <2>2 DEF Settled, Collided
<1> QED  BY <1>1, <1>2, <1>3 DEF Settled

(* A whole file is put under a name: it is there, or in the way.              *)
LEMMA PlacedIs ==
  ASSUME CallsInv, SameFiles, NEW g \in Files,
         placed' = [placed EXCEPT ![NameOf[g]] = g], NEW f \in Files
  PROVE  /\ Settled(f) => Settled(f)'
         /\ NameOf[f] = NameOf[g] => Settled(f)'
<1>1. placed \in [Names -> Files \cup {Nothing, Partial}] /\ NameOf[g] \in Names /\ NameOf[f] \in Names
  BY PathsAre DEF CallsInv, TypeOK
<1>2. CASE NameOf[f] = NameOf[g]
  <2>1. placed'[NameOf[f]] = g
    BY <1>1, <1>2
  <2>2. CASE f = g
    BY <2>1, <2>2 DEF Settled
  <2>3. CASE f # g
    BY <1>2, <2>1, <2>3 DEF Settled, Overwritten
  <2> QED  BY <2>2, <2>3
<1>3. CASE NameOf[f] # NameOf[g]
  <2>1. placed'[NameOf[f]] = placed[NameOf[f]]
    BY <1>1, <1>3
  <2> QED  BY <1>3, <2>1, SettledStays
<1> QED  BY <1>2, <1>3

(* A copy breaks off: another file of the name is overwritten, and the file   *)
(* itself, if it had been copied, has collided with another call.             *)
LEMMA BrokenIs ==
  ASSUME CallsInv, SameFiles, NEW c \in Callers, call[c].file \in Files,
         placed' = [placed EXCEPT ![NameOf[call[c].file]] = Partial], NEW f \in Files
  PROVE  /\ f # call[c].file /\ Settled(f) => Settled(f)'
         /\ \A d \in Callers : d # c /\ call[d].file = f /\ Settled(f) => Settled(f)'
<1> DEFINE g == call[c].file
<1>1. placed \in [Names -> Files \cup {Nothing, Partial}] /\ NameOf[g] \in Names /\ NameOf[f] \in Names
  BY PathsAre DEF CallsInv, TypeOK
<1>2. CASE NameOf[f] # NameOf[g]
  <2>1. placed'[NameOf[f]] = placed[NameOf[f]]
    BY <1>1, <1>2
  <2> QED  BY <2>1, SettledStays
<1>3. CASE NameOf[f] = NameOf[g] /\ f # g
  <2>1. placed'[NameOf[f]] = Partial
    BY <1>1, <1>3
  <2> QED  BY <1>3, <2>1 DEF Settled, Overwritten
<1>4. CASE f = g
  <2>1. placed'[NameOf[f]] = Partial
    BY <1>1, <1>4
  <2>2. ASSUME NEW d \in Callers, d # c, call[d].file = f PROVE Settled(f)'
    <3>1. call'[d].file = f /\ call'[c].file = f
      BY <1>4, <2>2 DEF SameFiles
    <3> QED  BY <2>1, <2>2, <3>1 DEF Settled, Collided
  <2> QED  BY <1>4, <2>2
<1> QED  BY <1>2, <1>3, <1>4

(* A step that leaves the disk alone, and starts no removal.                  *)
LEMMA QuietFiles ==
  ASSUME FilesInv, SameFiles, UNCHANGED disk, CallsInv,
         \A c \in Callers : call'[c].step = "unlinking" => call[c].step = "unlinking"
  PROVE  FilesInv'
<1>1. \A f \in Files : Settled(f) => Settled(f)'
  BY SettledStays DEF disk
<1>2. \A f \in Files : f \in home' \/ Settled(f)'
  BY <1>1 DEF FilesInv, disk
<1>3. ASSUME NEW f \in Files, NEW c \in Callers, call'[c].step = "unlinking", call'[c].file = f
      PROVE  Settled(f)'
  <2>1. call[c].step = "unlinking" /\ call[c].file \in Files
    BY <1>3 DEF CallsInv, CallOK, At
  <2>2. call[c].file = f
    BY <1>3, <2>1 DEF SameFiles
  <2> QED  BY <2>1, <2>2, <1>1 DEF FilesInv, At
<1> QED  BY <1>2, <1>3 DEF FilesInv, At

LEMMA SameFilesAlways == CallsInv /\ [Next]_vars => SameFiles
<1> SUFFICES ASSUME CallsInv, [Next]_vars PROVE SameFiles
  OBVIOUS
<1>0. /\ \A c \in Callers : At(c, "idle") => call[c].file = Nothing
      /\ TypeOK /\ Nothing \notin Files
  BY FileToZoneAssumption DEF CallsInv, CallOK
<1>1. ASSUME NEW c \in Callers, NEW s \in Steps, Goto(c, s) PROVE SameFiles
  <2>1. Moves(c, s)
    BY <1>0, <1>1, GotoIs
  <2> QED  BY <2>1 DEF SameFiles, Moves, Alike
<1>2. ASSUME NEW c \in Callers, NEW f \in Files, Begin(c, f) PROVE SameFiles
  <2>1. call[c].file \notin Files
    BY <1>0, <1>2 DEF Begin
  <2>2. \A e \in Callers \ {c} : call'[e] = call[e]
    BY <1>0, <1>2 DEF Begin, TypeOK
  <2> QED  BY <2>1, <2>2 DEF SameFiles
<1>3. ASSUME NEW c \in Callers, Read(c) PROVE SameFiles
  BY <1>3, ReadIs DEF SameFiles
<1>4. ASSUME Crash PROVE SameFiles
  BY <1>4, CrashIs DEF SameFiles, Alike
<1>5. ASSUME UNCHANGED call PROVE SameFiles
  BY <1>5 DEF SameFiles
<1>6. ASSUME NEW c \in Callers,
             \/ Rename(c) \/ RenameFails(c) \/ Copy(c) \/ CopyFails(c) \/ Unlink(c)
             \/ OpenZoneDb(c) \/ Commit(c) \/ CommitFails(c) \/ DeleteDocument(c)
             \/ DeleteDerived(c, "note", "embedding") \/ DeleteDerived(c, "embedding", "events")
             \/ EndWithoutRegistry(c)
             \/ DeleteLog(c, "events", "versions") \/ DeleteLog(c, "versions", "state")
             \/ DeleteLog(c, "state", "registry") \/ DeleteRegistry(c)
      PROVE  \E s \in Steps : Goto(c, s)
  <2>1. Deleting \cup Ended \cup {"moving", "copying", "unlinking", "opening", "committing"}
          \subseteq Steps
    BY StepsAre
  <2>2. ASSUME Rename(c) \/ RenameFails(c) \/ Copy(c) \/ CopyFails(c) \/ Unlink(c)
               \/ OpenZoneDb(c) \/ Commit(c) \/ CommitFails(c)
        PROVE  \E s \in Steps : Goto(c, s)
    BY <2>1, <2>2 DEF Rename, RenameFails, Copy, CopyFails, Unlink, OpenZoneDb, Commit, CommitFails,
                      Deleting, Ended
  <2>3. ASSUME \/ DeleteDocument(c)
               \/ DeleteDerived(c, "note", "embedding") \/ DeleteDerived(c, "embedding", "events")
               \/ EndWithoutRegistry(c)
               \/ DeleteLog(c, "events", "versions") \/ DeleteLog(c, "versions", "state")
               \/ DeleteLog(c, "state", "registry") \/ DeleteRegistry(c)
        PROVE  \E s \in Steps : Goto(c, s)
    BY <2>1, <2>3 DEF DeleteDocument, DeleteDerived, EndWithoutRegistry, DeleteLog, DeleteRegistry,
                      Deleting, Ended
  <2> QED  BY <1>6, <2>2, <2>3
<1>7. ASSUME NEW db \in Dbs, OpenDb(db) PROVE UNCHANGED call
  BY <1>7 DEF OpenDb
<1>8. UNCHANGED vars => UNCHANGED call
  BY DEF vars
<1> QED  BY <1>1, <1>2, <1>3, <1>4, <1>5, <1>6, <1>7, <1>8 DEF Next

LEMMA RenameFiles ==
  ASSUME CallsInv, FilesInv, SameFiles, NEW c \in Callers,
         call[c].file \in Files, placed' = [placed EXCEPT ![Target(c)] = call[c].file],
         home' \in {home, home \ {call[c].file}},
         \A e \in Callers : call'[e].step = "unlinking" => call[e].step = "unlinking" \/ e = c
  PROVE  FilesInv'
<1>1. ASSUME NEW f \in Files
      PROVE  (Settled(f) => Settled(f)') /\ (f = call[c].file => Settled(f)')
  BY PlacedIs DEF Target
<1>2. ASSUME NEW f \in Files PROVE f \in home' \/ Settled(f)'
  BY <1>1 DEF FilesInv
<1>3. ASSUME NEW f \in Files, NEW e \in Callers, call'[e].step = "unlinking", call'[e].file = f
      PROVE  Settled(f)'
  <2>1. CASE e = c
    <3>1. f = call[c].file
      BY <1>3, <2>1 DEF SameFiles
    <3> QED  BY <3>1, <1>1
  <2>2. CASE call[e].step = "unlinking"
    <3>1. call[e].file = f
      BY <1>3, <2>2 DEF SameFiles, CallsInv, CallOK, At
    <3> QED  BY <2>2, <3>1, <1>1 DEF FilesInv, At
  <2> QED  BY <1>3, <2>1, <2>2
<1> QED  BY <1>2, <1>3 DEF FilesInv, At

LEMMA CopyFailsFiles ==
  ASSUME CallsInv, FilesInv, SameFiles, NEW c \in Callers, CopyFails(c)
  PROVE  FilesInv'
<1>1. Moves(c, "failed")
  BY GotoIs, StepsAre DEF CopyFails, CallsInv, Ended
<1>2. \A e \in Callers : call'[e].step = "unlinking" => call[e].step = "unlinking" /\ e # c
  BY <1>1 DEF Moves
<1>3. CASE UNCHANGED placed
  BY <1>2, <1>3, QuietFiles DEF CopyFails, disk
<1>4. CASE call[c].file \in home /\ placed' = [placed EXCEPT ![Target(c)] = Partial]
  <2>1. call[c].file \in Files /\ home' = home
    BY DEF CopyFails, CallsInv, CallOK, At
  <2>2. ASSUME NEW f \in Files
        PROVE  /\ f # call[c].file /\ Settled(f) => Settled(f)'
               /\ \A d \in Callers : d # c /\ call[d].file = f /\ Settled(f) => Settled(f)'
    BY <1>4, <2>1, BrokenIs DEF Target
  <2>3. ASSUME NEW f \in Files PROVE f \in home' \/ Settled(f)'
    BY <1>4, <2>1, <2>2 DEF FilesInv
  <2>4. ASSUME NEW f \in Files, NEW e \in Callers, call'[e].step = "unlinking", call'[e].file = f
        PROVE  Settled(f)'
    <3>1. call[e].step = "unlinking" /\ e # c /\ call[e].file = f
      BY <1>2, <2>4 DEF SameFiles, CallsInv, CallOK, At
    <3> QED  BY <2>2, <3>1 DEF FilesInv, At
  <2> QED  BY <2>3, <2>4 DEF FilesInv, At
<1> QED  BY <1>3, <1>4 DEF CopyFails

LEMMA UnlinkFiles ==
  ASSUME CallsInv, FilesInv, SameFiles, NEW c \in Callers, Unlink(c)
  PROVE  FilesInv'
<1>1. Moves(c, "opening")
  BY GotoIs, StepsAre DEF Unlink, CallsInv
<1>2. \A f \in Files : Settled(f) => Settled(f)'
  BY SettledStays DEF Unlink
<1>3. ASSUME NEW f \in Files PROVE f \in home' \/ Settled(f)'
  <2>1. f = call[c].file => Settled(f)
    BY DEF FilesInv, Unlink
  <2> QED  BY <2>1, <1>2 DEF FilesInv, Unlink
<1>4. ASSUME NEW f \in Files, NEW e \in Callers, call'[e].step = "unlinking", call'[e].file = f
      PROVE  Settled(f)'
  <2>1. call[e].step = "unlinking" /\ call[e].file = f
    BY <1>1, <1>4 DEF Moves, SameFiles, CallsInv, CallOK, At
  <2> QED  BY <2>1, <1>2 DEF FilesInv, At
<1> QED  BY <1>3, <1>4 DEF FilesInv, At

LEMMA FilesStep == CallsInv /\ FilesInv /\ [Next]_vars => FilesInv'
<1> SUFFICES ASSUME CallsInv, FilesInv, [Next]_vars PROVE FilesInv'
  OBVIOUS
<1>1. SameFiles
  BY SameFilesAlways
<1>2. TypeOK /\ Deleting \cup Ended \cup {"moving", "copying", "unlinking", "opening", "committing"}
                  \subseteq Steps
  BY StepsAre DEF CallsInv
<1>3. ASSUME NEW c \in Callers, NEW s \in Steps \ {"unlinking"}, Goto(c, s)
      PROVE  \A e \in Callers : call'[e].step = "unlinking" => call[e].step = "unlinking"
  BY <1>2, <1>3, GotoIs DEF Moves
<1>4. ASSUME NEW c \in Callers, NEW f \in Files, Begin(c, f) PROVE FilesInv'
  <2>1. \A e \in Callers : call'[e].step = "unlinking" => call[e].step = "unlinking"
    BY <1>2, <1>4 DEF Begin, TypeOK, Idle
  <2> QED  BY <1>1, <1>4, <2>1, QuietFiles DEF Begin
<1>5. ASSUME NEW c \in Callers, Read(c) PROVE FilesInv'
  <2>1. \A e \in Callers : call'[e].step = "unlinking" => call[e].step = "unlinking"
    BY <1>5, ReadIs
  <2> QED  BY <1>1, <1>5, <2>1, QuietFiles DEF Read
<1>6. ASSUME NEW c \in Callers, Rename(c) PROVE FilesInv'
  <2>1. call[c].file \in Files /\ Goto(c, "opening")
    BY <1>6 DEF Rename, CallsInv, TypeOK
  <2> QED  BY <1>1, <1>2, <1>3, <1>6, <2>1, RenameFiles DEF Rename
<1>7. ASSUME NEW c \in Callers, RenameFails(c) PROVE FilesInv'
  BY <1>1, <1>2, <1>3, <1>7, QuietFiles DEF RenameFails
<1>8. ASSUME NEW c \in Callers, Copy(c) PROVE FilesInv'
  <2>1. call[c].file \in Files
    BY <1>8 DEF Copy, CallsInv, TypeOK
  <2>2. \A e \in Callers : call'[e].step = "unlinking" => call[e].step = "unlinking" \/ e = c
    BY <1>2, <1>8, GotoIs DEF Copy, Moves
  <2> QED  BY <1>1, <1>8, <2>1, <2>2, RenameFiles DEF Copy
<1>9. ASSUME NEW c \in Callers, OpenZoneDb(c) PROVE FilesInv'
  <2>1. \E s \in Steps \ {"unlinking"} : Goto(c, s)
    BY <1>2, <1>9 DEF OpenZoneDb, Ended
  <2> QED  BY <1>1, <1>3, <1>9, <2>1, QuietFiles DEF OpenZoneDb
<1>10. ASSUME NEW c \in Callers, Commit(c) \/ CommitFails(c) \/ DeleteDocument(c) PROVE FilesInv'
  <2>1. \E s \in Steps \ {"unlinking"} : Goto(c, s)
    BY <1>2, <1>10 DEF Commit, CommitFails, DeleteDocument, Ended, Deleting
  <2>2. UNCHANGED disk
    BY <1>10 DEF Commit, CommitFails, DeleteDocument
  <2> QED  BY <1>1, <1>3, <2>1, <2>2, QuietFiles
<1>11. ASSUME NEW c \in Callers,
              \/ DeleteDerived(c, "note", "embedding") \/ DeleteDerived(c, "embedding", "events")
              \/ EndWithoutRegistry(c)
              \/ DeleteLog(c, "events", "versions") \/ DeleteLog(c, "versions", "state")
              \/ DeleteLog(c, "state", "registry") \/ DeleteRegistry(c)
       PROVE  FilesInv'
  <2>1. \E s \in Steps \ {"unlinking"} : Goto(c, s)
    BY <1>2, <1>11 DEF DeleteDerived, EndWithoutRegistry, DeleteLog, DeleteRegistry, Ended, Deleting
  <2>2. UNCHANGED disk
    BY <1>11 DEF DeleteDerived, EndWithoutRegistry, DeleteLog, DeleteRegistry
  <2> QED  BY <1>1, <1>3, <2>1, <2>2, QuietFiles
<1>12. ASSUME NEW db \in Dbs, OpenDb(db) PROVE FilesInv'
  BY <1>1, <1>12, QuietFiles DEF OpenDb
<1>13. ASSUME Crash PROVE FilesInv'
  <2>1. \A e \in Callers : call'[e].step = "unlinking" => call[e].step = "unlinking"
    BY <1>13, CrashIs
  <2> QED  BY <1>1, <1>13, <2>1, QuietFiles DEF Crash
<1>14. ASSUME UNCHANGED vars PROVE FilesInv'
  BY <1>1, <1>14, QuietFiles DEF vars
<1> QED
  BY <1>1, <1>4, <1>5, <1>6, <1>7, <1>8, <1>9, <1>10, <1>11, <1>12, <1>13, <1>14,
     CopyFailsFiles, UnlinkFiles DEF Next

(* A file that file_to_zone was asked to move (zone_impl.hh:181-184) is at    *)
(* home or whole in the zone at every step, except where a file of the same   *)
(* name took its place or two calls copied it at once.                        *)
THEOREM FilesAreKept == Spec => []FileKept
<1>1. FilesInv => FileKept
  BY DEF FilesInv, FileKept, Settled
<1>2. CallsInv /\ FilesInv /\ [Next]_vars => FilesInv'
  BY FilesStep
<1> QED
  BY <1>1, <1>2, FilesInit, CallsAlways, PTL DEF Spec

-----------------------------------------------------------------------------
(* The rows of the global database.                                          *)

Shrinks ==
  /\ documented' = documented
  /\ docs'["global"] \subseteq docs["global"]
  /\ derived'["global"] \subseteq derived["global"]
  /\ logs'["global"] \subseteq logs["global"]
  /\ \A r \in registry'["global"] : \E q \in registry["global"] :
       r.uid = q.uid /\ r.path = q.path /\ r.docId \in {0, q.docId}

LEMMA ShrinksAlways == CallsInv /\ [Next]_vars => Shrinks
<1> SUFFICES ASSUME CallsInv, [Next]_vars PROVE Shrinks
  OBVIOUS
<1>1. /\ docs \in [Dbs -> SUBSET DocRows]
      /\ derived \in [Dbs -> SUBSET [kind : DerivedKinds, id : Nat, of : Files]]
      /\ registry \in [Dbs -> SUBSET [uid : Files, path : Paths, docId : Nat]]
      /\ logs \in [Dbs -> SUBSET [uid : Files, kind : LogKinds]]
      /\ active \in Dbs /\ "global" \in Dbs /\ TypeOK
  BY TablesAre DEF CallsInv, Dbs
<1>2. ASSUME UNCHANGED <<tables, documented>> PROVE Shrinks
  BY <1>2 DEF tables, Shrinks
<1>3. ASSUME NEW c \in Callers, Commit(c) PROVE Shrinks
  <2>1. docs'["global"] = docs["global"]
    BY <1>1, <1>3 DEF Commit
  <2>2. derived'["global"] = derived["global"]
    BY <1>1, <1>3 DEF Commit
  <2>3. registry'["global"] = registry["global"] /\ logs'["global"] = logs["global"]
    BY <1>1, <1>3 DEF Commit
  <2> QED  BY <1>3, <2>1, <2>2, <2>3 DEF Commit, bounds, Shrinks
<1>4. ASSUME NEW c \in Callers, DeleteDocument(c) PROVE Shrinks
  <2> DEFINE id == call[c].row.id
  <2>1. /\ docs' = [docs EXCEPT !["global"] = {d \in @ : d.id # id}]
        /\ derived' = [derived EXCEPT !["global"] = ChunksWithout("global", {id})]
        /\ registry' = [registry EXCEPT !["global"] = Released("global", {id})]
        /\ UNCHANGED <<logs, documented>>
    BY <1>4 DEF DeleteDocument, bounds
  <2> HIDE DEF id
  <2>2. ChunksWithout("global", {id}) \subseteq derived["global"]
    BY DEF ChunksWithout
  <2>3. docs'["global"] \subseteq docs["global"] /\ derived'["global"] \subseteq derived["global"]
    BY <1>1, <2>1, <2>2
  <2>4. registry'["global"] = Released("global", {id})
    BY <1>1, <2>1
  <2>5. \A r \in Released("global", {id}) : \E q \in registry["global"] :
          r.uid = q.uid /\ r.path = q.path /\ r.docId \in {0, q.docId}
    BY <1>1, ReleasedIs
  <2>6. \A r \in registry'["global"] : \E q \in registry["global"] :
          r.uid = q.uid /\ r.path = q.path /\ r.docId \in {0, q.docId}
    BY <2>4, <2>5
  <2>7. documented' = documented /\ logs'["global"] = logs["global"]
    BY <2>1
  <2> QED  BY <2>3, <2>6, <2>7 DEF Shrinks
<1>5. ASSUME NEW c \in Callers, NEW kind, NEW next, DeleteDerived(c, kind, next) PROVE Shrinks
  BY <1>1, <1>5 DEF DeleteDerived, bounds, Shrinks
<1>6. ASSUME NEW c \in Callers, NEW kind, NEW next, DeleteLog(c, kind, next) PROVE Shrinks
  BY <1>1, <1>6 DEF DeleteLog, bounds, Shrinks
<1>7. ASSUME NEW c \in Callers, DeleteRegistry(c) PROVE Shrinks
  <2>1. LogsWithout(active, {call[c].uid}) \subseteq logs[active]
    BY DEF LogsWithout
  <2>2. logs'["global"] \subseteq logs["global"]
    BY <1>1, <1>7, <2>1 DEF DeleteRegistry
  <2>3. registry'["global"] \subseteq registry["global"]
    BY <1>1, <1>7 DEF DeleteRegistry
  <2> QED  BY <1>7, <2>2, <2>3 DEF DeleteRegistry, bounds, Shrinks
<1>8. ASSUME NEW c \in Callers,
             \/ \E f \in Files : Begin(c, f)
             \/ Read(c) \/ Rename(c) \/ RenameFails(c) \/ Copy(c) \/ CopyFails(c) \/ Unlink(c)
             \/ OpenZoneDb(c) \/ CommitFails(c) \/ EndWithoutRegistry(c)
      PROVE  UNCHANGED <<tables, documented>>
  BY <1>8 DEF Begin, Read, Rename, RenameFails, Copy, CopyFails, Unlink, OpenZoneDb, CommitFails,
              EndWithoutRegistry, bounds
<1>9. ASSUME NEW db \in Dbs, OpenDb(db) PROVE UNCHANGED <<tables, documented>>
  BY <1>9 DEF OpenDb
<1>10. Crash => UNCHANGED <<tables, documented>>
  BY DEF Crash
<1>11. UNCHANGED vars => UNCHANGED <<tables, documented>>
  BY DEF vars, bounds
<1> QED
  BY <1>2, <1>3, <1>4, <1>5, <1>6, <1>7, <1>8, <1>9, <1>10, <1>11 DEF Next

LEMMA OriginInit == Init => OriginInv
<1> SUFFICES ASSUME Init PROVE OriginInv
  OBVIOUS
<1>1. "global" \in Dbs /\ \A f : DbOf(f) = "global" => f \notin Resident
  BY DEF Dbs, DbOf
<1>2. \A f \in Files \ Resident : DocOf(f).path = Home(f)
  BY DocsAre
<1> QED  BY <1>1, <1>2, InitIs DEF OriginInv, Moved

LEMMA OriginStep == CallsInv /\ OriginInv /\ [Next]_vars => OriginInv'
<1> SUFFICES ASSUME CallsInv, OriginInv, [Next]_vars PROVE OriginInv'
  OBVIOUS
<1>1. Shrinks
  BY ShrinksAlways
<1>2. Moved' = Moved
  BY <1>1 DEF Shrinks, Moved
<1>3. \A d \in docs'["global"] : d.of \in Moved /\ d = DocOf(d.of)
  BY <1>1 DEF Shrinks, OriginInv
<1>4. ASSUME NEW r \in registry'["global"]
      PROVE  r.uid \in Moved /\ r.path = Home(r.uid) /\ r.docId \in {0, IdOf[r.uid]}
  <2>1. PICK q \in registry["global"] :
          r.uid = q.uid /\ r.path = q.path /\ r.docId \in {0, q.docId}
    BY <1>1 DEF Shrinks
  <2> QED  BY <2>1 DEF OriginInv
<1>5. \A r \in derived'["global"] : r.of \in Moved /\ r.id = IdOf[r.of]
  BY <1>1 DEF Shrinks, OriginInv
<1>6. Resident \subseteq documented'
  BY <1>1 DEF Shrinks, OriginInv
<1> QED  BY <1>2, <1>3, <1>4, <1>5, <1>6 DEF OriginInv

LEMMA OriginAlways == Spec => [](CallsInv /\ OriginInv)
BY OriginInit, OriginStep, CallsAlways, PTL DEF Spec

-----------------------------------------------------------------------------
(* The rows, with the global database open.                                  *)

LEMMA KeptInit == Init => KeptInv
<1> SUFFICES ASSUME Init PROVE KeptInv
  OBVIOUS
<1>1. \A c \in Callers : call[c] = Idle
  BY DEF Init
<1>2. \A c \in Callers : (call[c].step \in Deleting => active = "global") /\ Knows(c) /\ Cleared(c)
  BY <1>1 DEF Idle, Deleting, Knows, Unread, Cleared, Past
<1>3. ASSUME NEW f \in Files PROVE Intact(f)
  <2> SUFFICES ASSUME DocOf(f) \in docs["global"]
               PROVE  HistoryIn("global", f) /\ Companions("global", f, IdOf[f])
    BY DEF Intact
  <2>1. f \in documented /\ DbOf(f) = "global"
    BY InitIs, DocsAre DEF Dbs
  <2> QED  BY <2>1, InitIs
<1>4. ASSUME NEW r \in registry["zone"] PROVE r.path = In(NameOf[r.uid])
  <2>1. r.uid \in Files /\ r.uid \in Resident /\ r.path = DocOf(r.uid).path
    BY InitIs DEF Dbs, DbOf
  <2> QED  BY <2>1, DocsAre
<1>5. ASSUME NEW f \in Files PROVE Landed(f)
  <2> SUFFICES ASSUME f \in Resident PROVE AtHome(f)
    BY <1>1 DEF Landed, Written, Idle, Deleting
  <2>1. f \in documented /\ DbOf(f) = "zone" /\ DocOf(f).path = In(NameOf[f])
        /\ DocOf(f).of = f /\ DocOf(f).id = IdOf[f]
    BY InitIs, DocsAre DEF DbOf
  <2>2. /\ DocOf(f) \in docs["zone"] /\ HistoryIn("zone", f) /\ Companions("zone", f, IdOf[f])
        /\ [uid |-> f, path |-> DocOf(f).path, docId |-> IdOf[f]] \in registry["zone"]
    BY <2>1, InitIs
  <2> QED  BY <2>1, <2>2 DEF AtHome
<1>6. ASSUME NEW f \in Files PROVE Safe(f)
  BY InitIs DEF Safe, Written, DbOf
<1> QED  BY <1>2, <1>3, <1>4, <1>5, <1>6 DEF KeptInv

(* A step that leaves the tables alone: no call has written that had not.     *)
WritingSteps == Deleting \cup {"ok", "halfway"}

LEMMA QuietKept ==
  ASSUME KeptInv, UNCHANGED <<tables, documented>>,
         \A c \in Callers : call'[c].step \in Deleting => active' = "global",
         \A c \in Callers : Knows(c)',
         \A c \in Callers :
           call'[c].step \in WritingSteps /\ call'[c].row # Nothing =>
             /\ call'[c].file = call[c].file /\ call'[c].row = call[c].row
             /\ call[c].step \in WritingSteps
             /\ call'[c].step \in {call[c].step, "halfway"},
         \A c \in Callers :
           call[c].step \in WritingSteps /\ call[c].row # Nothing =>
             /\ call'[c].file = call[c].file /\ call'[c].row = call[c].row
             /\ call'[c].step \in WritingSteps
  PROVE  KeptInv'
<1>1. \A f : Written(f)' <=> Written(f)
  BY DEF Written, WritingSteps
<1>2. \A f : Intact(f)' <=> Intact(f)
  BY DEF Intact, HistoryIn, Companions, tables
<1>3. \A f : AtHome(f)' <=> AtHome(f)
  BY DEF AtHome, HistoryIn, Companions, tables
<1>4. \A f : Superseded(f)' <=> Superseded(f)
  BY <1>1 DEF Superseded, tables
<1>5. \A f : HistoryIn("global", f)' <=> HistoryIn("global", f)
  BY DEF HistoryIn, tables
<1>6. \A f \in Files : Landed(f)' /\ Safe(f)' /\ Intact(f)'
  BY <1>1, <1>2, <1>3, <1>4, <1>5 DEF KeptInv, Landed, Safe
<1>7. ASSUME NEW c \in Callers PROVE Cleared(c)'
  <2>1. Cleared(c)
    BY DEF KeptInv
  <2>2. ASSUME NEW steps \in SUBSET Deleting, Past(c, steps)'
        PROVE  Past(c, steps) /\ call'[c].file = call[c].file
    BY <2>2 DEF Past, WritingSteps, Deleting
  <2>3. /\ {} \subseteq Deleting /\ Deleting \ {"document"} \subseteq Deleting
        /\ Deleting \ {"document", "note"} \subseteq Deleting
        /\ {"events", "versions", "state", "registry"} \subseteq Deleting
    BY DEF Deleting
  <2>4. docs' = docs /\ derived' = derived /\ registry' = registry /\ logs' = logs
    BY DEF tables
  <2> QED  BY <2>1, <2>2, <2>3, <2>4 DEF Cleared, NoDerived
<1>8. \A r \in registry'["zone"] : r.path = In(NameOf[r.uid])
  BY DEF KeptInv, tables
<1> QED  BY <1>6, <1>7, <1>8 DEF KeptInv

LEMMA ReadKnows ==
  ASSUME CallsInv, OriginInv, KeptInv, NEW c \in Callers, Read(c), ~aside'
  PROVE  Knows(c)'
<1> DEFINE f == call[c].file
           row == call'[c].row
<1>1. CASE Alike(c)
  <2>1. call'[c].row = Nothing
    BY <1>1 DEF Read, At, CallsInv, CallOK, Alike, Unread
  <2> QED  BY <2>1 DEF Knows
<1>2. CASE /\ row \in docs["global"] /\ row.path = Home(f)
           /\ \/ Uids(row) = {} /\ call'[c].uid = Nothing
              \/ call'[c].uid \in Uids(row)
           /\ call'[c].kinds = {r.kind : r \in {q \in derived["global"] : q.id = row.id}}
                                 \cap {"note", "embedding"}
           /\ call'[c].logs = {l.kind : l \in {q \in logs[active] : q.uid = call'[c].uid}}
           /\ aside' = (aside \/ active # "global")
  <2>1. active = "global"
    BY <1>2
  <2>2. f \in Moved /\ row = DocOf(f) /\ f \in Files
    <3>1. row.of \in Moved /\ row = DocOf(row.of)
      BY <1>2 DEF OriginInv
    <3>2. row.of \in Files /\ row.path = Home(row.of)
      BY <3>1, DocsAre DEF Moved, CallsInv, TypeOK
    <3>3. row.of = f
      BY <3>2, <1>2, PathsAre
    <3> QED  BY <3>1, <3>2, <3>3
  <2>3. row.path = Home(f) /\ row.id = IdOf[f] /\ IdOf[f] # 0
    BY <1>2, <2>2, DocsAre, FileToZoneAssumption
  <2>4. HistoryIn("global", f) /\ Companions("global", f, IdOf[f])
    BY <1>2, <2>2 DEF KeptInv, Intact
  <2> HIDE DEF f, row
  <2>5. ASSUME NEW q \in registry["global"], q.path = row.path \/ q.docId = row.id
        PROVE  q.uid = f
    <3>1. q.uid \in Moved /\ q.path = Home(q.uid) /\ q.docId \in {0, IdOf[q.uid]}
      BY DEF OriginInv
    <3>2. q.uid \in Files \ Resident /\ f \in Files \ Resident
      BY <3>1, <2>2 DEF Moved, CallsInv, TypeOK
    <3>3. CASE q.path = row.path
      BY <3>1, <3>3, <2>3, PathsAre
    <3>4. CASE q.docId = row.id
      BY <3>1, <3>2, <3>4, <2>3, FileToZoneAssumption
    <3> QED  BY <2>5, <3>3, <3>4
  <2>6. Uids(row) = {f}
    <3>1. PICK q \in registry["global"] : q.uid = f
      BY <2>4 DEF HistoryIn
    <3>2. q.path = row.path
      BY <3>1, <2>3 DEF OriginInv
    <3> QED  BY <2>1, <2>5, <3>1, <3>2 DEF Uids
  <2>7. call'[c].uid = f
    BY <1>2, <2>6
  <2>8. call'[c].kinds = {"note", "embedding"}
    <3>1. \A k \in {"note", "embedding"} :
            /\ [kind |-> k, id |-> IdOf[f], of |-> f] \in {q \in derived["global"] : q.id = row.id}
            /\ [kind |-> k, id |-> IdOf[f], of |-> f].kind = k
      BY <2>3, <2>4 DEF Companions
    <3>2. \A k \in {"note", "embedding"} :
            k \in {r.kind : r \in {q \in derived["global"] : q.id = row.id}}
      BY <3>1
    <3> QED  BY <3>2, <1>2
  <2>9. call'[c].logs = LogKinds
    <3>1. logs["global"] \subseteq [uid : Files, kind : LogKinds]
      BY DEF CallsInv, TypeOK, Dbs
    <3>2. \A k \in LogKinds :
            /\ [uid |-> f, kind |-> k] \in {q \in logs["global"] : q.uid = f}
            /\ [uid |-> f, kind |-> k].kind = k
      BY <2>4 DEF HistoryIn
    <3>3. LogKinds \subseteq {l.kind : l \in {q \in logs["global"] : q.uid = f}}
      BY <3>2
    <3>4. {l.kind : l \in {q \in logs["global"] : q.uid = f}} \subseteq LogKinds
      BY <3>1
    <3> QED  BY <1>2, <2>1, <2>7, <3>3, <3>4
  <2>10. call'[c].file = f
    BY ReadIs DEF f
  <2>11. Moved' = Moved
    BY DEF Read, bounds, Moved
  <2> QED  BY <2>2, <2>7, <2>8, <2>9, <2>10, <2>11 DEF Knows, row
<1> QED  BY <1>1, <1>2, ReadIs

LEMMA QuietActions ==
  ASSUME CallsInv, OriginInv, KeptInv, ~aside', NEW c \in Callers,
         \/ \E f \in Files : Begin(c, f)
         \/ Read(c) \/ Rename(c) \/ RenameFails(c) \/ Copy(c) \/ CopyFails(c) \/ Unlink(c)
         \/ OpenZoneDb(c) \/ CommitFails(c)
  PROVE  KeptInv'
<1>1. UNCHANGED <<tables, documented, active>>
  BY DEF Begin, Read, Rename, RenameFails, Copy, CopyFails, Unlink, OpenZoneDb, CommitFails, bounds
<1>2. /\ \A e \in Callers \ {c} : call'[e] = call[e]
      /\ call[c].step \notin WritingSteps
      /\ call'[c].step \notin WritingSteps \/ call'[c].row = Nothing
      /\ call'[c].step \notin Deleting
      /\ Knows(c)'
  <2>1. Ended \subseteq Steps /\ {"moving", "copying", "unlinking", "opening", "committing"} \subseteq Steps
        /\ TypeOK
    BY StepsAre DEF CallsInv
  <2>2. ASSUME NEW s \in Steps, Goto(c, s), call[c].step \notin WritingSteps \cup Unread,
               s \in WritingSteps => s = "ok" /\ call[c].row = Nothing
        PROVE  /\ \A e \in Callers \ {c} : call'[e] = call[e]
               /\ call[c].step \notin WritingSteps
               /\ call'[c].step \notin WritingSteps \/ call'[c].row = Nothing
               /\ call'[c].step \notin Deleting
               /\ Knows(c)'
    <3>1. Moves(c, s)
      BY <2>1, <2>2, GotoIs
    <3>2. Knows(c) /\ Moved' = Moved
      BY <1>1 DEF KeptInv, Moved
    <3>3. Knows(c)'
      BY <2>2, <3>1, <3>2 DEF Knows, Moves, Alike, DocOf
    <3> QED  BY <2>2, <3>1, <3>3 DEF Moves, Alike, WritingSteps, Deleting
  <2>3. ASSUME NEW f \in Files, Begin(c, f)
        PROVE  /\ \A e \in Callers \ {c} : call'[e] = call[e]
               /\ call[c].step \notin WritingSteps
               /\ call'[c].step \notin WritingSteps \/ call'[c].row = Nothing
               /\ call'[c].step \notin Deleting
               /\ Knows(c)'
    <3>1. call' = [call EXCEPT ![c] = [Idle EXCEPT !.step = "reading", !.file = f]]
          /\ call[c].step = "idle" /\ call \in [Callers -> CallRows]
      BY <2>1, <2>3 DEF Begin, At, TypeOK, CallRows
    <3>2. call'[c].step = "reading" /\ \A e \in Callers \ {c} : call'[e] = call[e]
      BY <3>1 DEF Idle
    <3> QED  BY <3>1, <3>2 DEF WritingSteps, Deleting, Knows, Unread
  <2>4. ASSUME Read(c)
        PROVE  /\ \A e \in Callers \ {c} : call'[e] = call[e]
               /\ call[c].step \notin WritingSteps
               /\ call'[c].step \notin WritingSteps \/ call'[c].row = Nothing
               /\ call'[c].step \notin Deleting
               /\ Knows(c)'
    <3>1. call[c].step = "reading"
      BY <2>4 DEF Read, At
    <3> QED  BY <2>4, <3>1, ReadIs, ReadKnows DEF WritingSteps, Deleting
  <2>5. ASSUME \/ Rename(c) \/ RenameFails(c) \/ Copy(c) \/ CopyFails(c) \/ Unlink(c)
               \/ OpenZoneDb(c) \/ CommitFails(c)
        PROVE  /\ call[c].step \notin WritingSteps \cup Unread
               /\ \E s \in Steps : /\ Goto(c, s)
                                   /\ s \in WritingSteps => s = "ok" /\ call[c].row = Nothing
    <3>1. {"failed", "ok", "moving", "copying", "unlinking", "opening", "committing"} \subseteq Steps
      BY <2>1 DEF Ended
    <3>2. \A s \in {"failed", "moving", "copying", "unlinking", "opening", "committing"} :
            s \notin WritingSteps \cup Unread
      BY DEF WritingSteps, Deleting, Unread
    <3>3. ASSUME OpenZoneDb(c)
          PROVE  /\ call[c].step = "opening"
                 /\ \/ Goto(c, "failed") \/ Goto(c, "committing")
                    \/ Goto(c, "ok") /\ call[c].row = Nothing
      BY <3>3 DEF OpenZoneDb, At
    <3>4. ASSUME \/ Rename(c) \/ RenameFails(c) \/ Copy(c) \/ CopyFails(c) \/ Unlink(c) \/ CommitFails(c)
          PROVE  /\ call[c].step \in {"moving", "copying", "unlinking", "committing"}
                 /\ \/ Goto(c, "failed") \/ Goto(c, "copying") \/ Goto(c, "unlinking")
                    \/ Goto(c, "opening")
      BY <3>4 DEF Rename, RenameFails, Copy, CopyFails, Unlink, CommitFails, At
    <3>5. CASE OpenZoneDb(c)
      <4>1. call[c].step \notin WritingSteps \cup Unread
        BY <3>2, <3>3, <3>5
      <4>2. CASE Goto(c, "ok") /\ call[c].row = Nothing
        BY <3>1, <4>1, <4>2
      <4>3. CASE \E s \in {"failed", "committing"} : Goto(c, s)
        <5>1. PICK s \in {"failed", "committing"} : Goto(c, s)
          BY <4>3
        <5>2. s \in Steps /\ s \notin WritingSteps
          BY <3>1, <3>2
        <5> QED  BY <4>1, <5>1, <5>2
      <4> QED  BY <3>3, <3>5, <4>2, <4>3
    <3>6. CASE ~OpenZoneDb(c)
      <4>1. call[c].step \notin WritingSteps \cup Unread
        BY <2>5, <3>2, <3>4, <3>6
      <4>2. PICK s \in {"failed", "copying", "unlinking", "opening"} : Goto(c, s)
        BY <2>5, <3>4, <3>6
      <4>3. s \in Steps /\ s \notin WritingSteps
        BY <3>1, <3>2
      <4> QED  BY <4>1, <4>2, <4>3
    <3> QED  BY <3>5, <3>6
  <2> QED  BY <2>2, <2>3, <2>4, <2>5
<1>3. \A e \in Callers : call'[e].step \in Deleting => active' = "global"
  BY <1>1, <1>2 DEF KeptInv
<1>4. \A e \in Callers : Knows(e)'
  <2> SUFFICES ASSUME NEW e \in Callers, e # c PROVE Knows(e)'
    BY <1>2
  <2>1. call'[e] = call[e] /\ Knows(e) /\ Moved' = Moved
    BY <1>1, <1>2 DEF KeptInv, Moved
  <2> QED  BY <2>1 DEF Knows, DocOf
<1>5. \A e \in Callers :
        call'[e].step \in WritingSteps /\ call'[e].row # Nothing =>
          /\ call'[e].file = call[e].file /\ call'[e].row = call[e].row
          /\ call[e].step \in WritingSteps
          /\ call'[e].step \in {call[e].step, "halfway"}
  BY <1>2
<1>6. \A e \in Callers :
        call[e].step \in WritingSteps /\ call[e].row # Nothing =>
          /\ call'[e].file = call[e].file /\ call'[e].row = call[e].row
          /\ call'[e].step \in WritingSteps
  BY <1>2
<1> QED  BY <1>1, <1>3, <1>4, <1>5, <1>6, QuietKept

LEMMA OpenDbKept == ASSUME CallsInv, KeptInv, NEW db \in Dbs, OpenDb(db) PROVE KeptInv'
<1>1. \A c \in Callers : call[c].step \notin Deleting
  BY HolderIs DEF OpenDb
<1>2. UNCHANGED <<tables, documented, call>>
  BY DEF OpenDb
<1>3. \A c \in Callers : Knows(c)'
  BY <1>2 DEF KeptInv, Knows, Moved, DocOf
<1> QED  BY <1>1, <1>2, <1>3, QuietKept

LEMMA CrashKept == ASSUME CallsInv, KeptInv, Crash PROVE KeptInv'
<1>1. UNCHANGED <<tables, documented>> /\ active' = "global"
  BY DEF Crash
<1>2. ASSUME NEW c \in Callers PROVE Knows(c)'
  <2>1. Knows(c) /\ Moved' = Moved
    BY <1>1 DEF KeptInv, Moved
  <2>2. CASE call[c].step \in Unread /\ call[c].row = Nothing
    BY <2>2, CrashIs DEF Knows, Alike
  <2>3. CASE call[c].step \notin Unread
    BY <2>1, <2>3, CrashIs DEF Knows, Alike, DocOf
  <2> QED  BY <2>2, <2>3 DEF CallsInv, CallOK
<1>3. \A c \in Callers :
        /\ call'[c].file = call[c].file /\ call'[c].row = call[c].row
        /\ call[c].step \in WritingSteps => call'[c].step \in WritingSteps
        /\ call'[c].step \in WritingSteps => /\ call[c].step \in WritingSteps
                                             /\ call'[c].step \in {call[c].step, "halfway"}
  <2> SUFFICES ASSUME NEW c \in Callers
               PROVE  /\ call[c].step \in WritingSteps => call'[c].step \in WritingSteps
                      /\ call'[c].step \in WritingSteps => /\ call[c].step \in WritingSteps
                                                           /\ call'[c].step \in {call[c].step, "halfway"}
    BY CrashIs DEF Alike
  <2> QED  BY CrashIs DEF WritingSteps, Ended, Deleting
<1> QED  BY <1>1, <1>2, <1>3, QuietKept

(* What Commit does to the tables of the zone.                                *)
Committed(c, f, ids, uids) ==
  /\ docs'["zone"] = (docs["zone"] \ ReplacedDocs(c)) \cup
                       {[path |-> In(NameOf[f]), id |-> nextId, of |-> f]}
  /\ derived'["zone"] = ChunksWithout("zone", ids) \cup
                          {[kind |-> k, id |-> nextId, of |-> f] : k \in {"note", "embedding"}}
  /\ registry'["zone"] = {r \in Released("zone", ids) : r.uid \notin uids} \cup
                           {[uid |-> f, path |-> In(NameOf[f]), docId |-> nextId]}
  /\ logs'["zone"] = LogsWithout("zone", uids) \cup {[uid |-> f, kind |-> k] : k \in LogKinds}

SameGlobal ==
  /\ docs'["global"] = docs["global"] /\ derived'["global"] = derived["global"]
  /\ registry'["global"] = registry["global"] /\ logs'["global"] = logs["global"]
  /\ documented' = documented

LEMMA CommitIs ==
  ASSUME CallsInv, KeptInv, NEW c \in Callers, Commit(c), ~aside', NEW f, f = call[c].file,
         NEW ids, ids = {d.id : d \in ReplacedDocs(c)},
         NEW uids, uids = {g.uid : g \in ReplacedRegistry(c)}
  PROVE  /\ f \in Moved /\ f \in Files /\ call[c].row # Nothing /\ active' = "global"
         /\ Committed(c, f, ids, uids)
         /\ ReplacedRegistry(c) = {r \in registry["zone"] : r.path = In(NameOf[f]) \/ r.uid = f}
         /\ SameGlobal
         /\ Moves(c, "document")
<1>1. call[c].step = "committing" /\ call[c].row # Nothing
  BY DEF Commit, At, CallsInv, CallOK
<1>2. /\ f \in Moved /\ call[c].uid = f /\ call[c].kinds = {"note", "embedding"}
      /\ call[c].logs = LogKinds
  BY <1>1 DEF KeptInv, Knows, Unread
<1>3. f \in Files /\ f # Nothing
  BY <1>2, FileToZoneAssumption DEF Moved, CallsInv, TypeOK
<1>4. active' = "global" /\ documented' = documented
  BY DEF Commit, bounds
<1>5. /\ docs \in [Dbs -> SUBSET DocRows]
      /\ derived \in [Dbs -> SUBSET [kind : DerivedKinds, id : Nat, of : Files]]
      /\ registry \in [Dbs -> SUBSET [uid : Files, path : Paths, docId : Nat]]
      /\ logs \in [Dbs -> SUBSET [uid : Files, kind : LogKinds]]
      /\ "zone" \in Dbs /\ "global" \in Dbs /\ "zone" # "global" /\ TypeOK
  BY TablesAre DEF CallsInv, Dbs
<1>6. /\ docs' = [docs EXCEPT !["zone"] = (@ \ ReplacedDocs(c)) \cup
                   {[path |-> In(NameOf[f]), id |-> nextId, of |-> f]}]
      /\ derived' = [derived EXCEPT !["zone"] = ChunksWithout("zone", ids) \cup CopiedDerived(c)]
      /\ Goto(c, "document")
  BY DEF Commit, Target
<1>7. /\ registry' = [registry EXCEPT !["zone"] =
              {r \in Released("zone", ids) : r.uid \notin uids} \cup
              {[uid |-> f, path |-> In(NameOf[f]), docId |-> nextId]}]
      /\ logs' = [logs EXCEPT !["zone"] = LogsWithout("zone", uids) \cup CopiedLogs(c)]
  BY <1>2, <1>3 DEF Commit, Target
<1>8. CopiedDerived(c) = {[kind |-> k, id |-> nextId, of |-> f] : k \in {"note", "embedding"}}
  BY <1>2 DEF CopiedDerived
<1>9. CopiedLogs(c) = {[uid |-> f, kind |-> k] : k \in LogKinds}
  BY <1>2 DEF CopiedLogs
<1>10. ReplacedRegistry(c) = {r \in registry["zone"] : r.path = In(NameOf[f]) \/ r.uid = f}
  BY <1>2 DEF ReplacedRegistry, Target
<1>11. Moves(c, "document")
  BY <1>5, <1>6, GotoIs, StepsAre DEF Deleting
<1>12. docs'["zone"] = (docs["zone"] \ ReplacedDocs(c)) \cup
                         {[path |-> In(NameOf[f]), id |-> nextId, of |-> f]}
       /\ docs'["global"] = docs["global"]
  BY <1>5, <1>6
<1>13. derived'["zone"] = ChunksWithout("zone", ids) \cup CopiedDerived(c)
       /\ derived'["global"] = derived["global"]
  BY <1>5, <1>6
<1>14. registry'["zone"] = {r \in Released("zone", ids) : r.uid \notin uids} \cup
                            {[uid |-> f, path |-> In(NameOf[f]), docId |-> nextId]}
       /\ registry'["global"] = registry["global"]
  BY <1>5, <1>7
<1>15. logs'["zone"] = LogsWithout("zone", uids) \cup CopiedLogs(c)
       /\ logs'["global"] = logs["global"]
  BY <1>5, <1>7
<1>16. Committed(c, f, ids, uids)
  BY <1>8, <1>9, <1>12, <1>13, <1>14, <1>15 DEF Committed
<1>17. SameGlobal
  BY <1>4, <1>12, <1>13, <1>14, <1>15 DEF SameGlobal
<1> QED
  BY <1>1, <1>2, <1>3, <1>4, <1>10, <1>11, <1>16, <1>17

(* The document that was written is at home in the zone.                      *)
LEMMA CommitHome ==
  ASSUME NEW c, NEW f, NEW ids, NEW uids, Committed(c, f, ids, uids)
  PROVE  AtHome(f)'
<1> DEFINE doc == [path |-> In(NameOf[f]), id |-> nextId, of |-> f]
           row == [uid |-> f, path |-> In(NameOf[f]), docId |-> nextId]
<1>1. doc \in docs'["zone"] /\ row \in registry'["zone"]
  BY DEF Committed
<1>2. \A k \in LogKinds : [uid |-> f, kind |-> k] \in logs'["zone"]
  BY DEF Committed
<1>3. \A k \in {"note", "embedding"} : [kind |-> k, id |-> nextId, of |-> f] \in derived'["zone"]
  BY DEF Committed
<1>4. doc.path = In(NameOf[f]) /\ doc.of = f /\ doc.id = nextId
      /\ row = [uid |-> f, path |-> doc.path, docId |-> doc.id]
      /\ row.uid = f
  OBVIOUS
<1> HIDE DEF doc, row
<1>5. HistoryIn("zone", f)'
  BY <1>1, <1>2, <1>4 DEF HistoryIn
<1> QED  BY <1>1, <1>3, <1>4, <1>5 DEF AtHome, Companions

(* The documents of other names stay where they are.                          *)
LEMMA CommitOthers ==
  ASSUME CallsInv, KeptInv, NEW c \in Callers, Commit(c), ~aside', NEW f, f = call[c].file,
         NEW ids, ids = {d.id : d \in ReplacedDocs(c)},
         NEW uids, uids = {q.uid : q \in ReplacedRegistry(c)},
         NEW g \in Files, NameOf[g] # NameOf[f]
  PROVE  /\ AtHome(g) => AtHome(g)'
         /\ \A d \in docs["zone"] : d.path = In(NameOf[g]) => d \in docs'["zone"]
<1>1. In(NameOf[g]) # In(NameOf[f]) /\ g # f
  BY PathsAre
<1>2. ReplacedDocs(c) = {d \in docs["zone"] : d.path = In(NameOf[f])}
  BY DEF ReplacedDocs, Target
<1>0. /\ Committed(c, f, ids, uids)
      /\ ReplacedRegistry(c) = {r \in registry["zone"] : r.path = In(NameOf[f]) \/ r.uid = f}
  BY CommitIs
<1>3. \A d \in docs["zone"] : d.path = In(NameOf[g]) => d \in docs'["zone"]
  BY <1>0, <1>1, <1>2 DEF Committed
<1>4. ASSUME AtHome(g) PROVE AtHome(g)'
  <2>1. PICK d \in docs["zone"] :
          /\ d.path = In(NameOf[g]) /\ d.of = g
          /\ Companions("zone", g, d.id)
          /\ [uid |-> g, path |-> d.path, docId |-> d.id] \in registry["zone"]
    BY <1>4 DEF AtHome
  <2>2. g \notin uids
    <3> SUFFICES ASSUME NEW q \in ReplacedRegistry(c), q.uid = g PROVE FALSE
      OBVIOUS
    <3>1. q \in registry["zone"] /\ (q.path = In(NameOf[f]) \/ q.uid = f)
      BY <1>0
    <3>2. q.path = In(NameOf[g])
      BY <3>1 DEF KeptInv
    <3> QED  BY <3>1, <3>2, <1>1
  <2>3. d.id \notin ids
    <3> SUFFICES ASSUME NEW e \in ReplacedDocs(c), e.id = d.id PROVE FALSE
      OBVIOUS
    <3>1. e \in docs["zone"] /\ e = d
      BY <1>2, <2>1 DEF CallsInv, TypeOK, Dbs
    <3> QED  BY <3>1, <1>1, <1>2, <2>1
  <2> DEFINE row == [uid |-> g, path |-> d.path, docId |-> d.id]
  <2>4. row \in Released("zone", ids)
    <3>1. TypeOK /\ "zone" \in Dbs /\ row \in registry["zone"] /\ row.docId = d.id
      BY <2>1 DEF CallsInv, Dbs
    <3> HIDE DEF row
    <3> QED  BY <3>1, <2>3, ReleasedKeeps
  <2>5. row \in registry'["zone"] /\ row.uid = g
    <3>1. row.uid = g
      OBVIOUS
    <3> HIDE DEF row
    <3> QED  BY <3>1, <2>2, <2>4, <1>0 DEF Committed
  <2>6. \A k \in LogKinds : [uid |-> g, kind |-> k] \in logs'["zone"]
    <3>1. \A k \in LogKinds : [uid |-> g, kind |-> k] \in logs["zone"]
      BY <1>4 DEF AtHome, HistoryIn
    <3>2. \A k \in LogKinds : [uid |-> g, kind |-> k] \in LogsWithout("zone", uids)
      BY <3>1, <2>2 DEF LogsWithout
    <3> QED  BY <3>2, <1>0 DEF Committed
  <2>7. \A k \in {"note", "embedding"} : [kind |-> k, id |-> d.id, of |-> g] \in derived'["zone"]
    <3>1. \A k \in {"note", "embedding"} : [kind |-> k, id |-> d.id, of |-> g] \in derived["zone"]
      BY <2>1 DEF Companions
    <3>2. \A k \in {"note", "embedding"} :
            [kind |-> k, id |-> d.id, of |-> g] \in ChunksWithout("zone", ids)
      BY <3>1 DEF ChunksWithout
    <3> QED  BY <3>2, <1>0 DEF Committed
  <2>8. d \in docs'["zone"]
    BY <1>3, <2>1
  <2> HIDE DEF row
  <2>9. HistoryIn("zone", g)'
    BY <2>5, <2>6 DEF HistoryIn
  <2> QED  BY <2>1, <2>5, <2>7, <2>8, <2>9 DEF AtHome, Companions, row
<1> QED  BY <1>3, <1>4

LEMMA CommitKept ==
  ASSUME CallsInv, OriginInv, KeptInv, NEW c \in Callers, Commit(c), ~aside',
         NEW f, f = call[c].file,
         NEW ids, ids = {d.id : d \in ReplacedDocs(c)},
         NEW uids, uids = {q.uid : q \in ReplacedRegistry(c)}
  PROVE  KeptInv'
<1>1. /\ f \in Moved /\ f \in Files /\ call[c].row # Nothing /\ active' = "global"
      /\ Committed(c, f, ids, uids) /\ SameGlobal /\ Moves(c, "document")
  BY CommitIs
<1>2. call'[c].file = f /\ call'[c].step = "document" /\ call[c].step = "committing"
  BY <1>1 DEF Moves, Alike, Commit, At
<1>3. ASSUME NEW e \in Callers PROVE Knows(e)'
  <2>1. Knows(e) /\ Moved' = Moved
    BY <1>1 DEF KeptInv, Moved, SameGlobal
  <2>2. CASE e = c
    BY <1>1, <1>2, <2>1, <2>2 DEF Knows, Moves, Alike, DocOf, Unread
  <2>3. CASE e # c
    BY <1>1, <2>1, <2>3 DEF Knows, Moves, DocOf
  <2> QED  BY <2>2, <2>3
<1>4. ASSUME NEW g \in Files PROVE Intact(g)' /\ (HistoryIn("global", g) => HistoryIn("global", g)')
  <2>1. Intact(g)
    BY DEF KeptInv
  <2> QED  BY <2>1, <1>1 DEF SameGlobal, Intact, HistoryIn, Companions
<1>5. ASSUME NEW r \in registry'["zone"] PROVE r.path = In(NameOf[r.uid])
  <2> DEFINE row == [uid |-> f, path |-> In(NameOf[f]), docId |-> nextId]
  <2>1. CASE r = row
    BY <2>1
  <2>2. CASE r \in Released("zone", ids)
    <3>1. TypeOK /\ "zone" \in Dbs
      BY DEF CallsInv, Dbs
    <3>2. PICK q \in registry["zone"] : r.uid = q.uid /\ r.path = q.path
      BY <2>2, <3>1, ReleasedIs
    <3> QED  BY <3>2 DEF KeptInv
  <2>3. r = row \/ r \in Released("zone", ids)
    BY <1>1 DEF Committed
  <2> QED  BY <2>1, <2>2, <2>3
<1>6. ASSUME NEW g \in Files PROVE Written(g) => Written(g)'
  <2>1. \A e \in Callers : call[e].step \in WritingSteps => call'[e] = call[e]
    BY <1>1, <1>2 DEF Moves, WritingSteps, Deleting
  <2> QED  BY <2>1 DEF Written, WritingSteps
<1>7. ASSUME NEW g \in Files PROVE Landed(g)'
  <2>1. CASE g = f
    <3>1. AtHome(f)'
      BY <1>1, CommitHome
    <3> QED  BY <2>1, <3>1 DEF Landed
  <2>2. CASE g # f /\ NameOf[g] = NameOf[f]
    <3> DEFINE doc == [path |-> In(NameOf[f]), id |-> nextId, of |-> f]
    <3>1. doc \in docs'["zone"] /\ doc.path = In(NameOf[g]) /\ doc.of # g
      BY <1>1, <2>2 DEF Committed
    <3> HIDE DEF doc
    <3>2. Written(g)' => Superseded(g)'
      BY <3>1 DEF Superseded
    <3> QED  BY <3>2 DEF Landed
  <2>3. CASE NameOf[g] # NameOf[f]
    <3>1. Written(g)' => Written(g)
      <4>1. g # f
        BY <2>3
      <4>2. \A e \in Callers \ {c} : call'[e] = call[e]
        BY <1>1 DEF Moves
      <4> QED  BY <4>1, <4>2, <1>2 DEF Written
    <3>2. /\ AtHome(g) => AtHome(g)'
          /\ \A d \in docs["zone"] : d.path = In(NameOf[g]) => d \in docs'["zone"]
      BY <2>3, CommitOthers
    <3>3. Superseded(g) /\ Written(g)' => Superseded(g)'
      BY <3>2 DEF Superseded
    <3>4. Landed(g)
      BY DEF KeptInv
    <3> QED  BY <3>1, <3>2, <3>3, <3>4 DEF Landed
  <2> QED  BY <2>1, <2>2, <2>3
<1>8. ASSUME NEW g \in Files PROVE Safe(g)'
  <2>1. Safe(g) /\ documented' = documented
    BY <1>1 DEF KeptInv, SameGlobal
  <2> QED  BY <2>1, <1>4, <1>6 DEF Safe
<1>9. ASSUME NEW e \in Callers PROVE Cleared(e)'
  <2>1. CASE e = c
    BY <1>2, <2>1 DEF Cleared, Past, Deleting
  <2>2. CASE e # c
    <3>1. call'[e] = call[e] /\ Cleared(e)
      BY <1>1, <2>2 DEF Moves, KeptInv
    <3> QED  BY <1>1, <3>1 DEF Cleared, Past, NoDerived, SameGlobal
  <2> QED  BY <2>1, <2>2
<1> QED  BY <1>1, <1>3, <1>4, <1>5, <1>7, <1>8, <1>9 DEF KeptInv

(* What the call that deletes knows.                                          *)
LEMMA DeleterIs ==
  ASSUME CallsInv, KeptInv, NEW c \in Callers, call[c].step \in Deleting, NEW f, f = call[c].file
  PROVE  /\ active = "global" /\ f \in Moved /\ f \in Files /\ f # Nothing
         /\ call[c].uid = f /\ call[c].row # Nothing /\ call[c].row.id = IdOf[f]
<1>1. call[c].row # Nothing /\ call[c].step \notin Unread
  BY DEF CallsInv, CallOK, Deleting, Unread
<1>2. /\ active = "global" /\ f \in Moved /\ call[c].uid = f /\ call[c].row = DocOf(f)
  BY <1>1 DEF KeptInv, Knows
<1>3. f \in Files /\ f # Nothing
  BY <1>2, FileToZoneAssumption DEF Moved, CallsInv, TypeOK
<1> QED  BY <1>1, <1>2, <1>3, DocsAre

SameZone ==
  /\ docs'["zone"] = docs["zone"] /\ derived'["zone"] = derived["zone"]
  /\ registry'["zone"] = registry["zone"] /\ logs'["zone"] = logs["zone"]

(* A deletion takes nothing from the zone, and from the global database only   *)
(* what belongs to the document of the call.                                   *)
LEMMA DeletesKept ==
  ASSUME CallsInv, KeptInv, Shrinks, NEW c \in Callers, call[c].step \in Deleting,
         NEW s \in Deleting \cup {"ok"}, Moves(c, s), UNCHANGED active, SameZone,
         NEW f, f = call[c].file,
         \A g \in Files : Intact(g)',
         \A g \in Files \ {f} : HistoryIn("global", g) => HistoryIn("global", g)',
         Cleared(c)'
  PROVE  KeptInv'
<1>1. active' = "global" /\ call[c].row # Nothing /\ Moved' = Moved /\ documented' = documented
  BY DeleterIs DEF Shrinks, Moved
<1>2. /\ call'[c].step \in WritingSteps /\ call[c].step \in WritingSteps
      /\ call'[c].step # "halfway"
      /\ call'[c].file = f /\ call'[c].row = call[c].row
      /\ call'[c].step \notin Unread /\ call[c].step \notin Unread
      /\ \A e \in Callers \ {c} : call'[e] = call[e]
  BY DEF Moves, Alike, WritingSteps, Deleting, Unread
<1>3. ASSUME NEW e \in Callers PROVE Knows(e)'
  <2>1. Knows(e)
    BY DEF KeptInv
  <2>2. CASE e = c
    BY <1>1, <1>2, <2>1, <2>2 DEF Knows, Moves, Alike, DocOf
  <2>3. CASE e # c
    BY <1>1, <1>2, <2>1, <2>3 DEF Knows, DocOf
  <2> QED  BY <2>2, <2>3
<1>4. ASSUME NEW g PROVE Written(g)' <=> Written(g)
  BY <1>1, <1>2 DEF Written, WritingSteps
<1>5. ASSUME NEW g \in Files PROVE Landed(g)'
  <2>1. AtHome(g) => AtHome(g)'
    BY DEF AtHome, HistoryIn, Companions, SameZone
  <2>2. Superseded(g) => Superseded(g)'
    BY <1>4 DEF Superseded, SameZone
  <2>3. Landed(g)
    BY DEF KeptInv
  <2> QED  BY <1>4, <2>1, <2>2, <2>3 DEF Landed
<1>6. ASSUME NEW g \in Files PROVE Safe(g)'
  <2>1. CASE g = f
    BY <1>1, <1>2, <2>1 DEF Safe, Written, WritingSteps
  <2>2. CASE g # f
    <3>1. Safe(g)
      BY DEF KeptInv
    <3> QED  BY <1>1, <1>4, <2>2, <3>1 DEF Safe
  <2> QED  BY <2>1, <2>2
<1>7. ASSUME NEW e \in Callers, e # c PROVE Cleared(e)'
  <2>1. Cleared(e) /\ call'[e] = call[e]
    BY <1>2, <1>7 DEF KeptInv
  <2>2. \A r \in registry'["global"] : \E q \in registry["global"] : r.uid = q.uid
    BY DEF Shrinks
  <2>3. /\ docs'["global"] \subseteq docs["global"]
        /\ derived'["global"] \subseteq derived["global"]
        /\ logs'["global"] \subseteq logs["global"]
    BY DEF Shrinks
  <2> QED  BY <2>1, <2>2, <2>3 DEF Cleared, Past, NoDerived
<1>8. \A r \in registry'["zone"] : r.path = In(NameOf[r.uid])
  BY DEF KeptInv, SameZone
<1> QED  BY <1>1, <1>3, <1>5, <1>6, <1>7, <1>8 DEF KeptInv

(* Two documents of the global database have two ids.                         *)
LEMMA MovedIds ==
  ASSUME CallsInv, NEW f \in Moved, NEW g \in Moved, f # g
  PROVE  IdOf[f] # IdOf[g]
BY FileToZoneAssumption DEF Moved, CallsInv, TypeOK

LEMMA DeleteDocumentKept ==
  ASSUME CallsInv, OriginInv, KeptInv, Shrinks, NEW c \in Callers, DeleteDocument(c),
         NEW f, f = call[c].file
  PROVE  KeptInv'
<1>1. call[c].step \in Deleting /\ "note" \in Deleting /\ "note" \in Steps
  BY StepsAre DEF DeleteDocument, At, Deleting
<1>2. /\ f \in Moved /\ f \in Files /\ call[c].row.id = IdOf[f] /\ TypeOK
  BY <1>1, DeleterIs DEF CallsInv
<1>3. Moves(c, "note")
  BY <1>1, <1>2, GotoIs DEF DeleteDocument
<1>4. /\ docs \in [Dbs -> SUBSET DocRows]
      /\ derived \in [Dbs -> SUBSET [kind : DerivedKinds, id : Nat, of : Files]]
      /\ registry \in [Dbs -> SUBSET [uid : Files, path : Paths, docId : Nat]]
      /\ "global" \in Dbs /\ "zone" \in Dbs /\ "zone" # "global"
  BY <1>2, TablesAre DEF Dbs
<1>5. /\ docs' = [docs EXCEPT !["global"] = {d \in @ : d.id # IdOf[f]}]
      /\ derived' = [derived EXCEPT !["global"] = ChunksWithout("global", {IdOf[f]})]
      /\ registry' = [registry EXCEPT !["global"] = Released("global", {IdOf[f]})]
      /\ UNCHANGED <<logs, active>>
  BY <1>2 DEF DeleteDocument
<1>6. /\ docs'["global"] = {d \in docs["global"] : d.id # IdOf[f]}
      /\ derived'["global"] = {r \in derived["global"] : r.kind # "chunks" \/ r.id # IdOf[f]}
      /\ registry'["global"] = Released("global", {IdOf[f]})
  BY <1>4, <1>5 DEF ChunksWithout
<1>7. SameZone
  BY <1>4, <1>5 DEF SameZone
<1>8. \A q \in registry["global"] : \E r \in registry'["global"] : r.uid = q.uid
  BY <1>2, <1>4, <1>6, ReleasedIs
<1>9. \A g : HistoryIn("global", g) => HistoryIn("global", g)'
  BY <1>5, <1>8 DEF HistoryIn
<1>10. ASSUME NEW g \in Files PROVE Intact(g)'
  <2> SUFFICES ASSUME DocOf(g) \in docs'["global"]
               PROVE  HistoryIn("global", g)' /\ Companions("global", g, IdOf[g])'
    BY DEF Intact, DocOf
  <2>1. HistoryIn("global", g) /\ Companions("global", g, IdOf[g])
    BY <1>6 DEF KeptInv, Intact
  <2>2. Companions("global", g, IdOf[g])'
    BY <1>6, <2>1 DEF Companions
  <2> QED  BY <1>9, <2>1, <2>2
<1>11. \A d \in docs'["global"] : d.of # f
  BY <1>2, <1>6, DocsAre DEF OriginInv
<1>12. NoDerived("chunks", f)'
  BY <1>6 DEF NoDerived, OriginInv
<1>13. call'[c].file = f /\ call'[c].step = "note"
  BY <1>3 DEF Moves, Alike
<1>14. Cleared(c)'
  BY <1>11, <1>12, <1>13 DEF Cleared, Past, Deleting, NoDerived
<1> QED  BY <1>1, <1>3, <1>5, <1>7, <1>9, <1>10, <1>14, DeletesKept

LEMMA DeleteDerivedKept ==
  ASSUME CallsInv, OriginInv, KeptInv, Shrinks, NEW c \in Callers, NEW kind, NEW next,
         <<kind, next>> \in {<<"note", "embedding">>, <<"embedding", "events">>},
         DeleteDerived(c, kind, next), NEW f, f = call[c].file
  PROVE  KeptInv'
<1>1. call[c].step = kind /\ kind \in Deleting /\ next \in Deleting /\ next \in Steps
  BY StepsAre DEF DeleteDerived, At, Deleting
<1>2. /\ f \in Moved /\ f \in Files /\ call[c].row.id = IdOf[f] /\ call[c].row # Nothing /\ TypeOK
  BY <1>1, DeleterIs DEF CallsInv
<1>3. Moves(c, next)
  BY <1>1, <1>2, GotoIs DEF DeleteDerived
<1>4. /\ derived \in [Dbs -> SUBSET [kind : DerivedKinds, id : Nat, of : Files]]
      /\ "global" \in Dbs /\ "zone" \in Dbs /\ "zone" # "global"
  BY <1>2, TablesAre DEF Dbs
<1>5. /\ derived' = [derived EXCEPT !["global"] = {r \in @ : r.kind # kind \/ r.id # IdOf[f]}]
      /\ UNCHANGED <<docs, registry, logs, active>>
  BY <1>2 DEF DeleteDerived
<1>6. derived'["global"] = {r \in derived["global"] : r.kind # kind \/ r.id # IdOf[f]}
  BY <1>4, <1>5
<1>7. SameZone
  BY <1>4, <1>5 DEF SameZone
<1>8. \A g : HistoryIn("global", g) => HistoryIn("global", g)'
  BY <1>5 DEF HistoryIn
<1>9. \A d \in docs["global"] : d.of # f
  <2>1. Past(c, Deleting \ {"document"})
    BY <1>1, <1>2 DEF Past, Deleting
  <2> QED  BY <2>1 DEF KeptInv, Cleared
<1>10. ASSUME NEW g \in Files PROVE Intact(g)'
  <2> SUFFICES ASSUME DocOf(g) \in docs["global"]
               PROVE  HistoryIn("global", g)' /\ Companions("global", g, IdOf[g])'
    BY <1>5 DEF Intact, DocOf
  <2>1. HistoryIn("global", g) /\ Companions("global", g, IdOf[g])
    BY DEF KeptInv, Intact
  <2>2. g \in Moved /\ g # f
    BY <1>9, DocsAre DEF OriginInv
  <2>3. IdOf[g] # IdOf[f]
    BY <1>2, <2>2, MovedIds
  <2>4. \A k \in {"note", "embedding"} :
          [kind |-> k, id |-> IdOf[g], of |-> g] \in derived'["global"]
    <3> SUFFICES ASSUME NEW k \in {"note", "embedding"}
                 PROVE  [kind |-> k, id |-> IdOf[g], of |-> g] \in derived'["global"]
      OBVIOUS
    <3> DEFINE row == [kind |-> k, id |-> IdOf[g], of |-> g]
    <3>1. row \in derived["global"] /\ row.id = IdOf[g]
      BY <2>1 DEF Companions
    <3> HIDE DEF row
    <3>2. row \in derived'["global"]
      BY <1>6, <2>3, <3>1
    <3> QED  BY <3>2 DEF row
  <2>5. Companions("global", g, IdOf[g])'
    BY <2>4 DEF Companions
  <2> QED  BY <1>8, <2>1, <2>5
<1>11. NoDerived(kind, f)'
  BY <1>6 DEF NoDerived, OriginInv
<1>12. \A k : NoDerived(k, f) => NoDerived(k, f)'
  BY <1>6 DEF NoDerived
<1>13. call'[c].file = f /\ call'[c].step = next
  BY <1>3 DEF Moves, Alike
<1>14. Cleared(c)'
  <2>1. Cleared(c)
    BY DEF KeptInv
  <2>2. CASE kind = "note" /\ next = "embedding"
    <3>1. Past(c, Deleting \ {"document"})
      BY <1>1, <1>2, <2>2 DEF Past, Deleting
    <3>2. NoDerived("chunks", f)' /\ NoDerived("note", f)'
      BY <1>11, <1>12, <2>1, <2>2, <3>1 DEF Cleared
    <3> QED  BY <1>5, <1>9, <1>13, <2>2, <3>2 DEF Cleared, Past, Deleting, NoDerived
  <2>3. CASE kind = "embedding" /\ next = "events"
    <3>1. Past(c, Deleting \ {"document"}) /\ Past(c, Deleting \ {"document", "note"})
      BY <1>1, <1>2, <2>3 DEF Past, Deleting
    <3>2. NoDerived("chunks", f)' /\ NoDerived("note", f)' /\ NoDerived("embedding", f)'
      BY <1>11, <1>12, <2>1, <2>3, <3>1 DEF Cleared
    <3> QED  BY <1>5, <1>9, <1>13, <2>3, <3>2 DEF Cleared, Past, Deleting, NoDerived
  <2>4. (kind = "note" /\ next = "embedding") \/ (kind = "embedding" /\ next = "events")
    OBVIOUS
  <2> QED  BY <2>2, <2>3, <2>4
<1> QED  BY <1>1, <1>3, <1>5, <1>7, <1>8, <1>10, <1>14, DeletesKept

(* The steps after the embedding: the document and all that hangs on it are   *)
(* gone.                                                                      *)
LEMMA DocumentGone ==
  ASSUME CallsInv, KeptInv, NEW c \in Callers,
         call[c].step \in {"events", "versions", "state", "registry"}, NEW f, f = call[c].file
  PROVE  /\ \A d \in docs["global"] : d.of # f
         /\ NoDerived("chunks", f) /\ NoDerived("note", f) /\ NoDerived("embedding", f)
<1>1. call[c].row # Nothing
  BY DEF CallsInv, CallOK, Deleting
<1>2. /\ Past(c, Deleting \ {"document"}) /\ Past(c, Deleting \ {"document", "note"})
      /\ Past(c, {"events", "versions", "state", "registry"})
  BY <1>1 DEF Past, Deleting
<1> QED  BY <1>2 DEF KeptInv, Cleared

LEMMA DeleteLogKept ==
  ASSUME CallsInv, OriginInv, KeptInv, Shrinks, NEW c \in Callers, NEW kind, NEW next,
         <<kind, next>> \in
           {<<"events", "versions">>, <<"versions", "state">>, <<"state", "registry">>},
         DeleteLog(c, kind, next), NEW f, f = call[c].file
  PROVE  KeptInv'
<1>1. /\ call[c].step = kind /\ kind \in Deleting /\ next \in Deleting /\ next \in Steps
      /\ kind \in {"events", "versions", "state", "registry"} /\ next # "ok"
  BY StepsAre DEF DeleteLog, At, Deleting
<1>2. /\ f \in Moved /\ f \in Files /\ call[c].uid = f /\ active = "global" /\ TypeOK
  BY <1>1, DeleterIs DEF CallsInv
<1>3. Moves(c, next)
  BY <1>1, <1>2, GotoIs DEF DeleteLog
<1>4. /\ logs \in [Dbs -> SUBSET [uid : Files, kind : LogKinds]]
      /\ "global" \in Dbs /\ "zone" \in Dbs /\ "zone" # "global"
  BY <1>2, TablesAre DEF Dbs
<1>5. /\ logs' = [logs EXCEPT !["global"] = @ \ {[uid |-> f, kind |-> kind]}]
      /\ UNCHANGED <<docs, derived, registry, active>>
  BY <1>2 DEF DeleteLog
<1>6. logs'["global"] = logs["global"] \ {[uid |-> f, kind |-> kind]}
  BY <1>4, <1>5
<1>7. SameZone
  BY <1>4, <1>5 DEF SameZone
<1>8. ASSUME NEW g \in Files, g # f, HistoryIn("global", g) PROVE HistoryIn("global", g)'
  <2>1. \A k \in LogKinds : [uid |-> g, kind |-> k] # [uid |-> f, kind |-> kind]
    BY <1>8
  <2> QED  BY <1>5, <1>6, <1>8, <2>1 DEF HistoryIn
<1>9. /\ \A d \in docs["global"] : d.of # f
      /\ NoDerived("chunks", f) /\ NoDerived("note", f) /\ NoDerived("embedding", f)
  BY <1>1, DocumentGone
<1>10. ASSUME NEW g \in Files PROVE Intact(g)'
  <2> SUFFICES ASSUME DocOf(g) \in docs["global"]
               PROVE  HistoryIn("global", g)' /\ Companions("global", g, IdOf[g])'
    BY <1>5 DEF Intact, DocOf
  <2>1. HistoryIn("global", g) /\ Companions("global", g, IdOf[g])
    BY DEF KeptInv, Intact
  <2>2. g # f
    BY <1>9, DocsAre
  <2>3. Companions("global", g, IdOf[g])'
    BY <1>5, <2>1 DEF Companions
  <2> QED  BY <1>8, <2>1, <2>2, <2>3
<1>11. call'[c].file = f /\ call'[c].step = next
  BY <1>3 DEF Moves, Alike
<1>12. Cleared(c)'
  BY <1>1, <1>5, <1>9, <1>11 DEF Cleared, Past, NoDerived
<1> QED  BY <1>1, <1>3, <1>5, <1>7, <1>8, <1>10, <1>12, DeletesKept

LEMMA DeleteRegistryKept ==
  ASSUME CallsInv, OriginInv, KeptInv, Shrinks, NEW c \in Callers, DeleteRegistry(c),
         NEW f, f = call[c].file
  PROVE  KeptInv'
<1>1. call[c].step = "registry" /\ call[c].step \in Deleting /\ "ok" \in Steps
  BY StepsAre DEF DeleteRegistry, At, Deleting, Ended
<1>2. /\ f \in Moved /\ f \in Files /\ call[c].uid = f /\ active = "global" /\ TypeOK
  BY <1>1, DeleterIs DEF CallsInv
<1>3. Moves(c, "ok")
  BY <1>1, <1>2, GotoIs DEF DeleteRegistry
<1>4. /\ registry \in [Dbs -> SUBSET [uid : Files, path : Paths, docId : Nat]]
      /\ logs \in [Dbs -> SUBSET [uid : Files, kind : LogKinds]]
      /\ "global" \in Dbs /\ "zone" \in Dbs /\ "zone" # "global"
  BY <1>2, TablesAre DEF Dbs
<1>5. /\ registry' = [registry EXCEPT !["global"] = {r \in @ : r.uid # f}]
      /\ logs' = [logs EXCEPT !["global"] = LogsWithout("global", {f})]
      /\ UNCHANGED <<docs, derived, active>>
  BY <1>2 DEF DeleteRegistry
<1>6. /\ registry'["global"] = {r \in registry["global"] : r.uid # f}
      /\ logs'["global"] = {l \in logs["global"] : l.uid # f}
  BY <1>4, <1>5 DEF LogsWithout
<1>7. SameZone
  BY <1>4, <1>5 DEF SameZone
<1>8. ASSUME NEW g \in Files, g # f, HistoryIn("global", g) PROVE HistoryIn("global", g)'
  <2>1. \A k \in LogKinds : [uid |-> g, kind |-> k] \in logs'["global"]
    BY <1>6, <1>8 DEF HistoryIn
  <2> QED  BY <1>6, <1>8, <2>1 DEF HistoryIn
<1>9. /\ \A d \in docs["global"] : d.of # f
      /\ NoDerived("chunks", f) /\ NoDerived("note", f) /\ NoDerived("embedding", f)
  BY <1>1, DocumentGone
<1>10. ASSUME NEW g \in Files PROVE Intact(g)'
  <2> SUFFICES ASSUME DocOf(g) \in docs["global"]
               PROVE  HistoryIn("global", g)' /\ Companions("global", g, IdOf[g])'
    BY <1>5 DEF Intact, DocOf
  <2>1. HistoryIn("global", g) /\ Companions("global", g, IdOf[g])
    BY DEF KeptInv, Intact
  <2>2. g # f
    BY <1>9, DocsAre
  <2>3. Companions("global", g, IdOf[g])'
    BY <1>5, <2>1 DEF Companions
  <2> QED  BY <1>8, <2>1, <2>2, <2>3
<1>11. call'[c].file = f
  BY <1>3 DEF Moves, Alike
<1>12. Cleared(c)'
  BY <1>5, <1>6, <1>9, <1>11 DEF Cleared, NoDerived
<1> QED  BY <1>1, <1>3, <1>5, <1>7, <1>8, <1>10, <1>12, DeletesKept

LEMMA KeptStep ==
  ASSUME CallsInv, OriginInv, ~aside => KeptInv, [Next]_vars, ~aside'
  PROVE  KeptInv'
<1>1. ~aside
  <2>2. ASSUME NEW c \in Callers, Read(c) PROVE ~aside
    BY <2>2, ReadIs
  <2>3. ASSUME NEW c \in Callers, Commit(c) PROVE ~aside
    BY <2>3 DEF Commit
  <2>4. ASSUME NEW c \in Callers,
               \/ \E f \in Files : Begin(c, f)
               \/ Rename(c) \/ RenameFails(c) \/ Copy(c) \/ CopyFails(c) \/ Unlink(c)
               \/ OpenZoneDb(c) \/ CommitFails(c) \/ DeleteDocument(c)
               \/ DeleteDerived(c, "note", "embedding") \/ DeleteDerived(c, "embedding", "events")
               \/ EndWithoutRegistry(c)
               \/ DeleteLog(c, "events", "versions") \/ DeleteLog(c, "versions", "state")
               \/ DeleteLog(c, "state", "registry") \/ DeleteRegistry(c)
        PROVE  UNCHANGED aside
    BY <2>4 DEF Begin, Rename, RenameFails, Copy, CopyFails, Unlink, OpenZoneDb, CommitFails,
                DeleteDocument, DeleteDerived, EndWithoutRegistry, DeleteLog, DeleteRegistry
  <2>5. ASSUME (\E db \in Dbs : OpenDb(db)) \/ Crash \/ UNCHANGED vars PROVE UNCHANGED aside
    BY <2>5 DEF OpenDb, Crash, vars
  <2> QED  BY <2>2, <2>3, <2>4, <2>5 DEF Next
<1>2. KeptInv /\ Shrinks
  BY <1>1, ShrinksAlways
<1>3. ASSUME NEW c \in Callers, Commit(c) PROVE KeptInv'
  <2> DEFINE ids == {d.id : d \in ReplacedDocs(c)}
             uids == {q.uid : q \in ReplacedRegistry(c)}
             f == call[c].file
  <2>1. ids = {d.id : d \in ReplacedDocs(c)} /\ uids = {q.uid : q \in ReplacedRegistry(c)}
        /\ f = call[c].file
    OBVIOUS
  <2> HIDE DEF ids, uids, f
  <2> QED  BY <1>2, <1>3, <2>1, CommitKept
<1>4. ASSUME NEW c \in Callers, EndWithoutRegistry(c) PROVE FALSE
  <2>1. call[c].step \in Deleting /\ call[c].uid = Nothing
    BY <1>4 DEF EndWithoutRegistry, At, Deleting
  <2> QED  BY <1>2, <2>1, DeleterIs
<1>5. ASSUME NEW c \in Callers, DeleteDocument(c) PROVE KeptInv'
  BY <1>2, <1>5, DeleteDocumentKept
<1>6. ASSUME NEW c \in Callers,
             DeleteDerived(c, "note", "embedding") \/ DeleteDerived(c, "embedding", "events")
      PROVE  KeptInv'
  BY <1>2, <1>6, DeleteDerivedKept
<1>7. ASSUME NEW c \in Callers,
             \/ DeleteLog(c, "events", "versions") \/ DeleteLog(c, "versions", "state")
             \/ DeleteLog(c, "state", "registry")
      PROVE  KeptInv'
  BY <1>2, <1>7, DeleteLogKept
<1>8. ASSUME NEW c \in Callers, DeleteRegistry(c) PROVE KeptInv'
  BY <1>2, <1>8, DeleteRegistryKept
<1>9. ASSUME UNCHANGED vars PROVE KeptInv'
  <2>1. UNCHANGED <<tables, documented, call, active>>
    BY <1>9 DEF vars, bounds
  <2>2. \A c \in Callers : Knows(c)'
    BY <1>2, <2>1 DEF KeptInv, Knows, Moved, DocOf
  <2>3. \A c \in Callers : call'[c].step \in Deleting => active' = "global"
    BY <1>2, <2>1 DEF KeptInv
  <2> QED  BY <1>2, <2>1, <2>2, <2>3, QuietKept
<1> QED
  BY <1>2, <1>3, <1>4, <1>5, <1>6, <1>7, <1>8, <1>9, QuietActions, OpenDbKept, CrashKept DEF Next

LEMMA RowsAlways == Spec => [](CallsInv /\ RowsInv)
<1>1. Init => RowsInv
  BY OriginInit, KeptInit DEF RowsInv
<1>2. CallsInv /\ RowsInv /\ [Next]_vars => RowsInv'
  BY OriginStep, KeptStep DEF RowsInv
<1> QED
  BY <1>1, <1>2, CallsAlways, PTL DEF Spec

(* The lifecycle of a document is complete in one of the two databases at      *)
(* every step of file_to_zone (zone_impl.hh:142-302): none of it is deleted    *)
(* before all of it is committed, for any number of calls and crashes.         *)
THEOREM HistoryIsKept == Spec => []HistoryKept
<1>1. CallsInv /\ RowsInv => HistoryKept
  <2> SUFFICES ASSUME CallsInv, RowsInv, ~aside, NEW f \in documented
               PROVE  Superseded(f) \/ \E db \in Dbs : HistoryIn(db, f)
    BY DEF HistoryKept
  <2>1. f \in Files /\ Safe(f) /\ Landed(f)
    BY DEF RowsInv, KeptInv, CallsInv, TypeOK
  <2>2. HistoryIn("global", f) \/ Superseded(f) \/ HistoryIn("zone", f)
    BY <2>1 DEF Safe, Landed, AtHome
  <2> QED  BY <2>2 DEF Dbs
<1> QED  BY <1>1, RowsAlways, PTL

(* A document that was filed (zone_impl.hh:185-302) is in the zone with its     *)
(* notes, embedding and registry row under one id, and of all it had in the     *)
(* global database the full-text row alone is left.                             *)
THEOREM ZoneIsSound == Spec => []ZoneSound
<1>1. CallsInv /\ RowsInv => ZoneSound
  <2> SUFFICES ASSUME CallsInv, RowsInv PROVE ZoneSound
    OBVIOUS
  <2>1. ASSUME NEW f \in Files, Filed(f), ~Superseded(f), ~aside
        PROVE  /\ \E d \in docs["zone"] :
                    /\ d.path = In(NameOf[f]) /\ d.of = f
                    /\ \A k \in {"note", "embedding"} :
                         [kind |-> k, id |-> d.id, of |-> f] \in derived["zone"]
                    /\ [uid |-> f, path |-> d.path, docId |-> d.id] \in registry["zone"]
               /\ \A d \in docs["global"] : d.of # f
               /\ \A r \in derived["global"] : r.of = f => r.kind = "fts"
               /\ \A r \in registry["global"] : r.uid # f
               /\ \A l \in logs["global"] : l.uid # f
    <3>1. PICK c \in Callers : call[c].step = "ok" /\ call[c].file = f /\ call[c].row # Nothing
      BY <2>1 DEF Filed, At
    <3>2. KeptInv /\ Landed(f) /\ Cleared(c)
      BY <2>1 DEF RowsInv, KeptInv
    <3>3. Written(f)
      BY <3>1 DEF Written
    <3>4. AtHome(f)
      BY <2>1, <3>2, <3>3 DEF Landed
    <3>5. \A steps : Past(c, steps)
      BY <3>1 DEF Past
    <3>6. /\ \A d \in docs["global"] : d.of # f
          /\ NoDerived("chunks", f) /\ NoDerived("note", f) /\ NoDerived("embedding", f)
          /\ \A r \in registry["global"] : r.uid # f
          /\ \A l \in logs["global"] : l.uid # f
      BY <3>1, <3>2, <3>5 DEF Cleared
    <3>7. ASSUME NEW r \in derived["global"], r.of = f PROVE r.kind = "fts"
      <4>1. r.kind \in DerivedKinds
        BY DEF CallsInv, TypeOK, Dbs
      <4> QED  BY <3>6, <3>7, <4>1 DEF NoDerived, DerivedKinds
    <3> QED  BY <3>4, <3>6, <3>7 DEF AtHome, Companions
  <2>2. OneHome
    BY <2>1 DEF OneHome
  <2> QED  BY <2>2 DEF ZoneSound, CallsInv
<1> QED  BY <1>1, RowsAlways, PTL

=============================================================================
