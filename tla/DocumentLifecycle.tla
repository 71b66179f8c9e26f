------------------------- MODULE DocumentLifecycle -------------------------
(***************************************************************************)
(* DocumentLifecycleService: the registry, the state rows, the event log   *)
(* and the content versions of the documents of one SQLite database.       *)
(*                                                                         *)
(* Every method holds db_mutex from its first statement to its last, so    *)
(* one call runs at a time; but no method opens a transaction, so every    *)
(* INSERT and UPDATE commits on its own and the process may die between    *)
(* two of them.  An action is one statement together with the reads that   *)
(* decide it.  A call that fails before its first write leaves no trace    *)
(* and is a stuttering step.                                               *)
(***************************************************************************)
EXTENDS Integers

CONSTANTS
  Paths,        \* file paths (a path keys both documents and registry rows)
  Uids,         \* values generate_uid can return; each is drawn at most once
  Hashes,       \* text hashes of extracted contents
  Targets,      \* states a caller of transition_state asks for
  NoRow,        \* "no such row" in a table
  NoUid,        \* no document: the idle service
  NoHash,       \* the hash field of an event that carries none
  MaxDocId,     \* bound on the AUTOINCREMENT ids of dms_documents
  MaxEventNo,   \* a call starts only on a document with fewer events
  MaxCrashes    \* bound on process deaths in the middle of a call

DocumentStates == {"INPUT", "PROCESSING", "INDEXED", "REVIEW", "ACTIVE",
                   "ARCHIVED", "FINISHED", "ERROR"}
EventTypes == {"CREATED", "STATE_CHANGED", "TEXT_EXTRACTED"}

(* state_from of a CREATED event is the empty string.                      *)
NoState == ""

RegistryRow == [path : Paths, docId : Nat]     \* docId 0 stands for NULL
StateRow == [state : DocumentStates, eventNo : Nat, version : Nat, archived : BOOLEAN]
Event == [uid : Uids, no : Nat, type : EventTypes,
          from : DocumentStates \cup {NoState}, to : DocumentStates,
          hash : Hashes \cup {NoHash}]
Version == [uid : Uids, no : Nat, hash : Hashes, event : Nat]

ASSUME ConstantsAssumption ==
  /\ Targets \subseteq DocumentStates
  /\ NoRow \notin RegistryRow
  /\ NoRow \notin StateRow
  /\ NoUid \notin Uids
  /\ NoHash \notin Hashes
  /\ MaxDocId \in Nat
  /\ MaxEventNo \in Nat
  /\ MaxCrashes \in Nat

VARIABLES
  documents,    \* dms_documents: path -> row id, 0 when there is no row
  lastDocId,    \* the AUTOINCREMENT counter of dms_documents
  registry,     \* dms_document_registry, by document_uid
  states,       \* dms_document_states, by document_uid
  events,       \* dms_document_events
  versions,     \* dms_document_content_versions
  call,         \* the call that holds db_mutex: its next statement and locals
  crashes       \* process deaths so far

tables == <<documents, lastDocId, registry, states, events, versions>>
vars == <<documents, lastDocId, registry, states, events, versions, call, crashes>>

Ops == {"none", "ensure", "transition", "text"}
Steps == {"idle", "insert_state", "append_created", "bump_created", "bump_text",
          "insert_version", "bump_version", "append_indexed", "bump_change", "set_state"}

Call == [op : Ops, step : Steps, uid : Uids \cup {NoUid},
         from : DocumentStates \cup {NoState}, to : DocumentStates \cup {NoState},
         no : Nat, hash : Hashes \cup {NoHash}, fresh : BOOLEAN]

Idle == [op |-> "none", step |-> "idle", uid |-> NoUid, from |-> NoState,
         to |-> NoState, no |-> 0, hash |-> NoHash, fresh |-> FALSE]

Init ==
  /\ documents = [p \in Paths |-> 0]
  /\ lastDocId = 0
  /\ registry = [u \in Uids |-> NoRow]
  /\ states = [u \in Uids |-> NoRow]
  /\ events = {}
  /\ versions = {}
  /\ call = Idle
  /\ crashes = 0

-----------------------------------------------------------------------------
(* Queries and constraints of the tables.                                  *)

Registered(u) == registry[u] # NoRow
HasState(u) == states[u] # NoRow
EventsOf(u) == {e \in events : e.uid = u}
VersionsOf(u) == {v \in versions : v.uid = u}

LiveDoc(d) == \E p \in Paths : d # 0 /\ documents[p] = d
ByPath(u, p) == Registered(u) /\ registry[u].path = p

(* The lookup of ensure_document: by path, and only if that finds nothing  *)
(* by document id.                                                         *)
Found(u, p, d) ==
  \/ ByPath(u, p)
  \/ /\ \A v \in Uids : ~ByPath(v, p)
     /\ d > 0
     /\ Registered(u)
     /\ registry[u].docId = d

(* Mutant: the schema lacks UNIQUE (document_uid, event_no).               *)
EventTakenUnindexed(u, n) == FALSE

(* UNIQUE (document_uid, event_no) and UNIQUE (document_uid, version_no).  *)
EventTaken(u, n) == \E e \in events : e.uid = u /\ e.no = n
VersionTaken(u, n) == \E v \in versions : v.uid = u /\ v.no = n

NextNo(u) == states[u].eventNo + 1

(* append_event_locked up to its INSERT: it reads the counter of the state *)
(* row, which must exist, and inserts the next event.                      *)
InsertEvent(u, type, from, to, h) ==
  /\ HasState(u)
  /\ ~EventTaken(u, NextNo(u))
  /\ events' = events \cup {[uid |-> u, no |-> NextNo(u), type |-> type,
                             from |-> from, to |-> to, hash |-> h]}

(* Mutant: every extraction counts as new text.                            *)
LatestTextNeverEqual(u, h) == FALSE

(* The newest text version by version number, whatever the counter says.   *)
LatestTextIs(u, h) ==
  \E v \in VersionsOf(u) :
     /\ \A w \in VersionsOf(u) : w.no <= v.no
     /\ v.hash = h

-----------------------------------------------------------------------------
(* Mutant: the registry's foreign key lacks ON DELETE SET NULL.             *)
UpsertKeepsReference(p) ==
  /\ call.step = "idle"
  /\ lastDocId < MaxDocId
  /\ lastDocId' = lastDocId + 1
  /\ documents' = [documents EXCEPT ![p] = lastDocId + 1]
  /\ UNCHANGED <<registry, states, events, versions, call, crashes>>

(* index_one's INSERT OR REPLACE, and register_file's INSERT of a path that *)
(* has no row yet: the path gets a fresh row id, and the foreign key of the *)
(* registry forgets the row that was replaced (ON DELETE SET NULL).         *)
UpsertDocument(p) ==
  /\ call.step = "idle"
  /\ lastDocId < MaxDocId
  /\ lastDocId' = lastDocId + 1
  /\ documents' = [documents EXCEPT ![p] = lastDocId + 1]
  /\ registry' = [u \in Uids |->
                    IF Registered(u) /\ registry[u].docId = documents[p]
                    THEN [registry[u] EXCEPT !.docId = 0]
                    ELSE registry[u]]
  /\ UNCHANGED <<states, events, versions, call, crashes>>

(* ensure_document on a registered document: one UPDATE.  The foreign key   *)
(* rejects a doc_id that is no live row; 0 is not NULL and is rejected too, *)
(* so the first call of index_one, which passes 0, always fails.            *)
EnsureExisting(p, d, u) ==
  /\ call.step = "idle"
  /\ Found(u, p, d)
  /\ LiveDoc(d)
  /\ registry' = [registry EXCEPT ![u] = [path |-> p, docId |-> d]]
  /\ UNCHANGED <<documents, lastDocId, states, events, versions, call, crashes>>

(* ensure_document on a new document: three INSERTs and an UPDATE.          *)
EnsureNew(p, d, u) ==
  /\ call.step = "idle"
  /\ \A v \in Uids : ~Found(v, p, d)
  /\ ~Registered(u)
  /\ LiveDoc(d)
  /\ registry' = [registry EXCEPT ![u] = [path |-> p, docId |-> d]]
  /\ call' = [Idle EXCEPT !.op = "ensure", !.step = "insert_state", !.uid = u]
  /\ UNCHANGED <<documents, lastDocId, states, events, versions, crashes>>

InsertState ==
  /\ call.step = "insert_state"
  /\ states' = [states EXCEPT ![call.uid] =
                  [state |-> "INPUT", eventNo |-> 0, version |-> 0, archived |-> FALSE]]
  /\ call' = [call EXCEPT !.step = "append_created"]
  /\ UNCHANGED <<documents, lastDocId, registry, events, versions, crashes>>

(* Mutant: state_from and state_to are passed in the wrong order.           *)
AppendCreatedSwapped ==
  /\ call.step = "append_created"
  /\ InsertEvent(call.uid, "CREATED", "INPUT", NoState, NoHash)
  /\ call' = [call EXCEPT !.step = "bump_created", !.no = NextNo(call.uid)]
  /\ UNCHANGED <<documents, lastDocId, registry, states, versions, crashes>>

AppendCreated ==
  /\ call.step = "append_created"
  /\ InsertEvent(call.uid, "CREATED", NoState, "INPUT", NoHash)
  /\ call' = [call EXCEPT !.step = "bump_created", !.no = NextNo(call.uid)]
  /\ UNCHANGED <<documents, lastDocId, registry, states, versions, crashes>>

(* Mutant: the state is written and the event is forgotten.                 *)
TransitionWithoutEvent(u, s) ==
  /\ call.step = "idle"
  /\ Registered(u)
  /\ HasState(u)
  /\ states[u].state # s
  /\ states' = [states EXCEPT ![u].state = s]
  /\ UNCHANGED <<documents, lastDocId, registry, events, versions, call, crashes>>

(* Mutant: an error of append_event_locked does not end the call.           *)
TransitionIgnoresAppendError(u, s) ==
  /\ call.step = "idle"
  /\ Registered(u)
  /\ HasState(u)
  /\ EventTaken(u, NextNo(u))
  /\ states' = [states EXCEPT ![u].state = s]
  /\ UNCHANGED <<documents, lastDocId, registry, events, versions, call, crashes>>

(* transition_state up to the INSERT of its event.  Any state may follow    *)
(* any other; asking for the state the document is in writes nothing.       *)
Transition(u, s) ==
  /\ call.step = "idle"
  /\ Registered(u)
  /\ HasState(u)
  /\ states[u].eventNo < MaxEventNo
  /\ states[u].state # s
  /\ InsertEvent(u, "STATE_CHANGED", states[u].state, s, NoHash)
  /\ call' = [Idle EXCEPT !.op = "transition", !.step = "bump_change", !.uid = u,
                          !.from = states[u].state, !.to = s, !.no = NextNo(u)]
  /\ UNCHANGED <<documents, lastDocId, registry, states, versions, crashes>>

(* record_text_extraction up to the INSERT of its first event.  Whether the *)
(* text is new is decided here, before anything is written.                 *)
RecordText(u, h) ==
  /\ call.step = "idle"
  /\ Registered(u)
  /\ HasState(u)
  /\ states[u].eventNo < MaxEventNo
  /\ InsertEvent(u, "TEXT_EXTRACTED", states[u].state, states[u].state, h)
  /\ call' = [op |-> "text", step |-> "bump_text", uid |-> u,
              from |-> states[u].state, to |-> "INDEXED", no |-> NextNo(u),
              hash |-> h, fresh |-> ~LatestTextIs(u, h)]
  /\ UNCHANGED <<documents, lastDocId, registry, states, versions, crashes>>

(* Mutant: the state is set without an event.                               *)
ThenSetState == IF call.from = "INDEXED" THEN Idle ELSE [call EXCEPT !.step = "set_state"]

(* What record_text_extraction does once the text is dealt with.            *)
ThenIndex == IF call.from = "INDEXED" THEN Idle ELSE [call EXCEPT !.step = "append_indexed"]

(* append_event_locked's UPDATE, and what the caller goes on with.          *)
BumpEventNo(step, next) ==
  /\ call.step = step
  /\ states' = [states EXCEPT ![call.uid].eventNo = call.no]
  /\ call' = next
  /\ UNCHANGED <<documents, lastDocId, registry, events, versions, crashes>>

BumpCreated == BumpEventNo("bump_created", Idle)
BumpChange == BumpEventNo("bump_change", [call EXCEPT !.step = "set_state"])
BumpText == BumpEventNo("bump_text",
              IF call.fresh THEN [call EXCEPT !.step = "insert_version"] ELSE ThenIndex)

InsertVersion ==
  /\ call.step = "insert_version"
  /\ ~VersionTaken(call.uid, states[call.uid].version + 1)
  /\ versions' = versions \cup {[uid |-> call.uid, no |-> states[call.uid].version + 1,
                                 hash |-> call.hash, event |-> call.no]}
  /\ call' = [call EXCEPT !.step = "bump_version"]
  /\ UNCHANGED <<documents, lastDocId, registry, states, events, crashes>>

(* The UNIQUE index throws: the call ends here, and its event stays.        *)
VersionConflict ==
  /\ call.step = "insert_version"
  /\ VersionTaken(call.uid, states[call.uid].version + 1)
  /\ call' = Idle
  /\ UNCHANGED <<documents, lastDocId, registry, states, events, versions, crashes>>

BumpVersion ==
  /\ call.step = "bump_version"
  /\ states' = [states EXCEPT ![call.uid].version = @ + 1]
  /\ call' = ThenIndex
  /\ UNCHANGED <<documents, lastDocId, registry, events, versions, crashes>>

AppendIndexed ==
  /\ call.step = "append_indexed"
  /\ InsertEvent(call.uid, "STATE_CHANGED", call.from, "INDEXED", NoHash)
  /\ call' = [call EXCEPT !.step = "bump_change", !.no = NextNo(call.uid)]
  /\ UNCHANGED <<documents, lastDocId, registry, states, versions, crashes>>

(* transition_state stamps or clears archived_at; record_text_extraction    *)
(* leaves it as it is, also when it takes a document out of the archive.    *)
ArchivedAfter(c, before) ==
  IF c.op = "text" THEN before
  ELSE c.to = "ARCHIVED" \/ (before /\ c.from # "ARCHIVED")

SetState ==
  /\ call.step = "set_state"
  /\ states' = [states EXCEPT ![call.uid].state = call.to,
                              ![call.uid].archived = ArchivedAfter(call, @)]
  /\ call' = Idle
  /\ UNCHANGED <<documents, lastDocId, registry, events, versions, crashes>>

(* The process dies between two statements; nothing repairs the tables when *)
(* it starts again.                                                         *)
Crash ==
  /\ call.step # "idle"
  /\ crashes < MaxCrashes
  /\ crashes' = crashes + 1
  /\ call' = Idle
  /\ UNCHANGED tables

(* The statements after the first of a call.                                *)
Continue ==
  \/ InsertState
  \/ AppendCreated
  \/ BumpCreated
  \/ BumpText
  \/ InsertVersion
  \/ VersionConflict
  \/ BumpVersion
  \/ AppendIndexed
  \/ BumpChange
  \/ SetState

Next ==
  \/ \E p \in Paths : UpsertDocument(p)
  \/ \E p \in Paths, u \in Uids : \E d \in {0, documents[p]} : EnsureExisting(p, d, u)
  \/ \E p \in Paths, u \in Uids : \E d \in {0, documents[p]} : EnsureNew(p, d, u)
  \/ \E u \in Uids, s \in Targets : Transition(u, s)
  \/ \E u \in Uids, h \in Hashes : RecordText(u, h)
  \/ Continue
  \/ Crash

Spec == Init /\ [][Next]_vars

-----------------------------------------------------------------------------
(* Properties.                                                              *)

TypeOK ==
  /\ documents \in [Paths -> Nat]
  /\ lastDocId \in Nat
  /\ registry \in [Uids -> RegistryRow \cup {NoRow}]
  /\ states \in [Uids -> StateRow \cup {NoRow}]
  /\ events \in SUBSET Event
  /\ versions \in SUBSET Version
  /\ call \in Call
  /\ crashes \in Nat

(* The events that move a document: its creation and its changes of state.  *)
IsMove(e) == e.type \in {"CREATED", "STATE_CHANGED"}
LastMove(e) == IsMove(e) /\ \A f \in EventsOf(e.uid) : IsMove(f) => f.no <= e.no

(* The log of a document runs ahead of its counter: append_event_locked     *)
(* inserted an event and never got to its UPDATE.                           *)
Ahead(u) == HasState(u) /\ EventTaken(u, NextNo(u))

(* The event numbers of a document are 1, 2, 3, ... without a gap and       *)
(* without a repetition, and latest_event_no is the last of them or, between *)
(* the INSERT and the UPDATE of append_event_locked and after a crash there, *)
(* the last but one: read-then-insert without a transaction keeps the log    *)
(* dense however often the process dies.                                    *)
EventNumbersDense ==
  /\ \A e, f \in events : e.uid = f.uid /\ e.no = f.no => e = f
  /\ \A u \in Uids :
       IF HasState(u)
       THEN LET numbers == {e.no : e \in EventsOf(u)}
            IN numbers \in {1..states[u].eventNo, 1..(states[u].eventNo + 1)}
       ELSE EventsOf(u) = {}

(* The state column never drifts from the log by more than one step: it is   *)
(* the state_to of the newest move, or its state_from when the UPDATE that   *)
(* should follow the event has not happened (and, after a crash, never will). *)
StateNearLog ==
  \A e \in events : LastMove(e) => states[e.uid].state \in {e.from, e.to}

(* A content version names the TEXT_EXTRACTED event it was cut from: the same *)
(* document and hash; versions follow the order of their events, and two      *)
(* neighbours differ, so re-indexing an unchanged file makes no version even  *)
(* when a crash left latest_content_version behind the table; and versions    *)
(* are numbered without a gap, at most one ahead of that counter.             *)
VersionProvenance ==
  /\ \A v \in versions : \E e \in events :
        /\ e.uid = v.uid
        /\ e.no = v.event
        /\ e.type = "TEXT_EXTRACTED"
        /\ e.hash = v.hash
  /\ \A v, w \in versions : v.uid = w.uid /\ v.no < w.no => v.event < w.event
  /\ \A v, w \in versions : v.uid = w.uid /\ w.no = v.no + 1 => v.hash # w.hash
  /\ \A u \in Uids : HasState(u) =>
       {v.no : v \in VersionsOf(u)} \in {1..states[u].version, 1..(states[u].version + 1)}

(* A registry row that holds a document id holds the id of the row for its   *)
(* own path, through every replacement of that row: no document's lifecycle  *)
(* is ever attached to another document's index entry.                       *)
RegistryFollowsDocument ==
  /\ \A u \in Uids : Registered(u) /\ registry[u].docId # 0
                      => documents[registry[u].path] = registry[u].docId
  /\ \A u, v \in Uids : Registered(u) /\ Registered(v) /\ registry[u].path = registry[v].path
                         => u = v

(* A document whose log is ahead of its counter is stuck for good: each       *)
(* append collides with the UNIQUE index and each caller gives up before it    *)
(* writes, so neither its state nor its logs ever change again.               *)
AheadIsForever ==
  [][\A u \in Uids : call.step = "idle" /\ Ahead(u) =>
       /\ states'[u] = states[u]
       /\ EventsOf(u)' = EventsOf(u)
       /\ VersionsOf(u)' = VersionsOf(u)]_vars

(* The log and the state a reader of the tables can rely on: the events that  *)
(* the counter covers, except a move whose UPDATE of the state is pending, and *)
(* no document before its CREATED event is counted.                            *)
SettledNo(u) ==
  IF ~HasState(u) THEN 0
  ELSE IF call.uid = u /\ call.step = "set_state" THEN states[u].eventNo - 1
  ELSE states[u].eventNo

SettledLog == [u \in Uids |-> [n \in 1..SettledNo(u) |->
                LET e == CHOOSE e \in EventsOf(u) : e.no = n
                IN [from |-> e.from, to |-> e.to]]]

SettledState == [u \in Uids |->
                  IF SettledNo(u) = 0 THEN NoState ELSE states[u].state]

Ideal == INSTANCE EventSourcedDocument
           WITH States <- DocumentStates, Initial <- "INPUT",
                log <- SettledLog, current <- SettledState

(* Until the first call is cut short the service implements the event-sourced *)
(* document its header promises: it starts in the ideal initial state and      *)
(* every statement is one move of the ideal log or a stutter.  The statements  *)
(* commit one by one and nothing replays the log, so a crash may part the two  *)
(* for good; what is left then is StateNearLog.                                *)
EventSourced ==
  Ideal!Init /\ [][crashes' = 0 => [Ideal!Next]_(Ideal!vars)]_vars
=============================================================================
