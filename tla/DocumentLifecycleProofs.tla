---------------------- MODULE DocumentLifecycleProofs ----------------------
(***************************************************************************)
(* Safety of DocumentLifecycle for every set of paths, documents and       *)
(* contents and any number of crashes.                                     *)
(*                                                                         *)
(* The inductive invariant is built in layers: the types together with     *)
(* what the running call knows about its document (TypeInv), the numbering *)
(* of the log (NumberInv), the relation of the last move to the state      *)
(* column and to the call (MoveInv), the events the versions were cut from *)
(* (VersionInv) and, for the refinement, the move each pending UPDATE      *)
(* belongs to (OriginInv).  The registry needs no more than the types.     *)
(***************************************************************************)
EXTENDS DocumentLifecycle, Sequences, TLAPS

(* The steps of a call that is to change, or may change, the state.         *)
ChangeSteps == {"bump_text", "insert_version", "bump_version", "append_indexed",
                "bump_change", "set_state"}

(* What the running call relies on without reading it again.                *)
CallOK ==
  /\ call.step # "idle" => call.uid \in Uids /\ Registered(call.uid)
  /\ call.step = "insert_state" => ~HasState(call.uid)
  /\ call.step \notin {"idle", "insert_state"} => HasState(call.uid)
  /\ call.step \in ChangeSteps => call.to \in DocumentStates
  /\ call.step \in {"bump_text", "insert_version"} => call.hash \in Hashes
  /\ \A u \in Uids : HasState(u) => Registered(u)

TypeInv == TypeOK /\ CallOK

LEMMA IdleType == Idle \in Call /\ Idle.step = "idle" /\ Idle.uid = NoUid
  BY DEF Idle, Call, Ops, Steps

LEMMA TypeInit == Init => TypeInv
<1> SUFFICES ASSUME Init PROVE TypeInv
  OBVIOUS
<1>1. TypeOK
  BY IdleType DEF Init, TypeOK
<1>2. CallOK
  BY IdleType DEF Init, CallOK, HasState, ChangeSteps
<1> QED  BY <1>1, <1>2 DEF TypeInv

(* A row of a present document is a row.                                    *)
LEMMA Rows ==
  ASSUME TypeOK, NEW u \in Uids
  PROVE  /\ Registered(u) => registry[u] \in RegistryRow
         /\ HasState(u) => states[u] \in StateRow
  BY DEF TypeOK, Registered, HasState

(* The event that InsertEvent adds is an event.                             *)
LEMMA InsertEventType ==
  ASSUME TypeOK, NEW u \in Uids, NEW type \in EventTypes,
         NEW from \in DocumentStates \cup {NoState}, NEW to \in DocumentStates,
         NEW h \in Hashes \cup {NoHash}, InsertEvent(u, type, from, to, h)
  PROVE  events' \in SUBSET Event /\ NextNo(u) \in Nat
<1>1. states[u].eventNo \in Nat
  BY Rows DEF InsertEvent, StateRow
<1> QED  BY <1>1 DEF TypeOK, InsertEvent, Event, NextNo

LEMMA TypeStep == TypeInv /\ [Next]_vars => TypeInv'
<1> SUFFICES ASSUME TypeInv, [Next]_vars PROVE TypeInv'
  OBVIOUS
<1> USE ConstantsAssumption, IdleType DEF TypeInv
<1>1. ASSUME NEW p \in Paths, UpsertDocument(p) PROVE TypeInv'
  <2>1. \A u \in Uids : Registered(u) <=> Registered(u)'
    BY <1>1, Rows DEF UpsertDocument, Registered, RegistryRow, TypeOK
  <2>2. TypeOK'
    BY <1>1, Rows DEF UpsertDocument, TypeOK, Registered, RegistryRow
  <2> QED  BY <1>1, <2>1, <2>2 DEF UpsertDocument, CallOK, HasState
<1>2. ASSUME NEW p \in Paths, NEW u \in Uids, NEW d \in {0, documents[p]},
             EnsureExisting(p, d, u)
      PROVE  TypeInv'
  <2>1. d \in Nat
    BY DEF TypeOK
  <2> QED  BY <1>2, <2>1 DEF EnsureExisting, TypeOK, CallOK, RegistryRow, Registered,
                             HasState, ChangeSteps
<1>3. ASSUME NEW p \in Paths, NEW u \in Uids, NEW d \in {0, documents[p]},
             EnsureNew(p, d, u)
      PROVE  TypeInv'
  <2>1. d \in Nat
    BY DEF TypeOK
  <2>2. TypeOK'
    BY <1>3, <2>1 DEF EnsureNew, TypeOK, RegistryRow, Call, Ops, Steps
  <2>3. /\ call'.step = "insert_state"
        /\ call'.uid = u
    BY <1>3 DEF EnsureNew, Idle
  <2> QED  BY <1>3, <2>1, <2>2, <2>3 DEF EnsureNew, TypeOK, CallOK, RegistryRow, Registered,
                                         HasState, ChangeSteps
<1>4. ASSUME InsertState PROVE TypeInv'
  <2> DEFINE row == [state |-> "INPUT", eventNo |-> 0, version |-> 0, archived |-> FALSE]
  <2>1. /\ call.uid \in Uids
        /\ call.step = "insert_state"
        /\ Registered(call.uid)
    BY <1>4 DEF InsertState, CallOK
  <2>2. row \in StateRow
    BY DEF StateRow, DocumentStates
  <2>3. /\ states' = [states EXCEPT ![call.uid] = row]
        /\ call' = [call EXCEPT !.step = "append_created"]
        /\ UNCHANGED <<documents, lastDocId, registry, events, versions, crashes>>
    BY <1>4 DEF InsertState
  <2> HIDE DEF row
  <2>4. row # NoRow
    BY <2>2
  <2>5. TypeOK'
    BY <2>1, <2>2, <2>3 DEF TypeOK, Call, Steps
  <2> QED  BY <2>1, <2>3, <2>4, <2>5 DEF TypeOK, CallOK, Registered, HasState, ChangeSteps, Call
<1>5. ASSUME AppendCreated PROVE TypeInv'
  <2>1. call.uid \in Uids
    BY <1>5 DEF AppendCreated, CallOK
  <2>2. events' \in SUBSET Event /\ NextNo(call.uid) \in Nat
    BY <1>5, <2>1, InsertEventType DEF AppendCreated, EventTypes, DocumentStates
  <2>3. TypeOK'
    BY <1>5, <2>1, <2>2 DEF AppendCreated, TypeOK, Call, Steps
  <2> QED  BY <1>5, <2>1, <2>3 DEF AppendCreated, TypeOK, CallOK, Registered, HasState,
                                  ChangeSteps, Call
<1>6. ASSUME NEW u \in Uids, NEW s \in Targets, Transition(u, s) PROVE TypeInv'
  <2>1. /\ states[u].state \in DocumentStates
        /\ s \in DocumentStates
    BY <1>6, Rows DEF Transition, StateRow
  <2>2. events' \in SUBSET Event /\ NextNo(u) \in Nat
    BY <1>6, <2>1, InsertEventType DEF Transition, EventTypes
  <2>3. call' \in Call
    BY <1>6, <2>1, <2>2 DEF Transition, Call, Ops, Steps, Idle
  <2>4. TypeOK'
    BY <1>6, <2>2, <2>3 DEF Transition, TypeOK
  <2>5. /\ call'.step = "bump_change"
        /\ call'.uid = u
        /\ call'.to = s
    BY <1>6 DEF Transition, Idle
  <2> QED  BY <1>6, <2>1, <2>4, <2>5 DEF Transition, CallOK, Registered, HasState,
                                       ChangeSteps
<1>7. ASSUME NEW u \in Uids, NEW h \in Hashes, RecordText(u, h) PROVE TypeInv'
  <2>1. states[u].state \in DocumentStates
    BY <1>7, Rows DEF RecordText, StateRow
  <2>2. events' \in SUBSET Event /\ NextNo(u) \in Nat
    BY <1>7, <2>1, InsertEventType DEF RecordText, EventTypes
  <2>3. (~LatestTextIs(u, h)) \in BOOLEAN
    OBVIOUS
  <2>4. call' \in Call
    BY <1>7, <2>1, <2>2, <2>3 DEF RecordText, Call, Ops, Steps, DocumentStates
  <2>5. TypeOK'
    BY <1>7, <2>2, <2>4 DEF RecordText, TypeOK
  <2> QED  BY <1>7, <2>5 DEF RecordText, CallOK, Registered, HasState, ChangeSteps,
                           DocumentStates
<1>8. ASSUME BumpCreated PROVE TypeInv'
  <2> QED  BY <1>8, Rows DEF BumpCreated, BumpEventNo, TypeOK, CallOK, Registered, HasState,
                           StateRow, ChangeSteps, Call, Steps
<1>9. ASSUME BumpChange PROVE TypeInv'
  <2> QED  BY <1>9, Rows DEF BumpChange, BumpEventNo, TypeOK, CallOK, Registered, HasState,
                           StateRow, ChangeSteps, Call, Steps
<1>10. ASSUME BumpText PROVE TypeInv'
  <2> QED  BY <1>10, Rows DEF BumpText, BumpEventNo, ThenIndex, TypeOK, CallOK, Registered,
                            HasState, StateRow, ChangeSteps, Call, Steps
<1>11. ASSUME InsertVersion PROVE TypeInv'
  <2>1. /\ call.uid \in Uids
        /\ call.hash \in Hashes
        /\ states[call.uid].version \in Nat
    BY <1>11, Rows DEF InsertVersion, CallOK, StateRow
  <2>2. versions' \in SUBSET Version
    BY <1>11, <2>1 DEF InsertVersion, TypeOK, Version, Call
  <2> QED  BY <1>11, <2>1, <2>2 DEF InsertVersion, TypeOK, CallOK, Registered, HasState,
                                  ChangeSteps, Call, Steps
<1>12. ASSUME VersionConflict PROVE TypeInv'
  <2> QED  BY <1>12 DEF VersionConflict, TypeOK, CallOK, Registered, HasState, ChangeSteps
<1>13. ASSUME BumpVersion PROVE TypeInv'
  <2> QED  BY <1>13, Rows DEF BumpVersion, ThenIndex, TypeOK, CallOK, Registered, HasState,
                            StateRow, ChangeSteps, Call, Steps
<1>14. ASSUME AppendIndexed PROVE TypeInv'
  <2>1. call.uid \in Uids /\ call.from \in DocumentStates \cup {NoState}
    BY <1>14 DEF AppendIndexed, CallOK, TypeOK, Call
  <2>2. events' \in SUBSET Event /\ NextNo(call.uid) \in Nat
    BY <1>14, <2>1, InsertEventType DEF AppendIndexed, EventTypes, DocumentStates
  <2>3. TypeOK'
    BY <1>14, <2>1, <2>2 DEF AppendIndexed, TypeOK, Call, Steps
  <2> QED  BY <1>14, <2>1, <2>3 DEF AppendIndexed, TypeOK, CallOK, Registered, HasState,
                                   ChangeSteps, Call
<1>15. ASSUME SetState PROVE TypeInv'
  <2>1. /\ call.uid \in Uids
        /\ states[call.uid] \in StateRow
        /\ call.to \in DocumentStates
    BY <1>15, Rows DEF SetState, CallOK, ChangeSteps
  <2>2. ArchivedAfter(call, states[call.uid].archived) \in BOOLEAN
    BY <2>1 DEF ArchivedAfter, StateRow
  <2> QED  BY <1>15, <2>1, <2>2 DEF SetState, TypeOK, CallOK, Registered, HasState, StateRow,
                                  ChangeSteps
<1>16. ASSUME Crash PROVE TypeInv'
  <2> QED  BY <1>16 DEF Crash, tables, TypeOK, CallOK, Registered, HasState, ChangeSteps
<1>17. ASSUME UNCHANGED vars PROVE TypeInv'
  <2> QED  BY <1>17 DEF vars, TypeOK, CallOK, Registered, HasState
<1> QED
  BY <1>1, <1>2, <1>3, <1>4, <1>5, <1>6, <1>7, <1>8, <1>9, <1>10, <1>11, <1>12, <1>13,
     <1>14, <1>15, <1>16, <1>17 DEF Next, Continue

(* The tables and the running call stay well typed, crashes included.       *)
THEOREM TypeCorrect == Spec => []TypeOK
<1>1. TypeInv => TypeOK
  BY DEF TypeInv
<1> QED  BY <1>1, TypeInit, TypeStep, PTL DEF Spec

-----------------------------------------------------------------------------
(* The numbering of the log.                                                *)

BumpSteps == {"bump_created", "bump_text", "bump_change"}

(* Every number up to the counter is taken, and none beyond the next one.   *)
TableNumbers ==
  /\ \A e, f \in events : e.uid = f.uid /\ e.no = f.no => e = f
  /\ \A u \in Uids : ~HasState(u) => EventsOf(u) = {}
  /\ \A u \in Uids : HasState(u) => \A n \in Nat :
       /\ 1 <= n /\ n <= states[u].eventNo => EventTaken(u, n)
       /\ EventTaken(u, n) => 1 <= n /\ n <= states[u].eventNo + 1

(* A call about to bump the counter has just inserted the event it counts.  *)
CallNumbers ==
  call.step \in BumpSteps => /\ call.no = NextNo(call.uid)
                            /\ EventTaken(call.uid, call.no)

NumberInv == TableNumbers /\ CallNumbers

LEMMA NumberInit == Init => NumberInv
  BY IdleType DEF Init, NumberInv, TableNumbers, CallNumbers, HasState, EventsOf, EventTaken,
                  BumpSteps

LEMMA NumbersImplyDense == TypeOK /\ NumberInv => EventNumbersDense
<1> SUFFICES ASSUME TypeOK, NumberInv PROVE EventNumbersDense
  OBVIOUS
<1> USE DEF NumberInv, TableNumbers
<1>1. ASSUME NEW u \in Uids, HasState(u)
      PROVE  {e.no : e \in EventsOf(u)} \in {1..states[u].eventNo, 1..(states[u].eventNo + 1)}
  <2> DEFINE numbers == {e.no : e \in EventsOf(u)}
             last == states[u].eventNo
  <2>1. last \in Nat
    BY <1>1, Rows DEF StateRow
  <2>2. \A n \in numbers : n \in Nat
    BY DEF TypeOK, Event, EventsOf
  <2>3. \A n \in Nat : n \in numbers <=> EventTaken(u, n)
    BY DEF EventsOf, EventTaken
  <2>4. \A n \in Nat :
          /\ 1 <= n /\ n <= last => n \in numbers
          /\ n \in numbers => 1 <= n /\ n <= last + 1
    BY <1>1, <2>3
  <2> HIDE DEF numbers, last
  <2>5. CASE last + 1 \in numbers
    <3>1. ASSUME NEW n \in Nat PROVE n \in numbers <=> n \in 1..(last + 1)
      <4>1. n \in numbers => 1 <= n /\ n <= last + 1
        BY <2>4
      <4>2. 1 <= n /\ n <= last => n \in numbers
        BY <2>4
      <4> QED  BY <2>1, <2>5, <4>1, <4>2
    <3>2. \A n \in 1..(last + 1) : n \in Nat
      BY <2>1
    <3>3. numbers = 1..(last + 1)
      BY <2>2, <3>1, <3>2
    <3> QED  BY <3>3 DEF numbers, last
  <2>6. CASE last + 1 \notin numbers
    <3>1. ASSUME NEW n \in Nat PROVE n \in numbers <=> n \in 1..last
      <4>1. n \in numbers => 1 <= n /\ n <= last + 1 /\ n # last + 1
        BY <2>4, <2>6
      <4>2. 1 <= n /\ n <= last => n \in numbers
        BY <2>4
      <4> QED  BY <2>1, <4>1, <4>2
    <3>2. \A n \in 1..last : n \in Nat
      BY <2>1
    <3>3. numbers = 1..last
      BY <2>2, <3>1, <3>2
    <3> QED  BY <3>3 DEF numbers, last
  <2> QED  BY <2>5, <2>6
<1> QED  BY <1>1 DEF EventNumbersDense

(* Appending at the next number keeps the numbering.                        *)
LEMMA InsertNumbers ==
  ASSUME TypeOK, TableNumbers, NEW u \in Uids, NEW type \in EventTypes,
         NEW from \in DocumentStates \cup {NoState}, NEW to \in DocumentStates,
         NEW h \in Hashes \cup {NoHash}, InsertEvent(u, type, from, to, h),
         UNCHANGED states
  PROVE  TableNumbers' /\ EventTaken(u, NextNo(u))' /\ NextNo(u)' = NextNo(u)
<1> DEFINE new == [uid |-> u, no |-> NextNo(u), type |-> type,
                   from |-> from, to |-> to, hash |-> h]
<1>1. events' = events \cup {new} /\ HasState(u) /\ ~EventTaken(u, NextNo(u))
  BY DEF InsertEvent
<1>2. states[u].eventNo \in Nat /\ NextNo(u) \in Nat /\ NextNo(u) = states[u].eventNo + 1
  BY <1>1, Rows DEF StateRow, NextNo
<1>3. new.uid = u /\ new.no = NextNo(u)
  OBVIOUS
<1> HIDE DEF new
<1>4. EventTaken(u, NextNo(u))' /\ NextNo(u)' = NextNo(u)
  BY <1>1, <1>3 DEF EventTaken, NextNo
<1>5. \A v \in Uids, n \in Nat :
        EventTaken(v, n)' <=> EventTaken(v, n) \/ (v = u /\ n = NextNo(u))
  BY <1>1, <1>3 DEF EventTaken
<1>6. (\A e, f \in events : e.uid = f.uid /\ e.no = f.no => e = f)'
  BY <1>1, <1>3 DEF EventTaken, TableNumbers
<1>7. (\A v \in Uids : ~HasState(v) => EventsOf(v) = {})'
  BY <1>1, <1>3 DEF HasState, EventsOf, TableNumbers
<1>8. ASSUME NEW v \in Uids, HasState(v), NEW n \in Nat
      PROVE  /\ 1 <= n /\ n <= states[v].eventNo => EventTaken(v, n)'
             /\ EventTaken(v, n)' => 1 <= n /\ n <= states[v].eventNo + 1
  BY <1>2, <1>5, <1>8 DEF TableNumbers
<1> QED  BY <1>4, <1>6, <1>7, <1>8 DEF TableNumbers, HasState

(* Counting the event just inserted keeps it too.                           *)
LEMMA BumpNumbers ==
  ASSUME TypeInv, NumberInv, NEW step \in BumpSteps, NEW next, BumpEventNo(step, next)
  PROVE  TableNumbers'
<1> DEFINE w == call.uid
<1>1. /\ w \in Uids /\ HasState(w) /\ states[w] \in StateRow
      /\ call.no = states[w].eventNo + 1 /\ EventTaken(w, call.no)
  BY Rows DEF TypeInv, CallOK, NumberInv, CallNumbers, BumpSteps, BumpEventNo, NextNo
<1>2. /\ events' = events
      /\ states' = [states EXCEPT ![w].eventNo = call.no]
      /\ states \in [Uids -> StateRow \cup {NoRow}]
  BY DEF BumpEventNo, TypeInv, TypeOK
<1> HIDE DEF w
<1>3. \A u \in Uids : HasState(u)' <=> HasState(u)
  <2>1. [states[w] EXCEPT !.eventNo = call.no] \in StateRow
    BY <1>1 DEF StateRow
  <2>2. [states[w] EXCEPT !.eventNo = call.no] # NoRow
    BY <2>1, ConstantsAssumption
  <2> QED  BY <1>1, <1>2, <2>2 DEF HasState
<1>4. \A u \in Uids : HasState(u) =>
        states'[u].eventNo = IF u = w THEN states[u].eventNo + 1 ELSE states[u].eventNo
  BY <1>1, <1>2, Rows DEF StateRow, TypeInv
<1>5. \A u \in Uids, n \in Nat : EventTaken(u, n)' <=> EventTaken(u, n)
  BY <1>2 DEF EventTaken
<1>6. \A u \in Uids : HasState(u) => states[u].eventNo \in Nat
  BY Rows DEF StateRow, TypeInv
<1>7. ASSUME NEW u \in Uids, HasState(u), NEW n \in Nat
      PROVE  /\ 1 <= n /\ n <= states'[u].eventNo => EventTaken(u, n)
             /\ EventTaken(u, n) => 1 <= n /\ n <= states'[u].eventNo + 1
  BY <1>1, <1>4, <1>6, <1>7 DEF NumberInv, TableNumbers
<1>8. (\A u \in Uids : ~HasState(u) => EventsOf(u) = {})'
  BY <1>2, <1>3 DEF NumberInv, TableNumbers, EventsOf
<1> QED  BY <1>2, <1>3, <1>5, <1>7, <1>8 DEF NumberInv, TableNumbers

(* A step that touches neither the log nor a counter keeps it.              *)
LEMMA QuietNumbers ==
  ASSUME TableNumbers, UNCHANGED events,
         \A u \in Uids : /\ HasState(u)' <=> HasState(u)
                         /\ HasState(u) => states'[u].eventNo = states[u].eventNo
  PROVE  TableNumbers'
  BY DEF TableNumbers, EventsOf, EventTaken

(* Starting, ending or continuing a call without counting a number twice.   *)
LEMMA NumberStep == TypeInv /\ NumberInv /\ [Next]_vars => NumberInv'
<1> SUFFICES ASSUME TypeInv, NumberInv, [Next]_vars PROVE NumberInv'
  OBVIOUS
<1> USE IdleType
<1>0. TypeOK /\ TableNumbers
  BY DEF TypeInv, NumberInv
<1>1. ASSUME NEW p \in Paths, UpsertDocument(p) PROVE NumberInv'
  <2>1. TableNumbers'
    BY <1>1, <1>0, QuietNumbers DEF UpsertDocument, HasState
  <2> QED  BY <1>1, <2>1 DEF UpsertDocument, NumberInv, CallNumbers, BumpSteps
<1>2. ASSUME NEW p \in Paths, NEW u \in Uids, NEW d \in {0, documents[p]},
             EnsureExisting(p, d, u)
      PROVE  NumberInv'
  <2>1. TableNumbers'
    BY <1>2, <1>0, QuietNumbers DEF EnsureExisting, HasState
  <2> QED  BY <1>2, <2>1 DEF EnsureExisting, NumberInv, CallNumbers, BumpSteps
<1>3. ASSUME NEW p \in Paths, NEW u \in Uids, NEW d \in {0, documents[p]},
             EnsureNew(p, d, u)
      PROVE  NumberInv'
  <2>1. TableNumbers'
    BY <1>3, <1>0, QuietNumbers DEF EnsureNew, HasState
  <2>2. call'.step = "insert_state"
    BY <1>3 DEF EnsureNew, Idle
  <2> QED  BY <2>1, <2>2 DEF NumberInv, CallNumbers, BumpSteps
<1>4. ASSUME InsertState PROVE NumberInv'
  <2> DEFINE row == [state |-> "INPUT", eventNo |-> 0, version |-> 0, archived |-> FALSE]
             w == call.uid
  <2>1. /\ w \in Uids /\ ~HasState(w)
        /\ call \in Call /\ states \in [Uids -> StateRow \cup {NoRow}]
    BY <1>4 DEF InsertState, TypeInv, TypeOK, CallOK
  <2>2. row \in StateRow /\ row.eventNo = 0
    BY DEF StateRow, DocumentStates
  <2>3. /\ states' = [states EXCEPT ![w] = row]
        /\ call'.step = "append_created"
        /\ events' = events
    BY <1>4, <2>1 DEF InsertState, Call
  <2> HIDE DEF row, w
  <2>4. row # NoRow
    BY <2>2, ConstantsAssumption
  <2>5. \A n \in Nat : ~EventTaken(w, n)
    BY <1>0, <2>1 DEF TableNumbers, EventsOf, EventTaken
  <2>6. \A u \in Uids, n \in Nat : EventTaken(u, n)' <=> EventTaken(u, n)
    BY <2>3 DEF EventTaken
  <2>7. \A u \in Uids : HasState(u)' <=> HasState(u) \/ u = w
    BY <2>1, <2>3, <2>4 DEF HasState
  <2>8. \A u \in Uids : states'[u] = IF u = w THEN row ELSE states[u]
    BY <2>1, <2>3
  <2>9. ASSUME NEW u \in Uids, HasState(u)', NEW n \in Nat
        PROVE  /\ 1 <= n /\ n <= states'[u].eventNo => EventTaken(u, n)
               /\ EventTaken(u, n) => 1 <= n /\ n <= states'[u].eventNo + 1
    <3>1. CASE u = w
      BY <2>2, <2>5, <2>8, <3>1
    <3>2. CASE u # w
      BY <1>0, <2>7, <2>8, <2>9, <3>2 DEF TableNumbers
    <3> QED  BY <3>1, <3>2
  <2>10. (\A u \in Uids : ~HasState(u) => EventsOf(u) = {})'
    BY <1>0, <2>3, <2>7 DEF TableNumbers, EventsOf
  <2>11. TableNumbers'
    BY <1>0, <2>3, <2>6, <2>9, <2>10 DEF TableNumbers
  <2> QED  BY <2>3, <2>11 DEF NumberInv, CallNumbers, BumpSteps
<1>5. ASSUME AppendCreated PROVE NumberInv'
  <2>1. call.uid \in Uids /\ call \in Call
    BY <1>5 DEF AppendCreated, TypeInv, TypeOK, CallOK
  <2>2. TableNumbers' /\ EventTaken(call.uid, NextNo(call.uid))'
                     /\ NextNo(call.uid)' = NextNo(call.uid)
    BY <1>0, <1>5, <2>1, InsertNumbers DEF AppendCreated, EventTypes, DocumentStates
  <2>3. call'.uid = call.uid /\ call'.no = NextNo(call.uid)
    BY <1>5, <2>1 DEF AppendCreated, Call
  <2> QED  BY <2>2, <2>3 DEF NumberInv, CallNumbers, EventTaken, NextNo
<1>6. ASSUME NEW u \in Uids, NEW s \in Targets, Transition(u, s) PROVE NumberInv'
  <2>1. states[u].state \in DocumentStates /\ s \in DocumentStates
    BY <1>0, <1>6, Rows, ConstantsAssumption DEF Transition, StateRow
  <2>2. TableNumbers' /\ EventTaken(u, NextNo(u))' /\ NextNo(u)' = NextNo(u)
    BY <1>0, <1>6, <2>1, InsertNumbers DEF Transition, EventTypes
  <2>3. call'.uid = u /\ call'.no = NextNo(u)
    BY <1>6 DEF Transition, Idle
  <2> QED  BY <2>2, <2>3 DEF NumberInv, CallNumbers, EventTaken, NextNo
<1>7. ASSUME NEW u \in Uids, NEW h \in Hashes, RecordText(u, h) PROVE NumberInv'
  <2>1. states[u].state \in DocumentStates
    BY <1>0, <1>7, Rows DEF RecordText, StateRow
  <2>2. TableNumbers' /\ EventTaken(u, NextNo(u))' /\ NextNo(u)' = NextNo(u)
    BY <1>0, <1>7, <2>1, InsertNumbers DEF RecordText, EventTypes
  <2>3. call'.uid = u /\ call'.no = NextNo(u)
    BY <1>7 DEF RecordText
  <2> QED  BY <2>2, <2>3 DEF NumberInv, CallNumbers, EventTaken, NextNo
<1>8. ASSUME BumpCreated PROVE NumberInv'
  <2>1. TableNumbers'
    BY <1>8, BumpNumbers DEF BumpCreated, BumpSteps
  <2> QED  BY <1>8, <2>1 DEF BumpCreated, BumpEventNo, NumberInv, CallNumbers, BumpSteps
<1>9. ASSUME BumpChange PROVE NumberInv'
  <2>1. TableNumbers'
    BY <1>9, BumpNumbers DEF BumpChange, BumpSteps
  <2>2. call'.step = "set_state"
    BY <1>9, <1>0 DEF BumpChange, BumpEventNo, TypeOK, Call
  <2> QED  BY <2>1, <2>2 DEF NumberInv, CallNumbers, BumpSteps
<1>10. ASSUME BumpText PROVE NumberInv'
  <2>1. TableNumbers'
    BY <1>10, BumpNumbers DEF BumpText, BumpSteps
  <2>2. call'.step \in {"insert_version", "append_indexed", "idle"}
    BY <1>10, <1>0 DEF BumpText, BumpEventNo, ThenIndex, TypeOK, Call
  <2> QED  BY <2>1, <2>2 DEF NumberInv, CallNumbers, BumpSteps
<1>11. ASSUME InsertVersion PROVE NumberInv'
  <2>1. TableNumbers'
    BY <1>11, <1>0, QuietNumbers DEF InsertVersion, HasState
  <2>2. call'.step = "bump_version"
    BY <1>11, <1>0 DEF InsertVersion, TypeOK, Call
  <2> QED  BY <2>1, <2>2 DEF NumberInv, CallNumbers, BumpSteps
<1>12. ASSUME VersionConflict PROVE NumberInv'
  <2>1. TableNumbers'
    BY <1>12, <1>0, QuietNumbers DEF VersionConflict, HasState
  <2> QED  BY <1>12, <2>1 DEF VersionConflict, NumberInv, CallNumbers, BumpSteps
<1>13. ASSUME BumpVersion PROVE NumberInv'
  <2>1. /\ call.uid \in Uids
        /\ states[call.uid] \in StateRow
        /\ states' = [states EXCEPT ![call.uid].version = states[call.uid].version + 1]
        /\ events' = events
    BY <1>13, Rows DEF BumpVersion, TypeInv, CallOK
  <2>2. \A u \in Uids : HasState(u)' <=> HasState(u)
    <3>1. [states[call.uid] EXCEPT !.version = states[call.uid].version + 1] \in StateRow
      BY <2>1 DEF StateRow
    <3> QED  BY <1>0, <2>1, <3>1, ConstantsAssumption DEF HasState, TypeOK
  <2>3. \A u \in Uids : HasState(u) => states'[u].eventNo = states[u].eventNo
    BY <1>0, <2>1, Rows DEF TypeOK, StateRow
  <2>4. TableNumbers'
    BY <1>0, <2>1, <2>2, <2>3, QuietNumbers
  <2>5. call'.step \in {"append_indexed", "idle"}
    BY <1>13, <1>0 DEF BumpVersion, ThenIndex, TypeOK, Call
  <2> QED  BY <2>4, <2>5 DEF NumberInv, CallNumbers, BumpSteps
<1>14. ASSUME AppendIndexed PROVE NumberInv'
  <2>1. call.uid \in Uids /\ call \in Call /\ call.from \in DocumentStates \cup {NoState}
    BY <1>14 DEF AppendIndexed, TypeInv, TypeOK, CallOK, Call
  <2>2. TableNumbers' /\ EventTaken(call.uid, NextNo(call.uid))'
                     /\ NextNo(call.uid)' = NextNo(call.uid)
    BY <1>0, <1>14, <2>1, InsertNumbers DEF AppendIndexed, EventTypes, DocumentStates
  <2>3. call'.uid = call.uid /\ call'.no = NextNo(call.uid)
    BY <1>14, <2>1 DEF AppendIndexed, Call
  <2> QED  BY <2>2, <2>3 DEF NumberInv, CallNumbers, EventTaken, NextNo
<1>15. ASSUME SetState PROVE NumberInv'
  <2> DEFINE new == [states[call.uid] EXCEPT !.state = call.to,
                        !.archived = ArchivedAfter(call, states[call.uid].archived)]
  <2>1. /\ call.uid \in Uids
        /\ states[call.uid] \in StateRow
        /\ call.to \in DocumentStates
        /\ states' = [states EXCEPT ![call.uid] = new]
        /\ events' = events
    BY <1>15, Rows DEF SetState, TypeInv, TypeOK, CallOK, ChangeSteps
  <2>2. ArchivedAfter(call, states[call.uid].archived) \in BOOLEAN
    BY <2>1 DEF ArchivedAfter, StateRow
  <2>3. new \in StateRow /\ new.eventNo = states[call.uid].eventNo
    BY <2>1, <2>2 DEF StateRow
  <2> HIDE DEF new
  <2>4. new # NoRow
    BY <2>3, ConstantsAssumption
  <2>5. \A u \in Uids : states'[u] = IF u = call.uid THEN new ELSE states[u]
    BY <1>0, <2>1 DEF TypeOK
  <2>6. \A u \in Uids : HasState(u)' <=> HasState(u)
    BY <2>1, <2>4, <2>5, ConstantsAssumption DEF HasState
  <2>7. TableNumbers'
    BY <1>0, <2>1, <2>3, <2>5, <2>6, QuietNumbers
  <2> QED  BY <1>15, <2>7 DEF SetState, NumberInv, CallNumbers, BumpSteps
<1>16. ASSUME Crash PROVE NumberInv'
  <2>1. TableNumbers'
    BY <1>16, <1>0, QuietNumbers DEF Crash, tables, HasState
  <2> QED  BY <1>16, <2>1 DEF Crash, NumberInv, CallNumbers, BumpSteps
<1>17. ASSUME UNCHANGED vars PROVE NumberInv'
  BY <1>17 DEF vars, NumberInv, TableNumbers, CallNumbers, HasState, EventsOf, EventTaken,
               NextNo
<1> QED
  BY <1>1, <1>2, <1>3, <1>4, <1>5, <1>6, <1>7, <1>8, <1>9, <1>10, <1>11, <1>12, <1>13,
     <1>14, <1>15, <1>16, <1>17 DEF Next, Continue

(* Event numbers stay dense, and the counter at most one behind them,       *)
(* whatever append_event_locked is interrupted by and however often.        *)
THEOREM NumbersDense == Spec => []EventNumbersDense
<1>1. TypeInv /\ NumberInv => EventNumbersDense
  BY NumbersImplyDense DEF TypeInv
<1> QED  BY <1>1, TypeInit, TypeStep, NumberInit, NumberStep, PTL DEF Spec

-----------------------------------------------------------------------------
(* The state column and the last move of the log.                           *)

TextSteps == {"bump_text", "insert_version", "bump_version", "append_indexed"}

(* The newest event of the call's document is the move the call is making.  *)
Announced ==
  \E m \in events :
     /\ m.uid = call.uid
     /\ m.type = "STATE_CHANGED"
     /\ m.from = call.from
     /\ m.to = call.to
     /\ \A f \in events : f.uid = call.uid => f.no <= m.no

(* What the call remembers of the state is still so when it writes.         *)
CallMoves ==
  /\ call.step = "append_created" => states[call.uid].state = "INPUT"
  /\ call.step \in ChangeSteps => call.from = states[call.uid].state
  /\ call.step \in TextSteps => call.to = "INDEXED"
  /\ call.step \in {"bump_change", "set_state"} => Announced

MoveInv == StateNearLog /\ CallMoves

LEMMA MoveInit == Init => MoveInv
  BY IdleType DEF Init, MoveInv, StateNearLog, CallMoves, ChangeSteps, TextSteps

(* A step that changes neither the log nor a state.                         *)
LEMMA QuietMoves ==
  ASSUME TypeOK, StateNearLog, UNCHANGED events,
         \A u \in Uids : EventsOf(u) # {} => states'[u].state = states[u].state
  PROVE  StateNearLog'
<1>1. \A e \in events : LastMove(e)' <=> LastMove(e)
  BY DEF LastMove, IsMove, EventsOf
<1>2. \A e \in events : e.uid \in Uids /\ e \in EventsOf(e.uid)
  BY DEF TypeOK, Event, EventsOf
<1> QED  BY <1>1, <1>2 DEF StateNearLog

(* Appending a move that starts or ends in the current state, or an event   *)
(* that is no move.                                                         *)
LEMMA InsertMoves ==
  ASSUME TypeOK, TableNumbers, StateNearLog, NEW u \in Uids, NEW type \in EventTypes,
         NEW from \in DocumentStates \cup {NoState}, NEW to \in DocumentStates,
         NEW h \in Hashes \cup {NoHash}, InsertEvent(u, type, from, to, h),
         UNCHANGED states, states[u].state \in {from, to}
  PROVE  /\ StateNearLog'
         /\ \E m \in events' : /\ m.uid = u /\ m.type = type /\ m.from = from /\ m.to = to
                               /\ \A f \in events' : f.uid = u => f.no <= m.no
<1> DEFINE new == [uid |-> u, no |-> NextNo(u), type |-> type,
                   from |-> from, to |-> to, hash |-> h]
<1>1. events' = events \cup {new} /\ HasState(u) /\ ~EventTaken(u, NextNo(u))
  BY DEF InsertEvent
<1>2. /\ new.uid = u /\ new.no = NextNo(u) /\ new.type = type
      /\ new.from = from /\ new.to = to
  OBVIOUS
<1>3. states[u].eventNo \in Nat /\ NextNo(u) = states[u].eventNo + 1
  BY <1>1, Rows DEF StateRow, NextNo
<1> HIDE DEF new
<1>4. \A e \in events : LastMove(e)' => LastMove(e)
  BY <1>1 DEF LastMove, EventsOf, IsMove
<1>5. StateNearLog'
  BY <1>1, <1>2, <1>4 DEF StateNearLog
<1>6. ASSUME NEW f \in events, f.uid = u PROVE f.no <= NextNo(u)
  <2>1. f.no \in Nat /\ EventTaken(u, f.no)
    BY <1>6 DEF TypeOK, Event, EventTaken
  <2>2. f.no <= states[u].eventNo + 1
    BY <1>1, <2>1 DEF TableNumbers
  <2> QED  BY <1>3, <2>2
<1>7. \A f \in events' : f.uid = u => f.no <= new.no
  BY <1>1, <1>2, <1>3, <1>6
<1> QED  BY <1>1, <1>2, <1>5, <1>7

(* Making the announced move.                                               *)
LEMMA SetStateMoves ==
  ASSUME TypeInv, TableNumbers, MoveInv, SetState
  PROVE  StateNearLog'
<1>1. /\ call.uid \in Uids /\ states[call.uid] \in StateRow /\ call \in Call
      /\ events' = events /\ Announced
  BY Rows DEF SetState, TypeInv, TypeOK, CallOK, MoveInv, CallMoves
<1>2. /\ states'[call.uid].state = call.to
      /\ \A u \in Uids \ {call.uid} : states'[u] = states[u]
  BY <1>1 DEF SetState, TypeInv, TypeOK, StateRow
<1>3. PICK m \in events : /\ m.uid = call.uid /\ m.type = "STATE_CHANGED" /\ m.to = call.to
                          /\ \A f \in events : f.uid = call.uid => f.no <= m.no
  BY <1>1 DEF Announced
<1>4. ASSUME NEW e \in events, LastMove(e) PROVE states'[e.uid].state \in {e.from, e.to}
  <2>1. e.uid \in Uids /\ e.no \in Nat /\ m.no \in Nat
    BY DEF TypeInv, TypeOK, Event
  <2>2. CASE e.uid = call.uid
    <3>1. m.no <= e.no /\ e.no <= m.no
      BY <1>3, <1>4, <2>2 DEF LastMove, IsMove, EventsOf
    <3>2. e = m
      BY <1>3, <2>1, <2>2, <3>1 DEF TableNumbers
    <3> QED  BY <1>2, <1>3, <2>2, <3>2
  <2>3. CASE e.uid # call.uid
    BY <1>2, <1>4, <2>1, <2>3 DEF MoveInv, StateNearLog
  <2> QED  BY <2>2, <2>3
<1>5. \A e \in events : LastMove(e)' <=> LastMove(e)
  BY <1>1 DEF LastMove, IsMove, EventsOf
<1> QED  BY <1>1, <1>4, <1>5 DEF StateNearLog

(* No document: no statement of a call is pending.                          *)
LEMMA CallEnds == call'.step = "idle" => CallMoves'
  BY DEF CallMoves, ChangeSteps, TextSteps

LEMMA MoveStep == TypeInv /\ NumberInv /\ MoveInv /\ [Next]_vars => MoveInv'
<1> SUFFICES ASSUME TypeInv, NumberInv, MoveInv, [Next]_vars PROVE MoveInv'
  OBVIOUS
<1> USE IdleType
<1>0. TypeOK /\ TableNumbers /\ StateNearLog /\ CallMoves /\ call \in Call
  BY DEF TypeInv, NumberInv, MoveInv, TypeOK
<1>1. ASSUME NEW p \in Paths, UpsertDocument(p) PROVE MoveInv'
  <2>1. StateNearLog'
    BY <1>0, <1>1, QuietMoves DEF UpsertDocument
  <2> QED  BY <1>1, <2>1, CallEnds DEF UpsertDocument, MoveInv
<1>2. ASSUME NEW p \in Paths, NEW u \in Uids, NEW d \in {0, documents[p]},
             EnsureExisting(p, d, u)
      PROVE  MoveInv'
  <2>1. StateNearLog'
    BY <1>0, <1>2, QuietMoves DEF EnsureExisting
  <2> QED  BY <1>2, <2>1, CallEnds DEF EnsureExisting, MoveInv
<1>3. ASSUME NEW p \in Paths, NEW u \in Uids, NEW d \in {0, documents[p]},
             EnsureNew(p, d, u)
      PROVE  MoveInv'
  <2>1. StateNearLog'
    BY <1>0, <1>3, QuietMoves DEF EnsureNew
  <2>2. call'.step = "insert_state"
    BY <1>3 DEF EnsureNew, Idle
  <2> QED  BY <2>1, <2>2 DEF MoveInv, CallMoves, ChangeSteps, TextSteps
<1>4. ASSUME InsertState PROVE MoveInv'
  <2>1. /\ call.uid \in Uids /\ ~HasState(call.uid)
        /\ call'.uid = call.uid /\ call'.step = "append_created"
        /\ states'[call.uid].state = "INPUT"
        /\ \A u \in Uids \ {call.uid} : states'[u] = states[u]
    BY <1>0, <1>4 DEF InsertState, TypeInv, TypeOK, CallOK, Call
  <2>2. EventsOf(call.uid) = {}
    BY <1>0, <2>1 DEF TableNumbers
  <2>3. StateNearLog'
    BY <1>0, <1>4, <2>1, <2>2, QuietMoves DEF InsertState
  <2> QED  BY <2>1, <2>3 DEF MoveInv, CallMoves, ChangeSteps, TextSteps
<1>5. ASSUME AppendCreated PROVE MoveInv'
  <2>1. /\ call.uid \in Uids
        /\ states[call.uid].state = "INPUT"
        /\ call'.step = "bump_created"
    BY <1>0, <1>5 DEF AppendCreated, TypeInv, CallOK, CallMoves, Call
  <2>2. StateNearLog'
    BY <1>0, <1>5, <2>1, InsertMoves DEF AppendCreated, EventTypes, DocumentStates
  <2> QED  BY <2>1, <2>2 DEF MoveInv, CallMoves, ChangeSteps, TextSteps
<1>6. ASSUME NEW u \in Uids, NEW s \in Targets, Transition(u, s) PROVE MoveInv'
  <2>1. states[u].state \in DocumentStates /\ s \in DocumentStates
    BY <1>0, <1>6, Rows, ConstantsAssumption DEF Transition, StateRow
  <2>2. /\ call'.uid = u /\ call'.step = "bump_change"
        /\ call'.from = states[u].state /\ call'.to = s
        /\ states' = states
    BY <1>6 DEF Transition, Idle
  <2>3. InsertEvent(u, "STATE_CHANGED", states[u].state, s, NoHash)
    BY <1>6 DEF Transition
  <2>4. StateNearLog' /\ Announced'
    BY <1>0, <2>1, <2>2, <2>3, InsertMoves DEF EventTypes, Announced
  <2> QED  BY <2>2, <2>4 DEF MoveInv, CallMoves, ChangeSteps, TextSteps
<1>7. ASSUME NEW u \in Uids, NEW h \in Hashes, RecordText(u, h) PROVE MoveInv'
  <2>1. states[u].state \in DocumentStates
    BY <1>0, <1>7, Rows DEF RecordText, StateRow
  <2>2. StateNearLog'
    BY <1>0, <1>7, <2>1, InsertMoves DEF RecordText, EventTypes
  <2>3. /\ call'.uid = u /\ call'.step = "bump_text"
        /\ call'.from = states[u].state /\ call'.to = "INDEXED"
        /\ states' = states
    BY <1>7 DEF RecordText
  <2> QED  BY <2>2, <2>3 DEF MoveInv, CallMoves, ChangeSteps, TextSteps
<1>8. ASSUME NEW step \in BumpSteps, NEW next, BumpEventNo(step, next)
      PROVE  /\ StateNearLog'
             /\ states'[call.uid].state = states[call.uid].state
  <2>1. call.uid \in Uids /\ states[call.uid] \in StateRow
    BY <1>0, <1>8, Rows DEF BumpEventNo, BumpSteps, TypeInv, CallOK
  <2>2. /\ states'[call.uid].state = states[call.uid].state
        /\ \A u \in Uids \ {call.uid} : states'[u] = states[u]
    BY <1>0, <1>8, <2>1 DEF BumpEventNo, TypeOK, StateRow
  <2> QED  BY <1>0, <1>8, <2>2, QuietMoves DEF BumpEventNo
<1>9. ASSUME BumpCreated PROVE MoveInv'
  <2>1. StateNearLog'
    BY <1>8, <1>9 DEF BumpCreated, BumpSteps
  <2> QED  BY <1>9, <2>1, CallEnds DEF BumpCreated, BumpEventNo, MoveInv
<1>10. ASSUME BumpChange PROVE MoveInv'
  <2>1. StateNearLog' /\ states'[call.uid].state = states[call.uid].state
    BY <1>8, <1>10 DEF BumpChange, BumpSteps
  <2>2. /\ call' = [call EXCEPT !.step = "set_state"]
        /\ events' = events /\ call.step = "bump_change"
    BY <1>10 DEF BumpChange, BumpEventNo
  <2>3. /\ call'.uid = call.uid /\ call'.from = call.from /\ call'.to = call.to
        /\ call'.step = "set_state"
    BY <1>0, <2>2 DEF Call
  <2>4. Announced'
    BY <1>0, <2>2, <2>3 DEF CallMoves, Announced
  <2> QED  BY <1>0, <2>1, <2>2, <2>3, <2>4 DEF MoveInv, CallMoves, ChangeSteps, TextSteps
<1>11. ASSUME BumpText PROVE MoveInv'
  <2>1. StateNearLog' /\ states'[call.uid].state = states[call.uid].state
    BY <1>8, <1>11 DEF BumpText, BumpSteps
  <2>2. call.step = "bump_text" /\ call.from = states[call.uid].state /\ call.to = "INDEXED"
    BY <1>0, <1>11 DEF BumpText, BumpEventNo, CallMoves, ChangeSteps, TextSteps
  <2>3. \/ call' = Idle
        \/ call' = [call EXCEPT !.step = "insert_version"]
        \/ call' = [call EXCEPT !.step = "append_indexed"]
    BY <1>11 DEF BumpText, BumpEventNo, ThenIndex
  <2> QED  BY <1>0, <2>1, <2>2, <2>3 DEF MoveInv, CallMoves, ChangeSteps, TextSteps, Call
<1>12. ASSUME InsertVersion PROVE MoveInv'
  <2>1. StateNearLog'
    BY <1>0, <1>12, QuietMoves DEF InsertVersion
  <2> QED  BY <1>0, <1>12, <2>1 DEF InsertVersion, MoveInv, CallMoves, ChangeSteps,
                                  TextSteps, Call
<1>13. ASSUME VersionConflict PROVE MoveInv'
  <2>1. StateNearLog'
    BY <1>0, <1>13, QuietMoves DEF VersionConflict
  <2> QED  BY <1>13, <2>1, CallEnds DEF VersionConflict, MoveInv
<1>14. ASSUME BumpVersion PROVE MoveInv'
  <2>1. /\ call.uid \in Uids /\ states[call.uid] \in StateRow
        /\ call.from = states[call.uid].state /\ call.to = "INDEXED"
    BY <1>0, <1>14, Rows DEF BumpVersion, TypeInv, CallOK, CallMoves, ChangeSteps, TextSteps
  <2>2. /\ states'[call.uid].state = states[call.uid].state
        /\ \A u \in Uids \ {call.uid} : states'[u] = states[u]
    BY <1>0, <1>14, <2>1 DEF BumpVersion, TypeOK, StateRow
  <2>3. StateNearLog'
    BY <1>0, <1>14, <2>2, QuietMoves DEF BumpVersion
  <2>4. call' = Idle \/ call' = [call EXCEPT !.step = "append_indexed"]
    BY <1>14 DEF BumpVersion, ThenIndex
  <2> QED  BY <1>0, <2>1, <2>2, <2>3, <2>4 DEF MoveInv, CallMoves, ChangeSteps, TextSteps, Call
<1>15. ASSUME AppendIndexed PROVE MoveInv'
  <2>1. /\ call.uid \in Uids /\ states[call.uid] \in StateRow
        /\ call.from = states[call.uid].state /\ call.to = "INDEXED"
    BY <1>0, <1>15, Rows DEF AppendIndexed, TypeInv, CallOK, CallMoves, ChangeSteps, TextSteps
  <2>2. /\ InsertEvent(call.uid, "STATE_CHANGED", call.from, "INDEXED", NoHash)
        /\ states' = states
    BY <1>15 DEF AppendIndexed
  <2>3. /\ call'.uid = call.uid /\ call'.from = call.from /\ call'.to = call.to
        /\ call'.step = "bump_change"
    BY <1>0, <1>15 DEF AppendIndexed, Call
  <2>4. call.from \in DocumentStates
    BY <2>1 DEF StateRow
  <2>5. StateNearLog' /\ Announced'
    BY <1>0, <2>1, <2>2, <2>3, <2>4, InsertMoves DEF EventTypes, Announced, DocumentStates
  <2> QED  BY <2>1, <2>2, <2>3, <2>5 DEF MoveInv, CallMoves, ChangeSteps, TextSteps
<1>16. ASSUME SetState PROVE MoveInv'
  <2>1. StateNearLog'
    BY <1>0, <1>16, SetStateMoves
  <2> QED  BY <1>16, <2>1, CallEnds DEF SetState, MoveInv
<1>17. ASSUME Crash PROVE MoveInv'
  <2>1. StateNearLog'
    BY <1>0, <1>17, QuietMoves DEF Crash, tables
  <2> QED  BY <1>17, <2>1, CallEnds DEF Crash, MoveInv
<1>18. ASSUME UNCHANGED vars PROVE MoveInv'
  BY <1>0, <1>18 DEF vars, MoveInv, StateNearLog, LastMove, IsMove, EventsOf, CallMoves,
                     Announced
<1> QED
  BY <1>1, <1>2, <1>3, <1>4, <1>5, <1>6, <1>7, <1>9, <1>10, <1>11, <1>12, <1>13, <1>14,
     <1>15, <1>16, <1>17, <1>18 DEF Next, Continue

(* However the calls are cut short, the state column of a document is one   *)
(* of the two ends of the newest move in its log.                           *)
THEOREM StateStaysNearLog == Spec => []StateNearLog
<1>1. MoveInv => StateNearLog
  BY DEF MoveInv
<1> QED
  BY <1>1, TypeInit, TypeStep, NumberInit, NumberStep, MoveInit, MoveStep, PTL DEF Spec

-----------------------------------------------------------------------------
(* The registry and the rows of its documents.                              *)

LEMMA RegistryInit == Init => RegistryFollowsDocument
  BY DEF Init, RegistryFollowsDocument, Registered

(* A row that gets the path p and the id of the live row of p, when no other *)
(* row of the registry has that path.                                        *)
LEMMA AttachRow ==
  ASSUME TypeOK, RegistryFollowsDocument, NEW p \in Paths, NEW u \in Uids,
         NEW d \in {0, documents[p]}, LiveDoc(d), UNCHANGED documents,
         \A v \in Uids \ {u} : ~ByPath(v, p),
         registry' = [registry EXCEPT ![u] = [path |-> p, docId |-> d]]
  PROVE  RegistryFollowsDocument'
<1> DEFINE row == [path |-> p, docId |-> d]
<1>1. row.path = p /\ row.docId = d /\ documents[p] = d
  BY DEF LiveDoc
<1>2. \A v \in Uids : registry'[v] = IF v = u THEN row ELSE registry[v]
  BY DEF TypeOK
<1> HIDE DEF row
<1>3. ASSUME NEW v \in Uids, Registered(v)', registry'[v].docId # 0
      PROVE  documents[registry'[v].path] = registry'[v].docId
  <2>1. CASE v = u
    BY <1>1, <1>2, <2>1
  <2>2. CASE v # u
    BY <1>2, <1>3, <2>2 DEF RegistryFollowsDocument, Registered
  <2> QED  BY <2>1, <2>2
<1>4. ASSUME NEW v \in Uids, NEW w \in Uids, Registered(v)', Registered(w)',
             registry'[v].path = registry'[w].path
      PROVE  v = w
  BY <1>1, <1>2, <1>4 DEF RegistryFollowsDocument, Registered, ByPath
<1> QED  BY <1>3, <1>4 DEF RegistryFollowsDocument

LEMMA RegistryStep ==
  TypeInv /\ RegistryFollowsDocument /\ [Next]_vars => RegistryFollowsDocument'
<1> SUFFICES ASSUME TypeInv, RegistryFollowsDocument, [Next]_vars
             PROVE  RegistryFollowsDocument'
  OBVIOUS
<1>0. TypeOK
  BY DEF TypeInv
<1>1. ASSUME NEW p \in Paths, UpsertDocument(p) PROVE RegistryFollowsDocument'
  <2>1. /\ documents' = [documents EXCEPT ![p] = lastDocId + 1]
        /\ \A u \in Uids : registry'[u] = IF Registered(u) /\ registry[u].docId = documents[p]
                                          THEN [registry[u] EXCEPT !.docId = 0]
                                          ELSE registry[u]
    BY <1>1 DEF UpsertDocument
  <2>2. \A u \in Uids : Registered(u) =>
          [registry[u] EXCEPT !.docId = 0] = [path |-> registry[u].path, docId |-> 0]
    BY <1>0, Rows DEF RegistryRow
  <2>3. \A u \in Uids : Registered(u)' => Registered(u)
    BY <2>1 DEF Registered
  <2>4. \A u \in Uids : Registered(u) =>
          /\ registry'[u].path = registry[u].path
          /\ registry'[u].docId = IF registry[u].docId = documents[p] THEN 0
                                  ELSE registry[u].docId
    BY <2>1, <2>2
  <2>5. \A u \in Uids : Registered(u) => registry[u].path \in Paths
    BY <1>0, Rows DEF RegistryRow
  <2>6. \A q \in Paths : q # p => documents'[q] = documents[q]
    BY <1>0, <2>1 DEF TypeOK
  <2>7. ASSUME NEW u \in Uids, Registered(u)', registry'[u].docId # 0
        PROVE  documents'[registry'[u].path] = registry'[u].docId
    <3>1. Registered(u) /\ registry[u].docId # 0 /\ registry[u].docId # documents[p]
      BY <2>3, <2>4, <2>7
    <3>2. registry[u].path # p
      BY <3>1 DEF RegistryFollowsDocument
    <3> QED  BY <2>4, <2>5, <2>6, <3>1, <3>2 DEF RegistryFollowsDocument
  <2>8. ASSUME NEW u \in Uids, NEW v \in Uids, Registered(u)', Registered(v)',
               registry'[u].path = registry'[v].path
        PROVE  u = v
    BY <2>3, <2>4, <2>8 DEF RegistryFollowsDocument
  <2> QED  BY <2>7, <2>8 DEF RegistryFollowsDocument
<1>2. ASSUME NEW p \in Paths, NEW u \in Uids, NEW d \in {0, documents[p]},
             EnsureExisting(p, d, u)
      PROVE  RegistryFollowsDocument'
  <2>1. \A v \in Uids \ {u} : ~ByPath(v, p)
    BY <1>2 DEF EnsureExisting, Found, ByPath, RegistryFollowsDocument
  <2> QED  BY <1>0, <1>2, <2>1, AttachRow DEF EnsureExisting
<1>3. ASSUME NEW p \in Paths, NEW u \in Uids, NEW d \in {0, documents[p]},
             EnsureNew(p, d, u)
      PROVE  RegistryFollowsDocument'
  <2>1. \A v \in Uids \ {u} : ~ByPath(v, p)
    BY <1>3 DEF EnsureNew, Found
  <2> QED  BY <1>0, <1>3, <2>1, AttachRow DEF EnsureNew
<1>4. ASSUME UNCHANGED <<documents, registry>> PROVE RegistryFollowsDocument'
  BY <1>4 DEF RegistryFollowsDocument, Registered
<1>5. CASE UNCHANGED vars
  BY <1>4, <1>5 DEF vars
<1>6. CASE (\E u \in Uids, s \in Targets : Transition(u, s))
        \/ (\E u \in Uids, h \in Hashes : RecordText(u, h)) \/ Crash
  BY <1>4, <1>6 DEF Transition, RecordText, Crash, tables
<1>7. CASE Continue
  BY <1>4, <1>7 DEF Continue, InsertState, AppendCreated, BumpCreated, BumpText, BumpChange,
                    BumpEventNo, InsertVersion, VersionConflict, BumpVersion, AppendIndexed,
                    SetState
<1> QED  BY <1>1, <1>2, <1>3, <1>5, <1>6, <1>7 DEF Next

(* No document's lifecycle is ever attached to another document's row, and no *)
(* two rows of the registry name one path.                                    *)
THEOREM RegistryKeepsUp == Spec => []RegistryFollowsDocument
  BY TypeInit, TypeStep, RegistryInit, RegistryStep, PTL DEF Spec

-----------------------------------------------------------------------------
(* The content versions and the events they were cut from.                  *)

(* The numbers of the versions of a document, as those of its events.       *)
VersionNumbers ==
  /\ \A u \in Uids : ~HasState(u) => VersionsOf(u) = {}
  /\ \A u \in Uids : HasState(u) => \A n \in Nat :
       /\ 1 <= n /\ n <= states[u].version => VersionTaken(u, n)
       /\ VersionTaken(u, n) => 1 <= n /\ n <= states[u].version + 1

CutFrom(v, e) ==
  /\ e.uid = v.uid
  /\ e.no = v.event
  /\ e.type = "TEXT_EXTRACTED"
  /\ e.hash = v.hash

VersionTable ==
  /\ \A v \in versions : \E e \in events : CutFrom(v, e)
  /\ \A v, w \in versions : v.uid = w.uid /\ v.no < w.no => v.event < w.event
  /\ \A v, w \in versions : v.uid = w.uid /\ w.no = v.no + 1 => v.hash # w.hash

(* What a text call relies on between its event and its version: the event   *)
(* is there, every version is older, and a text that was new still is.       *)
CallVersion ==
  /\ call.step \in {"bump_text", "insert_version"} =>
       /\ call.no \in Nat
       /\ \E e \in events : /\ e.uid = call.uid /\ e.no = call.no
                            /\ e.type = "TEXT_EXTRACTED" /\ e.hash = call.hash
       /\ \A v \in versions : v.uid = call.uid => v.event < call.no
       /\ call.fresh => ~LatestTextIs(call.uid, call.hash)
  /\ call.step = "insert_version" => call.fresh
  /\ call.step = "bump_version" => VersionTaken(call.uid, states[call.uid].version + 1)

VersionInv == VersionNumbers /\ VersionTable /\ CallVersion

LEMMA VersionInit == Init => VersionInv
  BY IdleType DEF Init, VersionInv, VersionNumbers, VersionTable, CallVersion, HasState,
                  VersionsOf, VersionTaken

LEMMA VersionsImplyProvenance == TypeOK /\ VersionInv => VersionProvenance
<1> SUFFICES ASSUME TypeOK, VersionInv PROVE VersionProvenance
  OBVIOUS
<1>1. ASSUME NEW u \in Uids, HasState(u)
      PROVE  {v.no : v \in VersionsOf(u)} \in
               {1..states[u].version, 1..(states[u].version + 1)}
  <2> DEFINE numbers == {v.no : v \in VersionsOf(u)}
             last == states[u].version
  <2>1. last \in Nat
    BY <1>1, Rows DEF StateRow
  <2>2. \A n \in numbers : n \in Nat
    BY DEF TypeOK, Version, VersionsOf
  <2>3. \A n \in Nat : n \in numbers <=> VersionTaken(u, n)
    BY DEF VersionsOf, VersionTaken
  <2>4. \A n \in Nat :
          /\ 1 <= n /\ n <= last => n \in numbers
          /\ n \in numbers => 1 <= n /\ n <= last + 1
    BY <1>1, <2>3 DEF VersionInv, VersionNumbers
  <2> HIDE DEF numbers, last
  <2>5. CASE last + 1 \in numbers
    <3>1. ASSUME NEW n \in Nat PROVE n \in numbers <=> n \in 1..(last + 1)
      <4>1. n \in numbers => 1 <= n /\ n <= last + 1
        BY <2>4
      <4>2. 1 <= n /\ n <= last => n \in numbers
        BY <2>4
      <4> QED  BY <2>1, <2>5, <4>1, <4>2
    <3>2. \A n \in 1..(last + 1) : n \in Nat
      BY <2>1
    <3>3. numbers = 1..(last + 1)
      BY <2>2, <3>1, <3>2
    <3> QED  BY <3>3 DEF numbers, last
  <2>6. CASE last + 1 \notin numbers
    <3>1. ASSUME NEW n \in Nat PROVE n \in numbers <=> n \in 1..last
      <4>1. n \in numbers => 1 <= n /\ n <= last + 1 /\ n # last + 1
        BY <2>4, <2>6
      <4>2. 1 <= n /\ n <= last => n \in numbers
        BY <2>4
      <4> QED  BY <2>1, <4>1, <4>2
    <3>2. \A n \in 1..last : n \in Nat
      BY <2>1
    <3>3. numbers = 1..last
      BY <2>2, <3>1, <3>2
    <3> QED  BY <3>3 DEF numbers, last
  <2> QED  BY <2>5, <2>6
<1> QED  BY <1>1 DEF VersionInv, VersionTable, CutFrom, VersionProvenance

(* A step that writes no version and no counter of versions, and to the log  *)
(* at most adds.                                                             *)
LEMMA QuietVersions ==
  ASSUME VersionNumbers, VersionTable, UNCHANGED versions, events \subseteq events',
         \A u \in Uids : /\ HasState(u)' <=> HasState(u)
                         /\ HasState(u) => states'[u].version = states[u].version
  PROVE  VersionNumbers' /\ VersionTable'
<1>1. VersionNumbers'
  BY DEF VersionNumbers, VersionsOf, VersionTaken
<1>2. VersionTable'
  BY DEF VersionTable, CutFrom
<1> QED  BY <1>1, <1>2

(* The version a fresh text makes.                                           *)
LEMMA InsertVersions ==
  ASSUME TypeInv, VersionInv, InsertVersion
  PROVE  /\ VersionNumbers' /\ VersionTable'
         /\ \E v \in versions' : v.uid = call.uid /\ v.no = states[call.uid].version + 1
<1> DEFINE u == call.uid
           n == states[u].version + 1
           new == [uid |-> u, no |-> n, hash |-> call.hash, event |-> call.no]
<1>1. /\ u \in Uids /\ HasState(u) /\ states[u].version \in Nat /\ n \in Nat
      /\ n = states[u].version + 1
  BY Rows DEF InsertVersion, TypeInv, CallOK, StateRow
<1>2. /\ versions' = versions \cup {new} /\ ~VersionTaken(u, n)
      /\ events' = events /\ states' = states
  BY DEF InsertVersion
<1>3. /\ call.no \in Nat /\ ~LatestTextIs(u, call.hash)
      /\ \E e \in events : /\ e.uid = u /\ e.no = call.no
                           /\ e.type = "TEXT_EXTRACTED" /\ e.hash = call.hash
      /\ \A v \in versions : v.uid = u => v.event < call.no
  BY DEF InsertVersion, VersionInv, CallVersion
<1>4. new.uid = u /\ new.no = n /\ new.hash = call.hash /\ new.event = call.no
  OBVIOUS
<1>5. \A v \in versions : v.no \in Nat /\ v.event \in Nat /\ v.uid \in Uids
  BY DEF TypeInv, TypeOK, Version
<1>6. \A v \in versions : v.uid = u => v.no < n
  <2>1. \A v \in versions : v.uid = u => VersionTaken(u, v.no) /\ v.no # n
    BY <1>2 DEF VersionTaken
  <2>2. \A v \in versions : v.uid = u => v.no <= states[u].version + 1
    BY <1>1, <1>5, <2>1 DEF VersionInv, VersionNumbers
  <2> QED  BY <1>1, <1>5, <2>1, <2>2
<1>7. \A v \in versions : v.uid = u /\ n = v.no + 1 => v.hash # call.hash
  <2> SUFFICES ASSUME NEW v \in versions, v.uid = u, n = v.no + 1 PROVE v.hash # call.hash
    OBVIOUS
  <2>1. \A w \in VersionsOf(u) : w.no <= v.no
    BY <1>5, <1>6 DEF VersionsOf
  <2> QED  BY <1>3, <2>1 DEF LatestTextIs, VersionsOf
<1> HIDE DEF new, n, u
<1>8. \E v \in versions' : v.uid = u /\ v.no = n
  BY <1>2, <1>4
<1>9. \A w \in Uids, m \in Nat :
        VersionTaken(w, m)' <=> VersionTaken(w, m) \/ (w = u /\ m = n)
  BY <1>2, <1>4 DEF VersionTaken
<1>10. ASSUME NEW w \in Uids, HasState(w), NEW m \in Nat
       PROVE  /\ 1 <= m /\ m <= states[w].version => VersionTaken(w, m)'
              /\ VersionTaken(w, m)' => 1 <= m /\ m <= states[w].version + 1
  BY <1>1, <1>9, <1>10 DEF VersionInv, VersionNumbers
<1>11. (\A w \in Uids : ~HasState(w) => VersionsOf(w) = {})'
  BY <1>1, <1>2, <1>4 DEF VersionInv, VersionNumbers, VersionsOf, HasState
<1>12. VersionNumbers'
  BY <1>2, <1>10, <1>11 DEF VersionNumbers, HasState
<1>13. \A v \in versions' : \E e \in events : CutFrom(v, e)
  BY <1>2, <1>3, <1>4 DEF VersionInv, VersionTable, CutFrom
<1>14. \A v, w \in versions' : v.uid = w.uid /\ v.no < w.no => v.event < w.event
  <2> SUFFICES ASSUME NEW v \in versions', NEW w \in versions', v.uid = w.uid, v.no < w.no
               PROVE  v.event < w.event
    OBVIOUS
  <2>1. CASE v \in versions /\ w \in versions
    BY <2>1 DEF VersionInv, VersionTable
  <2>2. CASE v \in versions /\ w = new
    BY <1>3, <1>4, <2>2
  <2>3. CASE v = new /\ w \in versions
    BY <1>1, <1>4, <1>5, <1>6, <2>3
  <2>4. CASE v = new /\ w = new
    BY <1>1, <1>4, <2>4
  <2> QED  BY <1>2, <2>1, <2>2, <2>3, <2>4
<1>15. \A v, w \in versions' : v.uid = w.uid /\ w.no = v.no + 1 => v.hash # w.hash
  <2> SUFFICES ASSUME NEW v \in versions', NEW w \in versions', v.uid = w.uid, w.no = v.no + 1
               PROVE  v.hash # w.hash
    OBVIOUS
  <2>1. CASE v \in versions /\ w \in versions
    BY <2>1 DEF VersionInv, VersionTable
  <2>2. CASE v \in versions /\ w = new
    BY <1>4, <1>7, <2>2
  <2>3. CASE v = new /\ w \in versions
    BY <1>1, <1>4, <1>5, <1>6, <2>3
  <2>4. CASE v = new /\ w = new
    BY <1>1, <1>4, <2>4
  <2> QED  BY <1>2, <2>1, <2>2, <2>3, <2>4
<1>16. VersionTable'
  BY <1>2, <1>13, <1>14, <1>15 DEF VersionTable
<1> QED  BY <1>8, <1>12, <1>16 DEF u, n

(* What the next statement of a text call relies on when the call goes on    *)
(* with its document and text and the log at most grows.                     *)
LEMMA CallVersionKept ==
  ASSUME CallVersion, call.step \in {"bump_text", "insert_version"}, call.fresh,
         call'.uid = call.uid, call'.no = call.no, call'.hash = call.hash,
         call'.step = "insert_version", call'.fresh, UNCHANGED <<versions, events>>
  PROVE  CallVersion'
  BY DEF CallVersion, LatestTextIs, VersionsOf

LEMMA CallVersionIdle ==
  ASSUME call'.step \notin {"bump_text", "insert_version", "bump_version"}
  PROVE  CallVersion'
  BY DEF CallVersion

(* An event that is appended leaves the log as it was and one more.          *)
LEMMA InsertGrows ==
  ASSUME NEW u, NEW type, NEW from, NEW to, NEW h, InsertEvent(u, type, from, to, h)
  PROVE  events \subseteq events'
  BY DEF InsertEvent

LEMMA VersionStep == TypeInv /\ NumberInv /\ VersionInv /\ [Next]_vars => VersionInv'
<1> SUFFICES ASSUME TypeInv, NumberInv, VersionInv, [Next]_vars PROVE VersionInv'
  OBVIOUS
<1> USE IdleType
<1>0. /\ TypeOK /\ TableNumbers /\ VersionNumbers /\ VersionTable /\ CallVersion
      /\ call \in Call
  BY DEF TypeInv, NumberInv, VersionInv, TypeOK
<1>1. ASSUME NEW p \in Paths, UpsertDocument(p) PROVE VersionInv'
  <2>1. VersionNumbers' /\ VersionTable'
    BY <1>0, <1>1, QuietVersions DEF UpsertDocument, HasState
  <2> QED  BY <1>1, <2>1, CallVersionIdle DEF UpsertDocument, VersionInv
<1>2. ASSUME NEW p \in Paths, NEW u \in Uids, NEW d \in {0, documents[p]},
             EnsureExisting(p, d, u)
      PROVE  VersionInv'
  <2>1. VersionNumbers' /\ VersionTable'
    BY <1>0, <1>2, QuietVersions DEF EnsureExisting, HasState
  <2> QED  BY <1>2, <2>1, CallVersionIdle DEF EnsureExisting, VersionInv
<1>3. ASSUME NEW p \in Paths, NEW u \in Uids, NEW d \in {0, documents[p]},
             EnsureNew(p, d, u)
      PROVE  VersionInv'
  <2>1. VersionNumbers' /\ VersionTable'
    BY <1>0, <1>3, QuietVersions DEF EnsureNew, HasState
  <2>2. call'.step = "insert_state"
    BY <1>3 DEF EnsureNew, Idle
  <2> QED  BY <2>1, <2>2, CallVersionIdle DEF VersionInv
<1>4. ASSUME InsertState PROVE VersionInv'
  <2> DEFINE row == [state |-> "INPUT", eventNo |-> 0, version |-> 0, archived |-> FALSE]
             w == call.uid
  <2>1. /\ w \in Uids /\ ~HasState(w)
        /\ states \in [Uids -> StateRow \cup {NoRow}]
    BY <1>0, <1>4 DEF InsertState, TypeInv, TypeOK, CallOK
  <2>2. row \in StateRow /\ row.version = 0
    BY DEF StateRow, DocumentStates
  <2>3. /\ states' = [states EXCEPT ![w] = row]
        /\ call'.step = "append_created"
        /\ UNCHANGED <<events, versions>>
    BY <1>0, <1>4 DEF InsertState, Call
  <2> HIDE DEF row, w
  <2>4. row # NoRow
    BY <2>2, ConstantsAssumption
  <2>5. \A n \in Nat : ~VersionTaken(w, n)
    BY <1>0, <2>1 DEF VersionNumbers, VersionsOf, VersionTaken
  <2>6. \A u \in Uids, n \in Nat : VersionTaken(u, n)' <=> VersionTaken(u, n)
    BY <2>3 DEF VersionTaken
  <2>7. \A u \in Uids : HasState(u)' <=> HasState(u) \/ u = w
    BY <2>1, <2>3, <2>4 DEF HasState
  <2>8. \A u \in Uids : states'[u] = IF u = w THEN row ELSE states[u]
    BY <2>1, <2>3
  <2>9. ASSUME NEW u \in Uids, HasState(u)', NEW n \in Nat
        PROVE  /\ 1 <= n /\ n <= states'[u].version => VersionTaken(u, n)
               /\ VersionTaken(u, n) => 1 <= n /\ n <= states'[u].version + 1
    <3>1. CASE u = w
      BY <2>2, <2>5, <2>8, <3>1
    <3>2. CASE u # w
      BY <1>0, <2>7, <2>8, <2>9, <3>2 DEF VersionNumbers
    <3> QED  BY <3>1, <3>2
  <2>10. (\A u \in Uids : ~HasState(u) => VersionsOf(u) = {})'
    BY <1>0, <2>3, <2>7 DEF VersionNumbers, VersionsOf
  <2>11. VersionNumbers'
    BY <2>6, <2>9, <2>10 DEF VersionNumbers
  <2>12. VersionTable'
    BY <1>0, <2>3 DEF VersionTable, CutFrom
  <2> QED  BY <2>3, <2>11, <2>12, CallVersionIdle DEF VersionInv
<1>5. ASSUME AppendCreated PROVE VersionInv'
  <2>1. VersionNumbers' /\ VersionTable'
    BY <1>0, <1>5, QuietVersions, InsertGrows DEF AppendCreated, HasState
  <2>2. call'.step = "bump_created"
    BY <1>0, <1>5 DEF AppendCreated, Call
  <2> QED  BY <2>1, <2>2, CallVersionIdle DEF VersionInv
<1>6. ASSUME NEW u \in Uids, NEW s \in Targets, Transition(u, s) PROVE VersionInv'
  <2>1. VersionNumbers' /\ VersionTable'
    BY <1>0, <1>6, QuietVersions, InsertGrows DEF Transition, HasState
  <2>2. call'.step = "bump_change"
    BY <1>6 DEF Transition, Idle
  <2> QED  BY <2>1, <2>2, CallVersionIdle DEF VersionInv
<1>7. ASSUME NEW u \in Uids, NEW h \in Hashes, RecordText(u, h) PROVE VersionInv'
  <2>1. VersionNumbers' /\ VersionTable'
    BY <1>0, <1>7, QuietVersions, InsertGrows DEF RecordText, HasState
  <2>2. /\ call'.uid = u /\ call'.step = "bump_text" /\ call'.no = NextNo(u)
        /\ call'.hash = h /\ call'.fresh = ~LatestTextIs(u, h)
        /\ UNCHANGED <<states, versions>>
    BY <1>7 DEF RecordText
  <2>3. /\ HasState(u) /\ ~EventTaken(u, NextNo(u))
        /\ \E e \in events' : /\ e.uid = u /\ e.no = NextNo(u)
                              /\ e.type = "TEXT_EXTRACTED" /\ e.hash = h
    <3> DEFINE new == [uid |-> u, no |-> NextNo(u), type |-> "TEXT_EXTRACTED",
                       from |-> states[u].state, to |-> states[u].state, hash |-> h]
    <3>1. HasState(u) /\ ~EventTaken(u, NextNo(u)) /\ events' = events \cup {new}
      BY <1>7 DEF RecordText, InsertEvent
    <3>2. /\ new.uid = u /\ new.no = NextNo(u)
          /\ new.type = "TEXT_EXTRACTED" /\ new.hash = h
      OBVIOUS
    <3> HIDE DEF new
    <3> QED  BY <3>1, <3>2
  <2>4. states[u].eventNo \in Nat /\ NextNo(u) \in Nat /\ NextNo(u) = states[u].eventNo + 1
    BY <1>0, <2>3, Rows DEF StateRow, NextNo
  <2>5. ASSUME NEW v \in versions, v.uid = u PROVE v.event < NextNo(u)
    <3>1. v.event \in Nat /\ EventTaken(u, v.event)
      BY <1>0, <2>5 DEF TypeOK, Version, VersionTable, CutFrom, EventTaken
    <3>2. v.event <= states[u].eventNo + 1 /\ v.event # NextNo(u)
      BY <1>0, <2>3, <3>1 DEF TableNumbers
    <3> QED  BY <2>4, <3>1, <3>2
  <2>6. LatestTextIs(u, h)' <=> LatestTextIs(u, h)
    BY <2>2 DEF LatestTextIs, VersionsOf
  <2>7. CallVersion'
    <3> DEFINE n == NextNo(u)
    <3>1. n \in Nat /\ call'.no = n
      BY <2>2, <2>4
    <3>2. \E e \in events' : /\ e.uid = call'.uid /\ e.no = call'.no
                             /\ e.type = "TEXT_EXTRACTED" /\ e.hash = call'.hash
      BY <2>2, <2>3
    <3>3. \A v \in versions' : v.uid = call'.uid => v.event < call'.no
      BY <2>2, <2>5
    <3>4. call'.fresh => ~LatestTextIs(call.uid, call.hash)'
      BY <2>2, <2>6 DEF LatestTextIs, VersionsOf
    <3> QED  BY <2>2, <3>1, <3>2, <3>3, <3>4 DEF CallVersion
  <2> QED  BY <2>1, <2>7 DEF VersionInv
<1>8. ASSUME NEW step \in BumpSteps, NEW next, BumpEventNo(step, next)
      PROVE  VersionNumbers' /\ VersionTable'
  <2>1. /\ call.uid \in Uids /\ states[call.uid] \in StateRow /\ call.no \in Nat
        /\ states' = [states EXCEPT ![call.uid].eventNo = call.no]
        /\ UNCHANGED <<events, versions>>
    BY <1>0, <1>8, Rows DEF BumpEventNo, BumpSteps, TypeInv, CallOK, Call
  <2>2. [states[call.uid] EXCEPT !.eventNo = call.no] \in StateRow
    BY <2>1 DEF StateRow
  <2>3. \A u \in Uids : HasState(u)' <=> HasState(u)
    BY <1>0, <2>1, <2>2, ConstantsAssumption DEF HasState, TypeOK
  <2>4. \A u \in Uids : HasState(u) => states'[u].version = states[u].version
    BY <1>0, <2>1, Rows DEF TypeOK, StateRow
  <2> QED  BY <1>0, <2>1, <2>3, <2>4, QuietVersions
<1>9. ASSUME BumpCreated PROVE VersionInv'
  <2>1. VersionNumbers' /\ VersionTable'
    BY <1>8, <1>9 DEF BumpCreated, BumpSteps
  <2> QED  BY <1>9, <2>1, CallVersionIdle DEF BumpCreated, BumpEventNo, VersionInv
<1>10. ASSUME BumpChange PROVE VersionInv'
  <2>1. VersionNumbers' /\ VersionTable'
    BY <1>8, <1>10 DEF BumpChange, BumpSteps
  <2>2. call'.step = "set_state"
    BY <1>0, <1>10 DEF BumpChange, BumpEventNo, Call
  <2> QED  BY <2>1, <2>2, CallVersionIdle DEF VersionInv
<1>11. ASSUME BumpText PROVE VersionInv'
  <2>1. VersionNumbers' /\ VersionTable'
    BY <1>8, <1>11 DEF BumpText, BumpSteps
  <2>2. call.step = "bump_text" /\ UNCHANGED <<versions, events>>
    BY <1>11 DEF BumpText, BumpEventNo
  <2>3. CASE call.fresh
    <3>1. call' = [call EXCEPT !.step = "insert_version"]
      BY <1>11, <2>3 DEF BumpText, BumpEventNo
    <3>2. /\ call'.uid = call.uid /\ call'.no = call.no /\ call'.hash = call.hash
          /\ call'.step = "insert_version" /\ call'.fresh
      BY <1>0, <2>3, <3>1 DEF Call
    <3> QED  BY <1>0, <2>1, <2>2, <2>3, <3>2, CallVersionKept DEF VersionInv
  <2>4. CASE ~call.fresh
    <3>1. call'.step \in {"append_indexed", "idle"}
      BY <1>0, <1>11, <2>4 DEF BumpText, BumpEventNo, ThenIndex, Call
    <3> QED  BY <2>1, <3>1, CallVersionIdle DEF VersionInv
  <2> QED  BY <2>3, <2>4
<1>12. ASSUME InsertVersion PROVE VersionInv'
  <2>1. /\ VersionNumbers' /\ VersionTable'
        /\ \E v \in versions' : v.uid = call.uid /\ v.no = states[call.uid].version + 1
    BY <1>12, InsertVersions
  <2>2. call'.step = "bump_version" /\ call'.uid = call.uid /\ states' = states
    BY <1>0, <1>12 DEF InsertVersion, Call
  <2>3. VersionTaken(call.uid, states[call.uid].version + 1)'
    BY <2>1, <2>2 DEF VersionTaken
  <2>4. CallVersion'
    BY <2>2, <2>3 DEF CallVersion
  <2> QED  BY <2>1, <2>4 DEF VersionInv
<1>13. ASSUME VersionConflict PROVE VersionInv'
  <2>1. VersionNumbers' /\ VersionTable'
    BY <1>0, <1>13, QuietVersions DEF VersionConflict, HasState
  <2> QED  BY <1>13, <2>1, CallVersionIdle DEF VersionConflict, VersionInv
<1>14. ASSUME BumpVersion PROVE VersionInv'
  <2> DEFINE w == call.uid
             new == [states[w] EXCEPT !.version = states[w].version + 1]
  <2>1. /\ w \in Uids /\ HasState(w) /\ states[w] \in StateRow
        /\ VersionTaken(w, states[w].version + 1)
    BY <1>0, <1>14, Rows DEF BumpVersion, TypeInv, CallOK, CallVersion
  <2>2. /\ states' = [states EXCEPT ![w] = new]
        /\ UNCHANGED <<events, versions>>
    BY <1>14 DEF BumpVersion
  <2>3. new \in StateRow /\ new.version = states[w].version + 1 /\ states[w].version \in Nat
    BY <2>1 DEF StateRow
  <2> HIDE DEF w, new
  <2>4. \A u \in Uids : states'[u] = IF u = w THEN new ELSE states[u]
    BY <1>0, <2>2 DEF TypeOK
  <2>5. \A u \in Uids : HasState(u)' <=> HasState(u)
    BY <2>1, <2>3, <2>4, ConstantsAssumption DEF HasState
  <2>6. \A u \in Uids : HasState(u) => states[u].version \in Nat
    BY <1>0, Rows DEF StateRow
  <2>7. \A u \in Uids, n \in Nat : VersionTaken(u, n)' <=> VersionTaken(u, n)
    BY <2>2 DEF VersionTaken
  <2>8. ASSUME NEW u \in Uids, HasState(u), NEW n \in Nat
        PROVE  /\ 1 <= n /\ n <= states'[u].version => VersionTaken(u, n)
               /\ VersionTaken(u, n) => 1 <= n /\ n <= states'[u].version + 1
    <3>1. CASE u = w
      <4>1. /\ 1 <= n /\ n <= states[w].version => VersionTaken(w, n)
            /\ VersionTaken(w, n) => 1 <= n /\ n <= states[w].version + 1
        BY <1>0, <2>1 DEF VersionNumbers
      <4>2. states'[w].version = states[w].version + 1
        BY <2>1, <2>3, <2>4
      <4> QED  BY <2>1, <2>3, <3>1, <4>1, <4>2
    <3>2. CASE u # w
      BY <1>0, <2>4, <2>8, <3>2 DEF VersionNumbers
    <3> QED  BY <3>1, <3>2
  <2>9. (\A u \in Uids : ~HasState(u) => VersionsOf(u) = {})'
    BY <1>0, <2>2, <2>5 DEF VersionNumbers, VersionsOf
  <2>10. VersionNumbers'
    BY <2>5, <2>7, <2>8, <2>9 DEF VersionNumbers
  <2>11. VersionTable'
    BY <1>0, <2>2 DEF VersionTable, CutFrom
  <2>12. call'.step \in {"append_indexed", "idle"}
    BY <1>0, <1>14 DEF BumpVersion, ThenIndex, Call
  <2> QED  BY <2>10, <2>11, <2>12, CallVersionIdle DEF VersionInv
<1>15. ASSUME AppendIndexed PROVE VersionInv'
  <2>1. VersionNumbers' /\ VersionTable'
    BY <1>0, <1>15, QuietVersions, InsertGrows DEF AppendIndexed, HasState
  <2>2. call'.step = "bump_change"
    BY <1>0, <1>15 DEF AppendIndexed, Call
  <2> QED  BY <2>1, <2>2, CallVersionIdle DEF VersionInv
<1>16. ASSUME SetState PROVE VersionInv'
  <2> DEFINE new == [states[call.uid] EXCEPT !.state = call.to,
                        !.archived = ArchivedAfter(call, states[call.uid].archived)]
  <2>1. /\ call.uid \in Uids
        /\ states[call.uid] \in StateRow
        /\ call.to \in DocumentStates
        /\ states' = [states EXCEPT ![call.uid] = new]
        /\ UNCHANGED <<events, versions>>
    BY <1>16, Rows DEF SetState, TypeInv, TypeOK, CallOK, ChangeSteps
  <2>2. ArchivedAfter(call, states[call.uid].archived) \in BOOLEAN
    BY <2>1 DEF ArchivedAfter, StateRow
  <2>3. new \in StateRow /\ new.version = states[call.uid].version
    BY <2>1, <2>2 DEF StateRow
  <2> HIDE DEF new
  <2>4. \A u \in Uids : states'[u] = IF u = call.uid THEN new ELSE states[u]
    BY <1>0, <2>1 DEF TypeOK
  <2>5. \A u \in Uids : HasState(u)' <=> HasState(u)
    BY <2>1, <2>3, <2>4, ConstantsAssumption DEF HasState
  <2>6. VersionNumbers' /\ VersionTable'
    BY <1>0, <2>1, <2>3, <2>4, <2>5, QuietVersions
  <2> QED  BY <1>16, <2>6, CallVersionIdle DEF SetState, VersionInv
<1>17. ASSUME Crash PROVE VersionInv'
  <2>1. VersionNumbers' /\ VersionTable'
    BY <1>0, <1>17, QuietVersions DEF Crash, tables, HasState
  <2> QED  BY <1>17, <2>1, CallVersionIdle DEF Crash, VersionInv
<1>18. ASSUME UNCHANGED vars PROVE VersionInv'
  <2>1. VersionNumbers' /\ VersionTable'
    BY <1>0, <1>18, QuietVersions DEF vars, HasState
  <2>2. CallVersion'
    BY <1>0, <1>18 DEF vars, CallVersion, LatestTextIs, VersionsOf, VersionTaken
  <2> QED  BY <2>1, <2>2 DEF VersionInv
<1> QED
  BY <1>1, <1>2, <1>3, <1>4, <1>5, <1>6, <1>7, <1>9, <1>10, <1>11, <1>12, <1>13, <1>14,
     <1>15, <1>16, <1>17, <1>18 DEF Next, Continue

(* Every version names the extraction it was cut from, in order and without a *)
(* gap, and no two neighbours hold the same text, whatever a crash leaves      *)
(* behind.                                                                    *)
THEOREM VersionsKnowTheirEvents == Spec => []VersionProvenance
<1>1. TypeInv /\ VersionInv => VersionProvenance
  BY VersionsImplyProvenance DEF TypeInv
<1> QED
  BY <1>1, TypeInit, TypeStep, NumberInit, NumberStep, VersionInit, VersionStep, PTL DEF Spec

-----------------------------------------------------------------------------
(* The event-sourced document.                                              *)

Appended(n, from, to) ==
  \E e \in events : e.uid = call.uid /\ e.no = n /\ e.from = from /\ e.to = to

(* Each pending UPDATE finds the event it belongs to, and until a call is cut *)
(* short only the document that is being created has an empty log.            *)
OriginInv ==
  /\ call.step \in {"append_created", "bump_created"} =>
       states[call.uid].eventNo = 0 /\ states[call.uid].state = "INPUT"
  /\ call.step = "bump_created" => Appended(call.no, NoState, "INPUT")
  /\ call.step = "bump_text" => Appended(call.no, call.from, call.from)
  /\ call.step = "bump_change" => Appended(call.no, call.from, call.to)
  /\ call.step = "set_state" => /\ states[call.uid].eventNo >= 1
                                /\ Appended(states[call.uid].eventNo, call.from, call.to)
  /\ crashes = 0 =>
       /\ \A u \in Uids : HasState(u) /\ states[u].eventNo = 0 =>
            call.uid = u /\ call.step \in {"append_created", "bump_created"}
       /\ call.step = "set_state" => states[call.uid].eventNo >= 2

LEMMA OriginInit == Init => OriginInv
  BY IdleType DEF Init, OriginInv, HasState

(* The event InsertEvent adds.                                              *)
LEMMA Inserted ==
  ASSUME NEW u, NEW type, NEW from, NEW to, NEW h, InsertEvent(u, type, from, to, h)
  PROVE  \E e \in events' : e.uid = u /\ e.no = NextNo(u) /\ e.from = from /\ e.to = to
<1> DEFINE new == [uid |-> u, no |-> NextNo(u), type |-> type,
                   from |-> from, to |-> to, hash |-> h]
<1>1. events' = events \cup {new}
  BY DEF InsertEvent
<1>2. new.uid = u /\ new.no = NextNo(u) /\ new.from = from /\ new.to = to
  OBVIOUS
<1> HIDE DEF new
<1> QED  BY <1>1, <1>2

LEMMA OriginStep == TypeInv /\ NumberInv /\ MoveInv /\ OriginInv /\ [Next]_vars => OriginInv'
<1> SUFFICES ASSUME TypeInv, NumberInv, MoveInv, OriginInv, [Next]_vars PROVE OriginInv'
  OBVIOUS
<1> USE IdleType
<1>0. /\ TypeOK /\ TableNumbers /\ CallMoves /\ call \in Call /\ crashes \in Nat
  BY DEF TypeInv, NumberInv, MoveInv, TypeOK
<1>1. ASSUME call.step = "idle", UNCHANGED <<states, crashes>>,
             call'.step \in {"idle", "insert_state"}
      PROVE  OriginInv'
  BY <1>1 DEF OriginInv, HasState
<1>2. ASSUME NEW p \in Paths, UpsertDocument(p) PROVE OriginInv'
  BY <1>1, <1>2 DEF UpsertDocument
<1>3. ASSUME NEW p \in Paths, NEW u \in Uids, NEW d, EnsureExisting(p, d, u) PROVE OriginInv'
  BY <1>1, <1>3 DEF EnsureExisting
<1>4. ASSUME NEW p \in Paths, NEW u \in Uids, NEW d, EnsureNew(p, d, u) PROVE OriginInv'
  BY <1>1, <1>4 DEF EnsureNew, Idle
<1>5. ASSUME InsertState PROVE OriginInv'
  <2>1. /\ call.uid \in Uids /\ ~HasState(call.uid)
        /\ call'.uid = call.uid /\ call'.step = "append_created"
        /\ states'[call.uid].eventNo = 0 /\ states'[call.uid].state = "INPUT"
        /\ \A u \in Uids \ {call.uid} : states'[u] = states[u]
        /\ call.step = "insert_state" /\ crashes' = crashes
    BY <1>0, <1>5 DEF InsertState, TypeInv, TypeOK, CallOK, Call
  <2> QED  BY <2>1 DEF OriginInv, HasState
<1>6. ASSUME AppendCreated PROVE OriginInv'
  <2>1. /\ call'.uid = call.uid /\ call'.step = "bump_created" /\ call'.no = NextNo(call.uid)
        /\ UNCHANGED <<states, crashes>> /\ call.step = "append_created"
    BY <1>0, <1>6 DEF AppendCreated, Call
  <2>2. \E e \in events' : /\ e.uid = call.uid /\ e.no = NextNo(call.uid)
                           /\ e.from = NoState /\ e.to = "INPUT"
    BY <1>6, Inserted DEF AppendCreated
  <2>3. Appended(call.no, NoState, "INPUT")'
    BY <2>1, <2>2 DEF Appended
  <2> QED  BY <2>1, <2>3 DEF OriginInv, HasState
<1>7. ASSUME NEW u \in Uids, NEW s \in Targets, Transition(u, s) PROVE OriginInv'
  <2>1. /\ call'.uid = u /\ call'.step = "bump_change" /\ call'.no = NextNo(u)
        /\ call'.from = states[u].state /\ call'.to = s
        /\ UNCHANGED <<states, crashes>> /\ call.step = "idle"
    BY <1>7 DEF Transition, Idle
  <2>2. \E e \in events' : /\ e.uid = u /\ e.no = NextNo(u)
                           /\ e.from = states[u].state /\ e.to = s
    BY <1>7, Inserted DEF Transition
  <2>3. Appended(call.no, call.from, call.to)'
    BY <2>1, <2>2 DEF Appended
  <2> QED  BY <2>1, <2>3 DEF OriginInv, HasState
<1>8. ASSUME NEW u \in Uids, NEW h \in Hashes, RecordText(u, h) PROVE OriginInv'
  <2>1. /\ call'.uid = u /\ call'.step = "bump_text" /\ call'.no = NextNo(u)
        /\ call'.from = states[u].state
        /\ UNCHANGED <<states, crashes>> /\ call.step = "idle"
    BY <1>8 DEF RecordText
  <2>2. \E e \in events' : /\ e.uid = u /\ e.no = NextNo(u)
                           /\ e.from = states[u].state /\ e.to = states[u].state
    BY <1>8, Inserted DEF RecordText
  <2>3. Appended(call.no, call.from, call.from)'
    BY <2>1, <2>2 DEF Appended
  <2> QED  BY <2>1, <2>3 DEF OriginInv, HasState
<1>9. ASSUME NEW step \in BumpSteps, NEW next, BumpEventNo(step, next)
      PROVE  /\ call.uid \in Uids /\ HasState(call.uid) /\ states[call.uid].eventNo \in Nat
             /\ call.step = step /\ call' = next /\ crashes' = crashes /\ events' = events
             /\ call.no = states[call.uid].eventNo + 1
             /\ states'[call.uid].eventNo = call.no
             /\ \A u \in Uids \ {call.uid} : states'[u] = states[u]
  <2>1. /\ call.uid \in Uids /\ HasState(call.uid) /\ states[call.uid] \in StateRow
        /\ call.no = states[call.uid].eventNo + 1
    BY <1>0, <1>9, Rows DEF BumpEventNo, BumpSteps, TypeInv, CallOK, NumberInv, CallNumbers,
                            NextNo
  <2> QED  BY <1>0, <1>9, <2>1 DEF BumpEventNo, TypeOK, StateRow
<1>10. ASSUME BumpCreated PROVE OriginInv'
  <2>1. /\ call.uid \in Uids /\ states[call.uid].eventNo \in Nat
        /\ call.step = "bump_created" /\ call' = Idle /\ crashes' = crashes
        /\ states'[call.uid].eventNo = states[call.uid].eventNo + 1
        /\ \A u \in Uids \ {call.uid} : states'[u] = states[u]
    BY <1>9, <1>10 DEF BumpCreated, BumpSteps
  <2>2. states'[call.uid].eventNo # 0
    BY <2>1
  <2> QED  BY <2>1, <2>2 DEF OriginInv, HasState
<1>11. ASSUME BumpChange PROVE OriginInv'
  <2>1. /\ call.uid \in Uids /\ HasState(call.uid) /\ states[call.uid].eventNo \in Nat
        /\ call.step = "bump_change" /\ call' = [call EXCEPT !.step = "set_state"]
        /\ crashes' = crashes /\ events' = events
        /\ call.no = states[call.uid].eventNo + 1
        /\ states'[call.uid].eventNo = call.no
        /\ \A u \in Uids \ {call.uid} : states'[u] = states[u]
    BY <1>9, <1>11 DEF BumpChange, BumpSteps
  <2>2. /\ call'.uid = call.uid /\ call'.from = call.from /\ call'.to = call.to
        /\ call'.step = "set_state"
    BY <1>0, <2>1 DEF Call
  <2>3. states'[call.uid].eventNo >= 1 /\ states'[call.uid].eventNo # 0
    BY <2>1
  <2>4. Appended(states[call.uid].eventNo, call.from, call.to)'
    BY <2>1, <2>2 DEF OriginInv, Appended
  <2>5. crashes = 0 => states[call.uid].eventNo # 0
    BY <2>1 DEF OriginInv
  <2>6. crashes = 0 => states'[call.uid].eventNo >= 2
    BY <2>1, <2>5
  <2> QED  BY <2>1, <2>2, <2>3, <2>4, <2>6 DEF OriginInv, HasState
<1>12. ASSUME BumpText PROVE OriginInv'
  <2>1. /\ call.uid \in Uids /\ states[call.uid].eventNo \in Nat
        /\ call.step = "bump_text" /\ crashes' = crashes
        /\ states'[call.uid].eventNo = states[call.uid].eventNo + 1
        /\ \A u \in Uids \ {call.uid} : states'[u] = states[u]
    BY <1>9, <1>12 DEF BumpText, BumpSteps
  <2>2. states'[call.uid].eventNo # 0
    BY <2>1
  <2>3. call'.step \in {"insert_version", "append_indexed", "idle"}
    BY <1>0, <1>12 DEF BumpText, BumpEventNo, ThenIndex, Call
  <2> QED  BY <2>1, <2>2, <2>3 DEF OriginInv, HasState
<1>13. ASSUME InsertVersion PROVE OriginInv'
  <2>1. /\ call'.step = "bump_version" /\ call.step = "insert_version"
        /\ UNCHANGED <<states, crashes>>
    BY <1>0, <1>13 DEF InsertVersion, Call
  <2> QED  BY <2>1 DEF OriginInv, HasState
<1>14. ASSUME VersionConflict PROVE OriginInv'
  <2>1. /\ call'.step = "idle" /\ call.step = "insert_version"
        /\ UNCHANGED <<states, crashes>>
    BY <1>14 DEF VersionConflict
  <2> QED  BY <2>1 DEF OriginInv, HasState
<1>15. ASSUME BumpVersion PROVE OriginInv'
  <2>1. /\ call.uid \in Uids /\ HasState(call.uid) /\ states[call.uid] \in StateRow
        /\ call'.step \in {"append_indexed", "idle"} /\ call.step = "bump_version"
        /\ crashes' = crashes
    BY <1>0, <1>15, Rows DEF BumpVersion, ThenIndex, TypeInv, CallOK, Call
  <2>2. /\ states'[call.uid].eventNo = states[call.uid].eventNo
        /\ \A u \in Uids \ {call.uid} : states'[u] = states[u]
    BY <1>0, <1>15, <2>1 DEF BumpVersion, TypeOK, StateRow
  <2> QED  BY <2>1, <2>2 DEF OriginInv, HasState
<1>16. ASSUME AppendIndexed PROVE OriginInv'
  <2>1. /\ call.uid \in Uids /\ call.to = "INDEXED"
        /\ call'.uid = call.uid /\ call'.step = "bump_change"
        /\ call'.no = NextNo(call.uid)
        /\ call'.from = call.from /\ call'.to = call.to
        /\ UNCHANGED <<states, crashes>> /\ call.step = "append_indexed"
    BY <1>0, <1>16 DEF AppendIndexed, TypeInv, CallOK, CallMoves, TextSteps, Call
  <2>2. \E e \in events' : /\ e.uid = call.uid /\ e.no = NextNo(call.uid)
                           /\ e.from = call.from /\ e.to = "INDEXED"
    BY <1>16, Inserted DEF AppendIndexed
  <2>3. Appended(call.no, call.from, call.to)'
    BY <2>1, <2>2 DEF Appended
  <2> QED  BY <2>1, <2>3 DEF OriginInv, HasState
<1>17. ASSUME SetState PROVE OriginInv'
  <2>1. /\ call.uid \in Uids /\ HasState(call.uid) /\ states[call.uid] \in StateRow
        /\ call' = Idle /\ call.step = "set_state" /\ crashes' = crashes
    BY <1>0, <1>17, Rows DEF SetState, TypeInv, CallOK
  <2>2. /\ states'[call.uid].eventNo = states[call.uid].eventNo
        /\ \A u \in Uids \ {call.uid} : states'[u] = states[u]
    BY <1>0, <1>17, <2>1 DEF SetState, TypeOK, StateRow
  <2> QED  BY <2>1, <2>2 DEF OriginInv, HasState
<1>18. ASSUME Crash PROVE OriginInv'
  <2>1. call' = Idle /\ crashes' # 0
    BY <1>0, <1>18 DEF Crash
  <2> QED  BY <2>1 DEF OriginInv
<1>19. ASSUME UNCHANGED vars PROVE OriginInv'
  BY <1>19 DEF vars, OriginInv, Appended, HasState
<1> QED
  BY <1>2, <1>3, <1>4, <1>5, <1>6, <1>7, <1>8, <1>10, <1>11, <1>12, <1>13, <1>14, <1>15,
     <1>16, <1>17, <1>18, <1>19 DEF Next, Continue

(* What SettledLog shows of the event that has a number.                     *)
Entry(u, n) == LET e == CHOOSE e \in EventsOf(u) : e.no = n
               IN [from |-> e.from, to |-> e.to]

LEMMA EntryIs ==
  ASSUME TableNumbers, NEW e \in events
  PROVE  Entry(e.uid, e.no) = [from |-> e.from, to |-> e.to]
<1> DEFINE c == CHOOSE f \in EventsOf(e.uid) : f.no = e.no
<1>1. e \in EventsOf(e.uid)
  BY DEF EventsOf
<1>2. c \in EventsOf(e.uid) /\ c.no = e.no
  BY <1>1
<1>3. c = e
  BY <1>2 DEF EventsOf, TableNumbers
<1> QED  BY <1>3 DEF Entry

LEMMA EntryKept ==
  ASSUME TableNumbers, TableNumbers', events \subseteq events', NEW u, NEW n, EventTaken(u, n)
  PROVE  Entry(u, n)' = Entry(u, n)
<1>1. PICK e \in events : e.uid = u /\ e.no = n
  BY DEF EventTaken
<1>2. Entry(u, n) = [from |-> e.from, to |-> e.to]
  BY <1>1, EntryIs
<1>3. e \in events'
  OBVIOUS
<1>4. \A f, g \in events' : f.uid = g.uid /\ f.no = g.no => f = g
  BY DEF TableNumbers
<1> DEFINE c == CHOOSE f \in {f \in events' : f.uid = u} : f.no = n
<1>5. c \in events' /\ c.uid = u /\ c.no = n
  BY <1>1, <1>3
<1>6. c = e
  BY <1>1, <1>3, <1>4, <1>5
<1>7. Entry(u, n)' = [from |-> e.from, to |-> e.to]
  BY <1>6 DEF Entry, EventsOf
<1> QED  BY <1>2, <1>7

(* A function on 1..k and one more value are a sequence and its extension.    *)
LEMMA AppendTo ==
  ASSUME NEW k \in Nat, NEW f, f = [n \in 1..k |-> f[n]], NEW x
  PROVE  Append(f, x) = [n \in 1..(k + 1) |-> IF n <= k THEN f[n] ELSE x]
<1> DEFINE S == {f[n] : n \in 1..k} \cup {x}
<1>1. f \in [1..k -> S]
  OBVIOUS
<1>2. f \in Seq(S) /\ Len(f) = k /\ x \in S
  BY <1>1
<1> HIDE DEF S
<1>3. Append(f, x) = [n \in 1..(Len(f) + 1) |-> IF n <= Len(f) THEN f[n] ELSE x]
  BY <1>2
<1> QED  BY <1>2, <1>3

LEMMA SettledNoType ==
  ASSUME TypeInv, OriginInv, NEW u \in Uids
  PROVE  /\ SettledNo(u) \in Nat
         /\ HasState(u) => SettledNo(u) <= states[u].eventNo /\ states[u].eventNo \in Nat
         /\ ~HasState(u) => SettledNo(u) = 0
<1>1. HasState(u) => states[u].eventNo \in Nat
  BY Rows DEF TypeInv, StateRow
<1>2. HasState(u) /\ call.uid = u /\ call.step = "set_state" => states[u].eventNo >= 1
  BY DEF OriginInv
<1> QED  BY <1>1, <1>2 DEF SettledNo

LEMMA SettledTaken ==
  ASSUME TypeInv, NumberInv, OriginInv, NEW u \in Uids, NEW n \in 1..SettledNo(u)
  PROVE  EventTaken(u, n)
<1>1. HasState(u) /\ n \in Nat /\ 1 <= n /\ n <= SettledNo(u)
  BY SettledNoType
<1>2. n <= states[u].eventNo
  BY <1>1, SettledNoType
<1> QED  BY <1>1, <1>2 DEF NumberInv, TableNumbers

(* A statement that settles nothing is a stutter of the ideal document.       *)
LEMMA QuietSettled ==
  ASSUME TypeInv, NumberInv, OriginInv, NumberInv', events \subseteq events',
         \A u \in Uids : /\ SettledNo(u)' = SettledNo(u)
                         /\ SettledNo(u) # 0 => states'[u].state = states[u].state
  PROVE  UNCHANGED Ideal!vars
<1>1. ASSUME NEW u \in Uids, NEW n \in 1..SettledNo(u) PROVE Entry(u, n)' = Entry(u, n)
  BY SettledTaken, EntryKept DEF NumberInv
<1>2. SettledLog = [u \in Uids |-> [n \in 1..SettledNo(u) |-> Entry(u, n)]]
  BY DEF SettledLog, Entry
<1>3. SettledLog' = [u \in Uids |-> [n \in 1..SettledNo(u)' |-> Entry(u, n)']]
  BY DEF SettledLog, Entry
<1>4. \A u \in Uids : [n \in 1..SettledNo(u)' |-> Entry(u, n)']
                        = [n \in 1..SettledNo(u) |-> Entry(u, n)]
  BY <1>1
<1>5. SettledLog' = SettledLog
  BY <1>2, <1>3, <1>4
<1>6. SettledState' = SettledState
  BY DEF SettledState
<1> QED  BY <1>5, <1>6 DEF Ideal!vars

(* A statement that settles the next event of one document records its move.  *)
LEMMA GrowSettled ==
  ASSUME TypeInv, NumberInv, OriginInv, NumberInv', events \subseteq events',
         NEW u \in Uids, NEW m \in events', m.uid = u, m.no = SettledNo(u) + 1,
         m.from = SettledState[u], states'[u].state = m.to,
         SettledNo(u)' = SettledNo(u) + 1,
         \A v \in Uids \ {u} : /\ SettledNo(v)' = SettledNo(v)
                               /\ SettledNo(v) # 0 => states'[v].state = states[v].state
  PROVE  Ideal!Record(u, m.to)
<1> DEFINE L == [v \in Uids |-> [n \in 1..SettledNo(v) |-> Entry(v, n)]]
<1>0. PICK k \in Nat : k = SettledNo(u)
  BY SettledNoType
<1>9. PICK x : x = [from |-> SettledState[u], to |-> m.to]
  OBVIOUS
<1>1. ASSUME NEW v \in Uids, NEW n \in 1..SettledNo(v) PROVE Entry(v, n)' = Entry(v, n)
  BY <1>1, SettledTaken, EntryKept DEF NumberInv
<1>2. SettledLog = L
  BY DEF SettledLog, Entry
<1>3. SettledLog' = [v \in Uids |-> [n \in 1..SettledNo(v)' |-> Entry(v, n)']]
  BY DEF SettledLog, Entry
<1>4. \A v \in Uids \ {u} : [n \in 1..SettledNo(v)' |-> Entry(v, n)'] = L[v]
  BY <1>1
<1>5. Entry(u, k + 1)' = x
  <2>1. \A f, g \in events' : f.uid = g.uid /\ f.no = g.no => f = g
    BY DEF NumberInv, TableNumbers
  <2> DEFINE c == CHOOSE f \in {f \in events' : f.uid = u} : f.no = k + 1
  <2>2. c \in events' /\ c.uid = u /\ c.no = k + 1
    BY <1>0
  <2>3. c = m
    BY <1>0, <2>1, <2>2
  <2> QED  BY <1>9, <2>3 DEF Entry, EventsOf
<1>6. [n \in 1..SettledNo(u)' |-> Entry(u, n)'] = Append(L[u], x)
  <2> DEFINE f == [n \in 1..k |-> Entry(u, n)]
  <2>1. L[u] = f /\ f = [n \in 1..k |-> f[n]]
    BY <1>0
  <2>2. Append(f, x) = [n \in 1..(k + 1) |-> IF n <= k THEN f[n] ELSE x]
    BY <1>0, <2>1, AppendTo
  <2>3. \A n \in 1..(k + 1) : (n <= k /\ n \in 1..k) \/ (~(n <= k) /\ n = k + 1)
    BY <1>0
  <2>4. \A n \in 1..k : Entry(u, n)' = f[n]
    BY <1>0, <1>1
  <2>5. \A n \in 1..(k + 1) : Entry(u, n)' = IF n <= k THEN f[n] ELSE x
    <3> HIDE DEF f
    <3> QED  BY <1>5, <2>3, <2>4
  <2>6. SettledNo(u)' = k + 1
    BY <1>0
  <2> HIDE DEF f, L
  <2> QED  BY <2>1, <2>2, <2>5, <2>6
<1>7. SettledLog' = [SettledLog EXCEPT ![u] = Append(SettledLog[u], x)]
  <2> DEFINE M == [v \in Uids |-> [n \in 1..SettledNo(v)' |-> Entry(v, n)']]
  <2>1. M[u] = Append(L[u], x)
    BY <1>6
  <2>2. \A v \in Uids \ {u} : M[v] = L[v]
    BY <1>4
  <2>3. M = [v \in Uids |-> M[v]] /\ L = [v \in Uids |-> L[v]]
    OBVIOUS
  <2> HIDE DEF M, L
  <2>4. M = [L EXCEPT ![u] = Append(L[u], x)]
    BY <2>1, <2>2, <2>3
  <2> QED  BY <1>2, <1>3, <2>4 DEF M
<1>8. SettledState' = [SettledState EXCEPT ![u] = m.to]
  <2>1. \A v \in Uids : SettledState'[v] = IF SettledNo(v)' = 0 THEN NoState
                                           ELSE states'[v].state
    BY DEF SettledState
  <2>2. \A v \in Uids : SettledState[v] = IF SettledNo(v) = 0 THEN NoState ELSE states[v].state
    BY DEF SettledState
  <2>3. SettledNo(u)' # 0
    BY <1>0
  <2>4. \A v \in Uids : SettledState'[v] = IF v = u THEN m.to ELSE SettledState[v]
    BY <2>1, <2>2, <2>3
  <2>5. /\ SettledState = [v \in Uids |-> SettledState[v]]
        /\ SettledState' = [v \in Uids |-> SettledState'[v]]
    BY DEF SettledState
  <2> QED  BY <2>4, <2>5
<1> QED  BY <1>7, <1>8, <1>9 DEF Ideal!Record

LEMMA IdealInit == Init => Ideal!Init
<1> SUFFICES ASSUME Init PROVE Ideal!Init
  OBVIOUS
<1>1. \A u \in Uids : SettledNo(u) = 0
  BY DEF Init, SettledNo, HasState
<1>2. SettledState = [u \in Uids |-> NoState]
  BY <1>1 DEF SettledState
<1>3. SettledLog = [u \in Uids |-> [n \in 1..SettledNo(u) |-> Entry(u, n)]]
  BY DEF SettledLog, Entry
<1>4. \A u \in Uids : [n \in 1..SettledNo(u) |-> Entry(u, n)] = << >>
  <2> SUFFICES ASSUME NEW u \in Uids PROVE [n \in 1..SettledNo(u) |-> Entry(u, n)] = << >>
    OBVIOUS
  <2>1. 1..SettledNo(u) = {}
    BY <1>1
  <2> QED  BY <2>1
<1>5. SettledLog = [u \in Uids |-> << >>]
  BY <1>3, <1>4
<1> QED  BY <1>2, <1>5 DEF Ideal!Init

(* Until a call is cut short every statement settles one move or none.        *)
LEMMA IdealStep ==
  ASSUME TypeInv, NumberInv, MoveInv, OriginInv, NumberInv', [Next]_vars, crashes' = 0
  PROVE  [Ideal!Next]_(Ideal!vars)
<1> USE IdleType
<1>0. /\ TypeOK /\ TableNumbers /\ CallMoves /\ call \in Call /\ crashes \in Nat
  BY DEF TypeInv, NumberInv, MoveInv, TypeOK
<1>1. ASSUME UNCHANGED states, events \subseteq events',
             call.step # "set_state", call'.step # "set_state"
      PROVE  UNCHANGED Ideal!vars
  <2>1. \A u \in Uids : SettledNo(u)' = SettledNo(u)
    BY <1>1 DEF SettledNo, HasState
  <2> QED  BY <1>1, <2>1, QuietSettled
<1>2. ASSUME NEW p \in Paths, UpsertDocument(p) PROVE UNCHANGED Ideal!vars
  BY <1>1, <1>2 DEF UpsertDocument
<1>3. ASSUME NEW p \in Paths, NEW u \in Uids, NEW d, EnsureExisting(p, d, u)
      PROVE  UNCHANGED Ideal!vars
  BY <1>1, <1>3 DEF EnsureExisting
<1>4. ASSUME NEW p \in Paths, NEW u \in Uids, NEW d, EnsureNew(p, d, u)
      PROVE  UNCHANGED Ideal!vars
  BY <1>1, <1>4 DEF EnsureNew, Idle
<1>5. ASSUME InsertState PROVE UNCHANGED Ideal!vars
  <2>1. /\ call.uid \in Uids /\ ~HasState(call.uid)
        /\ call.step = "insert_state" /\ call'.step = "append_created"
        /\ states'[call.uid].eventNo = 0 /\ events' = events
        /\ \A u \in Uids \ {call.uid} : states'[u] = states[u]
    BY <1>0, <1>5 DEF InsertState, TypeInv, TypeOK, CallOK, Call
  <2>2. \A u \in Uids : SettledNo(u)' = SettledNo(u)
    BY <2>1 DEF SettledNo, HasState
  <2>3. SettledNo(call.uid) = 0
    BY <2>1 DEF SettledNo
  <2> QED  BY <2>1, <2>2, <2>3, QuietSettled
<1>6. ASSUME AppendCreated PROVE UNCHANGED Ideal!vars
  <2>1. call.step = "append_created" /\ call'.step = "bump_created" /\ states' = states
    BY <1>0, <1>6 DEF AppendCreated, Call
  <2> QED  BY <1>1, <1>6, <2>1, InsertGrows DEF AppendCreated
<1>7. ASSUME NEW u \in Uids, NEW s \in Targets, Transition(u, s) PROVE UNCHANGED Ideal!vars
  <2>1. call.step = "idle" /\ call'.step = "bump_change" /\ states' = states
    BY <1>7 DEF Transition, Idle
  <2> QED  BY <1>1, <1>7, <2>1, InsertGrows DEF Transition
<1>8. ASSUME NEW u \in Uids, NEW h \in Hashes, RecordText(u, h) PROVE UNCHANGED Ideal!vars
  <2>1. call.step = "idle" /\ call'.step = "bump_text" /\ states' = states
    BY <1>8 DEF RecordText
  <2> QED  BY <1>1, <1>8, <2>1, InsertGrows DEF RecordText
<1>9. ASSUME NEW step \in BumpSteps, NEW next, BumpEventNo(step, next)
      PROVE  /\ call.uid \in Uids /\ states[call.uid] \in StateRow
             /\ call.step = step /\ call' = next /\ crashes' = crashes /\ events' = events
             /\ call.no = states[call.uid].eventNo + 1
             /\ states'[call.uid].eventNo = call.no
             /\ states'[call.uid].state = states[call.uid].state
             /\ HasState(call.uid) /\ states'[call.uid] # NoRow
             /\ \A u \in Uids \ {call.uid} : states'[u] = states[u]
  <2>1. /\ call.uid \in Uids /\ HasState(call.uid) /\ states[call.uid] \in StateRow
        /\ call.no = states[call.uid].eventNo + 1 /\ call.no \in Nat
    BY <1>0, <1>9, Rows DEF BumpEventNo, BumpSteps, TypeInv, CallOK, NumberInv, CallNumbers,
                            NextNo, Call
  <2>2. states' = [states EXCEPT ![call.uid].eventNo = call.no]
    BY <1>9 DEF BumpEventNo
  <2>3. [states[call.uid] EXCEPT !.eventNo = call.no] \in StateRow
    BY <2>1 DEF StateRow
  <2>4. states'[call.uid] # NoRow
    BY <1>0, <2>1, <2>2, <2>3, ConstantsAssumption DEF TypeOK
  <2> QED  BY <1>0, <1>9, <2>1, <2>2, <2>4 DEF BumpEventNo, TypeOK, StateRow
<1>10. ASSUME BumpCreated PROVE Ideal!Next
  <2>1. /\ call.uid \in Uids /\ states[call.uid].eventNo = 0
        /\ call.step = "bump_created" /\ call' = Idle /\ events' = events
        /\ call.no = 1 /\ states'[call.uid].eventNo = 1
        /\ states'[call.uid].state = "INPUT" /\ states'[call.uid] # NoRow
        /\ \A u \in Uids \ {call.uid} : states'[u] = states[u]
    BY <1>9, <1>10 DEF BumpCreated, BumpSteps, OriginInv
  <2>2. PICK u \in Uids : u = call.uid
    BY <2>1
  <2>3. PICK m \in events' : m.uid = u /\ m.no = 1 /\ m.from = NoState /\ m.to = "INPUT"
    BY <2>1, <2>2 DEF OriginInv, Appended
  <2>4. /\ SettledNo(u) = 0 /\ SettledNo(u)' = 1
        /\ \A v \in Uids \ {u} : SettledNo(v)' = SettledNo(v)
    BY <2>1, <2>2 DEF SettledNo, HasState
  <2>5. SettledState[u] = NoState
    BY <2>4 DEF SettledState
  <2>6. Ideal!Record(u, m.to)
    BY <2>1, <2>2, <2>3, <2>4, <2>5, GrowSettled
  <2> QED  BY <2>3, <2>5, <2>6 DEF Ideal!Next, Ideal!Create
<1>11. ASSUME BumpChange PROVE UNCHANGED Ideal!vars
  <2>1. /\ call.uid \in Uids /\ HasState(call.uid) /\ states[call.uid] \in StateRow
        /\ call.step = "bump_change" /\ call' = [call EXCEPT !.step = "set_state"]
        /\ events' = events
        /\ states'[call.uid].eventNo = states[call.uid].eventNo + 1
        /\ states'[call.uid].state = states[call.uid].state
        /\ states'[call.uid] # NoRow
        /\ \A u \in Uids \ {call.uid} : states'[u] = states[u]
    BY <1>9, <1>11 DEF BumpChange, BumpSteps
  <2>2. call'.step = "set_state" /\ call'.uid = call.uid /\ states[call.uid].eventNo \in Nat
    BY <1>0, <2>1 DEF Call, StateRow
  <2>3. \A u \in Uids : SettledNo(u)' = SettledNo(u)
    BY <2>1, <2>2 DEF SettledNo, HasState
  <2>4. \A u \in Uids : SettledNo(u) # 0 => states'[u].state = states[u].state
    BY <2>1
  <2> QED  BY <2>1, <2>3, <2>4, QuietSettled
<1>12. ASSUME BumpText PROVE Ideal!Next
  <2>1. /\ call.uid \in Uids /\ HasState(call.uid) /\ states[call.uid] \in StateRow
        /\ call.step = "bump_text" /\ events' = events /\ crashes' = crashes
        /\ call.no = states[call.uid].eventNo + 1
        /\ states'[call.uid].eventNo = call.no
        /\ states'[call.uid].state = states[call.uid].state
        /\ states'[call.uid] # NoRow
        /\ \A u \in Uids \ {call.uid} : states'[u] = states[u]
    BY <1>9, <1>12 DEF BumpText, BumpSteps
  <2>2. call'.step # "set_state"
    BY <1>0, <1>12 DEF BumpText, BumpEventNo, ThenIndex, Call
  <2>3. PICK u \in Uids : u = call.uid
    BY <2>1
  <2>4. /\ states[u].eventNo \in Nat /\ states[u].state \in DocumentStates
        /\ states[u].eventNo # 0
        /\ call.from = states[u].state
    BY <1>0, <2>1, <2>3 DEF StateRow, OriginInv, CallMoves, ChangeSteps
  <2>5. PICK m \in events' : /\ m.uid = u /\ m.no = states[u].eventNo + 1
                             /\ m.from = states[u].state /\ m.to = states[u].state
    BY <2>1, <2>3, <2>4 DEF OriginInv, Appended
  <2>6. /\ SettledNo(u) = states[u].eventNo /\ SettledNo(u)' = states[u].eventNo + 1
        /\ \A v \in Uids \ {u} : SettledNo(v)' = SettledNo(v)
    BY <2>1, <2>2, <2>3 DEF SettledNo, HasState
  <2>7. SettledState[u] = states[u].state
    BY <2>4, <2>6 DEF SettledState
  <2>8. Ideal!Record(u, m.to)
    BY <2>1, <2>3, <2>5, <2>6, <2>7, GrowSettled
  <2>9. SettledState[u] # NoState
    BY <2>4, <2>7 DEF NoState, DocumentStates
  <2> QED  BY <2>4, <2>5, <2>8, <2>9 DEF Ideal!Next, Ideal!Change
<1>13. ASSUME InsertVersion PROVE UNCHANGED Ideal!vars
  <2>1. call.step = "insert_version" /\ call'.step = "bump_version"
    BY <1>0, <1>13 DEF InsertVersion, Call
  <2> QED  BY <1>1, <1>13, <2>1 DEF InsertVersion
<1>14. ASSUME VersionConflict PROVE UNCHANGED Ideal!vars
  BY <1>1, <1>14 DEF VersionConflict
<1>15. ASSUME BumpVersion PROVE UNCHANGED Ideal!vars
  <2>1. /\ call.uid \in Uids /\ HasState(call.uid) /\ states[call.uid] \in StateRow
        /\ call'.step # "set_state" /\ call.step = "bump_version" /\ events' = events
    BY <1>0, <1>15, Rows DEF BumpVersion, ThenIndex, TypeInv, CallOK, Call
  <2> DEFINE new == [states[call.uid] EXCEPT !.version = states[call.uid].version + 1]
  <2>2. /\ new \in StateRow /\ new.eventNo = states[call.uid].eventNo
        /\ new.state = states[call.uid].state /\ new # NoRow
    BY <2>1, ConstantsAssumption DEF StateRow
  <2>3. states' = [states EXCEPT ![call.uid] = new]
    BY <1>15 DEF BumpVersion
  <2> HIDE DEF new
  <2>4. \A u \in Uids : states'[u] = IF u = call.uid THEN new ELSE states[u]
    BY <1>0, <2>3 DEF TypeOK
  <2>5. \A u \in Uids : SettledNo(u)' = SettledNo(u)
    BY <2>1, <2>2, <2>4 DEF SettledNo, HasState
  <2>6. \A u \in Uids : SettledNo(u) # 0 => states'[u].state = states[u].state
    BY <2>2, <2>4
  <2> QED  BY <2>1, <2>5, <2>6, QuietSettled
<1>16. ASSUME AppendIndexed PROVE UNCHANGED Ideal!vars
  <2>1. call.step = "append_indexed" /\ call'.step = "bump_change" /\ states' = states
    BY <1>0, <1>16 DEF AppendIndexed, Call
  <2> QED  BY <1>1, <1>16, <2>1, InsertGrows DEF AppendIndexed
<1>17. ASSUME SetState PROVE Ideal!Next
  <2> DEFINE new == [states[call.uid] EXCEPT !.state = call.to,
                        !.archived = ArchivedAfter(call, states[call.uid].archived)]
  <2>1. /\ call.uid \in Uids /\ HasState(call.uid) /\ states[call.uid] \in StateRow
        /\ call.to \in DocumentStates /\ call.step = "set_state"
        /\ states' = [states EXCEPT ![call.uid] = new]
        /\ events' = events /\ call' = Idle /\ crashes' = crashes
    BY <1>0, <1>17, Rows DEF SetState, TypeInv, CallOK, ChangeSteps
  <2>2. ArchivedAfter(call, states[call.uid].archived) \in BOOLEAN
    BY <2>1 DEF ArchivedAfter, StateRow
  <2>3. /\ new \in StateRow /\ new.eventNo = states[call.uid].eventNo
        /\ new.state = call.to
    BY <2>1, <2>2 DEF StateRow
  <2> HIDE DEF new
  <2>4. new # NoRow
    BY <2>3, ConstantsAssumption
  <2>5. \A u \in Uids : states'[u] = IF u = call.uid THEN new ELSE states[u]
    BY <1>0, <2>1 DEF TypeOK
  <2>6. PICK u \in Uids : u = call.uid
    BY <2>1
  <2>7. /\ states[u].eventNo \in Nat /\ states[u].state \in DocumentStates
        /\ states[u].eventNo >= 2
        /\ call.from = states[u].state
    BY <1>0, <2>1, <2>6 DEF StateRow, OriginInv, CallMoves, ChangeSteps
  <2>8. /\ SettledNo(u) = states[u].eventNo - 1
        /\ SettledNo(u)' = states[u].eventNo
        /\ \A v \in Uids \ {u} : SettledNo(v)' = SettledNo(v)
    BY <2>1, <2>3, <2>4, <2>5, <2>6 DEF SettledNo, HasState
  <2>9. SettledNo(u) # 0 /\ SettledNo(u)' = SettledNo(u) + 1
    BY <2>7, <2>8
  <2>10. SettledState[u] = states[u].state
    BY <2>9 DEF SettledState
  <2>11. PICK m \in events' : /\ m.uid = u /\ m.no = states[u].eventNo
                              /\ m.from = states[u].state /\ m.to = call.to
    BY <2>1, <2>6, <2>7 DEF OriginInv, Appended
  <2>12. m.no = SettledNo(u) + 1
    BY <2>7, <2>8, <2>11
  <2>13. Ideal!Record(u, m.to)
    BY <2>1, <2>3, <2>5, <2>6, <2>8, <2>9, <2>10, <2>11, <2>12, GrowSettled
  <2>14. SettledState[u] # NoState
    BY <2>7, <2>10 DEF NoState, DocumentStates
  <2> QED  BY <2>1, <2>11, <2>13, <2>14 DEF Ideal!Next, Ideal!Change
<1>18. ~Crash
  BY <1>0 DEF Crash
<1>19. ASSUME UNCHANGED vars PROVE UNCHANGED Ideal!vars
  <2>1. \A u \in Uids : SettledNo(u)' = SettledNo(u)
    BY <1>19 DEF vars, SettledNo, HasState
  <2> QED  BY <1>19, <2>1, QuietSettled DEF vars
<1> QED
  BY <1>2, <1>3, <1>4, <1>5, <1>6, <1>7, <1>8, <1>10, <1>11, <1>12, <1>13, <1>14, <1>15,
     <1>16, <1>17, <1>18, <1>19 DEF Next, Continue

(* Until the first call is cut short, the tables are the event-sourced         *)
(* document of EventSourcedDocument: every statement of every call is one of   *)
(* its moves or changes nothing a reader of the settled log can see.           *)
THEOREM ImplementsEventSourcing == Spec => EventSourced
<1>1. [Next]_vars /\ TypeInv /\ NumberInv /\ MoveInv /\ OriginInv /\ NumberInv' =>
        [crashes' = 0 => [Ideal!Next]_(Ideal!vars)]_vars
  BY IdealStep
<1> QED
  BY <1>1, TypeInit, TypeStep, NumberInit, NumberStep, MoveInit, MoveStep, OriginInit,
     OriginStep, IdealInit, PTL DEF Spec, EventSourced

-----------------------------------------------------------------------------
(* An append_event_locked that died between its two statements leaves a     *)
(* document that no later call can move.                                    *)
THEOREM AheadStaysAhead == Spec => AheadIsForever
<1> DEFINE Stuck(u) == /\ states'[u] = states[u]
                       /\ EventsOf(u)' = EventsOf(u)
                       /\ VersionsOf(u)' = VersionsOf(u)
<1>1. ASSUME Next, NEW u \in Uids, call.step = "idle", Ahead(u) PROVE Stuck(u)
  <2>1. ASSUME UNCHANGED <<states, events, versions>> PROVE Stuck(u)
    BY <2>1 DEF EventsOf, VersionsOf
  <2>2. ASSUME NEW v \in Uids, NEW type, NEW from, NEW to, NEW h,
               InsertEvent(v, type, from, to, h), UNCHANGED <<states, versions>>
        PROVE  Stuck(u)
    <3>1. v # u
      BY <1>1, <2>2 DEF InsertEvent, Ahead
    <3> DEFINE new == [uid |-> v, no |-> NextNo(v), type |-> type,
                       from |-> from, to |-> to, hash |-> h]
    <3>2. events' = events \cup {new} /\ new.uid = v
      BY <2>2 DEF InsertEvent
    <3> HIDE DEF new
    <3> QED  BY <2>2, <3>1, <3>2 DEF EventsOf, VersionsOf
  <2>3. ASSUME NEW p \in Paths, UpsertDocument(p) PROVE Stuck(u)
    BY <2>1, <2>3 DEF UpsertDocument
  <2>4. ASSUME NEW p \in Paths, NEW v \in Uids, NEW d, EnsureExisting(p, d, v) PROVE Stuck(u)
    BY <2>1, <2>4 DEF EnsureExisting
  <2>5. ASSUME NEW p \in Paths, NEW v \in Uids, NEW d, EnsureNew(p, d, v) PROVE Stuck(u)
    BY <2>1, <2>5 DEF EnsureNew
  <2>6. ASSUME NEW v \in Uids, NEW s \in Targets, Transition(v, s) PROVE Stuck(u)
    BY <2>2, <2>6 DEF Transition
  <2>7. ASSUME NEW v \in Uids, NEW h \in Hashes, RecordText(v, h) PROVE Stuck(u)
    BY <2>2, <2>7 DEF RecordText
  <2>8. ~Continue /\ ~Crash
    BY <1>1 DEF Continue, Crash, InsertState, AppendCreated, BumpCreated, BumpText, BumpChange,
                BumpEventNo, InsertVersion, VersionConflict, BumpVersion, AppendIndexed, SetState
  <2> HIDE DEF Stuck
  <2> QED  BY <1>1, <2>3, <2>4, <2>5, <2>6, <2>7, <2>8 DEF Next
<1>2. [Next]_vars => [\A u \in Uids : call.step = "idle" /\ Ahead(u) => Stuck(u)]_vars
  BY <1>1
<1> QED  BY <1>2, PTL DEF Spec, AheadIsForever
=============================================================================
