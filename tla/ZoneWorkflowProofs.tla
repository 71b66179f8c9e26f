------------------------- MODULE ZoneWorkflowProofs -------------------------
(***************************************************************************)
(* Safety of ZoneWorkflow for any documents, default workflow, edits and    *)
(* crashes.                                                                 *)
(*                                                                         *)
(* What is inductive says what the handler under way has left to do         *)
(* (CallInv), that the definition has its default from its first state on   *)
(* (DefinitionInv), and that the row of a document is at the end of its     *)
(* newest event, or wedged at its beginning (NearLog).                      *)
(***************************************************************************)
EXTENDS ZoneWorkflow, TLAPS

SeedMoves == {SeedTransitions[i] : i \in DOMAIN SeedTransitions}

CallInv ==
  /\ call.op \in {"none", "write"} => call.seedStates = <<>> /\ call.seedTransitions = <<>>
  /\ call.op \in {"lifecycle", "move", "write"} => call.doc \in Docs
  /\ call.op \in {"move", "write"} => call.to \in Goals
  /\ call.seedStates \in Seq(SeedKeys)
  /\ call.seedTransitions \in Seq(SeedMoves)
  /\ call.op = "write" =>
       /\ MayMove(call.doc, call.to)
       /\ Wedged(call.doc)
       /\ lastMove[call.doc] = <<CurrentKey(call.doc), call.to>>

DefinitionInv ==
  /\ NoKey \notin states
  /\ states # {} => default \in states
  /\ states = {} /\ call.seedStates # <<>> => call.seedStates = SeedStates
  /\ \A t \in transitions : t \in states \X states \/ t \in SeedMoves

NearLog(d) ==
  lastMove[d] # NoMove =>
    \/ key[d] # NoKey /\ key[d] = lastMove[d][2]
    \/ Wedged(d) /\ CurrentKey(d) = lastMove[d][1]

RowOK(d) ==
  /\ key[d] \in states \cup TechStates \cup {NoKey}
  /\ NearLog(d)
  /\ logged[d] \in {counter[d], counter[d] + 1}

RowInv == \A d \in Docs : RowOK(d)

WorkflowInv == TypeOK /\ CallInv /\ DefinitionInv /\ RowInv

(* What MovesAreLegal says of one document.                                  *)
Legal(d) ==
  /\ key'[d] # key[d] =>
       \/ <<CurrentKey(d), key'[d]>> \in transitions
       \/ key[d] = NoKey /\ key'[d] = tech[d]
       \/ key[d] \notin states' /\ key'[d] = default'
  /\ Wedged(d) /\ key[d] \in states => key[d] \in states'

-----------------------------------------------------------------------------
LEMMA KeysAre ==
  /\ TechStates \subseteq Keys /\ Goals \subseteq Keys /\ SeedKeys \subseteq Keys
  /\ \A w \in Edits : w.states \subseteq Keys
  /\ SeedMoves \subseteq Keys \X Keys
  /\ SeedStates \in Seq(SeedKeys) /\ SeedTransitions \in Seq(SeedMoves)
  /\ SeedStates # <<>> /\ Head(SeedStates) = SeedDefault /\ SeedDefault \in SeedKeys
<1>1. TechStates \subseteq Keys /\ Goals \subseteq Keys /\ SeedKeys \subseteq Keys
  BY DEF Keys
<1>2. \A w \in Edits : w.states \subseteq Keys
  BY DEF Keys
<1>3. SeedTransitions \in Seq(SeedKeys \X SeedKeys)
  BY WorkflowAssumption
<1>4. SeedMoves \subseteq SeedKeys \X SeedKeys
  BY <1>3 DEF SeedMoves
<1>5. SeedTransitions \in Seq(SeedMoves)
  <2>1. \A i \in DOMAIN SeedTransitions : SeedTransitions[i] \in SeedMoves
    BY DEF SeedMoves
  <2> QED
    BY <1>3, <2>1
<1>6. SeedStates \in Seq(SeedKeys) /\ SeedStates # <<>> /\ SeedStates[1] = SeedDefault
  BY WorkflowAssumption
<1>7. Head(SeedStates) = SeedDefault /\ SeedDefault \in SeedKeys
  BY <1>6
<1> QED
  BY <1>1, <1>2, <1>4, <1>5, <1>6, <1>7

LEMMA WorkflowInit == Init => WorkflowInv
<1> SUFFICES ASSUME Init PROVE WorkflowInv
  OBVIOUS
<1> USE DEF Init
<1>1. <<>> \in Seq(Keys) /\ <<>> \in Seq(Keys \X Keys) /\ <<>> \in Seq(SeedKeys)
      /\ <<>> \in Seq(SeedMoves)
  OBVIOUS
<1>2. TypeOK
  <2>1. call \in [op : {"none", "get", "lifecycle", "move", "write"},
                  doc : Docs \cup {NoDoc}, to : Goals \cup {NoKey},
                  seedStates : Seq(Keys), seedTransitions : Seq(Keys \X Keys)]
    BY <1>1 DEF Idle
  <2>2. tech \in [Docs -> TechStates]
    BY WorkflowAssumption
  <2>3. lastMove \in [Docs -> (Keys \X Keys) \cup {NoMove}]
    OBVIOUS
  <2>4. crashes \in 0..MaxCrashes
    BY WorkflowAssumption
  <2> QED
    BY <2>1, <2>2, <2>3, <2>4 DEF TypeOK
<1>3. CallInv
  BY <1>1 DEF CallInv, Idle
<1>4. DefinitionInv
  BY DEF DefinitionInv, Idle
<1>5. RowInv
  BY DEF RowInv, RowOK, NearLog
<1> QED
  BY <1>2, <1>3, <1>4, <1>5 DEF WorkflowInv

LEMMA CurrentKeyTyped ==
  ASSUME TypeOK, NEW d \in Docs
  PROVE  CurrentKey(d) \in Keys /\ CurrentKey(d) # NoKey
  BY WorkflowAssumption, KeysAre DEF TypeOK, CurrentKey

-----------------------------------------------------------------------------
(* The handlers that only seed, read or are cut short.                       *)

(* Nobody touches the rows.                                                  *)
LEMMA RowsKept ==
  ASSUME WorkflowInv, UNCHANGED documents, states \subseteq states'
  PROVE  RowInv' /\ \A d \in Docs : Legal(d)
<1>1. RowInv'
  BY DEF WorkflowInv, RowInv, RowOK, NearLog, Wedged, CurrentKey, documents
<1>2. \A d \in Docs : Legal(d)
  BY DEF Legal, documents
<1> QED
  BY <1>1, <1>2

LEMMA BeginStep ==
  ASSUME WorkflowInv, NEW op \in {"get", "lifecycle", "move"}, NEW d \in Docs \cup {NoDoc},
         NEW to \in Goals \cup {NoKey}, Begin(op, d, to),
         op # "get" => d \in Docs, op = "move" => to \in Goals
  PROVE  WorkflowInv' /\ \A e \in Docs : Legal(e)
<1> USE DEF WorkflowInv
<1> DEFINE ss == IF states = {} THEN SeedStates ELSE <<>>
           st == IF transitions = {} THEN SeedTransitions ELSE <<>>
<1>1. /\ call.op = "none"
      /\ call' = [op |-> op, doc |-> d, to |-> to, seedStates |-> ss, seedTransitions |-> st]
      /\ UNCHANGED <<definition, documents, crashes>>
  BY DEF Begin
<1>2. ss \in Seq(SeedKeys) /\ st \in Seq(SeedMoves) /\ ss \in Seq(Keys) /\ st \in Seq(Keys \X Keys)
  BY KeysAre
<1>3. states = {} /\ ss # <<>> => ss = SeedStates
  OBVIOUS
<1> HIDE DEF ss, st
<1>4. RowInv' /\ \A e \in Docs : Legal(e)
  BY <1>1, RowsKept DEF definition
<1>5. TypeOK'
  BY <1>1, <1>2 DEF TypeOK, definition, documents
<1>6. CallInv'
  BY <1>1, <1>2 DEF CallInv
<1>7. DefinitionInv'
  BY <1>1, <1>3 DEF DefinitionInv, definition
<1> QED
  BY <1>4, <1>5, <1>6, <1>7

LEMMA SeedStateStep ==
  ASSUME WorkflowInv, SeedState
  PROVE  WorkflowInv' /\ \A e \in Docs : Legal(e)
<1> USE DEF WorkflowInv
<1> DEFINE k == Head(call.seedStates)
<1>1. /\ call.seedStates # <<>>
      /\ states' = states \cup {k}
      /\ default' = IF k = SeedDefault THEN SeedDefault ELSE default
      /\ call' = [call EXCEPT !.seedStates = Tail(@)]
      /\ UNCHANGED <<transitions, documents, crashes>>
  BY DEF SeedState
<1>2. call.seedStates \in Seq(SeedKeys)
  BY DEF CallInv
<1>3. k \in SeedKeys /\ Tail(call.seedStates) \in Seq(SeedKeys)
  BY <1>1, <1>2
<1>4. k \in Keys /\ k # NoKey /\ Tail(call.seedStates) \in Seq(Keys)
  <2>1. SeedKeys \subseteq Keys /\ NoKey \notin SeedKeys
    BY KeysAre, WorkflowAssumption
  <2> QED
    BY <1>3, <2>1
<1>5. states = {} => k = SeedDefault
  BY <1>1, KeysAre DEF DefinitionInv
<1>6. call.op \notin {"none", "write"}
  BY <1>1 DEF CallInv
<1> HIDE DEF k
<1>7. RowInv' /\ \A e \in Docs : Legal(e)
  BY <1>1, RowsKept
<1>8. TypeOK'
  <2>1. default' \in Keys \cup {NoKey}
    BY <1>1, <1>4 DEF TypeOK
  <2> QED
    BY <1>1, <1>4, <2>1 DEF TypeOK, documents
<1>9. call' = [op |-> call.op, doc |-> call.doc, to |-> call.to,
               seedStates |-> Tail(call.seedStates), seedTransitions |-> call.seedTransitions]
  BY <1>1 DEF TypeOK
<1>10. CallInv'
  BY <1>3, <1>6, <1>9 DEF CallInv
<1>11. DefinitionInv'
  <2>1. default' \in states'
    BY <1>1, <1>5 DEF DefinitionInv
  <2>2. \A t \in transitions : t \in states' \X states' \/ t \in SeedMoves
    BY <1>1 DEF DefinitionInv
  <2> QED
    BY <1>1, <1>4, <2>1, <2>2 DEF DefinitionInv
<1> QED
  BY <1>7, <1>8, <1>10, <1>11

LEMMA SeedTransitionStep ==
  ASSUME WorkflowInv, SeedTransition
  PROVE  WorkflowInv' /\ \A e \in Docs : Legal(e)
<1> USE DEF WorkflowInv
<1> DEFINE t == Head(call.seedTransitions)
<1>1. /\ call.seedStates = <<>> /\ call.seedTransitions # <<>>
      /\ transitions' = transitions \cup {t}
      /\ call' = [call EXCEPT !.seedTransitions = Tail(@)]
      /\ UNCHANGED <<states, default, documents, crashes>>
  BY DEF SeedTransition
<1>2. call.seedTransitions \in Seq(SeedMoves)
  BY DEF CallInv
<1>3. t \in SeedMoves /\ Tail(call.seedTransitions) \in Seq(SeedMoves)
  BY <1>1, <1>2
<1>4. t \in Keys \X Keys /\ Tail(call.seedTransitions) \in Seq(Keys \X Keys)
  <2>1. SeedMoves \subseteq Keys \X Keys
    BY KeysAre
  <2> QED
    BY <1>3, <2>1
<1>5. call.op \notin {"none", "write"}
  BY <1>1 DEF CallInv
<1> HIDE DEF t
<1>6. RowInv' /\ \A e \in Docs : Legal(e)
  BY <1>1, RowsKept
<1>7. TypeOK'
  BY <1>1, <1>4 DEF TypeOK, documents
<1>8. call' = [op |-> call.op, doc |-> call.doc, to |-> call.to,
               seedStates |-> call.seedStates, seedTransitions |-> Tail(call.seedTransitions)]
  BY <1>1 DEF TypeOK
<1>9. CallInv'
  BY <1>1, <1>3, <1>5, <1>8 DEF CallInv
<1>10. DefinitionInv'
  BY <1>1, <1>3, <1>8 DEF DefinitionInv
<1> QED
  BY <1>6, <1>7, <1>9, <1>10

(* A handler that ends without a word, or with the process.                  *)
LEMMA EndStep ==
  ASSUME WorkflowInv, call' = Idle, UNCHANGED <<definition, documents>>,
         crashes' \in 0..MaxCrashes
  PROVE  WorkflowInv' /\ \A e \in Docs : Legal(e)
<1> USE DEF WorkflowInv
<1>1. RowInv' /\ \A e \in Docs : Legal(e)
  BY RowsKept DEF definition
<1>2. Idle \in [op : {"none", "get", "lifecycle", "move", "write"},
                doc : Docs \cup {NoDoc}, to : Goals \cup {NoKey},
                seedStates : Seq(Keys), seedTransitions : Seq(Keys \X Keys)]
  BY DEF Idle
<1>3. TypeOK'
  BY <1>2 DEF TypeOK, definition, documents
<1>4. CallInv'
  <2>1. <<>> \in Seq(SeedKeys) /\ <<>> \in Seq(SeedMoves)
    OBVIOUS
  <2> QED
    BY <2>1 DEF CallInv, Idle
<1>5. DefinitionInv'
  BY DEF DefinitionInv, definition, Idle
<1> QED
  BY <1>1, <1>3, <1>4, <1>5

-----------------------------------------------------------------------------
(* The handlers that write rows.                                             *)

(* A row that the step leaves alone.                                         *)
LEMMA RowKept ==
  ASSUME WorkflowInv, NEW d \in Docs,
         tech'[d] = tech[d], key'[d] = key[d], counter'[d] = counter[d],
         logged'[d] = logged[d], lastMove'[d] = lastMove[d],
         key[d] \in states => key[d] \in states'
  PROVE  RowOK(d)' /\ Legal(d)
<1>1. RowOK(d)
  BY DEF WorkflowInv, RowInv
<1> QED
  BY <1>1 DEF RowOK, NearLog, Wedged, CurrentKey, Legal

LEMMA IdleTyped ==
  /\ Idle \in [op : {"none", "get", "lifecycle", "move", "write"},
               doc : Docs \cup {NoDoc}, to : Goals \cup {NoKey},
               seedStates : Seq(Keys), seedTransitions : Seq(Keys \X Keys)]
  /\ call' = Idle => CallInv'
<1>1. <<>> \in Seq(Keys) /\ <<>> \in Seq(Keys \X Keys) /\ <<>> \in Seq(SeedKeys)
      /\ <<>> \in Seq(SeedMoves)
  OBVIOUS
<1>2. Idle.op = "none" /\ Idle.seedStates = <<>> /\ Idle.seedTransitions = <<>>
  BY DEF Idle
<1>3. call' = Idle => CallInv'
  BY <1>1, <1>2 DEF CallInv
<1> QED
  BY <1>1, <1>3 DEF Idle

LEMMA EndLifecycleStep ==
  ASSUME WorkflowInv, EndLifecycle
  PROVE  WorkflowInv' /\ \A e \in Docs : Legal(e)
<1> USE DEF WorkflowInv
<1>1. PICK d \in Docs : d = call.doc
  BY DEF EndLifecycle, Ensured, CallInv
<1>2. /\ key' = [key EXCEPT ![d] = CurrentKey(d)]
      /\ call' = Idle
      /\ UNCHANGED <<definition, tech, counter, logged, lastMove, crashes>>
  BY <1>1 DEF EndLifecycle
<1>3. CurrentKey(d) \in Keys /\ CurrentKey(d) # NoKey
  BY CurrentKeyTyped
<1>4. key'[d] = CurrentKey(d) /\ \A e \in Docs : e # d => key'[e] = key[e]
  BY <1>2 DEF TypeOK
<1>5. TypeOK'
  BY <1>2, <1>3, IdleTyped DEF TypeOK, definition
<1>6. CallInv' /\ DefinitionInv'
  BY <1>2, IdleTyped DEF DefinitionInv, definition, Idle
<1>7. \A e \in Docs : e # d => RowOK(e)' /\ Legal(e)
  BY <1>2, <1>4, RowKept DEF definition
<1>8. RowOK(d)' /\ Legal(d)
  <2>1. RowOK(d)
    BY DEF RowInv
  <2>2. CASE key[d] # NoKey
    <3>1. key'[d] = key[d]
      BY <1>4, <2>2 DEF CurrentKey
    <3> QED
      BY <1>2, <3>1, RowKept DEF definition
  <2>3. CASE key[d] = NoKey
    <3>1. key'[d] = tech[d] /\ tech'[d] = tech[d] /\ tech[d] \in TechStates /\ tech[d] # NoKey
      BY <1>2, <1>3, <1>4, <2>3 DEF CurrentKey, TypeOK
    <3>2. NearLog(d)'
      BY <1>2, <2>1, <2>3, <3>1 DEF RowOK, NearLog, Wedged, CurrentKey
    <3>3. RowOK(d)'
      BY <1>2, <2>1, <3>1, <3>2 DEF RowOK
    <3>4. Legal(d)
      BY <1>2, <2>3, <3>1 DEF Legal, definition
    <3> QED
      BY <3>3, <3>4
  <2> QED
    BY <2>2, <2>3
<1> QED
  BY <1>5, <1>6, <1>7, <1>8 DEF RowInv

LEMMA AppendMoveStep ==
  ASSUME WorkflowInv, AppendMove
  PROVE  WorkflowInv' /\ \A e \in Docs : Legal(e)
<1> USE DEF WorkflowInv
<1>1. PICK d \in Docs, to \in Goals : d = call.doc /\ to = call.to
  BY DEF AppendMove, Ensured, CallInv
<1>2. /\ call.op = "move" /\ call.seedStates = <<>> /\ call.seedTransitions = <<>>
      /\ MayMove(d, to) /\ ~Wedged(d)
      /\ logged' = [logged EXCEPT ![d] = @ + 1]
      /\ lastMove' = [lastMove EXCEPT ![d] = <<CurrentKey(d), to>>]
      /\ call' = [call EXCEPT !.op = "write"]
      /\ UNCHANGED <<definition, tech, key, counter, crashes>>
  BY <1>1 DEF AppendMove, Ensured
<1>3. CurrentKey(d) \in Keys
  BY CurrentKeyTyped
<1>4. to \in Keys
  BY KeysAre
<1>5. /\ logged'[d] = logged[d] + 1 /\ lastMove'[d] = <<CurrentKey(d), to>>
      /\ \A e \in Docs : e # d => logged'[e] = logged[e] /\ lastMove'[e] = lastMove[e]
  BY <1>2 DEF TypeOK
<1>6. logged[d] = counter[d] /\ counter[d] \in Nat
  BY <1>2 DEF RowInv, RowOK, Wedged, TypeOK
<1>7. call' = [op |-> "write", doc |-> d, to |-> to, seedStates |-> <<>>, seedTransitions |-> <<>>]
  BY <1>1, <1>2 DEF TypeOK
<1>8. TypeOK'
  <2>1. logged' \in [Docs -> Nat]
    BY <1>2, <1>5 DEF TypeOK
  <2>2. lastMove' \in [Docs -> (Keys \X Keys) \cup {NoMove}]
    BY <1>2, <1>3, <1>4 DEF TypeOK
  <2>3. call' \in [op : {"none", "get", "lifecycle", "move", "write"},
                   doc : Docs \cup {NoDoc}, to : Goals \cup {NoKey},
                   seedStates : Seq(Keys), seedTransitions : Seq(Keys \X Keys)]
    BY <1>7
  <2> QED
    BY <1>2, <2>1, <2>2, <2>3 DEF TypeOK, definition
<1>9. Wedged(d)' /\ CurrentKey(d)' = CurrentKey(d) /\ MayMove(d, to)'
  BY <1>2, <1>5, <1>6 DEF Wedged, CurrentKey, MayMove, definition
<1>10. CallInv'
  <2>1. <<>> \in Seq(SeedKeys) /\ <<>> \in Seq(SeedMoves)
    OBVIOUS
  <2>2. call'.doc = d /\ call'.to = to /\ call'.op = "write"
        /\ call'.seedStates = <<>> /\ call'.seedTransitions = <<>>
    BY <1>7
  <2>3. logged'[d] > counter'[d]
    BY <1>9 DEF Wedged
  <2>4. lastMove'[d] = <<CurrentKey(d)', to>>
    BY <1>5, <1>9
  <2>5. to \in states' /\ (CurrentKey(d)' = to \/ <<CurrentKey(d)', to>> \in transitions')
    BY <1>9 DEF MayMove
  <2> QED
    BY <2>1, <2>2, <2>3, <2>4, <2>5 DEF CallInv, Wedged, MayMove, CurrentKey
<1>11. DefinitionInv'
  BY <1>2, <1>7 DEF DefinitionInv, definition
<1>12. \A e \in Docs : e # d => RowOK(e)' /\ Legal(e)
  BY <1>2, <1>5, RowKept DEF definition
<1>13. RowOK(d)'
  <2>1. NearLog(d)'
    BY <1>5, <1>9 DEF NearLog
  <2> QED
    BY <1>2, <1>5, <1>6, <2>1 DEF RowInv, RowOK, definition
<1>14. Legal(d)
  BY <1>2 DEF Legal, definition
<1> QED
  BY <1>8, <1>10, <1>11, <1>12, <1>13, <1>14 DEF RowInv

LEMMA WriteMoveStep ==
  ASSUME WorkflowInv, WriteMove
  PROVE  WorkflowInv' /\ \A e \in Docs : Legal(e)
<1> USE DEF WorkflowInv
<1>1. PICK d \in Docs, to \in Goals : d = call.doc /\ to = call.to
  BY DEF WriteMove, CallInv
<1>2. /\ key' = [key EXCEPT ![d] = to]
      /\ counter' = [counter EXCEPT ![d] = @ + 1]
      /\ call' = Idle
      /\ UNCHANGED <<definition, tech, logged, lastMove, crashes>>
  BY <1>1 DEF WriteMove
<1>3. MayMove(d, to) /\ Wedged(d) /\ lastMove[d] = <<CurrentKey(d), to>>
  BY <1>1 DEF WriteMove, CallInv
<1>4. to \in Keys /\ to # NoKey /\ to \in states
  BY <1>3, KeysAre, WorkflowAssumption DEF MayMove
<1>5. /\ key'[d] = to /\ counter'[d] = counter[d] + 1
      /\ \A e \in Docs : e # d => key'[e] = key[e] /\ counter'[e] = counter[e]
  BY <1>2 DEF TypeOK
<1>6. logged[d] = counter[d] + 1 /\ counter[d] \in Nat
  BY <1>3 DEF RowInv, RowOK, Wedged, TypeOK
<1>7. TypeOK'
  <2>1. counter' \in [Docs -> Nat]
    BY <1>2, <1>5 DEF TypeOK
  <2>2. key' \in [Docs -> Keys \cup {NoKey}]
    BY <1>2, <1>4 DEF TypeOK
  <2> QED
    BY <1>2, <2>1, <2>2, IdleTyped DEF TypeOK, definition
<1>8. CallInv' /\ DefinitionInv'
  BY <1>2, IdleTyped DEF DefinitionInv, definition, Idle
<1>9. \A e \in Docs : e # d => RowOK(e)' /\ Legal(e)
  BY <1>2, <1>5, RowKept DEF definition
<1>10. RowOK(d)'
  <2>1. NearLog(d)'
    BY <1>2, <1>3, <1>4, <1>5 DEF NearLog
  <2> QED
    BY <1>2, <1>4, <1>5, <1>6, <2>1 DEF RowOK, definition
<1>11. Legal(d)
  <2>1. CurrentKey(d) = to \/ <<CurrentKey(d), to>> \in transitions
    BY <1>3 DEF MayMove
  <2> QED
    BY <1>2, <1>5, <2>1 DEF Legal, CurrentKey, definition
<1> QED
  BY <1>7, <1>8, <1>9, <1>10, <1>11 DEF RowInv

LEMMA SaveStep ==
  ASSUME WorkflowInv, NEW w \in Edits, SaveZoneWorkflow(w)
  PROVE  WorkflowInv' /\ \A e \in Docs : Legal(e)
<1> USE DEF WorkflowInv
<1>1. /\ call.op = "none" /\ Valid(w)
      /\ \A d \in Stranded(w) : ~Wedged(d)
      /\ states' = w.states /\ default' = w.default /\ transitions' = w.transitions
      /\ key' = [d \in Docs |-> IF d \in Stranded(w) THEN w.default ELSE key[d]]
      /\ counter' = [d \in Docs |-> IF d \in Stranded(w) THEN counter[d] + 1 ELSE counter[d]]
      /\ logged' = [d \in Docs |-> IF d \in Stranded(w) THEN logged[d] + 1 ELSE logged[d]]
      /\ lastMove' = [d \in Docs |-> IF d \in Stranded(w) THEN <<key[d], w.default>>
                                     ELSE lastMove[d]]
      /\ UNCHANGED <<tech, call, crashes>>
  BY DEF SaveZoneWorkflow
<1>2. /\ w.states # {} /\ NoKey \notin w.states /\ w.default \in w.states
      /\ w.transitions \subseteq w.states \X w.states /\ w.states \subseteq Keys
      /\ w.default \in Keys /\ w.default # NoKey
  BY <1>1, KeysAre DEF Valid
<1>3. ASSUME NEW d \in Docs
      PROVE  /\ d \in Stranded(w) <=> key[d] # NoKey /\ key[d] \notin w.states
             /\ d \in Stranded(w) =>
                  /\ key'[d] = w.default /\ counter'[d] = counter[d] + 1
                  /\ logged'[d] = logged[d] + 1 /\ lastMove'[d] = <<key[d], w.default>>
                  /\ ~Wedged(d)
             /\ d \notin Stranded(w) =>
                  /\ key'[d] = key[d] /\ counter'[d] = counter[d]
                  /\ logged'[d] = logged[d] /\ lastMove'[d] = lastMove[d]
             /\ key[d] \in Keys \cup {NoKey} /\ counter[d] \in Nat /\ logged[d] \in Nat
  BY <1>1 DEF Stranded, TypeOK
<1>4. TypeOK'
  <2>0. \A d \in Docs : counter[d] \in Nat /\ counter[d] + 1 \in Nat
                         /\ logged[d] \in Nat /\ logged[d] + 1 \in Nat
    BY <1>3
  <2>1. counter' \in [Docs -> Nat] /\ logged' \in [Docs -> Nat]
    BY <1>1, <2>0
  <2>2. key' \in [Docs -> Keys \cup {NoKey}]
    BY <1>1, <1>2, <1>3
  <2>3. lastMove' \in [Docs -> (Keys \X Keys) \cup {NoMove}]
    <3>1. \A d \in Docs : d \in Stranded(w) => <<key[d], w.default>> \in Keys \X Keys
      BY <1>2, <1>3
    <3>2. \A d \in Docs : lastMove[d] \in (Keys \X Keys) \cup {NoMove}
      BY DEF TypeOK
    <3> QED
      BY <1>1, <3>1, <3>2
  <2>4. states' \subseteq Keys /\ default' \in Keys /\ transitions' \subseteq Keys \X Keys
    BY <1>1, <1>2
  <2> QED
    BY <1>1, <2>1, <2>2, <2>3, <2>4 DEF TypeOK
<1>5. CallInv'
  BY <1>1 DEF CallInv
<1>6. DefinitionInv'
  BY <1>1, <1>2 DEF DefinitionInv, CallInv
<1>7. ASSUME NEW d \in Docs, d \in Stranded(w)
      PROVE  RowOK(d)' /\ Legal(d)
  <2>1. RowOK(d)
    BY DEF RowInv
  <2>2. NearLog(d)'
    BY <1>2, <1>3, <1>7 DEF NearLog
  <2>3. RowOK(d)'
    BY <1>1, <1>2, <1>3, <1>7, <2>1, <2>2 DEF RowOK
  <2>4. Legal(d)
    BY <1>1, <1>3, <1>7 DEF Legal
  <2> QED
    BY <2>3, <2>4
<1>8. ASSUME NEW d \in Docs, d \notin Stranded(w)
      PROVE  RowOK(d)' /\ Legal(d)
  <2>1. key[d] \in states => key[d] \in states'
    BY <1>1, <1>3, <1>8 DEF DefinitionInv
  <2> QED
    BY <1>1, <1>3, <1>8, <2>1, RowKept
<1> QED
  BY <1>4, <1>5, <1>6, <1>7, <1>8 DEF RowInv

LEMMA TechnicalStep ==
  ASSUME WorkflowInv, NEW d \in Docs, NEW s \in TechStates, Technical(d, s)
  PROVE  WorkflowInv' /\ \A e \in Docs : Legal(e)
<1> USE DEF WorkflowInv
<1>1. /\ ~Wedged(d)
      /\ logged' = [logged EXCEPT ![d] = @ + 1]
      /\ counter' \in {counter, [counter EXCEPT ![d] = @ + 1]}
      /\ tech' \in {tech, [tech EXCEPT ![d] = s]}
      /\ UNCHANGED <<definition, key, lastMove, call>>
  BY DEF Technical
<1>2. crashes' \in 0..MaxCrashes
  BY WorkflowAssumption DEF Technical, TypeOK
<1>3. /\ logged'[d] = logged[d] + 1 /\ counter'[d] \in {counter[d], counter[d] + 1}
      /\ tech'[d] \in TechStates
      /\ \A e \in Docs : e # d => /\ logged'[e] = logged[e]
                                  /\ counter'[e] = counter[e] /\ tech'[e] = tech[e]
  BY <1>1 DEF TypeOK
<1>4. logged[d] = counter[d] /\ counter[d] \in Nat
  BY <1>1 DEF RowInv, RowOK, Wedged, TypeOK
<1>5. TypeOK'
  <2>1. logged' \in [Docs -> Nat]
    BY <1>1 DEF TypeOK
  <2>2. counter' \in [Docs -> Nat]
    <3>1. counter \in [Docs -> Nat] /\ counter[d] + 1 \in Nat
      BY <1>4 DEF TypeOK
    <3>2. [counter EXCEPT ![d] = @ + 1] \in [Docs -> Nat]
      BY <3>1
    <3> QED
      BY <1>1, <3>1, <3>2
  <2>3. tech' \in [Docs -> TechStates]
    BY <1>1 DEF TypeOK
  <2> QED
    BY <1>1, <1>2, <2>1, <2>2, <2>3 DEF TypeOK, definition
<1>6. call.op = "none"
  BY DEF Technical
<1>7. CallInv'
  BY <1>1, <1>6 DEF CallInv
<1>8. DefinitionInv'
  BY <1>1 DEF DefinitionInv, definition
<1>9. \A e \in Docs : e # d => RowOK(e)' /\ Legal(e)
  BY <1>1, <1>3, RowKept DEF definition
<1>10. RowOK(d)'
  <2>1. RowOK(d)
    BY DEF RowInv
  <2>2. NearLog(d)'
    BY <1>1, <2>1 DEF RowOK, NearLog
  <2> QED
    BY <1>1, <1>3, <1>4, <2>1, <2>2 DEF RowOK, definition
<1>11. Legal(d)
  BY <1>1 DEF Legal, definition
<1> QED
  BY <1>5, <1>7, <1>8, <1>9, <1>10, <1>11 DEF RowInv

-----------------------------------------------------------------------------
LEMMA WorkflowStep ==
  ASSUME WorkflowInv, [Next]_vars
  PROVE  WorkflowInv' /\ \A e \in Docs : Legal(e)
<1>1. ASSUME GetZoneWorkflow
      PROVE  WorkflowInv' /\ \A e \in Docs : Legal(e)
  BY <1>1, BeginStep DEF GetZoneWorkflow
<1>2. ASSUME NEW d \in Docs, GetDocumentLifecycle(d)
      PROVE  WorkflowInv' /\ \A e \in Docs : Legal(e)
  BY <1>2, BeginStep DEF GetDocumentLifecycle
<1>3. ASSUME NEW d \in Docs, NEW k \in Goals, TransitionDocumentWorkflow(d, k)
      PROVE  WorkflowInv' /\ \A e \in Docs : Legal(e)
  BY <1>3, BeginStep DEF TransitionDocumentWorkflow
<1>4. ASSUME EndGet \/ RejectMove
      PROVE  WorkflowInv' /\ \A e \in Docs : Legal(e)
  <2>1. call' = Idle /\ UNCHANGED <<definition, documents, crashes>>
    BY <1>4 DEF EndGet, RejectMove
  <2>2. crashes' \in 0..MaxCrashes
    BY <2>1 DEF WorkflowInv, TypeOK
  <2> QED
    BY <2>1, <2>2, EndStep
<1>5. ASSUME Crash
      PROVE  WorkflowInv' /\ \A e \in Docs : Legal(e)
  <2>1. crashes' \in 0..MaxCrashes
    BY <1>5, WorkflowAssumption DEF WorkflowInv, TypeOK, Crash
  <2> QED
    BY <1>5, <2>1, EndStep DEF Crash
<1>6. CASE UNCHANGED vars
  <2>1. RowInv' /\ \A e \in Docs : Legal(e)
    BY <1>6, RowsKept DEF vars, definition
  <2> QED
    BY <1>6, <2>1 DEF vars, definition, documents, WorkflowInv, TypeOK, CallInv, DefinitionInv,
                      MayMove, Wedged, CurrentKey
<1> QED
  BY <1>1, <1>2, <1>3, <1>4, <1>5, <1>6, SeedStateStep, SeedTransitionStep, EndLifecycleStep,
     AppendMoveStep, WriteMoveStep, SaveStep, TechnicalStep DEF Next

(* Whatever edits, half-finished seedings and crashes came before, a workflow *)
(* with states has its default, no document is left in a state that an edit   *)
(* removed, each row is at an end of its newest event, and only default       *)
(* transitions may dangle.                                                    *)
THEOREM WorkflowIsSound == Spec => []WorkflowSound
<1>1. WorkflowInv => WorkflowSound
  <2> SUFFICES ASSUME WorkflowInv PROVE WorkflowSound
    OBVIOUS
  <2>1. KeysAreKnown
    BY DEF WorkflowInv, DefinitionInv, RowInv, RowOK, KeysAreKnown
  <2>2. KeyNearLog
    BY DEF WorkflowInv, RowInv, RowOK, NearLog, CurrentKey, KeyNearLog
  <2>3. DanglingAreDefault
    BY DEF WorkflowInv, DefinitionInv, SeedMoves, DanglingAreDefault
  <2> QED
    BY <2>1, <2>2, <2>3 DEF WorkflowInv, WorkflowSound
<1> QED
  BY <1>1, WorkflowInit, WorkflowStep, PTL DEF Spec

(* A document changes its workflow state along a transition, to the default   *)
(* when its state has gone, or by writing down what it inherits; the state of *)
(* a wedged document cannot be removed.                                       *)
THEOREM MovesStayLegal == Spec => MovesAreLegal
<1>1. WorkflowInv /\ [Next]_vars =>
        [\A d \in Docs :
           /\ key'[d] # key[d] =>
                \/ <<CurrentKey(d), key'[d]>> \in transitions
                \/ key[d] = NoKey /\ key'[d] = tech[d]
                \/ key[d] \notin states' /\ key'[d] = default'
           /\ Wedged(d) /\ key[d] \in states => key[d] \in states']_vars
  BY WorkflowStep DEF Legal
<1> QED
  BY <1>1, WorkflowInit, WorkflowStep, PTL DEF Spec, MovesAreLegal
=============================================================================
