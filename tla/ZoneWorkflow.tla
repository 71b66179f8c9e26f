---------------------------- MODULE ZoneWorkflow ----------------------------
(***************************************************************************)
(* The workflow of one zone: its states and transitions, which the user    *)
(* may redefine, and the workflow state of each document, which lives in   *)
(* the same row and the same event log as the document's lifecycle.        *)
(*                                                                         *)
(* Every handler holds db_mutex throughout.  save_zone_workflow is one     *)
(* transaction and hence one action; the seeding of the default workflow   *)
(* and transition_document_workflow commit statement by statement, and the *)
(* process may die in between.  The lifecycle service is represented by    *)
(* what its transition_state does to the row and the log, dying included.  *)
(***************************************************************************)
EXTENDS Naturals, Sequences

CONSTANTS
  Docs,              \* documents with a registry and a state row
  TechStates,        \* states of the lifecycle; a workflow may use them as keys
  NoKey,             \* the empty workflow_state_key, and the idle service's target
  NoDoc,
  SeedStates,        \* default_workflow_states, in order
  SeedDefault,       \* the default among them
  SeedTransitions,   \* default_workflow_transitions, in order, as pairs of keys
  Edits,             \* workflows a user tries to save: [states, default, transitions]
  Goals,             \* keys a user asks to move a document to
  Input,             \* the lifecycle state of a new document
  MaxEvents,         \* a handler appends only to a log shorter than this
  MaxCrashes

SeedKeys == {SeedStates[i] : i \in DOMAIN SeedStates}

ASSUME WorkflowAssumption ==
  /\ NoKey \notin TechStates \cup Goals \cup SeedKeys
  /\ NoDoc \notin Docs
  /\ Input \in TechStates
  /\ SeedStates \in Seq(SeedKeys) /\ SeedStates # <<>> /\ SeedStates[1] = SeedDefault
  /\ SeedTransitions \in Seq(SeedKeys \X SeedKeys)
  /\ MaxEvents \in Nat /\ MaxCrashes \in Nat

VARIABLES
  states,        \* dms_workflow_states: the keys
  default,       \* the key whose is_default is set
  transitions,   \* dms_workflow_transitions: pairs of keys
  tech,          \* dms_document_states.state
  key,           \* dms_document_states.workflow_state_key
  counter,       \* dms_document_states.latest_event_no
  logged,        \* the number of rows of the document in dms_document_events
  lastMove,      \* its newest WORKFLOW_* event, a pair of keys
  call,          \* the handler that holds db_mutex
  crashes

definition == <<states, default, transitions>>
documents == <<tech, key, counter, logged, lastMove>>
vars == <<definition, documents, call, crashes>>

NoMove == <<NoKey, NoKey>>

Idle == [op |-> "none", doc |-> NoDoc, to |-> NoKey, seedStates |-> <<>>,
         seedTransitions |-> <<>>]

Init ==
  /\ states = {}
  /\ default = NoKey
  /\ transitions = {}
  /\ tech = [d \in Docs |-> Input]
  /\ key = [d \in Docs |-> NoKey]
  /\ counter = [d \in Docs |-> 1]
  /\ logged = [d \in Docs |-> 1]
  /\ lastMove = [d \in Docs |-> NoMove]
  /\ call = Idle
  /\ crashes = 0

(* The workflow state of a document; a row without one inherits the state   *)
(* of its lifecycle (map_technical_state_to_workflow: no lifecycle state is *)
(* called READY).                                                           *)
CurrentKey(d) == IF key[d] = NoKey THEN tech[d] ELSE key[d]

(* The log is ahead of latest_event_no: the UNIQUE index rejects any event. *)
Wedged(d) == logged[d] > counter[d]

-----------------------------------------------------------------------------
(* ensure_default_workflow_locked: each table is seeded, row by row, if it   *)
(* holds no row of this workflow.                                            *)

Begin(op, d, to) ==
  /\ call.op = "none"
  /\ call' = [op |-> op, doc |-> d, to |-> to,
              seedStates |-> IF states = {} THEN SeedStates ELSE <<>>,
              seedTransitions |-> IF transitions = {} THEN SeedTransitions ELSE <<>>]
  /\ UNCHANGED <<definition, documents, crashes>>

GetZoneWorkflow == Begin("get", NoDoc, NoKey)
GetDocumentLifecycle(d) == Begin("lifecycle", d, NoKey)
TransitionDocumentWorkflow(d, to) == logged[d] < MaxEvents /\ Begin("move", d, to)

SeedState ==
  /\ call.seedStates # <<>>
  /\ states' = states \cup {Head(call.seedStates)}
  /\ default' = IF Head(call.seedStates) = SeedDefault THEN SeedDefault ELSE default
  /\ call' = [call EXCEPT !.seedStates = Tail(@)]
  /\ UNCHANGED <<transitions, documents, crashes>>

SeedTransition ==
  /\ call.seedStates = <<>>
  /\ call.seedTransitions # <<>>
  /\ transitions' = transitions \cup {Head(call.seedTransitions)}
  /\ call' = [call EXCEPT !.seedTransitions = Tail(@)]
  /\ UNCHANGED <<states, default, documents, crashes>>

Ensured(op) == call.op = op /\ call.seedStates = <<>> /\ call.seedTransitions = <<>>

-----------------------------------------------------------------------------
EndGet ==
  /\ Ensured("get")
  /\ call' = Idle
  /\ UNCHANGED <<definition, documents, crashes>>

(* get_document_lifecycle writes the inherited key down the first time.      *)
EndLifecycle ==
  /\ Ensured("lifecycle")
  /\ key' = [key EXCEPT ![call.doc] = CurrentKey(call.doc)]
  /\ call' = Idle
  /\ UNCHANGED <<definition, tech, counter, logged, lastMove, crashes>>

(* Mutant: the transition is not looked up.                                  *)
MayMoveAnywhere(d, to) == to \in states

MayMove(d, to) ==
  /\ to \in states
  /\ CurrentKey(d) = to \/ <<CurrentKey(d), to>> \in transitions

(* The event of the move; only the counter decides its number.               *)
AppendMove ==
  /\ Ensured("move")
  /\ MayMove(call.doc, call.to)
  /\ ~Wedged(call.doc)
  /\ logged' = [logged EXCEPT ![call.doc] = @ + 1]
  /\ lastMove' = [lastMove EXCEPT ![call.doc] = <<CurrentKey(call.doc), call.to>>]
  /\ call' = [call EXCEPT !.op = "write"]
  /\ UNCHANGED <<definition, tech, key, counter, crashes>>

(* An unknown state, a missing transition or the UNIQUE index ends the call. *)
RejectMove ==
  /\ Ensured("move")
  /\ ~MayMove(call.doc, call.to) \/ Wedged(call.doc)
  /\ call' = Idle
  /\ UNCHANGED <<definition, documents, crashes>>

WriteMove ==
  /\ call.op = "write"
  /\ key' = [key EXCEPT ![call.doc] = call.to]
  /\ counter' = [counter EXCEPT ![call.doc] = @ + 1]
  /\ call' = Idle
  /\ UNCHANGED <<definition, tech, logged, lastMove, crashes>>

-----------------------------------------------------------------------------
(* parse_workflow_states_or_throw, parse_workflow_transitions_or_throw.      *)
Valid(w) ==
  /\ w.states # {} /\ NoKey \notin w.states
  /\ w.default \in w.states
  /\ w.transitions \subseteq w.states \X w.states

(* The documents a new definition has no state for.                          *)
Stranded(w) == {d \in Docs : key[d] # NoKey /\ key[d] \notin w.states}

(* Mutant: the documents are left where they are.                            *)
SaveWithoutRemap(w) ==
  /\ call.op = "none"
  /\ Valid(w)
  /\ states' = w.states
  /\ default' = w.default
  /\ transitions' = w.transitions
  /\ UNCHANGED <<documents, call, crashes>>

(* save_zone_workflow: one transaction, undone as a whole when the event of  *)
(* a stranded document collides with the UNIQUE index.                       *)
SaveZoneWorkflow(w) ==
  /\ call.op = "none"
  /\ Valid(w)
  /\ \A d \in Stranded(w) : ~Wedged(d) /\ logged[d] < MaxEvents
  /\ states' = w.states
  /\ default' = w.default
  /\ transitions' = w.transitions
  /\ key' = [d \in Docs |-> IF d \in Stranded(w) THEN w.default ELSE key[d]]
  /\ counter' = [d \in Docs |-> IF d \in Stranded(w) THEN counter[d] + 1 ELSE counter[d]]
  /\ logged' = [d \in Docs |-> IF d \in Stranded(w) THEN logged[d] + 1 ELSE logged[d]]
  /\ lastMove' = [d \in Docs |-> IF d \in Stranded(w) THEN <<key[d], w.default>>
                                 ELSE lastMove[d]]
  /\ UNCHANGED <<tech, call, crashes>>

-----------------------------------------------------------------------------
(* transition_state or record_text_extraction of the lifecycle service: the  *)
(* event, the counter, the state, of which a process that dies leaves one or *)
(* two (see DocumentLifecycle).                                              *)
Technical(d, s) ==
  /\ call.op = "none"
  /\ tech[d] # s
  /\ ~Wedged(d)
  /\ logged[d] < MaxEvents
  /\ logged' = [logged EXCEPT ![d] = @ + 1]
  /\ \/ /\ counter' = [counter EXCEPT ![d] = @ + 1]
        /\ tech' = [tech EXCEPT ![d] = s]
        /\ UNCHANGED crashes
     \/ /\ crashes < MaxCrashes
        /\ crashes' = crashes + 1
        /\ counter' \in {counter, [counter EXCEPT ![d] = @ + 1]}
        /\ UNCHANGED tech
  /\ UNCHANGED <<definition, key, lastMove, call>>

Crash ==
  /\ call.op # "none"
  /\ crashes < MaxCrashes
  /\ crashes' = crashes + 1
  /\ call' = Idle
  /\ UNCHANGED <<definition, documents>>

Next ==
  \/ GetZoneWorkflow
  \/ \E d \in Docs : GetDocumentLifecycle(d)
  \/ \E d \in Docs, k \in Goals : TransitionDocumentWorkflow(d, k)
  \/ SeedState
  \/ SeedTransition
  \/ EndGet
  \/ EndLifecycle
  \/ AppendMove
  \/ RejectMove
  \/ WriteMove
  \/ \E w \in Edits : SaveZoneWorkflow(w)
  \/ \E d \in Docs, s \in TechStates : Technical(d, s)
  \/ Crash

Spec == Init /\ [][Next]_vars

-----------------------------------------------------------------------------
Keys == TechStates \cup Goals \cup SeedKeys \cup UNION {w.states : w \in Edits}

TypeOK ==
  /\ states \subseteq Keys
  /\ default \in Keys \cup {NoKey}
  /\ transitions \subseteq Keys \X Keys
  /\ tech \in [Docs -> TechStates]
  /\ key \in [Docs -> Keys \cup {NoKey}]
  /\ counter \in [Docs -> Nat]
  /\ logged \in [Docs -> Nat]
  /\ lastMove \in [Docs -> (Keys \X Keys) \cup {NoMove}]
  /\ call \in [op : {"none", "get", "lifecycle", "move", "write"},
               doc : Docs \cup {NoDoc},
               to : Goals \cup {NoKey},
               seedStates : Seq(Keys),
               seedTransitions : Seq(Keys \X Keys)]
  /\ crashes \in 0..MaxCrashes

(* Whatever edits, half-finished seedings and crashes came before, a workflow *)
(* that has states has its default among them, so that save_zone_workflow has *)
(* a state to send stranded documents to; and the only keys a document has and *)
(* the workflow does not know are those it inherited from its lifecycle: a     *)
(* state that an edit removes takes no document with it.                       *)
KeysAreKnown ==
  /\ states # {} => default \in states
  /\ \A d \in Docs : key[d] \in states \cup TechStates \cup {NoKey}

(* The workflow state of a document stays at one of the two ends of its newest *)
(* WORKFLOW event (before its first one, at the inherited state): the event    *)
(* and the row commit separately, but a half-done move wedges the document,    *)
(* and nothing moves it after that, the lifecycle included.                    *)
KeyNearLog ==
  \A d \in Docs : lastMove[d] # NoMove => CurrentKey(d) \in {lastMove[d][1], lastMove[d][2]}

(* parse_workflow_transitions_or_throw refuses a transition that references an  *)
(* unknown state, crashes and later edits of the states included.  Only the      *)
(* defaults may do so: an empty list that a user saved counts as never seeded,   *)
(* and the next call inserts the default transitions under the user's states.    *)
DanglingAreDefault ==
  call.op = "none" =>
    \A t \in transitions : t \in states \X states \/ \E i \in DOMAIN SeedTransitions : t = SeedTransitions[i]

\* Workflows and rows between two statements of the handlers: typed, with known
\* states, next to their logs, with only default transitions left dangling.
WorkflowSound == TypeOK /\ KeysAreKnown /\ KeyNearLog /\ DanglingAreDefault

(* A document changes its workflow state along a transition that is defined at *)
(* that moment, or to the default because its state is no longer defined, or   *)
(* by writing down the state it inherits. A wedged document holds on to its    *)
(* state: as long as it is there, no edit that removes the state can be saved, *)
(* because the remap of the document is part of the transaction.               *)
MovesAreLegal ==
  [][\A d \in Docs :
       /\ key'[d] # key[d] =>
            \/ <<CurrentKey(d), key'[d]>> \in transitions
            \/ key[d] = NoKey /\ key'[d] = tech[d]
            \/ key[d] \notin states' /\ key'[d] = default'
       /\ Wedged(d) /\ key[d] \in states => key[d] \in states']_vars
=============================================================================
