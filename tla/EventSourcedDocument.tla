------------------------ MODULE EventSourcedDocument ------------------------
(***************************************************************************)
(* What "event-sourced document lifecycle" promises: each document has an  *)
(* append-only log of moves and a current state; a step appends one move,  *)
(* which starts in the current state, and makes its end the current state. *)
(* Log and state therefore change together, and the log replays to the     *)
(* state at every moment.                                                  *)
(***************************************************************************)
EXTENDS Sequences

CONSTANTS Uids, States, NoState, Initial

VARIABLES
  log,       \* document -> sequence of moves
  current    \* document -> its state, NoState before it is created

vars == <<log, current>>

Init ==
  /\ log = [u \in Uids |-> <<>>]
  /\ current = [u \in Uids |-> NoState]

Record(u, s) ==
  /\ log' = [log EXCEPT ![u] = Append(@, [from |-> current[u], to |-> s])]
  /\ current' = [current EXCEPT ![u] = s]

Create(u) == current[u] = NoState /\ Record(u, Initial)

(* A move to the state the document is in records something that happened  *)
(* to it there, such as the extraction of its text.                        *)
Change(u, s) == current[u] # NoState /\ Record(u, s)

Next == \E u \in Uids : Create(u) \/ \E s \in States : Change(u, s)

Spec == Init /\ [][Next]_vars
=============================================================================
