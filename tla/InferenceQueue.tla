--------------------------- MODULE InferenceQueue ---------------------------
(***************************************************************************)
(* What the inference queue promises its callers: tickets are taken in the *)
(* order of their submission, one at a time; each gets exactly one outcome *)
(* (a value, the handler's error, or a broken promise); a ticket cancelled *)
(* while it waits is never run; and whatever waits when the queue is torn  *)
(* down is broken.                                                         *)
(***************************************************************************)
EXTENDS Sequences, SequencesExt

CONSTANTS Tickets, NoTicket

VARIABLES
  queue,       \* tickets waiting, oldest first
  current,     \* the ticket taken last and not yet settled, or NoTicket
  cancelled,   \* tickets cancelled while they waited
  outcome      \* ticket -> "none" before its submission, "pending", or its end

vars == <<queue, current, cancelled, outcome>>

Init ==
  /\ queue = <<>>
  /\ current = NoTicket
  /\ cancelled = {}
  /\ outcome = [t \in Tickets |-> "none"]

Submit(t) ==
  /\ outcome[t] = "none"
  /\ queue' = Append(queue, t)
  /\ outcome' = [outcome EXCEPT ![t] = "pending"]
  /\ UNCHANGED <<current, cancelled>>

Cancel(t) ==
  /\ t \in ToSet(queue)
  /\ cancelled' = cancelled \cup {t}
  /\ UNCHANGED <<queue, current, outcome>>

Take ==
  /\ current = NoTicket
  /\ queue # <<>>
  /\ current' = Head(queue)
  /\ queue' = Tail(queue)
  /\ UNCHANGED <<cancelled, outcome>>

Settle(o) ==
  /\ current # NoTicket
  /\ outcome' = [outcome EXCEPT ![current] = o]
  /\ current' = NoTicket
  /\ UNCHANGED <<queue, cancelled>>

Drop == current \in cancelled /\ Settle("broken")
Finish(o) == current \notin cancelled /\ Settle(o)

Abandon ==
  /\ current = NoTicket
  /\ outcome' = [t \in Tickets |-> IF t \in ToSet(queue) THEN "broken" ELSE outcome[t]]
  /\ queue' = <<>>
  /\ UNCHANGED <<current, cancelled>>

Next ==
  \/ \E t \in Tickets : Submit(t) \/ Cancel(t)
  \/ Take
  \/ Drop
  \/ \E o \in {"value", "error"} : Finish(o)
  \/ Abandon

Spec == Init /\ [][Next]_vars
=============================================================================
