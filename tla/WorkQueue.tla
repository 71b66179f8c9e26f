----------------------------- MODULE WorkQueue -----------------------------
(***************************************************************************)
(* WorkQueue<Req, Res> of lm_engine.hh at the grain of its mutex and its   *)
(* condition variable: producers that submit and cancel, the worker thread *)
(* in drain(), and the thread that runs the destructor.                    *)
(*                                                                         *)
(* Only the worker holds mu_ across several steps, between its lock and    *)
(* the moment it sleeps or has popped a slot; every other critical section *)
(* is one action that needs mu_ free.  Evaluating the wait predicate and   *)
(* going to sleep are two steps: the worker holds mu_ between them, which  *)
(* keeps submit out but not request_stop and notify_all.                   *)
(***************************************************************************)
EXTENDS Sequences, SequencesExt

CONSTANTS
  Tickets,     \* one ticket, with its slot and promise, per call of submit
  NoTicket     \* the worker has no slot

ASSUME TicketsAssumption == NoTicket \notin Tickets

VARIABLES
  queue,       \* queue_
  current,     \* the slot the worker has popped
  cancelled,   \* the slots whose cancelled flag is set
  outcome,     \* the state of each slot's promise
  submitted,   \* submit of a ticket: "no", "pushed" (not notified yet), "done"
  worker,      \* where the worker is in drain()
  stop,        \* stop_requested()
  dtor         \* the destructor: "no", "stopping", "joining", "gone"

vars == <<queue, current, cancelled, outcome, submitted, worker, stop, dtor>>

WorkerSteps == {"loop", "lock", "test", "sleep", "waiting", "pop", "slot", "running",
                "clear", "ended"}

Init ==
  /\ queue = <<>>
  /\ current = NoTicket
  /\ cancelled = {}
  /\ outcome = [t \in Tickets |-> "none"]
  /\ submitted = [t \in Tickets |-> "no"]
  /\ worker = "loop"
  /\ stop = FALSE
  /\ dtor = "no"

(* The worker holds mu_.                                                    *)
MuHeld == worker \in {"test", "sleep", "pop"}

-----------------------------------------------------------------------------
(* Producers.  The object is alive while they use it: the destructor starts  *)
(* when no submit is under way, and nothing is submitted after that.         *)

Push(t) ==
  /\ dtor = "no"
  /\ submitted[t] = "no"
  /\ ~MuHeld
  /\ queue' = Append(queue, t)
  /\ outcome' = [outcome EXCEPT ![t] = "pending"]
  /\ submitted' = [submitted EXCEPT ![t] = "pushed"]
  /\ UNCHANGED <<current, cancelled, worker, stop, dtor>>

(* A thread that waits on cv_ goes back for mu_; nobody else is told.        *)
Woken == IF worker = "waiting" THEN "lock" ELSE worker

(* Mutant: submit never notifies.                                            *)
NotifyOneForgotten(t) ==
  /\ submitted[t] = "pushed"
  /\ submitted' = [submitted EXCEPT ![t] = "done"]
  /\ UNCHANGED <<queue, current, cancelled, outcome, worker, stop, dtor>>

NotifyOne(t) ==
  /\ submitted[t] = "pushed"
  /\ submitted' = [submitted EXCEPT ![t] = "done"]
  /\ worker' = Woken
  /\ UNCHANGED <<queue, current, cancelled, outcome, stop, dtor>>

(* Mutant: cancel also finds the slot the worker has already popped.          *)
CancelFindsRunning(t) ==
  /\ dtor = "no"
  /\ ~MuHeld
  /\ t \in ToSet(queue) \cup {current}
  /\ cancelled' = cancelled \cup {t}
  /\ UNCHANGED <<queue, current, outcome, submitted, worker, stop, dtor>>

(* cancel: only a slot that is still queued is found.                         *)
Cancel(t) ==
  /\ dtor = "no"
  /\ ~MuHeld
  /\ t \in ToSet(queue)
  /\ cancelled' = cancelled \cup {t}
  /\ UNCHANGED <<queue, current, outcome, submitted, worker, stop, dtor>>

-----------------------------------------------------------------------------
(* The worker: drain().                                                       *)

Goto(step) == /\ worker' = step
              /\ UNCHANGED <<queue, current, cancelled, outcome, submitted, stop, dtor>>

LoopTest == worker = "loop" /\ Goto(IF stop THEN "clear" ELSE "lock")

Lock == worker = "lock" /\ Goto("test")

(* The predicate of cv_.wait.                                                 *)
WaitTest == worker = "test" /\ Goto(IF queue # <<>> \/ stop THEN "pop" ELSE "sleep")

Sleep == worker = "sleep" /\ Goto("waiting")

(* The standard lets a wait end by itself; nothing makes it.                  *)
SpuriousWake == worker = "waiting" /\ Goto("lock")

(* Mutant: the newest slot is taken first.                                    *)
PopNewest ==
  /\ worker = "pop"
  /\ ~stop
  /\ current' = queue[Len(queue)]
  /\ queue' = SubSeq(queue, 1, Len(queue) - 1)
  /\ worker' = "slot"
  /\ UNCHANGED <<cancelled, outcome, submitted, stop, dtor>>

PopFront ==
  /\ worker = "pop"
  /\ ~stop
  /\ current' = Head(queue)
  /\ queue' = Tail(queue)
  /\ worker' = "slot"
  /\ UNCHANGED <<cancelled, outcome, submitted, stop, dtor>>

StopInsteadOfPop == worker = "pop" /\ stop /\ Goto("clear")

Settled(o) ==
  /\ outcome' = [outcome EXCEPT ![current] = o]
  /\ current' = NoTicket
  /\ worker' = "loop"
  /\ UNCHANGED <<queue, cancelled, submitted, stop, dtor>>

(* Mutant: a cancelled slot gets an outcome of its own.                       *)
DropAsCancelled == worker = "slot" /\ current \in cancelled /\ Settled("cancelled")

(* A cancelled slot goes out of scope and breaks its promise.                 *)
DropCancelled == worker = "slot" /\ current \in cancelled /\ Settled("broken")

StartHandler == worker = "slot" /\ current \notin cancelled /\ Goto("running")

(* The handler returns, early if a stop is requested, or throws.              *)
HandlerEnds == worker = "running" /\ \E o \in {"value", "error"} : Settled(o)

(* Mutant: the queue is not cleared when the worker leaves its loop.          *)
ClearForgotten == worker = "clear" /\ Goto("ended")

ClearQueue ==
  /\ worker = "clear"
  /\ outcome' = [t \in Tickets |-> IF t \in ToSet(queue) THEN "broken" ELSE outcome[t]]
  /\ queue' = <<>>
  /\ worker' = "ended"
  /\ UNCHANGED <<current, cancelled, submitted, stop, dtor>>

-----------------------------------------------------------------------------
(* ~WorkQueue: request_stop, notify_all, and the join of the jthread.         *)

RequestStop ==
  /\ dtor = "no"
  /\ \A t \in Tickets : submitted[t] # "pushed"
  /\ stop' = TRUE
  /\ dtor' = "stopping"
  /\ UNCHANGED <<queue, current, cancelled, outcome, submitted, worker>>

NotifyAll ==
  /\ dtor = "stopping"
  /\ dtor' = "joining"
  /\ worker' = Woken
  /\ UNCHANGED <<queue, current, cancelled, outcome, submitted, stop>>

Join ==
  /\ dtor = "joining"
  /\ worker = "ended"
  /\ dtor' = "gone"
  /\ UNCHANGED <<queue, current, cancelled, outcome, submitted, worker, stop>>

WorkerStep ==
  \/ LoopTest \/ Lock \/ WaitTest \/ Sleep \/ PopFront \/ StopInsteadOfPop
  \/ DropCancelled \/ StartHandler \/ HandlerEnds \/ ClearQueue

Next ==
  \/ \E t \in Tickets : Push(t) \/ NotifyOne(t) \/ Cancel(t)
  \/ WorkerStep
  \/ SpuriousWake
  \/ RequestStop
  \/ NotifyAll
  \/ Join

Spec == Init /\ [][Next]_vars

(* Threads that can run do run, and the handler returns (a generation is      *)
(* bounded by max_tokens); nobody need submit, cancel, destroy or be woken    *)
(* for no reason.                                                             *)
Fairness ==
  /\ WF_vars(WorkerStep)
  /\ \A t \in Tickets : WF_vars(NotifyOne(t))
  /\ WF_vars(NotifyAll)
  /\ WF_vars(Join)

FairSpec == Spec /\ Fairness

-----------------------------------------------------------------------------
Outcomes == {"none", "pending", "value", "error", "broken"}

TypeOK ==
  /\ queue \in Seq(Tickets)
  /\ current \in Tickets \cup {NoTicket}
  /\ cancelled \subseteq Tickets
  /\ outcome \in [Tickets -> Outcomes]
  /\ submitted \in [Tickets -> {"no", "pushed", "done"}]
  /\ worker \in WorkerSteps
  /\ stop \in BOOLEAN
  /\ dtor \in {"no", "stopping", "joining", "gone"}

(* No caller is left holding a future nobody will complete: a pending promise *)
(* belongs to a slot that waits in the queue, once, or to the slot the worker *)
(* holds, and to no other; none is pending when the worker thread is over.    *)
PendingIsHeld ==
  \A t \in Tickets :
    /\ outcome[t] = "pending" <=> t \in ToSet(queue) \cup {current}
    /\ t \in ToSet(queue) => t # current
    /\ \A i, j \in DOMAIN queue : queue[i] = t /\ queue[j] = t => i = j
    /\ worker = "ended" => outcome[t] # "pending"

(* cancel's "true" is a promise: a slot it marked is never run, whatever the  *)
(* order of the cancel, the pop and the test of the flag, and its future ends *)
(* broken.                                                                    *)
CancelledNeverRuns ==
  \A t \in cancelled :
    /\ ~(worker = "running" /\ current = t)
    /\ outcome[t] \in {"pending", "broken"}

(* The worker never sleeps on work: when it waits, each slot in the queue has  *)
(* a notify_one still to come.                                                *)
NoSleepOnWork ==
  worker = "waiting" /\ queue # <<>> => \E t \in Tickets : submitted[t] = "pushed"

Ideal == INSTANCE InferenceQueue

(* Under its mutex and its condition variable the queue is the queue of       *)
(* InferenceQueue.                                                            *)
ImplementsQueue == Ideal!Spec

(* As long as nobody destroys the queue every submitted request is settled.   *)
EveryTicketSettles ==
  \A t \in Tickets : outcome[t] = "pending" ~> outcome[t] \in {"value", "error", "broken"}

(* "On destruction / stop-request: the worker breaks its wait loop and calls  *)
(* queue_.clear()": a destructor that has started comes to its end.           *)
DestructionEnds == dtor = "stopping" ~> dtor = "gone"
=============================================================================
