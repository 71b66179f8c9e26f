------------------------------- MODULE LMChat -------------------------------
(***************************************************************************)
(* A local chat from lmChat() in the page to the inference queue in the    *)
(* host and back: the registry of pending requests of lm-service.ts, the   *)
(* handlers of lm_bindings.hh with their detached watcher threads, and     *)
(* LMEngine around an InferenceQueue.                                      *)
(*                                                                         *)
(* The page runs one task at a time, in the order the host posted them     *)
(* (inbox); a handler's answer and a watcher's push are posted by two      *)
(* different threads of the host.  load, unload, chat and cancel of the    *)
(* engine are taken one at a time: LMEngine has no lock, and two at once   *)
(* are outside this model.                                                 *)
(***************************************************************************)
EXTENDS Naturals, Sequences, SequencesExt

CONSTANTS
  Calls,          \* calls of lmChat, each at most once
  NoTicket,       \* the worker runs nothing
  NoAnswer,       \* a promise that is not settled
  Failed,         \* a rejected promise
  Undefined,      \* the registry value "undefined"
  NoId,           \* no request id: the host refused the request
  MaxResets       \* bound on unloads and reloads of a loaded model

ASSUME ChatAssumption ==
  /\ NoTicket \notin Calls /\ NoAnswer \notin Calls /\ Failed \notin Calls
  /\ Undefined \notin Calls /\ NoAnswer # Failed
  /\ NoId \notin Nat
  /\ MaxResets \in Nat

VARIABLES
  js,             \* lmChat of a call: "idle", "calling", "returned", "thrown"
  answer,         \* what the call's promise is settled with: the call whose text it got
  pending,        \* pendingRequests, in insertion order
  host,           \* lm_chat_start of a call: "no", "sent", "submitted", "refused", "replied"
  rid,            \* the request id the host gave a call
  nextId,         \* next_id_ of the present queue
  engine,         \* "none", "loaded", "resetting", "hung"
  resets,
  cancels,        \* lm_cancel requests on their way to the host
  pushed,         \* the calls whose watcher has pushed
  early,          \* history: those pushed before their lm_chat_start had replied
  inbox,          \* tasks posted to the page
  queue, current, cancelled, outcome    \* of the InferenceQueue

page == <<js, answer, pending>>
tickets == <<queue, current, cancelled, outcome>>
vars == <<js, answer, pending, host, rid, nextId, engine, resets, cancels, pushed, early, inbox,
          queue, current, cancelled, outcome>>

Queue == INSTANCE InferenceQueue WITH Tickets <- Calls

Local(c) == [of |-> "page", call |-> c]       \* the id lmChat makes up
Server(n) == [of |-> "host", id |-> n]        \* "lm-<n>"

Init ==
  /\ js = [c \in Calls |-> "idle"]
  /\ answer = [c \in Calls |-> NoAnswer]
  /\ pending = <<>>
  /\ host = [c \in Calls |-> "no"]
  /\ rid = [c \in Calls |-> NoId]
  /\ nextId = 0
  /\ engine = "none"
  /\ resets = 0
  /\ cancels = {}
  /\ pushed = {}
  /\ early = {}
  /\ inbox = <<>>
  /\ Queue!Init

-----------------------------------------------------------------------------
(* The Map of the page.                                                     *)

Has(key) == \E i \in DOMAIN pending : pending[i].key = key
Value(key) == (CHOOSE e \in ToSet(pending) : e.key = key).value
Without(key) ==
  IF Has(key) THEN RemoveAt(pending, CHOOSE i \in DOMAIN pending : pending[i].key = key)
              ELSE pending

(* Map.set: in place when the key is there, at the end otherwise.           *)
With(m, key, value) ==
  IF \E i \in DOMAIN m : m[i].key = key
  THEN [i \in DOMAIN m |-> IF m[i].key = key THEN [key |-> key, value |-> value] ELSE m[i]]
  ELSE Append(m, [key |-> key, value |-> value])

-----------------------------------------------------------------------------
(* The page.                                                                *)

Chat(c) ==
  /\ js[c] = "idle"
  /\ js' = [js EXCEPT ![c] = "calling"]
  /\ pending' = With(pending, Local(c), c)
  /\ host' = [host EXCEPT ![c] = "sent"]
  /\ UNCHANGED <<answer, rid, nextId, engine, resets, cancels, pushed, early, inbox, tickets>>

(* The answer of lm_chat_start: the entry moves from the page's id to the host's, *)
(* also when cancelAll has removed it meanwhile and there is nothing to move.     *)
Reply(m) ==
  /\ m.type = "reply"
  /\ LET rest == Without(Local(m.call)) IN
     IF m.id = NoId
     THEN /\ pending' = rest
          /\ js' = [js EXCEPT ![m.call] = "thrown"]
     ELSE /\ pending' = With(rest, Server(m.id),
                             IF Has(Local(m.call)) THEN Value(Local(m.call)) ELSE Undefined)
          /\ js' = [js EXCEPT ![m.call] = "returned"]
  /\ UNCHANGED answer

(* Mutant: the entry stays in the registry after it is settled.                 *)
ResultKeepsEntry(m) ==
  /\ m.type = "push"
  /\ IF Has(Server(m.id)) /\ Value(Server(m.id)) # Undefined
     THEN /\ answer' = [answer EXCEPT ![Value(Server(m.id))] =
                          IF m.ok THEN m.from ELSE Failed]
          /\ pending' = pending
     ELSE UNCHANGED <<answer, pending>>
  /\ UNCHANGED js

(* __lm_result and __lm_error: an id without an entry is dropped.               *)
Result(m) ==
  /\ m.type = "push"
  /\ IF Has(Server(m.id)) /\ Value(Server(m.id)) # Undefined
     THEN /\ answer' = [answer EXCEPT ![Value(Server(m.id))] =
                          IF m.ok THEN m.from ELSE Failed]
          /\ pending' = Without(Server(m.id))
     ELSE UNCHANGED <<answer, pending>>
  /\ UNCHANGED js

Receive ==
  /\ inbox # <<>>
  /\ Reply(Head(inbox)) \/ Result(Head(inbox))
  /\ inbox' = Tail(inbox)
  /\ UNCHANGED <<host, rid, nextId, engine, resets, cancels, pushed, early, tickets>>

(* lmCancelAll walks the Map in order, rejects and removes each entry and asks  *)
(* the host to cancel it; entry.reject of an undefined entry throws and ends    *)
(* the walk.                                                                    *)
Walk(n) ==
  /\ \A i \in 1..n : pending[i].value # Undefined
  /\ n < Len(pending) => pending[n + 1].value = Undefined

ToCancel(n) == {pending[i].key.id : i \in {j \in 1..n : pending[j].key.of = "host"}}

(* Mutant: the entries are removed and not rejected.                            *)
CancelAllWithoutReject ==
  /\ pending # <<>>
  /\ \E n \in 0..Len(pending) :
       /\ Walk(n)
       /\ pending' = SubSeq(pending, n + 1, Len(pending))
       /\ cancels' = cancels \cup ToCancel(n)
  /\ UNCHANGED <<js, answer, host, rid, nextId, engine, resets, pushed, early, inbox, tickets>>

CancelAll ==
  /\ pending # <<>>
  /\ \E n \in 0..Len(pending) :
       /\ Walk(n)
       /\ answer' = [c \in Calls |-> IF \E i \in 1..n : pending[i].value = c
                                     THEN Failed ELSE answer[c]]
       /\ pending' = SubSeq(pending, n + 1, Len(pending))
       /\ cancels' = cancels \cup ToCancel(n)
  /\ UNCHANGED <<js, host, rid, nextId, engine, resets, pushed, early, inbox, tickets>>

-----------------------------------------------------------------------------
(* The host's handlers.                                                        *)

(* Mutant: every request of a queue gets the same id.                          *)
HostSubmitSameId(c) ==
  /\ host[c] = "sent"
  /\ engine = "loaded"
  /\ Queue!Submit(c)
  /\ rid' = [rid EXCEPT ![c] = nextId]
  /\ host' = [host EXCEPT ![c] = "submitted"]
  /\ UNCHANGED <<page, nextId, engine, resets, cancels, pushed, early, inbox>>

(* lm_chat_start up to the submission; the watcher of the ticket starts here.  *)
HostSubmit(c) ==
  /\ host[c] = "sent"
  /\ engine = "loaded"
  /\ Queue!Submit(c)
  /\ rid' = [rid EXCEPT ![c] = nextId]
  /\ nextId' = nextId + 1
  /\ host' = [host EXCEPT ![c] = "submitted"]
  /\ UNCHANGED <<page, engine, resets, cancels, pushed, early, inbox>>

HostRefuse(c) ==
  /\ host[c] = "sent"
  /\ engine = "none"
  /\ host' = [host EXCEPT ![c] = "refused"]
  /\ UNCHANGED <<page, rid, nextId, engine, resets, cancels, pushed, early, inbox, tickets>>

HostReply(c) ==
  /\ host[c] \in {"submitted", "refused"}
  /\ host' = [host EXCEPT ![c] = "replied"]
  /\ inbox' = Append(inbox, [type |-> "reply", call |-> c, id |-> rid[c]])
  /\ UNCHANGED <<page, rid, nextId, engine, resets, cancels, pushed, early, tickets>>

(* The watcher of a ticket wakes up from future.get() and posts the outcome.   *)
Push(c) ==
  /\ outcome[c] \in {"value", "error", "broken"}
  /\ c \notin pushed
  /\ pushed' = pushed \cup {c}
  /\ early' = IF host[c] = "replied" THEN early ELSE early \cup {c}
  /\ inbox' = Append(inbox, [type |-> "push", id |-> rid[c], from |-> c,
                             ok |-> outcome[c] = "value"])
  /\ UNCHANGED <<page, host, rid, nextId, engine, resets, cancels, tickets>>

HostCancel(n) ==
  /\ n \in cancels
  /\ engine \notin {"resetting", "hung"}
  /\ cancels' = cancels \ {n}
  /\ IF \E t \in ToSet(queue) : rid[t] = n
     THEN \E t \in ToSet(queue) : rid[t] = n /\ Queue!Cancel(t)
     ELSE UNCHANGED tickets
  /\ UNCHANGED <<page, host, rid, nextId, engine, resets, pushed, early, inbox>>

(* lm_load without a model: the new queue numbers its requests from 0.         *)
Load ==
  /\ engine = "none"
  /\ engine' = "loaded"
  /\ nextId' = 0
  /\ UNCHANGED <<page, host, rid, resets, cancels, pushed, early, inbox, tickets>>

(* lm_load and lm_unload with a model: queue_.reset() stops the worker, which  *)
(* takes no further slot, and joins it.                                        *)
BeginReset ==
  /\ engine = "loaded"
  /\ resets < MaxResets
  /\ resets' = resets + 1
  /\ engine' = "resetting"
  /\ UNCHANGED <<page, host, rid, nextId, cancels, pushed, early, inbox, tickets>>

(* The stop comes while the worker is between its predicate, which found      *)
(* nothing, and its sleep: the notification is lost and the join does not     *)
(* return.  Whoever called queue_.reset() is stuck in it, and with it what    *)
(* uses the engine.                                                           *)
HangReset ==
  /\ engine = "loaded"
  /\ resets < MaxResets
  /\ queue = <<>> /\ current = NoTicket
  /\ resets' = resets + 1
  /\ engine' = "hung"
  /\ UNCHANGED <<page, host, rid, nextId, cancels, pushed, early, inbox, tickets>>

(* Only a wake-up nobody asked for shows the sleeping worker its stop.        *)
SpuriousWake ==
  /\ engine = "hung"
  /\ engine' = "resetting"
  /\ UNCHANGED <<page, host, rid, nextId, resets, cancels, pushed, early, inbox, tickets>>

(* The worker clears its queue and ends; lm_load makes a new queue unless the  *)
(* model cannot be loaded.                                                     *)
EndReset ==
  /\ engine = "resetting"
  /\ Queue!Abandon
  /\ \/ engine' = "none" /\ UNCHANGED nextId
     \/ engine' = "loaded" /\ nextId' = 0
  /\ UNCHANGED <<page, host, rid, resets, cancels, pushed, early, inbox>>

Worker ==
  /\ \/ engine = "loaded" /\ Queue!Take
     \/ Queue!Drop
     \/ \E o \in {"value", "error"} : Queue!Finish(o)
  /\ UNCHANGED <<page, host, rid, nextId, engine, resets, cancels, pushed, early, inbox>>

Progress ==
  \/ \E c \in Calls : HostSubmit(c) \/ HostRefuse(c) \/ HostReply(c) \/ Push(c)
  \/ \E n \in cancels : HostCancel(n)
  \/ Worker
  \/ EndReset
  \/ Receive

Next ==
  \/ \E c \in Calls : Chat(c)
  \/ CancelAll
  \/ Load
  \/ BeginReset
  \/ HangReset
  \/ SpuriousWake
  \/ Progress

Spec == Init /\ [][Next]_vars

(* Handlers, watchers, the worker and the page's event loop all run on; the    *)
(* user need not do anything.  Progress cannot be busy for ever with some of   *)
(* them: each can act a bounded number of times per call.  The end of a reset  *)
(* is fair where the worker still comes to its predicate and sees the stop;    *)
(* nothing is assumed of a worker that missed it: SpuriousWake is not fair.    *)
FairSpec == Spec /\ WF_vars(Progress)

-----------------------------------------------------------------------------
TypeOK ==
  /\ js \in [Calls -> {"idle", "calling", "returned", "thrown"}]
  /\ answer \in [Calls -> Calls \cup {Failed, NoAnswer}]
  /\ \A i \in DOMAIN pending : pending[i].value \in Calls \cup {Undefined}
  /\ host \in [Calls -> {"no", "sent", "submitted", "refused", "replied"}]
  /\ rid \in [Calls -> Nat \cup {NoId}]
  /\ nextId \in Nat
  /\ engine \in {"none", "loaded", "resetting", "hung"}
  /\ cancels \subseteq Nat
  /\ early \subseteq pushed
  /\ pushed \subseteq Calls

(* Two calls share a request id: a reload of the model starts the ids again.   *)
IdShared(c, d) == resets > 0 /\ c # d /\ rid[c] # NoId /\ rid[c] = rid[d]
IdIsOwn(c) == \A d \in Calls : ~IdShared(c, d)

(* A promise resolves with the text generated for its own messages, unless a   *)
(* reload gave its request id to another request too.                          *)
AnswerIsOwn ==
  \A c \in Calls : answer[c] \in Calls => answer[c] = c \/ IdShared(c, answer[c])

(* Whatever order answers, results, errors and cancellations arrive in, a      *)
(* settled promise is never settled again.                                     *)
SettledOnce ==
  [][\A c \in Calls : answer[c] # NoAnswer => answer'[c] = answer[c]]_vars

(* No entry waits in the registry for a push that has already been delivered:  *)
(* a call waits under the page's id until its answer has been processed, and   *)
(* under the host's id while its push is still to come, also when an id was    *)
(* given twice.  The exception is a result that overtook the answer.           *)
EntriesAreAwaited ==
  \A e \in ToSet(pending) : e.value \in Calls \ early =>
    \/ e.key = Local(e.value) /\ js[e.value] = "calling"
    \/ /\ e.key = Server(rid[e.value])
       /\ \/ e.value \notin pushed
          \/ \E i \in DOMAIN inbox : inbox[i].type = "push" /\ inbox[i].from = e.value

ChatSettled(c) == js[c] = "thrown" \/ (js[c] = "returned" /\ answer[c] # NoAnswer)

(* The host never comes to this call: the unload or reload before it is stuck  *)
(* in the join of the worker.                                                  *)
Stranded(c) == engine = "hung" /\ host[c] = "sent"

(* Every lmChat comes to an end: its promise is settled or it has thrown, also *)
(* across cancelAll, an unload or a reload.  The exceptions are, again, a      *)
(* result that overtook the answer and an id given twice; and a call that the  *)
(* host has not accepted when an unload hangs.  One that it has accepted is    *)
(* settled even then.                                                          *)
EveryChatSettles ==
  \A c \in Calls :
    js[c] = "calling" ~> ChatSettled(c) \/ c \in early \/ ~IdIsOwn(c) \/ Stranded(c)

(* "Register promise BEFORE IPC call to avoid race where result arrives first": *)
(* a result that arrives first reaches its promise all the same.               *)
EarlyChatSettles == \A c \in Calls : c \in early ~> ChatSettled(c)

\* The registry of the page and the answers it hands out: typed, own, awaited.
RegistrySound == TypeOK /\ AnswerIsOwn /\ EntriesAreAwaited
=============================================================================
