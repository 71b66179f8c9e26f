-------------------------- MODULE WorkQueueProofs --------------------------
(***************************************************************************)
(* The work queue for any set of requests: its promises are accounted for, *)
(* cancelled slots never run, and it implements InferenceQueue.            *)
(***************************************************************************)
EXTENDS WorkQueue, TLAPS

Distinct(q) == \A i, j \in DOMAIN q : q[i] = q[j] => i = j

(* Where the worker is tells what it holds.                                 *)
WorkerOK ==
  /\ current # NoTicket <=> worker \in {"slot", "running"}
  /\ worker = "pop" => queue # <<>> \/ stop
  /\ worker \in {"clear", "ended"} => stop
  /\ worker = "ended" => queue = <<>>
  /\ stop => dtor # "no"

PromisesOK ==
  /\ \A t \in Tickets : outcome[t] = "pending" <=> t \in ToSet(queue) \/ t = current
  /\ current \notin ToSet(queue)
  /\ Distinct(queue)
  /\ \A t \in Tickets : submitted[t] = "no" <=> outcome[t] = "none"

QueueInv == TypeOK /\ WorkerOK /\ PromisesOK /\ CancelledNeverRuns

-----------------------------------------------------------------------------
(* What Append and Tail do to the members of a queue.                       *)

LEMMA EmptyMembers == ToSet(<<>>) = {} /\ Distinct(<<>>)
  BY DEF ToSet, Distinct

LEMMA AppendMembers ==
  ASSUME NEW S, NEW q \in Seq(S), NEW t \in S
  PROVE  /\ Append(q, t) \in Seq(S)
         /\ ToSet(Append(q, t)) = ToSet(q) \cup {t}
         /\ Distinct(q) /\ t \notin ToSet(q) => Distinct(Append(q, t))
<1>1. /\ Append(q, t) \in Seq(S)
      /\ DOMAIN q = 1..Len(q) /\ DOMAIN Append(q, t) = 1..(Len(q) + 1) /\ Len(q) \in Nat
      /\ \A i \in 1..Len(q) : Append(q, t)[i] = q[i]
      /\ Append(q, t)[Len(q) + 1] = t
  OBVIOUS
<1>2. ToSet(Append(q, t)) = ToSet(q) \cup {t}
  BY <1>1 DEF ToSet
<1>3. ASSUME Distinct(q), t \notin ToSet(q) PROVE Distinct(Append(q, t))
  <2>1. \A i \in 1..Len(q) : q[i] # t
    BY <1>1, <1>3 DEF ToSet
  <2>2. ASSUME NEW i \in 1..(Len(q) + 1), NEW j \in 1..(Len(q) + 1),
               Append(q, t)[i] = Append(q, t)[j]
        PROVE  i = j
    <3>1. CASE i \in 1..Len(q) /\ j \in 1..Len(q)
      BY <1>1, <1>3, <2>2, <3>1 DEF Distinct
    <3>2. CASE i = Len(q) + 1 \/ j = Len(q) + 1
      BY <1>1, <2>1, <2>2, <3>2
    <3> QED  BY <1>1, <3>1, <3>2
  <2> QED  BY <1>1, <2>2 DEF Distinct
<1> QED  BY <1>1, <1>2, <1>3

LEMMA TailMembers ==
  ASSUME NEW S, NEW q \in Seq(S), q # <<>>
  PROVE  /\ Head(q) \in S /\ Tail(q) \in Seq(S)
         /\ ToSet(q) = ToSet(Tail(q)) \cup {Head(q)}
         /\ Distinct(q) => Distinct(Tail(q)) /\ Head(q) \notin ToSet(Tail(q))
<1> DEFINE r == Tail(q)
<1>1. /\ Head(q) \in S /\ r \in Seq(S)
      /\ Len(q) \in Nat /\ Len(q) >= 1 /\ Len(r) = Len(q) - 1
      /\ DOMAIN q = 1..Len(q) /\ DOMAIN r = 1..(Len(q) - 1)
      /\ Head(q) = q[1]
      /\ \A i \in 1..(Len(q) - 1) : r[i] = q[i + 1]
  OBVIOUS
<1> HIDE DEF r
<1>2. ASSUME NEW x PROVE x \in ToSet(q) <=> x \in ToSet(r) \/ x = Head(q)
  <2>1. ASSUME NEW i \in 1..Len(q), x = q[i] PROVE x \in ToSet(r) \/ x = Head(q)
    <3>1. CASE i = 1
      BY <1>1, <2>1, <3>1
    <3>2. CASE i # 1
      <4>1. i - 1 \in 1..(Len(q) - 1) /\ (i - 1) + 1 = i
        BY <1>1, <3>2
      <4>2. r[i - 1] = x
        BY <1>1, <2>1, <4>1
      <4> QED  BY <1>1, <4>1, <4>2 DEF ToSet
    <3> QED  BY <3>1, <3>2
  <2>2. ASSUME NEW i \in 1..(Len(q) - 1), x = r[i] PROVE x \in ToSet(q)
    <3>1. i + 1 \in 1..Len(q)
      BY <1>1
    <3> QED  BY <1>1, <2>2, <3>1 DEF ToSet
  <2>3. Head(q) \in ToSet(q)
    <3>1. 1 \in 1..Len(q)
      BY <1>1
    <3> QED  BY <1>1, <3>1 DEF ToSet
  <2> QED  BY <1>1, <2>1, <2>2, <2>3 DEF ToSet
<1>3. ASSUME Distinct(q) PROVE Distinct(r) /\ Head(q) \notin ToSet(r)
  <2>1. \A i \in 1..(Len(q) - 1) : i + 1 \in 1..Len(q) /\ i + 1 # 1
    BY <1>1
  <2>2. ASSUME NEW i \in 1..(Len(q) - 1), NEW j \in 1..(Len(q) - 1), r[i] = r[j]
        PROVE  i = j
    <3>1. i + 1 = j + 1
      BY <1>1, <1>3, <2>1, <2>2 DEF Distinct
    <3> QED  BY <3>1
  <2>3. \A i \in 1..(Len(q) - 1) : r[i] # q[1]
    <3>1. 1 \in 1..Len(q)
      BY <1>1
    <3> QED  BY <1>1, <1>3, <2>1, <3>1 DEF Distinct
  <2> QED  BY <1>1, <2>2, <2>3 DEF Distinct, ToSet
<1>4. ToSet(q) = ToSet(r) \cup {Head(q)}
  BY <1>2
<1> QED  BY <1>1, <1>3, <1>4 DEF r

-----------------------------------------------------------------------------
LEMMA QueueInit == Init => QueueInv
<1> SUFFICES ASSUME Init PROVE QueueInv
  OBVIOUS
<1>1. TypeOK
  <2>1. queue \in Seq(Tickets)
    BY DEF Init
  <2>2. outcome \in [Tickets -> Outcomes] /\ submitted \in [Tickets -> {"no", "pushed", "done"}]
    BY DEF Init, Outcomes
  <2> QED  BY <2>1, <2>2 DEF Init, TypeOK, WorkerSteps
<1>2. WorkerOK /\ CancelledNeverRuns
  BY DEF Init, WorkerOK, CancelledNeverRuns
<1>3. PromisesOK
  BY EmptyMembers, TicketsAssumption DEF Init, PromisesOK
<1> QED  BY <1>1, <1>2, <1>3 DEF QueueInv

(* A step of the worker that only moves on.                                 *)
LEMMA GotoInv ==
  ASSUME QueueInv, NEW step \in WorkerSteps \ {"slot", "ended"}, Goto(step),
         step = "running" => worker = "slot" /\ current \notin cancelled,
         step # "running" => current = NoTicket,
         step = "pop" => queue # <<>> \/ stop,
         step = "clear" => stop
  PROVE  QueueInv'
<1> USE TicketsAssumption DEF QueueInv
<1>1. TypeOK'
  BY DEF Goto, TypeOK
<1>2. WorkerOK'
  BY DEF Goto, WorkerOK, WorkerSteps
<1>3. PromisesOK'
  BY DEF Goto, PromisesOK
<1>4. CancelledNeverRuns'
  BY DEF Goto, CancelledNeverRuns, TypeOK
<1> QED  BY <1>1, <1>2, <1>3, <1>4

(* The worker settles the slot it holds.                                    *)
LEMMA SettledInv ==
  ASSUME QueueInv, worker \in {"slot", "running"},
         NEW o \in {"value", "error", "broken"}, Settled(o),
         current \in cancelled => o = "broken"
  PROVE  QueueInv'
<1> USE TicketsAssumption DEF QueueInv
<1>1. current \in Tickets /\ current # NoTicket
  BY DEF TypeOK, WorkerOK
<1>2. TypeOK'
  BY <1>1 DEF Settled, TypeOK, Outcomes, WorkerSteps
<1>3. WorkerOK'
  BY DEF Settled, WorkerOK
<1>4. PromisesOK'
  <2>1. \A t \in Tickets : outcome'[t] = IF t = current THEN o ELSE outcome[t]
    BY <1>1 DEF Settled, TypeOK
  <2>2. NoTicket \notin ToSet(queue)
    BY DEF TypeOK, ToSet
  <2> QED  BY <1>1, <2>1, <2>2 DEF Settled, PromisesOK
<1>5. CancelledNeverRuns'
  BY <1>1 DEF Settled, CancelledNeverRuns, TypeOK
<1> QED  BY <1>2, <1>3, <1>4, <1>5

LEMMA QueueStep == QueueInv /\ [Next]_vars => QueueInv'
<1> SUFFICES ASSUME QueueInv, [Next]_vars PROVE QueueInv'
  OBVIOUS
<1> USE TicketsAssumption
<1>0. TypeOK /\ WorkerOK /\ PromisesOK /\ CancelledNeverRuns /\ NoTicket \notin ToSet(queue)
  BY DEF QueueInv, TypeOK, ToSet
<1>1. ASSUME NEW t \in Tickets, Push(t) PROVE QueueInv'
  <2>1. outcome[t] # "pending" => t \notin ToSet(queue) /\ t # current
    BY <1>0 DEF PromisesOK
  <2>2. outcome[t] = "none"
    BY <1>0, <1>1 DEF Push, PromisesOK
  <2>3. /\ queue' \in Seq(Tickets)
        /\ ToSet(queue') = ToSet(queue) \cup {t}
        /\ Distinct(queue')
    BY <1>0, <1>1, <2>1, <2>2, AppendMembers DEF Push, TypeOK, PromisesOK
  <2>4. TypeOK'
    BY <1>0, <1>1, <2>3 DEF Push, TypeOK, Outcomes
  <2>5. WorkerOK'
    BY <1>0, <1>1 DEF Push, WorkerOK, MuHeld
  <2>6. PromisesOK'
    BY <1>0, <1>1, <2>1, <2>2, <2>3 DEF Push, PromisesOK, TypeOK
  <2>7. CancelledNeverRuns'
    BY <1>0, <1>1 DEF Push, CancelledNeverRuns, TypeOK
  <2> QED  BY <2>4, <2>5, <2>6, <2>7 DEF QueueInv
<1>2. ASSUME NEW t \in Tickets, NotifyOne(t) PROVE QueueInv'
  <2>1. TypeOK'
    BY <1>0, <1>2 DEF NotifyOne, Woken, TypeOK, WorkerSteps
  <2>2. WorkerOK'
    BY <1>0, <1>2 DEF NotifyOne, Woken, WorkerOK
  <2>3. PromisesOK' /\ CancelledNeverRuns'
    BY <1>0, <1>2 DEF NotifyOne, Woken, PromisesOK, CancelledNeverRuns
  <2> QED  BY <2>1, <2>2, <2>3 DEF QueueInv
<1>3. ASSUME NEW t \in Tickets, Cancel(t) PROVE QueueInv'
  <2>1. outcome[t] = "pending" /\ t # current
    BY <1>0, <1>3 DEF Cancel, PromisesOK
  <2>2. TypeOK' /\ WorkerOK' /\ PromisesOK'
    BY <1>0, <1>3 DEF Cancel, TypeOK, WorkerOK, PromisesOK
  <2>3. CancelledNeverRuns'
    BY <1>0, <1>3, <2>1 DEF Cancel, CancelledNeverRuns
  <2> QED  BY <2>2, <2>3 DEF QueueInv
<1>4. ASSUME LoopTest PROVE QueueInv'
  BY <1>0, <1>4, GotoInv DEF LoopTest, WorkerOK, WorkerSteps
<1>5. ASSUME Lock PROVE QueueInv'
  BY <1>0, <1>5, GotoInv DEF Lock, WorkerOK, WorkerSteps
<1>6. ASSUME WaitTest PROVE QueueInv'
  BY <1>0, <1>6, GotoInv DEF WaitTest, WorkerOK, WorkerSteps
<1>7. ASSUME Sleep PROVE QueueInv'
  BY <1>0, <1>7, GotoInv DEF Sleep, WorkerOK, WorkerSteps
<1>8. ASSUME SpuriousWake PROVE QueueInv'
  BY <1>0, <1>8, GotoInv DEF SpuriousWake, WorkerOK, WorkerSteps
<1>9. ASSUME PopFront PROVE QueueInv'
  <2>1. queue \in Seq(Tickets) /\ queue # <<>> /\ current = NoTicket
    BY <1>0, <1>9 DEF PopFront, TypeOK, WorkerOK
  <2>2. /\ current' \in Tickets /\ queue' \in Seq(Tickets)
        /\ ToSet(queue) = ToSet(queue') \cup {current'}
        /\ Distinct(queue') /\ current' \notin ToSet(queue')
    BY <1>0, <1>9, <2>1, TailMembers DEF PopFront, PromisesOK
  <2>3. TypeOK'
    BY <1>0, <1>9, <2>2 DEF PopFront, TypeOK, WorkerSteps
  <2>4. WorkerOK'
    BY <1>0, <1>9, <2>2 DEF PopFront, WorkerOK
  <2>5. PromisesOK'
    BY <1>0, <1>9, <2>1, <2>2 DEF PopFront, PromisesOK
  <2>6. CancelledNeverRuns'
    BY <1>0, <1>9 DEF PopFront, CancelledNeverRuns
  <2> QED  BY <2>3, <2>4, <2>5, <2>6 DEF QueueInv
<1>10. ASSUME StopInsteadOfPop PROVE QueueInv'
  BY <1>0, <1>10, GotoInv DEF StopInsteadOfPop, WorkerOK, WorkerSteps
<1>11. ASSUME DropCancelled PROVE QueueInv'
  BY <1>11, SettledInv DEF DropCancelled
<1>12. ASSUME StartHandler PROVE QueueInv'
  BY <1>12, GotoInv DEF StartHandler, WorkerSteps
<1>13. ASSUME HandlerEnds PROVE QueueInv'
  <2>1. PICK o \in {"value", "error"} : Settled(o)
    BY <1>13 DEF HandlerEnds
  <2>2. worker = "running" /\ current \notin cancelled
    BY <1>0, <1>13 DEF HandlerEnds, CancelledNeverRuns, TypeOK
  <2> QED  BY <2>1, <2>2, SettledInv
<1>14. ASSUME ClearQueue PROVE QueueInv'
  <2>1. current = NoTicket /\ queue' = <<>> /\ worker' = "ended"
    BY <1>0, <1>14 DEF ClearQueue, WorkerOK
  <2>2. \A t \in Tickets : outcome'[t] = IF t \in ToSet(queue) THEN "broken" ELSE outcome[t]
    BY <1>14 DEF ClearQueue
  <2>3. TypeOK'
    BY <1>0, <1>14 DEF ClearQueue, TypeOK, Outcomes, WorkerSteps
  <2>4. WorkerOK'
    BY <1>0, <1>14, <2>1 DEF ClearQueue, WorkerOK
  <2>5. PromisesOK'
    BY <1>0, <1>14, <2>1, <2>2, EmptyMembers DEF ClearQueue, PromisesOK
  <2>6. CancelledNeverRuns'
    BY <1>0, <1>14, <2>1, <2>2 DEF ClearQueue, CancelledNeverRuns, TypeOK
  <2> QED  BY <2>3, <2>4, <2>5, <2>6 DEF QueueInv
<1>15. ASSUME RequestStop \/ NotifyAll \/ Join PROVE QueueInv'
  <2>1. TypeOK'
    BY <1>0, <1>15 DEF RequestStop, NotifyAll, Join, Woken, TypeOK, WorkerSteps
  <2>2. WorkerOK'
    BY <1>0, <1>15 DEF RequestStop, NotifyAll, Join, Woken, WorkerOK, TypeOK
  <2>3. PromisesOK' /\ CancelledNeverRuns'
    BY <1>0, <1>15 DEF RequestStop, NotifyAll, Join, Woken, PromisesOK, CancelledNeverRuns
  <2> QED  BY <2>1, <2>2, <2>3 DEF QueueInv
<1>16. ASSUME UNCHANGED vars PROVE QueueInv'
  BY <1>0, <1>16 DEF vars, QueueInv, TypeOK, WorkerOK, PromisesOK, CancelledNeverRuns
<1> QED
  BY <1>1, <1>2, <1>3, <1>4, <1>5, <1>6, <1>7, <1>8, <1>9, <1>10, <1>11, <1>12, <1>13,
     <1>14, <1>15, <1>16 DEF Next, WorkerStep
LEMMA PromisesAreHeld == QueueInv => PendingIsHeld
<1> SUFFICES ASSUME QueueInv, NEW t \in Tickets
             PROVE  /\ outcome[t] = "pending" <=> t \in ToSet(queue) \cup {current}
                    /\ t \in ToSet(queue) => t # current
                    /\ \A i, j \in DOMAIN queue : queue[i] = t /\ queue[j] = t => i = j
                    /\ worker = "ended" => outcome[t] # "pending"
  BY DEF PendingIsHeld
<1> USE TicketsAssumption, EmptyMembers DEF QueueInv
<1>1. /\ outcome[t] = "pending" <=> t \in ToSet(queue) \/ t = current
      /\ current \notin ToSet(queue)
      /\ Distinct(queue)
  BY DEF PromisesOK
<1>2. worker = "ended" => queue = <<>> /\ current = NoTicket
  BY DEF WorkerOK
<1> QED  BY <1>1, <1>2 DEF Distinct

(* The tables of the queue stay well typed.                                 *)
THEOREM QueueTypeCorrect == Spec => []TypeOK
<1>1. QueueInv => TypeOK
  BY DEF QueueInv
<1> QED  BY <1>1, QueueInit, QueueStep, PTL DEF Spec

(* Every promise is settled or has exactly one slot that will settle it.    *)
THEOREM NoPromiseLost == Spec => []PendingIsHeld
<1> QED  BY PromisesAreHeld, QueueInit, QueueStep, PTL DEF Spec

(* A slot that cancel found never reaches the handler.                      *)
THEOREM CancelIsFinal == Spec => []CancelledNeverRuns
<1>1. QueueInv => CancelledNeverRuns
  BY DEF QueueInv
<1> QED  BY <1>1, QueueInit, QueueStep, PTL DEF Spec

-----------------------------------------------------------------------------
(* Sleeping: the predicate was false when mu_ was last held, and whoever    *)
(* pushed since owes a notification.                                        *)
SleepInv == NoSleepOnWork /\ (worker = "sleep" => queue = <<>>)

LEMMA SleepStep == QueueInv /\ SleepInv /\ [Next]_vars => SleepInv'
<1> SUFFICES ASSUME QueueInv, SleepInv, [Next]_vars PROVE SleepInv'
  OBVIOUS
<1>0. submitted \in [Tickets -> {"no", "pushed", "done"}]
  BY DEF QueueInv, TypeOK
<1> USE DEF SleepInv, NoSleepOnWork
<1>1. ASSUME NEW t \in Tickets, Push(t) PROVE SleepInv'
  BY <1>0, <1>1 DEF Push, MuHeld
<1>2. ASSUME NEW t \in Tickets, NotifyOne(t) PROVE SleepInv'
  BY <1>2 DEF NotifyOne, Woken
<1>3. ASSUME NEW t \in Tickets, Cancel(t) PROVE SleepInv'
  BY <1>3 DEF Cancel
<1>4. ASSUME LoopTest \/ Lock \/ WaitTest \/ Sleep \/ SpuriousWake \/ StopInsteadOfPop
             \/ StartHandler
      PROVE  SleepInv'
  BY <1>4 DEF LoopTest, Lock, WaitTest, Sleep, SpuriousWake, StopInsteadOfPop, StartHandler,
              Goto
<1>5. ASSUME PopFront \/ DropCancelled \/ HandlerEnds \/ ClearQueue PROVE SleepInv'
  BY <1>5 DEF PopFront, DropCancelled, HandlerEnds, ClearQueue, Settled
<1>6. ASSUME RequestStop \/ NotifyAll \/ Join PROVE SleepInv'
  BY <1>6 DEF RequestStop, NotifyAll, Join, Woken
<1>7. ASSUME UNCHANGED vars PROVE SleepInv'
  BY <1>7 DEF vars
<1> QED  BY <1>1, <1>2, <1>3, <1>4, <1>5, <1>6, <1>7 DEF Next, WorkerStep

(* The worker is never asleep with work queued and no notification to come. *)
THEOREM WorkerIsWoken == Spec => []NoSleepOnWork
<1>1. Init => SleepInv
  BY DEF Init, SleepInv, NoSleepOnWork
<1>2. SleepInv => NoSleepOnWork
  BY DEF SleepInv
<1> QED  BY <1>1, <1>2, QueueInit, QueueStep, SleepStep, PTL DEF Spec

-----------------------------------------------------------------------------
(* Every step of a thread is a step of the abstract queue or stutters.      *)
LEMMA QueueRefines == QueueInv /\ [Next]_vars => [Ideal!Next]_(Ideal!vars)
<1> SUFFICES ASSUME QueueInv, [Next]_vars PROVE [Ideal!Next]_(Ideal!vars)
  OBVIOUS
<1> USE TicketsAssumption DEF Ideal!vars
<1>0. TypeOK /\ WorkerOK /\ PromisesOK /\ CancelledNeverRuns
  BY DEF QueueInv
<1>1. ASSUME NEW t \in Tickets, Push(t) PROVE Ideal!Next
  BY <1>0, <1>1 DEF Push, PromisesOK, Ideal!Next, Ideal!Submit
<1>2. ASSUME NEW t \in Tickets, Cancel(t) PROVE Ideal!Next
  BY <1>2 DEF Cancel, ToSet, Ideal!Next, Ideal!Cancel, Ideal!ToSet
<1>3. ASSUME PopFront PROVE Ideal!Next
  BY <1>0, <1>3 DEF PopFront, WorkerOK, Ideal!Next, Ideal!Take
<1>4. ASSUME DropCancelled PROVE Ideal!Next
  BY <1>0, <1>4 DEF DropCancelled, Settled, WorkerOK, Ideal!Next, Ideal!Drop, Ideal!Settle
<1>5. ASSUME HandlerEnds PROVE Ideal!Next
  <2>1. PICK o \in {"value", "error"} : Settled(o)
    BY <1>5 DEF HandlerEnds
  <2>2. current \in Tickets /\ current # NoTicket /\ current \notin cancelled
    BY <1>0, <1>5 DEF HandlerEnds, WorkerOK, CancelledNeverRuns, TypeOK
  <2>3. Ideal!Finish(o)
    BY <2>1, <2>2 DEF Settled, Ideal!Finish, Ideal!Settle
  <2> QED  BY <2>3 DEF Ideal!Next
<1>6. ASSUME ClearQueue PROVE Ideal!Next
  BY <1>0, <1>6 DEF ClearQueue, WorkerOK, ToSet, Ideal!Next, Ideal!Abandon, Ideal!ToSet
<1>7. ASSUME LoopTest \/ Lock \/ WaitTest \/ Sleep \/ SpuriousWake \/ StopInsteadOfPop
             \/ StartHandler
      PROVE  UNCHANGED Ideal!vars
  BY <1>7 DEF LoopTest, Lock, WaitTest, Sleep, SpuriousWake, StopInsteadOfPop, StartHandler,
              Goto
<1>8. ASSUME NEW t \in Tickets, NotifyOne(t) PROVE UNCHANGED Ideal!vars
  BY <1>8 DEF NotifyOne
<1>9. ASSUME RequestStop \/ NotifyAll \/ Join \/ UNCHANGED vars PROVE UNCHANGED Ideal!vars
  BY <1>9 DEF RequestStop, NotifyAll, Join, vars
<1> QED
  BY <1>1, <1>2, <1>3, <1>4, <1>5, <1>6, <1>7, <1>8, <1>9 DEF Next, WorkerStep

(* The queue with its lock, its condition variable and its two-step submit  *)
(* implements the abstract queue.                                           *)
THEOREM QueueImplements == Spec => ImplementsQueue
<1>1. Init => Ideal!Init
  BY DEF Init, Ideal!Init
<1> QED
  BY <1>1, QueueInit, QueueStep, QueueRefines, PTL DEF Spec, ImplementsQueue, Ideal!Spec
=============================================================================
