---------------------------- MODULE EditorProofs ----------------------------
(***************************************************************************)
(* Safety of the document editor (Editor), for any documents, any bound of *)
(* the undo stack and any number of gestures and calls of the host.        *)
(*                                                                         *)
(* First induction, the undo stack (a log with a position in it), and what *)
(* the operations on a tree of blocks return.  Then the messages of the    *)
(* reducer: a message of the page or of a panel that writes does Work on   *)
(* the store, and Work is closed under composition, so that a handler of   *)
(* several messages is one step of the undo log.  Then EditorInv, action   *)
(* by action.                                                              *)
(***************************************************************************)
EXTENDS Editor, SequenceTheorems, WellFoundedInduction, TLAPS

-----------------------------------------------------------------------------
(* Induction over the naturals.                                              *)

(* A set of naturals has a least element.                                    *)
LEMMA Least ==
  ASSUME NEW T \in SUBSET Nat, T # {}
  PROVE  \E n \in T : \A m \in T : n <= m
<1>. DEFINE R == OpToRel(<, Nat)
<1>1. IsWellFoundedOn(R, Nat)
  BY NatLessThanWellFounded
<1>2. \A m, n \in Nat : m < n => <<m, n>> \in R
  BY DEF OpToRel
<1>. HIDE DEF R
<1>3. PICK n \in T : \A m \in T : <<m, n>> \notin R
  BY <1>1, WFMin
<1>4. ASSUME NEW m \in T PROVE n <= m
  <2>1. m \in Nat /\ n \in Nat
    OBVIOUS
  <2>2. <<m, n>> \notin R
    BY <1>3
  <2>3. ~(m < n)
    BY <1>2, <2>1, <2>2
  <2>. QED BY <2>1, <2>3
<1>. QED BY <1>4

(* A set of naturals below a bound has a greatest element.                   *)
LEMMA Greatest ==
  ASSUME NEW n \in Nat, NEW T \in SUBSET (0 .. n), T # {}
  PROVE  \E k \in T : \A m \in T : m <= k
<1>. DEFINE below == {i \in Nat : \A m \in T : m <= i}
<1>1. below \in SUBSET Nat /\ n \in below
  OBVIOUS
<1>2. PICK k \in below : \A i \in below : k <= i
  <2>. HIDE DEF below
  <2>. QED BY <1>1, Least
<1>3. k \in T
  <2>. SUFFICES ASSUME k \notin T PROVE FALSE
    OBVIOUS
  <2>1. PICK m \in T : TRUE
    OBVIOUS
  <2>2. \A j \in T : j <= k /\ j # k /\ j \in Nat
    OBVIOUS
  <2>3. k - 1 \in below
    BY <2>1, <2>2
  <2>. QED BY <1>2, <2>3
<1>. QED BY <1>3

(* Induction from 0 to n, over a set.                                          *)
LEMMA UpTo ==
  ASSUME NEW n \in Nat, NEW G, 0 \in G, \A m \in 1 .. n : m - 1 \in G => m \in G
  PROVE  \A m \in 0 .. n : m \in G
<1>. DEFINE bad == (0 .. n) \ G
<1>. SUFFICES ASSUME bad # {} PROVE FALSE
  OBVIOUS
<1>0. bad \in SUBSET Nat
  OBVIOUS
<1>1. PICK m \in bad : \A l \in bad : m <= l
  <2>. HIDE DEF bad
  <2>. QED BY <1>0, Least
<1>2. m \in 0 .. n /\ m \notin G /\ m # 0
  OBVIOUS
<1>3. m \in 1 .. n /\ m - 1 \in 0 .. n /\ ~(m <= m - 1)
  BY <1>2
<1>4. m - 1 \in G
  BY <1>1, <1>3
<1>. QED BY <1>2, <1>3, <1>4

(* The values of a recursion: `step' takes a place and the value before it.    *)
Recurs(f, step, x, m) ==
  \A k \in 0 .. m : f[k] = IF k = 0 THEN x ELSE step[<<k, f[k - 1]>>]

LEMMA RecursionExists ==
  ASSUME NEW n \in Nat, NEW T, NEW x \in T, NEW step \in [(1 .. n) \X T -> T]
  PROVE  \E f \in [0 .. n -> T] : Recurs(f, step, x, n)
<1>. DEFINE G == {m \in Nat : m <= n => \E f \in [0 .. m -> T] : Recurs(f, step, x, m)}
<1>1. 0 \in G
  <2>. DEFINE f == [k \in 0 .. 0 |-> x]
  <2>1. f \in [0 .. 0 -> T] /\ Recurs(f, step, x, 0)
    BY DEF Recurs
  <2>. QED BY <2>1
<1>2. ASSUME NEW m \in 1 .. n, m - 1 \in G PROVE m \in G
  <2>1. PICK f \in [0 .. m - 1 -> T] : Recurs(f, step, x, m - 1)
    BY <1>2
  <2>. DEFINE g == [k \in 0 .. m |-> IF k = m THEN step[<<m, f[m - 1]>>] ELSE f[k]]
  <2>2. f[m - 1] \in T /\ <<m, f[m - 1]>> \in (1 .. n) \X T
    BY <1>2
  <2>3. step[<<m, f[m - 1]>>] \in T
    BY <2>2
  <2>4. g \in [0 .. m -> T]
    <3>1. \A k \in 0 .. m : k # m => k \in 0 .. m - 1
      BY <1>2
    <3>. QED BY <2>3, <3>1
  <2>5. ASSUME NEW k \in 0 .. m PROVE g[k] = IF k = 0 THEN x ELSE step[<<k, g[k - 1]>>]
    <3>1. CASE k = m
      BY <1>2, <3>1
    <3>2. CASE k # m
      <4>1. /\ k \in 0 .. m - 1
            /\ k # 0 => k - 1 \in 0 .. m /\ k - 1 # m
        BY <1>2, <3>2
      <4>2. f[k] = IF k = 0 THEN x ELSE step[<<k, f[k - 1]>>]
        BY <2>1, <4>1 DEF Recurs
      <4>. QED BY <3>2, <4>1, <4>2
    <3>. QED BY <3>1, <3>2
  <2>. HIDE DEF g
  <2>. QED BY <2>4, <2>5 DEF Recurs
<1>3. \A m \in 0 .. n : m \in G
  <2>. HIDE DEF G
  <2>. QED BY <1>1, <1>2, UpTo
<1>. QED BY <1>3

-----------------------------------------------------------------------------
(* The undo stack.                                                           *)

Stacks(S) == [past : Seq(S), present : S, future : Seq(S)]

At(s) == Len(s.past) + 1

\* What a push drops of the past.
Over(s, n) == IF Len(s.past) + 1 > n THEN Len(s.past) + 1 - n ELSE 0

(* The newest n of a sequence are the sequence without its oldest.             *)
LEMMA Newest ==
  ASSUME NEW S, NEW s \in Seq(S), NEW n \in Nat \ {0}
  PROVE  LET d == IF Len(s) > n THEN Len(s) - n ELSE 0
         IN  /\ LastOf(s, n) \in Seq(S)
             /\ Len(LastOf(s, n)) = Len(s) - d
             /\ \A i \in 1 .. Len(s) - d : LastOf(s, n)[i] = s[i + d]
<1>1. CASE Len(s) > n
  BY <1>1 DEF LastOf
<1>2. CASE ~(Len(s) > n)
  BY <1>2 DEF LastOf
<1>. QED BY <1>1, <1>2

-----------------------------------------------------------------------------
(* The parts of a stack, and of the stacks the operations make of it.          *)
LEMMA Pushed ==
  ASSUME NEW S, NEW s \in Stacks(S), NEW x \in S, NEW n \in Nat \ {0}
  PROVE  /\ PushHistory(s, x, n) \in Stacks(S)
         /\ PushHistory(s, x, n).present = x /\ PushHistory(s, x, n).future = << >>
         /\ Len(PushHistory(s, x, n).past) = Len(s.past) + 1 - Over(s, n)
         /\ \A i \in 1 .. Len(s.past) + 1 - Over(s, n) :
              PushHistory(s, x, n).past[i] =
                IF i + Over(s, n) <= Len(s.past) THEN s.past[i + Over(s, n)] ELSE s.present
<1>. DEFINE all == Append(s.past, s.present)
            d == IF Len(s.past) + 1 > n THEN Len(s.past) + 1 - n ELSE 0
<1>1. /\ all \in Seq(S) /\ Len(all) = Len(s.past) + 1
      /\ \A i \in 1 .. Len(all) : all[i] = IF i <= Len(s.past) THEN s.past[i] ELSE s.present
  BY DEF Stacks
<1>4. Len(s.past) \in Nat /\ d \in Nat
  BY DEF Stacks
<1>. HIDE DEF all
<1>2. /\ LastOf(all, n) \in Seq(S)
      /\ Len(LastOf(all, n)) = Len(s.past) + 1 - d
      /\ \A i \in 1 .. Len(s.past) + 1 - d : LastOf(all, n)[i] = all[i + d]
  <2>. DEFINE e == IF Len(all) > n THEN Len(all) - n ELSE 0
  <2>1. /\ LastOf(all, n) \in Seq(S)
        /\ Len(LastOf(all, n)) = Len(all) - e
        /\ \A i \in 1 .. Len(all) - e : LastOf(all, n)[i] = all[i + e]
    BY <1>1, Newest
  <2>2. Len(all) = Len(s.past) + 1 /\ e = d
    BY <1>1
  <2>3. Len(all) - e = Len(s.past) + 1 - d
    BY <2>2
  <2>. HIDE DEF e, d
  <2>. QED BY <2>1, <2>2, <2>3
<1>3. PushHistory(s, x, n) = [past |-> LastOf(all, n), present |-> x, future |-> << >>]
  BY DEF PushHistory, all
<1>5. ASSUME NEW i \in 1 .. Len(s.past) + 1 - d
      PROVE  LastOf(all, n)[i] = IF i + d <= Len(s.past) THEN s.past[i + d] ELSE s.present
  <2>1. i + d \in 1 .. Len(all)
    BY <1>1, <1>4
  <2>. QED BY <1>1, <1>2, <2>1
<1>6. Over(s, n) = d
  BY DEF Over
<1>. HIDE DEF d
<1>. QED BY <1>2, <1>3, <1>5, <1>6 DEF Stacks

LEMMA Undone ==
  ASSUME NEW S, NEW s \in Stacks(S), CanUndo(s)
  PROVE  LET t == UndoHistory(s)
         IN  /\ t \in Stacks(S) /\ t.present = s.past[Len(s.past)]
             /\ Len(t.past) = Len(s.past) - 1
             /\ \A i \in 1 .. Len(s.past) - 1 : t.past[i] = s.past[i]
             /\ Len(t.future) = Len(s.future) + 1
             /\ t.future[1] = s.present
             /\ \A i \in 1 .. Len(s.future) : t.future[i + 1] = s.future[i]
<1>. DEFINE before == SubSeq(s.past, 1, Len(s.past) - 1)
            after == <<s.present>> \o s.future
<1>1. UndoHistory(s) = [past |-> before, present |-> s.past[Len(s.past)], future |-> after]
  BY DEF UndoHistory
<1>2. s.past \in Seq(S) /\ s.future \in Seq(S) /\ s.present \in S /\ Len(s.past) > 0
  BY DEF Stacks, CanUndo
<1>3. /\ before \in Seq(S) /\ Len(before) = Len(s.past) - 1
      /\ \A i \in 1 .. Len(s.past) - 1 : before[i] = s.past[i]
  BY <1>2
<1>4. /\ after \in Seq(S) /\ Len(after) = Len(s.future) + 1
      /\ after[1] = s.present
      /\ \A i \in 1 .. Len(s.future) : after[i + 1] = s.future[i]
  BY <1>2
<1>5. s.past[Len(s.past)] \in S
  BY <1>2
<1>. HIDE DEF before, after
<1>. QED BY <1>1, <1>3, <1>4, <1>5 DEF Stacks

LEMMA Redone ==
  ASSUME NEW S, NEW s \in Stacks(S), CanRedo(s)
  PROVE  LET t == RedoHistory(s)
         IN  /\ t \in Stacks(S) /\ t.present = s.future[1]
             /\ Len(t.past) = Len(s.past) + 1
             /\ t.past[Len(s.past) + 1] = s.present
             /\ \A i \in 1 .. Len(s.past) : t.past[i] = s.past[i]
             /\ Len(t.future) = Len(s.future) - 1
             /\ \A i \in 1 .. Len(s.future) - 1 : t.future[i] = s.future[i + 1]
<1>. DEFINE before == Append(s.past, s.present)
            after == Tail(s.future)
<1>1. RedoHistory(s) = [past |-> before, present |-> Head(s.future), future |-> after]
  BY DEF RedoHistory
<1>2. s.past \in Seq(S) /\ s.future \in Seq(S) /\ s.present \in S /\ Len(s.future) > 0
  BY DEF Stacks, CanRedo
<1>3. /\ before \in Seq(S) /\ Len(before) = Len(s.past) + 1
      /\ before[Len(s.past) + 1] = s.present
      /\ \A i \in 1 .. Len(s.past) : before[i] = s.past[i]
  BY <1>2
<1>4. /\ after \in Seq(S) /\ Len(after) = Len(s.future) - 1
      /\ \A i \in 1 .. Len(s.future) - 1 : after[i] = s.future[i + 1]
  BY <1>2
<1>5. Head(s.future) = s.future[1] /\ s.future[1] \in S
  BY <1>2
<1>. HIDE DEF before, after
<1>. QED BY <1>1, <1>3, <1>4, <1>5 DEF Stacks

LEMMA Created ==
  ASSUME NEW S, NEW x \in S
  PROVE  /\ CreateHistory(x) \in Stacks(S)
         /\ Len(CreateHistory(x).past) = 0 /\ Len(CreateHistory(x).future) = 0
BY DEF CreateHistory, Stacks

-----------------------------------------------------------------------------
(* The log and the position: one entry for every snapshot.                     *)
LEMMA FunctionIsSeq ==
  ASSUME NEW S, NEW n \in Nat, NEW f \in [1 .. n -> S]
  PROVE  f \in Seq(S) /\ Len(f) = n
<1>1. f \in Seq(S)
  BY SeqDef
<1>2. Len(f) \in Nat /\ DOMAIN f = 1 .. Len(f) /\ DOMAIN f = 1 .. n
  BY <1>1, LenProperties
<1>3. Len(f) = n
  BY <1>2
<1>. QED BY <1>1, <1>3

LEMMA LogEntries ==
  ASSUME NEW S, NEW s \in Stacks(S)
  PROVE  /\ Len(s.past) \in Nat /\ Len(s.future) \in Nat
         /\ Len(HistoryLog(s)) = Len(s.past) + 1 + Len(s.future)
         /\ \A i \in 1 .. Len(s.past) : HistoryLog(s)[i] = s.past[i]
         /\ HistoryLog(s)[Len(s.past) + 1] = s.present
         /\ \A i \in 1 .. Len(s.future) : HistoryLog(s)[Len(s.past) + 1 + i] = s.future[i]
<1>. DEFINE p == s.past
            f == s.future
            n == Len(p) + 1 + Len(f)
<1>1. /\ p \in Seq(S) /\ f \in Seq(S) /\ s.present \in S
      /\ Len(p) \in Nat /\ Len(f) \in Nat
  BY DEF Stacks
<1>. HIDE DEF p, f
<1>2. HistoryLog(s) = [i \in 1 .. n |-> IF i <= Len(p) THEN p[i]
                             ELSE IF i = Len(p) + 1 THEN s.present ELSE f[i - Len(p) - 1]]
  BY DEF HistoryLog, p, f
<1>3. HistoryLog(s) \in [1 .. n -> S]
  <2>1. ASSUME NEW i \in 1 .. n, i > Len(p), i # Len(p) + 1 PROVE i - Len(p) - 1 \in 1 .. Len(f)
    BY <1>1, <2>1
  <2>2. ASSUME NEW i \in 1 .. n, i <= Len(p) PROVE i \in 1 .. Len(p)
    BY <1>1, <2>2
  <2>3. \A i \in 1 .. n : HistoryLog(s)[i] \in S
    BY <1>1, <1>2, <2>1, <2>2
  <2>. QED BY <1>2, <2>3
<1>4. Len(HistoryLog(s)) = n
  BY <1>1, <1>3, FunctionIsSeq
<1>5. \A i \in 1 .. Len(p) : HistoryLog(s)[i] = p[i]
  BY <1>1, <1>2
<1>6. HistoryLog(s)[Len(p) + 1] = s.present
  BY <1>1, <1>2
<1>7. \A i \in 1 .. Len(f) : HistoryLog(s)[Len(p) + 1 + i] = f[i]
  <2>1. ASSUME NEW i \in 1 .. Len(f)
        PROVE  /\ Len(p) + 1 + i \in 1 .. n /\ ~(Len(p) + 1 + i <= Len(p))
               /\ Len(p) + 1 + i # Len(p) + 1 /\ Len(p) + 1 + i - Len(p) - 1 = i
    BY <1>1, <2>1
  <2>. HIDE DEF n
  <2>. QED BY <1>2, <2>1
<1>. QED BY <1>1, <1>4, <1>5, <1>6, <1>7 DEF p, f

(* A new history is a log of one entry.                                        *)
LEMMA OneEntry ==
  ASSUME NEW S, NEW x \in S
  PROVE  Len(HistoryLog(CreateHistory(x))) = 1 /\ At(CreateHistory(x)) = 1
<1>1. Len(HistoryLog(CreateHistory(x))) = 0 + 1 + 0
  BY Created, LogEntries
<1>. QED BY <1>1, Created DEF At

(* Undo moves the shown snapshot one back and leaves the log as it is.         *)
LEMMA UndoMovesBack ==
  ASSUME NEW S, NEW s \in Stacks(S), CanUndo(s)
  PROVE  /\ HistoryLog(UndoHistory(s)) = HistoryLog(s)
         /\ At(UndoHistory(s)) = At(s) - 1 /\ At(s) > 1
<1>. DEFINE t == UndoHistory(s)
            p == Len(s.past)
            f == Len(s.future)
            n == p + 1 + f
<1>1. /\ Len(t.past) = p - 1 /\ Len(t.future) = f + 1 /\ t.present = s.past[p]
      /\ t.future[1] = s.present
      /\ \A i \in 1 .. p - 1 : t.past[i] = s.past[i]
      /\ \A i \in 1 .. f : t.future[i + 1] = s.future[i]
  BY Undone
<1>2. p \in Nat /\ f \in Nat /\ p > 0
  BY DEF Stacks, CanUndo
<1>. HIDE DEF t, p, f
<1>3. HistoryLog(s) = [i \in 1 .. n |-> IF i <= p THEN s.past[i]
                                 ELSE IF i = p + 1 THEN s.present ELSE s.future[i - p - 1]]
  BY DEF HistoryLog, p, f
<1>4. Len(t.past) + 1 + Len(t.future) = n
  BY <1>1, <1>2
<1>5. HistoryLog(t) = [i \in 1 .. n |-> IF i <= p - 1 THEN t.past[i]
                                 ELSE IF i = p THEN t.present ELSE t.future[i - p]]
  <2>1. \A i \in 1 .. n : /\ i <= Len(t.past) <=> i <= p - 1
                          /\ i = Len(t.past) + 1 <=> i = p
                          /\ i - Len(t.past) - 1 = i - p
    BY <1>1, <1>2
  <2>. QED BY <1>4, <2>1 DEF HistoryLog
<1>6. ASSUME NEW i \in 1 .. n PROVE HistoryLog(t)[i] = HistoryLog(s)[i]
  <2>1. CASE i <= p - 1
    BY <1>1, <1>2, <1>3, <1>5, <2>1
  <2>2. CASE i = p
    BY <1>1, <1>2, <1>3, <1>5, <2>2
  <2>3. CASE i = p + 1
    BY <1>1, <1>2, <1>3, <1>5, <2>3
  <2>4. CASE i > p + 1
    <3>1. i - p - 1 \in 1 .. f /\ (i - p - 1) + 1 = i - p
      BY <1>2, <2>4
    <3>2. t.future[i - p] = s.future[i - p - 1]
      BY <1>1, <3>1
    <3>. QED BY <1>2, <1>3, <1>5, <2>4, <3>2
  <2>. QED BY <1>2, <2>1, <2>2, <2>3, <2>4
<1>7. HistoryLog(t) = HistoryLog(s)
  <2>. HIDE DEF n
  <2>. QED BY <1>3, <1>5, <1>6
<1>8. At(t) = At(s) - 1 /\ At(s) > 1
  BY <1>1, <1>2 DEF At, p
<1>. QED BY <1>7, <1>8 DEF t

(* Redo moves it one on.                                                       *)
LEMMA RedoMovesOn ==
  ASSUME NEW S, NEW s \in Stacks(S), CanRedo(s)
  PROVE  /\ HistoryLog(RedoHistory(s)) = HistoryLog(s)
         /\ At(RedoHistory(s)) = At(s) + 1 /\ At(s) < Len(HistoryLog(s))
<1>. DEFINE t == RedoHistory(s)
            p == Len(s.past)
            f == Len(s.future)
            n == p + 1 + f
<1>1. /\ Len(t.past) = p + 1 /\ Len(t.future) = f - 1 /\ t.present = s.future[1]
      /\ t.past[p + 1] = s.present
      /\ \A i \in 1 .. p : t.past[i] = s.past[i]
      /\ \A i \in 1 .. f - 1 : t.future[i] = s.future[i + 1]
  BY Redone
<1>2. p \in Nat /\ f \in Nat /\ f > 0
  BY DEF Stacks, CanRedo
<1>3. Len(HistoryLog(s)) = n
  BY LogEntries
<1>. HIDE DEF t, p, f
<1>4. HistoryLog(s) = [i \in 1 .. n |-> IF i <= p THEN s.past[i]
                                 ELSE IF i = p + 1 THEN s.present ELSE s.future[i - p - 1]]
  BY DEF HistoryLog, p, f
<1>5. Len(t.past) + 1 + Len(t.future) = n
  BY <1>1, <1>2
<1>6. HistoryLog(t) = [i \in 1 .. n |-> IF i <= p + 1 THEN t.past[i]
                                 ELSE IF i = p + 2 THEN t.present ELSE t.future[i - p - 2]]
  <2>1. \A i \in 1 .. n : /\ i <= Len(t.past) <=> i <= p + 1
                          /\ i = Len(t.past) + 1 <=> i = p + 2
                          /\ i - Len(t.past) - 1 = i - p - 2
    BY <1>1, <1>2
  <2>. QED BY <1>5, <2>1 DEF HistoryLog
<1>7. ASSUME NEW i \in 1 .. n PROVE HistoryLog(t)[i] = HistoryLog(s)[i]
  <2>1. CASE i <= p
    BY <1>1, <1>2, <1>4, <1>6, <2>1
  <2>2. CASE i = p + 1
    BY <1>1, <1>2, <1>4, <1>6, <2>2
  <2>3. CASE i = p + 2
    BY <1>1, <1>2, <1>4, <1>6, <2>3
  <2>4. CASE i > p + 2
    <3>1. i - p - 2 \in 1 .. f - 1 /\ (i - p - 2) + 1 = i - p - 1
      BY <1>2, <2>4
    <3>2. t.future[i - p - 2] = s.future[i - p - 1]
      BY <1>1, <3>1
    <3>. QED BY <1>2, <1>4, <1>6, <2>4, <3>2
  <2>. QED BY <1>2, <2>1, <2>2, <2>3, <2>4
<1>8. HistoryLog(t) = HistoryLog(s)
  <2>. HIDE DEF n
  <2>. QED BY <1>4, <1>6, <1>7
<1>9. At(t) = At(s) + 1 /\ At(s) < Len(HistoryLog(s))
  BY <1>1, <1>2, <1>3 DEF At, p
<1>. QED BY <1>8, <1>9 DEF t

(* A push writes behind the shown snapshot, and drops only from a full log.    *)
LEMMA PushWritesBehind ==
  ASSUME NEW S, NEW s \in Stacks(S), NEW x \in S, NEW m \in Nat \ {0}
  PROVE  /\ Over(s, m) \in 0 .. At(s)
         /\ Len(HistoryLog(PushHistory(s, x, m))) = At(PushHistory(s, x, m))
         /\ At(PushHistory(s, x, m)) = At(s) - Over(s, m) + 1
         /\ At(PushHistory(s, x, m)) <= m + 1
         /\ Over(s, m) > 0 => At(PushHistory(s, x, m)) = m + 1
         /\ \A i \in 1 .. At(s) - Over(s, m) :
              HistoryLog(PushHistory(s, x, m))[i] = HistoryLog(s)[i + Over(s, m)]
<1>. DEFINE t == PushHistory(s, x, m)
            p == Len(s.past)
            d == IF p + 1 > m THEN p + 1 - m ELSE 0
<1>1. /\ t \in Stacks(S) /\ t.present = x /\ t.future = << >> /\ Len(t.past) = p + 1 - d
      /\ \A i \in 1 .. p + 1 - d :
           t.past[i] = IF i + d <= p THEN s.past[i + d] ELSE s.present
  <2>1. /\ t \in Stacks(S) /\ t.present = x /\ t.future = << >>
        /\ Len(t.past) = p + 1 - Over(s, m)
        /\ \A i \in 1 .. p + 1 - Over(s, m) :
             t.past[i] = IF i + Over(s, m) <= p THEN s.past[i + Over(s, m)] ELSE s.present
    BY Pushed
  <2>2. Over(s, m) = d
    BY DEF Over
  <2>. HIDE DEF t, p, d
  <2>. QED BY <2>1, <2>2
<1>2. /\ p \in Nat
      /\ \A i \in 1 .. p : HistoryLog(s)[i] = s.past[i]
      /\ HistoryLog(s)[p + 1] = s.present
  BY LogEntries
<1>. HIDE DEF t
<1>3. /\ Len(HistoryLog(t)) = Len(t.past) + 1 + Len(t.future)
      /\ \A i \in 1 .. Len(t.past) : HistoryLog(t)[i] = t.past[i]
  BY <1>1, LogEntries
<1>4. d \in 0 .. p + 1 /\ (d > 0 => p + 1 - d = m) /\ p + 1 - d <= m
  BY <1>2
<1>. HIDE DEF p, d
<1>5. Len(HistoryLog(t)) = p + 2 - d
  BY <1>1, <1>2, <1>3, <1>4
<1>6. ASSUME NEW i \in 1 .. p + 1 - d PROVE HistoryLog(t)[i] = HistoryLog(s)[i + d]
  <2>1. HistoryLog(t)[i] = IF i + d <= p THEN s.past[i + d] ELSE s.present
    BY <1>1, <1>3
  <2>2. CASE i + d <= p
    <3>1. i + d \in 1 .. p
      BY <1>2, <1>4, <2>2
    <3>. QED BY <1>2, <2>1, <2>2, <3>1
  <2>3. CASE ~(i + d <= p)
    <3>1. i + d = p + 1
      BY <1>2, <1>4, <2>3
    <3>. QED BY <1>2, <2>1, <2>3, <3>1
  <2>. QED BY <2>2, <2>3
<1>7. At(s) = p + 1 /\ At(t) = p + 2 - d
  BY <1>1, <1>2, <1>4 DEF At, p
<1>. DEFINE e == Over(s, m)
<1>8. e = d
  BY DEF Over, d, p
<1>. HIDE DEF e
<1>9. At(s) - e = p + 1 - d
  BY <1>2, <1>4, <1>7, <1>8
<1>10. /\ e \in 0 .. At(s)
       /\ Len(HistoryLog(t)) = At(t) /\ At(t) = At(s) - e + 1
       /\ At(t) <= m + 1 /\ (e > 0 => At(t) = m + 1)
  BY <1>2, <1>4, <1>5, <1>7, <1>8
<1>11. \A i \in 1 .. At(s) - e : HistoryLog(t)[i] = HistoryLog(s)[i + e]
  BY <1>6, <1>8, <1>9
<1>. QED BY <1>10, <1>11 DEF t, e

(* A step of the undo log from one stack to another, of one edit or more.      *)
Edits(h, k) ==
  \E dropped \in 0 .. At(h) :
    /\ Len(HistoryLog(k)) = At(k) /\ At(k) > At(h) - dropped
    /\ At(k) <= MaxEntries + 1 /\ (dropped > 0 => At(k) = MaxEntries + 1)
    /\ \A i \in 1 .. At(h) - dropped : HistoryLog(k)[i] = HistoryLog(h)[i + dropped]

LEMMA PushEdits ==
  ASSUME NEW S, NEW h \in Stacks(S), NEW x \in S
  PROVE  Edits(h, PushHistory(h, x, MaxEntries))
<1>. DEFINE t == PushHistory(h, x, MaxEntries)
            d == Over(h, MaxEntries)
<1>1. /\ d \in 0 .. At(h)
      /\ Len(HistoryLog(t)) = At(t) /\ At(t) = At(h) - d + 1
      /\ At(t) <= MaxEntries + 1 /\ (d > 0 => At(t) = MaxEntries + 1)
      /\ \A i \in 1 .. At(h) - d : HistoryLog(t)[i] = HistoryLog(h)[i + d]
  BY MaxEntriesAssumption, PushWritesBehind
<1>2. At(h) \in Int
  BY DEF At, Stacks
<1>. HIDE DEF t, d
<1>3. At(t) > At(h) - d
  BY <1>1, <1>2
<1>. QED BY <1>1, <1>3 DEF Edits, t

LEMMA EditsTwice ==
  ASSUME NEW h, NEW k, NEW l, At(h) \in Nat \ {0}, At(k) \in Nat, At(l) \in Nat,
         Edits(h, k), Edits(k, l)
  PROVE  Edits(h, l)
<1>1. PICK d \in 0 .. At(h) :
        /\ Len(HistoryLog(k)) = At(k) /\ At(k) > At(h) - d
        /\ At(k) <= MaxEntries + 1 /\ (d > 0 => At(k) = MaxEntries + 1)
        /\ \A i \in 1 .. At(h) - d : HistoryLog(k)[i] = HistoryLog(h)[i + d]
  BY DEF Edits
<1>2. PICK e \in 0 .. At(k) :
        /\ Len(HistoryLog(l)) = At(l) /\ At(l) > At(k) - e
        /\ At(l) <= MaxEntries + 1 /\ (e > 0 => At(l) = MaxEntries + 1)
        /\ \A i \in 1 .. At(k) - e : HistoryLog(l)[i] = HistoryLog(k)[i + e]
  BY DEF Edits
<1>3. MaxEntries \in Nat
  BY MaxEntriesAssumption
<1>4. d > 0 => e > 0
  BY <1>1, <1>2, <1>3
<1>5. CASE d + e <= At(h)
  <2>1. /\ d + e \in 0 .. At(h) /\ At(l) > At(h) - (d + e)
        /\ d + e > 0 => At(l) = MaxEntries + 1
    BY <1>1, <1>2, <1>4, <1>5
  <2>2. ASSUME NEW i \in 1 .. At(h) - (d + e) PROVE HistoryLog(l)[i] = HistoryLog(h)[i + (d + e)]
    <3>1. i \in 1 .. At(k) - e /\ i + e \in 1 .. At(h) - d /\ i + e + d = i + (d + e)
      BY <1>1, <1>2
    <3>. QED BY <1>1, <1>2, <3>1
  <2>. QED BY <1>2, <2>1, <2>2 DEF Edits
<1>6. CASE ~(d + e <= At(h))
  <2>1. /\ At(h) \in 0 .. At(h) /\ At(l) > At(h) - At(h)
        /\ At(l) = MaxEntries + 1
    BY <1>1, <1>2, <1>3, <1>6
  <2>2. \A i \in 1 .. At(h) - At(h) : FALSE
    OBVIOUS
  <2>. QED BY <1>2, <2>1, <2>2 DEF Edits
<1>. QED BY <1>5, <1>6

-----------------------------------------------------------------------------
(* Trees of blocks.                                                          *)

LEMMA TreeFacts ==
  ASSUME NEW bs \in Trees
  PROVE  /\ bs \in Seq(Blocks) /\ Len(bs) \in Nat /\ DOMAIN bs = 1 .. Len(bs)
         /\ \A i \in 1 .. Len(bs) :
              bs[i] \in Blocks /\ bs[i].id \in Nat /\ bs[i].depth \in Nat
         /\ Len(bs) > 0 => bs[1].depth = 0
<1>1. bs \in Seq(Blocks) /\ (bs # << >> => bs[1].depth = 0)
  BY DEF Trees
<1>2. Len(bs) \in Nat /\ DOMAIN bs = 1 .. Len(bs) /\ \A i \in 1 .. Len(bs) : bs[i] \in Blocks
  BY <1>1
<1>3. \A b \in Blocks : b.id \in Nat /\ b.depth \in Nat
  BY DEF Blocks
<1>4. Len(bs) > 0 => bs # << >>
  BY <1>1
<1>. QED BY <1>1, <1>2, <1>3, <1>4

LEMMA MakesTree ==
  ASSUME NEW bs \in Seq(Blocks), Len(bs) > 0 => bs[1].depth = 0
  PROVE  bs \in Trees
BY DEF Trees

LEMMA IdFacts ==
  ASSUME NEW bs \in Trees
  PROVE  /\ Ids(bs) \subseteq Nat
         /\ \A i \in 1 .. Len(bs) : bs[i].id \in Ids(bs)
         /\ \A id \in Ids(bs) : \E i \in 1 .. Len(bs) : bs[i].id = id
BY TreeFacts DEF Ids

(* The first block of an id.                                                   *)
LEMMA IndexFacts ==
  ASSUME NEW bs \in Trees, NEW id
  PROVE  /\ IndexOf(bs, id) \in 0 .. Len(bs)
         /\ IndexOf(bs, id) = 0 <=> id \notin Ids(bs)
         /\ id \in Ids(bs) => /\ IndexOf(bs, id) \in 1 .. Len(bs)
                              /\ bs[IndexOf(bs, id)].id = id
                              /\ \A j \in 1 .. IndexOf(bs, id) - 1 : bs[j].id # id
<1>0. Len(bs) \in Nat /\ DOMAIN bs = 1 .. Len(bs)
  BY TreeFacts
<1>1. CASE id \in Ids(bs)
  <2>. DEFINE T == {i \in 1 .. Len(bs) : bs[i].id = id}
  <2>1. T \in SUBSET Nat /\ T # {}
    BY <1>1, IdFacts
  <2>2. PICK i \in T : \A j \in T : i <= j
    <3>. HIDE DEF T
    <3>. QED BY <2>1, Least
  <2>3. i \in DOMAIN bs /\ bs[i].id = id /\ \A j \in 1 .. i - 1 : bs[j].id # id
    <3>1. \A j \in 1 .. i - 1 : j \in 1 .. Len(bs) /\ ~(i <= j)
      BY <1>0
    <3>. QED BY <1>0, <2>2, <3>1
  <2>. HIDE DEF T
  <2>4. /\ IndexOf(bs, id) \in DOMAIN bs /\ bs[IndexOf(bs, id)].id = id
        /\ \A j \in 1 .. IndexOf(bs, id) - 1 : bs[j].id # id
    BY <1>1, <2>3 DEF IndexOf
  <2>. QED BY <1>0, <1>1, <2>4
<1>2. CASE id \notin Ids(bs)
  BY <1>0, <1>2 DEF IndexOf
<1>. QED BY <1>1, <1>2

(* The last descendant of a block.                                             *)
LEMMA EndFacts ==
  ASSUME NEW bs \in Trees, NEW i \in 1 .. Len(bs)
  PROVE  /\ EndOf(bs, i) \in i .. Len(bs)
         /\ \A k \in i + 1 .. EndOf(bs, i) : bs[k].depth > bs[i].depth
         /\ EndOf(bs, i) < Len(bs) => bs[EndOf(bs, i) + 1].depth <= bs[i].depth
<1>. DEFINE n == Len(bs)
            Ends(j) == j < n => bs[j + 1].depth <= bs[i].depth
            T == {j \in i .. n : Ends(j)}
<1>1. n \in Nat /\ \A k \in 1 .. n : bs[k].depth \in Nat
  BY TreeFacts
<1>2. T \in SUBSET Nat /\ n \in T
  <2>. HIDE DEF n
  <2>. QED BY <1>1 DEF n
<1>3. PICK j \in T : \A m \in T : j <= m
  <2>. HIDE DEF T
  <2>. QED BY <1>2, Least
<1>4. ASSUME NEW k \in i + 1 .. j PROVE bs[k].depth > bs[i].depth
  <2>. HIDE DEF n
  <2>1. k - 1 \in i .. n /\ ~(j <= k - 1) /\ k - 1 < n /\ (k - 1) + 1 = k /\ k \in 1 .. n
    BY <1>1
  <2>2. ~Ends(k - 1)
    BY <1>3, <2>1
  <2>3. bs[k].depth \in Nat /\ bs[i].depth \in Nat
    BY <1>1, <2>1
  <2>. QED BY <2>1, <2>2, <2>3
<1>5. \E e \in i .. Len(bs) : /\ \A k \in i + 1 .. e : bs[k].depth > bs[i].depth
                              /\ e < Len(bs) => bs[e + 1].depth <= bs[i].depth
  BY <1>4
<1>. QED BY <1>5 DEF EndOf

(* The first top-level block of an id.                                         *)
LEMMA TopFacts ==
  ASSUME NEW bs \in Trees, NEW id
  PROVE  /\ TopIndexOf(bs, id) \in 0 .. Len(bs)
         /\ TopIndexOf(bs, id) # 0 => /\ bs[TopIndexOf(bs, id)].depth = 0
                                      /\ bs[TopIndexOf(bs, id)].id = id
<1>. DEFINE T == {i \in DOMAIN bs : bs[i].depth = 0 /\ bs[i].id = id}
<1>0. Len(bs) \in Nat /\ DOMAIN bs = 1 .. Len(bs)
  BY TreeFacts
<1>1. T \in SUBSET Nat
  BY <1>0
<1>2. TopIndexOf(bs, id) = IF T = {} THEN 0 ELSE CHOOSE i \in T : \A j \in T : i <= j
  BY DEF TopIndexOf
<1>3. T # {} => \E i \in T : \A j \in T : i <= j
  <2>. HIDE DEF T
  <2>. QED BY <1>1, Least
<1>4. CASE T = {}
  <2>. HIDE DEF T
  <2>. QED BY <1>0, <1>2, <1>4
<1>5. CASE T # {}
  <2>1. TopIndexOf(bs, id) \in T
    <3>. HIDE DEF T
    <3>. QED BY <1>2, <1>3, <1>5
  <2>. QED BY <1>0, <2>1
<1>. QED BY <1>4, <1>5

IsPicture(b) == b.type = "img" /\ b.text = {"asset"}
Pictures(bs) == \E i \in DOMAIN bs : IsPicture(bs[i])

LEMMA HasPicturesIs == ASSUME NEW doc PROVE HasPictures(doc) = Pictures(doc.blocks)
BY DEF HasPictures, Pictures, IsPicture

(* Blocks that are changed in place, and keep their identity and their depth.  *)
LEMMA Mapped ==
  ASSUME NEW bs \in Trees, NEW nb, nb = [i \in DOMAIN bs |-> nb[i]],
         \A i \in 1 .. Len(bs) :
           nb[i] \in Blocks /\ nb[i].id = bs[i].id /\ nb[i].depth = bs[i].depth
  PROVE  /\ nb \in Trees /\ Ids(nb) = Ids(bs) /\ Len(nb) = Len(bs)
         /\ (\A i \in 1 .. Len(bs) : IsPicture(nb[i]) => IsPicture(bs[i]))
              => (Pictures(nb) => Pictures(bs))
<1>. DEFINE n == Len(bs)
<1>1. /\ n \in Nat /\ DOMAIN bs = 1 .. n
      /\ n > 0 => bs[1].depth = 0
  BY TreeFacts
<1>. HIDE DEF n
<1>2. nb \in [1 .. n -> Blocks] /\ DOMAIN nb = 1 .. n
  BY <1>1 DEF n
<1>3. nb \in Seq(Blocks) /\ Len(nb) = n
  BY <1>1, <1>2, FunctionIsSeq
<1>4. nb \in Trees
  <2>1. Len(nb) > 0 => nb[1].depth = 0
    BY <1>1, <1>3 DEF n
  <2>. QED BY <1>3, <2>1, MakesTree
<1>5. Ids(nb) = Ids(bs)
  BY <1>1, <1>2 DEF Ids, n
<1>. QED BY <1>1, <1>2, <1>3, <1>4, <1>5 DEF Pictures, n

(* Two sequences one behind the other.                                         *)
LEMMA JoinFacts ==
  ASSUME NEW p \in Seq(Blocks), NEW q \in Seq(Blocks)
  PROVE  /\ p \o q \in Seq(Blocks) /\ Len(p \o q) = Len(p) + Len(q)
         /\ \A i \in 1 .. Len(p) : (p \o q)[i] = p[i]
         /\ \A i \in 1 .. Len(q) : (p \o q)[Len(p) + i] = q[i]
OBVIOUS

(* A sequence put into another one behind the position at.                     *)
Splice(bs, new, at) == SubSeq(bs, 1, at) \o new \o SubSeq(bs, at + 1, Len(bs))

LEMMA SpliceFacts ==
  ASSUME NEW bs \in Seq(Blocks), NEW new \in Seq(Blocks), NEW at \in 0 .. Len(bs)
  PROVE  /\ Splice(bs, new, at) \in Seq(Blocks)
         /\ Len(Splice(bs, new, at)) = Len(bs) + Len(new)
         /\ \A i \in 1 .. at : Splice(bs, new, at)[i] = bs[i]
         /\ \A i \in 1 .. Len(new) : Splice(bs, new, at)[at + i] = new[i]
         /\ \A i \in at + 1 .. Len(bs) : Splice(bs, new, at)[i + Len(new)] = bs[i]
<1>. DEFINE p == SubSeq(bs, 1, at)
            q == SubSeq(bs, at + 1, Len(bs))
            n == Len(bs)
            m == Len(new)
<1>1. n \in Nat /\ m \in Nat /\ at \in Nat /\ at <= n
  OBVIOUS
<1>2. p \in Seq(Blocks) /\ Len(p) = at /\ \A i \in 1 .. at : p[i] = bs[i]
  OBVIOUS
<1>3. q \in Seq(Blocks) /\ Len(q) = n - at /\ \A i \in 1 .. n - at : q[i] = bs[at + i]
  <2>1. CASE at = n
    BY <2>1
  <2>2. CASE at # n
    <3>1. at + 1 \in 1 .. n /\ n \in at .. n
      BY <1>1, <2>2
    <3>2. q \in Seq(Blocks)
      BY <3>1
    <3>3. Len(q) = n - at /\ \A i \in 1 .. n - at : q[i] = bs[at + i]
      BY <3>1
    <3>. QED BY <3>2, <3>3
  <2>. QED BY <2>1, <2>2
<1>. HIDE DEF p, q, n, m
<1>. DEFINE r == p \o new
<1>4. /\ r \in Seq(Blocks) /\ Len(r) = at + m
      /\ \A i \in 1 .. at : r[i] = bs[i]
      /\ \A i \in 1 .. m : r[at + i] = new[i]
  BY <1>1, <1>2, JoinFacts DEF m
<1>5. Splice(bs, new, at) = r \o q
  BY DEF Splice, p, q
<1>. HIDE DEF r
<1>7. /\ r \o q \in Seq(Blocks) /\ Len(r \o q) = Len(r) + Len(q)
      /\ \A i \in 1 .. Len(r) : (r \o q)[i] = r[i]
      /\ \A i \in 1 .. Len(q) : (r \o q)[Len(r) + i] = q[i]
  BY <1>3, <1>4, JoinFacts
<1>. DEFINE t == r \o q
<1>. HIDE DEF t
<1>8. /\ t \in Seq(Blocks) /\ Len(t) = n + m
      /\ \A i \in 1 .. at + m : t[i] = r[i]
      /\ \A i \in 1 .. n - at : t[at + m + i] = q[i]
  BY <1>1, <1>3, <1>4, <1>7 DEF t
<1>9. \A i \in 1 .. at : t[i] = bs[i]
  <2>1. \A i \in 1 .. at : i \in 1 .. at + m
    BY <1>1
  <2>. QED BY <1>4, <1>8, <2>1
<1>10. \A i \in 1 .. m : t[at + i] = new[i]
  <2>1. \A i \in 1 .. m : at + i \in 1 .. at + m
    BY <1>1
  <2>. QED BY <1>4, <1>8, <2>1
<1>11. \A i \in at + 1 .. n : t[i + m] = bs[i]
  <2>1. \A i \in at + 1 .. n : i - at \in 1 .. n - at /\ at + m + (i - at) = i + m /\ at + (i - at) = i
    BY <1>1
  <2>. QED BY <1>3, <1>8, <2>1
<1>. QED BY <1>5, <1>8, <1>9, <1>10, <1>11 DEF t, n, m

(* Where each block of a splice comes from.                                    *)
LEMMA SplicePlaces ==
  ASSUME NEW bs \in Seq(Blocks), NEW new \in Seq(Blocks), NEW at \in 0 .. Len(bs),
         NEW k \in 1 .. Len(Splice(bs, new, at))
  PROVE  \/ k \in 1 .. at /\ Splice(bs, new, at)[k] = bs[k]
         \/ /\ k - at \in 1 .. Len(new)
            /\ Splice(bs, new, at)[k] = new[k - at]
         \/ /\ k - Len(new) \in at + 1 .. Len(bs)
            /\ Splice(bs, new, at)[k] = bs[k - Len(new)]
<1>. DEFINE r == Splice(bs, new, at)
            n == Len(bs)
            m == Len(new)
<1>1. /\ Len(r) = n + m
      /\ \A i \in 1 .. at : r[i] = bs[i]
      /\ \A i \in 1 .. m : r[at + i] = new[i]
      /\ \A i \in at + 1 .. n : r[i + m] = bs[i]
  BY SpliceFacts
<1>2. n \in Nat /\ m \in Nat /\ at \in 0 .. n
  OBVIOUS
<1>3. k \in 1 .. Len(r)
  OBVIOUS
<1>. HIDE DEF r, n, m
<1>4. CASE k <= at
  BY <1>1, <1>2, <1>3, <1>4 DEF r
<1>5. CASE k > at /\ k <= at + m
  <2>1. k - at \in 1 .. m /\ at + (k - at) = k
    BY <1>2, <1>3, <1>5
  <2>. QED BY <1>1, <2>1 DEF r, m
<1>6. CASE k > at + m
  <2>1. k - m \in at + 1 .. n /\ (k - m) + m = k
    BY <1>1, <1>2, <1>3, <1>6
  <2>. QED BY <1>1, <2>1 DEF r, m, n
<1>. QED BY <1>2, <1>3, <1>4, <1>5, <1>6

(* Blocks put into a tree, behind its first block at least if it has one.      *)
LEMMA SpliceTree ==
  ASSUME NEW bs \in Trees, NEW new \in Trees, NEW at \in 0 .. Len(bs),
         at = 0 => Len(bs) = 0
  PROVE  /\ Splice(bs, new, at) \in Trees
         /\ Ids(Splice(bs, new, at)) = Ids(bs) \cup Ids(new)
         /\ Pictures(Splice(bs, new, at)) => Pictures(bs) \/ Pictures(new)
<1>. DEFINE r == Splice(bs, new, at)
            n == Len(bs)
            m == Len(new)
<1>1. /\ bs \in Seq(Blocks) /\ n \in Nat /\ DOMAIN bs = 1 .. n /\ (n > 0 => bs[1].depth = 0)
      /\ new \in Seq(Blocks) /\ m \in Nat /\ DOMAIN new = 1 .. m /\ (m > 0 => new[1].depth = 0)
  BY TreeFacts
<1>2. /\ r \in Seq(Blocks) /\ Len(r) = n + m
      /\ \A i \in 1 .. at : r[i] = bs[i]
      /\ \A i \in 1 .. m : r[at + i] = new[i]
      /\ \A i \in at + 1 .. n : r[i + m] = bs[i]
  BY <1>1, SpliceFacts
<1>3. \A k \in 1 .. n + m :
        \/ k \in 1 .. at /\ r[k] = bs[k]
        \/ k - at \in 1 .. m /\ r[k] = new[k - at]
        \/ k - m \in at + 1 .. n /\ r[k] = bs[k - m]
  BY <1>1, <1>2, SplicePlaces
<1>4. at \in 0 .. n /\ (at = 0 => n = 0)
  OBVIOUS
<1>. HIDE DEF r, n, m
<1>5. DOMAIN r = 1 .. n + m
  BY <1>2
<1>6. r \in Trees
  <2>1. CASE at > 0
    <3>1. 1 \in 1 .. at /\ n > 0
      BY <1>1, <1>4, <2>1
    <3>. QED BY <1>1, <1>2, <3>1, MakesTree
  <2>2. CASE at = 0
    <3>1. n = 0 /\ Len(r) = m
      BY <1>1, <1>2, <1>4, <2>2
    <3>2. m > 0 => r[1] = new[1]
      <4>1. m > 0 => 1 \in 1 .. m /\ at + 1 = 1
        BY <1>1, <2>2
      <4>. QED BY <1>2, <4>1
    <3>. QED BY <1>1, <1>2, <3>1, <3>2, MakesTree
  <2>. QED BY <1>4, <2>1, <2>2
<1>7. \A k \in 1 .. n + m : (\E i \in 1 .. n : r[k] = bs[i]) \/ (\E i \in 1 .. m : r[k] = new[i])
  <2>1. \A k \in 1 .. at : k \in 1 .. n
    BY <1>1, <1>4
  <2>2. \A k \in at + 1 .. n : k \in 1 .. n
    BY <1>1, <1>4
  <2>. QED BY <1>3, <2>1, <2>2
<1>8. /\ \A i \in 1 .. n : \E k \in 1 .. n + m : r[k] = bs[i]
      /\ \A i \in 1 .. m : \E k \in 1 .. n + m : r[k] = new[i]
  <2>1. ASSUME NEW i \in 1 .. n PROVE \E k \in 1 .. n + m : r[k] = bs[i]
    <3>1. CASE i <= at
      <4>1. i \in 1 .. at /\ i \in 1 .. n + m
        BY <1>1, <1>4, <3>1
      <4>. QED BY <1>2, <4>1
    <3>2. CASE i > at
      <4>1. i \in at + 1 .. n /\ i + m \in 1 .. n + m
        BY <1>1, <1>4, <3>2
      <4>. QED BY <1>2, <4>1
    <3>. QED BY <1>1, <1>4, <3>1, <3>2
  <2>2. ASSUME NEW i \in 1 .. m PROVE \E k \in 1 .. n + m : r[k] = new[i]
    <3>1. at + i \in 1 .. n + m
      BY <1>1, <1>4
    <3>. QED BY <1>2, <3>1
  <2>. QED BY <2>1, <2>2
<1>9. Ids(r) = Ids(bs) \cup Ids(new)
  <2>1. /\ Ids(r) = {r[i].id : i \in 1 .. n + m}
        /\ Ids(bs) = {bs[i].id : i \in 1 .. n} /\ Ids(new) = {new[i].id : i \in 1 .. m}
    BY <1>1, <1>5 DEF Ids
  <2>. QED BY <1>7, <1>8, <2>1
<1>10. Pictures(r) => Pictures(bs) \/ Pictures(new)
  BY <1>1, <1>5, <1>7 DEF Pictures
<1>. QED BY <1>6, <1>9, <1>10 DEF r

LEMMA InsertFacts ==
  ASSUME NEW bs \in Trees, NEW new \in Trees, NEW after
  PROVE  /\ InsertBlocks(bs, new, after) \in Trees
         /\ Ids(InsertBlocks(bs, new, after)) = Ids(bs) \cup Ids(new)
         /\ Pictures(InsertBlocks(bs, new, after)) => Pictures(bs) \/ Pictures(new)
<1>. DEFINE i == TopIndexOf(bs, after)
            at == IF i = 0 THEN Len(bs) ELSE EndOf(bs, i)
<1>1. InsertBlocks(bs, new, after) = Splice(bs, new, at)
  BY DEF InsertBlocks, Splice
<1>2. Len(bs) \in Nat /\ i \in 0 .. Len(bs)
  BY TreeFacts, TopFacts
<1>3. at \in 0 .. Len(bs) /\ (at = 0 => Len(bs) = 0)
  <2>. HIDE DEF i
  <2>1. CASE i = 0
    BY <1>2, <2>1
  <2>2. CASE i # 0
    <3>1. i \in 1 .. Len(bs)
      BY <1>2, <2>2
    <3>2. EndOf(bs, i) \in i .. Len(bs)
      BY <3>1, EndFacts
    <3>. QED BY <1>2, <2>2, <3>1, <3>2
  <2>. QED BY <2>1, <2>2
<1>. HIDE DEF at
<1>. QED BY <1>1, <1>3, SpliceTree

(* The blocks of a sequence, wherever they are.                                *)
Members(s) == {s[i] : i \in 1 .. Len(s)}

LEMMA MemberFacts ==
  ASSUME NEW bs \in Seq(Blocks)
  PROVE  /\ Ids(bs) = {b.id : b \in Members(bs)}
         /\ Pictures(bs) <=> \E b \in Members(bs) : IsPicture(b)
BY DEF Members, Ids, Pictures

LEMMA MembersJoin ==
  ASSUME NEW p \in Seq(Blocks), NEW q \in Seq(Blocks)
  PROVE  Members(p \o q) = Members(p) \cup Members(q)
<1>. DEFINE r == p \o q
<1>1. /\ r \in Seq(Blocks) /\ Len(r) = Len(p) + Len(q)
      /\ \A i \in 1 .. Len(p) : r[i] = p[i]
      /\ \A i \in 1 .. Len(q) : r[Len(p) + i] = q[i]
  BY JoinFacts
<1>2. Len(p) \in Nat /\ Len(q) \in Nat
  OBVIOUS
<1>. HIDE DEF r
<1>3. Members(r) \subseteq Members(p) \cup Members(q)
  <2>. SUFFICES ASSUME NEW k \in 1 .. Len(r) PROVE r[k] \in Members(p) \cup Members(q)
    BY DEF Members
  <2>1. CASE k <= Len(p)
    BY <1>1, <1>2, <2>1 DEF Members
  <2>2. CASE ~(k <= Len(p))
    <3>1. k - Len(p) \in 1 .. Len(q) /\ Len(p) + (k - Len(p)) = k
      BY <1>1, <1>2, <2>2
    <3>2. r[k] = q[k - Len(p)]
      BY <1>1, <3>1
    <3>. QED BY <3>1, <3>2 DEF Members
  <2>. QED BY <2>1, <2>2
<1>4. Members(p) \cup Members(q) \subseteq Members(r)
  <2>1. ASSUME NEW k \in 1 .. Len(p) PROVE p[k] \in Members(r)
    <3>1. k \in 1 .. Len(r) /\ r[k] = p[k]
      BY <1>1, <1>2
    <3>. QED BY <3>1 DEF Members
  <2>2. ASSUME NEW k \in 1 .. Len(q) PROVE q[k] \in Members(r)
    <3>1. Len(p) + k \in 1 .. Len(r) /\ r[Len(p) + k] = q[k]
      BY <1>1, <1>2
    <3>. QED BY <3>1 DEF Members
  <2>. QED BY <2>1, <2>2 DEF Members
<1>. QED BY <1>3, <1>4 DEF r

(* The blocks from one position to another.                                    *)
LEMMA PieceFacts ==
  ASSUME NEW bs \in Seq(Blocks), NEW a \in 1 .. Len(bs) + 1, NEW b \in a - 1 .. Len(bs)
  PROVE  /\ SubSeq(bs, a, b) \in Seq(Blocks) /\ Len(SubSeq(bs, a, b)) = b - a + 1
         /\ \A i \in 1 .. b - a + 1 : SubSeq(bs, a, b)[i] = bs[a + i - 1]
         /\ Members(SubSeq(bs, a, b)) = {bs[i] : i \in a .. b}
<1>. DEFINE s == SubSeq(bs, a, b)
<1>0. Len(bs) \in Nat /\ a \in Nat \ {0} /\ b \in Nat /\ b - a + 1 \in Nat /\ b <= Len(bs)
  OBVIOUS
<1>1. s \in Seq(Blocks) /\ Len(s) = b - a + 1 /\ \A i \in 1 .. b - a + 1 : s[i] = bs[a + i - 1]
  <2>1. CASE b = a - 1
    BY <1>0, <2>1
  <2>2. CASE b # a - 1
    <3>1. a \in 1 .. Len(bs) /\ b \in 1 .. Len(bs) /\ a <= b
      BY <1>0, <2>2
    <3>2. s \in Seq(Blocks)
      BY <3>1
    <3>3. Len(s) = b - a + 1 /\ \A i \in 1 .. b - a + 1 : s[i] = bs[a + i - 1]
      BY <3>1
    <3>. QED BY <3>2, <3>3
  <2>. QED BY <2>1, <2>2
<1>. HIDE DEF s
<1>2. Members(s) = {bs[i] : i \in a .. b}
  <2>1. \A i \in 1 .. b - a + 1 : a + i - 1 \in a .. b
    BY <1>0
  <2>2. \A k \in a .. b : k - a + 1 \in 1 .. b - a + 1 /\ a + (k - a + 1) - 1 = k
    BY <1>0
  <2>3. Members(s) \subseteq {bs[i] : i \in a .. b}
    BY <1>1, <2>1 DEF Members
  <2>4. ASSUME NEW k \in a .. b PROVE bs[k] \in Members(s)
    <3>1. s[k - a + 1] = bs[k]
      BY <1>1, <2>2
    <3>. QED BY <1>1, <2>2, <3>1 DEF Members
  <2>. QED BY <2>3, <2>4
<1>. QED BY <1>1, <1>2 DEF s

(* The blocks that are left of a tree when one is deleted.                     *)
LEMMA DeleteRuns ==
  ASSUME NEW bs \in Trees, NEW id
  PROVE  \E f \in [0 .. Len(bs) -> Seq(Blocks)] :
           /\ f[0] = << >>
           /\ \A k \in 1 .. Len(bs) :
                f[k] = IF Within(bs, id, k) THEN f[k - 1] ELSE Append(f[k - 1], bs[k])
           /\ DeleteBlock(bs, id) = f[Len(bs)]
<1>. DEFINE n == Len(bs)
            step == [p \in (1 .. n) \X Seq(Blocks) |->
                       IF Within(bs, id, p[1]) THEN p[2] ELSE Append(p[2], bs[p[1]])]
            Solves(f) == f = [k \in 0 .. n |->
                                IF k = 0 THEN << >>
                                ELSE IF Within(bs, id, k) THEN f[k - 1]
                                     ELSE Append(f[k - 1], bs[k])]
<1>1. n \in Nat /\ \A i \in 1 .. n : bs[i] \in Blocks
  BY TreeFacts
<1>. HIDE DEF n
<1>2. step \in [(1 .. n) \X Seq(Blocks) -> Seq(Blocks)]
  BY <1>1
<1>3. << >> \in Seq(Blocks)
  OBVIOUS
<1>4. PICK f \in [0 .. n -> Seq(Blocks)] : Recurs(f, step, << >>, n)
  <2>. HIDE DEF step
  <2>. QED BY <1>1, <1>2, <1>3, RecursionExists
<1>5. ASSUME NEW k \in 0 .. n
      PROVE  f[k] = IF k = 0 THEN << >>
                    ELSE IF Within(bs, id, k) THEN f[k - 1] ELSE Append(f[k - 1], bs[k])
  <2>1. f[k] = IF k = 0 THEN << >> ELSE step[<<k, f[k - 1]>>]
    <3>. HIDE DEF step
    <3>. QED BY <1>4 DEF Recurs
  <2>2. CASE k = 0
    BY <2>1, <2>2
  <2>3. CASE k # 0
    <3>1. <<k, f[k - 1]>> \in (1 .. n) \X Seq(Blocks)
      BY <1>1, <2>3
    <3>. QED BY <2>1, <2>3, <3>1
  <2>. QED BY <2>2, <2>3
<1>6. Solves(f)
  <2>. HIDE DEF step
  <2>. QED BY <1>5
<1>7. ASSUME NEW g, Solves(g) PROVE \A k \in 0 .. n : g[k] = f[k]
  <2>. DEFINE G == {k \in 0 .. n : g[k] = f[k]}
  <2>1. \A k \in 0 .. n : g[k] = IF k = 0 THEN << >>
                    ELSE IF Within(bs, id, k) THEN g[k - 1] ELSE Append(g[k - 1], bs[k])
    BY <1>7
  <2>2. 0 \in G
    BY <1>1, <1>5, <2>1
  <2>3. ASSUME NEW k \in 1 .. n, k - 1 \in G PROVE k \in G
    <3>1. k \in 0 .. n /\ k # 0 /\ g[k - 1] = f[k - 1]
      BY <1>1, <2>3
    <3>2. /\ g[k] = IF Within(bs, id, k) THEN g[k - 1] ELSE Append(g[k - 1], bs[k])
          /\ f[k] = IF Within(bs, id, k) THEN f[k - 1] ELSE Append(f[k - 1], bs[k])
      BY <1>5, <2>1, <3>1
    <3>. QED BY <3>1, <3>2
  <2>4. \A k \in 0 .. n : k \in G
    <3>. HIDE DEF G
    <3>. QED BY <1>1, <2>2, <2>3, UpTo
  <2>. QED BY <2>4
<1>8. DeleteBlock(bs, id) = (CHOOSE g : Solves(g))[n]
  BY DEF DeleteBlock, n
<1>9. Solves(CHOOSE g : Solves(g))
  <2>. HIDE DEF Solves
  <2>. QED BY <1>6
<1>10. DeleteBlock(bs, id) = f[n]
  <2>. HIDE DEF Solves
  <2>. QED BY <1>1, <1>7, <1>8, <1>9
<1>11. /\ f[0] = << >>
       /\ \A k \in 1 .. n :
            f[k] = IF Within(bs, id, k) THEN f[k - 1] ELSE Append(f[k - 1], bs[k])
  <2>1. 0 \in 0 .. n /\ \A k \in 1 .. n : k \in 0 .. n /\ k # 0
    BY <1>1
  <2>. HIDE DEF step, Solves
  <2>. QED BY <1>5, <2>1
<1>. HIDE DEF step, Solves
<1>. QED BY <1>10, <1>11 DEF n

(* The first block that is left is a top-level block.                          *)
LEMMA FirstLeft ==
  ASSUME NEW bs \in Trees, NEW id, NEW k \in 1 .. Len(bs), ~Within(bs, id, k),
         \A i \in 1 .. k - 1 : Within(bs, id, i)
  PROVE  bs[k].depth = 0
<1>. SUFFICES ASSUME bs[k].depth # 0 PROVE FALSE
  OBVIOUS
<1>. DEFINE n == Len(bs)
            T == {i \in 1 .. k - 1 : bs[i].depth = 0}
<1>1. n \in Nat /\ (\A i \in 1 .. n : bs[i].depth \in Nat) /\ (n > 0 => bs[1].depth = 0)
  BY TreeFacts
<1>2. k \in 1 .. n
  OBVIOUS
<1>. HIDE DEF n
<1>3. k # 1 /\ 1 \in T
  BY <1>1, <1>2
<1>4. PICK j \in T : \A i \in T : i <= j
  <2>1. T \in SUBSET (0 .. n)
    BY <1>1, <1>2
  <2>. HIDE DEF T
  <2>. QED BY <1>1, <1>3, <2>1, Greatest
<1>5. j \in 1 .. n /\ j \in 1 .. k - 1 /\ bs[j].depth = 0
  BY <1>1, <1>2
<1>6. \A i \in j + 1 .. k : bs[i].depth > 0
  <2>. SUFFICES ASSUME NEW i \in j + 1 .. k PROVE bs[i].depth > 0
    OBVIOUS
  <2>1. i \in 1 .. n /\ bs[i].depth \in Nat
    BY <1>1, <1>2, <1>5
  <2>2. CASE i = k
    BY <2>1, <2>2
  <2>3. CASE i # k
    <3>1. i \in 1 .. k - 1 /\ ~(i <= j)
      BY <1>2, <1>5, <2>3
    <3>2. i \notin T
      BY <1>4, <3>1
    <3>. QED BY <2>1, <3>1, <3>2
  <2>. QED BY <2>2, <2>3
<1>7. PICK i \in 1 .. j : bs[i].id = id /\ j <= EndOf(bs, i)
  BY <1>5 DEF Within
<1>8. i \in 1 .. n /\ i <= j /\ i \in Nat
  BY <1>1, <1>5, <1>7
<1>9. i = j
  <2>1. i < j => j \in i + 1 .. EndOf(bs, i)
    <3>1. EndOf(bs, i) \in Nat
      BY <1>1, <1>8, EndFacts DEF n
    <3>. QED BY <1>5, <1>7, <1>8, <3>1
  <2>2. i < j => bs[j].depth > bs[i].depth
    BY <1>8, <2>1, EndFacts DEF n
  <2>3. bs[i].depth \in Nat
    BY <1>1, <1>8
  <2>. QED BY <1>5, <1>8, <2>2, <2>3
<1>10. EndOf(bs, j) >= k
  <2>1. /\ EndOf(bs, j) \in j .. n
        /\ EndOf(bs, j) < n => bs[EndOf(bs, j) + 1].depth <= bs[j].depth
    BY <1>5, EndFacts DEF n
  <2>2. ASSUME EndOf(bs, j) < k PROVE FALSE
    <3>1. EndOf(bs, j) + 1 \in j + 1 .. k /\ EndOf(bs, j) < n
      BY <1>1, <1>2, <2>1, <2>2
    <3>2. bs[EndOf(bs, j) + 1].depth > 0 /\ bs[EndOf(bs, j) + 1].depth <= 0
      BY <1>5, <1>6, <2>1, <3>1
    <3>3. bs[EndOf(bs, j) + 1].depth \in Nat
      BY <1>1, <2>1, <3>1
    <3>. QED BY <3>2, <3>3
  <2>. QED BY <1>2, <2>1, <2>2
<1>11. Within(bs, id, k)
  <2>1. j \in 1 .. k /\ bs[j].id = id /\ k <= EndOf(bs, j)
    <3>1. EndOf(bs, j) \in Nat
      BY <1>1, <1>5, EndFacts DEF n
    <3>. QED BY <1>2, <1>5, <1>7, <1>9, <1>10, <3>1
  <2>. QED BY <2>1 DEF Within
<1>. QED BY <1>11

LEMMA DeleteFacts ==
  ASSUME NEW bs \in Trees, NEW id
  PROVE  /\ DeleteBlock(bs, id) \in Trees
         /\ Members(DeleteBlock(bs, id)) = {bs[i] : i \in {i \in 1 .. Len(bs) : ~Within(bs, id, i)}}
         /\ id \notin Ids(DeleteBlock(bs, id))
         /\ \A i \in 1 .. Len(bs) : ~Within(bs, id, i) => bs[i].id \in Ids(DeleteBlock(bs, id))
         /\ Pictures(DeleteBlock(bs, id)) => Pictures(bs)
<1>. DEFINE n == Len(bs)
            Left(k) == {i \in 1 .. k : ~Within(bs, id, i)}
<1>1. n \in Nat /\ bs \in Seq(Blocks) /\ \A i \in 1 .. n : bs[i] \in Blocks
  BY TreeFacts
<1>2. PICK f \in [0 .. n -> Seq(Blocks)] :
        /\ f[0] = << >>
        /\ \A k \in 1 .. n : f[k] = IF Within(bs, id, k) THEN f[k - 1] ELSE Append(f[k - 1], bs[k])
        /\ DeleteBlock(bs, id) = f[n]
  BY DeleteRuns
<1>. DEFINE Good(k) == /\ Members(f[k]) = {bs[i] : i \in Left(k)}
                       /\ Len(f[k]) = 0 => Left(k) = {}
                       /\ Len(f[k]) > 0 => f[k][1].depth = 0
            G == {k \in 0 .. n : Good(k)}
<1>. HIDE DEF n
<1>3. 0 \in G
  <2>1. f[0] = << >> /\ Len(f[0]) = 0 /\ Members(f[0]) = {} /\ Left(0) = {}
    BY <1>2 DEF Members
  <2>. QED BY <1>1, <2>1
<1>4. ASSUME NEW k \in 1 .. n, k - 1 \in G PROVE k \in G
  <2>0. k - 1 \in 0 .. n /\ k \in 0 .. n /\ f[k - 1] \in Seq(Blocks) /\ Good(k - 1)
    BY <1>1, <1>4
  <2>1. CASE Within(bs, id, k)
    <3>1. Left(k) = Left(k - 1)
      <4>1. \A i \in 1 .. k : i # k => i \in 1 .. k - 1
        BY <1>1
      <4>2. \A i \in 1 .. k - 1 : i \in 1 .. k
        BY <1>1
      <4>. QED BY <2>1, <4>1, <4>2
    <3>2. f[k] = f[k - 1]
      BY <1>2, <2>1
    <3>. HIDE DEF Left
    <3>. QED BY <2>0, <3>1, <3>2
  <2>2. CASE ~Within(bs, id, k)
    <3>. DEFINE s == f[k - 1]
                t == Append(s, bs[k])
    <3>0. s \in Seq(Blocks) /\ Len(s) \in Nat /\ bs[k] \in Blocks
      BY <1>1, <2>0
    <3>1. Left(k) = Left(k - 1) \cup {k}
      <4>1. \A i \in 1 .. k : i # k => i \in 1 .. k - 1
        BY <1>1
      <4>2. \A i \in 1 .. k - 1 : i \in 1 .. k
        BY <1>1
      <4>3. k \in 1 .. k
        BY <1>1
      <4>. QED BY <2>2, <4>1, <4>2, <4>3
    <3>2. f[k] = t
      BY <1>2, <2>2
    <3>3. /\ t \in Seq(Blocks) /\ Len(t) = Len(s) + 1 /\ t[Len(s) + 1] = bs[k]
          /\ \A i \in 1 .. Len(s) : t[i] = s[i]
      <4>. HIDE DEF s
      <4>. QED BY <3>0
    <3>. HIDE DEF s, t, Left
    <3>4. Members(t) = Members(s) \cup {bs[k]}
      <4>1. \A i \in 1 .. Len(t) : i = Len(s) + 1 \/ i \in 1 .. Len(s)
        BY <3>0, <3>3
      <4>2. Len(s) + 1 \in 1 .. Len(t) /\ \A i \in 1 .. Len(s) : i \in 1 .. Len(t)
        BY <3>0, <3>3
      <4>. QED BY <3>3, <4>1, <4>2 DEF Members
    <3>5. Members(f[k]) = {bs[i] : i \in Left(k)}
      BY <2>0, <3>1, <3>2, <3>4 DEF s
    <3>6. f[k][1].depth = 0
      <4>1. CASE Len(s) = 0
        <5>1. t[1] = bs[k] /\ Left(k - 1) = {}
          BY <2>0, <3>3, <4>1 DEF s
        <5>2. \A i \in 1 .. k - 1 : Within(bs, id, i)
          BY <5>1 DEF Left
        <5>3. k \in 1 .. Len(bs)
          BY DEF n
        <5>4. bs[k].depth = 0
          BY <2>2, <5>2, <5>3, FirstLeft
        <5>. QED BY <3>2, <5>1, <5>4
      <4>2. CASE Len(s) > 0
        <5>1. 1 \in 1 .. Len(s) /\ s[1].depth = 0
          BY <2>0, <3>0, <4>2 DEF s
        <5>. QED BY <3>2, <3>3, <5>1
      <4>. QED BY <3>0, <4>1, <4>2
    <3>7. Len(f[k]) # 0
      BY <3>0, <3>2, <3>3
    <3>. QED BY <2>0, <3>5, <3>6, <3>7
  <2>. QED BY <2>1, <2>2
<1>5. \A k \in 0 .. n : k \in G
  <2>. HIDE DEF G
  <2>. QED BY <1>1, <1>3, <1>4, UpTo
<1>. DEFINE r == DeleteBlock(bs, id)
<1>6. /\ r \in Seq(Blocks) /\ Members(r) = {bs[i] : i \in Left(n)}
      /\ Len(r) > 0 => r[1].depth = 0
  BY <1>1, <1>2, <1>5
<1>. HIDE DEF r
<1>7. r \in Trees
  BY <1>6, MakesTree
<1>8. ASSUME NEW i \in Left(n) PROVE bs[i].id # id
  <2>1. i \in 1 .. Len(bs) /\ i \in Nat /\ EndOf(bs, i) \in Nat /\ i <= EndOf(bs, i)
    BY <1>1, EndFacts DEF n
  <2>2. i \in 1 .. i
    BY <2>1
  <2>. QED BY <2>1, <2>2 DEF Within
<1>9. id \notin Ids(r)
  <2>. HIDE DEF Left
  <2>. QED BY <1>6, <1>8, MemberFacts
<1>10. \A i \in 1 .. n : ~Within(bs, id, i) => bs[i].id \in Ids(r)
  BY <1>6, MemberFacts
<1>11. Pictures(r) => Pictures(bs)
  <2>1. Members(r) \subseteq Members(bs)
    BY <1>6 DEF Members, n
  <2>. QED BY <1>1, <1>6, <2>1, MemberFacts
<1>. QED BY <1>6, <1>7, <1>9, <1>10, <1>11 DEF r, n

(* Two neighbours that change places.                                          *)
Swapped(bs, first, second) ==
  SubSeq(bs, 1, first - 1) \o Part(bs, second) \o Part(bs, first)
    \o SubSeq(bs, EndOf(bs, second) + 1, Len(bs))

LEMMA SwapFacts ==
  ASSUME NEW bs \in Trees, NEW first \in 1 .. Len(bs), NEW second,
         second = EndOf(bs, first) + 1, second <= Len(bs), bs[second].depth = 0
  PROVE  /\ Swapped(bs, first, second) \in Trees
         /\ Members(Swapped(bs, first, second)) = Members(bs)
<1>. DEFINE n == Len(bs)
            r == Swapped(bs, first, second)
            end == EndOf(bs, second)
            e == EndOf(bs, first)
            a == SubSeq(bs, 1, first - 1)
            b == SubSeq(bs, second, end)
            c == SubSeq(bs, first, e)
            d == SubSeq(bs, end + 1, n)
<1>1. /\ n \in Nat /\ bs \in Seq(Blocks) /\ (n > 0 => bs[1].depth = 0)
      /\ e \in first .. n /\ first \in 1 .. n
  BY TreeFacts, EndFacts
<1>. HIDE DEF n, e, end, r
<1>2. second = e + 1 /\ second \in 1 .. n
  BY <1>1 DEF n, e
<1>3. end \in second .. n
  BY <1>1, <1>2, EndFacts DEF n, end
<1>4. /\ a \in Seq(Blocks) /\ Len(a) = first - 1 /\ Members(a) = {bs[i] : i \in 1 .. first - 1}
      /\ \A i \in 1 .. first - 1 : a[i] = bs[i]
  <2>1. 1 \in 1 .. n + 1 /\ first - 1 \in 1 - 1 .. n /\ (first - 1) - 1 + 1 = first - 1
    BY <1>1
  <2>2. \A i \in 1 .. first - 1 : 1 + i - 1 = i
    BY <1>1
  <2>3. /\ a \in Seq(Blocks) /\ Len(a) = (first - 1) - 1 + 1 /\ Members(a) = {bs[i] : i \in 1 .. first - 1}
        /\ \A i \in 1 .. (first - 1) - 1 + 1 : a[i] = bs[1 + i - 1]
    <3>1. 1 \in 1 .. Len(bs) + 1 /\ first - 1 \in 1 - 1 .. Len(bs)
      BY <2>1 DEF n
    <3>. QED BY <1>1, <3>1, PieceFacts
  <2>. HIDE DEF a
  <2>. QED BY <2>1, <2>2, <2>3
<1>5. /\ b \in Seq(Blocks) /\ Len(b) = end - second + 1 /\ Members(b) = {bs[i] : i \in second .. end}
      /\ b[1] = bs[second]
  <2>1. second \in 1 .. n + 1 /\ end \in second - 1 .. n /\ 1 \in 1 .. end - second + 1
        /\ second + 1 - 1 = second
    BY <1>1, <1>2, <1>3
  <2>2. /\ b \in Seq(Blocks) /\ Len(b) = end - second + 1 /\ Members(b) = {bs[i] : i \in second .. end}
        /\ \A i \in 1 .. end - second + 1 : b[i] = bs[second + i - 1]
    BY <1>1, <2>1, PieceFacts DEF n
  <2>. QED BY <2>1, <2>2
<1>6. c \in Seq(Blocks) /\ Members(c) = {bs[i] : i \in first .. e}
  <2>1. first \in 1 .. n + 1 /\ e \in first - 1 .. n
    BY <1>1
  <2>. QED BY <1>1, <2>1, PieceFacts DEF n
<1>7. d \in Seq(Blocks) /\ Members(d) = {bs[i] : i \in end + 1 .. n}
  <2>1. end + 1 \in 1 .. n + 1 /\ n \in (end + 1) - 1 .. n
    BY <1>1, <1>2, <1>3
  <2>. QED BY <1>1, <2>1, PieceFacts DEF n
<1>8. r = ((a \o b) \o c) \o d
  BY DEF Swapped, Part, r, e, n, end
<1>. HIDE DEF a, b, c, d
<1>9. /\ a \o b \in Seq(Blocks) /\ Len(a \o b) = Len(a) + Len(b)
      /\ \A i \in 1 .. Len(a) : (a \o b)[i] = a[i]
      /\ \A i \in 1 .. Len(b) : (a \o b)[Len(a) + i] = b[i]
      /\ Members(a \o b) = Members(a) \cup Members(b)
  BY <1>4, <1>5, JoinFacts, MembersJoin
<1>. DEFINE ab == a \o b
<1>. HIDE DEF ab
<1>10. /\ ab \o c \in Seq(Blocks) /\ Len(ab \o c) = Len(ab) + Len(c)
       /\ \A i \in 1 .. Len(ab) : (ab \o c)[i] = ab[i]
       /\ Members(ab \o c) = Members(ab) \cup Members(c)
  BY <1>6, <1>9, JoinFacts, MembersJoin DEF ab
<1>. DEFINE abc == ab \o c
<1>. HIDE DEF abc
<1>11. /\ abc \o d \in Seq(Blocks)
       /\ \A i \in 1 .. Len(abc) : (abc \o d)[i] = abc[i]
       /\ Members(abc \o d) = Members(abc) \cup Members(d)
  BY <1>7, <1>10, JoinFacts, MembersJoin DEF abc
<1>12. r = abc \o d
  BY <1>8 DEF ab, abc
<1>13. ab[1].depth = 0 /\ 1 \in 1 .. Len(ab)
  <2>0. Len(ab) = Len(a) + Len(b) /\ Len(a) = first - 1 /\ Len(b) >= 1 /\ Len(b) \in Nat
    BY <1>2, <1>3, <1>4, <1>5, <1>9 DEF ab
  <2>1. CASE first = 1
    <3>1. Len(a) = 0 /\ 1 \in 1 .. Len(b) /\ Len(a) + 1 = 1
      BY <2>0, <2>1
    <3>2. ab[1] = bs[second]
      BY <1>5, <1>9, <3>1 DEF ab
    <3>. QED BY <1>1, <2>0, <3>1, <3>2
  <2>2. CASE first # 1
    <3>1. 1 \in 1 .. Len(a) /\ 1 \in 1 .. first - 1 /\ n > 0
      BY <1>1, <2>0, <2>2
    <3>2. ab[1] = bs[1]
      BY <1>4, <1>9, <3>1 DEF ab
    <3>. QED BY <1>1, <2>0, <3>1, <3>2
  <2>. QED BY <2>1, <2>2
<1>14. r[1].depth = 0
  <2>1. 1 \in 1 .. Len(abc)
    BY <1>6, <1>10, <1>13 DEF abc
  <2>2. abc[1] = ab[1]
    BY <1>10, <1>13 DEF abc
  <2>. QED BY <1>11, <1>12, <1>13, <2>1, <2>2
<1>15. Members(r) = Members(bs)
  <2>1. Members(r) = {bs[i] : i \in 1 .. first - 1} \cup {bs[i] : i \in second .. end}
                       \cup {bs[i] : i \in first .. e} \cup {bs[i] : i \in end + 1 .. n}
    <3>1. Members(ab) = Members(a) \cup Members(b)
      BY <1>9 DEF ab
    <3>2. Members(abc) = Members(ab) \cup Members(c)
      BY <1>10 DEF abc
    <3>. QED BY <1>4, <1>5, <1>6, <1>7, <1>11, <1>12, <3>1, <3>2
  <2>2. \A i \in 1 .. n : \/ i \in 1 .. first - 1 \/ i \in second .. end
                          \/ i \in first .. e \/ i \in end + 1 .. n
    BY <1>1, <1>2, <1>3
  <2>3. \A i : i \in 1 .. first - 1 \/ i \in second .. end \/ i \in first .. e \/ i \in end + 1 .. n
               => i \in 1 .. n
    BY <1>1, <1>2, <1>3
  <2>4. Members(bs) = {bs[i] : i \in 1 .. n}
    BY DEF Members, n
  <2>5. ASSUME NEW x \in Members(r) PROVE x \in {bs[i] : i \in 1 .. n}
    <3>1. \E i : /\ i \in 1 .. first - 1 \/ i \in second .. end
                    \/ i \in first .. e \/ i \in end + 1 .. n
                 /\ x = bs[i]
      BY <2>1
    <3>. QED BY <2>3, <3>1
  <2>6. ASSUME NEW i \in 1 .. n PROVE bs[i] \in Members(r)
    BY <2>1, <2>2
  <2>. HIDE DEF n
  <2>. QED BY <2>4, <2>5, <2>6
<1>16. r \in Seq(Blocks)
  BY <1>11, <1>12
<1>. QED BY <1>14, <1>15, <1>16, MakesTree DEF r

(* The top-level block before a top-level block.                               *)
LEMMA BlockBefore ==
  ASSUME NEW bs \in Trees, NEW i \in 1 .. Len(bs), i # 1, bs[i].depth = 0
  PROVE  \E j \in 1 .. i - 1 : bs[j].depth = 0 /\ EndOf(bs, j) = i - 1
<1>. DEFINE n == Len(bs)
            T == {j \in 1 .. i - 1 : bs[j].depth = 0}
<1>1. n \in Nat /\ (\A k \in 1 .. n : bs[k].depth \in Nat) /\ (n > 0 => bs[1].depth = 0)
  BY TreeFacts
<1>2. i \in 1 .. n /\ i # 1
  OBVIOUS
<1>. HIDE DEF n
<1>3. 1 \in T /\ T \in SUBSET (0 .. n)
  BY <1>1, <1>2
<1>4. PICK j \in T : \A k \in T : k <= j
  <2>. HIDE DEF T
  <2>. QED BY <1>1, <1>3, Greatest
<1>5. j \in 1 .. n /\ j \in 1 .. i - 1 /\ bs[j].depth = 0
  BY <1>1, <1>2
<1>6. /\ EndOf(bs, j) \in j .. n
      /\ \A k \in j + 1 .. EndOf(bs, j) : bs[k].depth > bs[j].depth
      /\ EndOf(bs, j) < n => bs[EndOf(bs, j) + 1].depth <= bs[j].depth
  BY <1>5, EndFacts DEF n
<1>7. ~(EndOf(bs, j) >= i)
  <2>. SUFFICES ASSUME EndOf(bs, j) >= i PROVE FALSE
    OBVIOUS
  <2>1. i \in j + 1 .. EndOf(bs, j)
    BY <1>1, <1>2, <1>5, <1>6
  <2>2. bs[i].depth > bs[j].depth
    BY <1>6, <2>1
  <2>. QED BY <1>5, <2>2
<1>8. ~(EndOf(bs, j) < i - 1)
  <2>. SUFFICES ASSUME EndOf(bs, j) < i - 1 PROVE FALSE
    OBVIOUS
  <2>. DEFINE k == EndOf(bs, j) + 1
  <2>1. k \in 1 .. i - 1 /\ k \in 1 .. n /\ ~(k <= j) /\ EndOf(bs, j) < n
    BY <1>1, <1>2, <1>5, <1>6
  <2>2. bs[k].depth <= 0 /\ bs[k].depth \in Nat
    BY <1>1, <1>5, <1>6, <2>1
  <2>3. k \in T
    BY <2>1, <2>2
  <2>. HIDE DEF k
  <2>. QED BY <1>4, <2>1, <2>3
<1>9. EndOf(bs, j) = i - 1
  <2>1. EndOf(bs, j) \in Int /\ i \in Int
    BY <1>2, <1>6
  <2>. QED BY <1>7, <1>8, <2>1
<1>. QED BY <1>5, <1>9

LEMMA MoveFacts ==
  ASSUME NEW bs \in Trees, NEW id, NEW direction \in {"up", "down"}
  PROVE  /\ MoveBlock(bs, id, direction) \in Trees
         /\ Members(MoveBlock(bs, id, direction)) = Members(bs)
<1>. DEFINE i == TopIndexOf(bs, id)
            Still == \/ i = 0
                     \/ direction = "up" /\ i = 1
                     \/ direction = "down" /\ EndOf(bs, i) = Len(bs)
            first == IF direction = "down" THEN i
                     ELSE CHOOSE j \in 1 .. i - 1 : bs[j].depth = 0 /\ EndOf(bs, j) = i - 1
            second == EndOf(bs, first) + 1
<1>0. /\ i \in 0 .. Len(bs) /\ (i # 0 => bs[i].depth = 0) /\ Len(bs) \in Nat
      /\ \A k \in 1 .. Len(bs) : bs[k].depth \in Nat
  BY TopFacts, TreeFacts
<1>1. MoveBlock(bs, id, direction) =
        IF Still THEN bs
        ELSE SubSeq(bs, 1, first - 1) \o Part(bs, second) \o Part(bs, first)
               \o SubSeq(bs, EndOf(bs, second) + 1, Len(bs))
  BY DEF MoveBlock
<1>2. CASE Still
  BY <1>1, <1>2
<1>3. CASE ~Still
  <2>1. i \in 1 .. Len(bs) /\ bs[i].depth = 0 /\ i # 0
    <3>. HIDE DEF i
    <3>. QED BY <1>0, <1>3
  <2>2. first \in 1 .. Len(bs) /\ second <= Len(bs) /\ bs[second].depth = 0
    <3>1. CASE direction = "down"
      <4>1. first = i
        BY <3>1
      <4>. HIDE DEF i, first
      <4>2. /\ EndOf(bs, i) \in i .. Len(bs) /\ EndOf(bs, i) # Len(bs)
            /\ EndOf(bs, i) < Len(bs) => bs[EndOf(bs, i) + 1].depth <= bs[i].depth
        BY <1>3, <2>1, <3>1, EndFacts
      <4>3. EndOf(bs, i) < Len(bs) /\ second \in 1 .. Len(bs) /\ second = EndOf(bs, i) + 1
        BY <1>0, <2>1, <4>1, <4>2
      <4>4. bs[second].depth \in Nat /\ bs[second].depth <= 0
        BY <1>0, <2>1, <4>2, <4>3
      <4>. QED BY <1>0, <2>1, <4>1, <4>3, <4>4
    <3>2. CASE direction = "up"
      <4>1. i # 1
        BY <1>3, <3>2
      <4>2. first = CHOOSE j \in 1 .. i - 1 : bs[j].depth = 0 /\ EndOf(bs, j) = i - 1
        BY <3>2
      <4>. HIDE DEF i, first
      <4>3. first \in 1 .. i - 1 /\ bs[first].depth = 0 /\ EndOf(bs, first) = i - 1
        BY <2>1, <4>1, <4>2, BlockBefore
      <4>4. second = i
        BY <2>1, <4>3
      <4>. QED BY <1>0, <2>1, <4>3, <4>4
    <3>. QED BY <3>1, <3>2
  <2>3. MoveBlock(bs, id, direction) = Swapped(bs, first, second)
    BY <1>1, <1>3 DEF Swapped
  <2>4. second = EndOf(bs, first) + 1
    OBVIOUS
  <2>. HIDE DEF first, second
  <2>. QED BY <2>2, <2>3, <2>4, SwapFacts
<1>. QED BY <1>2, <1>3

(* A copy of a block with its descendants, behind it.                          *)
LEMMA DuplicateFacts ==
  ASSUME NEW bs \in Trees, NEW id, NEW fresh \in Nat
  PROVE  /\ DuplicateBlock(bs, id, fresh) \in Trees
         /\ Ids(bs) \subseteq Ids(DuplicateBlock(bs, id, fresh))
         /\ Pictures(DuplicateBlock(bs, id, fresh)) => Pictures(bs)
<1>. DEFINE i == TopIndexOf(bs, id)
            part == Part(bs, i)
            clone == CloneBlock(part, fresh)
<1>1. bs \in Seq(Blocks) /\ Len(bs) \in Nat /\ i \in 0 .. Len(bs) /\ (i # 0 => bs[i].depth = 0)
  BY TopFacts, TreeFacts
<1>2. DuplicateBlock(bs, id, fresh) = IF i = 0 THEN bs ELSE InsertBlocks(bs, clone, id)
  BY DEF DuplicateBlock
<1>. HIDE DEF i
<1>3. CASE i = 0
  BY <1>2, <1>3
<1>4. CASE i # 0
  <2>1. i \in 1 .. Len(bs) /\ EndOf(bs, i) \in i .. Len(bs)
    BY <1>1, <1>4, EndFacts
  <2>2. part \in Seq(Blocks) /\ part[1] = bs[i] /\ Members(part) \subseteq Members(bs)
    <3>1. /\ i \in 1 .. Len(bs) + 1 /\ EndOf(bs, i) \in i - 1 .. Len(bs)
          /\ 1 \in 1 .. EndOf(bs, i) - i + 1 /\ i + 1 - 1 = i
          /\ \A k \in i .. EndOf(bs, i) : k \in 1 .. Len(bs)
      BY <1>1, <2>1
    <3>2. /\ part \in Seq(Blocks)
          /\ \A k \in 1 .. EndOf(bs, i) - i + 1 : part[k] = bs[i + k - 1]
          /\ Members(part) = {bs[k] : k \in i .. EndOf(bs, i)}
      BY <1>1, <3>1, PieceFacts DEF Part
    <3>3. Members(part) \subseteq Members(bs)
      BY <3>1, <3>2 DEF Members
    <3>. HIDE DEF part
    <3>. QED BY <3>1, <3>2, <3>3
  <2>. HIDE DEF part
  <2>3. clone = [k \in DOMAIN part |-> [part[k] EXCEPT !.id = fresh + k - 1]]
    BY DEF CloneBlock
  <2>4. Len(part) \in Nat /\ DOMAIN part = 1 .. Len(part) /\ \A k \in 1 .. Len(part) : part[k] \in Blocks
    BY <2>2
  <2>5. ASSUME NEW k \in 1 .. Len(part)
        PROVE  /\ clone[k] \in Blocks /\ clone[k].depth = part[k].depth
               /\ IsPicture(clone[k]) => IsPicture(part[k])
    <3>1. clone[k] = [part[k] EXCEPT !.id = fresh + k - 1] /\ part[k] \in Blocks /\ fresh + k - 1 \in Nat
      BY <2>3, <2>4
    <3>. QED BY <3>1 DEF Blocks, IsPicture
  <2>6. clone \in [1 .. Len(part) -> Blocks]
    BY <2>3, <2>4, <2>5
  <2>7. clone \in Seq(Blocks) /\ Len(clone) = Len(part) /\ DOMAIN clone = 1 .. Len(part)
    BY <2>4, <2>6, FunctionIsSeq
  <2>. HIDE DEF clone
  <2>8. clone \in Trees
    <3>1. Len(clone) > 0 => 1 \in 1 .. Len(part)
      BY <2>4, <2>7
    <3>2. Len(clone) > 0 => clone[1].depth = 0
      BY <1>1, <1>4, <2>2, <2>5, <3>1
    <3>. QED BY <2>7, <3>2, MakesTree
  <2>9. Pictures(clone) => Pictures(bs)
    <3>1. Pictures(clone) => Pictures(part)
      BY <2>4, <2>5, <2>7 DEF Pictures
    <3>2. Pictures(part) => Pictures(bs)
      BY <1>1, <2>2, MemberFacts
    <3>. QED BY <3>1, <3>2
  <2>. QED BY <1>2, <1>4, <2>8, <2>9, InsertFacts
<1>. QED BY <1>3, <1>4

-----------------------------------------------------------------------------
(* The store: what the messages of the reducer do to it.                     *)

Stores == {s \in EditorStates : Len(s.hist.past) + Len(s.hist.future) <= MaxEntries}

\* All the documents of a store are in S: the one shown, and the snapshots.
Holds(s, S) == s.doc \in S /\ s.hist \in Stacks(S)

\* An edit keeps the identity of a document and the bundle of its pictures.
Kin(d, e) == e \in Documents /\ e.id = d.id /\ e.pics = d.pics
Closed(S) == S \in SUBSET Documents /\ \A d \in S : \A e \in Documents : Kin(d, e) => e \in S

Own(id) == {d \in Documents : d.id = id}
Pictured(p) == {d \in Documents : HasPictures(d) => d.pics = p}

Same(s, t) == t.doc = s.doc /\ t.hist = s.hist /\ t.dirty = s.dirty
Frame(s, t) == t.path = s.path /\ t.analyzing = s.analyzing /\ t.exporting = s.exporting

\* Messages that select, and messages that edit.
Work(s, t) ==
  /\ t \in Stores /\ Frame(s, t)
  /\ \A S \in SUBSET Documents : Closed(S) /\ Holds(s, S) => Holds(t, S)
  /\ Same(s, t) \/ (t.dirty /\ t.doc = t.hist.present /\ Edits(s.hist, t.hist))

\* They bring no picture of a bundle into the documents.
Painted(s, t) == \A p : Holds(s, Pictured(p)) => Holds(t, Pictured(p))

\* They leave the selection, and every identity, where it was.
Keeps(s, t) ==
  /\ t.sel = s.sel /\ t.ed = s.ed /\ t.tok = s.tok /\ t.ctx = s.ctx
  /\ Ids(s.doc.blocks) \subseteq Ids(t.doc.blocks)

LEMMA StateFacts ==
  ASSUME NEW s \in Stores
  PROVE  /\ s \in EditorStates /\ s.doc \in Documents /\ s.hist \in Stacks(Documents)
         /\ Len(s.hist.past) \in Nat /\ Len(s.hist.future) \in Nat
         /\ Len(s.hist.past) + Len(s.hist.future) <= MaxEntries
         /\ s.sel \in Nat \cup {Null} /\ s.ed \in Nat \cup {Null} /\ s.tok \in Nat \cup {Null}
         /\ s.ctx \in Contexts /\ s.path \in Paths \cup {Null}
         /\ {s.analyzing, s.exporting, s.dirty, s.summary} \subseteq BOOLEAN
         /\ s.doc.blocks \in Trees
<1>1. s \in EditorStates /\ Len(s.hist.past) + Len(s.hist.future) <= MaxEntries
  BY DEF Stores
<1>2. /\ s.doc \in Documents /\ s.hist \in Stacks(Documents)
      /\ s.sel \in Nat \cup {Null} /\ s.ed \in Nat \cup {Null} /\ s.tok \in Nat \cup {Null}
      /\ s.ctx \in Contexts /\ s.path \in Paths \cup {Null}
      /\ {s.analyzing, s.exporting, s.dirty, s.summary} \subseteq BOOLEAN
  BY <1>1 DEF EditorStates, Stacks
<1>3. Len(s.hist.past) \in Nat /\ Len(s.hist.future) \in Nat
  BY <1>2 DEF Stacks
<1>4. s.doc.blocks \in Trees
  BY <1>2 DEF Documents
<1>. QED BY <1>1, <1>2, <1>3, <1>4

LEMMA StackAt == ASSUME NEW S, NEW h \in Stacks(S) PROVE At(h) \in Nat \ {0}
BY DEF At, Stacks

LEMMA LookWork ==
  ASSUME NEW s \in Stores, NEW t \in Stores, Same(s, t), Frame(s, t)
  PROVE  Work(s, t) /\ Painted(s, t)
BY DEF Work, Painted, Same, Holds

LEMMA WorkTwice ==
  ASSUME NEW s \in Stores, NEW t \in Stores, NEW u, Work(s, t), Work(t, u)
  PROVE  Work(s, u)
<1>1. u \in Stores /\ Frame(s, u)
  BY DEF Work, Frame
<1>2. \A S \in SUBSET Documents : Closed(S) /\ Holds(s, S) => Holds(u, S)
  BY DEF Work
<1>3. At(s.hist) \in Nat \ {0} /\ At(t.hist) \in Nat \ {0} /\ At(u.hist) \in Nat \ {0}
  BY <1>1, StateFacts, StackAt
<1>4. Same(s, u) \/ (u.dirty /\ u.doc = u.hist.present /\ Edits(s.hist, u.hist))
  <2>1. CASE Same(s, t) /\ Same(t, u)
    BY <2>1 DEF Same
  <2>2. CASE Same(s, t) /\ ~Same(t, u)
    BY <2>2 DEF Same, Work
  <2>3. CASE ~Same(s, t) /\ Same(t, u)
    BY <2>3 DEF Same, Work
  <2>4. CASE ~Same(s, t) /\ ~Same(t, u)
    <3>1. Edits(s.hist, t.hist) /\ Edits(t.hist, u.hist) /\ u.dirty /\ u.doc = u.hist.present
      BY <2>4 DEF Work
    <3>2. Edits(s.hist, u.hist)
      BY <1>3, <3>1, EditsTwice
    <3>. QED BY <3>1, <3>2
  <2>. QED BY <2>1, <2>2, <2>3, <2>4
<1>. QED BY <1>1, <1>2, <1>4 DEF Work

LEMMA PaintedTwice ==
  ASSUME NEW s, NEW t, NEW u, Painted(s, t), Painted(t, u)
  PROVE  Painted(s, u)
BY DEF Painted

LEMMA KeepsTwice ==
  ASSUME NEW s, NEW t, NEW u, Keeps(s, t), Keeps(t, u)
  PROVE  Keeps(s, u)
BY DEF Keeps

(* A mutation: the document becomes d, and d the newest snapshot.              *)
LEMMA MutatedWork ==
  ASSUME NEW s \in Stores, NEW d, Kin(s.doc, d)
  PROVE  /\ Mutated(s, d) \in Stores /\ Work(s, Mutated(s, d))
         /\ \A S : d \in S /\ Holds(s, S) => Holds(Mutated(s, d), S)
         /\ (HasPictures(d) => HasPictures(s.doc)) => Painted(s, Mutated(s, d))
         /\ Mutated(s, d).doc = d /\ Mutated(s, d).sel = s.sel /\ Mutated(s, d).ed = s.ed
         /\ Mutated(s, d).tok = s.tok /\ Mutated(s, d).ctx = s.ctx
<1>. DEFINE t == Mutated(s, d)
            h == PushHistory(s.hist, d, MaxEntries)
<1>1. /\ s \in EditorStates /\ s.hist \in Stacks(Documents) /\ s.doc \in Documents /\ d \in Documents
      /\ Len(s.hist.past) \in Nat
  BY StateFacts DEF Kin
<1>2. /\ h \in Stacks(Documents) /\ h.present = d /\ h.future = << >>
      /\ Len(h.past) = Len(s.hist.past) + 1 - Over(s.hist, MaxEntries)
  BY <1>1, Pushed, MaxEntriesAssumption
<1>3. Len(h.past) + Len(h.future) <= MaxEntries
  <2>1. Len(h.future) = 0
    BY <1>2
  <2>2. MaxEntries \in Nat
    BY MaxEntriesAssumption
  <2>. HIDE DEF h
  <2>. QED BY <1>1, <1>2, <2>1, <2>2 DEF Over
<1>4. t = [s EXCEPT !.doc = d, !.hist = h, !.dirty = TRUE]
  BY DEF Mutated
<1>5. Edits(s.hist, h)
  BY <1>1, PushEdits
<1>6. \A S : d \in S /\ s.hist \in Stacks(S) => h \in Stacks(S)
  BY Pushed, MaxEntriesAssumption
<1>. HIDE DEF h, t
<1>7. /\ t \in EditorStates /\ t.doc = d /\ t.hist = h /\ t.dirty = TRUE /\ Frame(s, t)
      /\ t.sel = s.sel /\ t.ed = s.ed /\ t.tok = s.tok /\ t.ctx = s.ctx
  BY <1>1, <1>2, <1>4 DEF EditorStates, Frame, Stacks
<1>8. t \in Stores
  BY <1>3, <1>7 DEF Stores
<1>9. \A S : d \in S /\ Holds(s, S) => Holds(t, S)
  BY <1>6, <1>7 DEF Holds
<1>10. \A S \in SUBSET Documents : Closed(S) /\ Holds(s, S) => Holds(t, S)
  <2>1. \A S \in SUBSET Documents : Closed(S) /\ Holds(s, S) => d \in S
    BY <1>1 DEF Closed, Holds
  <2>. QED BY <1>9, <2>1
<1>11. Work(s, t)
  BY <1>2, <1>5, <1>7, <1>8, <1>10 DEF Work
<1>12. ASSUME HasPictures(d) => HasPictures(s.doc) PROVE Painted(s, t)
  <2>1. \A p : Holds(s, Pictured(p)) => d \in Pictured(p)
    BY <1>1, <1>12 DEF Holds, Pictured, Kin
  <2>. QED BY <1>9, <2>1 DEF Painted
<1>. QED BY <1>7, <1>8, <1>9, <1>11, <1>12 DEF t

(* Other blocks, with the identities there were.                               *)
LEMMA BlocksWork ==
  ASSUME NEW s \in Stores, NEW bs \in Trees
  PROVE  /\ WithBlocks(s, bs) \in Stores /\ Work(s, WithBlocks(s, bs))
         /\ WithBlocks(s, bs).doc.blocks = bs
         /\ WithBlocks(s, bs).sel = s.sel /\ WithBlocks(s, bs).ed = s.ed
         /\ WithBlocks(s, bs).tok = s.tok /\ WithBlocks(s, bs).ctx = s.ctx
         /\ Ids(s.doc.blocks) \subseteq Ids(bs) => Keeps(s, WithBlocks(s, bs))
         /\ (Pictures(bs) => Pictures(s.doc.blocks)) => Painted(s, WithBlocks(s, bs))
<1>. DEFINE d == [s.doc EXCEPT !.blocks = bs]
<1>1. s.doc \in Documents
  BY StateFacts
<1>2. Kin(s.doc, d) /\ d.blocks = bs
  BY <1>1 DEF Kin, Documents
<1>3. WithBlocks(s, bs) = Mutated(s, d)
  BY DEF WithBlocks
<1>4. HasPictures(d) = Pictures(bs) /\ HasPictures(s.doc) = Pictures(s.doc.blocks)
  BY <1>2, HasPicturesIs
<1>. HIDE DEF d
<1>5. /\ Mutated(s, d) \in Stores /\ Work(s, Mutated(s, d))
      /\ (HasPictures(d) => HasPictures(s.doc)) => Painted(s, Mutated(s, d))
      /\ Mutated(s, d).doc = d /\ Mutated(s, d).sel = s.sel /\ Mutated(s, d).ed = s.ed
      /\ Mutated(s, d).tok = s.tok /\ Mutated(s, d).ctx = s.ctx
  BY <1>2, MutatedWork
<1>. QED BY <1>2, <1>3, <1>4, <1>5 DEF Keeps

(* Another document with the blocks there were.                                *)
LEMMA HeadWork ==
  ASSUME NEW s \in Stores, NEW d, Kin(s.doc, d), d.blocks = s.doc.blocks
  PROVE  /\ Mutated(s, d) \in Stores /\ Work(s, Mutated(s, d))
         /\ Keeps(s, Mutated(s, d)) /\ Painted(s, Mutated(s, d))
<1>1. /\ Mutated(s, d) \in Stores /\ Work(s, Mutated(s, d))
      /\ (HasPictures(d) => HasPictures(s.doc)) => Painted(s, Mutated(s, d))
      /\ Mutated(s, d).doc = d /\ Mutated(s, d).sel = s.sel /\ Mutated(s, d).ed = s.ed
      /\ Mutated(s, d).tok = s.tok /\ Mutated(s, d).ctx = s.ctx
  BY MutatedWork
<1>. QED BY <1>1, HasPicturesIs DEF Keeps

(* Blocks that are changed in place.                                           *)
LEMMA InPlaceWork ==
  ASSUME NEW s \in Stores, NEW nb, nb = [i \in DOMAIN s.doc.blocks |-> nb[i]],
         \A i \in 1 .. Len(s.doc.blocks) :
           /\ nb[i] \in Blocks /\ nb[i].id = s.doc.blocks[i].id
           /\ nb[i].depth = s.doc.blocks[i].depth
  PROVE  /\ nb \in Trees /\ WithBlocks(s, nb) \in Stores
         /\ Work(s, WithBlocks(s, nb)) /\ Keeps(s, WithBlocks(s, nb))
         /\ (\A i \in 1 .. Len(s.doc.blocks) : IsPicture(nb[i]) => IsPicture(s.doc.blocks[i]))
              => Painted(s, WithBlocks(s, nb))
<1>. DEFINE bs == s.doc.blocks
<1>1. bs \in Trees
  BY StateFacts
<1>. HIDE DEF bs
<1>2. /\ nb \in Trees /\ Ids(nb) = Ids(bs)
      /\ (\A i \in 1 .. Len(bs) : IsPicture(nb[i]) => IsPicture(bs[i]))
           => (Pictures(nb) => Pictures(bs))
  BY <1>1, Mapped DEF bs
<1>. QED BY <1>2, BlocksWork DEF bs

LEMMA TextFacts ==
  /\ {"asset"} \in Texts /\ {"local"} \in Texts /\ Empty \in Texts
  /\ \A w \in Words : w \in Texts
  /\ \A t, u \in Texts : t \cup u \in Texts
<1>. DEFINE V == WordsRead \cup {"asset", "local"} \cup UNION Words
<1>1. Texts = SUBSET V
  BY DEF Texts
<1>2. "asset" \in V /\ "local" \in V /\ UNION Words \subseteq V
  OBVIOUS
<1>. HIDE DEF V
<1>3. {"asset"} \in SUBSET V /\ {"local"} \in SUBSET V
  BY <1>2
<1>4. \A w \in Words : w \in SUBSET V
  BY <1>2
<1>. QED BY <1>1, <1>3, <1>4 DEF Empty

\* What one message makes of a block. A picture of a bundle is not among it.
Patched(b, q) ==
  \/ q = b
  \/ \E t \in Texts : (b.type = "img" => t # {"asset"}) /\ q = [b EXCEPT !.text = t]
  \/ \E t \in {"p", "h"} : q = [b EXCEPT !.type = t]
  \/ \E x \in BOOLEAN : q = [b EXCEPT !.over = x] \/ q = [b EXCEPT !.attr = x]
  \/ \E c \in Classes \cup {Null} : q = [b EXCEPT !.style = c]
  \/ \E c \in Classes \cup {Null}, x \in BOOLEAN : q = [b EXCEPT !.style = c, !.over = x]

Gentle(s, t) == Work(s, t) /\ Painted(s, t) /\ Keeps(s, t)

LEMMA PatchFacts ==
  ASSUME NEW b \in Blocks, NEW q, Patched(b, q)
  PROVE  q \in Blocks /\ q.id = b.id /\ q.depth = b.depth /\ (IsPicture(q) => IsPicture(b))
<1>1. CASE \E t \in Texts : (b.type = "img" => t # {"asset"}) /\ q = [b EXCEPT !.text = t]
  <2>1. PICK t \in Texts : (b.type = "img" => t # {"asset"}) /\ q = [b EXCEPT !.text = t]
    BY <1>1
  <2>2. q \in Blocks /\ q.id = b.id /\ q.depth = b.depth /\ q.type = b.type /\ q.text = t
    BY <2>1 DEF Blocks
  <2>. QED BY <2>1, <2>2 DEF IsPicture
<1>2. CASE \E t \in {"p", "h"} : q = [b EXCEPT !.type = t]
  BY <1>2 DEF Blocks, IsPicture
<1>3. CASE \E x \in BOOLEAN : q = [b EXCEPT !.over = x] \/ q = [b EXCEPT !.attr = x]
  BY <1>3 DEF Blocks, IsPicture
<1>4. CASE \E c \in Classes \cup {Null} : q = [b EXCEPT !.style = c]
  BY <1>4 DEF Blocks, IsPicture
<1>5. CASE \E c \in Classes \cup {Null}, x \in BOOLEAN : q = [b EXCEPT !.style = c, !.over = x]
  BY <1>5 DEF Blocks, IsPicture
<1>6. CASE q = b
  BY <1>6 DEF Blocks
<1>. QED BY <1>1, <1>2, <1>3, <1>4, <1>5, <1>6 DEF Patched

LEMMA GentleTwice ==
  ASSUME NEW s \in Stores, NEW t, NEW u, Gentle(s, t), Gentle(t, u)
  PROVE  Gentle(s, u) /\ u \in Stores
<1>1. t \in Stores /\ u \in Stores
  BY DEF Gentle, Work
<1>. QED BY <1>1, WorkTwice, PaintedTwice, KeepsTwice DEF Gentle

LEMMA GentleStores == ASSUME NEW s, NEW t, Gentle(s, t) PROVE t \in Stores
BY DEF Gentle, Work

LEMMA PatchWork ==
  ASSUME NEW s \in Stores, NEW nb, nb = [i \in DOMAIN s.doc.blocks |-> nb[i]],
         \A i \in 1 .. Len(s.doc.blocks) : Patched(s.doc.blocks[i], nb[i])
  PROVE  Gentle(s, WithBlocks(s, nb))
<1>. DEFINE bs == s.doc.blocks
<1>1. bs \in Trees /\ \A i \in 1 .. Len(bs) : bs[i] \in Blocks
  BY StateFacts, TreeFacts
<1>. HIDE DEF bs
<1>2. \A i \in 1 .. Len(bs) :
        /\ nb[i] \in Blocks /\ nb[i].id = bs[i].id /\ nb[i].depth = bs[i].depth
        /\ IsPicture(nb[i]) => IsPicture(bs[i])
  BY <1>1, PatchFacts DEF bs
<1>. QED BY <1>2, InPlaceWork DEF bs, Gentle

(* The blocks of one identity are changed, every one in its way.               *)
LEMMA UpdateWork ==
  ASSUME NEW s \in Stores, NEW id, NEW F,
         \A i \in 1 .. Len(s.doc.blocks) : Patched(s.doc.blocks[i], F[i])
  PROVE  Gentle(s, WithBlocks(s, [i \in DOMAIN s.doc.blocks |->
                                    IF s.doc.blocks[i].id = id THEN F[i] ELSE s.doc.blocks[i]]))
<1>. DEFINE nb == [i \in DOMAIN s.doc.blocks |->
                     IF s.doc.blocks[i].id = id THEN F[i] ELSE s.doc.blocks[i]]
<1>1. s.doc.blocks \in Trees /\ DOMAIN s.doc.blocks = 1 .. Len(s.doc.blocks)
  BY StateFacts, TreeFacts
<1>2. \A i \in 1 .. Len(s.doc.blocks) : Patched(s.doc.blocks[i], s.doc.blocks[i])
  BY DEF Patched
<1>3. \A i \in 1 .. Len(s.doc.blocks) : Patched(s.doc.blocks[i], nb[i])
  BY <1>1, <1>2
<1>4. nb = [i \in DOMAIN s.doc.blocks |-> nb[i]]
  OBVIOUS
<1>. HIDE DEF nb
<1>5. Gentle(s, WithBlocks(s, nb))
  BY <1>3, <1>4, PatchWork
<1>. QED BY <1>5 DEF nb

LEMMA SetBlockSpansWork ==
  ASSUME NEW s \in Stores, NEW id, NEW text \in Texts
  PROVE  Gentle(s, SetBlockSpans(s, id, text))
<1>. DEFINE bs == s.doc.blocks
            F == [i \in DOMAIN bs |-> IF IsText(bs[i]) THEN [bs[i] EXCEPT !.text = text] ELSE bs[i]]
<1>1. DOMAIN bs = 1 .. Len(bs)
  BY StateFacts, TreeFacts
<1>2. \A i \in 1 .. Len(bs) : Patched(bs[i], F[i])
  <2>. SUFFICES ASSUME NEW i \in 1 .. Len(bs) PROVE Patched(bs[i], F[i])
    OBVIOUS
  <2>1. CASE IsText(bs[i])
    <3>1. F[i] = [bs[i] EXCEPT !.text = text] /\ bs[i].type # "img"
      BY <1>1, <2>1 DEF IsText
    <3>. HIDE DEF F
    <3>. QED BY <3>1 DEF Patched
  <2>2. CASE ~IsText(bs[i])
    BY <1>1, <2>2 DEF Patched
  <2>. QED BY <2>1, <2>2
<1>3. SetBlockSpans(s, id, text) =
        WithBlocks(s, [i \in DOMAIN bs |-> IF bs[i].id = id THEN F[i] ELSE bs[i]])
  BY DEF SetBlockSpans, Update, UpdateBlock
<1>. HIDE DEF F
<1>. QED BY <1>2, <1>3, UpdateWork

LEMMA SetBlockTextWork ==
  ASSUME NEW s \in Stores, NEW id, NEW text \in Texts
  PROVE  Gentle(s, SetBlockText(s, id, text))
<1>. DEFINE bs == s.doc.blocks
            F == [i \in DOMAIN bs |-> IF bs[i].type = "code" THEN [bs[i] EXCEPT !.text = text] ELSE bs[i]]
<1>1. DOMAIN bs = 1 .. Len(bs)
  BY StateFacts, TreeFacts
<1>2. \A i \in 1 .. Len(bs) : Patched(bs[i], F[i])
  <2>. SUFFICES ASSUME NEW i \in 1 .. Len(bs) PROVE Patched(bs[i], F[i])
    OBVIOUS
  <2>1. CASE bs[i].type = "code"
    <3>1. F[i] = [bs[i] EXCEPT !.text = text] /\ bs[i].type # "img"
      BY <1>1, <2>1
    <3>. HIDE DEF F
    <3>. QED BY <3>1 DEF Patched
  <2>2. CASE bs[i].type # "code"
    BY <1>1, <2>2 DEF Patched
  <2>. QED BY <2>1, <2>2
<1>3. SetBlockText(s, id, text) =
        WithBlocks(s, [i \in DOMAIN bs |-> IF bs[i].id = id THEN F[i] ELSE bs[i]])
  BY DEF SetBlockText, Update, UpdateBlock
<1>. HIDE DEF F
<1>. QED BY <1>2, <1>3, UpdateWork

LEMMA ChangeBlockTypeWork ==
  ASSUME NEW s \in Stores, NEW id, NEW type \in {"p", "h"}
  PROVE  Gentle(s, ChangeBlockType(s, id, type))
<1>. DEFINE bs == s.doc.blocks
            F == [i \in DOMAIN bs |-> IF IsText(bs[i]) THEN [bs[i] EXCEPT !.type = type] ELSE bs[i]]
<1>1. DOMAIN bs = 1 .. Len(bs)
  BY StateFacts, TreeFacts
<1>2. \A i \in 1 .. Len(bs) : Patched(bs[i], F[i])
  <2>. SUFFICES ASSUME NEW i \in 1 .. Len(bs) PROVE Patched(bs[i], F[i])
    OBVIOUS
  <2>1. CASE IsText(bs[i])
    BY <1>1, <2>1 DEF Patched
  <2>2. CASE ~IsText(bs[i])
    BY <1>1, <2>2 DEF Patched
  <2>. QED BY <2>1, <2>2
<1>3. ChangeBlockType(s, id, type) =
        WithBlocks(s, [i \in DOMAIN bs |-> IF bs[i].id = id THEN F[i] ELSE bs[i]])
  BY DEF ChangeBlockType, Update, UpdateBlock
<1>. HIDE DEF F
<1>. QED BY <1>2, <1>3, UpdateWork

(* A change of every block of the identity.                                    *)
LEMMA ChangeWork ==
  ASSUME NEW s \in Stores, NEW id, NEW t, NEW F,
         t = WithBlocks(s, [i \in DOMAIN s.doc.blocks |->
                              IF s.doc.blocks[i].id = id THEN F[i] ELSE s.doc.blocks[i]]),
         \A i \in DOMAIN s.doc.blocks : Patched(s.doc.blocks[i], F[i])
  PROVE  Gentle(s, t)
<1>1. DOMAIN s.doc.blocks = 1 .. Len(s.doc.blocks)
  BY StateFacts, TreeFacts
<1>. QED BY <1>1, UpdateWork

LEMMA OverWork ==
  ASSUME NEW s \in Stores, NEW id, NEW set \in BOOLEAN
  PROVE  Gentle(s, Update(s, id, LAMBDA b : [b EXCEPT !.over = set]))
<1>. DEFINE bs == s.doc.blocks
            F == [i \in DOMAIN bs |-> [bs[i] EXCEPT !.over = set]]
            t == Update(s, id, LAMBDA b : [b EXCEPT !.over = set])
<1>1. \A i \in DOMAIN bs : Patched(bs[i], F[i])
  BY DEF Patched
<1>2. t = WithBlocks(s, [i \in DOMAIN bs |-> IF bs[i].id = id THEN F[i] ELSE bs[i]])
  BY DEF Update, UpdateBlock
<1>. HIDE DEF F, t
<1>3. Gentle(s, t)
  BY <1>1, <1>2, ChangeWork
<1>. QED BY <1>3 DEF t

LEMMA AlignWork ==
  ASSUME NEW s \in Stores, NEW id
  PROVE  Gentle(s, Update(s, id, LAMBDA b : [b EXCEPT !.over = ~@]))
<1>. DEFINE bs == s.doc.blocks
            F == [i \in DOMAIN bs |-> [bs[i] EXCEPT !.over = ~bs[i].over]]
            t == Update(s, id, LAMBDA b : [b EXCEPT !.over = ~@])
<1>1. \A i \in DOMAIN bs : Patched(bs[i], F[i])
  <2>1. \A i \in DOMAIN bs : (~bs[i].over) \in BOOLEAN
    OBVIOUS
  <2>. QED BY <2>1 DEF Patched
<1>2. t = WithBlocks(s, [i \in DOMAIN bs |-> IF bs[i].id = id THEN F[i] ELSE bs[i]])
  BY DEF Update, UpdateBlock
<1>. HIDE DEF F, t
<1>3. Gentle(s, t)
  BY <1>1, <1>2, ChangeWork
<1>. QED BY <1>3 DEF t

LEMMA AttributeWork ==
  ASSUME NEW s \in Stores, NEW id
  PROVE  Gentle(s, Update(s, id, LAMBDA b : [b EXCEPT !.attr = ~@]))
<1>. DEFINE bs == s.doc.blocks
            F == [i \in DOMAIN bs |-> [bs[i] EXCEPT !.attr = ~bs[i].attr]]
            t == Update(s, id, LAMBDA b : [b EXCEPT !.attr = ~@])
<1>1. \A i \in DOMAIN bs : Patched(bs[i], F[i])
  <2>1. \A i \in DOMAIN bs : (~bs[i].attr) \in BOOLEAN
    OBVIOUS
  <2>. QED BY <2>1 DEF Patched
<1>2. t = WithBlocks(s, [i \in DOMAIN bs |-> IF bs[i].id = id THEN F[i] ELSE bs[i]])
  BY DEF Update, UpdateBlock
<1>. HIDE DEF F, t
<1>3. Gentle(s, t)
  BY <1>1, <1>2, ChangeWork
<1>. QED BY <1>3 DEF t

LEMMA StyleWork ==
  ASSUME NEW s \in Stores, NEW id, NEW c \in Classes \cup {Null}
  PROVE  Gentle(s, Update(s, id, LAMBDA b : [b EXCEPT !.style = c]))
<1>. DEFINE bs == s.doc.blocks
            F == [i \in DOMAIN bs |-> [bs[i] EXCEPT !.style = c]]
            t == Update(s, id, LAMBDA b : [b EXCEPT !.style = c])
<1>1. \A i \in DOMAIN bs : Patched(bs[i], F[i])
  BY DEF Patched
<1>2. t = WithBlocks(s, [i \in DOMAIN bs |-> IF bs[i].id = id THEN F[i] ELSE bs[i]])
  BY DEF Update, UpdateBlock
<1>. HIDE DEF F, t
<1>3. Gentle(s, t)
  BY <1>1, <1>2, ChangeWork
<1>. QED BY <1>3 DEF t

LEMMA ClassWork ==
  ASSUME NEW s \in Stores, NEW id, NEW c \in Classes
  PROVE  Gentle(s, Update(s, id, LAMBDA b : [b EXCEPT !.style = c, !.over = FALSE]))
<1>. DEFINE bs == s.doc.blocks
            F == [i \in DOMAIN bs |-> [bs[i] EXCEPT !.style = c, !.over = FALSE]]
            t == Update(s, id, LAMBDA b : [b EXCEPT !.style = c, !.over = FALSE])
<1>1. \A i \in DOMAIN bs : Patched(bs[i], F[i])
  BY DEF Patched
<1>2. t = WithBlocks(s, [i \in DOMAIN bs |-> IF bs[i].id = id THEN F[i] ELSE bs[i]])
  BY DEF Update, UpdateBlock
<1>. HIDE DEF F, t
<1>3. Gentle(s, t)
  BY <1>1, <1>2, ChangeWork
<1>. QED BY <1>3 DEF t

(* Any other text: a picture is not written by typing, but by its source.      *)
LEMMA SourceWork ==
  ASSUME NEW s \in Stores, NEW id, NEW src \in Texts, src # {"asset"}
  PROVE  Gentle(s, Update(s, id, LAMBDA b : [b EXCEPT !.text = src]))
<1>. DEFINE bs == s.doc.blocks
            F == [i \in DOMAIN bs |-> [bs[i] EXCEPT !.text = src]]
            t == Update(s, id, LAMBDA b : [b EXCEPT !.text = src])
<1>1. \A i \in DOMAIN bs : Patched(bs[i], F[i])
  BY DEF Patched
<1>2. t = WithBlocks(s, [i \in DOMAIN bs |-> IF bs[i].id = id THEN F[i] ELSE bs[i]])
  BY DEF Update, UpdateBlock
<1>. HIDE DEF F, t
<1>3. Gentle(s, t)
  BY <1>1, <1>2, ChangeWork
<1>. QED BY <1>3 DEF t

(* The source of a picture of the bundle.                                      *)
LEMMA AssetWork ==
  ASSUME NEW s \in Stores, NEW id
  PROVE  LET t == Update(s, id, LAMBDA b : [b EXCEPT !.text = {"asset"}])
         IN  /\ t \in Stores /\ Work(s, t) /\ Keeps(s, t)
             /\ \A p : Holds(s, Pictured(p)) /\ s.doc.pics = p => Holds(t, Pictured(p))
<1>. DEFINE bs == s.doc.blocks
            t == Update(s, id, LAMBDA b : [b EXCEPT !.text = {"asset"}])
            nb == [i \in DOMAIN bs |-> IF bs[i].id = id THEN [bs[i] EXCEPT !.text = {"asset"}] ELSE bs[i]]
            d == [s.doc EXCEPT !.blocks = nb]
<1>1. t = WithBlocks(s, nb)
  BY DEF Update, UpdateBlock
<1>2. DOMAIN bs = 1 .. Len(bs) /\ \A i \in 1 .. Len(bs) : bs[i] \in Blocks
  BY StateFacts, TreeFacts
<1>3. {"asset"} \in Texts
  BY TextFacts
<1>4. \A i \in 1 .. Len(bs) : nb[i] \in Blocks /\ nb[i].id = bs[i].id /\ nb[i].depth = bs[i].depth
  BY <1>2, <1>3 DEF Blocks
<1>5. nb = [i \in DOMAIN bs |-> nb[i]]
  OBVIOUS
<1>. HIDE DEF nb
<1>6. nb \in Trees /\ t \in Stores /\ Work(s, t) /\ Keeps(s, t)
  BY <1>1, <1>4, <1>5, InPlaceWork
<1>7. s.doc \in Documents
  BY StateFacts
<1>8. Kin(s.doc, d) /\ t = Mutated(s, d)
  BY <1>1, <1>6, <1>7 DEF Kin, Documents, WithBlocks
<1>. HIDE DEF d, t
<1>9. ASSUME NEW p, Holds(s, Pictured(p)), s.doc.pics = p PROVE Holds(t, Pictured(p))
  <2>1. d \in Pictured(p)
    BY <1>8, <1>9 DEF Pictured, Kin
  <2>. QED BY <1>8, <1>9, <2>1, MutatedWork
<1>. QED BY <1>6, <1>9 DEF t

-----------------------------------------------------------------------------
(* Blocks that come, go and move.                                            *)

LEMMA NewBlock ==
  ASSUME NEW type \in {"p", "code", "box"}, NEW id \in Nat
  PROVE  /\ <<CreateBlock(type, id)>> \in Trees /\ Ids(<<CreateBlock(type, id)>>) = {id}
         /\ ~Pictures(<<CreateBlock(type, id)>>)
<1>. DEFINE b == CreateBlock(type, id)
<1>1. Empty \in Texts
  BY TextFacts
<1>2. b \in Blocks /\ b.depth = 0 /\ b.id = id /\ b.type = type
  BY <1>1 DEF CreateBlock, Blocks
<1>. HIDE DEF b
<1>3. <<b>> \in Seq(Blocks) /\ <<b>>[1] = b /\ DOMAIN <<b>> = 1 .. 1
  BY <1>2
<1>4. <<b>> \in Trees
  BY <1>2, <1>3, MakesTree
<1>5. Ids(<<b>>) = {id}
  BY <1>2, <1>3 DEF Ids
<1>6. ~Pictures(<<b>>)
  BY <1>2, <1>3 DEF Pictures, IsPicture
<1>. QED BY <1>4, <1>5, <1>6 DEF b

LEMMA AddBlockWork ==
  ASSUME NEW s \in Stores, NEW type \in {"p", "code", "box"}, NEW id \in Nat, NEW after
  PROVE  /\ Gentle(s, AddBlock(s, CreateBlock(type, id), after))
         /\ id \in Ids(AddBlock(s, CreateBlock(type, id), after).doc.blocks)
<1>. DEFINE bs == s.doc.blocks
            new == <<CreateBlock(type, id)>>
            r == InsertBlocks(bs, new, after)
<1>1. bs \in Trees /\ new \in Trees /\ Ids(new) = {id} /\ ~Pictures(new)
  BY StateFacts, NewBlock
<1>. HIDE DEF new
<1>2. r \in Trees /\ Ids(r) = Ids(bs) \cup {id} /\ (Pictures(r) => Pictures(bs))
  BY <1>1, InsertFacts
<1>. HIDE DEF r
<1>3. /\ Work(s, WithBlocks(s, r)) /\ Keeps(s, WithBlocks(s, r)) /\ Painted(s, WithBlocks(s, r))
      /\ WithBlocks(s, r).doc.blocks = r
  BY <1>2, BlocksWork
<1>4. AddBlock(s, CreateBlock(type, id), after) = WithBlocks(s, r)
  BY DEF AddBlock, r, new
<1>. QED BY <1>2, <1>3, <1>4 DEF Gentle

LEMMA ImportBlocksWork ==
  ASSUME NEW s \in Stores, NEW blocks \in Trees
  PROVE  LET t == ImportBlocks(s, blocks)
         IN  /\ t \in Stores /\ Work(s, t) /\ Keeps(s, t)
             /\ ~Pictures(blocks) => Painted(s, t)
             /\ \A p : Holds(s, Pictured(p)) /\ s.doc.pics = p => Holds(t, Pictured(p))
<1>. DEFINE bs == s.doc.blocks
            r == InsertBlocks(bs, blocks, Null)
            t == ImportBlocks(s, blocks)
            d == [s.doc EXCEPT !.blocks = r]
<1>1. bs \in Trees /\ s.doc \in Documents
  BY StateFacts
<1>2. r \in Trees /\ Ids(bs) \subseteq Ids(r) /\ (Pictures(r) => Pictures(bs) \/ Pictures(blocks))
  BY <1>1, InsertFacts
<1>. HIDE DEF r
<1>3. /\ WithBlocks(s, r) \in Stores
      /\ Work(s, WithBlocks(s, r)) /\ Keeps(s, WithBlocks(s, r))
      /\ ~Pictures(blocks) => Painted(s, WithBlocks(s, r))
  BY <1>2, BlocksWork
<1>4. t = WithBlocks(s, r)
  BY DEF ImportBlocks, r
<1>5. Kin(s.doc, d) /\ WithBlocks(s, r) = Mutated(s, d)
  BY <1>1, <1>2 DEF Kin, Documents, WithBlocks
<1>. HIDE DEF d, t
<1>6. ASSUME NEW p, Holds(s, Pictured(p)), s.doc.pics = p PROVE Holds(t, Pictured(p))
  <2>1. d \in Pictured(p)
    BY <1>5, <1>6 DEF Pictured, Kin
  <2>. QED BY <1>4, <1>5, <1>6, <2>1, MutatedWork
<1>. QED BY <1>3, <1>4, <1>6 DEF t

(* Messages that only select: the document is as it was.                       *)
Look(s, t) == t \in Stores /\ Same(s, t) /\ Frame(s, t) /\ t.summary = s.summary

LEMMA LookFacts ==
  ASSUME NEW s \in Stores, NEW t, Look(s, t)
  PROVE  Work(s, t) /\ Painted(s, t) /\ t.doc = s.doc /\ t \in Stores
BY LookWork DEF Look, Same

SeenAs(s, a, b, c, x) == [s EXCEPT !.sel = a, !.ed = b, !.tok = c, !.ctx = x]

LEMMA Seen ==
  ASSUME NEW s, NEW a, NEW b, NEW c, NEW x, s \in Stores, x \in Contexts,
         {a, b, c} \subseteq Nat \cup {Null}
  PROVE  LET t == SeenAs(s, a, b, c, x)
         IN  Look(s, t) /\ t.sel = a /\ t.ed = b /\ t.tok = c /\ t.ctx = x
<1>. DEFINE t == SeenAs(s, a, b, c, x)
<1>1. s \in EditorStates /\ Len(s.hist.past) + Len(s.hist.future) <= MaxEntries
  BY StateFacts
<1>2. /\ t \in EditorStates /\ t.doc = s.doc /\ t.hist = s.hist /\ t.dirty = s.dirty
      /\ t.path = s.path /\ t.analyzing = s.analyzing /\ t.exporting = s.exporting
      /\ t.summary = s.summary
      /\ t.sel = a /\ t.ed = b /\ t.tok = c /\ t.ctx = x
  BY <1>1 DEF EditorStates, SeenAs
<1>. HIDE DEF t
<1>3. t \in Stores
  BY <1>1, <1>2 DEF Stores
<1>. QED BY <1>2, <1>3 DEF t, Look, Same, Frame

LEMMA SelectBlockLook ==
  ASSUME NEW s \in Stores, NEW id \in Nat \cup {Null}
  PROVE  LET t == SelectBlock(s, id)
         IN  /\ Look(s, t) /\ t.sel = id /\ t.ed = Null /\ t.ctx = s.ctx
             /\ t.tok = IF id = s.tok THEN s.tok ELSE Null
<1>. DEFINE c == IF id = s.tok THEN s.tok ELSE Null
            t == SeenAs(s, id, Null, c, s.ctx)
<1>1. s \in EditorStates /\ s.tok \in Nat \cup {Null} /\ s.ctx \in Contexts
  BY StateFacts
<1>2. SelectBlock(s, id) = t
  BY <1>1 DEF SeenAs, SelectBlock, EditorStates
<1>3. Look(s, t) /\ t.sel = id /\ t.ed = Null /\ t.tok = c /\ t.ctx = s.ctx
  BY <1>1, Seen
<1>. QED BY <1>2, <1>3 DEF t

LEMMA SelectTokenLook ==
  ASSUME NEW s \in Stores, NEW id \in Nat \cup {Null}
  PROVE  LET t == SelectToken(s, id)
         IN  Look(s, t) /\ t.sel = id /\ t.tok = id /\ t.ed = s.ed /\ t.ctx = s.ctx
<1>. DEFINE t == SeenAs(s, id, s.ed, id, s.ctx)
<1>1. s \in EditorStates /\ s.ed \in Nat \cup {Null} /\ s.ctx \in Contexts
  BY StateFacts
<1>2. SelectToken(s, id) = t
  BY <1>1 DEF SeenAs, SelectToken, EditorStates
<1>3. Look(s, t) /\ t.sel = id /\ t.ed = s.ed /\ t.tok = id /\ t.ctx = s.ctx
  BY <1>1, Seen
<1>. QED BY <1>2, <1>3 DEF t

LEMMA ClearSelectedTokenLook ==
  ASSUME NEW s \in Stores
  PROVE  LET t == ClearSelectedToken(s)
         IN  Look(s, t) /\ t.sel = s.sel /\ t.tok = Null /\ t.ed = s.ed /\ t.ctx = s.ctx
<1>. DEFINE t == SeenAs(s, s.sel, s.ed, Null, s.ctx)
<1>1. s \in EditorStates /\ s.ed \in Nat \cup {Null} /\ s.sel \in Nat \cup {Null} /\ s.ctx \in Contexts
  BY StateFacts
<1>2. ClearSelectedToken(s) = t
  BY <1>1 DEF SeenAs, ClearSelectedToken, EditorStates
<1>3. Look(s, t) /\ t.sel = s.sel /\ t.ed = s.ed /\ t.tok = Null /\ t.ctx = s.ctx
  BY <1>1, Seen
<1>. QED BY <1>2, <1>3 DEF t

LEMMA StartEditingLook ==
  ASSUME NEW s \in Stores, NEW id \in Nat, s.ctx = "layout"
  PROVE  LET t == StartEditingBlock(s, id)
         IN  Look(s, t) /\ t.sel = id /\ t.ed = id /\ t.tok = s.tok /\ t.ctx = s.ctx
<1>. DEFINE t == SeenAs(s, id, id, s.tok, s.ctx)
<1>1. s \in EditorStates /\ s.tok \in Nat \cup {Null} /\ s.ctx \in Contexts
  BY StateFacts
<1>2. StartEditingBlock(s, id) = t
  BY <1>1 DEF SeenAs, StartEditingBlock, EditorStates
<1>3. Look(s, t) /\ t.sel = id /\ t.ed = id /\ t.tok = s.tok /\ t.ctx = s.ctx
  BY <1>1, Seen
<1>. QED BY <1>2, <1>3 DEF t

LEMMA StopEditingLook ==
  ASSUME NEW s \in Stores, NEW id
  PROVE  LET t == StopEditingBlock(s, id)
         IN  Look(s, t) /\ t.sel = s.sel /\ t.ed = Without(s.ed, id) /\ t.tok = s.tok /\ t.ctx = s.ctx
<1>. DEFINE e == Without(s.ed, id)
            t == SeenAs(s, s.sel, e, s.tok, s.ctx)
<1>1. /\ s \in EditorStates /\ s.sel \in Nat \cup {Null} /\ s.tok \in Nat \cup {Null}
      /\ s.ctx \in Contexts /\ s.ed \in Nat \cup {Null}
  BY StateFacts
<1>2. e \in Nat \cup {Null}
  BY <1>1 DEF Without
<1>3. StopEditingBlock(s, id) = t
  BY <1>1 DEF SeenAs, StopEditingBlock, EditorStates
<1>. HIDE DEF e
<1>4. Look(s, t) /\ t.sel = s.sel /\ t.ed = e /\ t.tok = s.tok /\ t.ctx = s.ctx
  BY <1>1, <1>2, Seen
<1>. QED BY <1>3, <1>4 DEF e, t

LEMMA SetContextLook ==
  ASSUME NEW s \in Stores, NEW x \in Contexts
  PROVE  LET t == SetContext(s, x)
         IN  /\ Look(s, t) /\ t.sel = s.sel /\ t.ctx = x
             /\ t.ed = IF x = "layout" THEN s.ed ELSE Null
             /\ t.tok = IF x = "nlp" THEN s.tok ELSE Null
<1>. DEFINE e == IF x = "layout" THEN s.ed ELSE Null
            c == IF x = "nlp" THEN s.tok ELSE Null
            t == SeenAs(s, s.sel, e, c, x)
<1>1. /\ s \in EditorStates /\ s.sel \in Nat \cup {Null} /\ s.tok \in Nat \cup {Null}
      /\ s.ed \in Nat \cup {Null}
  BY StateFacts
<1>2. SetContext(s, x) = t
  BY <1>1 DEF SeenAs, SetContext, EditorStates
<1>3. e \in Nat \cup {Null} /\ c \in Nat \cup {Null}
  BY <1>1
<1>. HIDE DEF e, c
<1>4. Look(s, t) /\ t.sel = s.sel /\ t.ed = e /\ t.tok = c /\ t.ctx = x
  BY <1>1, <1>3, Seen
<1>. QED BY <1>2, <1>4 DEF e, c, t

(* A block that is deleted is neither selected, nor edited, nor on the rail.   *)
LEMMA DeletedWork ==
  ASSUME NEW s \in Stores, NEW id
  PROVE  LET t == Deleted(s, id)
         IN  /\ t \in Stores /\ Work(s, t) /\ Painted(s, t)
             /\ t.sel = Without(s.sel, id) /\ t.ed = Without(s.ed, id)
             /\ t.tok = Without(s.tok, id) /\ t.ctx = s.ctx
             /\ id \notin Ids(t.doc.blocks)
<1>. DEFINE bs == s.doc.blocks
            u == WithBlocks(s, DeleteBlock(bs, id))
            a == Without(u.sel, id)
            b == Without(u.ed, id)
            c == Without(u.tok, id)
            t == SeenAs(u, a, b, c, u.ctx)
<1>1. bs \in Trees
  BY StateFacts
<1>. HIDE DEF bs
<1>2. /\ DeleteBlock(bs, id) \in Trees /\ id \notin Ids(DeleteBlock(bs, id))
      /\ Pictures(DeleteBlock(bs, id)) => Pictures(bs)
  BY <1>1, DeleteFacts
<1>3. /\ u \in Stores /\ Work(s, u) /\ Painted(s, u) /\ u.doc.blocks = DeleteBlock(bs, id)
      /\ u.sel = s.sel /\ u.ed = s.ed /\ u.tok = s.tok /\ u.ctx = s.ctx
  BY <1>2, BlocksWork DEF bs
<1>4. Deleted(s, id) = [u EXCEPT !.sel = Without(@, id), !.ed = Without(@, id), !.tok = Without(@, id)]
  BY DEF Deleted, bs
<1>. HIDE DEF u
<1>5. u \in EditorStates /\ {a, b, c} \subseteq Nat \cup {Null} /\ u.ctx \in Contexts
  BY <1>3, StateFacts DEF Without
<1>6. Deleted(s, id) = t
  BY <1>4, <1>5 DEF SeenAs, EditorStates
<1>. HIDE DEF a, b, c
<1>7. Look(u, t) /\ t.sel = a /\ t.ed = b /\ t.tok = c /\ t.ctx = u.ctx
  BY <1>3, <1>5, Seen
<1>. HIDE DEF t
<1>8. t \in Stores /\ Work(u, t) /\ Painted(u, t) /\ t.doc = u.doc
  BY <1>3, <1>7, LookFacts
<1>9. Work(s, t) /\ Painted(s, t)
  BY <1>3, <1>8, WorkTwice, PaintedTwice
<1>. QED BY <1>2, <1>3, <1>6, <1>7, <1>8, <1>9 DEF a, b, c

(* The block before joined with the block, which goes.                         *)
LEMMA MergeWork ==
  ASSUME NEW s \in Stores, NEW id, MergesUp(s, id)
  PROVE  LET t == MergeBlockUp(s, id)
         IN  /\ t \in Stores /\ Work(s, t) /\ Painted(s, t)
             /\ t.sel \in Ids(t.doc.blocks) /\ t.ed = s.ed /\ t.tok = s.tok /\ t.ctx = s.ctx
             /\ id \notin Ids(t.doc.blocks)
<1>. DEFINE bs == s.doc.blocks
            i == IndexOf(bs, id)
            current == FindBlock(bs, id)
            previous == bs[i - 1]
            text == previous.text \cup current.text
            F == [k \in DOMAIN bs |-> IF IsText(bs[k]) THEN [bs[k] EXCEPT !.text = text] ELSE bs[k]]
            nb == [k \in DOMAIN bs |-> IF bs[k].id = previous.id THEN F[k] ELSE bs[k]]
            r == DeleteBlock(nb, id)
            u == WithBlocks(s, r)
            t == SeenAs(u, previous.id, u.ed, u.tok, u.ctx)
<1>1. /\ bs \in Trees /\ Len(bs) \in Nat /\ DOMAIN bs = 1 .. Len(bs)
      /\ \A k \in 1 .. Len(bs) : bs[k] \in Blocks
  BY StateFacts, TreeFacts
<1>2. /\ i \in 2 .. Len(bs) /\ bs[i].id = id /\ current = bs[i]
      /\ \A k \in 1 .. i - 1 : bs[k].id # id
  <2>1. i > 1
    BY DEF MergesUp
  <2>2. i \in 0 .. Len(bs) /\ (i = 0 <=> id \notin Ids(bs))
    BY <1>1, IndexFacts
  <2>3. id \in Ids(bs)
    BY <2>1, <2>2
  <2>4. i \in 1 .. Len(bs) /\ bs[i].id = id /\ \A k \in 1 .. i - 1 : bs[k].id # id
    BY <1>1, <2>3, IndexFacts
  <2>5. current = bs[i]
    BY DEF FindBlock
  <2>. HIDE DEF i
  <2>. QED BY <2>1, <2>4, <2>5
<1>3. /\ i \in 1 .. Len(bs) /\ i - 1 \in 1 .. Len(bs) /\ previous \in Blocks /\ current \in Blocks
      /\ i - 1 \in 1 .. i - 1
  <2>. HIDE DEF i, bs
  <2>. QED BY <1>1, <1>2
<1>4. previous.id \in Nat /\ previous.id # id /\ text \in Texts
  <2>1. previous.id # id
    BY <1>2, <1>3
  <2>. HIDE DEF i, bs, previous, current
  <2>2. previous.text \in Texts /\ current.text \in Texts /\ previous.id \in Nat
    BY <1>3 DEF Blocks
  <2>. QED BY <2>1, <2>2, TextFacts
<1>5. MergeBlockUp(s, id) = [u EXCEPT !.sel = previous.id]
  <2>1. UpdateBlock(bs, previous.id,
                    LAMBDA b : IF IsText(b) THEN [b EXCEPT !.text = text] ELSE b) = nb
    BY DEF UpdateBlock
  <2>. QED BY <2>1 DEF MergeBlockUp
<1>6. \A k \in 1 .. Len(bs) : Patched(bs[k], nb[k])
  <2>. SUFFICES ASSUME NEW k \in 1 .. Len(bs) PROVE Patched(bs[k], nb[k])
    OBVIOUS
  <2>. HIDE DEF i, previous, current, text
  <2>1. CASE bs[k].id = previous.id /\ IsText(bs[k])
    <3>1. nb[k] = [bs[k] EXCEPT !.text = text] /\ bs[k].type # "img"
      BY <1>1, <2>1 DEF IsText
    <3>. HIDE DEF nb, bs
    <3>. QED BY <1>4, <3>1 DEF Patched
  <2>2. CASE ~(bs[k].id = previous.id /\ IsText(bs[k]))
    BY <1>1, <2>2 DEF Patched
  <2>. QED BY <2>1, <2>2
<1>7. nb = [k \in DOMAIN bs |-> nb[k]]
  OBVIOUS
<1>. HIDE DEF nb, bs, i, previous, current, text, r, u
<1>8. \A k \in 1 .. Len(bs) :
        /\ nb[k] \in Blocks /\ nb[k].id = bs[k].id /\ nb[k].depth = bs[k].depth
        /\ IsPicture(nb[k]) => IsPicture(bs[k])
  BY <1>1, <1>6, PatchFacts
<1>9. nb \in Trees /\ Ids(nb) = Ids(bs) /\ Len(nb) = Len(bs) /\ (Pictures(nb) => Pictures(bs))
  BY <1>1, <1>7, <1>8, Mapped
<1>10. ~Within(nb, id, i - 1)
  <2>1. \A k \in 1 .. i - 1 : k \in 1 .. Len(bs)
    BY <1>1, <1>2
  <2>. QED BY <1>2, <1>8, <2>1 DEF Within
<1>11. /\ r \in Trees /\ (Pictures(r) => Pictures(nb))
       /\ previous.id \in Ids(r) /\ id \notin Ids(r)
  <2>1. /\ DeleteBlock(nb, id) \in Trees /\ (Pictures(DeleteBlock(nb, id)) => Pictures(nb))
        /\ \A k \in 1 .. Len(nb) : ~Within(nb, id, k) => nb[k].id \in Ids(DeleteBlock(nb, id))
        /\ id \notin Ids(DeleteBlock(nb, id))
    BY <1>9, DeleteFacts
  <2>2. nb[i - 1].id \in Ids(DeleteBlock(nb, id))
    BY <1>3, <1>9, <1>10, <2>1
  <2>3. nb[i - 1].id = previous.id
    BY <1>3, <1>8 DEF previous
  <2>. QED BY <2>1, <2>2, <2>3 DEF r
<1>12. /\ u \in Stores /\ Work(s, u) /\ Painted(s, u) /\ u.doc.blocks = r
       /\ u.sel = s.sel /\ u.ed = s.ed /\ u.tok = s.tok /\ u.ctx = s.ctx
  BY <1>9, <1>11, BlocksWork DEF u, bs
<1>13. u \in EditorStates /\ {previous.id, u.ed, u.tok} \subseteq Nat \cup {Null} /\ u.ctx \in Contexts
  BY <1>4, <1>12, StateFacts
<1>14. MergeBlockUp(s, id) = t
  BY <1>5, <1>13 DEF SeenAs, EditorStates
<1>15. Look(u, t) /\ t.sel = previous.id /\ t.ed = u.ed /\ t.tok = u.tok /\ t.ctx = u.ctx
  BY <1>12, <1>13, Seen
<1>. HIDE DEF t
<1>16. t \in Stores /\ Work(u, t) /\ Painted(u, t) /\ t.doc = u.doc
  BY <1>12, <1>15, LookFacts
<1>17. Work(s, t) /\ Painted(s, t)
  BY <1>12, <1>16, WorkTwice, PaintedTwice
<1>. QED BY <1>11, <1>12, <1>14, <1>15, <1>16, <1>17

LEMMA MovedWork ==
  ASSUME NEW s \in Stores, NEW id, NEW direction \in {"up", "down"}
  PROVE  Gentle(s, Moved(s, id, direction))
<1>. DEFINE bs == s.doc.blocks
            r == MoveBlock(bs, id, direction)
<1>1. bs \in Trees
  BY StateFacts
<1>. HIDE DEF bs
<1>2. r \in Trees /\ Members(r) = Members(bs)
  BY <1>1, MoveFacts
<1>3. Moved(s, id, direction) = WithBlocks(s, r)
  BY DEF Moved, bs
<1>. HIDE DEF r
<1>4. Ids(r) = Ids(bs) /\ (Pictures(r) => Pictures(bs))
  <2>1. r \in Seq(Blocks) /\ bs \in Seq(Blocks)
    BY <1>1, <1>2, TreeFacts
  <2>. QED BY <1>2, <2>1, MemberFacts
<1>5. Work(s, WithBlocks(s, r)) /\ Keeps(s, WithBlocks(s, r)) /\ Painted(s, WithBlocks(s, r))
  BY <1>2, <1>4, BlocksWork DEF bs
<1>. QED BY <1>3, <1>5 DEF Gentle

LEMMA DuplicatedWork ==
  ASSUME NEW s \in Stores, NEW id, NEW fresh \in Nat
  PROVE  Gentle(s, Duplicated(s, id, fresh))
<1>. DEFINE bs == s.doc.blocks
            r == DuplicateBlock(bs, id, fresh)
<1>1. bs \in Trees
  BY StateFacts
<1>. HIDE DEF bs
<1>2. r \in Trees /\ Ids(bs) \subseteq Ids(r) /\ (Pictures(r) => Pictures(bs))
  BY <1>1, DuplicateFacts
<1>3. Duplicated(s, id, fresh) = WithBlocks(s, r)
  BY DEF Duplicated, bs
<1>. HIDE DEF r
<1>4. Work(s, WithBlocks(s, r)) /\ Keeps(s, WithBlocks(s, r)) /\ Painted(s, WithBlocks(s, r))
  BY <1>2, BlocksWork DEF bs
<1>. QED BY <1>3, <1>4 DEF Gentle

-----------------------------------------------------------------------------
(* The head of a document: classes, title and file name, page.               *)

LEMMA AddStyleClassWork ==
  ASSUME NEW s \in Stores, NEW c \in Classes, NEW props \in {"bare", "set"}
  PROVE  Gentle(s, AddStyleClass(s, c, props))
<1>. DEFINE d == [s.doc EXCEPT !.styles[c] = props]
<1>1. s.doc \in Documents
  BY StateFacts
<1>2. Kin(s.doc, d) /\ d.blocks = s.doc.blocks
  BY <1>1 DEF Kin, Documents
<1>3. AddStyleClass(s, c, props) = Mutated(s, d)
  BY DEF AddStyleClass
<1>. HIDE DEF d
<1>. QED BY <1>2, <1>3, HeadWork DEF Gentle

LEMMA Untouched == ASSUME NEW s \in Stores PROVE Gentle(s, s)
BY DEF Gentle, Work, Painted, Keeps, Same, Frame

LEMMA UpdateStyleClassWork ==
  ASSUME NEW s \in Stores, NEW c \in Classes, NEW props \in {"bare", "set"}
  PROVE  Gentle(s, UpdateStyleClass(s, c, props))
<1>1. UpdateStyleClass(s, c, props) = IF s.doc.styles[c] = "none" THEN s ELSE AddStyleClass(s, c, props)
  BY DEF UpdateStyleClass, AddStyleClass
<1>. QED BY <1>1, AddStyleClassWork, Untouched

LEMMA RemoveStyleClassWork ==
  ASSUME NEW s \in Stores, NEW c \in Classes
  PROVE  Gentle(s, RemoveStyleClass(s, c))
<1>. DEFINE bs == s.doc.blocks
            nb == [i \in DOMAIN bs |-> [bs[i] EXCEPT !.style = Without(bs[i].style, c)]]
            d == [s.doc EXCEPT !.styles[c] = "none", !.blocks = nb]
<1>1. s.doc \in Documents /\ bs \in Trees /\ DOMAIN bs = 1 .. Len(bs) /\ \A i \in 1 .. Len(bs) : bs[i] \in Blocks
  BY StateFacts, TreeFacts
<1>2. RemoveStyleClass(s, c) = Mutated(s, d)
  BY DEF RemoveStyleClass
<1>3. nb = [i \in DOMAIN bs |-> nb[i]]
  OBVIOUS
<1>4. \A i \in 1 .. Len(bs) : nb[i] = [bs[i] EXCEPT !.style = Without(bs[i].style, c)]
  BY <1>1
<1>. HIDE DEF nb
<1>5. \A i \in 1 .. Len(bs) :
        /\ nb[i] \in Blocks /\ nb[i].id = bs[i].id /\ nb[i].depth = bs[i].depth
        /\ IsPicture(nb[i]) => IsPicture(bs[i])
  <2>. SUFFICES ASSUME NEW i \in 1 .. Len(bs)
                PROVE  /\ nb[i] \in Blocks /\ nb[i].id = bs[i].id /\ nb[i].depth = bs[i].depth
                       /\ IsPicture(nb[i]) => IsPicture(bs[i])
    OBVIOUS
  <2>1. bs[i] \in Blocks /\ nb[i] = [bs[i] EXCEPT !.style = Without(bs[i].style, c)]
    BY <1>1, <1>4
  <2>. HIDE DEF bs
  <2>2. Without(bs[i].style, c) \in Classes \cup {Null}
    BY <2>1 DEF Blocks, Without
  <2>. QED BY <2>1, <2>2 DEF Blocks, IsPicture
<1>. HIDE DEF bs
<1>6. nb \in Trees /\ Ids(nb) = Ids(bs) /\ (Pictures(nb) => Pictures(bs))
  BY <1>1, <1>3, <1>5, Mapped
<1>7. Kin(s.doc, d) /\ d.blocks = nb
  BY <1>1, <1>6 DEF Kin, Documents
<1>8. HasPictures(d) => HasPictures(s.doc)
  BY <1>6, <1>7, HasPicturesIs DEF bs
<1>. HIDE DEF d
<1>9. /\ Work(s, Mutated(s, d)) /\ Painted(s, Mutated(s, d)) /\ Mutated(s, d).doc = d
      /\ Mutated(s, d).sel = s.sel /\ Mutated(s, d).ed = s.ed
      /\ Mutated(s, d).tok = s.tok /\ Mutated(s, d).ctx = s.ctx
  BY <1>7, <1>8, MutatedWork
<1>. QED BY <1>2, <1>6, <1>7, <1>9 DEF Gentle, Keeps, bs

LEMMA UpdateMetaWork ==
  ASSUME NEW s \in Stores, NEW title \in Titles, NEW file \in FileNames
  PROVE  Gentle(s, UpdateMeta(s, title, file))
<1>. DEFINE d == [s.doc EXCEPT !.title = title, !.file = file]
<1>1. s.doc \in Documents
  BY StateFacts
<1>2. Kin(s.doc, d) /\ d.blocks = s.doc.blocks
  BY <1>1 DEF Kin, Documents
<1>3. UpdateMeta(s, title, file) = Mutated(s, d)
  BY DEF UpdateMeta
<1>. HIDE DEF d
<1>. QED BY <1>2, <1>3, HeadWork DEF Gentle

LEMMA UpdatePageWork ==
  ASSUME NEW s \in Stores, NEW page \in {0, 1}
  PROVE  Gentle(s, UpdatePage(s, page))
<1>. DEFINE d == [s.doc EXCEPT !.page = page]
<1>1. s.doc \in Documents
  BY StateFacts
<1>2. Kin(s.doc, d) /\ d.blocks = s.doc.blocks
  BY <1>1 DEF Kin, Documents
<1>3. UpdatePage(s, page) = Mutated(s, d)
  BY DEF UpdatePage
<1>. HIDE DEF d
<1>. QED BY <1>2, <1>3, HeadWork DEF Gentle

(* The text of the block that the caret leaves, as the page shows it.          *)
LEMMA CommitWork ==
  ASSUME NEW s \in Stores, NEW b, NEW text \in Texts
  PROVE  LET t == Commit(s, b, text)
         IN  /\ t \in Stores /\ Work(s, t) /\ Painted(s, t)
             /\ t.sel = s.sel /\ t.tok = s.tok /\ t.ctx = s.ctx
             /\ t.ed = IF s.ctx = "layout" THEN Without(s.ed, b) ELSE s.ed
             /\ Ids(s.doc.blocks) \subseteq Ids(t.doc.blocks)
<1>. DEFINE w == IF FindBlock(store.doc.blocks, b).type = "code"
                 THEN SetBlockText(s, b, text) ELSE SetBlockSpans(s, b, text)
            t == Commit(s, b, text)
<1>1. Gentle(s, w)
  BY SetBlockTextWork, SetBlockSpansWork
<1>2. t = IF s.ctx = "layout" THEN StopEditingBlock(w, b) ELSE w
  BY DEF Commit
<1>. HIDE DEF w, t
<1>3. /\ w \in Stores /\ Work(s, w) /\ Painted(s, w)
      /\ w.sel = s.sel /\ w.tok = s.tok /\ w.ctx = s.ctx /\ w.ed = s.ed
      /\ Ids(s.doc.blocks) \subseteq Ids(w.doc.blocks)
  BY <1>1, GentleStores DEF Gentle, Keeps
<1>4. CASE s.ctx = "layout"
  <2>1. /\ Look(w, t) /\ t.sel = w.sel /\ t.ed = Without(w.ed, b) /\ t.tok = w.tok /\ t.ctx = w.ctx
    BY <1>2, <1>3, <1>4, StopEditingLook
  <2>2. t \in Stores /\ Work(w, t) /\ Painted(w, t) /\ t.doc = w.doc
    BY <1>3, <2>1, LookFacts
  <2>3. Work(s, t) /\ Painted(s, t)
    BY <1>3, <2>2, WorkTwice, PaintedTwice
  <2>. QED BY <1>3, <1>4, <2>1, <2>2, <2>3 DEF t
<1>5. CASE s.ctx # "layout"
  BY <1>2, <1>3, <1>5 DEF t
<1>. QED BY <1>4, <1>5

-----------------------------------------------------------------------------
(* Undo and redo: the document follows the stack.                            *)

LEMMA UndoFacts ==
  ASSUME NEW s \in Stores, CanUndo(s.hist)
  PROVE  /\ Undo(s) \in Stores /\ Frame(s, Undo(s))
         /\ Undo(s).hist = UndoHistory(s.hist) /\ Undo(s).doc = Undo(s).hist.present
         /\ Undo(s).dirty = TRUE /\ Undo(s).sel = s.sel /\ Undo(s).ed = s.ed
         /\ Undo(s).tok = s.tok /\ Undo(s).ctx = s.ctx
         /\ \A S : Holds(s, S) => Holds(Undo(s), S)
<1>. DEFINE h == UndoHistory(s.hist)
            t == Undo(s)
<1>0. s \in EditorStates /\ s.hist \in Stacks(Documents)
      /\ Len(s.hist.past) \in Nat /\ Len(s.hist.future) \in Nat
      /\ Len(s.hist.past) + Len(s.hist.future) <= MaxEntries
  BY StateFacts
<1>1. /\ h \in Stacks(Documents) /\ Len(h.past) = Len(s.hist.past) - 1
      /\ Len(h.future) = Len(s.hist.future) + 1
  BY <1>0, Undone
<1>2. t = [s EXCEPT !.doc = h.present, !.hist = h, !.dirty = TRUE]
  BY DEF Undo
<1>3. \A S : s.hist \in Stacks(S) => h \in Stacks(S) /\ h.present \in S
  <2>1. \A S : s.hist \in Stacks(S) => h \in Stacks(S)
    BY Undone
  <2>. HIDE DEF h
  <2>. QED BY <2>1 DEF Stacks
<1>. HIDE DEF h, t
<1>4. h.present \in Documents
  BY <1>0, <1>3
<1>5. /\ t \in EditorStates /\ t.doc = h.present /\ t.hist = h /\ t.dirty = TRUE /\ Frame(s, t)
      /\ t.sel = s.sel /\ t.ed = s.ed /\ t.tok = s.tok /\ t.ctx = s.ctx
  BY <1>0, <1>1, <1>2, <1>4 DEF EditorStates, Frame, Stacks
<1>6. t \in Stores
  <2>0. \A p, f \in Nat : (p - 1) + (f + 1) = p + f /\ (p + 1) + (f - 1) = p + f
    OBVIOUS
  <2>1. Len(h.past) + Len(h.future) = Len(s.hist.past) + Len(s.hist.future)
    BY <1>0, <1>1, <2>0, Zenon
  <2>. QED BY <1>0, <1>5, <2>1 DEF Stores
<1>7. \A S : Holds(s, S) => Holds(t, S)
  BY <1>3, <1>5 DEF Holds
<1>. QED BY <1>5, <1>6, <1>7 DEF h, t

LEMMA RedoFacts ==
  ASSUME NEW s \in Stores, CanRedo(s.hist)
  PROVE  /\ Redo(s) \in Stores /\ Frame(s, Redo(s))
         /\ Redo(s).hist = RedoHistory(s.hist) /\ Redo(s).doc = Redo(s).hist.present
         /\ Redo(s).dirty = TRUE /\ Redo(s).sel = s.sel /\ Redo(s).ed = s.ed
         /\ Redo(s).tok = s.tok /\ Redo(s).ctx = s.ctx
         /\ \A S : Holds(s, S) => Holds(Redo(s), S)
<1>. DEFINE h == RedoHistory(s.hist)
            t == Redo(s)
<1>0. s \in EditorStates /\ s.hist \in Stacks(Documents)
      /\ Len(s.hist.past) \in Nat /\ Len(s.hist.future) \in Nat
      /\ Len(s.hist.past) + Len(s.hist.future) <= MaxEntries
  BY StateFacts
<1>1. /\ h \in Stacks(Documents) /\ Len(h.past) = Len(s.hist.past) + 1
      /\ Len(h.future) = Len(s.hist.future) - 1
  BY <1>0, Redone
<1>2. t = [s EXCEPT !.doc = h.present, !.hist = h, !.dirty = TRUE]
  BY DEF Redo
<1>3. \A S : s.hist \in Stacks(S) => h \in Stacks(S) /\ h.present \in S
  <2>1. \A S : s.hist \in Stacks(S) => h \in Stacks(S)
    BY Redone
  <2>. HIDE DEF h
  <2>. QED BY <2>1 DEF Stacks
<1>. HIDE DEF h, t
<1>4. h.present \in Documents
  BY <1>0, <1>3
<1>5. /\ t \in EditorStates /\ t.doc = h.present /\ t.hist = h /\ t.dirty = TRUE /\ Frame(s, t)
      /\ t.sel = s.sel /\ t.ed = s.ed /\ t.tok = s.tok /\ t.ctx = s.ctx
  BY <1>0, <1>1, <1>2, <1>4 DEF EditorStates, Frame, Stacks
<1>6. t \in Stores
  <2>0. \A p, f \in Nat : (p - 1) + (f + 1) = p + f /\ (p + 1) + (f - 1) = p + f
    OBVIOUS
  <2>1. Len(h.past) + Len(h.future) = Len(s.hist.past) + Len(s.hist.future)
    BY <1>0, <1>1, <2>0, Zenon
  <2>. QED BY <1>0, <1>5, <2>1 DEF Stores
<1>7. \A S : Holds(s, S) => Holds(t, S)
  BY <1>3, <1>5 DEF Holds
<1>. QED BY <1>5, <1>6, <1>7 DEF h, t

-----------------------------------------------------------------------------
(* An arrow: the selection goes to a neighbour, once for every handler.        *)
LEMMA NeighborFacts ==
  ASSUME NEW s \in Stores, NEW direction, s.sel \in Ids(s.doc.blocks)
  PROVE  LET t == SelectNeighbor(s, direction)
         IN  /\ Look(s, t) /\ t.sel \in Ids(s.doc.blocks) /\ t.ed = Null
             /\ t.tok = s.tok /\ t.ctx = s.ctx
<1>. DEFINE bs == s.doc.blocks
            i == IndexOf(bs, s.sel)
            next == IF direction = "up" /\ i > 1 THEN i - 1
                    ELSE IF direction = "down" /\ i < Len(bs) THEN i + 1 ELSE i
            a == bs[next].id
            t == SeenAs(s, a, Null, s.tok, s.ctx)
<1>1. /\ s \in EditorStates /\ bs \in Trees /\ Len(bs) \in Nat /\ s.ctx \in Contexts
      /\ s.tok \in Nat \cup {Null}
  BY StateFacts, TreeFacts
<1>2. s.sel # Null
  BY <1>1, IdFacts, EditorAssumption
<1>3. SelectNeighbor(s, direction) = IF s.sel = Null \/ i = 0 THEN s ELSE [s EXCEPT !.sel = a, !.ed = Null]
  BY DEF SelectNeighbor
<1>4. i \in 1 .. Len(bs)
  BY <1>1, IndexFacts
<1>. HIDE DEF bs, i
<1>5. next \in 1 .. Len(bs)
  BY <1>1, <1>4
<1>. HIDE DEF next
<1>6. a \in Ids(bs) /\ a \in Nat
  BY <1>1, <1>5, IdFacts
<1>. HIDE DEF a
<1>7. i # 0
  BY <1>1, <1>4
<1>8. SelectNeighbor(s, direction) = t
  BY <1>1, <1>2, <1>3, <1>7 DEF SeenAs, EditorStates
<1>9. Look(s, t) /\ t.sel = a /\ t.ed = Null /\ t.tok = s.tok /\ t.ctx = s.ctx
  <2>1. {a, Null, s.tok} \subseteq Nat \cup {Null}
    BY <1>1, <1>6
  <2>. QED BY <1>1, <2>1, Seen
<1>. QED BY <1>6, <1>8, <1>9 DEF bs

LEMMA FarNeighborFacts ==
  ASSUME NEW s \in Stores, NEW direction, NEW times \in Nat \ {0}, s.sel \in Ids(s.doc.blocks)
  PROVE  LET t == SelectFarNeighbor(s, direction, times)
         IN  /\ Look(s, t) /\ t.sel \in Ids(s.doc.blocks) /\ t.ed = Null
             /\ t.tok = s.tok /\ t.ctx = s.ctx
<1>. DEFINE T == {t \in Stores : /\ Look(s, t) /\ t.sel \in Ids(s.doc.blocks)
                                 /\ t.tok = s.tok /\ t.ctx = s.ctx}
            step == [p \in (1 .. times) \X T |-> SelectNeighbor(p[2], direction)]
            Solves(f) == f = [n \in 0 .. times |->
                                IF n = 0 THEN s ELSE SelectNeighbor(f[n - 1], direction)]
<1>1. s \in T
  BY DEF Look, Same, Frame
<1>2. ASSUME NEW t \in T PROVE SelectNeighbor(t, direction) \in T /\ SelectNeighbor(t, direction).ed = Null
  <2>. DEFINE u == SelectNeighbor(t, direction)
  <2>1. t \in Stores /\ t.doc = s.doc /\ t.sel \in Ids(s.doc.blocks)
    BY DEF Look, Same
  <2>2. /\ Look(t, u) /\ u.sel \in Ids(t.doc.blocks) /\ u.ed = Null
        /\ u.tok = t.tok /\ u.ctx = t.ctx
    BY <2>1, NeighborFacts
  <2>. HIDE DEF u
  <2>3. Look(s, u) /\ u \in Stores
    BY <2>2 DEF Look, Same, Frame
  <2>. QED BY <2>1, <2>2, <2>3 DEF u
<1>3. step \in [(1 .. times) \X T -> T]
  BY <1>2
<1>. HIDE DEF T
<1>4. PICK f \in [0 .. times -> T] : Recurs(f, step, s, times)
  <2>. HIDE DEF step
  <2>. QED BY <1>1, <1>3, RecursionExists
<1>5. ASSUME NEW n \in 0 .. times
      PROVE  f[n] = IF n = 0 THEN s ELSE SelectNeighbor(f[n - 1], direction)
  <2>1. f[n] = IF n = 0 THEN s ELSE step[<<n, f[n - 1]>>]
    <3>. HIDE DEF step
    <3>. QED BY <1>4 DEF Recurs
  <2>2. CASE n = 0
    BY <2>1, <2>2
  <2>3. CASE n # 0
    <3>1. <<n, f[n - 1]>> \in (1 .. times) \X T
      BY <2>3
    <3>. QED BY <2>1, <2>3, <3>1
  <2>. QED BY <2>2, <2>3
<1>. HIDE DEF step
<1>6. Solves(f)
  BY <1>5
<1>7. ASSUME NEW g, Solves(g) PROVE \A n \in 0 .. times : g[n] = f[n]
  <2>. DEFINE G == {n \in 0 .. times : g[n] = f[n]}
  <2>1. \A n \in 0 .. times : g[n] = IF n = 0 THEN s ELSE SelectNeighbor(g[n - 1], direction)
    BY <1>7
  <2>2. 0 \in G
    BY <1>5, <2>1
  <2>3. ASSUME NEW n \in 1 .. times, n - 1 \in G PROVE n \in G
    <3>1. n \in 0 .. times /\ n # 0 /\ g[n - 1] = f[n - 1]
      BY <2>3
    <3>2. g[n] = SelectNeighbor(g[n - 1], direction) /\ f[n] = SelectNeighbor(f[n - 1], direction)
      BY <1>5, <2>1, <3>1
    <3>. QED BY <3>1, <3>2
  <2>4. \A n \in 0 .. times : n \in G
    <3>. HIDE DEF G
    <3>. QED BY <2>2, <2>3, UpTo
  <2>. QED BY <2>4
<1>8. SelectFarNeighbor(s, direction, times) = (CHOOSE g : Solves(g))[times]
  BY DEF SelectFarNeighbor
<1>9. Solves(CHOOSE g : Solves(g))
  <2>. HIDE DEF Solves
  <2>. QED BY <1>6
<1>10. SelectFarNeighbor(s, direction, times) = f[times]
  <2>. HIDE DEF Solves
  <2>. QED BY <1>7, <1>8, <1>9
<1>. HIDE DEF Solves
<1>11. f[times] = SelectNeighbor(f[times - 1], direction) /\ f[times - 1] \in T
  BY <1>5
<1>. QED BY <1>2, <1>10, <1>11 DEF T

-----------------------------------------------------------------------------
(* Loading, and the answer of an analysis.                                   *)

LEMMA Loaded ==
  ASSUME NEW doc \in Documents
  PROVE  LET d == NormalizeDocumentMetadata(doc, "")
         IN  d \in Documents /\ d.id = doc.id /\ d.pics = doc.pics /\ d.blocks = doc.blocks
<1>. DEFINE title == IF doc.title = "" THEN "" ELSE doc.title
            file == IF doc.file = "" THEN Slug[title] ELSE doc.file
            d == NormalizeDocumentMetadata(doc, "")
<1>1. title = doc.title /\ doc.title \in Titles /\ doc.file \in FileNames
  BY DEF Documents
<1>2. file \in FileNames
  BY <1>1 DEF FileNames
<1>3. d = [doc EXCEPT !.title = title, !.file = file]
  BY DEF NormalizeDocumentMetadata
<1>. HIDE DEF title, file, d
<1>. QED BY <1>1, <1>2, <1>3 DEF Documents, d

LEMMA LoadFacts ==
  ASSUME NEW s \in Stores, NEW doc \in Documents, NEW path \in Paths \cup {Null}
  PROVE  LET t == LoadDocument(s, doc, path, "")
             d == NormalizeDocumentMetadata(doc, "")
         IN  /\ t \in Stores /\ t.doc = d /\ t.hist = CreateHistory(d) /\ t.path = path
             /\ t.ctx = "layout" /\ t.dirty = FALSE /\ t.ed = Null /\ t.sel = Null /\ t.tok = Null
             /\ t.analyzing = s.analyzing /\ t.exporting = s.exporting
             /\ \A S : d \in S => Holds(t, S)
<1>. DEFINE d == NormalizeDocumentMetadata(doc, "")
            t == LoadDocument(s, doc, path, "")
<1>1. d \in Documents
  BY Loaded
<1>2. t = [s EXCEPT !.doc = d, !.hist = CreateHistory(d), !.path = path,
                    !.ctx = "layout", !.dirty = FALSE, !.ed = Null, !.sel = Null, !.tok = Null]
  BY DEF LoadDocument
<1>3. s \in EditorStates /\ MaxEntries \in Nat
  BY StateFacts, MaxEntriesAssumption
<1>. HIDE DEF d, t
<1>4. /\ \A S : d \in S => CreateHistory(d) \in Stacks(S)
      /\ Len(CreateHistory(d).past) = 0 /\ Len(CreateHistory(d).future) = 0
  BY Created
<1>. DEFINE h == CreateHistory(d)
<1>5. h \in Stacks(Documents)
  BY <1>1, <1>4
<1>6. "layout" \in Contexts
  BY DEF Contexts
<1>. HIDE DEF h
<1>7. /\ t \in EditorStates /\ t.doc = d /\ t.hist = h /\ t.path = path
      /\ t.ctx = "layout" /\ t.dirty = FALSE /\ t.ed = Null /\ t.sel = Null /\ t.tok = Null
      /\ t.analyzing = s.analyzing /\ t.exporting = s.exporting
  BY <1>1, <1>2, <1>3, <1>5, <1>6 DEF EditorStates, Stacks, h
<1>8. t \in Stores
  <2>1. Len(t.hist.past) = 0 /\ Len(t.hist.future) = 0
    BY <1>4, <1>7 DEF h
  <2>2. Len(t.hist.past) + Len(t.hist.future) <= MaxEntries
    BY <1>3, <2>1
  <2>. QED BY <1>7, <2>2 DEF Stores
<1>9. \A S : d \in S => Holds(t, S)
  BY <1>4, <1>7 DEF Holds, h
<1>. QED BY <1>7, <1>8, <1>9 DEF d, t, h

LEMMA AnalysisFacts ==
  ASSUME NEW doc \in Documents, NEW done
  PROVE  LET d == RunAnalysis(doc, done)
         IN  /\ d \in Documents /\ d.id = doc.id /\ d.pics = doc.pics
             /\ Ids(d.blocks) = Ids(doc.blocks) /\ Content(d) = Content(doc)
<1>. DEFINE bs == doc.blocks
            nb == [i \in DOMAIN bs |-> IF i \in done THEN [bs[i] EXCEPT !.nlp = bs[i].text] ELSE bs[i]]
            d == RunAnalysis(doc, done)
<1>1. bs \in Trees
  BY DEF Documents
<1>2. DOMAIN bs = 1 .. Len(bs) /\ \A i \in 1 .. Len(bs) : bs[i] \in Blocks
  BY <1>1, TreeFacts
<1>3. d = [doc EXCEPT !.blocks = nb]
  BY DEF RunAnalysis
<1>4. nb = [i \in DOMAIN bs |-> nb[i]]
  OBVIOUS
<1>5. ASSUME NEW i \in 1 .. Len(bs)
      PROVE  /\ nb[i] \in Blocks /\ nb[i].id = bs[i].id /\ nb[i].depth = bs[i].depth
             /\ [nb[i] EXCEPT !.nlp = Null] = [bs[i] EXCEPT !.nlp = Null]
  <2>1. nb[i] = bs[i] \/ nb[i] = [bs[i] EXCEPT !.nlp = bs[i].text]
    BY <1>2
  <2>2. bs[i] \in Blocks
    BY <1>2
  <2>. HIDE DEF nb, bs
  <2>. QED BY <2>1, <2>2 DEF Blocks
<1>. HIDE DEF nb, bs, d
<1>6. nb \in Trees /\ Ids(nb) = Ids(bs)
  BY <1>1, <1>4, <1>5, Mapped
<1>7. d \in Documents /\ d.blocks = nb /\ d.id = doc.id /\ d.pics = doc.pics
  BY <1>3, <1>6 DEF Documents
<1>8. StripNlp(nb) = StripNlp(bs)
  <2>1. DOMAIN nb = DOMAIN bs
    BY <1>4
  <2>2. \A i \in DOMAIN bs : [nb[i] EXCEPT !.nlp = Null] = [bs[i] EXCEPT !.nlp = Null]
    BY <1>2, <1>5
  <2>. QED BY <2>1, <2>2 DEF StripNlp
<1>9. Content(d) = Content(doc)
  <2>1. Content(d) = [d EXCEPT !.blocks = StripNlp(nb)] /\ Content(doc) = [doc EXCEPT !.blocks = StripNlp(bs)]
    BY <1>7 DEF Content, bs
  <2>. QED BY <1>3, <1>8, <2>1 DEF Documents
<1>. QED BY <1>6, <1>7, <1>9 DEF d, bs

(* The caret is put into a block of the document.                              *)
LEMMA FocusOnFacts ==
  ASSUME NEW s \in Stores, NEW b \in Nat, focus # Null => Shown(focus) \in Texts
  PROVE  LET t == FocusOn(s, b)
         IN  /\ t \in Stores /\ Work(s, t) /\ Painted(s, t)
             /\ t.sel = b /\ t.ed = Null /\ t.ctx = s.ctx
             /\ t.tok \in {Null, b} /\ (s.tok = Null => t.tok = Null)
             /\ Ids(s.doc.blocks) \subseteq Ids(t.doc.blocks)
<1>. DEFINE w == IF focus \in Ids(s.doc.blocks) /\ focus # b /\ Inline(s, focus)
                 THEN Commit(s, focus, Shown(focus)) ELSE s
            t == FocusOn(s, b)
<1>1. t = SelectBlock(w, b)
  BY DEF FocusOn
<1>2. /\ w \in Stores /\ Work(s, w) /\ Painted(s, w)
      /\ w.tok = s.tok /\ w.ctx = s.ctx
      /\ Ids(s.doc.blocks) \subseteq Ids(w.doc.blocks)
  <2>1. CASE focus \in Ids(s.doc.blocks) /\ focus # b /\ Inline(s, focus)
    <3>1. focus # Null
      <4>1. s.doc.blocks \in Trees
        BY StateFacts
      <4>2. Ids(s.doc.blocks) \subseteq Nat
        BY <4>1, IdFacts
      <4>. QED BY <2>1, <4>2, EditorAssumption
    <3>2. w = Commit(s, focus, Shown(focus)) /\ Shown(focus) \in Texts
      BY <2>1, <3>1
    <3>. HIDE DEF w
    <3>. QED BY <3>2, CommitWork
  <2>2. CASE ~(focus \in Ids(s.doc.blocks) /\ focus # b /\ Inline(s, focus))
    BY <2>2, Untouched DEF Gentle
  <2>. QED BY <2>1, <2>2
<1>. HIDE DEF w, t
<1>3. /\ Look(w, t) /\ t.sel = b /\ t.ed = Null /\ t.ctx = w.ctx
      /\ t.tok = IF b = w.tok THEN w.tok ELSE Null
  BY <1>1, <1>2, SelectBlockLook
<1>4. t \in Stores /\ Work(w, t) /\ Painted(w, t) /\ t.doc = w.doc
  BY <1>2, <1>3, LookFacts
<1>5. Work(s, t) /\ Painted(s, t)
  BY <1>2, <1>4, WorkTwice, PaintedTwice
<1>. QED BY <1>2, <1>3, <1>4, <1>5 DEF t

LEMMA EditableFacts ==
  ASSUME NEW s \in Stores, NEW b, EditableIn(s, b) # Null
  PROVE  EditableIn(s, b) \in Ids(s.doc.blocks) /\ EditableIn(s, b) \in Nat
<1>. DEFINE bs == s.doc.blocks
            i == IndexOf(bs, b)
            able == {j \in i .. EndOf(bs, i) : IsEditable(bs[j])}
            first == CHOOSE j \in able : \A k \in able : j <= k
<1>1. bs \in Trees /\ Len(bs) \in Nat
  BY StateFacts, TreeFacts
<1>2. EditableIn(s, b) = IF i = 0 \/ able = {} THEN Null ELSE bs[first].id
  BY DEF EditableIn
<1>. HIDE DEF bs
<1>3. i # 0 /\ able # {}
  BY <1>2
<1>4. i \in 1 .. Len(bs)
  BY <1>1, <1>3, IndexFacts
<1>. HIDE DEF i
<1>5. EndOf(bs, i) \in i .. Len(bs)
  BY <1>1, <1>4, EndFacts
<1>6. able \in SUBSET Nat /\ able \subseteq 1 .. Len(bs)
  BY <1>1, <1>4, <1>5
<1>. HIDE DEF able
<1>7. \E j \in able : \A k \in able : j <= k
  BY <1>3, <1>6, Least
<1>8. first \in 1 .. Len(bs)
  BY <1>6, <1>7
<1>. HIDE DEF first
<1>9. bs[first].id \in Ids(bs) /\ bs[first].id \in Nat
  BY <1>1, <1>8, IdFacts
<1>. QED BY <1>2, <1>3, <1>9 DEF bs

(* The same documents and the same selection, under other flags and a path.    *)
Marked(s, d, a, e, p) == [s EXCEPT !.dirty = d, !.analyzing = a, !.exporting = e, !.path = p]

LEMMA MarkedFacts ==
  ASSUME NEW s, NEW d, NEW a, NEW e, NEW p, s \in Stores,
         {d, a, e} \subseteq BOOLEAN, p \in Paths \cup {Null}
  PROVE  LET t == Marked(s, d, a, e, p)
         IN  /\ t \in Stores /\ t.doc = s.doc /\ t.hist = s.hist
             /\ t.sel = s.sel /\ t.ed = s.ed /\ t.tok = s.tok /\ t.ctx = s.ctx
             /\ t.dirty = d /\ t.analyzing = a /\ t.exporting = e /\ t.path = p
<1>. DEFINE t == Marked(s, d, a, e, p)
<1>1. s \in EditorStates /\ Len(s.hist.past) + Len(s.hist.future) <= MaxEntries
  BY StateFacts
<1>2. /\ t \in EditorStates /\ t.doc = s.doc /\ t.hist = s.hist
      /\ t.sel = s.sel /\ t.ed = s.ed /\ t.tok = s.tok /\ t.ctx = s.ctx
      /\ t.dirty = d /\ t.analyzing = a /\ t.exporting = e /\ t.path = p
  BY <1>1 DEF EditorStates, Marked
<1>. HIDE DEF t
<1>3. t \in Stores
  BY <1>1, <1>2 DEF Stores
<1>. QED BY <1>2, <1>3 DEF t

LEMMA SetFlagFacts ==
  ASSUME NEW s \in Stores, NEW value \in BOOLEAN
  PROVE  /\ SetFlag(s, "dirty", value) = Marked(s, value, s.analyzing, s.exporting, s.path)
         /\ SetFlag(s, "analyzing", value) = Marked(s, s.dirty, value, s.exporting, s.path)
         /\ SetFlag(s, "exporting", value) = Marked(s, s.dirty, s.analyzing, value, s.path)
         /\ \A p \in Paths : SetFlag(SetDocumentPath(s, p), "dirty", value)
                               = Marked(s, value, s.analyzing, s.exporting, p)
<1>1. s \in EditorStates
  BY StateFacts
<1>2. SetFlag(s, "dirty", value) = Marked(s, value, s.analyzing, s.exporting, s.path)
  BY <1>1 DEF EditorStates, Marked, SetFlag
<1>3. SetFlag(s, "analyzing", value) = Marked(s, s.dirty, value, s.exporting, s.path)
  BY <1>1 DEF EditorStates, Marked, SetFlag
<1>4. SetFlag(s, "exporting", value) = Marked(s, s.dirty, s.analyzing, value, s.path)
  BY <1>1 DEF EditorStates, Marked, SetFlag
<1>5. \A p \in Paths : SetFlag(SetDocumentPath(s, p), "dirty", value)
                         = Marked(s, value, s.analyzing, s.exporting, p)
  BY <1>1 DEF EditorStates, Marked, SetFlag, SetDocumentPath
<1>. QED BY <1>2, <1>3, <1>4, <1>5

-----------------------------------------------------------------------------
(* The invariant, in parts.                                                  *)

\* The documents of the store: the one shown and its snapshots are versions of
\* one document, and those that show pictures of a bundle are of the bundle
\* whose pictures are in memory.
Held(s, l, p) ==
  /\ s \in Stores
  /\ "stale" \in l \/ Holds(s, Own(s.doc.id))
  /\ l \cap {"pictures", "stale"} # {} \/ Holds(s, Pictured(p))
  /\ "stale" \in l \/ Content(s.doc) = Content(s.hist.present)

\* What is edited, and what the rail is about, is selected.
Poised(s) ==
  /\ s.ed \in {Null, s.sel} /\ s.tok \in {Null, s.sel}
  /\ s.ctx # "layout" => s.ed = Null
  /\ s.ctx # "nlp" => s.tok = Null

Known(s, l) == l \cap {"undo", "ancestor", "stale"} # {} \/ s.sel \in Ids(s.doc.blocks) \cup {Null}

\* What a call under way has captured.
Captured(c) ==
  /\ c.kind \in CallKinds
  /\ c.kind \in {"analyze", "save", "saveAs", "writeAs"} => c.doc \in Documents
  /\ c.kind = "save" => c.at \in Paths \cup {Null}
  /\ c.kind = "writeAs" => c.at \in Paths

Called(s, cs) ==
  /\ \A c \in cs : Captured(c)
  /\ \A c, d \in cs : c.kind = d.kind /\ c.kind \in {"analyze", "export"} => c = d
  /\ s.analyzing = (\E c \in cs : c.kind = "analyze")
  /\ s.exporting = (\E c \in cs : c.kind = "export")

\* The caret is in the selected block, which can be typed into; what is typed
\* and not written is in it.
Caret(s, f, dr, l) ==
  /\ f # Null => f \in Nat /\ f = s.sel /\ f \in Ids(s.doc.blocks) /\ Inline(s, f)
  /\ DOMAIN dr \subseteq Nat /\ dr \in [DOMAIN dr -> Texts]
  /\ l \cap {"escape", "switch", "arrow", "load"} # {} \/ DOMAIN dr \subseteq {f}

Filed(s, l, fs, d, b, u) ==
  /\ d \subseteq Documents /\ fs \in [Paths -> Nat] /\ u \in Nat
  /\ l \cap {"path", "stale"} # {} \/ s.path = Null \/ fs[s.path] = s.doc.id
  /\ s.dirty \/ l \cap {"unwritten", "overtaken", "stale"} # {} \/ Content(s.doc) = b

EditorInv ==
  /\ Held(store, lapses, blobs) /\ Poised(store) /\ Known(store, lapses)
  /\ Called(store, calls) /\ Caret(store, focus, drafts, lapses)
  /\ Filed(store, lapses, files, db, base, uuid)
  /\ mode \in {"class", "override"}

\* What a step may make of the undo stack.
Logged(h, k) ==
  \/ k = h
  \/ Edits(h, k)
  \/ CanUndo(h) /\ k = UndoHistory(h)
  \/ CanRedo(h) /\ k = RedoHistory(h)
  \/ \E d \in Documents : k = CreateHistory(d)

Onward == EditorInv' /\ Logged(store.hist, store'.hist)

\* A message that edits, undoes, redoes or selects.
Handled(s, t) ==
  /\ t \in Stores /\ Frame(s, t)
  /\ \A S \in SUBSET Documents : Closed(S) /\ Holds(s, S) => Holds(t, S)
  /\ Same(s, t) \/ (t.dirty /\ t.doc = t.hist.present)

LEMMA WorkHandled == ASSUME NEW s, NEW t, Work(s, t) PROVE Handled(s, t) /\ Logged(s.hist, t.hist)
BY DEF Work, Handled, Logged, Same

LEMMA OwnClosed ==
  ASSUME NEW id
  PROVE  Own(id) \in SUBSET Documents /\ Closed(Own(id))
<1>1. Own(id) \in SUBSET Documents
  BY DEF Own
<1>2. ASSUME NEW d \in Own(id), NEW e \in Documents, Kin(d, e) PROVE e \in Own(id)
  BY <1>2 DEF Own, Kin
<1>. QED BY <1>1, <1>2 DEF Closed

LEMMA HeldStep ==
  ASSUME NEW s, NEW t, NEW l, NEW m, NEW p, Held(s, l, p), Handled(s, t), l \subseteq m,
         Painted(s, t) \/ m \cap {"pictures", "stale"} # {} \/ Holds(t, Pictured(p))
  PROVE  Held(t, m, p)
<1>1. t \in Stores
  BY DEF Handled
<1>2. "stale" \in m \/ Holds(t, Own(t.doc.id))
  <2>1. CASE "stale" \in m
    BY <2>1
  <2>2. CASE "stale" \notin m
    <3>1. Holds(s, Own(s.doc.id))
      BY <2>2 DEF Held
    <3>2. Holds(t, Own(s.doc.id))
      BY <3>1, OwnClosed DEF Handled
    <3>3. t.doc.id = s.doc.id
      BY <3>2 DEF Holds, Own
    <3>. QED BY <3>2, <3>3
  <2>. QED BY <2>1, <2>2
<1>3. m \cap {"pictures", "stale"} # {} \/ Holds(t, Pictured(p))
  <2>1. m \cap {"pictures", "stale"} # {} \/ l \cap {"pictures", "stale"} = {}
    OBVIOUS
  <2>. QED BY <2>1 DEF Held, Painted
<1>4. "stale" \in m \/ Content(t.doc) = Content(t.hist.present)
  <2>1. CASE Same(s, t)
    BY <2>1 DEF Held, Same
  <2>2. CASE t.dirty /\ t.doc = t.hist.present
    BY <2>2
  <2>. QED BY <2>1, <2>2 DEF Handled
<1>. QED BY <1>1, <1>2, <1>3, <1>4 DEF Held

LEMMA FiledStep ==
  ASSUME NEW s, NEW t, NEW l, NEW m, NEW p, NEW fs, NEW d, NEW b, NEW u, NEW v,
         Held(s, l, p), Filed(s, l, fs, d, b, u), Handled(s, t), l \subseteq m, v \in Nat
  PROVE  Filed(t, m, fs, d, b, v)
<1>1. d \subseteq Documents /\ fs \in [Paths -> Nat]
  BY DEF Filed
<1>2. m \cap {"path", "stale"} # {} \/ t.path = Null \/ fs[t.path] = t.doc.id
  <2>1. CASE m \cap {"path", "stale"} # {}
    BY <2>1
  <2>2. CASE m \cap {"path", "stale"} = {}
    <3>0. "stale" \notin l /\ "path" \notin l
      BY <2>2
    <3>1. Holds(s, Own(s.doc.id))
      BY <3>0 DEF Held
    <3>2. Holds(t, Own(s.doc.id))
      BY <3>1, OwnClosed DEF Handled
    <3>3. t.doc.id = s.doc.id
      BY <3>2 DEF Holds, Own
    <3>4. t.path = s.path
      BY DEF Handled, Frame
    <3>5. l \cap {"path", "stale"} = {}
      BY <3>0
    <3>6. s.path = Null \/ fs[s.path] = s.doc.id
      BY <3>5 DEF Filed
    <3>. QED BY <3>3, <3>4, <3>6
  <2>. QED BY <2>1, <2>2
<1>3. t.dirty \/ m \cap {"unwritten", "overtaken", "stale"} # {} \/ Content(t.doc) = b
  <2>1. CASE Same(s, t)
    <3>1. s.dirty \/ l \cap {"unwritten", "overtaken", "stale"} # {} \/ Content(s.doc) = b
      BY DEF Filed
    <3>2. l \cap {"unwritten", "overtaken", "stale"} # {} => m \cap {"unwritten", "overtaken", "stale"} # {}
      OBVIOUS
    <3>. QED BY <2>1, <3>1, <3>2 DEF Same
  <2>2. CASE t.dirty /\ t.doc = t.hist.present
    BY <2>2
  <2>. QED BY <2>1, <2>2 DEF Handled
<1>. QED BY <1>1, <1>2, <1>3 DEF Filed

LEMMA CalledStep ==
  ASSUME NEW s, NEW t, NEW cs, Called(s, cs), Handled(s, t)
  PROVE  Called(t, cs)
BY DEF Called, Handled, Frame

(* The page after a step: what is left of what was typed is under the caret.   *)
LEMMA PageStep ==
  ASSUME EditorInv, NEW t, NEW caret, NEW of, Shows(t, caret, of), of \subseteq DOMAIN drafts,
         caret # Null => caret \in Nat /\ caret = t.sel /\ caret \in Ids(t.doc.blocks) /\ Inline(t, caret),
         \/ lapses' \cap {"escape", "switch", "arrow", "load"} # {}
         \/ KeptDrafts(t, of) \subseteq {caret}
  PROVE  /\ store' = t
         /\ Caret(store', focus', drafts', lapses') /\ mode' \in {"class", "override"}
<1>1. store' = t /\ focus' = caret /\ drafts' = [b \in KeptDrafts(t, of) |-> drafts[b]]
  BY DEF Shows
<1>2. KeptDrafts(t, of) \subseteq of
  BY DEF KeptDrafts
<1>3. DOMAIN drafts \subseteq Nat /\ drafts \in [DOMAIN drafts -> Texts]
  BY DEF EditorInv, Caret
<1>. DEFINE kept == KeptDrafts(t, of)
<1>. HIDE DEF kept
<1>4. /\ DOMAIN drafts' = kept /\ kept \subseteq Nat /\ drafts' \in [kept -> Texts]
  BY <1>1, <1>2, <1>3 DEF kept
<1>5. Caret(store', focus', drafts', lapses')
  BY <1>1, <1>4 DEF Caret, kept
<1>6. mode' \in {"class", "override"}
  BY DEF Shows, ModeAfter, EditorInv
<1>. QED BY <1>1, <1>5, <1>6

-----------------------------------------------------------------------------
(* The steps, by kind.                                                       *)

LEMMA InvFacts ==
  ASSUME EditorInv
  PROVE  /\ store \in Stores /\ Held(store, lapses, blobs) /\ Poised(store) /\ Known(store, lapses)
         /\ Called(store, calls) /\ Caret(store, focus, drafts, lapses)
         /\ Filed(store, lapses, files, db, base, uuid)
         /\ uuid \in Nat /\ Ids(store.doc.blocks) \subseteq Nat /\ db \subseteq Documents
         /\ focus \in Nat \cup {Null} /\ DOMAIN drafts \subseteq Nat
<1>1. store \in Stores /\ uuid \in Nat /\ db \subseteq Documents /\ focus \in Nat \cup {Null}
      /\ DOMAIN drafts \subseteq Nat
  BY DEF EditorInv, Held, Filed, Caret
<1>2. Ids(store.doc.blocks) \subseteq Nat
  BY <1>1, StateFacts, IdFacts
<1>. QED BY <1>1, <1>2 DEF EditorInv

\* Nothing but the page and the store changes.
Aside == UNCHANGED <<blobs, calls, files, db, base>>

LEMMA HandledStep ==
  ASSUME EditorInv, NEW t, NEW caret, NEW of, Shows(t, caret, of), of \subseteq DOMAIN drafts,
         caret # Null => caret \in Nat /\ caret = t.sel /\ caret \in Ids(t.doc.blocks) /\ Inline(t, caret),
         \/ lapses' \cap {"escape", "switch", "arrow", "load"} # {}
         \/ KeptDrafts(t, of) \subseteq {caret},
         Handled(store, t), Logged(store.hist, t.hist), Poised(t), Known(t, lapses'),
         Painted(store, t) \/ lapses' \cap {"pictures", "stale"} # {} \/ Holds(t, Pictured(blobs)),
         lapses \subseteq lapses', Aside, uuid' \in Nat
  PROVE  Onward
<1>1. /\ store' = t /\ Caret(store', focus', drafts', lapses') /\ mode' \in {"class", "override"}
  BY PageStep
<1>2. Held(t, lapses', blobs)
  BY InvFacts, HeldStep
<1>3. Filed(t, lapses', files, db, base, uuid')
  BY InvFacts, FiledStep
<1>4. Called(t, calls)
  BY InvFacts, CalledStep
<1>5. blobs' = blobs /\ calls' = calls /\ files' = files /\ db' = db /\ base' = base
  BY DEF Aside
<1>. QED BY <1>1, <1>2, <1>3, <1>4, <1>5 DEF Onward, EditorInv

LEMMA MouseDrafts ==
  ASSUME EditorInv, Mouse
  PROVE  lapses \cap {"escape", "switch", "arrow", "load"} # {} \/ DOMAIN drafts = {}
BY InvFacts, EditorAssumption DEF Caret, Mouse

LEMMA ClickStep ==
  ASSUME EditorInv, Mouse, NEW t, Clicked(t),
         Handled(store, t), Logged(store.hist, t.hist), Poised(t), Known(t, lapses'),
         Painted(store, t) \/ lapses' \cap {"pictures", "stale"} # {} \/ Holds(t, Pictured(blobs)),
         lapses \subseteq lapses', Aside, uuid' \in Nat
  PROVE  Onward
<1>1. Shows(t, Null, DOMAIN drafts)
  BY DEF Clicked
<1>2. \/ lapses' \cap {"escape", "switch", "arrow", "load"} # {}
      \/ KeptDrafts(t, DOMAIN drafts) \subseteq {Null}
  <2>1. KeptDrafts(t, DOMAIN drafts) \subseteq DOMAIN drafts
    BY DEF KeptDrafts
  <2>. QED BY <2>1, MouseDrafts
<1>. DEFINE caret == Null
            of == DOMAIN drafts
<1>3. of \subseteq DOMAIN drafts /\ caret = Null /\ Shows(t, caret, of)
  BY <1>1
<1>4. \/ lapses' \cap {"escape", "switch", "arrow", "load"} # {}
      \/ KeptDrafts(t, of) \subseteq {caret}
  BY <1>2
<1>. HIDE DEF caret, of
<1>. QED BY <1>3, <1>4, HandledStep

(* A click that edits the blocks or the head and selects nothing else.         *)
LEMMA GentleClick ==
  ASSUME EditorInv, Mouse, NEW t, Clicked(t), Gentle(store, t), Aside,
         lapses' = lapses, uuid' \in Nat
  PROVE  Onward
<1>1. Handled(store, t) /\ Logged(store.hist, t.hist) /\ Painted(store, t) /\ Keeps(store, t)
  BY WorkHandled DEF Gentle
<1>2. Poised(t)
  BY <1>1, InvFacts DEF Poised, Keeps
<1>3. Known(t, lapses')
  BY <1>1, InvFacts DEF Known, Keeps
<1>. QED BY <1>1, <1>2, <1>3, ClickStep

(* A click that selects a block of the document, or none, behind an edit.      *)
LEMMA SelectClick ==
  ASSUME EditorInv, Mouse, NEW t, Clicked(t), Work(store, t), Painted(store, t), Poised(t),
         t.sel \in Ids(t.doc.blocks) \cup {Null}, Aside,
         lapses \subseteq lapses', uuid' \in Nat
  PROVE  Onward
<1>1. Handled(store, t) /\ Logged(store.hist, t.hist)
  BY WorkHandled
<1>2. Known(t, lapses')
  BY DEF Known
<1>. QED BY <1>1, <1>2, ClickStep

(* A key or an answer: the caret stays while it can.                           *)
LEMMA KeyStep ==
  ASSUME EditorInv, NEW t, Keyed(t),
         Handled(store, t), Logged(store.hist, t.hist), Poised(t), Known(t, lapses'),
         focus # Null /\ SameElement(t, focus) /\ Inline(t, focus) => t.sel = focus,
         \/ lapses' \cap {"escape", "switch", "arrow", "load"} # {}
         \/ focus = Null \/ focus \notin DOMAIN drafts
         \/ ~SameElement(t, focus)
         \/ Inline(t, focus),
         Painted(store, t) \/ lapses' \cap {"pictures", "stale"} # {} \/ Holds(t, Pictured(blobs)),
         lapses \subseteq lapses', Aside, uuid' \in Nat
  PROVE  Onward
<1>. DEFINE caret == IF focus # Null /\ SameElement(t, focus) /\ Inline(t, focus) THEN focus ELSE Null
            of == DOMAIN drafts
<1>1. Shows(t, caret, of) /\ of \subseteq DOMAIN drafts
  BY DEF Keyed
<1>2. caret # Null => caret \in Nat /\ caret = t.sel /\ caret \in Ids(t.doc.blocks) /\ Inline(t, caret)
  BY InvFacts DEF SameElement
<1>3. \/ lapses' \cap {"escape", "switch", "arrow", "load"} # {}
      \/ KeptDrafts(t, of) \subseteq {caret}
  <2>1. KeptDrafts(t, of) \subseteq of /\ \A b \in KeptDrafts(t, of) : SameElement(t, b)
    BY DEF KeptDrafts
  <2>2. lapses \cap {"escape", "switch", "arrow", "load"} # {} \/ of \subseteq {focus}
    BY InvFacts DEF Caret
  <2>3. of \subseteq Nat /\ (focus \notin DOMAIN drafts => focus \notin of)
    BY InvFacts
  <2>. DEFINE kept == KeptDrafts(t, of)
  <2>. HIDE DEF of, kept
  <2>4. CASE of \cap {focus} = {} \/ focus = Null
    BY <2>1, <2>2, <2>3, <2>4, EditorAssumption DEF kept
  <2>5. CASE ~SameElement(t, focus) \/ (focus # Null /\ Inline(t, focus))
    BY <2>1, <2>2, <2>5 DEF caret, kept
  <2>. QED BY <2>3, <2>4, <2>5
<1>. HIDE DEF caret, of
<1>. QED BY <1>1, <1>2, <1>3, HandledStep

-----------------------------------------------------------------------------
(* The gestures that edit and select nothing else.                           *)

LEMMA CalmFacts ==
  ASSUME EditorInv, Calm
  PROVE  Aside /\ lapses' = lapses /\ uuid' \in Nat
BY InvFacts DEF Calm, PanelFrame, HostUnchanged, Aside

LEMMA SelectedFacts ==
  ASSUME NEW s \in Stores, HasSelectedBlock(s)
  PROVE  /\ SelectedBlock(s) \in Blocks /\ s.sel \in Nat /\ s.sel # Null
         /\ s.sel \in Ids(s.doc.blocks) /\ StyleOf(s) \in Classes \cup {Null}
<1>. DEFINE bs == s.doc.blocks
<1>1. bs \in Trees /\ Ids(bs) \subseteq Nat
  BY StateFacts, IdFacts
<1>2. s.sel \in Ids(bs)
  BY DEF HasSelectedBlock
<1>3. IndexOf(bs, s.sel) \in 1 .. Len(bs)
  BY <1>1, <1>2, IndexFacts
<1>4. bs[IndexOf(bs, s.sel)] \in Blocks
  BY <1>1, <1>3, TreeFacts
<1>5. SelectedBlock(s) \in Blocks
  BY <1>4 DEF SelectedBlock, FindBlock
<1>6. SelectedBlock(s).style \in Classes \cup {Null}
  BY <1>5 DEF Blocks
<1>. QED BY <1>1, <1>2, <1>5, <1>6, EditorAssumption DEF StyleOf

LEMMA PanelShows ==
  ASSUME EditorInv, StylePanelShows(store)
  PROVE  HasSelectedBlock(store)
BY DEF StylePanelShows

LEMMA ToolbarTypeStep == ASSUME EditorInv, ToolbarType PROVE Onward
<1>1. PICK type \in {"p", "h"} : Clicked(ChangeBlockType(store, store.sel, type))
  BY DEF ToolbarType
<1>2. Gentle(store, ChangeBlockType(store, store.sel, type))
  BY InvFacts, ChangeBlockTypeWork
<1>. QED BY <1>1, <1>2, CalmFacts, GentleClick DEF ToolbarType

LEMMA RailTypeStep == ASSUME EditorInv, RailType PROVE Onward
<1>1. PICK type \in {"p", "h"} : Clicked(ChangeBlockType(store, store.sel, type))
  BY DEF RailType
<1>2. Gentle(store, ChangeBlockType(store, store.sel, type))
  BY InvFacts, ChangeBlockTypeWork
<1>3. Aside /\ lapses' = lapses /\ uuid' \in Nat /\ Mouse
  BY InvFacts DEF RailType, HostUnchanged, Aside
<1>. QED BY <1>1, <1>2, <1>3, GentleClick

LEMMA RailInsertStep == ASSUME EditorInv, RailInsert PROVE Onward
<1>. DEFINE t == AddBlock(store, CreateBlock("p", uuid), store.sel)
<1>1. Gentle(store, t)
  BY InvFacts, AddBlockWork
<1>2. Clicked(t) /\ Mouse /\ Aside /\ lapses' = lapses
  BY DEF RailInsert, HostUnchanged, Aside
<1>3. uuid' \in Nat
  BY InvFacts DEF RailInsert
<1>. HIDE DEF t
<1>. QED BY <1>1, <1>2, <1>3, GentleClick

LEMMA ToolbarAlignStep == ASSUME EditorInv, ToolbarAlign PROVE Onward
<1>. DEFINE t == Update(store, store.sel, LAMBDA b : [b EXCEPT !.over = ~@])
<1>1. Gentle(store, t)
  BY InvFacts, AlignWork
<1>2. Clicked(t) /\ Mouse /\ Calm
  BY DEF ToolbarAlign
<1>. HIDE DEF t
<1>. QED BY <1>1, <1>2, CalmFacts, GentleClick

LEMMA PickClassStep == ASSUME EditorInv, PickClass PROVE Onward
<1>1. PICK c \in ClassesOf(store) \cup {Null} :
        Clicked(Update(store, store.sel, LAMBDA b : [b EXCEPT !.style = c]))
  BY DEF PickClass
<1>. DEFINE t == Update(store, store.sel, LAMBDA b : [b EXCEPT !.style = c])
<1>2. c \in Classes \cup {Null}
  BY DEF ClassesOf
<1>3. Gentle(store, t)
  BY <1>2, InvFacts, StyleWork
<1>4. Clicked(t) /\ Mouse /\ Calm
  BY <1>1 DEF PickClass
<1>. HIDE DEF t
<1>. QED BY <1>3, <1>4, CalmFacts, GentleClick

LEMMA ApplyClassStep == ASSUME EditorInv, ApplyClass PROVE Onward
<1>1. PICK c \in ClassesOf(store) \cup {Null} :
        Clicked(Update(store, store.sel, LAMBDA b : [b EXCEPT !.style = c]))
  BY DEF ApplyClass
<1>. DEFINE t == Update(store, store.sel, LAMBDA b : [b EXCEPT !.style = c])
<1>2. c \in Classes \cup {Null}
  BY DEF ClassesOf
<1>3. Gentle(store, t)
  BY <1>2, InvFacts, StyleWork
<1>4. Clicked(t) /\ Mouse /\ Calm
  BY <1>1 DEF ApplyClass, StyleGesture
<1>. HIDE DEF t
<1>. QED BY <1>3, <1>4, CalmFacts, GentleClick

LEMMA ToolbarDuplicateStep == ASSUME EditorInv, ToolbarDuplicate PROVE Onward
<1>. DEFINE t == Duplicated(store, store.sel, uuid)
<1>1. Gentle(store, t)
  BY InvFacts, DuplicatedWork
<1>2. Clicked(t) /\ Mouse /\ Aside /\ lapses' = lapses /\ uuid' = uuid + Len(store.doc.blocks)
  BY DEF ToolbarDuplicate, PanelFrame, HostUnchanged, Aside
<1>3. uuid' \in Nat
  <2>1. Len(store.doc.blocks) \in Nat
    BY InvFacts, StateFacts, TreeFacts
  <2>. QED BY <1>2, <2>1, InvFacts
<1>. HIDE DEF t
<1>. QED BY <1>1, <1>2, <1>3, GentleClick

LEMMA TreeDuplicateStep == ASSUME EditorInv, TreeDuplicate PROVE Onward
<1>1. PICK b \in Ids(store.doc.blocks) : Clicked(Duplicated(store, b, uuid))
  BY DEF TreeDuplicate
<1>. DEFINE t == Duplicated(store, b, uuid)
<1>2. Gentle(store, t)
  BY InvFacts, DuplicatedWork
<1>3. Clicked(t) /\ Mouse /\ Aside /\ lapses' = lapses /\ uuid' = uuid + Len(store.doc.blocks)
  BY <1>1 DEF TreeDuplicate, PanelFrame, HostUnchanged, Aside
<1>4. uuid' \in Nat
  <2>1. Len(store.doc.blocks) \in Nat
    BY InvFacts, StateFacts, TreeFacts
  <2>. QED BY <1>3, <2>1, InvFacts
<1>. HIDE DEF t
<1>. QED BY <1>2, <1>3, <1>4, GentleClick

LEMMA TreeMoveStep == ASSUME EditorInv, TreeMove PROVE Onward
<1>1. PICK b \in Ids(store.doc.blocks), direction \in {"up", "down"} :
        Clicked(Moved(store, b, direction))
  BY DEF TreeMove
<1>. DEFINE t == Moved(store, b, direction)
<1>2. Gentle(store, t)
  BY InvFacts, MovedWork
<1>3. Clicked(t) /\ Mouse /\ Calm
  BY <1>1 DEF TreeMove
<1>. HIDE DEF t
<1>. QED BY <1>2, <1>3, CalmFacts, GentleClick

LEMMA TypographyStep == ASSUME EditorInv, Typography PROVE Onward
<1>1. PICK set \in BOOLEAN : Clicked(PatchStyle(store, set))
  BY DEF Typography
<1>. DEFINE t == PatchStyle(store, set)
<1>2. Mouse /\ Calm /\ StylePanelShows(store)
  BY DEF Typography, StyleGesture
<1>3. Gentle(store, t)
  <2>1. CASE EditsClass
    <3>1. StyleOf(store) \in Classes
      BY <1>2, <2>1, InvFacts, PanelShows, SelectedFacts DEF EditsClass
    <3>. QED BY <2>1, <3>1, InvFacts, UpdateStyleClassWork DEF PatchStyle
  <2>2. CASE ~EditsClass
    <3>1. t = Update(store, store.sel, LAMBDA b : [b EXCEPT !.over = set])
      BY <2>2 DEF PatchStyle
    <3>. QED BY <3>1, InvFacts, OverWork
  <2>. QED BY <2>1, <2>2
<1>. HIDE DEF t
<1>. QED BY <1>1, <1>2, <1>3, CalmFacts, GentleClick DEF t

LEMMA ClearStyleStep == ASSUME EditorInv, ClearStyle PROVE Onward
<1>. DEFINE t == ClearCurrentProps(store)
<1>2. Mouse /\ Calm /\ StylePanelShows(store) /\ Clicked(t)
  BY DEF ClearStyle, StyleGesture
<1>3. Gentle(store, t)
  <2>1. CASE EditsClass
    <3>1. StyleOf(store) \in Classes
      BY <1>2, <2>1, InvFacts, PanelShows, SelectedFacts DEF EditsClass
    <3>. QED BY <2>1, <3>1, InvFacts, AddStyleClassWork DEF ClearCurrentProps
  <2>2. CASE ~EditsClass
    <3>1. t = Update(store, store.sel, LAMBDA b : [b EXCEPT !.over = FALSE])
      BY <2>2 DEF ClearCurrentProps
    <3>. QED BY <3>1, InvFacts, OverWork
  <2>. QED BY <2>1, <2>2
<1>. HIDE DEF t
<1>. QED BY <1>2, <1>3, CalmFacts, GentleClick

LEMMA SaveAsClassStep == ASSUME EditorInv, SaveAsClass PROVE Onward
<1>1. PICK c \in Classes :
        Clicked(Update(AddStyleClass(store, c, "set"), store.sel,
                       LAMBDA b : [b EXCEPT !.style = c, !.over = FALSE]))
  BY DEF SaveAsClass
<1>. DEFINE w == AddStyleClass(store, c, "set")
            t == Update(w, store.sel, LAMBDA b : [b EXCEPT !.style = c, !.over = FALSE])
<1>2. Mouse /\ Calm /\ Clicked(t)
  BY <1>1 DEF SaveAsClass, StyleGesture
<1>3. Gentle(store, w)
  BY InvFacts, AddStyleClassWork
<1>. HIDE DEF w
<1>4. Gentle(w, t)
  BY <1>3, GentleStores, ClassWork
<1>. HIDE DEF t
<1>5. Gentle(store, t)
  BY <1>3, <1>4, InvFacts, GentleTwice
<1>. QED BY <1>2, <1>5, CalmFacts, GentleClick

LEMMA DeleteClassStep == ASSUME EditorInv, DeleteClass PROVE Onward
<1>. DEFINE t == RemoveStyleClass(store, StyleOf(store))
<1>1. Mouse /\ Calm /\ StylePanelShows(store) /\ Clicked(t) /\ StyleOf(store) # Null
  BY DEF DeleteClass, StyleGesture
<1>2. StyleOf(store) \in Classes
  BY <1>1, InvFacts, PanelShows, SelectedFacts
<1>3. Gentle(store, t)
  BY <1>2, InvFacts, RemoveStyleClassWork
<1>. HIDE DEF t
<1>. QED BY <1>1, <1>3, CalmFacts, GentleClick

LEMMA TypeContentStep == ASSUME EditorInv, TypeContent PROVE Onward
<1>1. PICK text \in Words : Clicked(SetBlockSpans(store, store.sel, text))
  BY DEF TypeContent
<1>. DEFINE t == SetBlockSpans(store, store.sel, text)
<1>2. Gentle(store, t)
  BY InvFacts, TextFacts, SetBlockSpansWork
<1>3. Clicked(t) /\ Mouse /\ Calm
  BY <1>1 DEF TypeContent, StyleGesture
<1>. HIDE DEF t
<1>. QED BY <1>2, <1>3, CalmFacts, GentleClick

LEMMA AttributeStep == ASSUME EditorInv, Attribute PROVE Onward
<1>. DEFINE t == Update(store, store.sel, LAMBDA b : [b EXCEPT !.attr = ~@])
<1>1. Gentle(store, t)
  BY InvFacts, AttributeWork
<1>2. Clicked(t) /\ Mouse /\ Calm
  BY DEF Attribute, StyleGesture
<1>. HIDE DEF t
<1>. QED BY <1>1, <1>2, CalmFacts, GentleClick

LEMMA TitleBlurStep == ASSUME EditorInv, TitleBlur PROVE Onward
<1>. DEFINE follows == store.doc.file = "" \/ store.doc.file = Slug[store.doc.title]
            file(title) == IF follows THEN Slug[title] ELSE store.doc.file
            new(title) == IF title # store.doc.title \/ file(title) # store.doc.file
                          THEN UpdateMeta(store, title, file(title)) ELSE store
<1>1. PICK title \in Titles : Clicked(new(title))
  BY DEF TitleBlur
<1>. HIDE DEF follows
<1>2. file(title) \in FileNames
  <2>1. store.doc.file \in FileNames
    BY InvFacts, StateFacts DEF Documents
  <2>2. Slug[title] \in FileNames
    BY DEF FileNames
  <2>. QED BY <2>1, <2>2
<1>3. Gentle(store, new(title))
  <2>. HIDE DEF file
  <2>. QED BY <1>2, InvFacts, UpdateMetaWork, Untouched
<1>4. Mouse /\ Calm
  BY DEF TitleBlur
<1>. HIDE DEF new
<1>. QED BY <1>1, <1>3, <1>4, CalmFacts, GentleClick

LEMMA FilenameBlurStep == ASSUME EditorInv, FilenameBlur PROVE Onward
<1>. DEFINE new(title) == IF Slug[title] # store.doc.file
                          THEN UpdateMeta(store, store.doc.title, Slug[title]) ELSE store
<1>1. PICK title \in Titles : Clicked(new(title))
  BY DEF FilenameBlur
<1>2. store.doc.title \in Titles /\ Slug[title] \in FileNames
  <2>1. store.doc.title \in Titles
    BY InvFacts, StateFacts DEF Documents
  <2>. QED BY <2>1 DEF FileNames
<1>3. Gentle(store, new(title))
  BY <1>2, InvFacts, UpdateMetaWork, Untouched
<1>4. Mouse /\ Calm
  BY DEF FilenameBlur
<1>. HIDE DEF new
<1>. QED BY <1>1, <1>3, <1>4, CalmFacts, GentleClick

LEMMA PageSetupStep == ASSUME EditorInv, PageSetup PROVE Onward
<1>. DEFINE t == UpdatePage(store, 1 - store.doc.page)
<1>1. 1 - store.doc.page \in {0, 1}
  <2>1. store.doc.page \in {0, 1}
    BY InvFacts, StateFacts DEF Documents
  <2>. QED BY <2>1
<1>2. Gentle(store, t)
  BY <1>1, InvFacts, UpdatePageWork
<1>3. Clicked(t) /\ Mouse /\ Calm
  BY DEF PageSetup
<1>. HIDE DEF t
<1>. QED BY <1>2, <1>3, CalmFacts, GentleClick

-----------------------------------------------------------------------------
(* The gestures with the mouse that select.                                  *)

(* A block of the document is selected, or none, behind an edit.               *)
LEMMA SelectedAfter ==
  ASSUME EditorInv, NEW w, NEW id \in Nat \cup {Null}, Work(store, w), Painted(store, w),
         w.ctx = store.ctx, w.tok \in {Null, store.tok}
  PROVE  LET t == SelectBlock(w, id)
         IN  /\ t \in Stores /\ Work(store, t) /\ Painted(store, t) /\ Poised(t)
             /\ t.sel = id /\ t.ed = Null /\ t.ctx = w.ctx /\ t.doc = w.doc
<1>. DEFINE t == SelectBlock(w, id)
<1>1. w \in Stores
  BY DEF Work
<1>2. /\ Look(w, t) /\ t.sel = id /\ t.ed = Null /\ t.ctx = w.ctx
      /\ t.tok = IF id = w.tok THEN w.tok ELSE Null
  BY <1>1, SelectBlockLook
<1>3. t \in Stores /\ Work(w, t) /\ Painted(w, t) /\ t.doc = w.doc
  BY <1>1, <1>2, LookFacts
<1>4. Work(store, t) /\ Painted(store, t)
  BY <1>1, <1>3, InvFacts, WorkTwice, PaintedTwice
<1>5. Poised(t)
  <2>1. store.ctx # "nlp" => store.tok = Null
    BY InvFacts DEF Poised
  <2>. HIDE DEF t
  <2>. QED BY <1>2, <2>1 DEF Poised
<1>. QED BY <1>2, <1>3, <1>4, <1>5

LEMMA StoreWork ==
  ASSUME EditorInv
  PROVE  Work(store, store) /\ Painted(store, store)
BY InvFacts, Untouched DEF Gentle

LEMMA SelectBlockClick ==
  ASSUME EditorInv, Mouse, NEW b \in Ids(store.doc.blocks) \cup {Null},
         Clicked(SelectBlock(store, b)), Aside, lapses' = lapses, uuid' \in Nat
  PROVE  Onward
<1>. DEFINE t == SelectBlock(store, b)
<1>1. b \in Nat \cup {Null}
  BY InvFacts
<1>2. /\ Work(store, t) /\ Painted(store, t) /\ Poised(t) /\ t.sel = b /\ t.doc = store.doc
  BY <1>1, StoreWork, SelectedAfter
<1>3. t.sel \in Ids(t.doc.blocks) \cup {Null} /\ Clicked(t)
  BY <1>2
<1>. HIDE DEF t
<1>. QED BY <1>2, <1>3, SelectClick

LEMMA TreeSelectStep == ASSUME EditorInv, TreeSelect PROVE Onward
<1>1. PICK b \in Ids(store.doc.blocks) : Clicked(SelectBlock(store, b))
  BY DEF TreeSelect
<1>2. Mouse /\ Aside /\ lapses' = lapses /\ uuid' \in Nat
  BY CalmFacts DEF TreeSelect
<1>. QED BY <1>1, <1>2, SelectBlockClick

LEMMA TreeAddStep == ASSUME EditorInv, TreeAdd PROVE Onward
<1>1. PICK type \in {"p", "code", "box"} :
        Clicked(SelectBlock(AddBlock(store, CreateBlock(type, uuid), store.sel), uuid))
  BY DEF TreeAdd
<1>. DEFINE w == AddBlock(store, CreateBlock(type, uuid), store.sel)
            t == SelectBlock(w, uuid)
<1>2. Gentle(store, w) /\ uuid \in Ids(w.doc.blocks)
  BY InvFacts, AddBlockWork
<1>3. Clicked(t) /\ Mouse /\ Aside /\ lapses' = lapses /\ uuid' \in Nat
  BY <1>1, InvFacts DEF TreeAdd, PanelFrame, HostUnchanged, Aside
<1>. HIDE DEF w
<1>4. /\ Work(store, t) /\ Painted(store, t) /\ Poised(t) /\ t.sel = uuid /\ t.doc = w.doc
  BY <1>2, InvFacts, SelectedAfter DEF Gentle, Keeps
<1>. HIDE DEF t
<1>. QED BY <1>2, <1>3, <1>4, SelectClick

LEMMA ClickTokenStep == ASSUME EditorInv, ClickToken PROVE Onward
<1>1. PICK b \in Ids(store.doc.blocks) : Clicked(SelectToken(store, b))
  BY DEF ClickToken
<1>. DEFINE t == SelectToken(store, b)
<1>2. store \in Stores /\ b \in Nat /\ Poised(store)
  BY InvFacts
<1>3. Look(store, t) /\ t.sel = b /\ t.tok = b /\ t.ed = store.ed /\ t.ctx = store.ctx
  BY <1>2, SelectTokenLook
<1>4. /\ Mouse /\ Aside /\ lapses' = lapses /\ uuid' \in Nat /\ store.ctx = "nlp" /\ Clicked(t)
  BY <1>1, InvFacts DEF ClickToken, HostUnchanged, Aside
<1>. HIDE DEF t
<1>5. Work(store, t) /\ Painted(store, t) /\ t.doc = store.doc
  BY <1>2, <1>3, LookFacts
<1>6. Poised(t)
  BY <1>2, <1>3, <1>4 DEF Poised
<1>7. t.sel \in Ids(t.doc.blocks) \cup {Null}
  BY <1>3, <1>5
<1>. QED BY <1>4, <1>5, <1>6, <1>7, SelectClick

LEMMA TokenRailStep == ASSUME EditorInv, TokenRail PROVE Onward
<1>1. PICK t \in {SelectBlock(store, store.tok), ClearSelectedToken(store)} : Clicked(t)
  BY DEF TokenRail
<1>2. /\ Mouse /\ Aside /\ lapses' = lapses /\ uuid' \in Nat
      /\ store.tok \in Ids(store.doc.blocks)
  BY InvFacts DEF TokenRail, HostUnchanged, Aside
<1>3. CASE t = SelectBlock(store, store.tok)
  BY <1>1, <1>2, <1>3, SelectBlockClick
<1>4. CASE t = ClearSelectedToken(store)
  <2>1. /\ Look(store, t) /\ t.sel = store.sel /\ t.tok = Null /\ t.ed = store.ed
        /\ t.ctx = store.ctx
    BY <1>4, InvFacts, ClearSelectedTokenLook
  <2>2. Work(store, t) /\ Painted(store, t) /\ t.doc = store.doc
    BY <2>1, InvFacts, LookFacts
  <2>3. Poised(t) /\ Known(t, lapses')
    BY <1>2, <2>1, <2>2, InvFacts DEF Poised, Known
  <2>. QED BY <1>1, <1>2, <2>2, <2>3, WorkHandled, ClickStep
<1>. QED BY <1>1, <1>3, <1>4

(* The selected block goes, or moves.                                          *)
LEMMA DeselectedFacts ==
  ASSUME EditorInv, NEW id
  PROVE  LET t == DeletedAndDeselected(id)
         IN  /\ Work(store, t) /\ Painted(store, t) /\ Poised(t) /\ t.sel = Null
<1>. DEFINE w == Deleted(store, id)
            t == SelectBlock(w, Null)
<1>1. /\ w \in Stores /\ Work(store, w) /\ Painted(store, w) /\ w.tok = Without(store.tok, id)
      /\ w.ctx = store.ctx
  BY InvFacts, DeletedWork
<1>. HIDE DEF w
<1>2. w.tok \in {Null, store.tok}
  BY <1>1 DEF Without
<1>3. Work(store, t) /\ Painted(store, t) /\ Poised(t) /\ t.sel = Null
  BY <1>1, <1>2, SelectedAfter
<1>. QED BY <1>3 DEF DeletedAndDeselected, w

LEMMA ToolbarBlockStep == ASSUME EditorInv, ToolbarBlock PROVE Onward
<1>1. Mouse /\ Aside /\ lapses' = lapses /\ uuid' \in Nat
  BY CalmFacts DEF ToolbarBlock
<1>2. ASSUME NEW direction \in {"up", "down"}, Clicked(Moved(store, store.sel, direction))
      PROVE Onward
  <2>1. Gentle(store, Moved(store, store.sel, direction))
    BY InvFacts, MovedWork
  <2>. QED BY <1>1, <1>2, <2>1, GentleClick
<1>3. CASE Clicked(DeletedAndDeselected(store.sel))
  <2>. DEFINE t == DeletedAndDeselected(store.sel)
  <2>1. Work(store, t) /\ Painted(store, t) /\ Poised(t) /\ t.sel = Null /\ Clicked(t)
    BY <1>3, DeselectedFacts
  <2>. HIDE DEF t
  <2>. QED BY <1>1, <2>1, SelectClick
<1>. QED BY <1>2, <1>3 DEF ToolbarBlock

(* A block of the tree that goes takes those below it along; a selected one    *)
(* among them is the lapse.                                                    *)
LEMMA DeletedPoised ==
  ASSUME EditorInv, NEW id
  PROVE  Poised(Deleted(store, id))
<1>. DEFINE t == Deleted(store, id)
<1>1. /\ t.sel = Without(store.sel, id) /\ t.ed = Without(store.ed, id)
      /\ t.tok = Without(store.tok, id) /\ t.ctx = store.ctx
  BY InvFacts, DeletedWork
<1>2. Poised(store)
  BY InvFacts
<1>. HIDE DEF t
<1>3. Poised(t)
  BY <1>1, <1>2 DEF Poised, Without
<1>. QED BY <1>3 DEF t

LEMMA KnownOrOrphan ==
  ASSUME EditorInv, NEW t, NEW name \in {"undo", "ancestor", "stale"},
         t.sel \in {store.sel, Null}, lapses \subseteq lapses', Orphans(t, name) \subseteq lapses'
  PROVE  Known(t, lapses')
<1>1. CASE HasSelectedBlock(store) /\ t.sel # Null /\ ~HasSelectedBlock(t)
  <2>1. name \in lapses'
    BY <1>1 DEF Orphans
  <2>. QED BY <2>1 DEF Known
<1>2. CASE ~HasSelectedBlock(store)
  BY <1>2, InvFacts DEF HasSelectedBlock, Known
<1>3. CASE t.sel = Null \/ HasSelectedBlock(t)
  BY <1>3 DEF HasSelectedBlock, Known
<1>. QED BY <1>1, <1>2, <1>3

LEMMA TreeDeleteStep == ASSUME EditorInv, TreeDelete PROVE Onward
<1>1. PICK b \in Ids(store.doc.blocks) :
        LET s == IF store.sel = b THEN DeletedAndDeselected(b) ELSE Deleted(store, b)
        IN  Clicked(s) /\ Lapse(Orphans(s, "ancestor"))
  BY DEF TreeDelete
<1>. DEFINE t == IF store.sel = b THEN DeletedAndDeselected(b) ELSE Deleted(store, b)
<1>2. Clicked(t) /\ lapses' = lapses \cup Orphans(t, "ancestor")
  BY <1>1 DEF Lapse
<1>3. Mouse /\ Aside /\ uuid' \in Nat
  BY InvFacts DEF TreeDelete, PanelFrame, HostUnchanged, Aside
<1>4. /\ Work(store, t) /\ Painted(store, t) /\ Poised(t) /\ t.sel \in {store.sel, Null}
  <2>1. CASE store.sel = b
    <3>1. t = DeletedAndDeselected(b)
      BY <2>1
    <3>. HIDE DEF t
    <3>. QED BY <3>1, DeselectedFacts
  <2>2. CASE store.sel # b
    <3>1. t = Deleted(store, b)
      BY <2>2
    <3>. HIDE DEF t
    <3>2. Work(store, t) /\ Painted(store, t) /\ t.sel = Without(store.sel, b) /\ Poised(t)
      BY <3>1, InvFacts, DeletedWork, DeletedPoised
    <3>. QED BY <3>2 DEF Without
  <2>. QED BY <2>1, <2>2
<1>. HIDE DEF t
<1>5. Known(t, lapses')
  BY <1>2, <1>4, KnownOrOrphan
<1>6. Handled(store, t) /\ Logged(store.hist, t.hist) /\ lapses \subseteq lapses'
  BY <1>2, <1>4, WorkHandled
<1>. QED BY <1>2, <1>3, <1>4, <1>5, <1>6, ClickStep

-----------------------------------------------------------------------------
(* Undo and redo; pictures; the flags.                                       *)

LEMMA UndoRedo ==
  ASSUME EditorInv, NEW t, (t = Undo(store) /\ CanUndo(store.hist)) \/ (t = Redo(store) /\ CanRedo(store.hist))
  PROVE  /\ Handled(store, t) /\ Logged(store.hist, t.hist) /\ Painted(store, t) /\ Poised(t)
         /\ t.sel = store.sel /\ t.ed = store.ed /\ t.ctx = store.ctx
<1>1. /\ t \in Stores /\ Frame(store, t) /\ t.doc = t.hist.present /\ t.dirty = TRUE
      /\ t.sel = store.sel /\ t.ed = store.ed /\ t.tok = store.tok /\ t.ctx = store.ctx
      /\ \A S : Holds(store, S) => Holds(t, S)
      /\ Logged(store.hist, t.hist)
  <2>1. CASE t = Undo(store) /\ CanUndo(store.hist)
    BY <2>1, InvFacts, UndoFacts DEF Logged
  <2>2. CASE t = Redo(store) /\ CanRedo(store.hist)
    BY <2>2, InvFacts, RedoFacts DEF Logged
  <2>. QED BY <2>1, <2>2
<1>2. Poised(t)
  BY <1>1, InvFacts DEF Poised
<1>. QED BY <1>1, <1>2 DEF Handled, Painted

LEMMA ToolbarUndoStep == ASSUME EditorInv, ToolbarUndo PROVE Onward
<1>1. PICK t \in (IF CanUndo(store.hist) THEN {Undo(store)} ELSE {})
                   \cup (IF CanRedo(store.hist) THEN {Redo(store)} ELSE {}) :
        Clicked(t) /\ Lapse(Orphans(t, "undo"))
  BY DEF ToolbarUndo
<1>2. (t = Undo(store) /\ CanUndo(store.hist)) \/ (t = Redo(store) /\ CanRedo(store.hist))
  OBVIOUS
<1>3. /\ Handled(store, t) /\ Logged(store.hist, t.hist) /\ Painted(store, t) /\ Poised(t)
      /\ t.sel = store.sel
  BY <1>2, UndoRedo
<1>4. lapses' = lapses \cup Orphans(t, "undo")
  BY <1>1 DEF Lapse
<1>5. Known(t, lapses')
  BY <1>3, <1>4, KnownOrOrphan
<1>6. Mouse /\ Aside /\ uuid' \in Nat
  BY InvFacts DEF ToolbarUndo, PanelFrame, HostUnchanged, Aside
<1>. QED BY <1>1, <1>3, <1>4, <1>5, <1>6, ClickStep

LEMMA UndoKeyStep == ASSUME EditorInv, UndoKey PROVE Onward
<1>1. PICK t \in {Undo(store), Redo(store)} :
        /\ t # store /\ Keyed(t)
        /\ Lapse(Orphans(t, "undo") \cup
             {"overwritten" : b \in {b \in DOMAIN drafts : b \notin KeptDrafts(t, DOMAIN drafts)}})
  BY DEF UndoKey
<1>2. (t = Undo(store) /\ CanUndo(store.hist)) \/ (t = Redo(store) /\ CanRedo(store.hist))
  BY <1>1 DEF Undo, Redo
<1>3. /\ Handled(store, t) /\ Logged(store.hist, t.hist) /\ Painted(store, t) /\ Poised(t)
      /\ t.sel = store.sel /\ t.ed = store.ed /\ t.ctx = store.ctx
  BY <1>2, UndoRedo
<1>4. lapses \subseteq lapses' /\ Orphans(t, "undo") \subseteq lapses'
  BY <1>1 DEF Lapse
<1>5. Known(t, lapses')
  BY <1>3, <1>4, KnownOrOrphan
<1>6. focus # Null => focus = t.sel /\ Inline(t, focus)
  BY <1>3, InvFacts DEF Caret, Inline
<1>7. Aside /\ uuid' \in Nat
  BY InvFacts DEF UndoKey, HostUnchanged, Aside
<1>. QED BY <1>1, <1>3, <1>4, <1>5, <1>6, <1>7, KeyStep

LEMMA ImageSourceStep == ASSUME EditorInv, ImageSource PROVE Onward
<1>1. PICK src \in {Empty, {"asset"}} :
       /\ Clicked(Update(store, store.sel, LAMBDA b : [b EXCEPT !.text = src]))
       /\ Lapse(IF src = {"asset"} /\ blobs # store.doc.pics THEN {"pictures"} ELSE {})
  BY DEF ImageSource
<1>. DEFINE t == Update(store, store.sel, LAMBDA b : [b EXCEPT !.text = src])
<1>2. Clicked(t) /\ lapses \subseteq lapses'
      /\ (src = {"asset"} /\ blobs # store.doc.pics => "pictures" \in lapses')
  BY <1>1 DEF Lapse
<1>3. Mouse /\ Aside /\ uuid' \in Nat
  BY InvFacts DEF ImageSource, StyleGesture, PanelFrame, HostUnchanged, Aside
<1>4. CASE src # {"asset"}
  <2>1. Gentle(store, t)
    BY <1>4, InvFacts, TextFacts, SourceWork
  <2>. HIDE DEF t
  <2>2. Handled(store, t) /\ Logged(store.hist, t.hist) /\ Painted(store, t) /\ Keeps(store, t)
    BY <2>1, WorkHandled DEF Gentle
  <2>3. Poised(t)
    BY <2>2, InvFacts DEF Poised, Keeps
  <2>4. Known(t, lapses')
    BY <1>2, <2>2, InvFacts DEF Known, Keeps
  <2>. QED BY <1>2, <1>3, <2>2, <2>3, <2>4, ClickStep
<1>5. CASE src = {"asset"}
  <2>1. t = Update(store, store.sel, LAMBDA b : [b EXCEPT !.text = {"asset"}])
    BY <1>5
  <2>2. /\ t \in Stores /\ Work(store, t) /\ Keeps(store, t)
        /\ \A p : Holds(store, Pictured(p)) /\ store.doc.pics = p => Holds(t, Pictured(p))
    BY <2>1, InvFacts, AssetWork
  <2>. HIDE DEF t
  <2>3. Handled(store, t) /\ Logged(store.hist, t.hist)
    BY <2>2, WorkHandled
  <2>4. Poised(t)
    BY <2>2, InvFacts DEF Poised, Keeps
  <2>5. Known(t, lapses')
    BY <1>2, <2>2, InvFacts DEF Known, Keeps
  <2>6. lapses' \cap {"pictures", "stale"} # {} \/ Holds(t, Pictured(blobs))
    <3>1. CASE lapses' \cap {"pictures", "stale"} # {}
      BY <3>1
    <3>2. CASE lapses' \cap {"pictures", "stale"} = {}
      <4>1. blobs = store.doc.pics
        BY <1>2, <1>5, <3>2
      <4>2. Holds(store, Pictured(blobs))
        BY <1>2, <3>2, InvFacts DEF Held
      <4>. QED BY <2>2, <4>1, <4>2
    <3>. QED BY <3>1, <3>2
  <2>. QED BY <1>2, <1>3, <2>3, <2>4, <2>5, <2>6, ClickStep
<1>. QED BY <1>4, <1>5

LEMMA ToggleModeStep == ASSUME EditorInv, ToggleMode PROVE Onward
<1>1. /\ Aside /\ lapses' = lapses /\ uuid' \in Nat
      /\ store' = store /\ focus' = focus /\ drafts' = drafts
  BY CalmFacts DEF ToggleMode
<1>2. mode' \in {"class", "override"} /\ uuid' = uuid
  BY DEF ToggleMode, Calm
<1>. QED BY <1>1, <1>2 DEF Onward, EditorInv, Aside, Logged

LEMMA TypeStep == ASSUME EditorInv, Type PROVE Onward
<1>1. PICK text \in Words :
        drafts' = [b \in DOMAIN drafts \cup {focus} |-> IF b = focus THEN text ELSE drafts[b]]
  BY DEF Type
<1>2. /\ Aside /\ lapses' = lapses /\ uuid' = uuid /\ store' = store /\ focus' = focus
      /\ mode' = mode /\ focus # Null
  BY DEF Type, HostUnchanged, Aside
<1>3. text \in Texts
  BY TextFacts
<1>4. /\ DOMAIN drafts' = DOMAIN drafts \cup {focus} /\ DOMAIN drafts' \subseteq Nat
      /\ drafts' \in [DOMAIN drafts' -> Texts]
  BY <1>1, <1>2, <1>3, InvFacts DEF Caret
<1>5. Caret(store', focus', drafts', lapses')
  BY <1>2, <1>4, InvFacts DEF Caret
<1>. QED BY <1>2, <1>5 DEF Onward, EditorInv, Aside, Logged

LEMMA CloseStep == ASSUME EditorInv, Close PROVE Onward
BY DEF Close, Onward, EditorInv, Logged


-----------------------------------------------------------------------------
(* The page: the caret, the keys and the contexts.                           *)

LEMMA ShownText ==
  ASSUME EditorInv, focus # Null
  PROVE  Shown(focus) \in Texts
<1>. DEFINE bs == store.doc.blocks
<1>1. focus \in Ids(bs) /\ bs \in Trees
  BY InvFacts, StateFacts DEF Caret
<1>2. bs[IndexOf(bs, focus)] \in Blocks
  BY <1>1, IndexFacts, TreeFacts
<1>3. FindBlock(bs, focus).text \in Texts
  BY <1>2 DEF FindBlock, Blocks
<1>4. focus \in DOMAIN drafts => drafts[focus] \in Texts
  BY InvFacts DEF Caret
<1>. QED BY <1>3, <1>4 DEF Shown

LEMMA PageFacts ==
  ASSUME EditorInv, NEW t, NEW of, NEW caret, of \subseteq DOMAIN drafts,
         focus \notin KeptDrafts(t, of) \/ focus = caret
  PROVE  \/ lapses \cap {"escape", "switch", "arrow", "load"} # {}
         \/ KeptDrafts(t, of) \subseteq {caret}
<1>1. KeptDrafts(t, of) \subseteq DOMAIN drafts
  BY DEF KeptDrafts
<1>. DEFINE kept == KeptDrafts(t, of)
<1>. HIDE DEF kept
<1>. QED BY <1>1, InvFacts DEF Caret, kept

LEMMA LeaveStep == ASSUME EditorInv, Leave PROVE Onward
<1>. DEFINE t == Commit(store, focus, Shown(focus))
            of == DOMAIN drafts \ {focus}
            caret == Null
<1>1. /\ Shows(t, caret, of) /\ focus # Null /\ Aside /\ lapses' = lapses
  BY DEF Leave, HostUnchanged, Aside
<1>2. uuid' \in Nat
  BY InvFacts DEF Leave
<1>3. /\ Work(store, t) /\ Painted(store, t)
      /\ t.sel = store.sel /\ t.tok = store.tok /\ t.ctx = store.ctx
      /\ t.ed = IF store.ctx = "layout" THEN Without(store.ed, focus) ELSE store.ed
      /\ Ids(store.doc.blocks) \subseteq Ids(t.doc.blocks)
  BY <1>1, InvFacts, ShownText, CommitWork
<1>. HIDE DEF t
<1>4. Poised(t)
  BY <1>3, InvFacts DEF Poised, Without
<1>5. Known(t, lapses')
  BY <1>1, <1>3, InvFacts DEF Known
<1>6. of \subseteq DOMAIN drafts /\ focus \notin KeptDrafts(t, of)
  BY DEF KeptDrafts
<1>7. \/ lapses' \cap {"escape", "switch", "arrow", "load"} # {}
      \/ KeptDrafts(t, of) \subseteq {caret}
  <2>. HIDE DEF caret, of
  <2>. QED BY <1>1, <1>6, PageFacts
<1>8. caret = Null
  OBVIOUS
<1>9. Handled(store, t) /\ Logged(store.hist, t.hist) /\ lapses \subseteq lapses'
  BY <1>1, <1>3, WorkHandled
<1>. HIDE DEF caret, of
<1>. QED BY <1>1, <1>2, <1>3, <1>4, <1>5, <1>6, <1>7, <1>8, <1>9, HandledStep

(* The caret goes to a block of the document in compose.                       *)
LEMMA FocusedStep ==
  ASSUME EditorInv, NEW s, NEW b \in Nat, Focused(s, b), Work(store, s), Painted(store, s),
         b \in Ids(s.doc.blocks), s.ctx = "compose", s.tok = Null,
         lapses \subseteq lapses', Aside, uuid' \in Nat
  PROVE  Onward
<1>. DEFINE t == FocusOn(s, b)
            of == IF focus = b THEN DOMAIN drafts ELSE DOMAIN drafts \ {focus}
<1>1. Shows(t, b, of)
  BY DEF Focused
<1>2. s \in Stores /\ (focus # Null => Shown(focus) \in Texts)
  BY ShownText DEF Work
<1>3. /\ Work(s, t) /\ Painted(s, t) /\ t.sel = b /\ t.ed = Null /\ t.ctx = s.ctx
      /\ t.tok = Null /\ Ids(s.doc.blocks) \subseteq Ids(t.doc.blocks)
  BY <1>2, FocusOnFacts
<1>. HIDE DEF t
<1>4. Work(store, t) /\ Painted(store, t)
  BY <1>2, <1>3, InvFacts, WorkTwice, PaintedTwice
<1>5. Poised(t) /\ Known(t, lapses')
  BY <1>3 DEF Poised, Known
<1>6. b # Null => b \in Nat /\ b = t.sel /\ b \in Ids(t.doc.blocks) /\ Inline(t, b)
  BY <1>3 DEF Inline
<1>7. of \subseteq DOMAIN drafts /\ (focus \notin KeptDrafts(t, of) \/ focus = b)
  BY DEF KeptDrafts
<1>. HIDE DEF of
<1>8. \/ lapses' \cap {"escape", "switch", "arrow", "load"} # {}
      \/ KeptDrafts(t, of) \subseteq {b}
  BY <1>7, PageFacts
<1>9. Handled(store, t) /\ Logged(store.hist, t.hist)
  BY <1>4, WorkHandled
<1>. QED BY <1>1, <1>4, <1>5, <1>6, <1>7, <1>8, <1>9, HandledStep

(* In layout an item of a list, or a click on one, takes the caret.            *)
LEMMA EditingStep ==
  ASSUME EditorInv, Mouse, NEW t, NEW b \in Nat, Shows(t, b, DOMAIN drafts), Work(store, t),
         Painted(store, t), Poised(t), b = t.sel, b \in Ids(t.doc.blocks), Inline(t, b),
         lapses' = lapses, Aside, uuid' \in Nat
  PROVE  Onward
<1>1. Known(t, lapses') /\ Handled(store, t) /\ Logged(store.hist, t.hist)
  BY WorkHandled DEF Known
<1>. DEFINE of == DOMAIN drafts
<1>2. Shows(t, b, of) /\ of \subseteq DOMAIN drafts
  OBVIOUS
<1>3. KeptDrafts(t, of) \subseteq of
  BY DEF KeptDrafts
<1>4. \/ lapses' \cap {"escape", "switch", "arrow", "load"} # {}
      \/ KeptDrafts(t, of) \subseteq {b}
  BY <1>3, MouseDrafts
<1>. HIDE DEF of
<1>. QED BY <1>1, <1>2, <1>4, HandledStep

LEMMA StartedFacts ==
  ASSUME EditorInv, store.ctx = "layout", NEW b \in Ids(store.doc.blocks)
  PROVE  /\ LET t == StartEditingBlock(store, b)
            IN  /\ Work(store, t) /\ Painted(store, t) /\ Poised(t) /\ b = t.sel
                /\ t.doc = store.doc /\ Inline(t, b) /\ b \in Nat
         /\ LET t == StartEditingBlock(SelectBlock(store, b), b)
            IN  /\ Work(store, t) /\ Painted(store, t) /\ Poised(t) /\ b = t.sel
                /\ t.doc = store.doc /\ Inline(t, b)
         /\ LET t == SelectBlock(StartEditingBlock(store, b), b)
            IN  /\ Work(store, t) /\ Painted(store, t) /\ Poised(t) /\ b = t.sel
                /\ t.doc = store.doc
<1>0. store \in Stores /\ b \in Nat /\ store.tok = Null
  BY InvFacts DEF Poised
<1>. DEFINE t == StartEditingBlock(store, b)
            s == SelectBlock(store, b)
            u == StartEditingBlock(s, b)
            v == SelectBlock(t, b)
<1>1. Look(store, t) /\ t.sel = b /\ t.ed = b /\ t.tok = store.tok /\ t.ctx = store.ctx
  BY <1>0, StartEditingLook
<1>2. /\ Look(store, s) /\ s.sel = b /\ s.ctx = store.ctx
      /\ s.tok = IF b = store.tok THEN store.tok ELSE Null
  BY <1>0, SelectBlockLook
<1>3. s \in Stores /\ t \in Stores
  BY <1>1, <1>2 DEF Look
<1>. HIDE DEF t, s
<1>4. Look(s, u) /\ u.sel = b /\ u.ed = b /\ u.tok = s.tok /\ u.ctx = s.ctx
  BY <1>0, <1>2, <1>3, StartEditingLook
<1>5. /\ Look(t, v) /\ v.sel = b /\ v.ed = Null /\ v.ctx = t.ctx
      /\ v.tok = IF b = t.tok THEN t.tok ELSE Null
  BY <1>0, <1>3, SelectBlockLook
<1>. HIDE DEF u, v
<1>6. Look(store, u) /\ Look(store, v)
  BY <1>1, <1>2, <1>4, <1>5 DEF Look, Same, Frame
<1>7. /\ Work(store, t) /\ Painted(store, t) /\ t.doc = store.doc
      /\ Work(store, u) /\ Painted(store, u) /\ u.doc = store.doc
      /\ Work(store, v) /\ Painted(store, v) /\ v.doc = store.doc
  BY <1>0, <1>1, <1>6, LookFacts
<1>8. Poised(t) /\ Poised(u) /\ Poised(v) /\ Inline(t, b) /\ Inline(u, b)
  BY <1>0, <1>1, <1>2, <1>4, <1>5 DEF Poised, Inline
<1>. QED BY <1>0, <1>1, <1>4, <1>5, <1>7, <1>8 DEF t, s, u, v

LEMMA ClickBlockStep == ASSUME EditorInv, ClickBlock PROVE Onward
<1>1. PICK b \in Ids(store.doc.blocks) :
       IF store.ctx = "compose" /\ IsEditable(Block(store, b)) THEN Focused(store, b)
       ELSE IF store.ctx = "layout" /\ Block(store, b).type = "li"
       THEN Shows(StartEditingBlock(SelectBlock(store, b), b), b, DOMAIN drafts)
       ELSE IF store.ctx = "layout" /\ IsEditable(Block(store, b))
       THEN Clicked(SelectBlock(StartEditingBlock(store, b), b))
       ELSE Clicked(SelectBlock(store, b))
  BY DEF ClickBlock
<1>2. Mouse /\ Aside /\ lapses' = lapses /\ uuid' \in Nat /\ b \in Nat
  BY InvFacts DEF ClickBlock, HostUnchanged, Aside
<1>3. CASE store.ctx = "compose" /\ Focused(store, b)
  <2>1. store.tok = Null
    BY <1>3, InvFacts DEF Poised
  <2>. QED BY <1>2, <1>3, <2>1, StoreWork, FocusedStep
<1>4. CASE store.ctx = "layout" /\ Shows(StartEditingBlock(SelectBlock(store, b), b), b, DOMAIN drafts)
  <2>. DEFINE t == StartEditingBlock(SelectBlock(store, b), b)
  <2>1. /\ Work(store, t) /\ Painted(store, t) /\ Poised(t) /\ b = t.sel
        /\ t.doc = store.doc /\ Inline(t, b) /\ Shows(t, b, DOMAIN drafts)
    BY <1>4, StartedFacts
  <2>. HIDE DEF t
  <2>. QED BY <1>2, <2>1, EditingStep
<1>5. CASE store.ctx = "layout" /\ Clicked(SelectBlock(StartEditingBlock(store, b), b))
  <2>. DEFINE t == SelectBlock(StartEditingBlock(store, b), b)
  <2>1. /\ Work(store, t) /\ Painted(store, t) /\ Poised(t) /\ b = t.sel
        /\ t.doc = store.doc /\ Clicked(t)
    BY <1>5, StartedFacts
  <2>. HIDE DEF t
  <2>. QED BY <1>2, <2>1, SelectClick
<1>6. CASE Clicked(SelectBlock(store, b))
  BY <1>2, <1>6, SelectBlockClick
<1>. QED BY <1>1, <1>3, <1>4, <1>5, <1>6

LEMMA ClickPageStep == ASSUME EditorInv, ClickPage PROVE Onward
<1>1. Mouse /\ Aside /\ lapses' = lapses
  BY DEF ClickPage, HostUnchanged, Aside
<1>2. CASE store.doc.blocks # << >>
  <2>1. Clicked(SelectBlock(store, Null)) /\ uuid' \in Nat
    BY <1>2, InvFacts DEF ClickPage
  <2>. QED BY <1>1, <2>1, SelectBlockClick
<1>3. CASE store.doc.blocks = << >>
  <2>. DEFINE w == AddBlock(store, CreateBlock("p", uuid), Null)
              s == SelectBlock(w, Null)
  <2>1. /\ uuid' = uuid + 1
        /\ IF s.ctx = "compose" THEN Focused(s, uuid) ELSE Clicked(s)
    BY <1>3 DEF ClickPage
  <2>2. Gentle(store, w) /\ uuid \in Ids(w.doc.blocks) /\ uuid \in Nat
    BY InvFacts, AddBlockWork
  <2>. HIDE DEF w
  <2>3. /\ Work(store, s) /\ Painted(store, s) /\ Poised(s) /\ s.sel = Null /\ s.doc = w.doc
    BY <2>2, SelectedAfter DEF Gentle, Keeps
  <2>. HIDE DEF s
  <2>4. uuid' \in Nat
    BY <2>1, <2>2
  <2>5. CASE s.ctx = "compose"
    <3>1. s.tok = Null /\ Focused(s, uuid) /\ uuid \in Ids(s.doc.blocks)
      BY <2>1, <2>2, <2>3, <2>5 DEF Poised
    <3>. QED BY <1>1, <2>2, <2>3, <2>4, <2>5, <3>1, FocusedStep
  <2>6. CASE s.ctx # "compose"
    BY <1>1, <2>1, <2>3, <2>4, <2>6, SelectClick
  <2>. QED BY <2>5, <2>6
<1>. QED BY <1>2, <1>3

(* A key that edits, or selects, while no block has the caret.                 *)
LEMMA NoCaretKey ==
  ASSUME EditorInv, NEW t, Keyed(t), focus = Null, Work(store, t), Painted(store, t), Poised(t),
         Known(t, lapses'), lapses \subseteq lapses', Aside, uuid' \in Nat
  PROVE  Onward
<1>1. Handled(store, t) /\ Logged(store.hist, t.hist)
  BY WorkHandled
<1>. QED BY <1>1, KeyStep

LEMMA ArrowStep == ASSUME EditorInv, Arrow PROVE Onward
<1>1. PICK direction \in {"up", "down"} :
       LET depth == SelectedBlock(store).depth
           times == IF store.ed = Null THEN depth + 1 ELSE depth
       IN  /\ times > 0
           /\ Keyed(SelectFarNeighbor(store, direction, times))
           /\ Lapse(IF focus \in DOMAIN drafts THEN {"arrow"} ELSE {})
  BY DEF Arrow
<1>. DEFINE depth == SelectedBlock(store).depth
            times == IF store.ed = Null THEN depth + 1 ELSE depth
            t == SelectFarNeighbor(store, direction, times)
<1>2. Keyed(t) /\ lapses \subseteq lapses' /\ (focus \in DOMAIN drafts => "arrow" \in lapses')
  BY <1>1 DEF Lapse
<1>3. store.sel \in Ids(store.doc.blocks) /\ store.ctx = "layout" /\ Aside /\ uuid' \in Nat
  BY InvFacts DEF Arrow, HasSelectedBlock, HostUnchanged, Aside
<1>4. times \in Nat \ {0}
  <2>1. store.doc.blocks \in Trees
    BY InvFacts, StateFacts
  <2>2. store.doc.blocks[IndexOf(store.doc.blocks, store.sel)] \in Blocks
    BY <1>3, <2>1, IndexFacts, TreeFacts
  <2>3. depth \in Nat
    BY <2>2 DEF SelectedBlock, FindBlock, Blocks
  <2>4. times > 0
    BY <1>1
  <2>. HIDE DEF depth
  <2>. QED BY <2>3, <2>4
<1>. HIDE DEF times
<1>5. /\ Look(store, t) /\ t.sel \in Ids(store.doc.blocks) /\ t.ed = Null
      /\ t.tok = store.tok /\ t.ctx = store.ctx
  BY <1>3, <1>4, InvFacts, FarNeighborFacts
<1>. HIDE DEF t
<1>6. Work(store, t) /\ Painted(store, t) /\ t.doc = store.doc
  BY <1>5, InvFacts, LookFacts
<1>7. Handled(store, t) /\ Logged(store.hist, t.hist)
  BY <1>6, WorkHandled
<1>8. Poised(t) /\ Known(t, lapses')
  BY <1>3, <1>5, <1>6, InvFacts DEF Poised, Known
<1>9. focus # Null => ~Inline(t, focus)
  BY <1>3, <1>5 DEF Inline
<1>. QED BY <1>2, <1>3, <1>6, <1>7, <1>8, <1>9, KeyStep

LEMMA LayoutFocus ==
  ASSUME EditorInv, store.ctx = "layout", store.ed = Null
  PROVE  Mouse
BY InvFacts DEF Caret, Inline, Mouse

LEMMA EnterInLayoutStep == ASSUME EditorInv, EnterInLayout PROVE Onward
<1>. DEFINE b == store.sel
<1>1. /\ store.ctx = "layout" /\ Mouse /\ b \in Ids(store.doc.blocks) /\ b \in Nat /\ Aside
      /\ lapses' = lapses /\ uuid' \in Nat
  BY InvFacts, LayoutFocus DEF EnterInLayout, HasSelectedBlock, HostUnchanged, Aside
<1>2. CASE Shows(StartEditingBlock(store, b), b, DOMAIN drafts)
  <2>. DEFINE t == StartEditingBlock(store, b)
  <2>1. /\ Work(store, t) /\ Painted(store, t) /\ Poised(t) /\ b = t.sel
        /\ t.doc = store.doc /\ Inline(t, b) /\ Shows(t, b, DOMAIN drafts)
    BY <1>1, <1>2, StartedFacts
  <2>. HIDE DEF t, b
  <2>. QED BY <1>1, <2>1, EditingStep
<1>3. CASE Shows(SelectBlock(StartEditingBlock(store, b), b), Null, DOMAIN drafts)
  <2>. DEFINE t == SelectBlock(StartEditingBlock(store, b), b)
  <2>1. /\ Work(store, t) /\ Painted(store, t) /\ Poised(t) /\ b = t.sel
        /\ t.doc = store.doc /\ Clicked(t)
    BY <1>1, <1>3, StartedFacts DEF Clicked
  <2>. HIDE DEF t, b
  <2>. QED BY <1>1, <2>1, SelectClick
<1>. QED BY <1>2, <1>3 DEF EnterInLayout

LEMMA DeletedKnown ==
  ASSUME EditorInv, NEW id, id = store.sel, lapses \subseteq lapses'
  PROVE  Known(Deleted(store, id), lapses')
<1>. DEFINE t == Deleted(store, id)
<1>1. t.sel = Without(store.sel, id)
  BY InvFacts, DeletedWork
<1>. HIDE DEF t
<1>2. Known(t, lapses')
  BY <1>1 DEF Known, Without
<1>. QED BY <1>2 DEF t

LEMMA DeleteInLayoutStep == ASSUME EditorInv, DeleteInLayout PROVE Onward
<1>. DEFINE t == Deleted(store, store.sel)
<1>1. Keyed(t) /\ focus = Null /\ Aside /\ lapses' = lapses /\ uuid' \in Nat
  BY InvFacts, LayoutFocus DEF DeleteInLayout, HostUnchanged, Aside, Mouse
<1>2. Work(store, t) /\ Painted(store, t) /\ Poised(t) /\ Known(t, lapses')
  BY <1>1, InvFacts, DeletedWork, DeletedPoised, DeletedKnown
<1>. HIDE DEF t
<1>. QED BY <1>1, <1>2, NoCaretKey

LEMMA EscapeInLayoutStep == ASSUME EditorInv, EscapeInLayout PROVE Onward
<1>. DEFINE t == StopEditingBlock(store, focus)
<1>1. /\ Keyed(t) /\ focus # Null /\ store.ctx = "layout" /\ Aside /\ uuid' \in Nat
      /\ lapses \subseteq lapses' /\ (focus \in DOMAIN drafts => "escape" \in lapses')
  BY InvFacts DEF EscapeInLayout, HostUnchanged, Aside, Lapse
<1>2. /\ Look(store, t) /\ t.sel = store.sel /\ t.ed = Without(store.ed, focus)
      /\ t.tok = store.tok /\ t.ctx = store.ctx
  BY InvFacts, StopEditingLook
<1>. HIDE DEF t
<1>3. Work(store, t) /\ Painted(store, t) /\ t.doc = store.doc
  BY <1>2, InvFacts, LookFacts
<1>4. Handled(store, t) /\ Logged(store.hist, t.hist)
  BY <1>3, WorkHandled
<1>5. Poised(t) /\ Known(t, lapses')
  BY <1>1, <1>2, <1>3, InvFacts DEF Poised, Known, Without
<1>6. focus = t.sel
  BY <1>1, <1>2, InvFacts DEF Caret
<1>7. \/ lapses' \cap {"escape", "switch", "arrow", "load"} # {}
      \/ focus \notin DOMAIN drafts
  BY <1>1
<1>. QED BY <1>1, <1>3, <1>4, <1>5, <1>6, <1>7, KeyStep

LEMMA EnterInComposeStep == ASSUME EditorInv, EnterInCompose PROVE Onward
<1>. DEFINE s == AddBlock(store, CreateBlock("p", uuid), focus)
<1>1. /\ Focused(s, uuid) /\ uuid' = uuid + 1 /\ store.ctx = "compose" /\ uuid \in Nat
      /\ Aside /\ lapses' = lapses
  BY InvFacts DEF EnterInCompose, HostUnchanged, Aside
<1>2. Gentle(store, s) /\ uuid \in Ids(s.doc.blocks)
  BY InvFacts, AddBlockWork
<1>. HIDE DEF s
<1>3. /\ Work(store, s) /\ Painted(store, s) /\ s.ctx = "compose" /\ s.tok = Null
  BY <1>1, <1>2, InvFacts DEF Gentle, Keeps, Poised
<1>4. uuid' \in Nat
  BY <1>1
<1>. QED BY <1>1, <1>2, <1>3, <1>4, FocusedStep

LEMMA BackspaceStep == ASSUME EditorInv, Backspace PROVE Onward
<1>1. /\ focus # Null /\ store.ctx = "compose" /\ Aside /\ uuid' \in Nat
      /\ focus = store.sel /\ store.tok = Null /\ store.ed = Null /\ lapses \subseteq lapses'
  BY InvFacts DEF Backspace, HostUnchanged, Aside, Caret, Poised, Lapse
<1>2. CASE Keyed(Deleted(store, focus))
  <2>. DEFINE t == Deleted(store, focus)
  <2>1. /\ Work(store, t) /\ Painted(store, t) /\ focus \notin Ids(t.doc.blocks)
        /\ Poised(t) /\ Known(t, lapses')
    BY <1>1, InvFacts, DeletedWork, DeletedPoised, DeletedKnown
  <2>2. Keyed(t)
    BY <1>2
  <2>. HIDE DEF t
  <2>3. ~SameElement(t, focus)
    BY <2>1 DEF SameElement
  <2>4. Handled(store, t) /\ Logged(store.hist, t.hist)
    BY <2>1, WorkHandled
  <2>. QED BY <1>1, <2>1, <2>2, <2>3, <2>4, KeyStep
<1>3. CASE /\ MergesUp(store, focus)
           /\ Shows(SelectBlock(MergeBlockUp(store, focus), MergeBlockUp(store, focus).sel),
                    MergeBlockUp(store, focus).sel, DOMAIN drafts)
  <2>. DEFINE w == MergeBlockUp(store, focus)
              t == SelectBlock(w, w.sel)
              caret == w.sel
              of == DOMAIN drafts
  <2>1. /\ w \in Stores /\ Work(store, w) /\ Painted(store, w)
        /\ w.sel \in Ids(w.doc.blocks) /\ w.tok = store.tok /\ w.ctx = store.ctx
        /\ focus \notin Ids(w.doc.blocks)
    BY <1>3, InvFacts, MergeWork
  <2>2. Shows(t, caret, of) /\ of \subseteq DOMAIN drafts
    BY <1>3
  <2>. HIDE DEF w
  <2>3. w.sel \in Nat
    BY <2>1, StateFacts, IdFacts
  <2>4. /\ t \in Stores /\ Work(store, t) /\ Painted(store, t) /\ Poised(t)
        /\ t.sel = w.sel /\ t.ctx = w.ctx /\ t.doc = w.doc
    BY <2>1, <2>3, SelectedAfter
  <2>. HIDE DEF t
  <2>5. caret \in Nat /\ caret = t.sel /\ caret \in Ids(t.doc.blocks) /\ Inline(t, caret)
    BY <1>1, <2>1, <2>3, <2>4 DEF Inline
  <2>6. focus \notin KeptDrafts(t, of)
    BY <2>1, <2>4 DEF KeptDrafts, SameElement
  <2>. HIDE DEF caret, of
  <2>7. \/ lapses' \cap {"escape", "switch", "arrow", "load"} # {}
        \/ KeptDrafts(t, of) \subseteq {caret}
    BY <1>1, <2>2, <2>6, PageFacts
  <2>8. Handled(store, t) /\ Logged(store.hist, t.hist) /\ Known(t, lapses')
    BY <2>4, <2>5, WorkHandled DEF Known
  <2>. QED BY <1>1, <2>2, <2>4, <2>5, <2>7, <2>8, HandledStep
<1>. QED BY <1>2, <1>3 DEF Backspace

LEMMA HeadingShortcutStep == ASSUME EditorInv, HeadingShortcut PROVE Onward
<1>. DEFINE v == ChangeBlockType(store, focus, "h")
            w == SetBlockSpans(v, focus, Empty)
            t == SelectBlock(w, focus)
            of == DOMAIN drafts
<1>1. /\ focus # Null /\ store.ctx = "compose" /\ Aside /\ uuid' \in Nat /\ lapses' = lapses
      /\ Shows(t, focus, of) /\ of \subseteq DOMAIN drafts /\ store.tok = Null
      /\ focus \in Nat /\ focus \in Ids(store.doc.blocks)
  BY InvFacts DEF HeadingShortcut, HostUnchanged, Aside, Caret, Poised
<1>2. Gentle(store, v)
  BY InvFacts, ChangeBlockTypeWork
<1>. HIDE DEF v
<1>3. v \in Stores
  BY <1>2, GentleStores
<1>4. Gentle(v, w)
  BY <1>3, TextFacts, SetBlockSpansWork
<1>. HIDE DEF w
<1>5. Gentle(store, w)
  BY <1>2, <1>4, InvFacts, GentleTwice
<1>6. /\ Work(store, t) /\ Painted(store, t) /\ Poised(t)
      /\ t.sel = focus /\ t.ctx = w.ctx /\ t.doc = w.doc
  BY <1>1, <1>5, SelectedAfter DEF Gentle, Keeps
<1>. HIDE DEF t
<1>7. focus \in Ids(t.doc.blocks) /\ Inline(t, focus)
  BY <1>1, <1>5, <1>6 DEF Gentle, Keeps, Inline
<1>. HIDE DEF of
<1>8. \/ lapses' \cap {"escape", "switch", "arrow", "load"} # {}
      \/ KeptDrafts(t, of) \subseteq {focus}
  BY <1>1, PageFacts
<1>9. Handled(store, t) /\ Logged(store.hist, t.hist) /\ Known(t, lapses')
  BY <1>6, <1>7, WorkHandled DEF Known
<1>. QED BY <1>1, <1>6, <1>7, <1>8, <1>9, HandledStep

(* Another context: the caret that stood in a block it may stay in stays.      *)
LEMMA EnteredStep ==
  ASSUME EditorInv, NEW x \in Contexts, x # store.ctx, Entered(SetContext(store, x), focus, DOMAIN drafts),
         lapses \subseteq lapses', Aside, uuid' \in Nat,
         focus \in DOMAIN drafts /\ ~Inline(SetContext(store, x), focus) => "switch" \in lapses'
  PROVE  Onward
<1>. DEFINE s == SetContext(store, x)
            first == IF s.doc.blocks = << >> THEN Null ELSE EditableIn(s, s.doc.blocks[1].id)
            stays == focus # Null /\ focus # first /\ Inline(s, focus)
            w == IF stays THEN Commit(s, focus, Shown(focus)) ELSE s
            all == DOMAIN drafts
            of == IF focus = first THEN all ELSE all \ {focus}
            caret == IF focus # Null /\ Inline(s, focus) THEN focus ELSE Null
            t == SelectBlock(w, first)
<1>1. /\ Look(store, s) /\ s.sel = store.sel /\ s.ctx = x
      /\ s.ed = IF x = "layout" THEN store.ed ELSE Null
      /\ s.tok = IF x = "nlp" THEN store.tok ELSE Null
  BY InvFacts, SetContextLook
<1>2. s \in Stores /\ Work(store, s) /\ Painted(store, s) /\ s.doc = store.doc
  BY <1>1, InvFacts, LookFacts
<1>3. IF s.ctx = "compose" /\ store.ctx # "compose" /\ first # Null
      THEN Shows(t, first, of) ELSE Shows(s, caret, all)
  BY DEF Entered
<1>4. focus \in DOMAIN drafts /\ ~Inline(s, focus) => "switch" \in lapses'
  OBVIOUS
<1>5. focus # Null => Shown(focus) \in Texts
  BY ShownText
<1>6. first # Null => first \in Ids(s.doc.blocks) /\ first \in Nat
  BY <1>2, EditableFacts
<1>. HIDE DEF s, first
<1>7. CASE s.ctx = "compose" /\ first # Null /\ Shows(t, first, of)
  <2>1. /\ w \in Stores /\ Work(s, w) /\ Painted(s, w) /\ w.tok = s.tok /\ w.ctx = s.ctx
        /\ Ids(s.doc.blocks) \subseteq Ids(w.doc.blocks)
    <3>1. CASE stays
      BY <1>2, <1>5, <3>1, CommitWork
    <3>2. CASE ~stays
      BY <1>2, <3>2, Untouched DEF Gentle
    <3>. QED BY <3>1, <3>2
  <2>. HIDE DEF w
  <2>2. /\ Look(w, t) /\ t.sel = first /\ t.ed = Null /\ t.ctx = w.ctx
        /\ t.tok = IF first = w.tok THEN w.tok ELSE Null
    BY <1>6, <1>7, <2>1, SelectBlockLook
  <2>3. t \in Stores /\ Work(w, t) /\ Painted(w, t) /\ t.doc = w.doc
    BY <2>1, <2>2, LookFacts
  <2>. HIDE DEF t
  <2>4. Work(s, t) /\ Painted(s, t)
    BY <1>2, <2>1, <2>3, WorkTwice, PaintedTwice
  <2>5. Work(store, t) /\ Painted(store, t)
    BY <1>2, <2>3, <2>4, InvFacts, WorkTwice, PaintedTwice
  <2>6. Poised(t)
    BY <1>1, <1>7, <2>1, <2>2 DEF Poised
  <2>7. first \in Nat /\ first = t.sel /\ first \in Ids(t.doc.blocks) /\ Inline(t, first)
    BY <1>6, <1>7, <2>1, <2>2, <2>3 DEF Inline
  <2>8. of \subseteq DOMAIN drafts /\ (focus \notin KeptDrafts(t, of) \/ focus = first)
    BY DEF KeptDrafts
  <2>. HIDE DEF of
  <2>9. \/ lapses' \cap {"escape", "switch", "arrow", "load"} # {}
        \/ KeptDrafts(t, of) \subseteq {first}
    BY <2>8, PageFacts
  <2>10. Handled(store, t) /\ Logged(store.hist, t.hist) /\ Known(t, lapses')
    BY <2>5, <2>7, WorkHandled DEF Known
  <2>. QED BY <1>7, <2>5, <2>6, <2>7, <2>8, <2>9, <2>10, HandledStep
<1>8. CASE Shows(s, caret, all)
  <2>1. Poised(s) /\ Known(s, lapses')
    BY <1>1, <1>2, InvFacts DEF Poised, Known
  <2>2. caret # Null => caret \in Nat /\ caret = s.sel /\ caret \in Ids(s.doc.blocks) /\ Inline(s, caret)
    BY <1>1, <1>2, InvFacts DEF Caret
  <2>3. all \subseteq DOMAIN drafts /\ Null \notin DOMAIN drafts
    BY InvFacts, EditorAssumption
  <2>4. \/ lapses' \cap {"escape", "switch", "arrow", "load"} # {}
        \/ KeptDrafts(s, all) \subseteq {caret}
    <3>1. CASE "switch" \in lapses'
      BY <3>1
    <3>2. CASE focus \notin KeptDrafts(s, all) \/ focus = caret
      <4>. HIDE DEF caret, all
      <4>. QED BY <2>3, <3>2, PageFacts
    <3>3. CASE focus = Null \/ Inline(s, focus)
      <4>1. focus = caret
        BY <3>3
      <4>. QED BY <3>2, <4>1
    <3>4. CASE focus \notin DOMAIN drafts
      <4>1. focus \notin KeptDrafts(s, all)
        BY <3>4 DEF KeptDrafts
      <4>. QED BY <3>2, <4>1
    <3>. QED BY <1>4, <3>1, <3>3, <3>4
  <2>5. Handled(store, s) /\ Logged(store.hist, s.hist)
    BY <1>2, WorkHandled
  <2>. HIDE DEF caret, all
  <2>. QED BY <1>2, <1>8, <2>1, <2>2, <2>3, <2>4, <2>5, HandledStep
<1>. QED BY <1>3, <1>7, <1>8

LEMMA ContextTabStep == ASSUME EditorInv, ContextTab PROVE Onward
<1>1. PICK x \in Contexts \ {store.ctx} : Entered(SetContext(store, x), Null, DOMAIN drafts)
  BY DEF ContextTab
<1>2. focus = Null /\ Aside /\ lapses' = lapses /\ uuid' \in Nat /\ Null \notin DOMAIN drafts
  BY InvFacts, EditorAssumption DEF ContextTab, HostUnchanged, Aside, Mouse
<1>3. Entered(SetContext(store, x), focus, DOMAIN drafts)
  BY <1>1, <1>2
<1>. QED BY <1>1, <1>2, <1>3, EnteredStep

LEMMA ContextKeyStep == ASSUME EditorInv, ContextKey PROVE Onward
<1>1. PICK x \in Contexts \ {store.ctx} :
       LET s == SetContext(store, x)
       IN  /\ Entered(s, focus, DOMAIN drafts)
           /\ Lapse(IF focus \in DOMAIN drafts /\ ~Inline(s, focus) THEN {"switch"} ELSE {})
  BY DEF ContextKey
<1>2. Aside /\ uuid' \in Nat
  BY InvFacts DEF ContextKey, HostUnchanged, Aside
<1>3. /\ Entered(SetContext(store, x), focus, DOMAIN drafts) /\ lapses \subseteq lapses'
      /\ focus \in DOMAIN drafts /\ ~Inline(SetContext(store, x), focus) => "switch" \in lapses'
  BY <1>1 DEF Lapse
<1>. QED BY <1>1, <1>2, <1>3, EnteredStep

-----------------------------------------------------------------------------
(* The host: its calls, its answers, and the flags that speak of them.         *)

\* The page after an answer: the caret is where it was, or, behind a load,
\* nowhere, and what was typed is gone.
Rests(t) ==
  \/ Mouse /\ Clicked(t) /\ lapses \subseteq lapses'
  \/ Keyed(t) /\ lapses \subseteq lapses' /\ (focus # Null => focus = t.sel /\ Inline(t, focus))
  \/ /\ Keyed(t) /\ t.ctx = "layout" /\ t.ed = Null
     /\ DOMAIN drafts = {} \/ "load" \in lapses'

LEMMA RestsPage ==
  ASSUME EditorInv, NEW t, Rests(t)
  PROVE  store' = t /\ Caret(store', focus', drafts', lapses') /\ mode' \in {"class", "override"}
<1>. DEFINE kept == focus # Null /\ SameElement(t, focus) /\ Inline(t, focus)
            caret == IF ~Clicked(t) /\ kept THEN focus ELSE Null
            of == DOMAIN drafts
<1>1. CASE Mouse /\ Clicked(t) /\ lapses \subseteq lapses'
  <2>. DEFINE none == Null
  <2>1. Shows(t, none, of) /\ of \subseteq DOMAIN drafts /\ none = Null
    BY <1>1 DEF Clicked
  <2>2. KeptDrafts(t, of) \subseteq of
    BY DEF KeptDrafts
  <2>3. lapses' \cap {"escape", "switch", "arrow", "load"} # {} \/ KeptDrafts(t, of) \subseteq {none}
    BY <1>1, <2>2, MouseDrafts
  <2>. HIDE DEF none, of
  <2>. QED BY <2>1, <2>3, PageStep
<1>2. CASE Keyed(t) /\ lapses \subseteq lapses' /\ (focus # Null => focus = t.sel /\ Inline(t, focus))
  <2>. DEFINE at == IF focus # Null /\ SameElement(t, focus) /\ Inline(t, focus) THEN focus ELSE Null
  <2>1. Shows(t, at, of) /\ of \subseteq DOMAIN drafts
    BY <1>2 DEF Keyed
  <2>2. at # Null => at \in Nat /\ at = t.sel /\ at \in Ids(t.doc.blocks) /\ Inline(t, at)
    BY <1>2, InvFacts DEF SameElement
  <2>3. focus \notin KeptDrafts(t, of) \/ focus = at
    <3>1. CASE focus = Null
      BY <3>1
    <3>2. CASE focus # Null
      BY <1>2, <3>2 DEF KeptDrafts
    <3>. QED BY <3>1, <3>2
  <2>. HIDE DEF at, of
  <2>4. lapses' \cap {"escape", "switch", "arrow", "load"} # {} \/ KeptDrafts(t, of) \subseteq {at}
    BY <1>2, <2>1, <2>3, PageFacts
  <2>. QED BY <2>1, <2>2, <2>4, PageStep
<1>3. CASE /\ Keyed(t) /\ t.ctx = "layout" /\ t.ed = Null
           /\ DOMAIN drafts = {} \/ "load" \in lapses'
  <2>. DEFINE none == Null
  <2>1. focus # Null => ~Inline(t, focus)
    BY <1>3 DEF Inline
  <2>2. Shows(t, none, of) /\ of \subseteq DOMAIN drafts /\ none = Null
    BY <1>3, <2>1 DEF Keyed
  <2>3. KeptDrafts(t, of) \subseteq of
    BY DEF KeptDrafts
  <2>4. lapses' \cap {"escape", "switch", "arrow", "load"} # {} \/ KeptDrafts(t, of) \subseteq {none}
    BY <1>3, <2>3
  <2>. HIDE DEF none, of
  <2>. QED BY <2>2, <2>4, PageStep
<1>. QED BY <1>1, <1>2, <1>3 DEF Rests

LEMMA AnswerStep ==
  ASSUME EditorInv, NEW t, Rests(t), Held(t, lapses', blobs'), Poised(t), Known(t, lapses'),
         Called(t, calls'), Filed(t, lapses', files', db', base', uuid'), Logged(store.hist, t.hist)
  PROVE  Onward
<1>1. /\ store' = t /\ Caret(store', focus', drafts', lapses') /\ mode' \in {"class", "override"}
  BY RestsPage
<1>. QED BY <1>1 DEF Onward, EditorInv

\* The same documents and the same selection.
Alike(s, t) ==
  /\ t.doc = s.doc /\ t.hist = s.hist /\ t.sel = s.sel /\ t.ed = s.ed
  /\ t.tok = s.tok /\ t.ctx = s.ctx

LEMMA AlikeStep ==
  ASSUME EditorInv, NEW t, t \in Stores, Alike(store, t), Keyed(t) \/ (Mouse /\ Clicked(t)),
         lapses \subseteq lapses', blobs' = blobs \/ "pictures" \in lapses',
         Called(t, calls'), Filed(t, lapses', files', db', base', uuid')
  PROVE  Onward
<1>1. Rests(t)
  <2>1. focus # Null => focus = t.sel /\ Inline(t, focus)
    BY InvFacts DEF Caret, Alike, Inline
  <2>. QED BY <2>1 DEF Rests
<1>2. Poised(t) /\ Known(t, lapses')
  BY InvFacts DEF Poised, Known, Alike
<1>3. Held(t, lapses', blobs')
  <2>1. "stale" \in lapses' \/ (Holds(t, Own(t.doc.id)) /\ Content(t.doc) = Content(t.hist.present))
    BY InvFacts DEF Held, Alike, Holds
  <2>2. lapses' \cap {"pictures", "stale"} # {} \/ Holds(t, Pictured(blobs'))
    <3>1. CASE lapses' \cap {"pictures", "stale"} # {}
      BY <3>1
    <3>2. CASE lapses' \cap {"pictures", "stale"} = {}
      <4>1. blobs' = blobs /\ lapses \cap {"pictures", "stale"} = {}
        BY <3>2
      <4>. QED BY <4>1, InvFacts DEF Held, Alike, Holds
    <3>. QED BY <3>1, <3>2
  <2>. QED BY <2>1, <2>2 DEF Held
<1>4. Logged(store.hist, t.hist)
  BY DEF Logged, Alike
<1>. QED BY <1>1, <1>2, <1>3, <1>4, AnswerStep

(* Filed, when what it speaks of is as it was.                                 *)
LEMMA FiledAs ==
  ASSUME EditorInv, NEW t, t.doc = store.doc, t.path = store.path,
         \/ t.dirty = store.dirty
         \/ "unwritten" \in lapses',
         lapses \subseteq lapses', files' = files, db' = db, base' = base, uuid' \in Nat
  PROVE  Filed(t, lapses', files', db', base', uuid')
<1>1. Filed(store, lapses, files, db, base, uuid)
  BY InvFacts
<1>2. db' \subseteq Documents /\ files' \in [Paths -> Nat]
  BY <1>1 DEF Filed
<1>3. lapses' \cap {"path", "stale"} # {} \/ t.path = Null \/ files'[t.path] = t.doc.id
  <2>1. lapses \cap {"path", "stale"} # {} => lapses' \cap {"path", "stale"} # {}
    OBVIOUS
  <2>. QED BY <1>1, <2>1 DEF Filed
<1>4. t.dirty \/ lapses' \cap {"unwritten", "overtaken", "stale"} # {} \/ Content(t.doc) = base'
  <2>1. CASE "unwritten" \in lapses'
    BY <2>1
  <2>2. CASE t.dirty = store.dirty
    <3>1. lapses \cap {"unwritten", "overtaken", "stale"} # {} => lapses' \cap {"unwritten", "overtaken", "stale"} # {}
      OBVIOUS
    <3>. QED BY <1>1, <2>2, <3>1 DEF Filed
  <2>. QED BY <2>1, <2>2
<1>. QED BY <1>2, <1>3, <1>4 DEF Filed

(* The flags and the path.                                                     *)
LEMMA MarkedAlike ==
  ASSUME NEW s, NEW d, NEW a, NEW e, NEW p, NEW t, t = Marked(s, d, a, e, p), s \in Stores,
         {d, a, e} \subseteq BOOLEAN, p \in Paths \cup {Null}
  PROVE  /\ t \in Stores /\ Alike(s, t)
         /\ t.dirty = d /\ t.analyzing = a /\ t.exporting = e /\ t.path = p
<1>2. LET u == Marked(s, d, a, e, p)
      IN  /\ u \in Stores /\ u.doc = s.doc /\ u.hist = s.hist
          /\ u.sel = s.sel /\ u.ed = s.ed /\ u.tok = s.tok /\ u.ctx = s.ctx
          /\ u.dirty = d /\ u.analyzing = a /\ u.exporting = e /\ u.path = p
  BY MarkedFacts
<1>. QED BY <1>2 DEF Alike

LEMMA FlagTypes ==
  ASSUME EditorInv
  PROVE  /\ store.dirty \in BOOLEAN /\ store.analyzing \in BOOLEAN /\ store.exporting \in BOOLEAN
         /\ store.path \in Paths \cup {Null} /\ store.doc \in Documents
BY InvFacts, StateFacts

LEMMA HeaderSaveStep == ASSUME EditorInv, HeaderSave PROVE Onward
<1>. DEFINE t == SetFlag(store, "dirty", FALSE)
<1>1. /\ Mouse /\ Clicked(t) /\ Aside /\ uuid' \in Nat
      /\ lapses \subseteq lapses' /\ "unwritten" \in lapses'
  BY InvFacts DEF HeaderSave, HostUnchanged, Aside, Lapse
<1>2. t = Marked(store, FALSE, store.analyzing, store.exporting, store.path)
  BY InvFacts, SetFlagFacts
<1>. HIDE DEF t
<1>3. /\ t \in Stores /\ Alike(store, t) /\ t.path = store.path
      /\ t.analyzing = store.analyzing /\ t.exporting = store.exporting
  <2>. DEFINE new == FALSE
  <2>1. store \in Stores /\ store.path \in Paths \cup {Null}
    BY InvFacts, FlagTypes
  <2>2. {new, store.analyzing, store.exporting} \subseteq BOOLEAN
    BY FlagTypes
  <2>3. t = Marked(store, new, store.analyzing, store.exporting, store.path)
    BY <1>2
  <2>4. new = FALSE
    OBVIOUS
  <2>. HIDE DEF new
  <2>. QED BY <2>1, <2>2, <2>3, <2>4, MarkedAlike
<1>4. Called(t, calls')
  BY <1>1, <1>3, InvFacts DEF Called, Aside
<1>5. Filed(t, lapses', files', db', base', uuid')
  BY <1>1, <1>3, FiledAs DEF Aside, Alike
<1>. QED BY <1>1, <1>3, <1>4, <1>5, AlikeStep DEF Aside

(* The calls under way, when one begins and when one ends.                     *)
LEMMA CallBegins ==
  ASSUME EditorInv, NEW c, Captured(c), c.kind \notin {"analyze", "export"}
  PROVE  Called(store, calls \cup {c})
BY InvFacts DEF Called

LEMMA CallEnds ==
  ASSUME EditorInv, NEW c \in calls, c.kind \notin {"analyze", "export"}
  PROVE  Called(store, calls \ {c}) /\ Captured(c)
<1>1. Called(store, calls)
  BY InvFacts
<1>2. \A d \in calls : d.kind \in {"analyze", "export"} => d \in calls \ {c}
  OBVIOUS
<1>. QED BY <1>1, <1>2 DEF Called

\* The flags a call answers for.
Flags(s, t) == t.analyzing = s.analyzing /\ t.exporting = s.exporting

LEMMA FlagsCalled ==
  ASSUME NEW s, NEW t, NEW cs, Called(s, cs), Flags(s, t)
  PROVE  Called(t, cs)
BY DEF Called, Flags

(* A call begins, or an answer is none.                                        *)
LEMMA PlainStep ==
  ASSUME EditorInv, Keyed(store) \/ (Mouse /\ Clicked(store)), Called(store, calls'),
         lapses \subseteq lapses', blobs' = blobs \/ "pictures" \in lapses', base' = base,
         files' = files, db' = db, uuid' \in Nat
  PROVE  Onward
<1>1. store \in Stores /\ Alike(store, store)
  BY InvFacts DEF Alike
<1>2. Filed(store, lapses', files', db', base', uuid')
  BY FiledAs
<1>. QED BY <1>1, <1>2, AlikeStep

LEMMA PickImageStep == ASSUME EditorInv, PickImage PROVE Onward
<1>. DEFINE c == [kind |-> "image", doc |-> Null, at |-> store.sel]
<1>1. /\ Mouse /\ Clicked(store) /\ calls' = calls \cup {c} /\ lapses' = lapses /\ blobs' = blobs
      /\ base' = base /\ files' = files /\ db' = db /\ uuid' \in Nat
  BY InvFacts DEF PickImage, StyleGesture
<1>2. Captured(c) /\ c.kind = "image"
  BY DEF Captured, CallKinds
<1>. HIDE DEF c
<1>3. Called(store, calls')
  BY <1>1, <1>2, CallBegins
<1>. QED BY <1>1, <1>3, PlainStep

LEMMA ImagePickedStep == ASSUME EditorInv, ImagePicked PROVE Onward
<1>1. PICK c \in calls :
       /\ c.kind = "image"
       /\ calls' = calls \ {c}
       /\ \/ Keyed(store)
          \/ Keyed(Update(store, c.at, LAMBDA b : [b EXCEPT !.text = {"local"}]))
  BY DEF ImagePicked
<1>2. /\ lapses' = lapses /\ blobs' = blobs /\ base' = base /\ files' = files /\ db' = db
      /\ uuid' = uuid /\ uuid' \in Nat
  BY InvFacts DEF ImagePicked
<1>3. Called(store, calls')
  BY <1>1, CallEnds
<1>4. CASE Keyed(store)
  BY <1>2, <1>3, <1>4, PlainStep
<1>5. CASE Keyed(Update(store, c.at, LAMBDA b : [b EXCEPT !.text = {"local"}]))
  <2>. DEFINE t == Update(store, c.at, LAMBDA b : [b EXCEPT !.text = {"local"}])
  <2>0. {"local"} \in Texts /\ {"local"} # {"asset"}
    BY TextFacts
  <2>1. Gentle(store, t)
    BY <2>0, InvFacts, SourceWork
  <2>2. Keyed(t)
    BY <1>5
  <2>. HIDE DEF t
  <2>3. Handled(store, t) /\ Logged(store.hist, t.hist) /\ Painted(store, t) /\ Keeps(store, t)
    BY <2>1, WorkHandled DEF Gentle
  <2>4. Poised(t) /\ Known(t, lapses')
    BY <1>2, <2>3, InvFacts DEF Poised, Known, Keeps
  <2>5. Rests(t)
    BY <1>2, <2>2, <2>3, InvFacts DEF Rests, Caret, Inline, Keeps
  <2>6. Held(t, lapses', blobs')
    BY <1>2, <2>3, InvFacts, HeldStep
  <2>7. Filed(t, lapses', files', db', base', uuid')
    BY <1>2, <2>3, InvFacts, FiledStep
  <2>8. Called(t, calls')
    BY <1>3, <2>3, CalledStep
  <2>. QED BY <2>3, <2>4, <2>5, <2>6, <2>7, <2>8, AnswerStep
<1>. QED BY <1>1, <1>4, <1>5

LEMMA AnalyzeStep == ASSUME EditorInv, Analyze PROVE Onward
<1>. DEFINE t == SetFlag(store, "analyzing", TRUE)
            c == [kind |-> "analyze", doc |-> store.doc, at |-> Null]
<1>1. /\ Mouse /\ Clicked(t) /\ calls' = calls \cup {c} /\ lapses' = lapses /\ blobs' = blobs
      /\ base' = base /\ files' = files /\ db' = db /\ uuid' \in Nat /\ ~store.analyzing
  BY InvFacts DEF Analyze
<1>2. t = Marked(store, store.dirty, TRUE, store.exporting, store.path)
  BY InvFacts, SetFlagFacts
<1>3. Captured(c) /\ c.kind = "analyze"
  BY FlagTypes DEF Captured, CallKinds
<1>. HIDE DEF t, c
<1>4. /\ t \in Stores /\ Alike(store, t) /\ t.path = store.path /\ t.dirty = store.dirty
      /\ t.analyzing = TRUE /\ t.exporting = store.exporting
  <2>. DEFINE new == TRUE
  <2>1. store \in Stores /\ store.path \in Paths \cup {Null}
    BY InvFacts, FlagTypes
  <2>2. {store.dirty, new, store.exporting} \subseteq BOOLEAN
    BY FlagTypes
  <2>3. t = Marked(store, store.dirty, new, store.exporting, store.path)
    BY <1>2
  <2>. HIDE DEF new
  <2>4. /\ t \in Stores /\ Alike(store, t) /\ t.path = store.path /\ t.dirty = store.dirty
        /\ t.analyzing = new /\ t.exporting = store.exporting
    BY <2>1, <2>2, <2>3, MarkedAlike
  <2>. QED BY <2>4 DEF new
<1>5. Called(t, calls')
  BY <1>1, <1>3, <1>4, InvFacts DEF Called
<1>6. Filed(t, lapses', files', db', base', uuid')
  BY <1>1, <1>4, FiledAs DEF Alike
<1>. QED BY <1>1, <1>4, <1>5, <1>6, AlikeStep

LEMMA ContentFacts ==
  ASSUME NEW d \in Documents
  PROVE  /\ Content(d) \in Documents
         /\ \A e \in Documents :
              Content(d) = Content(e) => d.id = e.id /\ d.pics = e.pics /\ HasPictures(d) = HasPictures(e)
<1>1. ASSUME NEW e \in Documents
      PROVE  /\ Content(e) \in Documents /\ Content(e).id = e.id /\ Content(e).pics = e.pics
             /\ HasPictures(Content(e)) = HasPictures(e)
  <2>. DEFINE bs == e.blocks
              nb == StripNlp(bs)
  <2>1. bs \in Trees
    BY DEF Documents
  <2>2. DOMAIN bs = 1 .. Len(bs) /\ \A i \in 1 .. Len(bs) : bs[i] \in Blocks
    BY <2>1, TreeFacts
  <2>3. nb = [i \in DOMAIN bs |-> [bs[i] EXCEPT !.nlp = Null]]
    BY DEF StripNlp
  <2>4. Content(e) = [e EXCEPT !.blocks = nb]
    BY DEF Content
  <2>. HIDE DEF nb, bs
  <2>5. ASSUME NEW i \in 1 .. Len(bs)
        PROVE  /\ nb[i] \in Blocks /\ nb[i].id = bs[i].id /\ nb[i].depth = bs[i].depth
               /\ IsPicture(nb[i]) = IsPicture(bs[i])
    <3>1. bs[i] \in Blocks /\ nb[i] = [bs[i] EXCEPT !.nlp = Null]
      BY <2>2, <2>3
    <3>. QED BY <3>1 DEF Blocks, IsPicture
  <2>6. nb = [i \in DOMAIN bs |-> nb[i]] /\ DOMAIN nb = DOMAIN bs
    BY <2>3
  <2>7. nb \in Trees
    BY <2>1, <2>5, <2>6, Mapped
  <2>8. Pictures(nb) = Pictures(bs)
    BY <2>2, <2>5, <2>6 DEF Pictures
  <2>9. Content(e) \in Documents /\ Content(e).id = e.id /\ Content(e).pics = e.pics /\ Content(e).blocks = nb
    BY <2>4, <2>7 DEF Documents
  <2>10. HasPictures(Content(e)) = Pictures(nb) /\ HasPictures(e) = Pictures(bs)
    BY <2>9, HasPicturesIs DEF bs
  <2>. QED BY <2>8, <2>9, <2>10
<1>2. Content(d) \in Documents /\ Content(d).id = d.id /\ Content(d).pics = d.pics
      /\ HasPictures(Content(d)) = HasPictures(d)
  BY <1>1
<1>. HIDE DEF Content
<1>. QED BY <1>1, <1>2

(* The document an analysis gives back is the one in the store, annotated, or  *)
(* the answer is a lapse.                                                      *)
LEMMA AnalyzedStep == ASSUME EditorInv, Analyzed PROVE Onward
<1>1. PICK c \in calls : \E done :
       LET t == [SetDocument(store, RunAnalysis(c.doc, done)) EXCEPT !.summary = TRUE, !.analyzing = FALSE]
       IN  /\ c.kind = "analyze"
           /\ calls' = calls \ {c}
           /\ Keyed(t)
           /\ Lapse(Orphans(t, "stale") \cup
                (IF Content(c.doc) # Content(store.doc) THEN {"stale"} ELSE {}))
  BY DEF Analyzed
<1>2. PICK done :
       LET t == [SetDocument(store, RunAnalysis(c.doc, done)) EXCEPT !.summary = TRUE, !.analyzing = FALSE]
       IN  /\ c.kind = "analyze"
           /\ calls' = calls \ {c}
           /\ Keyed(t)
           /\ Lapse(Orphans(t, "stale") \cup
                (IF Content(c.doc) # Content(store.doc) THEN {"stale"} ELSE {}))
  BY <1>1
<1>. DEFINE d == RunAnalysis(c.doc, done)
            t == [SetDocument(store, d) EXCEPT !.summary = TRUE, !.analyzing = FALSE]
<1>3. /\ c.kind = "analyze" /\ calls' = calls \ {c} /\ Keyed(t) /\ lapses \subseteq lapses'
      /\ Orphans(t, "stale") \subseteq lapses'
      /\ Content(c.doc) # Content(store.doc) => "stale" \in lapses'
  BY <1>2 DEF Lapse
<1>4. /\ blobs' = blobs /\ base' = base /\ files' = files /\ db' = db /\ uuid' = uuid
  BY DEF Analyzed
<1>5. /\ store \in Stores /\ Called(store, calls) /\ Filed(store, lapses, files, db, base, uuid)
      /\ Held(store, lapses, blobs) /\ Poised(store) /\ store.doc \in Documents
      /\ Caret(store, focus, drafts, lapses) /\ store.hist \in Stacks(Documents)
  BY InvFacts, StateFacts
<1>6. Captured(c) /\ c.doc \in Documents
  BY <1>3, <1>5 DEF Called, Captured
<1>7. d \in Documents /\ d.id = c.doc.id /\ d.pics = c.doc.pics /\ Content(d) = Content(c.doc)
  BY <1>6, AnalysisFacts
<1>. HIDE DEF d
<1>8. /\ t \in Stores /\ t.doc = d /\ t.hist = store.hist /\ t.sel = store.sel /\ t.ed = store.ed
      /\ t.tok = store.tok /\ t.ctx = store.ctx /\ t.path = store.path /\ t.dirty = store.dirty
      /\ t.analyzing = FALSE /\ t.exporting = store.exporting
  <2>1. store \in EditorStates /\ Len(store.hist.past) + Len(store.hist.future) <= MaxEntries
    BY <1>5, StateFacts
  <2>2. t = [store EXCEPT !.doc = d, !.summary = TRUE, !.analyzing = FALSE]
    BY DEF SetDocument
  <2>. HIDE DEF t
  <2>3. /\ t \in EditorStates /\ t.doc = d /\ t.hist = store.hist /\ t.sel = store.sel /\ t.ed = store.ed
        /\ t.tok = store.tok /\ t.ctx = store.ctx /\ t.path = store.path /\ t.dirty = store.dirty
        /\ t.analyzing = FALSE /\ t.exporting = store.exporting
    BY <1>7, <2>1, <2>2 DEF EditorStates
  <2>. QED BY <2>1, <2>3 DEF Stores
<1>. HIDE DEF t
<1>9. Rests(t)
  BY <1>3, <1>5, <1>8 DEF Rests, Caret, Inline
<1>10. Poised(t) /\ Known(t, lapses')
  BY <1>3, <1>5, <1>8, KnownOrOrphan DEF Poised
<1>11. Called(t, calls')
  <2>1. \A e \in calls' : e.kind # "analyze"
    BY <1>3, <1>5 DEF Called
  <2>2. \A e \in calls : e.kind = "export" => e \in calls'
    BY <1>3
  <2>. QED BY <1>3, <1>5, <1>8, <2>1, <2>2 DEF Called
<1>12. CASE "stale" \in lapses'
  <2>1. Held(t, lapses', blobs')
    BY <1>8, <1>12 DEF Held
  <2>2. Filed(t, lapses', files', db', base', uuid')
    <3>1. db' \subseteq Documents /\ files' \in [Paths -> Nat] /\ uuid' \in Nat
      BY <1>4, <1>5 DEF Filed
    <3>. QED BY <1>12, <3>1 DEF Filed
  <2>3. Logged(store.hist, t.hist)
    BY <1>8 DEF Logged
  <2>. QED BY <1>9, <1>10, <1>11, <2>1, <2>2, <2>3, AnswerStep
<1>13. CASE "stale" \notin lapses'
  <2>1. "stale" \notin lapses /\ Content(t.doc) = Content(store.doc)
    BY <1>3, <1>7, <1>8, <1>13
  <2>2. t.doc \in Documents /\ t.doc.id = store.doc.id /\ t.doc.pics = store.doc.pics
        /\ HasPictures(t.doc) = HasPictures(store.doc)
    BY <1>5, <1>7, <1>8, <2>1, ContentFacts
  <2>3. \A S : Holds(store, S) /\ t.doc \in S => Holds(t, S)
    BY <1>8 DEF Holds
  <2>4. Held(t, lapses', blobs')
    <3>1. Holds(t, Own(t.doc.id))
      BY <1>5, <2>1, <2>2, <2>3 DEF Held, Own
    <3>2. lapses' \cap {"pictures", "stale"} # {} \/ Holds(t, Pictured(blobs'))
      <4>1. CASE lapses' \cap {"pictures", "stale"} # {}
        BY <4>1
      <4>2. CASE lapses' \cap {"pictures", "stale"} = {}
        <5>1. Holds(store, Pictured(blobs))
          BY <1>3, <1>5, <4>2 DEF Held
        <5>2. t.doc \in Pictured(blobs)
          BY <2>2, <5>1 DEF Holds, Pictured
        <5>. QED BY <1>4, <2>3, <5>1, <5>2
      <4>. QED BY <4>1, <4>2
    <3>3. Content(t.doc) = Content(t.hist.present)
      BY <1>5, <1>8, <2>1 DEF Held
    <3>. QED BY <1>8, <3>1, <3>2, <3>3 DEF Held
  <2>5. Filed(t, lapses', files', db', base', uuid')
    <3>1. db' \subseteq Documents /\ files' \in [Paths -> Nat] /\ uuid' \in Nat
      BY <1>4, <1>5 DEF Filed
    <3>2. lapses' \cap {"path", "stale"} # {} \/ t.path = Null \/ files'[t.path] = t.doc.id
      <4>1. lapses \cap {"path", "stale"} # {} => lapses' \cap {"path", "stale"} # {}
        BY <1>3
      <4>. QED BY <1>4, <1>5, <1>8, <2>2, <4>1 DEF Filed
    <3>3. t.dirty \/ lapses' \cap {"unwritten", "overtaken", "stale"} # {} \/ Content(t.doc) = base'
      <4>1. lapses \cap {"unwritten", "overtaken", "stale"} # {}
              => lapses' \cap {"unwritten", "overtaken", "stale"} # {}
        BY <1>3
      <4>. QED BY <1>4, <1>5, <1>8, <2>1, <4>1 DEF Filed
    <3>. QED BY <3>1, <3>2, <3>3 DEF Filed
  <2>6. Logged(store.hist, t.hist)
    BY <1>8 DEF Logged
  <2>. QED BY <1>9, <1>10, <1>11, <2>4, <2>5, <2>6, AnswerStep
<1>. QED BY <1>12, <1>13

(* A document is loaded: with the path and the pictures that are its own.      *)
LEMMA OpenedStep ==
  ASSUME EditorInv, NEW doc, NEW path, NEW pictures, doc \in Documents, path \in Paths \cup {Null},
         Opened(doc, path, "", pictures), path # Null => files[path] = doc.id,
         Called(store, calls'), files' = files, db' = db, uuid' \in Nat
  PROVE  Onward
<1>. DEFINE t == LoadDocument(store, doc, path, "")
            d == NormalizeDocumentMetadata(doc, "")
<1>1. /\ Keyed(t) /\ blobs' = pictures /\ base' = Content(t.doc)
      /\ DOMAIN drafts # {} => "load" \in lapses'
      /\ HasPictures(doc) /\ pictures # doc.pics => "pictures" \in lapses'
  BY DEF Opened
<1>2. d \in Documents /\ d.id = doc.id /\ d.pics = doc.pics /\ d.blocks = doc.blocks
  BY Loaded
<1>3. /\ t \in Stores /\ t.doc = d /\ t.hist = CreateHistory(d) /\ t.path = path
      /\ t.ctx = "layout" /\ t.dirty = FALSE /\ t.ed = Null /\ t.sel = Null /\ t.tok = Null
      /\ t.analyzing = store.analyzing /\ t.exporting = store.exporting
      /\ \A S : d \in S => Holds(t, S)
  BY InvFacts, LoadFacts
<1>4. HasPictures(d) = HasPictures(doc)
  BY <1>2, HasPicturesIs
<1>. HIDE DEF t, d
<1>5. Rests(t)
  BY <1>1, <1>3 DEF Rests
<1>6. Poised(t) /\ Known(t, lapses')
  BY <1>3 DEF Poised, Known
<1>7. Held(t, lapses', blobs')
  <2>1. d \in Own(t.doc.id)
    BY <1>2, <1>3 DEF Own
  <2>2. "pictures" \in lapses' \/ d \in Pictured(blobs')
    BY <1>1, <1>2, <1>4 DEF Pictured
  <2>3. Content(t.doc) = Content(t.hist.present)
    <3>1. t.hist = CreateHistory(d) /\ CreateHistory(d).present = d /\ t.doc = d
      BY <1>3 DEF CreateHistory
    <3>. QED BY <3>1
  <2>. QED BY <1>3, <2>1, <2>2, <2>3 DEF Held
<1>8. Called(t, calls')
  BY <1>3, FlagsCalled DEF Flags
<1>9. Filed(t, lapses', files', db', base', uuid')
  BY <1>1, <1>2, <1>3, InvFacts DEF Filed
<1>10. Logged(store.hist, t.hist)
  BY <1>2, <1>3 DEF Logged
<1>. QED BY <1>5, <1>6, <1>7, <1>8, <1>9, <1>10, AnswerStep

LEMMA NothingStep ==
  ASSUME EditorInv, Nothing, Called(store, calls'), files' = files, db' = db, uuid' \in Nat
  PROVE  Onward
<1>1. Keyed(store) /\ blobs' = blobs /\ base' = base /\ lapses \subseteq lapses'
  BY DEF Nothing
<1>. QED BY <1>1, PlainStep

LEMMA BrokenStep ==
  ASSUME EditorInv, BrokenBundle, Called(store, calls'), files' = files, db' = db, uuid' \in Nat
  PROVE  Onward
<1>1. Keyed(store) /\ base' = base /\ lapses \subseteq lapses' /\ "pictures" \in lapses'
  BY DEF BrokenBundle, Lapse
<1>. QED BY <1>1, PlainStep

(* Blocks are imported at the end of the document.                             *)
LEMMA ImportedStep ==
  ASSUME EditorInv, NEW blocks \in Trees, Keyed(ImportBlocks(store, blocks)), Called(store, calls'),
         ~Pictures(blocks) \/ blobs = store.doc.pics \/ "pictures" \in lapses',
         lapses \subseteq lapses', blobs' = blobs, base' = base, files' = files, db' = db, uuid' \in Nat
  PROVE  Onward
<1>. DEFINE t == ImportBlocks(store, blocks)
<1>1. /\ t \in Stores /\ Work(store, t) /\ Keeps(store, t) /\ Keyed(t)
      /\ ~Pictures(blocks) => Painted(store, t)
      /\ \A p : Holds(store, Pictured(p)) /\ store.doc.pics = p => Holds(t, Pictured(p))
  BY InvFacts, ImportBlocksWork
<1>. HIDE DEF t
<1>2. Handled(store, t) /\ Logged(store.hist, t.hist)
  BY <1>1, WorkHandled
<1>3. Poised(t) /\ Known(t, lapses')
  BY <1>1, InvFacts DEF Poised, Known, Keeps
<1>4. Rests(t)
  BY <1>1, InvFacts DEF Rests, Caret, Inline, Keeps
<1>5. Painted(store, t) \/ lapses' \cap {"pictures", "stale"} # {} \/ Holds(t, Pictured(blobs'))
  <2>1. CASE ~Pictures(blocks) \/ "pictures" \in lapses'
    BY <1>1, <2>1
  <2>2. CASE blobs = store.doc.pics /\ lapses' \cap {"pictures", "stale"} = {}
    <3>1. Holds(store, Pictured(blobs))
      BY <2>2, InvFacts DEF Held
    <3>. QED BY <1>1, <2>2, <3>1
  <2>. QED BY <2>1, <2>2
<1>6. Held(t, lapses', blobs')
  BY <1>2, <1>5, InvFacts, HeldStep
<1>7. Filed(t, lapses', files', db', base', uuid')
  BY <1>2, InvFacts, FiledStep
<1>8. Called(t, calls')
  BY <1>2, CalledStep
<1>. QED BY <1>2, <1>3, <1>4, <1>6, <1>7, <1>8, AnswerStep

-----------------------------------------------------------------------------
(* The files.                                                                  *)

LEMMA PlainCall ==
  ASSUME EditorInv, NEW kind \in {"pick", "template", "recent"}
  PROVE  Captured([kind |-> kind, doc |-> Null, at |-> Null])
BY DEF Captured, CallKinds

LEMMA StartOpenStep == ASSUME EditorInv, StartOpen PROVE Onward
<1>1. PICK kind \in {"pick", "template", "recent"} :
        Start([kind |-> kind, doc |-> Null, at |-> Null])
  BY DEF StartOpen
<1>. DEFINE c == [kind |-> kind, doc |-> Null, at |-> Null]
<1>2. Captured(c) /\ c.kind \notin {"analyze", "export"} /\ calls' = calls \cup {c}
  BY <1>1, PlainCall DEF Start
<1>. HIDE DEF c
<1>3. Called(store, calls')
  BY <1>2, CallBegins
<1>4. Nothing /\ files' = files /\ db' = db /\ uuid' \in Nat
  BY InvFacts DEF StartOpen
<1>. QED BY <1>3, <1>4, NothingStep

\* What the files at hand give: the bundles, and a document in JSON.
LEMMA FreshDocuments ==
  ASSUME NEW id \in Nat
  PROVE  /\ [NewDocument EXCEPT !.id = id] \in Documents
         /\ \A p \in Paths : OnDisk[p] \in Documents /\ [OnDisk[p] EXCEPT !.id = id] \in Documents
         /\ NewDocument.blocks \in Trees
<1>1. \A d \in Documents : [d EXCEPT !.id = id] \in Documents /\ d.blocks \in Trees
  BY DEF Documents
<1>2. NewDocument \in Documents /\ \A p \in Paths : OnDisk[p] \in Documents
  BY EditorAssumption
<1>. QED BY <1>1, <1>2

LEMMA StrangeFacts ==
  ASSUME "pictures" \in lapses' \/ ~(HasPictures(NewDocument) /\ blobs # store.doc.pics)
  PROVE  ~Pictures(NewDocument.blocks) \/ blobs = store.doc.pics \/ "pictures" \in lapses'
BY HasPicturesIs

LEMMA FilePickedStep == ASSUME EditorInv, FilePicked PROVE Onward
<1>1. PICK c \in calls :
       /\ c.kind = "pick" /\ Finish(c)
       /\ \/ Nothing /\ UNCHANGED uuid
          \/ BrokenBundle /\ UNCHANGED uuid
          \/ \E p \in Paths :
               /\ files[p] = OnDisk[p].id
               /\ Opened(OnDisk[p], p, "", OnDisk[p].pics) /\ UNCHANGED uuid
          \/ Opened([NewDocument EXCEPT !.id = uuid], Null, "", blobs) /\ uuid' = uuid + 1
          \/ /\ Keyed(ImportBlocks(store, <<CreateBlock("p", uuid)>>))
             /\ uuid' = uuid + 1 /\ UNCHANGED <<blobs, base, lapses>>
          \/ /\ Keyed(ImportBlocks(store, NewDocument.blocks))
             /\ UNCHANGED <<blobs, base, uuid>>
             /\ Lapse(Strange(NewDocument))
  BY DEF FilePicked
<1>2. files' = files /\ db' = db /\ uuid \in Nat
  BY InvFacts DEF FilePicked
<1>3. Called(store, calls')
  <2>1. calls' = calls \ {c} /\ c.kind \notin {"analyze", "export"}
    BY <1>1 DEF Finish
  <2>. QED BY <2>1, CallEnds
<1>4. CASE Nothing /\ UNCHANGED uuid
  BY <1>2, <1>3, <1>4, NothingStep
<1>5. CASE BrokenBundle /\ UNCHANGED uuid
  BY <1>2, <1>3, <1>5, BrokenStep
<1>6. CASE \E p \in Paths :
             /\ files[p] = OnDisk[p].id
             /\ Opened(OnDisk[p], p, "", OnDisk[p].pics) /\ UNCHANGED uuid
  <2>1. PICK p \in Paths :
             /\ files[p] = OnDisk[p].id
             /\ Opened(OnDisk[p], p, "", OnDisk[p].pics) /\ UNCHANGED uuid
    BY <1>6
  <2>. DEFINE doc == OnDisk[p]
              pictures == doc.pics
              path == p
  <2>2. /\ doc \in Documents /\ path \in Paths \cup {Null} /\ files[path] = doc.id
        /\ Opened(doc, path, "", pictures) /\ uuid' \in Nat
    BY <1>2, <2>1, FreshDocuments
  <2>. HIDE DEF doc, path, pictures
  <2>. QED BY <1>2, <1>3, <2>2, OpenedStep
<1>7. CASE Opened([NewDocument EXCEPT !.id = uuid], Null, "", blobs) /\ uuid' = uuid + 1
  <2>. DEFINE doc == [NewDocument EXCEPT !.id = uuid]
              path == Null
  <2>0. uuid' \in Nat
    <3>1. uuid' = uuid + 1
      BY <1>7
    <3>. QED BY <1>2, <3>1
  <2>1. /\ doc \in Documents /\ path \in Paths \cup {Null} /\ path = Null
        /\ Opened(doc, path, "", blobs)
    BY <1>2, <1>7, FreshDocuments
  <2>. HIDE DEF doc, path
  <2>. QED BY <1>2, <1>3, <2>0, <2>1, OpenedStep
<1>8. CASE /\ Keyed(ImportBlocks(store, <<CreateBlock("p", uuid)>>))
           /\ uuid' = uuid + 1 /\ UNCHANGED <<blobs, base, lapses>>
  <2>1. <<CreateBlock("p", uuid)>> \in Trees /\ ~Pictures(<<CreateBlock("p", uuid)>>)
    BY <1>2, NewBlock
  <2>2. uuid' \in Nat
    BY <1>2, <1>8
  <2>. QED BY <1>2, <1>3, <1>8, <2>1, <2>2, ImportedStep
<1>9. CASE /\ Keyed(ImportBlocks(store, NewDocument.blocks))
           /\ UNCHANGED <<blobs, base, uuid>>
           /\ Lapse(Strange(NewDocument))
  <2>1. /\ lapses \subseteq lapses'
        /\ "pictures" \in lapses' \/ ~(HasPictures(NewDocument) /\ blobs # store.doc.pics)
    BY <1>9 DEF Lapse, Strange
  <2>2. NewDocument.blocks \in Trees
    BY <1>2, FreshDocuments
  <2>3. ~Pictures(NewDocument.blocks) \/ blobs = store.doc.pics \/ "pictures" \in lapses'
    BY <2>1, StrangeFacts
  <2>. QED BY <1>2, <1>3, <1>9, <2>1, <2>2, <2>3, ImportedStep
<1>. QED BY <1>1, <1>4, <1>5, <1>6, <1>7, <1>8, <1>9

LEMMA TemplateReadStep == ASSUME EditorInv, TemplateRead PROVE Onward
<1>1. PICK c \in calls :
       /\ c.kind = "template" /\ Finish(c)
       /\ \/ Nothing
          \/ BrokenBundle
          \/ \E p \in Paths :
               Opened([OnDisk[p] EXCEPT !.id = uuid], Null, "", OnDisk[p].pics)
          \/ Opened([NewDocument EXCEPT !.id = uuid], Null, "", blobs)
  BY DEF TemplateRead
<1>2. files' = files /\ db' = db /\ uuid \in Nat /\ uuid' \in Nat
  <2>1. uuid \in Nat /\ uuid' = uuid + 1 /\ files' = files /\ db' = db
    BY InvFacts DEF TemplateRead
  <2>. QED BY <2>1
<1>3. Called(store, calls')
  <2>1. calls' = calls \ {c} /\ c.kind \notin {"analyze", "export"}
    BY <1>1 DEF Finish
  <2>. QED BY <2>1, CallEnds
<1>4. ASSUME NEW doc \in Documents, NEW pictures, Opened(doc, Null, "", pictures)
      PROVE  Onward
  <2>. DEFINE path == Null
  <2>1. path \in Paths \cup {Null} /\ path = Null /\ Opened(doc, path, "", pictures)
    BY <1>4
  <2>. HIDE DEF path
  <2>. QED BY <1>2, <1>3, <2>1, OpenedStep
<1>5. CASE Nothing
  BY <1>2, <1>3, <1>5, NothingStep
<1>6. CASE BrokenBundle
  BY <1>2, <1>3, <1>6, BrokenStep
<1>7. CASE \E p \in Paths : Opened([OnDisk[p] EXCEPT !.id = uuid], Null, "", OnDisk[p].pics)
  BY <1>2, <1>4, <1>7, FreshDocuments
<1>8. CASE Opened([NewDocument EXCEPT !.id = uuid], Null, "", blobs)
  BY <1>2, <1>4, <1>8, FreshDocuments
<1>. QED BY <1>1, <1>5, <1>6, <1>7, <1>8

LEMMA RecentReadStep == ASSUME EditorInv, RecentRead PROVE Onward
<1>1. PICK c \in calls :
       /\ c.kind = "recent" /\ Finish(c)
       /\ \/ Nothing
          \/ \E doc \in db : Opened([doc EXCEPT !.file = ""], Null, "", blobs)
  BY DEF RecentRead
<1>2. files' = files /\ db' = db /\ uuid' \in Nat /\ db \subseteq Documents
  BY InvFacts DEF RecentRead
<1>3. Called(store, calls')
  <2>1. calls' = calls \ {c} /\ c.kind \notin {"analyze", "export"}
    BY <1>1 DEF Finish
  <2>. QED BY <2>1, CallEnds
<1>4. CASE Nothing
  BY <1>2, <1>3, <1>4, NothingStep
<1>5. CASE \E doc \in db : Opened([doc EXCEPT !.file = ""], Null, "", blobs)
  <2>1. PICK kept \in db : Opened([kept EXCEPT !.file = ""], Null, "", blobs)
    BY <1>5
  <2>. DEFINE doc == [kept EXCEPT !.file = ""]
              path == Null
  <2>2. doc \in Documents
    <3>1. kept \in Documents
      BY <1>2
    <3>2. "" \in FileNames
      BY DEF FileNames
    <3>. QED BY <3>1, <3>2 DEF Documents
  <2>3. path \in Paths \cup {Null} /\ path = Null /\ Opened(doc, path, "", blobs)
    BY <2>1
  <2>. HIDE DEF doc, path
  <2>. QED BY <1>2, <1>3, <2>2, <2>3, OpenedStep
<1>. QED BY <1>1, <1>4, <1>5

(* A save captures the document and the path.                                  *)
LEMMA StartSaveStep == ASSUME EditorInv, StartSave PROVE Onward
<1>. DEFINE c == Call("save", store.path)
<1>1. calls' = calls \cup {c} /\ Nothing /\ files' = files /\ db' = db /\ uuid' \in Nat
  BY InvFacts DEF StartSave, Start
<1>2. Captured(c) /\ c.kind = "save"
  BY FlagTypes DEF Captured, CallKinds, Call
<1>. HIDE DEF c
<1>3. Called(store, calls')
  BY <1>1, <1>2, CallBegins
<1>. QED BY <1>1, <1>3, NothingStep

LEMMA StartSaveAsStep == ASSUME EditorInv, StartSaveAs PROVE Onward
<1>. DEFINE c == Call("saveAs", Null)
<1>1. calls' = calls \cup {c} /\ Nothing /\ files' = files /\ db' = db /\ uuid' \in Nat
  BY InvFacts DEF StartSaveAs, Start
<1>2. Captured(c) /\ c.kind = "saveAs"
  BY FlagTypes DEF Captured, CallKinds, Call
<1>. HIDE DEF c
<1>3. Called(store, calls')
  BY <1>1, <1>2, CallBegins
<1>. QED BY <1>1, <1>3, NothingStep

LEMMA PathPickedStep == ASSUME EditorInv, PathPicked PROVE Onward
<1>1. PICK c \in calls :
       /\ c.kind = "saveAs"
       /\ \/ Finish(c)
          \/ \E p \in Paths :
               calls' = (calls \ {c}) \cup {[kind |-> "writeAs", doc |-> c.doc, at |-> p]}
  BY DEF PathPicked
<1>2. Nothing /\ files' = files /\ db' = db /\ uuid' \in Nat
  BY InvFacts DEF PathPicked
<1>3. Called(store, calls \ {c}) /\ c.doc \in Documents
  BY <1>1, CallEnds DEF Captured
<1>4. CASE Finish(c)
  BY <1>2, <1>3, <1>4, NothingStep DEF Finish
<1>5. CASE \E p \in Paths :
             calls' = (calls \ {c}) \cup {[kind |-> "writeAs", doc |-> c.doc, at |-> p]}
  <2>1. PICK p \in Paths :
             calls' = (calls \ {c}) \cup {[kind |-> "writeAs", doc |-> c.doc, at |-> p]}
    BY <1>5
  <2>. DEFINE e == [kind |-> "writeAs", doc |-> c.doc, at |-> p]
  <2>3. calls' = (calls \ {c}) \cup {e}
    BY <2>1
  <2>4. Captured(e) /\ e.kind = "writeAs"
    BY <1>3 DEF Captured, CallKinds
  <2>. HIDE DEF e
  <2>5. Called(store, calls')
    BY <1>3, <2>3, <2>4 DEF Called
  <2>. QED BY <1>2, <2>5, NothingStep
<1>. QED BY <1>1, <1>4, <1>5

(* A save that is answered: what it wrote is the document it captured, and     *)
(* nothing of the document open is unsaved but what came since.                *)
LEMMA WrittenFacts ==
  ASSUME EditorInv, NEW c \in calls, c.kind = "save" \/ c.kind = "writeAs"
  PROVE  /\ c.doc \in Documents /\ Content(c.doc) \in Documents /\ c.at \in Paths \cup {Null}
         /\ c.kind = "writeAs" => c.at \in Paths
         /\ c.at # Null => /\ Written(c) \in [Paths -> Nat]
                           /\ Written(c)[c.at] = c.doc.id
                           /\ \A p \in Paths : p # c.at => Written(c)[p] = files[p]
         /\ files \in [Paths -> Nat]
<1>1. Captured(c) /\ files \in [Paths -> Nat]
  BY InvFacts DEF Called, Filed
<1>2. c.doc \in Documents /\ c.at \in Paths \cup {Null} /\ (c.kind = "writeAs" => c.at \in Paths)
  BY <1>1 DEF Captured
<1>3. c.doc.id \in Nat /\ Content(c.doc) \in Documents
  BY <1>2, ContentFacts DEF Documents
<1>. QED BY <1>1, <1>2, <1>3 DEF Written

LEMMA SavedStep == ASSUME EditorInv, Saved PROVE Onward
<1>. DEFINE t == SetFlag(store, "dirty", FALSE)
<1>1. PICK c \in calls :
       /\ c.kind = "save" /\ Finish(c)
       /\ \/ UNCHANGED <<files, db>> /\ Nothing
          \/ /\ files' = IF c.at = Null THEN files ELSE Written(c)
             /\ db' = IF c.at # Null THEN db
                      ELSE {d \in db : d.id # c.doc.id} \cup {Content(c.doc)}
             /\ Keyed(t)
             /\ base' = Content(c.doc)
             /\ Lapse(Overtaken(c.doc) \cup
                        (IF c.at # Null /\ c.at = store.path THEN Elsewhere(c.doc) ELSE {}))
             /\ UNCHANGED blobs
  BY DEF Saved
<1>2. uuid' = uuid /\ uuid' \in Nat /\ calls' = calls \ {c}
  BY <1>1, InvFacts DEF Saved, Finish
<1>3. Called(store, calls')
  BY <1>1, <1>2, CallEnds
<1>4. CASE UNCHANGED <<files, db>> /\ Nothing
  BY <1>2, <1>3, <1>4, NothingStep
<1>5. CASE /\ files' = IF c.at = Null THEN files ELSE Written(c)
           /\ db' = IF c.at # Null THEN db
                    ELSE {d \in db : d.id # c.doc.id} \cup {Content(c.doc)}
           /\ Keyed(t)
           /\ base' = Content(c.doc)
           /\ Lapse(Overtaken(c.doc) \cup
                      (IF c.at # Null /\ c.at = store.path THEN Elsewhere(c.doc) ELSE {}))
           /\ UNCHANGED blobs
  <2>1. t = Marked(store, FALSE, store.analyzing, store.exporting, store.path)
    BY InvFacts, SetFlagFacts
  <2>2. Keyed(t)
    BY <1>5
  <2>. HIDE DEF t
  <2>3. /\ t \in Stores /\ Alike(store, t) /\ t.path = store.path
        /\ t.analyzing = store.analyzing /\ t.exporting = store.exporting
    <3>. DEFINE new == FALSE
    <3>1. store \in Stores /\ store.path \in Paths \cup {Null}
      BY InvFacts, FlagTypes
    <3>2. {new, store.analyzing, store.exporting} \subseteq BOOLEAN
      BY FlagTypes
    <3>3. t = Marked(store, new, store.analyzing, store.exporting, store.path)
      BY <2>1
    <3>. HIDE DEF new
    <3>. QED BY <3>1, <3>2, <3>3, MarkedAlike
  <2>4. /\ lapses \subseteq lapses'
        /\ Content(c.doc) # Content(store.doc) => "overtaken" \in lapses'
        /\ c.at # Null /\ c.at = store.path /\ c.doc.id # store.doc.id => "path" \in lapses'
    BY <1>5 DEF Lapse, Overtaken, Elsewhere
  <2>5. Called(t, calls')
    BY <1>3, <2>3, FlagsCalled DEF Flags
  <2>6. Filed(t, lapses', files', db', base', uuid')
    <3>1. /\ c.doc \in Documents /\ Content(c.doc) \in Documents /\ c.at \in Paths \cup {Null}
          /\ c.at # Null => /\ Written(c) \in [Paths -> Nat]
                            /\ Written(c)[c.at] = c.doc.id
                            /\ \A p \in Paths : p # c.at => Written(c)[p] = files[p]
          /\ files \in [Paths -> Nat]
      BY <1>1, WrittenFacts
    <3>2. Filed(store, lapses, files, db, base, uuid) /\ store.path \in Paths \cup {Null}
      BY InvFacts, FlagTypes
    <3>3. files' \in [Paths -> Nat]
      BY <1>5, <3>1
    <3>4. db' \subseteq Documents
      BY <1>5, <3>1, <3>2 DEF Filed
    <3>5. lapses' \cap {"path", "stale"} # {} \/ t.path = Null \/ files'[t.path] = t.doc.id
      <4>1. CASE c.at # Null /\ c.at = store.path
        BY <1>5, <2>3, <2>4, <3>1, <4>1 DEF Alike
      <4>2. CASE c.at = Null \/ c.at # store.path
        <5>1. store.path = Null \/ files'[store.path] = files[store.path]
          BY <1>5, <3>1, <3>2, <4>2
        <5>2. lapses \cap {"path", "stale"} # {} => lapses' \cap {"path", "stale"} # {}
          BY <2>4
        <5>. QED BY <2>3, <3>2, <5>1, <5>2 DEF Filed, Alike
      <4>. QED BY <4>1, <4>2
    <3>6. "overtaken" \in lapses' \/ Content(t.doc) = base'
      BY <1>5, <2>3, <2>4 DEF Alike
    <3>. QED BY <1>2, <3>3, <3>4, <3>5, <3>6 DEF Filed
  <2>7. blobs' = blobs
    BY <1>5
  <2>. QED BY <2>2, <2>3, <2>4, <2>5, <2>6, <2>7, AlikeStep
<1>. QED BY <1>1, <1>4, <1>5

LEMMA SavedAsStep == ASSUME EditorInv, SavedAs PROVE Onward
<1>1. PICK c \in calls :
       /\ c.kind = "writeAs" /\ Finish(c)
       /\ \/ UNCHANGED files /\ Nothing
          \/ /\ files' = Written(c)
             /\ Keyed(store) /\ UNCHANGED <<blobs, base>> /\ Lapse(Elsewhere(c.doc))
          \/ /\ files' = Written(c)
             /\ Keyed(SetFlag(SetDocumentPath(store, c.at), "dirty", FALSE))
             /\ base' = Content(c.doc)
             /\ Lapse(Overtaken(c.doc) \cup Elsewhere(c.doc))
             /\ UNCHANGED blobs
  BY DEF SavedAs
<1>2. uuid' = uuid /\ uuid' \in Nat /\ calls' = calls \ {c} /\ db' = db
  BY <1>1, InvFacts DEF SavedAs, Finish
<1>3. Called(store, calls')
  BY <1>1, <1>2, CallEnds
<1>4. /\ c.doc \in Documents /\ c.at \in Paths
      /\ Written(c) \in [Paths -> Nat] /\ Written(c)[c.at] = c.doc.id
      /\ \A p \in Paths : p # c.at => Written(c)[p] = files[p]
  BY <1>1, WrittenFacts, EditorAssumption
<1>5. Filed(store, lapses, files, db, base, uuid) /\ store.path \in Paths \cup {Null}
  BY InvFacts, FlagTypes
<1>6. CASE UNCHANGED files /\ Nothing
  BY <1>2, <1>3, <1>6, NothingStep
<1>7. CASE /\ files' = Written(c)
           /\ Keyed(store) /\ UNCHANGED <<blobs, base>> /\ Lapse(Elsewhere(c.doc))
  <2>1. lapses \subseteq lapses' /\ (c.doc.id # store.doc.id => "path" \in lapses')
    BY <1>7 DEF Lapse, Elsewhere
  <2>2. lapses' \cap {"path", "stale"} # {} \/ store.path = Null \/ files'[store.path] = store.doc.id
    <3>1. CASE c.at = store.path
      BY <1>4, <1>7, <2>1, <3>1
    <3>2. CASE c.at # store.path
      <4>1. store.path = Null \/ files'[store.path] = files[store.path]
        BY <1>4, <1>5, <1>7, <3>2
      <4>2. lapses \cap {"path", "stale"} # {} => lapses' \cap {"path", "stale"} # {}
        BY <2>1
      <4>. QED BY <1>5, <4>1, <4>2 DEF Filed
    <3>. QED BY <3>1, <3>2
  <2>3. store.dirty \/ lapses' \cap {"unwritten", "overtaken", "stale"} # {} \/ Content(store.doc) = base'
    <3>1. lapses \cap {"unwritten", "overtaken", "stale"} # {}
            => lapses' \cap {"unwritten", "overtaken", "stale"} # {}
      BY <2>1
    <3>. QED BY <1>5, <1>7, <3>1 DEF Filed
  <2>4. Filed(store, lapses', files', db', base', uuid')
    BY <1>2, <1>4, <1>5, <1>7, <2>2, <2>3 DEF Filed
  <2>5. store \in Stores /\ Alike(store, store) /\ blobs' = blobs
    BY <1>7, InvFacts DEF Alike
  <2>. QED BY <1>3, <1>7, <2>1, <2>4, <2>5, AlikeStep
<1>8. CASE /\ files' = Written(c)
           /\ Keyed(SetFlag(SetDocumentPath(store, c.at), "dirty", FALSE))
           /\ base' = Content(c.doc)
           /\ Lapse(Overtaken(c.doc) \cup Elsewhere(c.doc))
           /\ UNCHANGED blobs
  <2>. DEFINE t == SetFlag(SetDocumentPath(store, c.at), "dirty", FALSE)
              path == c.at
  <2>1. t = Marked(store, FALSE, store.analyzing, store.exporting, path)
    BY <1>4, InvFacts, SetFlagFacts
  <2>2. Keyed(t) /\ path \in Paths /\ files'[path] = c.doc.id /\ files' \in [Paths -> Nat]
    BY <1>4, <1>8
  <2>. HIDE DEF t, path
  <2>3. /\ t \in Stores /\ Alike(store, t) /\ t.path = path
        /\ t.analyzing = store.analyzing /\ t.exporting = store.exporting
    <3>. DEFINE new == FALSE
    <3>1. store \in Stores /\ path \in Paths \cup {Null}
      BY <2>2, InvFacts
    <3>2. {new, store.analyzing, store.exporting} \subseteq BOOLEAN
      BY FlagTypes
    <3>3. t = Marked(store, new, store.analyzing, store.exporting, path)
      BY <2>1
    <3>. HIDE DEF new
    <3>. QED BY <3>1, <3>2, <3>3, MarkedAlike
  <2>4. /\ lapses \subseteq lapses'
        /\ Content(c.doc) # Content(store.doc) => "overtaken" \in lapses'
        /\ c.doc.id # store.doc.id => "path" \in lapses'
    BY <1>8 DEF Lapse, Overtaken, Elsewhere
  <2>5. Called(t, calls')
    BY <1>3, <2>3, FlagsCalled DEF Flags
  <2>6. lapses' \cap {"path", "stale"} # {} \/ files'[t.path] = t.doc.id
    BY <2>2, <2>3, <2>4 DEF Alike
  <2>7. "overtaken" \in lapses' \/ Content(t.doc) = base'
    BY <1>8, <2>3, <2>4 DEF Alike
  <2>8. Filed(t, lapses', files', db', base', uuid')
    BY <1>2, <1>5, <2>2, <2>6, <2>7 DEF Filed
  <2>9. blobs' = blobs
    BY <1>8
  <2>. QED BY <2>2, <2>3, <2>4, <2>5, <2>8, <2>9, AlikeStep
<1>. QED BY <1>1, <1>6, <1>7, <1>8

(* An export puts its flag up, and its answer takes it down.                   *)
LEMMA ExportFlag ==
  ASSUME EditorInv, NEW up \in BOOLEAN, NEW t, t = SetFlag(store, "exporting", up),
         Keyed(t) \/ (Mouse /\ Clicked(t)), Called(t, calls'),
         UNCHANGED <<blobs, base, lapses, files, db, uuid>>
  PROVE  Onward
<1>1. t = Marked(store, store.dirty, store.analyzing, up, store.path)
  BY InvFacts, SetFlagFacts
<1>2. store \in Stores /\ {store.dirty, store.analyzing, up} \subseteq BOOLEAN
      /\ store.path \in Paths \cup {Null} /\ uuid' \in Nat
  BY InvFacts, FlagTypes
<1>3. /\ t \in Stores /\ Alike(store, t) /\ t.path = store.path /\ t.dirty = store.dirty
  BY <1>1, <1>2, MarkedAlike
<1>4. Filed(t, lapses', files', db', base', uuid')
  BY <1>2, <1>3, FiledAs DEF Alike
<1>. QED BY <1>3, <1>4, AlikeStep

LEMMA ExportFlags ==
  ASSUME EditorInv, NEW up \in BOOLEAN
  PROVE  LET t == SetFlag(store, "exporting", up)
         IN  t.analyzing = store.analyzing /\ t.exporting = up
<1>. DEFINE t == SetFlag(store, "exporting", up)
<1>1. t = Marked(store, store.dirty, store.analyzing, up, store.path)
  BY InvFacts, SetFlagFacts
<1>2. store \in Stores /\ {store.dirty, store.analyzing, up} \subseteq BOOLEAN
      /\ store.path \in Paths \cup {Null}
  BY InvFacts, FlagTypes
<1>. HIDE DEF t
<1>3. t.analyzing = store.analyzing /\ t.exporting = up
  BY <1>1, <1>2, MarkedAlike
<1>. QED BY <1>3 DEF t

LEMMA ExportStep ==
  ASSUME EditorInv, Mouse, ~store.exporting, Start(Call("export", Null)),
         Clicked(SetFlag(store, "exporting", TRUE)),
         UNCHANGED <<blobs, base, lapses, files, db, uuid>>
  PROVE  Onward
<1>. DEFINE up == TRUE
            t == SetFlag(store, "exporting", up)
            c == Call("export", Null)
<1>1. Clicked(t) /\ calls' = calls \cup {c} /\ up = TRUE /\ up \in BOOLEAN
  BY DEF Start
<1>2. Captured(c) /\ c.kind = "export"
  BY FlagTypes DEF Captured, CallKinds, Call
<1>. HIDE DEF c, up
<1>3. t.analyzing = store.analyzing /\ t.exporting = up
  BY <1>1, ExportFlags
<1>. HIDE DEF t
<1>4. Called(t, calls')
  BY <1>1, <1>2, <1>3, InvFacts DEF Called
<1>. QED BY <1>1, <1>4, ExportFlag DEF t

LEMMA MouseInExport ==
  ASSUME EditorInv, PanelShown
  PROVE  Mouse
BY InvFacts DEF PanelShown, Mouse, Caret, Inline

LEMMA ExportPDFStep == ASSUME EditorInv, ExportPDF PROVE Onward
BY ExportStep DEF ExportPDF

LEMMA ExportTextStep == ASSUME EditorInv, ExportText PROVE Onward
BY ExportStep, MouseInExport DEF ExportText

LEMMA ExportedStep == ASSUME EditorInv, Exported PROVE Onward
<1>1. PICK c \in calls : c.kind = "export" /\ Finish(c)
  BY DEF Exported
<1>. DEFINE up == FALSE
            t == SetFlag(store, "exporting", up)
<1>2. /\ Keyed(t) /\ calls' = calls \ {c} /\ up = FALSE /\ up \in BOOLEAN
      /\ UNCHANGED <<blobs, base, lapses, files, db, uuid>>
  BY <1>1 DEF Exported, Finish
<1>. HIDE DEF up
<1>3. t.analyzing = store.analyzing /\ t.exporting = up
  BY <1>2, ExportFlags
<1>. HIDE DEF t
<1>4. Called(t, calls')
  <2>1. Called(store, calls)
    BY InvFacts
  <2>2. \A e \in calls' : e.kind # "export"
    BY <1>1, <1>2, <2>1 DEF Called
  <2>3. \A e \in calls : e.kind = "analyze" => e \in calls'
    BY <1>1, <1>2
  <2>. QED BY <1>2, <1>3, <2>1, <2>2, <2>3 DEF Called
<1>. QED BY <1>2, <1>4, ExportFlag DEF t

LEMMA ImportMarkupStep == ASSUME EditorInv, ImportMarkup PROVE Onward
<1>1. /\ Keyed(ImportBlocks(store, <<CreateBlock("p", uuid)>>)) /\ uuid \in Nat /\ calls' = calls
      /\ lapses' = lapses /\ blobs' = blobs /\ base' = base /\ files' = files /\ db' = db
  BY InvFacts DEF ImportMarkup
<1>2. uuid' \in Nat
  <2>1. uuid' = uuid + 1
    BY DEF ImportMarkup
  <2>. QED BY <1>1, <2>1
<1>3. <<CreateBlock("p", uuid)>> \in Trees /\ ~Pictures(<<CreateBlock("p", uuid)>>)
  BY <1>1, NewBlock
<1>4. Called(store, calls')
  BY <1>1, InvFacts
<1>. QED BY <1>1, <1>2, <1>3, <1>4, ImportedStep

LEMMA ImportJsonStep == ASSUME EditorInv, ImportJson PROVE Onward
<1>1. /\ Keyed(ImportBlocks(store, NewDocument.blocks)) /\ uuid \in Nat /\ calls' = calls
      /\ blobs' = blobs /\ base' = base /\ files' = files /\ db' = db /\ uuid' = uuid
      /\ Lapse(Strange(NewDocument))
  BY InvFacts DEF ImportJson
<1>2. /\ lapses \subseteq lapses'
      /\ "pictures" \in lapses' \/ ~(HasPictures(NewDocument) /\ blobs # store.doc.pics)
  BY <1>1 DEF Lapse, Strange
<1>3. NewDocument.blocks \in Trees
  BY <1>1, FreshDocuments
<1>4. ~Pictures(NewDocument.blocks) \/ blobs = store.doc.pics \/ "pictures" \in lapses'
  BY <1>2, StrangeFacts
<1>5. Called(store, calls')
  BY <1>1, InvFacts
<1>. QED BY <1>1, <1>2, <1>3, <1>4, <1>5, ImportedStep

-----------------------------------------------------------------------------
(* The invariant holds, and what it says.                                      *)

LEMMA CanvasStep == ASSUME EditorInv, CanvasNext PROVE Onward
<1>1. CASE Type
  BY <1>1, TypeStep
<1>2. CASE Leave
  BY <1>2, LeaveStep
<1>3. CASE ClickBlock
  BY <1>3, ClickBlockStep
<1>4. CASE ClickPage
  BY <1>4, ClickPageStep
<1>5. CASE Arrow
  BY <1>5, ArrowStep
<1>6. CASE EnterInLayout
  BY <1>6, EnterInLayoutStep
<1>7. CASE DeleteInLayout
  BY <1>7, DeleteInLayoutStep
<1>8. CASE EscapeInLayout
  BY <1>8, EscapeInLayoutStep
<1>9. CASE EnterInCompose
  BY <1>9, EnterInComposeStep
<1>10. CASE Backspace
  BY <1>10, BackspaceStep
<1>11. CASE HeadingShortcut
  BY <1>11, HeadingShortcutStep
<1>12. CASE RailType
  BY <1>12, RailTypeStep
<1>13. CASE RailInsert
  BY <1>13, RailInsertStep
<1>14. CASE ClickToken
  BY <1>14, ClickTokenStep
<1>15. CASE TokenRail
  BY <1>15, TokenRailStep
<1>16. CASE UndoKey
  BY <1>16, UndoKeyStep
<1>17. CASE ContextTab
  BY <1>17, ContextTabStep
<1>18. CASE ContextKey
  BY <1>18, ContextKeyStep
<1>19. CASE HeaderSave
  BY <1>19, HeaderSaveStep
<1>20. CASE Close
  BY <1>20, CloseStep
<1>. QED BY <1>1, <1>2, <1>3, <1>4, <1>5, <1>6, <1>7, <1>8, <1>9, <1>10, <1>11, <1>12, <1>13,
            <1>14, <1>15, <1>16, <1>17, <1>18, <1>19, <1>20 DEF CanvasNext

LEMMA PanelsStep == ASSUME EditorInv, PanelsNext PROVE Onward
<1>1. CASE ToolbarUndo \/ ToolbarType \/ ToolbarAlign \/ PickClass \/ ToolbarBlock
  BY <1>1, ToolbarUndoStep, ToolbarTypeStep, ToolbarAlignStep, PickClassStep, ToolbarBlockStep
<1>2. CASE ToolbarDuplicate \/ TreeSelect \/ TreeDelete \/ TreeMove \/ TreeDuplicate
  BY <1>2, ToolbarDuplicateStep, TreeSelectStep, TreeDeleteStep, TreeMoveStep, TreeDuplicateStep
<1>3. CASE TreeAdd \/ Typography \/ ClearStyle \/ ToggleMode \/ SaveAsClass
  BY <1>3, TreeAddStep, TypographyStep, ClearStyleStep, ToggleModeStep, SaveAsClassStep
<1>4. CASE ApplyClass \/ DeleteClass \/ TypeContent \/ ImageSource \/ PickImage \/ ImagePicked
  BY <1>4, ApplyClassStep, DeleteClassStep, TypeContentStep, ImageSourceStep, PickImageStep,
     ImagePickedStep
<1>5. CASE Attribute \/ TitleBlur \/ FilenameBlur \/ PageSetup \/ Analyze \/ Analyzed
  BY <1>5, AttributeStep, TitleBlurStep, FilenameBlurStep, PageSetupStep, AnalyzeStep, AnalyzedStep
<1>. QED BY <1>1, <1>2, <1>3, <1>4, <1>5 DEF PanelsNext

LEMMA FilesStep == ASSUME EditorInv, FilesNext PROVE Onward
<1>1. CASE StartOpen \/ FilePicked \/ TemplateRead \/ RecentRead
  BY <1>1, StartOpenStep, FilePickedStep, TemplateReadStep, RecentReadStep
<1>2. CASE StartSave \/ Saved \/ StartSaveAs \/ PathPicked \/ SavedAs
  BY <1>2, StartSaveStep, SavedStep, StartSaveAsStep, PathPickedStep, SavedAsStep
<1>3. CASE ExportPDF \/ ExportText \/ Exported \/ ImportMarkup \/ ImportJson
  BY <1>3, ExportPDFStep, ExportTextStep, ExportedStep, ImportMarkupStep, ImportJsonStep
<1>. QED BY <1>1, <1>2, <1>3 DEF FilesNext

LEMMA InitInv == Init => EditorInv /\ store.hist = CreateHistory(store.doc) /\ store.doc \in Documents
<1>. SUFFICES ASSUME Init PROVE EditorInv /\ store.hist = CreateHistory(store.doc) /\ store.doc \in Documents
  OBVIOUS
<1>. DEFINE d == NormalizeDocumentMetadata(NewDocument, "")
<1>1. d \in Documents /\ d.id = NewDocument.id /\ d.pics = Null /\ d.blocks = NewDocument.blocks
  BY EditorAssumption, Loaded
<1>2. /\ store = InitialState(d, "layout", Null) /\ focus = Null /\ drafts = << >> /\ mode = "override"
      /\ blobs = Null /\ calls = {} /\ db = {} /\ files = [p \in Paths |-> OnDisk[p].id]
      /\ base = Content(store.doc) /\ lapses = {} /\ uuid = 100
  BY DEF Init
<1>. HIDE DEF d
<1>3. /\ \A S : d \in S => CreateHistory(d) \in Stacks(S)
      /\ Len(CreateHistory(d).past) = 0 /\ Len(CreateHistory(d).future) = 0
      /\ CreateHistory(d).present = d
  BY Created DEF CreateHistory
<1>. DEFINE h == CreateHistory(d)
<1>4. h \in Stacks(Documents)
  BY <1>1, <1>3
<1>5. /\ store.doc = d /\ store.hist = h /\ store.sel = Null /\ store.ed = Null /\ store.tok = Null
      /\ store.ctx = "layout" /\ store.analyzing = FALSE /\ store.exporting = FALSE
      /\ store.path = Null /\ store.dirty = FALSE
  BY <1>2 DEF InitialState
<1>6. store \in EditorStates
  <2>. HIDE DEF h
  <2>1. "layout" \in Contexts
    BY DEF Contexts
  <2>2. store = [doc |-> d, hist |-> h, sel |-> Null, ed |-> Null,
                 tok |-> Null, ctx |-> "layout", summary |-> FALSE, analyzing |-> FALSE,
                 dirty |-> FALSE, exporting |-> FALSE, path |-> Null]
    BY <1>2 DEF InitialState, h
  <2>3. h \in [past : Seq(Documents), present : Documents, future : Seq(Documents)]
    BY <1>4 DEF Stacks
  <2>. QED BY <1>1, <2>1, <2>2, <2>3 DEF EditorStates
<1>7. store \in Stores
  <2>1. MaxEntries \in Nat
    BY MaxEntriesAssumption
  <2>2. Len(store.hist.past) = 0 /\ Len(store.hist.future) = 0
    BY <1>3, <1>5
  <2>3. Len(store.hist.past) + Len(store.hist.future) <= MaxEntries
    BY <2>1, <2>2
  <2>. QED BY <1>6, <2>3 DEF Stores
<1>8. \A S : d \in S => Holds(store, S)
  BY <1>3, <1>5 DEF Holds
<1>9. Held(store, lapses, blobs)
  <2>1. d \in Own(store.doc.id) /\ d \in Pictured(blobs)
    BY <1>1, <1>2, <1>5 DEF Own, Pictured
  <2>. QED BY <1>3, <1>5, <1>7, <1>8, <2>1 DEF Held
<1>10. Poised(store) /\ Known(store, lapses)
  BY <1>5 DEF Poised, Known
<1>11. Called(store, calls)
  BY <1>2, <1>5 DEF Called
<1>12. Caret(store, focus, drafts, lapses)
  <2>1. DOMAIN drafts = {}
    BY <1>2
  <2>2. drafts \in [{} -> Texts]
    BY <1>2
  <2>. QED BY <1>2, <2>1, <2>2 DEF Caret
<1>13. Filed(store, lapses, files, db, base, uuid)
  <2>1. \A p \in Paths : OnDisk[p].id \in Nat
    BY EditorAssumption DEF Documents
  <2>2. files \in [Paths -> Nat]
    BY <1>2, <2>1
  <2>. QED BY <1>2, <1>5, <2>2 DEF Filed
<1>. QED BY <1>1, <1>2, <1>5, <1>9, <1>10, <1>11, <1>12, <1>13 DEF EditorInv

LEMMA NextInv == EditorInv /\ [Next]_vars => Onward
<1>. SUFFICES ASSUME EditorInv, [Next]_vars PROVE Onward
  OBVIOUS
<1>1. CASE Next
  BY <1>1, CanvasStep, PanelsStep, FilesStep DEF Next
<1>2. CASE UNCHANGED vars
  BY <1>2 DEF vars, Onward, EditorInv, Logged
<1>. QED BY <1>1, <1>2

LEMMA InvSound == ASSUME EditorInv PROVE StoreSound
<1>1. store \in Stores /\ Poised(store) /\ Known(store, lapses) /\ Called(store, calls)
      /\ mode \in {"class", "override"}
  BY InvFacts DEF EditorInv
<1>2. store \in EditorStates /\ Len(store.hist.past) + Len(store.hist.future) <= MaxEntries
  BY <1>1, StateFacts
<1>3. TypeOK
  BY <1>1, <1>2 DEF TypeOK, Called, Captured
<1>4. SelectionKnown
  BY <1>1 DEF SelectionKnown, Known, Poised
<1>. QED BY <1>3, <1>4 DEF StoreSound

LEMMA InvEdits == ASSUME EditorInv PROVE EditsSurvive /\ CleanMeansSaved /\ ShownIsStored
BY InvFacts DEF EditsSurvive, CleanMeansSaved, ShownIsStored, Held, Filed, Caret

LEMMA InvFiles == ASSUME EditorInv PROVE FilesAreOwn
<1>1. Held(store, lapses, blobs) /\ Filed(store, lapses, files, db, base, uuid)
  BY InvFacts
<1>2. PicturesAtHand
  BY <1>1 DEF PicturesAtHand, Held, Holds, Pictured
<1>3. PathIsOwn
  BY <1>1 DEF PathIsOwn, Filed
<1>. QED BY <1>2, <1>3 DEF FilesAreOwn

(* The undo stack of the store: what a step makes of it.                       *)
LEMMA LoggedSteps ==
  ASSUME NEW h \in Stacks(Documents), NEW k, Logged(h, k)
  PROVE  \/ HistoryLog(k) = HistoryLog(h) /\ At(k) = At(h)
         \/ Edits(h, k)
         \/ At(h) > 1 /\ At(k) = At(h) - 1 /\ HistoryLog(k) = HistoryLog(h)
         \/ At(h) < Len(HistoryLog(h)) /\ At(k) = At(h) + 1 /\ HistoryLog(k) = HistoryLog(h)
         \/ Len(HistoryLog(k)) = 1 /\ At(k) = 1
<1>1. CASE k = h
  BY <1>1
<1>2. CASE Edits(h, k)
  BY <1>2
<1>3. CASE CanUndo(h) /\ k = UndoHistory(h)
  BY <1>3, UndoMovesBack
<1>4. CASE CanRedo(h) /\ k = RedoHistory(h)
  BY <1>4, RedoMovesOn
<1>5. CASE \E d \in Documents : k = CreateHistory(d)
  BY <1>5, OneEntry
<1>. QED BY <1>1, <1>2, <1>3, <1>4, <1>5 DEF Logged

LEMMA InitLogs == Init => Ideal!Init
<1>. SUFFICES ASSUME Init PROVE Ideal!Init
  OBVIOUS
<1>1. store.hist = CreateHistory(store.doc) /\ store.doc \in Documents
  BY InitInv
<1>2. Len(HistoryLog(store.hist)) = 1 /\ At(store.hist) = 1
  BY <1>1, OneEntry
<1>. QED BY <1>2 DEF Ideal!Init, At

LEMMA StepLogs == EditorInv /\ [Next]_vars => [Ideal!Next]_(Ideal!vars)
<1>. SUFFICES ASSUME EditorInv, [Next]_vars PROVE [Ideal!Next]_(Ideal!vars)
  OBVIOUS
<1>. DEFINE h == store.hist
            k == store'.hist
<1>1. h \in Stacks(Documents) /\ Logged(h, k)
  BY InvFacts, StateFacts, NextInv DEF Onward
<1>. HIDE DEF h, k
<1>2. \/ HistoryLog(k) = HistoryLog(h) /\ At(k) = At(h)
      \/ Edits(h, k)
      \/ At(h) > 1 /\ At(k) = At(h) - 1 /\ HistoryLog(k) = HistoryLog(h)
      \/ At(h) < Len(HistoryLog(h)) /\ At(k) = At(h) + 1 /\ HistoryLog(k) = HistoryLog(h)
      \/ Len(HistoryLog(k)) = 1 /\ At(k) = 1
  BY <1>1, LoggedSteps
<1>3. /\ At(h) = Len(store.hist.past) + 1 /\ At(k) = (Len(store.hist.past) + 1)'
      /\ HistoryLog(k) = HistoryLog(store.hist)' /\ HistoryLog(h) = HistoryLog(store.hist)
  BY DEF At, h, k, HistoryLog
<1>4. CASE HistoryLog(k) = HistoryLog(h) /\ At(k) = At(h)
  BY <1>3, <1>4 DEF Ideal!vars
<1>5. CASE Edits(h, k)
  <2>1. Ideal!Edit
    BY <1>3, <1>5 DEF Edits, Ideal!Edit
  <2>. QED BY <2>1 DEF Ideal!Next
<1>6. CASE At(h) > 1 /\ At(k) = At(h) - 1 /\ HistoryLog(k) = HistoryLog(h)
  BY <1>3, <1>6 DEF Ideal!Next, Ideal!Undo
<1>7. CASE At(h) < Len(HistoryLog(h)) /\ At(k) = At(h) + 1 /\ HistoryLog(k) = HistoryLog(h)
  BY <1>3, <1>7 DEF Ideal!Next, Ideal!Redo
<1>8. CASE Len(HistoryLog(k)) = 1 /\ At(k) = 1
  BY <1>3, <1>8 DEF Ideal!Next, Ideal!Load
<1>. QED BY <1>2, <1>4, <1>5, <1>6, <1>7, <1>8

(* The invariant the theorems below rest on: the documents the store holds are *)
(* versions of one document, the caret is in the selected block and has all    *)
(* that is typed and not written, every call carries what it captured, and the *)
(* path, the pictures and the mark of a change are those of this document, but *)
(* for the lapses recorded.                                                    *)
THEOREM EditorInvariant == Spec => []EditorInv
<1>1. Init => EditorInv
  BY InitInv
<1>2. EditorInv /\ [Next]_vars => EditorInv'
  BY NextInv DEF Onward
<1>. QED BY <1>1, <1>2, PTL DEF Spec

(* The store is typed, the undo stack keeps its bound with what may be redone, *)
(* the flags of an analysis and an export are up while one is under way, and   *)
(* the selection is a block of the document (editor-store.tsx, useNLPAnalyze). *)
THEOREM StoreIsSound == Spec => []StoreSound
<1>1. EditorInv => StoreSound
  BY InvSound
<1>. QED BY <1>1, EditorInvariant, PTL

(* What the page shows is what undo and redo work on: no edit is in the        *)
(* document and not in its history, but for the answer of a stale analysis.    *)
THEOREM NoEditIsLost == Spec => []EditsSurvive
<1>1. EditorInv => EditsSurvive
  BY InvEdits
<1>. QED BY <1>1, EditorInvariant, PTL

(* A document that is not marked as changed is the one loaded or written last, *)
(* but for the lapses CleanMeansSaved names (ExportPanel, EditorShell).        *)
THEOREM CleanIsSaved == Spec => []CleanMeansSaved
<1>1. EditorInv => CleanMeansSaved
  BY InvEdits
<1>. QED BY <1>1, EditorInvariant, PTL

(* Text on the page that the store does not have is in the block of the caret, *)
(* whose leaving writes it (BlockView), but for the lapses ShownIsStored names. *)
THEOREM TypedIsAtCaret == Spec => []ShownIsStored
<1>1. EditorInv => ShownIsStored
  BY InvEdits
<1>. QED BY <1>1, EditorInvariant, PTL

(* The pictures in memory and the path a save writes to are the document's     *)
(* (blobStore, ExportPanel), but for the lapses FilesAreOwn names.             *)
THEOREM FilesAreItsOwn == Spec => []FilesAreOwn
<1>1. EditorInv => FilesAreOwn
  BY InvFiles
<1>. QED BY <1>1, EditorInvariant, PTL

(* The undo history of the store, whatever the gesture and the answer that     *)
(* changes it, is a log of snapshots with a position in it: undo and redo lose *)
(* nothing and invent nothing, for any documents and any bound (history.ts).   *)
THEOREM StoreIsLog == Spec => ImplementsUndo
<1>1. Init => Ideal!Init
  BY InitLogs
<1>2. EditorInv /\ [Next]_vars => [Ideal!Next]_(Ideal!vars)
  BY StepLogs
<1>. QED BY <1>1, <1>2, EditorInvariant, PTL DEF Spec, ImplementsUndo, Ideal!Spec
=============================================================================
