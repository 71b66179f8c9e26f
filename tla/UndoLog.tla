------------------------------ MODULE UndoLog ------------------------------
(* What undo and redo promise: one log of snapshots and a position in it. An *)
(* edit writes behind the position and forgets what was undone, and when the *)
(* log is full its oldest snapshot; undo and redo only move the position, so *)
(* nothing they step over is lost; loading starts a log of one snapshot.     *)
EXTENDS Integers, Sequences

CONSTANT MaxEntries

VARIABLES log, at

vars == <<log, at>>

Init == Len(log) = 1 /\ at = 1

\* A handler may edit more than once; the snapshots behind the old position
\* are new, and any that were dropped made room in a full log.
Edit ==
  \E dropped \in 0 .. at :
    /\ Len(log') = at' /\ at' > at - dropped
    /\ at' <= MaxEntries + 1 /\ (dropped > 0 => at' = MaxEntries + 1)
    /\ \A i \in 1 .. at - dropped : log'[i] = log[i + dropped]

Undo == at > 1 /\ at' = at - 1 /\ UNCHANGED log

Redo == at < Len(log) /\ at' = at + 1 /\ UNCHANGED log

Load == Len(log') = 1 /\ at' = 1

Next == Edit \/ Undo \/ Redo \/ Load

Spec == Init /\ [][Next]_vars
=============================================================================
