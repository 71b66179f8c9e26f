---------------------------- MODULE FileTransfer ----------------------------
(***************************************************************************)
(* One background transfer, dms_transfer_files_start: the handler plans    *)
(* the files to copy or move, and a detached thread works through the plan *)
(* while the user may cancel, other programs may add files to a source     *)
(* directory, every system call may fail, and the process may die.         *)
(*                                                                         *)
(* A content is known by the path where it lay before the transfer.        *)
(* Directories exist through the files in them.  FileJobsProofs extends    *)
(* this module and ModelDownloader, so they have no name in common.        *)
(***************************************************************************)
EXTENDS Naturals, SequencesExt

CONSTANTS
  Roots,         \* the sources, in order: [dir, name, files, isDir]
  Dest,          \* the destination directory
  Copies,        \* the suffixes " (n)" that a name may get
  Added,         \* the name of a file that another program adds
  Nothing,       \* no file at a path
  Partial,       \* the beginning of a file
  Operations, Conflicts,   \* what the user may ask for
  Old            \* the paths at the destination that may hold a file before

Path(dir, name, copy, file) == [dir |-> dir, name |-> name, copy |-> copy, file |-> file]

RootIds == DOMAIN Roots
FilesOf(i) == ToSet(Roots[i].files)
Source(i, f) == Path(Roots[i].dir, Roots[i].name, 0, f)

Sources == UNION {{Source(i, f) : f \in FilesOf(i)} : i \in RootIds}

Paths ==
  UNION {UNION {{Source(i, f)} \cup {Path(Dest, Roots[i].name, n, f) : n \in 0..Copies} :
                f \in FilesOf(i) \cup {Added}} : i \in RootIds}

\* What lies in the directory, or is the file, that a source names.
Within(i) == {p \in Paths : p.dir = Roots[i].dir /\ p.name = Roots[i].name /\ p.copy = 0}

\* Sources are different paths, at least one, and `files' are all of its files; a
\* name can be made unique, since unique_target_path counts on until it is.
ASSUME TransferAssumption ==
  /\ Copies \in Nat
  /\ {Nothing, Partial} \cap Paths = {} /\ Nothing # Partial
  /\ Operations \subseteq {"copy", "move"}
  /\ Conflicts \subseteq {"keep", "replace", "skip"}
  /\ Len(Roots) \in Nat \ {0} /\ RootIds = 1..Len(Roots)
  /\ \A i \in RootIds :
       /\ Len(Roots[i].files) \in Nat /\ DOMAIN Roots[i].files = 1..Len(Roots[i].files)
       /\ IsInjective(Roots[i].files) /\ Added \notin FilesOf(i)
       /\ \A j \in RootIds :
            Roots[i].dir = Roots[j].dir /\ Roots[i].name = Roots[j].name => i = j
       /\ Old \cap Within(i) = {}
       /\ \E n \in 1..Copies :
            \A p \in Old : ~(p.dir = Dest /\ p.name = Roots[i].name /\ p.copy = n)
  /\ Old \subseteq Paths

VARIABLES
  fs,            \* the content at each path
  before,        \* the contents there were
  cut,           \* history: the contents whose reading failed half-way
  operation, conflict,
  planned,       \* plan.source_roots
  plan,          \* plan.file_items
  pos,           \* the item the thread is at
  root,          \* the source root the thread is at
  phase,         \* what the thread does next
  succeeded,     \* root_successes
  errors,        \* error_count
  stopAsked,     \* task->cancel_requested
  report         \* the last event pushed

request == <<operation, conflict>>
plans == <<planned, plan>>
transferVars ==
  <<fs, before, cut, request, plans, pos, root, phase, succeeded, errors, stopAsked, report>>

TransferInit ==
  /\ \E old \in SUBSET Old :
       before = Sources \cup old
  /\ fs = [p \in Paths |-> IF p \in before THEN p ELSE Nothing]
  /\ cut = {}
  /\ operation \in Operations
  /\ conflict \in Conflicts
  /\ planned = {}
  /\ plan = <<>>
  /\ pos = 1
  /\ root = 1
  /\ phase = "planning"
  /\ succeeded = [i \in RootIds |-> 0]
  /\ errors = 0
  /\ stopAsked = FALSE
  /\ report = "none"

-----------------------------------------------------------------------------
(* build_transfer_plan: each source by itself, before anything is copied.    *)

Taken(name, n) ==
  \E p \in Paths : p.dir = Dest /\ p.name = name /\ p.copy = n /\ fs[p] # Nothing

(* unique_target_path. *)
FreeCopy(name) ==
  CHOOSE n \in 1..Copies : ~Taken(name, n) /\ \A k \in 1..(n - 1) : Taken(name, k)

Skipped(i) == Taken(Roots[i].name, 0) /\ conflict = "skip"

TargetCopy(i) ==
  IF Taken(Roots[i].name, 0) /\ conflict = "keep" THEN FreeCopy(Roots[i].name) ELSE 0

Items(i) ==
  [j \in DOMAIN Roots[i].files |->
     [source |-> Source(i, Roots[i].files[j]),
      target |-> Path(Dest, Roots[i].name, TargetCopy(i), Roots[i].files[j]),
      root |-> i]]

Start ==
  /\ phase = "planning"
  /\ planned' = {i \in RootIds : ~Skipped(i)}
  /\ plan' = FlattenSeq([i \in RootIds |-> IF Skipped(i) THEN <<>> ELSE Items(i)])
  /\ phase' = "taking"
  /\ report' = "start"
  /\ UNCHANGED <<fs, before, cut, request, pos, root, succeeded, errors, stopAsked>>

-----------------------------------------------------------------------------
item == plan[pos]

UnderWay == phase \in {"taking", "renaming", "opening", "filling", "filled", "removing", "reporting"}

NextItem == pos' = pos + 1 /\ phase' = "taking"

(* The top of the loop; "replace" first removes what is at the target.       *)
TakeItem ==
  /\ phase = "taking"
  /\ ~stopAsked /\ pos <= Len(plan)
  /\ fs' = IF conflict = "replace" THEN [fs EXCEPT ![item.target] = Nothing] ELSE fs
  /\ phase' = IF operation = "move" THEN "renaming" ELSE "opening"
  /\ UNCHANGED <<before, cut, request, plans, pos, root, succeeded, errors, stopAsked, report>>

RenameItem ==
  /\ phase = "renaming"
  /\ fs[item.source] # Nothing
  /\ fs' = [fs EXCEPT ![item.source] = Nothing, ![item.target] = fs[item.source]]
  /\ succeeded' = [succeeded EXCEPT ![item.root] = @ + 1]
  /\ report' = "progress"
  /\ NextItem
  /\ UNCHANGED <<before, cut, request, plans, root, errors, stopAsked>>

(* Another device, or no source: the file is copied instead.                 *)
RenameFails ==
  /\ phase = "renaming"
  /\ phase' = "opening"
  /\ UNCHANGED <<fs, before, cut, request, plans, pos, root, succeeded, errors, stopAsked, report>>

(* copy_file_chunked opens the source and truncates the target.              *)
OpenSource ==
  /\ phase = "opening"
  /\ fs[item.source] # Nothing
  /\ fs' = [fs EXCEPT ![item.target] = Partial]
  /\ phase' = "filling"
  /\ UNCHANGED <<before, cut, request, plans, pos, root, succeeded, errors, stopAsked, report>>

SourceFails ==
  /\ phase = "opening"
  /\ errors' = errors + 1
  /\ NextItem
  /\ UNCHANGED <<fs, before, cut, request, plans, root, succeeded, stopAsked, report>>

(* The target holds the source, or, when a read fails, what was read of it:  *)
(* the loop takes a failed read for the end of the file.                      *)
Fill ==
  /\ phase = "filling"
  /\ \/ fs' = [fs EXCEPT ![item.target] = fs[item.source]] /\ UNCHANGED cut
     \/ cut' = cut \cup {fs[item.source]} /\ UNCHANGED fs
  /\ phase' = "filled"
  /\ report' = "progress"
  /\ UNCHANGED <<before, request, plans, pos, root, succeeded, errors, stopAsked>>

(* Mutant: what was written stays.                                           *)
StopFillKeepsPartial ==
  /\ phase = "filling"
  /\ stopAsked
  /\ NextItem
  /\ UNCHANGED <<fs, before, cut, request, plans, root, succeeded, errors, stopAsked, report>>

StopFill ==
  /\ phase = "filling"
  /\ stopAsked
  /\ fs' = [fs EXCEPT ![item.target] = Nothing]
  /\ NextItem
  /\ UNCHANGED <<before, cut, request, plans, root, succeeded, errors, stopAsked, report>>

WriteFails ==
  /\ phase = "filling"
  /\ fs' = [fs EXCEPT ![item.target] = Nothing]
  /\ errors' = errors + 1
  /\ NextItem
  /\ UNCHANGED <<before, cut, request, plans, root, succeeded, stopAsked, report>>

FinishItem ==
  /\ phase = "filled"
  /\ succeeded' = [succeeded EXCEPT ![item.root] = @ + 1]
  /\ fs' = IF operation = "move" THEN [fs EXCEPT ![item.source] = Nothing] ELSE fs
  /\ NextItem
  /\ UNCHANGED <<before, cut, request, plans, root, errors, stopAsked, report>>

EndItems ==
  /\ phase = "taking"
  /\ stopAsked \/ pos > Len(plan)
  /\ phase' = IF operation = "move" /\ ~stopAsked THEN "removing" ELSE "reporting"
  /\ UNCHANGED <<fs, before, cut, request, plans, pos, root, succeeded, errors, stopAsked, report>>

-----------------------------------------------------------------------------
(* Mutant: the successes of the root are not looked at.                      *)
EmptiedAlways(i) == i \in planned

(* All files of a root were moved, or there was none.                        *)
Emptied(i) == i \in planned /\ succeeded[i] = Len(Roots[i].files)

(* What a move leaves of its source roots: remove_all of the directory, with *)
(* whatever lies in it by now.                                                *)
RemoveRoot ==
  /\ phase = "removing"
  /\ fs' = [p \in Paths |->
       IF Roots[root].isDir /\ Emptied(root) /\ p \in Within(root) THEN Nothing ELSE fs[p]]
  /\ IF root = Len(Roots)
       THEN phase' = "reporting" /\ UNCHANGED root
       ELSE root' = root + 1 /\ UNCHANGED phase
  /\ UNCHANGED <<before, cut, request, plans, pos, succeeded, errors, stopAsked, report>>

ReportEnd ==
  /\ phase = "reporting"
  /\ phase' = "done"
  /\ report' = IF stopAsked THEN "cancelled" ELSE "complete"
  /\ UNCHANGED <<fs, before, cut, request, plans, pos, root, succeeded, errors, stopAsked>>

-----------------------------------------------------------------------------
(* dms_transfer_cancel; the task is registered until after its last event.   *)
Cancel ==
  /\ UnderWay \/ phase = "done"
  /\ ~stopAsked
  /\ stopAsked' = TRUE
  /\ UNCHANGED <<fs, before, cut, request, plans, pos, root, phase, succeeded, errors, report>>

Die ==
  /\ UnderWay
  /\ phase' = "dead"
  /\ UNCHANGED <<fs, before, cut, request, plans, pos, root, succeeded, errors, stopAsked, report>>

AddFile(i) ==
  /\ UnderWay
  /\ Roots[i].isDir
  /\ Source(i, Added) \notin before
  /\ fs' = [fs EXCEPT ![Source(i, Added)] = Source(i, Added)]
  /\ before' = before \cup {Source(i, Added)}
  /\ UNCHANGED <<cut, request, plans, pos, root, phase, succeeded, errors, stopAsked, report>>

Transfer ==
  \/ Start
  \/ TakeItem
  \/ RenameItem
  \/ RenameFails
  \/ OpenSource
  \/ SourceFails
  \/ Fill
  \/ StopFill
  \/ WriteFails
  \/ FinishItem
  \/ EndItems
  \/ RemoveRoot
  \/ ReportEnd

TransferNext ==
  \/ Transfer
  \/ Cancel
  \/ Die
  \/ \E i \in RootIds : AddFile(i)

TransferSpec == TransferInit /\ [][TransferNext]_transferVars

-----------------------------------------------------------------------------
TransferTypes ==
  /\ fs \in [Paths -> Paths \cup {Nothing, Partial}]
  /\ before \subseteq Paths
  /\ cut \subseteq Paths
  /\ operation \in Operations /\ conflict \in Conflicts
  /\ planned \subseteq RootIds
  /\ plan \in Seq([source : Sources, target : Paths, root : RootIds])
  /\ pos \in 1..(Len(plan) + 1)
  /\ root \in RootIds
  /\ phase \in {"planning", "taking", "renaming", "opening", "filling", "filled", "removing",
                "reporting", "done", "dead"}
  /\ succeeded \in [RootIds -> Nat]
  /\ errors \in 0..Len(plan)
  /\ stopAsked \in BOOLEAN
  /\ report \in {"none", "start", "progress", "cancelled", "complete"}

(* What "replace" is asked to give up; when the destination is the directory a  *)
(* source lies in, that source, which is its own target.                         *)
Replaced == {plan[k].target : k \in DOMAIN plan}

(* What a move takes from its sources without a copy: a file whose read failed *)
(* half-way counts as moved, and remove_all takes a file that another program   *)
(* put into the directory meanwhile.                                           *)
Forfeited(c) == operation = "move" /\ (c \in cut \/ c.file = Added)

(* Two sources of one name have one target (build_transfer_plan looks for a     *)
(* free name before anything is copied).                                        *)
Twin(i) == \E j \in RootIds \ {i} : Roots[i].name = Roots[j].name

(* What one of them then takes from the other.                                  *)
Displaced(c) == operation = "move" /\ \E i \in RootIds : Twin(i) /\ c \in Within(i)

(* No content that lay in a source or at the destination is ever without a     *)
(* whole copy, at no step of the transfer, also when it fails, is cancelled or  *)
(* the process dies there, except what the user asked to replace and what a     *)
(* move forfeits or displaces.  A copy loses nothing, whatever fails.            *)
NothingLost ==
  \A c \in before :
    \/ \E p \in Paths : fs[p] = c
    \/ conflict = "replace" /\ c \in Replaced
    \/ Forfeited(c)
    \/ Displaced(c)

(* What a transfer leaves is what it reports.  At its end, cancelled, failing  *)
(* or not, no partial file is at a target, and if it completed without an       *)
(* error each file of the plan is at its target whole; but for the reads that    *)
(* failed unnoticed, and for sources of one name.                                *)
OutcomeIsOnDisk ==
  phase = "done" =>
    \A k \in DOMAIN plan : plan[k].source \notin cut /\ ~Twin(plan[k].root) =>
      /\ fs[plan[k].target] # Partial
      /\ report = "complete" /\ errors = 0 => fs[plan[k].target] = plan[k].source

\* The transfer is typed and its report agrees with the disk.
TransferSound == TransferTypes /\ OutcomeIsOnDisk
=============================================================================
