--------------------------- MODULE ModelDownloader ---------------------------
(***************************************************************************)
(* The downloads of one model by the model_downloader module: calls of     *)
(* start_download, cancel_download and delete_model on the threads of the  *)
(* host, one worker thread per download, and the two paths they share,     *)
(* <dest>.tmp and <dest>.                                                   *)
(*                                                                         *)
(* A path names a file (an inode) or none; a worker writes through the     *)
(* file it opened, wherever that file has been moved since.  A file is     *)
(* known by the download that created it.  The plain enum `status` is read *)
(* and written without a lock; a word-sized load or store is atomic in any *)
(* build, so every such access is a step of its own.                        *)
(***************************************************************************)
EXTENDS Naturals, FiniteSets

CONSTANTS
  Downloads,   \* the calls of start_download, and the ids they return
  NoFile,      \* nothing at this path
  Size         \* the chunks of the model

ASSUME DownloaderAssumption ==
  /\ NoFile \notin Downloads
  /\ Size \in Nat \ {0}

VARIABLES
  caller,      \* how far start_download is
  canceller,   \* how far cancel_download is
  registered,  \* the ids in m_impl->downloads
  status,      \* DownloadState::status
  cancel,      \* DownloadState::cancel_requested
  worker,      \* how far the worker is
  fd,          \* the file it has open
  at,          \* the chunks it has written
  broke,       \* what the system did to it: "no", "network", "disk", "flush", "rename"
  shared,      \* history: two workers have been under way together
  tmp, dest,   \* the files at the two paths
  content,     \* the chunks in each file
  alive        \* the process: an exception on a worker thread ends it

calls == <<caller, canceller, registered>>
files == <<tmp, dest, content>>
vars == <<calls, status, cancel, worker, fd, at, broke, shared, files, alive>>

Whole == 1..Size

Init ==
  /\ caller = [d \in Downloads |-> "idle"]
  /\ canceller = [d \in Downloads |-> "idle"]
  /\ registered = {}
  /\ status = [d \in Downloads |-> "idle"]
  /\ cancel = [d \in Downloads |-> FALSE]
  /\ worker = [d \in Downloads |-> "none"]
  /\ fd = [d \in Downloads |-> NoFile]
  /\ at = [d \in Downloads |-> 0]
  /\ broke = [d \in Downloads |-> "no"]
  /\ shared = FALSE
  /\ tmp = NoFile
  /\ dest = NoFile
  /\ content = [d \in Downloads |-> {}]
  /\ alive = TRUE

Running(d) == worker[d] \notin {"none", "ended"}

-----------------------------------------------------------------------------
(* start_download.                                                           *)

IsDownloaded == dest # NoFile /\ content[dest] # {}

StartDownload(d) ==
  /\ caller[d] = "idle"
  /\ ~IsDownloaded
  /\ caller' = [caller EXCEPT ![d] = "looking"]
  /\ UNCHANGED <<canceller, registered, status, cancel, worker, fd, at, broke, shared, files>>

(* The registered downloads are searched under the lock, which is released. *)
LookUp(d) ==
  /\ caller[d] = "looking"
  /\ caller' = [caller EXCEPT ![d] =
       IF \E e \in registered : status[e] = "downloading" THEN "joined" ELSE "spawning"]
  /\ UNCHANGED <<canceller, registered, status, cancel, worker, fd, at, broke, shared, files>>

Spawn(d) ==
  /\ caller[d] = "spawning"
  /\ caller' = [caller EXCEPT ![d] = "registering"]
  /\ status' = [status EXCEPT ![d] = "downloading"]
  /\ worker' = [worker EXCEPT ![d] = "cleaning"]
  /\ shared' = (shared \/ \E e \in Downloads : Running(e))
  /\ UNCHANGED <<canceller, registered, cancel, fd, at, broke, files>>

Register(d) ==
  /\ caller[d] = "registering"
  /\ caller' = [caller EXCEPT ![d] = "started"]
  /\ registered' = registered \cup {d}
  /\ UNCHANGED <<canceller, status, cancel, worker, fd, at, broke, shared, files>>

-----------------------------------------------------------------------------
(* cancel_download.                                                          *)

CancelDownload(d) ==
  /\ d \in registered
  /\ canceller[d] = "idle"
  /\ status[d] = "downloading"
  /\ cancel' = [cancel EXCEPT ![d] = TRUE]
  /\ canceller' = [canceller EXCEPT ![d] = "marking"]
  /\ UNCHANGED <<caller, registered, status, worker, fd, at, broke, shared, files>>

MarkCancelled(d) ==
  /\ canceller[d] = "marking"
  /\ status' = [status EXCEPT ![d] = "cancelled"]
  /\ canceller' = [canceller EXCEPT ![d] = "idle"]
  /\ UNCHANGED <<caller, registered, cancel, worker, fd, at, broke, shared, files>>

DeleteModel ==
  /\ dest # NoFile
  /\ dest' = NoFile
  /\ UNCHANGED <<calls, status, cancel, worker, fd, at, broke, shared, tmp, content>>

-----------------------------------------------------------------------------
(* The worker.                                                               *)

Goto(d, step) == worker' = [worker EXCEPT ![d] = step]

(* A .tmp that a previous download left is removed.                          *)
Clean(d) ==
  /\ worker[d] = "cleaning"
  /\ Goto(d, "opening")
  /\ tmp' = NoFile
  /\ UNCHANGED <<calls, status, cancel, fd, at, broke, shared, dest, content>>

EndEarly(d) ==
  /\ worker[d] = "opening"
  /\ cancel[d]
  /\ Goto(d, "cancelled")
  /\ UNCHANGED <<calls, status, cancel, fd, at, broke, shared, files>>

(* fopen "wb" truncates the file at the path, or makes one.                  *)
Open(d) ==
  /\ worker[d] = "opening"
  /\ ~cancel[d]
  /\ LET file == IF tmp = NoFile THEN d ELSE tmp
     IN  /\ tmp' = file
         /\ fd' = [fd EXCEPT ![d] = file]
         /\ content' = [content EXCEPT ![file] = {}]
  /\ Goto(d, "receiving")
  /\ UNCHANGED <<calls, status, cancel, at, broke, shared, dest>>

OpenFails(d) ==
  /\ worker[d] = "opening"
  /\ ~cancel[d]
  /\ broke' = [broke EXCEPT ![d] = "disk"]
  /\ Goto(d, "failed")
  /\ UNCHANGED <<calls, status, cancel, fd, at, shared, files>>

(* write_cb.                                                                 *)
Receive(d) ==
  /\ worker[d] = "receiving"
  /\ at[d] < Size
  /\ ~cancel[d]
  /\ at' = [at EXCEPT ![d] = @ + 1]
  /\ content' = [content EXCEPT ![fd[d]] = @ \cup {at[d] + 1}]
  /\ UNCHANGED <<calls, status, cancel, worker, fd, broke, shared, tmp, dest>>

(* curl_easy_perform returns: everything came, write_cb gave up, or an error; *)
(* fclose follows.  It writes what is still buffered, and nobody looks at its *)
(* result: on a full disk the end of the file is lost without a word.         *)
PerformReturns(d) ==
  /\ worker[d] = "receiving"
  /\ \/ (at[d] = Size \/ cancel[d]) /\ UNCHANGED <<broke, content>>
     \/ broke' = [broke EXCEPT ![d] = "network"] /\ UNCHANGED content
     \/ /\ at[d] = Size
        /\ broke' = [broke EXCEPT ![d] = "flush"]
        /\ content' = [content EXCEPT ![fd[d]] = @ \ {Size}]
  /\ Goto(d, "deciding")
  /\ UNCHANGED <<calls, status, cancel, fd, at, shared, tmp, dest>>

(* Cancellation wins over the result of curl.                                *)
Discard(d) ==
  /\ worker[d] = "deciding"
  /\ cancel[d]
  /\ tmp' = NoFile
  /\ Goto(d, "cancelled")
  /\ UNCHANGED <<calls, status, cancel, fd, at, broke, shared, dest, content>>

Fail(d) ==
  /\ worker[d] = "deciding"
  /\ ~cancel[d]
  /\ broke[d] = "network" \/ tmp = NoFile
  /\ status' = [status EXCEPT ![d] = "failed"]
  /\ Goto(d, "removing")
  /\ UNCHANGED <<calls, cancel, fd, at, broke, shared, files>>

(* Mutant: the partial file stays.                                           *)
PartialForgotten(d) ==
  /\ worker[d] = "removing"
  /\ Goto(d, "ended")
  /\ UNCHANGED <<calls, status, cancel, fd, at, broke, shared, files>>

RemovePartial(d) ==
  /\ worker[d] = "removing"
  /\ tmp' = NoFile
  /\ Goto(d, "ended")
  /\ UNCHANGED <<calls, status, cancel, fd, at, broke, shared, dest, content>>

(* Mutant: curl's result is not examined before the rename.                  *)
AcceptUnchecked(d) ==
  /\ worker[d] = "deciding"
  /\ ~cancel[d]
  /\ tmp # NoFile
  /\ Goto(d, "renaming")
  /\ UNCHANGED <<calls, status, cancel, fd, at, broke, shared, files>>

Accept(d) ==
  /\ worker[d] = "deciding"
  /\ ~cancel[d]
  /\ broke[d] # "network" /\ tmp # NoFile
  /\ Goto(d, "renaming")
  /\ UNCHANGED <<calls, status, cancel, fd, at, broke, shared, files>>

(* The rename: done, or without a source, or refused by the system.          *)
Rename(d) ==
  /\ worker[d] = "renaming"
  /\ \/ /\ tmp # NoFile
        /\ dest' = tmp
        /\ tmp' = NoFile
        /\ Goto(d, "completed")
        /\ UNCHANGED broke
     \/ /\ tmp = NoFile
        /\ Goto(d, "failed")
        /\ UNCHANGED <<tmp, dest, broke>>
     \/ /\ broke' = [broke EXCEPT ![d] = "rename"]
        /\ Goto(d, "failed")
        /\ UNCHANGED <<tmp, dest>>
  /\ UNCHANGED <<calls, status, cancel, fd, at, shared, content>>

(* Mutant: a cancelled worker returns without a word.                        *)
ReportEndsOnly(d) ==
  /\ worker[d] \in {"failed", "completed"}
  /\ status' = [status EXCEPT ![d] = worker[d]]
  /\ Goto(d, "ended")
  /\ UNCHANGED <<calls, cancel, fd, at, broke, shared, files>>

Report(d) ==
  /\ worker[d] \in {"cancelled", "failed", "completed"}
  /\ status' = [status EXCEPT ![d] = worker[d]]
  /\ Goto(d, "ended")
  /\ UNCHANGED <<calls, cancel, fd, at, broke, shared, files>>

(* fs::remove, at each of its three uses, throws when the system refuses, and *)
(* nothing on the worker's thread catches it.                                 *)
RemoveThrows(d) ==
  /\ alive
  /\ tmp # NoFile
  /\ \/ worker[d] \in {"cleaning", "removing"}
     \/ worker[d] = "deciding" /\ cancel[d]
  /\ alive' = FALSE
  /\ UNCHANGED <<calls, status, cancel, worker, fd, at, broke, shared, files>>

Work(d) ==
  /\ alive /\ UNCHANGED alive
  /\ \/ Clean(d)
     \/ EndEarly(d)
     \/ Open(d)
     \/ OpenFails(d)
     \/ Receive(d)
     \/ PerformReturns(d)
     \/ Discard(d)
     \/ Fail(d)
     \/ RemovePartial(d)
     \/ Accept(d)
     \/ Rename(d)
     \/ Report(d)

EndCancel(d) == alive /\ UNCHANGED alive /\ MarkCancelled(d)

Call ==
  /\ alive /\ UNCHANGED alive
  /\ \/ \E d \in Downloads :
          \/ StartDownload(d)
          \/ LookUp(d)
          \/ Spawn(d)
          \/ Register(d)
          \/ CancelDownload(d)
     \/ DeleteModel

Next ==
  \/ Call
  \/ \E d \in Downloads : EndCancel(d) \/ Work(d) \/ RemoveThrows(d)

Spec == Init /\ [][Next]_vars

(* The threads run, and the server goes on sending or the connection breaks: *)
(* no option of curl bounds a stalled transfer.                               *)
FairSpec ==
  /\ Spec
  /\ \A d \in Downloads :
       /\ WF_vars(Work(d))
       /\ WF_vars(EndCancel(d))

-----------------------------------------------------------------------------
Files == Downloads \cup {NoFile}

TypeOK ==
  /\ caller \in [Downloads -> {"idle", "looking", "joined", "spawning", "registering", "started"}]
  /\ canceller \in [Downloads -> {"idle", "marking"}]
  /\ registered \subseteq Downloads
  /\ status \in [Downloads -> {"idle", "downloading", "completed", "failed", "cancelled"}]
  /\ cancel \in [Downloads -> BOOLEAN]
  /\ worker \in [Downloads -> {"none", "cleaning", "opening", "receiving", "deciding", "removing",
                              "renaming", "cancelled", "failed", "completed", "ended"}]
  /\ fd \in [Downloads -> Files]
  /\ at \in [Downloads -> 0..Size]
  /\ broke \in [Downloads -> {"no", "disk", "network", "flush", "rename"}]
  /\ shared \in BOOLEAN
  /\ tmp \in Files
  /\ dest \in Files
  /\ content \in [Downloads -> SUBSET Whole]
  /\ alive \in BOOLEAN

(* A model that the application finds at its destination is the whole model,  *)
(* whatever was cancelled, deleted or broken before, as long as no two workers *)
(* have shared the .tmp, unless the flush of that very file failed in the      *)
(* fclose whose result is not looked at: then the model lacks its end and its  *)
(* download is reported complete.                                              *)
DestIsWhole ==
  dest # NoFile /\ ~shared => content[dest] = Whole \/ broke[dest] = "flush"

(* A download that reports a failure did fail: the system broke it.  Nobody   *)
(* takes its file away, as long as no two workers have shared the .tmp.       *)
FailedMeansBroke ==
  \A d \in Downloads :
    status[d] = "failed" /\ ~shared => broke[d] \in {"disk", "network", "rename"}

(* When every worker has ended, nothing partial is left behind: a .tmp outlives *)
(* the workers only when a rename was refused.  Each worker may remove or rename *)
(* the file of another, but the last one leaves none.  A worker that takes the   *)
(* process with it has not ended, and its .tmp stays for the next start.         *)
NothingLeftBehind ==
  tmp # NoFile /\ (\A d \in Downloads : ~Running(d)) =>
    \E d \in Downloads : broke[d] = "rename"

(* Every worker comes to an end, and what get_progress then reports is no      *)
(* longer "downloading", whichever of the worker and cancel_download was last, *)
(* unless a file that cannot be removed ends the whole process.                *)
EveryDownloadEnds ==
  \A d \in Downloads :
    worker[d] = "cleaning" ~>
      \/ worker[d] = "ended" /\ status[d] \in {"completed", "failed", "cancelled"}
      \/ ~alive

\* What a download reports is true of the disk: a model at its destination is
\* whole but for a flush that failed unseen, and only the system makes a
\* download fail.
DownloadSound == TypeOK /\ DestIsWhole /\ FailedMeansBroke
=============================================================================
