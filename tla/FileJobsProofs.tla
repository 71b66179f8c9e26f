--------------------------- MODULE FileJobsProofs ---------------------------
(***************************************************************************)
(* Safety of the two jobs that write files in the background: a download   *)
(* of a model (ModelDownloader), for any number of downloads, callers and  *)
(* cancellations and a model of any size, and a transfer of files          *)
(* (FileTransfer), for any sources, destination and conflict rule.  The    *)
(* two specifications share no name.                                       *)
(*                                                                         *)
(* A download.  Two inductive invariants on top of the types: who will     *)
(* clear <dest>.tmp (ClearInv), and, while no two workers have shared it,  *)
(* what its one user knows about the two paths (AloneInv).                 *)
(*                                                                         *)
(* A transfer.  First what FlattenSeq returns, by induction on the length  *)
(* of its argument; then where the items of a plan lie, and that a target  *)
(* is no other item's source (SelfReplaces) nor, for names that occur      *)
(* once, another item's target (SingleTarget); then TransferInv, what the   *)
(* thread has done with each item.                                         *)
(***************************************************************************)
EXTENDS ModelDownloader, FileTransfer, SequenceTheorems, WellFoundedInduction, TLAPS

-----------------------------------------------------------------------------
(* Downloads.                                                                *)

LEMMA TypeInit == Init => TypeOK
<1> SUFFICES ASSUME Init PROVE TypeOK
  OBVIOUS
<1>1. 0 \in 0..Size
  BY DownloaderAssumption
<1>2. at \in [Downloads -> 0..Size]
  BY <1>1 DEF Init
<1>3. content \in [Downloads -> SUBSET Whole]
  BY DEF Init
<1> QED
  BY <1>2, <1>3 DEF Init, TypeOK, Files

LEMMA TypeStep == TypeOK /\ [Next]_vars => TypeOK'
<1> SUFFICES ASSUME TypeOK, [Next]_vars PROVE TypeOK'
  OBVIOUS
<1> USE DownloaderAssumption DEF TypeOK, Files, calls, files
<1>1. ASSUME NEW d \in Downloads, StartDownload(d), alive' \in BOOLEAN PROVE TypeOK'
  BY <1>1 DEF StartDownload
<1>2. ASSUME NEW d \in Downloads, LookUp(d), alive' \in BOOLEAN PROVE TypeOK'
  BY <1>2 DEF LookUp
<1>3. ASSUME NEW d \in Downloads, Spawn(d), alive' \in BOOLEAN PROVE TypeOK'
  BY <1>3 DEF Spawn
<1>4. ASSUME NEW d \in Downloads, Register(d), alive' \in BOOLEAN PROVE TypeOK'
  BY <1>4 DEF Register
<1>5. ASSUME NEW d \in Downloads, CancelDownload(d), alive' \in BOOLEAN PROVE TypeOK'
  BY <1>5 DEF CancelDownload
<1>6. ASSUME NEW d \in Downloads, MarkCancelled(d), alive' \in BOOLEAN PROVE TypeOK'
  BY <1>6 DEF MarkCancelled
<1>7. ASSUME DeleteModel, alive' \in BOOLEAN PROVE TypeOK'
  BY <1>7 DEF DeleteModel
<1>8. ASSUME NEW d \in Downloads, Clean(d), alive' \in BOOLEAN PROVE TypeOK'
  BY <1>8 DEF Clean, Goto
<1>9. ASSUME NEW d \in Downloads, EndEarly(d), alive' \in BOOLEAN PROVE TypeOK'
  BY <1>9 DEF EndEarly, Goto
<1>10. ASSUME NEW d \in Downloads, Open(d), alive' \in BOOLEAN PROVE TypeOK'
  BY <1>10 DEF Open, Goto
<1>11. ASSUME NEW d \in Downloads, OpenFails(d), alive' \in BOOLEAN PROVE TypeOK'
  BY <1>11 DEF OpenFails, Goto
<1>12. ASSUME NEW d \in Downloads, Receive(d), alive' \in BOOLEAN PROVE TypeOK'
  <2>1. at[d] + 1 \in Whole /\ at[d] + 1 \in 0..Size
    BY <1>12 DEF Receive, Whole
  <2> QED  BY <1>12, <2>1 DEF Receive
<1>13. ASSUME NEW d \in Downloads, PerformReturns(d), alive' \in BOOLEAN PROVE TypeOK'
  BY <1>13 DEF PerformReturns, Goto
<1>14. ASSUME NEW d \in Downloads, Discard(d), alive' \in BOOLEAN PROVE TypeOK'
  BY <1>14 DEF Discard, Goto
<1>15. ASSUME NEW d \in Downloads, Fail(d), alive' \in BOOLEAN PROVE TypeOK'
  BY <1>15 DEF Fail, Goto
<1>16. ASSUME NEW d \in Downloads, RemovePartial(d), alive' \in BOOLEAN PROVE TypeOK'
  BY <1>16 DEF RemovePartial, Goto
<1>17. ASSUME NEW d \in Downloads, Accept(d), alive' \in BOOLEAN PROVE TypeOK'
  BY <1>17 DEF Accept, Goto
<1>18. ASSUME NEW d \in Downloads, Rename(d), alive' \in BOOLEAN PROVE TypeOK'
  BY <1>18 DEF Rename, Goto
<1>19. ASSUME NEW d \in Downloads, Report(d), alive' \in BOOLEAN PROVE TypeOK'
  BY <1>19 DEF Report, Goto
<1>20. ASSUME NEW d \in Downloads, RemoveThrows(d) PROVE TypeOK'
  BY <1>20 DEF RemoveThrows
<1>21. CASE UNCHANGED vars
  BY <1>21 DEF vars
<1> QED
  BY <1>1, <1>2, <1>3, <1>4, <1>5, <1>6, <1>7, <1>8, <1>9, <1>10, <1>11, <1>12, <1>13,
     <1>14, <1>15, <1>16, <1>17, <1>18, <1>19, <1>20, <1>21 DEF Next, Call, EndCancel, Work

-----------------------------------------------------------------------------
(* The partial file.                                                        *)

(* A worker that will still remove or rename what is at <dest>.tmp.         *)
Holds(d) == worker[d] \in {"receiving", "deciding", "removing", "renaming"}

ClearInv ==
  /\ \A d \in Downloads :
       /\ caller[d] \in {"idle", "looking", "joined", "spawning"} => worker[d] = "none"
       /\ worker[d] = "none" => broke[d] = "no"
       /\ broke[d] = "rename" => worker[d] \in {"failed", "ended"}
  /\ tmp # NoFile => \E d \in Downloads : Holds(d) \/ broke[d] = "rename"

LEMMA ClearInit == Init => ClearInv
  BY DEF Init, ClearInv

LEMMA ClearStep == TypeOK /\ ClearInv /\ [Next]_vars => ClearInv'
<1> SUFFICES ASSUME TypeOK, ClearInv, [Next]_vars PROVE ClearInv'
  OBVIOUS
<1> USE DEF TypeOK, ClearInv, Holds, calls, files
<1>1. ASSUME NEW d \in Downloads, StartDownload(d) PROVE ClearInv'
  BY <1>1 DEF StartDownload
<1>2. ASSUME NEW d \in Downloads, LookUp(d) PROVE ClearInv'
  BY <1>2 DEF LookUp
<1>3. ASSUME NEW d \in Downloads, Spawn(d) PROVE ClearInv'
  BY <1>3 DEF Spawn
<1>4. ASSUME NEW d \in Downloads, Register(d) PROVE ClearInv'
  BY <1>4 DEF Register
<1>5. ASSUME NEW d \in Downloads, CancelDownload(d) PROVE ClearInv'
  BY <1>5 DEF CancelDownload
<1>6. ASSUME NEW d \in Downloads, MarkCancelled(d) PROVE ClearInv'
  BY <1>6 DEF MarkCancelled
<1>7. ASSUME DeleteModel PROVE ClearInv'
  BY <1>7 DEF DeleteModel
<1>8. ASSUME NEW d \in Downloads, Clean(d) PROVE ClearInv'
  BY <1>8 DEF Clean, Goto
<1>9. ASSUME NEW d \in Downloads, EndEarly(d) PROVE ClearInv'
  BY <1>9 DEF EndEarly, Goto
<1>10. ASSUME NEW d \in Downloads, Open(d) PROVE ClearInv'
  BY <1>10 DEF Open, Goto
<1>11. ASSUME NEW d \in Downloads, OpenFails(d) PROVE ClearInv'
  BY <1>11 DEF OpenFails, Goto
<1>12. ASSUME NEW d \in Downloads, Receive(d) PROVE ClearInv'
  BY <1>12 DEF Receive
<1>13. ASSUME NEW d \in Downloads, PerformReturns(d) PROVE ClearInv'
  BY <1>13 DEF PerformReturns, Goto
<1>14. ASSUME NEW d \in Downloads, Discard(d) PROVE ClearInv'
  BY <1>14 DEF Discard, Goto
<1>15. ASSUME NEW d \in Downloads, Fail(d) PROVE ClearInv'
  BY <1>15 DEF Fail, Goto
<1>16. ASSUME NEW d \in Downloads, RemovePartial(d) PROVE ClearInv'
  BY <1>16 DEF RemovePartial, Goto
<1>17. ASSUME NEW d \in Downloads, Accept(d) PROVE ClearInv'
  BY <1>17 DEF Accept, Goto
<1>18. ASSUME NEW d \in Downloads, Rename(d) PROVE ClearInv'
  BY <1>18 DEF Rename, Goto
<1>19. ASSUME NEW d \in Downloads, Report(d) PROVE ClearInv'
  BY <1>19 DEF Report, Goto
<1>20. ASSUME NEW d \in Downloads, RemoveThrows(d) PROVE ClearInv'
  BY <1>20 DEF RemoveThrows
<1>21. CASE UNCHANGED vars
  BY <1>21 DEF vars
<1> QED
  BY <1>1, <1>2, <1>3, <1>4, <1>5, <1>6, <1>7, <1>8, <1>9, <1>10, <1>11, <1>12, <1>13,
     <1>14, <1>15, <1>16, <1>17, <1>18, <1>19, <1>20, <1>21 DEF Next, Call, EndCancel, Work

(* However downloads overlap, break and are cancelled, the last worker to end *)
(* leaves nothing at <dest>.tmp unless the system refused a rename.          *)
THEOREM LeavesNothing == Spec => []NothingLeftBehind
<1>1. ClearInv => NothingLeftBehind
  BY DEF ClearInv, NothingLeftBehind, Running, Holds
<1> QED  BY <1>1, TypeInit, TypeStep, ClearInit, ClearStep, PTL DEF Spec

-----------------------------------------------------------------------------
(* The model at its destination.                                            *)

(* The file of a worker that has had <dest>.tmp to itself: what came, or what *)
(* came without its end once a flush has failed.                             *)
OwnFile(d) ==
  /\ fd[d] = d
  /\ tmp = d
  /\ broke[d] # "flush" => content[d] = 1..at[d]

(* The model at the destination, as far as its download could tell.          *)
DestKnown ==
  dest # NoFile =>
    /\ worker[dest] \in {"completed", "ended"}
    /\ broke[dest] # "flush" => content[dest] = Whole

(* What a worker that has been alone knows at each of its steps.            *)
Knows(d) ==
  /\ worker[d] \in {"none", "cleaning", "opening"} => at[d] = 0
  /\ worker[d] = "opening" => tmp = NoFile
  /\ worker[d] \in {"receiving", "deciding", "renaming"} => OwnFile(d)
  /\ worker[d] \in {"none", "cleaning", "opening", "receiving"} => broke[d] = "no"
  /\ worker[d] = "deciding" => broke[d] = "network" \/ at[d] = Size \/ cancel[d]
  /\ worker[d] = "renaming" => at[d] = Size
  /\ worker[d] = "failed" \/ status[d] = "failed" =>
       broke[d] \in {"disk", "network", "rename"}

(* While no two workers have been under way together.                       *)
Alone ==
  /\ \A d, e \in Downloads : Running(d) /\ Running(e) => d = e
  /\ DestKnown
  /\ \A d \in Downloads : Knows(d)

AloneInv == ~shared => Alone

LEMMA AloneInit == Init => AloneInv
  BY DEF Init, AloneInv, Alone, DestKnown, Knows, Running

(* That two workers have been under way together is never forgotten.        *)
LEMMA SharedStays == [Next]_vars /\ shared => shared'
<1> SUFFICES ASSUME [Next]_vars, shared PROVE shared'
  OBVIOUS
<1>1. ASSUME NEW d \in Downloads, Work(d) PROVE shared'
  BY <1>1 DEF Work, Clean, EndEarly, Open, OpenFails, Receive, PerformReturns, Discard, Fail,
              RemovePartial, Accept, Rename, Report
<1>2. ASSUME NEW d \in Downloads,
             StartDownload(d) \/ LookUp(d) \/ Spawn(d) \/ Register(d) \/ CancelDownload(d)
               \/ MarkCancelled(d)
      PROVE shared'
  BY <1>2 DEF StartDownload, LookUp, Spawn, Register, CancelDownload, MarkCancelled
<1>3. CASE DeleteModel
  BY <1>3 DEF DeleteModel
<1>4. ASSUME NEW d \in Downloads, RemoveThrows(d) PROVE shared'
  BY <1>4 DEF RemoveThrows
<1>5. CASE UNCHANGED vars
  BY <1>5 DEF vars
<1> QED
  BY <1>1, <1>2, <1>3, <1>4, <1>5 DEF Next, Call, EndCancel

LEMMA AloneStep == TypeOK /\ ClearInv /\ AloneInv /\ [Next]_vars => AloneInv'
<1> SUFFICES ASSUME TypeOK, ClearInv, AloneInv, [Next]_vars, ~shared' PROVE Alone'
  BY DEF AloneInv
<1>0. ~shared /\ Alone
  BY SharedStays DEF AloneInv
<1> USE <1>0, DownloaderAssumption DEF TypeOK, Files, Alone, DestKnown, Knows, OwnFile, Running, calls, files
<1>1. ASSUME NEW d \in Downloads, StartDownload(d) PROVE Alone'
  BY <1>1 DEF StartDownload
<1>2. ASSUME NEW d \in Downloads, LookUp(d) PROVE Alone'
  BY <1>2 DEF LookUp
<1>3. ASSUME NEW d \in Downloads, Spawn(d) PROVE Alone'
  <2>1. \A e \in Downloads : ~Running(e)
    BY <1>3 DEF Spawn
  <2>2. worker[d] = "none" /\ at[d] = 0 /\ dest # d
    BY <1>3 DEF Spawn, ClearInv
  <2>3. \A e \in Downloads : e # d => worker'[e] = worker[e] /\ status'[e] = status[e]
    BY <1>3 DEF Spawn
  <2>4. worker'[d] = "cleaning" /\ status'[d] = "downloading"
    BY <1>3 DEF Spawn
  <2>5. UNCHANGED <<cancel, fd, at, broke, files>>
    BY <1>3 DEF Spawn
  <2>6. \A e, f \in Downloads : Running(e)' /\ Running(f)' => e = f
    BY <2>1, <2>3, <2>4
  <2>7. DestKnown'
    BY <2>2, <2>3, <2>5
  <2> QED
    BY <2>1, <2>2, <2>3, <2>4, <2>5, <2>6, <2>7
<1>4. ASSUME NEW d \in Downloads, Register(d) PROVE Alone'
  BY <1>4 DEF Register
<1>5. ASSUME NEW d \in Downloads, CancelDownload(d) PROVE Alone'
  BY <1>5 DEF CancelDownload
<1>6. ASSUME NEW d \in Downloads, MarkCancelled(d) PROVE Alone'
  BY <1>6 DEF MarkCancelled
<1>7. ASSUME DeleteModel PROVE Alone'
  BY <1>7 DEF DeleteModel
<1>8. ASSUME NEW d \in Downloads, Clean(d) PROVE Alone'
  <2>1. worker[d] = "cleaning" /\ worker'[d] = "opening" /\ tmp' = NoFile
    BY <1>8 DEF Clean, Goto
  <2>2. \A e \in Downloads : e # d => worker'[e] = worker[e] /\ ~Running(e)
    <3>1. \A e \in Downloads : e # d => ~Running(e)
      BY <2>1
    <3>2. worker' = [worker EXCEPT ![d] = "opening"]
      BY <1>8 DEF Clean, Goto
    <3> QED
      BY <3>1, <3>2
  <2>3. UNCHANGED <<status, cancel, fd, at, broke, dest, content>>
    BY <1>8 DEF Clean
  <2>4. DestKnown'
    BY <2>1, <2>2, <2>3
  <2>5. \A e, f \in Downloads : Running(e)' /\ Running(f)' => e = f
    BY <2>1, <2>2
  <2>6. \A e \in Downloads : e # d => Knows(e)'
    BY <2>2, <2>3
  <2>7. Knows(d)'
    BY <2>1, <2>3
  <2> HIDE DEF Knows, Running
  <2> QED
    BY <2>4, <2>5, <2>6, <2>7
<1>9. ASSUME NEW d \in Downloads, EndEarly(d) PROVE Alone'
  BY <1>9 DEF EndEarly, Goto
<1>10. ASSUME NEW d \in Downloads, Open(d) PROVE Alone'
  <2>1. tmp = NoFile /\ at[d] = 0 /\ worker[d] = "opening"
    BY <1>10 DEF Open
  <2>2. tmp' = d /\ fd'[d] = d /\ content'[d] = {} /\ worker'[d] = "receiving"
    BY <1>10, <2>1 DEF Open, Goto
  <2>3. \A e \in Downloads : e # d => /\ worker'[e] = worker[e]
                                       /\ fd'[e] = fd[e]
                                       /\ content'[e] = content[e]
                                       /\ ~Running(e)
    <3>1. \A e \in Downloads : e # d => ~Running(e)
      BY <2>1
    <3>2. worker' = [worker EXCEPT ![d] = "receiving"] /\ fd' = [fd EXCEPT ![d] = d]
      BY <1>10, <2>1 DEF Open, Goto
    <3>3. content' = [content EXCEPT ![d] = {}]
      BY <1>10, <2>1 DEF Open
    <3> QED
      BY <3>1, <3>2, <3>3
  <2>4. UNCHANGED <<status, cancel, at, broke, dest>>
    BY <1>10 DEF Open
  <2>5. content'[d] = 1..at'[d]
    BY <2>1, <2>2, <2>4
  <2>6. \A e, f \in Downloads : Running(e)' /\ Running(f)' => e = f
    BY <2>3
  <2>7. DestKnown'
    BY <2>1, <2>3, <2>4
  <2>8. \A e \in Downloads : e # d => Knows(e)'
    BY <2>3, <2>4
  <2>9. Knows(d)'
    BY <2>1, <2>2, <2>4, <2>5
  <2> HIDE DEF Knows, Running
  <2> QED
    BY <2>6, <2>7, <2>8, <2>9
<1>11. ASSUME NEW d \in Downloads, OpenFails(d) PROVE Alone'
  BY <1>11 DEF OpenFails, Goto
<1>12. ASSUME NEW d \in Downloads, Receive(d) PROVE Alone'
  <2>1. worker[d] = "receiving" /\ fd[d] = d /\ tmp = d /\ content[d] = 1..at[d]
    BY <1>12 DEF Receive
  <2>2. at'[d] = at[d] + 1 /\ content'[d] = content[d] \cup {at[d] + 1}
    BY <1>12, <2>1 DEF Receive
  <2>3. at[d] \in Nat
    OBVIOUS
  <2>4. (1..at[d]) \cup {at[d] + 1} = 1..(at[d] + 1)
    BY <2>3
  <2>5. content'[d] = 1..at'[d]
    BY <2>1, <2>2, <2>4
  <2>6. \A e \in Downloads : e # d => at'[e] = at[e] /\ content'[e] = content[e] /\ ~Running(e)
    BY <1>12, <2>1 DEF Receive
  <2>7. UNCHANGED <<status, cancel, worker, fd, broke, tmp, dest>>
    BY <1>12 DEF Receive
  <2>8. DestKnown'
    BY <2>1, <2>6, <2>7
  <2>9. \A e \in Downloads : e # d => Knows(e)'
    BY <2>6, <2>7
  <2>10. Knows(d)'
    BY <2>1, <2>5, <2>7
  <2>11. \A e, f \in Downloads : Running(e)' /\ Running(f)' => e = f
    BY <2>7
  <2> HIDE DEF Knows, Running
  <2> QED
    BY <2>8, <2>9, <2>10, <2>11
<1>13. ASSUME NEW d \in Downloads, PerformReturns(d) PROVE Alone'
  BY <1>13 DEF PerformReturns, Goto
<1>14. ASSUME NEW d \in Downloads, Discard(d) PROVE Alone'
  BY <1>14 DEF Discard, Goto
<1>15. ASSUME NEW d \in Downloads, Fail(d) PROVE Alone'
  BY <1>15 DEF Fail, Goto
<1>16. ASSUME NEW d \in Downloads, RemovePartial(d) PROVE Alone'
  <2>1. worker[d] = "removing" /\ worker'[d] = "ended"
    BY <1>16 DEF RemovePartial, Goto
  <2>2. \A e \in Downloads : e # d => worker'[e] = worker[e] /\ ~Running(e)
    <3>1. \A e \in Downloads : e # d => ~Running(e)
      BY <2>1
    <3>2. worker' = [worker EXCEPT ![d] = "ended"]
      BY <1>16 DEF RemovePartial, Goto
    <3> QED
      BY <3>1, <3>2
  <2>3. UNCHANGED <<status, cancel, fd, at, broke, dest, content>>
    BY <1>16 DEF RemovePartial
  <2>4. DestKnown'
    BY <2>1, <2>2, <2>3
  <2>5. \A e, f \in Downloads : Running(e)' /\ Running(f)' => e = f
    BY <2>1, <2>2
  <2>6. \A e \in Downloads : e # d => Knows(e)'
    BY <2>2, <2>3
  <2>7. Knows(d)'
    BY <2>1, <2>3
  <2> HIDE DEF Knows, Running
  <2> QED
    BY <2>4, <2>5, <2>6, <2>7
<1>17. ASSUME NEW d \in Downloads, Accept(d) PROVE Alone'
  BY <1>17 DEF Accept, Goto
<1>18. ASSUME NEW d \in Downloads, Rename(d) PROVE Alone'
  <2>1. worker[d] = "renaming" /\ tmp = d /\ d # NoFile
        /\ (broke[d] # "flush" => content[d] = Whole)
    BY <1>18 DEF Rename, Whole
  <2>2. worker'[d] \in {"completed", "failed"}
    BY <1>18 DEF Rename, Goto
  <2>3. \A e \in Downloads : e # d => worker'[e] = worker[e] /\ broke'[e] = broke[e] /\ ~Running(e)
    BY <1>18 DEF Rename, Goto
  <2>4. UNCHANGED <<status, cancel, fd, at, content>>
    BY <1>18 DEF Rename
  <2>5. \A e, f \in Downloads : Running(e)' /\ Running(f)' => e = f
    BY <2>3
  <2>6. CASE worker'[d] = "completed"
    <3>1. dest' = d /\ broke' = broke
      BY <1>18, <2>1, <2>6 DEF Rename, Goto
    <3> QED
      BY <2>1, <2>3, <2>4, <2>5, <2>6, <3>1
  <2>7. CASE worker'[d] = "failed"
    <3>1. dest' = dest /\ broke'[d] = "rename"
      BY <1>18, <2>1, <2>7 DEF Rename, Goto
    <3>2. DestKnown'
      BY <2>1, <2>3, <2>4, <3>1
    <3> QED
      BY <2>1, <2>3, <2>4, <2>5, <2>7, <3>1, <3>2
  <2> QED
    BY <2>2, <2>6, <2>7
<1>19. ASSUME NEW d \in Downloads, Report(d) PROVE Alone'
  BY <1>19 DEF Report, Goto
<1>20. ASSUME NEW d \in Downloads, RemoveThrows(d) PROVE Alone'
  BY <1>20 DEF RemoveThrows
<1>21. CASE UNCHANGED vars
  BY <1>21 DEF vars
<1> QED
  BY <1>1, <1>2, <1>3, <1>4, <1>5, <1>6, <1>7, <1>8, <1>9, <1>10, <1>11, <1>12, <1>13,
     <1>14, <1>15, <1>16, <1>17, <1>18, <1>19, <1>20, <1>21 DEF Next, Call, EndCancel, Work

(* As long as no two workers have shared <dest>.tmp, a model at its          *)
(* destination is whole, unless the flush of that file failed in fclose, and *)
(* only the system makes a download fail.                                    *)
THEOREM DownloadIsSound == Spec => []DownloadSound
<1>1. TypeOK /\ AloneInv => DownloadSound
  BY DEF AloneInv, Alone, DestKnown, Knows, DownloadSound, DestIsWhole, FailedMeansBroke, TypeOK, Files
<1> QED
  BY <1>1, TypeInit, TypeStep, ClearInit, ClearStep, AloneInit, AloneStep, PTL DEF Spec

-----------------------------------------------------------------------------
(* Induction over the naturals, and concatenation.                           *)

(* A set of naturals has a least element.                                    *)
LEMMA Least ==
  ASSUME NEW T \in SUBSET Nat, T # {}
  PROVE  \E n \in T : \A m \in T : n <= m
<1>. DEFINE R == OpToRel(<, Nat)
<1>1. IsWellFoundedOn(R, Nat)
  BY NatLessThanWellFounded
<1>2. \A m, n \in Nat : m < n => <<m, n>> \in R
  BY DEF OpToRel
<1>. HIDE DEF R
<1>3. PICK n \in T : \A m \in T : <<m, n>> \notin R
  BY <1>1, WFMin
<1>4. ASSUME NEW m \in T PROVE n <= m
  <2>1. m \in Nat /\ n \in Nat
    OBVIOUS
  <2>2. <<m, n>> \notin R
    BY <1>3
  <2>3. ~(m < n)
    BY <1>2, <2>1, <2>2
  <2>. QED BY <2>1, <2>3
<1>. QED BY <1>4

(* Induction from 1 to n, over a set.                                          *)
LEMMA UpTo ==
  ASSUME NEW n \in Nat, NEW G, 1 \in G, \A m \in 1..n : m \in G /\ m + 1 \in 1..n => m + 1 \in G
  PROVE  \A m \in 1..n : m \in G
<1>. DEFINE bad == (1..n) \ G
<1>. SUFFICES ASSUME bad # {} PROVE FALSE
  OBVIOUS
<1>0. bad \in SUBSET Nat
  OBVIOUS
<1>1. PICK m \in bad : \A l \in bad : m <= l
  <2>. HIDE DEF bad
  <2>. QED BY <1>0, Least
<1>2. m \in Nat /\ m \in 1..n /\ m \notin G /\ m # 1
  OBVIOUS
<1>3. m - 1 \in 1..n /\ ~(m <= m - 1) /\ (m - 1) + 1 = m
  BY <1>2
<1>4. m - 1 \in G
  BY <1>1, <1>3
<1>. QED BY <1>2, <1>3, <1>4

(* The recursion of FlattenSeq has a solution, whatever it concatenates.       *)
Solves(f, s, m) == \A i \in 1..m : f[i] = IF i = 1 THEN s[i] ELSE f[i-1] \o s[i]

LEMMA FlattenExists ==
  ASSUME NEW X, NEW n \in Nat \ {0}, NEW s \in [1..n -> Seq(X)]
  PROVE  \E f \in [1..n -> Seq(X)] : Solves(f, s, n)
<1>. DEFINE G == {m \in 1..n : \E f \in [1..m -> Seq(X)] : Solves(f, s, m)}
<1>1. 1 \in G
  <2>1. [i \in 1..1 |-> s[1]] \in [1..1 -> Seq(X)] /\ Solves([i \in 1..1 |-> s[1]], s, 1)
    BY DEF Solves
  <2>. QED BY <2>1
<1>2. ASSUME NEW m \in 1..n, m \in G, m + 1 \in 1..n PROVE m + 1 \in G
  <2>1. PICK g \in [1..m -> Seq(X)] : Solves(g, s, m)
    BY <1>2
  <2>. DEFINE f == [i \in 1..m+1 |-> IF i = m + 1 THEN g[m] \o s[m+1] ELSE g[i]]
  <2>2. m \in 1..m /\ g[m] \o s[m+1] \in Seq(X)
    BY <1>2
  <2>3. \A i \in 1..m+1 : i # m + 1 => i \in 1..m
    OBVIOUS
  <2>4. f \in [1..m+1 -> Seq(X)]
    BY <2>2, <2>3
  <2>5. ASSUME NEW i \in 1..m+1 PROVE f[i] = IF i = 1 THEN s[i] ELSE f[i-1] \o s[i]
    <3>1. CASE i = m + 1
      <4>1. i # 1 /\ i - 1 = m /\ m \in 1..m+1 /\ m # m + 1
        BY <3>1
      <4>2. f[i] = g[m] \o s[m+1] /\ f[m] = g[m]
        BY <3>1, <4>1
      <4>. QED BY <3>1, <4>1, <4>2
    <3>2. CASE i # m + 1
      <4>1. i \in 1..m /\ (i # 1 => i - 1 \in 1..m /\ i - 1 # m + 1 /\ i - 1 \in 1..m+1)
        BY <3>2
      <4>2. f[i] = g[i] /\ (i # 1 => f[i-1] = g[i-1])
        BY <4>1
      <4>. QED BY <2>1, <4>1, <4>2 DEF Solves
    <3>. QED BY <3>1, <3>2
  <2>6. Solves(f, s, m+1)
    BY <2>5 DEF Solves
  <2>. QED BY <1>2, <2>4, <2>6
<1>. HIDE DEF G
<1>3. n \in G
  <2>1. n \in Nat /\ n \in 1..n
    OBVIOUS
  <2>2. \A m \in 1..n : m \in G
    BY <1>1, <1>2, <2>1, UpTo
  <2>. QED BY <2>1, <2>2
<1>. QED BY <1>3 DEF G

LEMMA FlattenFunction ==
  ASSUME NEW X, NEW n \in Nat \ {0}, NEW s \in [1..n -> Seq(X)], Len(s) = n
  PROVE  \E f \in [1..n -> Seq(X)] : Solves(f, s, n) /\ FlattenSeq(s) = f[n]
<1>1. PICK g \in [1..n -> Seq(X)] : Solves(g, s, n)
  BY FlattenExists
<1>. DEFINE F(h) == h = [i \in 1..n |-> IF i = 1 THEN s[i] ELSE h[i-1] \o s[i]]
            f == CHOOSE h : F(h)
<1>2. F(g)
  BY <1>1 DEF Solves
<1>3. F(f)
  BY <1>2
<1>4. FlattenSeq(s) = f[n]
  BY DEF FlattenSeq
<1>. HIDE DEF f
<1>5. Solves(f, s, n)
  BY <1>3 DEF Solves
<1>6. f \in [1..n -> Seq(X)]
  <2>. DEFINE G == {m \in 1..n : f[m] = g[m]}
  <2>1. 1 \in G
    BY <1>1, <1>5 DEF Solves
  <2>2. ASSUME NEW m \in 1..n, m \in G, m + 1 \in 1..n PROVE m + 1 \in G
    <3>1. m + 1 # 1 /\ (m + 1) - 1 = m
      OBVIOUS
    <3>2. f[m+1] = f[m] \o s[m+1] /\ g[m+1] = g[m] \o s[m+1]
      BY <1>1, <1>5, <2>2, <3>1 DEF Solves
    <3>. QED BY <2>2, <3>2
  <2>3. \A m \in 1..n : m \in G
    <3>. HIDE DEF G
    <3>. QED BY <2>1, <2>2, UpTo
  <2>4. \A m \in 1..n : f[m] = g[m]
    BY <2>3
  <2>. QED BY <1>3, <2>4
<1>. QED BY <1>4, <1>5, <1>6

LEMMA FunctionIsSeq ==
  ASSUME NEW S, NEW n \in Nat, NEW f \in [1 .. n -> S]
  PROVE  f \in Seq(S) /\ Len(f) = n
<1>1. f \in Seq(S)
  BY SeqDef
<1>2. Len(f) \in Nat /\ DOMAIN f = 1 .. Len(f) /\ DOMAIN f = 1 .. n
  BY <1>1, LenProperties
<1>3. Len(f) = n
  BY <1>2
<1>. QED BY <1>1, <1>3

LEMMA InBounds ==
  ASSUME NEW a \in Nat, NEW b \in Nat, NEW c \in Nat, a + b <= c
  PROVE  \A j \in 1..b : a + j \in 1..c
OBVIOUS

(* What a concatenation holds, and where.                                      *)
Placed(w, s, off, m) ==
  /\ \A i \in 1..m :
       /\ off[i] + Len(s[i]) <= Len(w)
       /\ \A j \in 1..Len(s[i]) : w[off[i] + j] = s[i][j]
  /\ \A k \in 1..Len(w) : \E i \in 1..m : k - off[i] \in 1..Len(s[i])

LEMMA FlattenPlaces ==
  ASSUME NEW X, NEW n \in Nat \ {0}, NEW s \in [1..n -> Seq(X)], Len(s) = n
  PROVE  /\ FlattenSeq(s) \in Seq(X)
         /\ \E off \in [1..n -> Nat] : Placed(FlattenSeq(s), s, off, n)
<1>1. PICK f \in [1..n -> Seq(X)] : Solves(f, s, n) /\ FlattenSeq(s) = f[n]
  BY FlattenFunction
<1>. DEFINE off == [i \in 1..n |-> Len(f[i]) - Len(s[i])]
            G == {m \in 1..n : Placed(f[m], s, off, m)}
<1>2. ASSUME NEW i \in 1..n
      PROVE  /\ f[i] \in Seq(X) /\ s[i] \in Seq(X) /\ Len(f[i]) \in Nat /\ Len(s[i]) \in Nat
             /\ f[i] = IF i = 1 THEN s[i] ELSE f[i-1] \o s[i]
  BY <1>1 DEF Solves
<1>3. ASSUME NEW m \in 1..n, m + 1 \in 1..n
      PROVE  /\ Len(f[m+1]) = Len(f[m]) + Len(s[m+1])
             /\ \A k \in 1..Len(f[m]) : f[m+1][k] = f[m][k]
             /\ \A j \in 1..Len(s[m+1]) : f[m+1][Len(f[m]) + j] = s[m+1][j]
  <2>1. m + 1 # 1 /\ (m + 1) - 1 = m
    OBVIOUS
  <2>2. f[m+1] = f[m] \o s[m+1]
    BY <1>2, <1>3, <2>1
  <2>3. f[m] \in Seq(X) /\ s[m+1] \in Seq(X)
    BY <1>2, <1>3
  <2>. QED BY <2>2, <2>3
<1>4. off \in [1..n -> Nat]
  <2>1. ASSUME NEW i \in 1..n PROVE Len(f[i]) - Len(s[i]) \in Nat
    <3>1. CASE i = 1
      BY <1>2, <3>1
    <3>2. CASE i # 1
      <4>1. i - 1 \in 1..n /\ (i - 1) + 1 = i
        BY <3>2
      <4>2. Len(f[i]) = Len(f[i-1]) + Len(s[i]) /\ Len(f[i-1]) \in Nat /\ Len(s[i]) \in Nat
        BY <1>2, <1>3, <4>1
      <4>. QED BY <4>2
    <3>. QED BY <3>1, <3>2
  <2>. QED BY <2>1
<1>5. 1 \in G
  <2>1. 1 \in 1..n /\ f[1] = s[1] /\ Len(s[1]) \in Nat
    BY <1>2
  <2>2. off[1] = 0
    BY <2>1
  <2>. HIDE DEF off
  <2>3. Placed(f[1], s, off, 1)
    <3>1. \A i \in 1..1 : i = 1
      OBVIOUS
    <3>2. \A j \in 1..Len(s[1]) : 0 + j = j /\ j - 0 = j
      OBVIOUS
    <3>3. 0 + Len(s[1]) <= Len(s[1])
      BY <2>1
    <3>. QED BY <2>1, <2>2, <3>1, <3>2, <3>3 DEF Placed
  <2>. QED BY <2>1, <2>3
<1>6. ASSUME NEW m \in 1..n, m \in G, m + 1 \in 1..n PROVE m + 1 \in G
  <2>1. Placed(f[m], s, off, m)
    BY <1>6
  <2>2. /\ Len(f[m]) \in Nat /\ Len(s[m+1]) \in Nat /\ Len(f[m+1]) \in Nat
        /\ Len(f[m+1]) = Len(f[m]) + Len(s[m+1])
        /\ \A k \in 1..Len(f[m]) : f[m+1][k] = f[m][k]
        /\ \A j \in 1..Len(s[m+1]) : f[m+1][Len(f[m]) + j] = s[m+1][j]
    BY <1>2, <1>3, <1>6
  <2>3. off[m+1] = Len(f[m])
    BY <1>6, <2>2
  <2>. HIDE DEF off, G
  <2>7. Len(f[m]) <= Len(f[m+1])
    BY <2>2
  <2>4. ASSUME NEW i \in 1..m+1
        PROVE  /\ off[i] + Len(s[i]) <= Len(f[m+1])
               /\ \A j \in 1..Len(s[i]) : f[m+1][off[i] + j] = s[i][j]
    <3>1. CASE i = m + 1
      <4>1. Len(f[m]) + Len(s[m+1]) <= Len(f[m+1])
        BY <2>2
      <4>. QED BY <2>2, <2>3, <3>1, <4>1
    <3>2. CASE i # m + 1
      <4>1. i \in 1..m /\ i \in 1..n
        BY <3>2
      <4>2. off[i] \in Nat /\ Len(s[i]) \in Nat
        BY <1>2, <1>4, <4>1
      <4>3. off[i] + Len(s[i]) <= Len(f[m])
        BY <2>1, <4>1 DEF Placed
      <4>4. ASSUME NEW j \in 1..Len(s[i]) PROVE f[m+1][off[i] + j] = s[i][j]
        <5>0. Len(f[m]) \in Nat
          BY <2>2
        <5>1. off[i] + j \in 1..Len(f[m])
          BY <4>2, <4>3, <5>0, InBounds
        <5>2. f[m][off[i] + j] = s[i][j]
          BY <2>1, <4>1 DEF Placed
        <5>. QED BY <2>2, <5>1, <5>2
      <4>5. off[i] + Len(s[i]) <= Len(f[m+1])
        <5>1. Len(f[m]) \in Nat /\ Len(f[m+1]) \in Nat
          BY <2>2
        <5>. QED BY <2>7, <4>2, <4>3, <5>1
      <4>. QED BY <4>4, <4>5
    <3>. QED BY <3>1, <3>2
  <2>5. ASSUME NEW k \in 1..Len(f[m+1]) PROVE \E i \in 1..m+1 : k - off[i] \in 1..Len(s[i])
    <3>1. CASE k <= Len(f[m])
      <4>1. k \in 1..Len(f[m])
        BY <2>2, <3>1
      <4>2. PICK i \in 1..m : k - off[i] \in 1..Len(s[i])
        BY <2>1, <4>1 DEF Placed
      <4>3. i \in 1..m+1
        OBVIOUS
      <4>. QED BY <4>2, <4>3
    <3>2. CASE ~(k <= Len(f[m]))
      <4>1. k - off[m+1] \in 1..Len(s[m+1])
        BY <2>2, <2>3, <3>2
      <4>. QED BY <4>1
    <3>. QED BY <3>1, <3>2
  <2>6. Placed(f[m+1], s, off, m+1)
    BY <2>4, <2>5 DEF Placed
  <2>. QED BY <1>6, <2>6 DEF G
<1>7. Placed(f[n], s, off, n)
  <2>. HIDE DEF G, off
  <2>1. n \in Nat /\ n \in 1..n
    OBVIOUS
  <2>2. \A m \in 1..n : m \in G
    BY <1>5, <1>6, <2>1, UpTo
  <2>. QED BY <2>1, <2>2 DEF G
<1>8. f[n] \in Seq(X)
  BY <1>2
<1>. HIDE DEF off
<1>. QED BY <1>1, <1>4, <1>7, <1>8

-----------------------------------------------------------------------------
(* Transfers.                                                                  *)

Length(i) == Len(Roots[i].files)

\* The files of a root follow each other in the plan; what is before them.
InPlan(w, i, n) ==
  \A j \in 1..Length(i) :
    /\ n + j \in 1..Len(w) /\ w[n + j].root = i
    /\ w[n + j].source = Source(i, Roots[i].files[j])

BeforeIn(w, i) == CHOOSE n \in 0..Len(w) : InPlan(w, i, n)

Before(i) == BeforeIn(plan, i)

Index(k) == k - Before(plan[k].root)

(* What the plan is, from the moment it is made.                               *)
PlanInv ==
  /\ \A i \in planned : Before(i) \in 0..Len(plan) /\ InPlan(plan, i, Before(i))
  /\ \A k \in 1..Len(plan) :
       LET i == plan[k].root
       IN  /\ i \in planned /\ Index(k) \in 1..Length(i)
           /\ plan[k].target \in
                {Path(Dest, Roots[i].name, n, Roots[i].files[Index(k)]) : n \in 0..Copies}
           /\ IF conflict = "replace" THEN plan[k].target.copy = 0 ELSE plan[k].target \notin before
  /\ phase = "planning" =>
       /\ plan = <<>> /\ pos = 1 /\ planned = {} /\ succeeded = [i \in RootIds |-> 0]
       /\ cut = {} /\ ~stopAsked /\ report = "none"
       /\ before \subseteq Sources \cup Old
       /\ fs = [p \in Paths |-> IF p \in before THEN p ELSE Nothing]

(* Where what lies in a source came from.                                      *)
BeforeInv ==
  /\ Sources \subseteq before
  /\ \A c \in before, i \in RootIds :
       c \in Within(i) => c.file = Added \/ \E f \in FilesOf(i) : c = Source(i, f)

(* Where the thread is in its plan.                                            *)
PhaseInv ==
  /\ phase \in {"renaming", "opening", "filling", "filled"} => pos <= Len(plan)
  /\ phase \in {"renaming", "removing"} => operation = "move"
  /\ phase = "removing" => pos > Len(plan)
  /\ phase = "reporting" => stopAsked \/ pos > Len(plan)
  /\ report = "complete" => phase = "done" /\ pos > Len(plan)
  /\ errors < pos

\* A source that is its own target: it is replaced by nothing.
Self(k) == plan[k].target = plan[k].source

Arrived(k) == fs[plan[k].target] = plan[k].source \/ plan[k].source \in cut

Single(k) == ~Twin(plan[k].root)

AtItem == {"taking", "renaming", "opening", "filling", "filled"}

(* A source the thread has not finished is where it was, unless it is its own  *)
(* target; and that one is never opened.                                       *)
SourceInv ==
  \A k \in 1..Len(plan) :
    /\ ~Self(k) /\ (k > pos \/ (k = pos /\ phase \in AtItem)) => fs[plan[k].source] = plan[k].source
    /\ Self(k) /\ k = pos =>
         /\ phase \notin {"filling", "filled"}
         /\ phase \in {"renaming", "opening"} => fs[plan[k].target] = Nothing
    /\ k = pos /\ phase = "filled" => Arrived(k)

(* What is neither replaced nor in a directory that is moved stays.            *)
StayInv ==
  \A c \in before :
    c \notin Replaced /\ (operation = "copy" \/ \A i \in planned : c \notin Within(i)) => fs[c] = c

(* A source whose target is no other's is there or has arrived.                *)
KeptInv ==
  \A k \in 1..Len(plan) :
    Single(k) /\ ~Self(k) => Arrived(k) \/ fs[plan[k].source] = plan[k].source

(* What is half written is being written, or was taken for the whole.          *)
PartialInv ==
  phase # "dead" =>
    \A k \in 1..Len(plan) :
      Single(k) /\ fs[plan[k].target] = Partial =>
        plan[k].source \in cut \/ (k = pos /\ phase = "filling")

\* The files of a root that come before an item of the plan, and those done with.
DoneAt(i, k) ==
  IF k <= Before(i) THEN 0
  ELSE IF k > Before(i) + Length(i) THEN Length(i) ELSE k - 1 - Before(i)

Done(i) == DoneAt(i, pos)

(* A root cannot have had more successes than turns, and when it has as many,  *)
(* all of them have arrived.                                                   *)
CountInv ==
  \A i \in planned :
    ~Twin(i) =>
      /\ succeeded[i] <= Done(i)
      /\ succeeded[i] = Done(i) =>
           \A j \in 1..Done(i) : ~Self(Before(i) + j) /\ Arrived(Before(i) + j)

(* Without an error and without a cancellation every item so far has arrived.  *)
ErrorInv ==
  errors = 0 /\ phase # "dead" /\ (~stopAsked \/ report = "complete") =>
    \A k \in 1..Len(plan) : k < pos /\ Single(k) => ~Self(k) /\ Arrived(k)

TransferInv ==
  /\ TransferTypes /\ PlanInv /\ BeforeInv /\ PhaseInv /\ SourceInv /\ StayInv /\ KeptInv
  /\ PartialInv /\ CountInv /\ ErrorInv

-----------------------------------------------------------------------------
(* Where the items of the plan lie.                                            *)

LEMMA RootFacts ==
  ASSUME NEW i \in RootIds
  PROVE  /\ Length(i) \in Nat /\ DOMAIN Roots[i].files = 1..Length(i)
         /\ Added \notin FilesOf(i)
         /\ \A j \in 1..Length(i) : Roots[i].files[j] \in FilesOf(i)
         /\ \A j, k \in 1..Length(i) : Roots[i].files[j] = Roots[i].files[k] => j = k
         /\ \A f \in FilesOf(i) : \E j \in 1..Length(i) : f = Roots[i].files[j]
         /\ \A j \in RootIds :
              Roots[i].dir = Roots[j].dir /\ Roots[i].name = Roots[j].name => i = j
         /\ i \in Nat
<1>1. Len(Roots[i].files) \in Nat /\ DOMAIN Roots[i].files = 1..Len(Roots[i].files)
  BY TransferAssumption
<1>2. IsInjective(Roots[i].files) /\ Added \notin FilesOf(i)
  BY TransferAssumption
<1>3. \A j \in RootIds : Roots[i].dir = Roots[j].dir /\ Roots[i].name = Roots[j].name => i = j
  BY TransferAssumption
<1>4. FilesOf(i) = {Roots[i].files[j] : j \in 1..Len(Roots[i].files)}
  BY <1>1 DEF FilesOf, ToSet
<1>5. i \in Nat
  BY TransferAssumption
<1>6. \A j, k \in 1..Len(Roots[i].files) : Roots[i].files[j] = Roots[i].files[k] => j = k
  BY <1>1, <1>2 DEF IsInjective
<1>. QED BY <1>1, <1>2, <1>3, <1>4, <1>5, <1>6 DEF Length

LEMMA PathParts ==
  ASSUME NEW d, NEW n, NEW c, NEW f
  PROVE  /\ Path(d, n, c, f).dir = d /\ Path(d, n, c, f).name = n
         /\ Path(d, n, c, f).copy = c /\ Path(d, n, c, f).file = f
BY DEF Path

LEMMA SourcePaths ==
  ASSUME NEW i \in RootIds
  PROVE  /\ \A f \in FilesOf(i) : Source(i, f) \in Sources
         /\ \A f \in FilesOf(i) \cup {Added} :
              /\ Source(i, f) \in Paths /\ Source(i, f) \in Within(i)
              /\ \A n \in 0..Copies : Path(Dest, Roots[i].name, n, f) \in Paths
<1>1. \A f \in FilesOf(i) : Source(i, f) \in Sources
  BY DEF Sources
<1>2. ASSUME NEW f \in FilesOf(i) \cup {Added}
      PROVE  Source(i, f) \in Paths /\ \A n \in 0..Copies : Path(Dest, Roots[i].name, n, f) \in Paths
  BY <1>2 DEF Paths
<1>3. ASSUME NEW f \in FilesOf(i) \cup {Added} PROVE Source(i, f) \in Within(i)
  BY <1>2, PathParts DEF Within, Source
<1>. QED BY <1>1, <1>2, <1>3

LEMMA PathsAreContents ==
  ASSUME NEW p \in Paths
  PROVE  p # Nothing /\ p # Partial
BY TransferAssumption

LEMMA PlanIsSequence ==
  ASSUME TransferTypes
  PROVE  /\ Len(plan) \in Nat /\ DOMAIN plan = 1..Len(plan)
         /\ \A k \in 1..Len(plan) :
              /\ plan[k].source \in Sources /\ plan[k].target \in Paths /\ plan[k].root \in RootIds
<1>. DEFINE X == [source : Sources, target : Paths, root : RootIds]
<1>1. plan \in Seq(X)
  BY DEF TransferTypes
<1>2. \A x \in X : x.source \in Sources /\ x.target \in Paths /\ x.root \in RootIds
  OBVIOUS
<1>. HIDE DEF X
<1>. QED BY <1>1, <1>2, LenProperties, ElementOfSeq

LEMMA Item ==
  ASSUME TransferTypes, PlanInv, NEW k \in 1..Len(plan)
  PROVE  LET i == plan[k].root
             f == Roots[i].files[Index(k)]
         IN  /\ i \in RootIds /\ i \in planned /\ Before(i) \in 0..Len(plan) /\ InPlan(plan, i, Before(i))
             /\ Index(k) \in 1..Length(i) /\ Before(i) + Index(k) = k
             /\ f \in FilesOf(i) /\ f # Added
             /\ plan[k].source = Source(i, f)
             /\ \E n \in 0..Copies : plan[k].target = Path(Dest, Roots[i].name, n, f)
             /\ conflict = "replace" => plan[k].target = Path(Dest, Roots[i].name, 0, f)
             /\ conflict # "replace" => plan[k].target \notin before
<1>. DEFINE i == plan[k].root
            f == Roots[i].files[Index(k)]
<1>1. i \in RootIds
  BY PlanIsSequence
<1>2. i \in planned /\ Index(k) \in 1..Length(i)
  BY DEF PlanInv
<1>3. Before(i) \in 0..Len(plan) /\ InPlan(plan, i, Before(i))
  BY <1>2 DEF PlanInv
<1>4. Before(i) + Index(k) = k
  <2>1. Index(k) = k - Before(i) /\ k \in Int /\ Before(i) \in Int
    BY <1>3 DEF Index
  <2>. QED BY <2>1
<1>5. f \in FilesOf(i) /\ f # Added
  BY <1>1, <1>2, RootFacts
<1>6. plan[k].source = Source(i, f)
  BY <1>2, <1>3, <1>4 DEF InPlan
<1>7. PICK n \in 0..Copies : plan[k].target = Path(Dest, Roots[i].name, n, f)
  BY DEF PlanInv
<1>8. conflict = "replace" => plan[k].target = Path(Dest, Roots[i].name, 0, f)
  BY <1>7, PathParts DEF PlanInv
<1>9. conflict # "replace" => plan[k].target \notin before
  BY DEF PlanInv
<1>. QED BY <1>1, <1>2, <1>3, <1>4, <1>5, <1>6, <1>7, <1>8, <1>9

LEMMA ItemParts ==
  ASSUME TransferTypes, PlanInv, NEW k \in 1..Len(plan)
  PROVE  LET i == plan[k].root
             S == plan[k].source
             T == plan[k].target
         IN  /\ S.dir = Roots[i].dir /\ S.name = Roots[i].name /\ S.copy = 0
             /\ S.file = Roots[i].files[Index(k)] /\ S.file # Added
             /\ T.dir = Dest /\ T.name = S.name /\ T.file = S.file
             /\ conflict = "replace" => T = Path(Dest, S.name, 0, S.file)
             /\ S = Path(S.dir, S.name, 0, S.file)
             /\ S \in Paths /\ T \in Paths /\ S \in Sources
<1>. DEFINE i == plan[k].root
            f == Roots[i].files[Index(k)]
<1>1. i \in RootIds /\ f \in FilesOf(i) /\ f # Added /\ plan[k].source = Source(i, f)
  BY Item
<1>2. PICK n \in 0..Copies : plan[k].target = Path(Dest, Roots[i].name, n, f)
  BY Item
<1>3. conflict = "replace" => plan[k].target = Path(Dest, Roots[i].name, 0, f)
  BY Item
<1>4. plan[k].source \in Paths
  BY <1>1, SourcePaths
<1>5. plan[k].source \in Sources /\ plan[k].target \in Paths
  BY PlanIsSequence
<1>6. plan[k].source = Path(Roots[i].dir, Roots[i].name, 0, f)
  BY <1>1 DEF Source
<1>7. /\ plan[k].source.dir = Roots[i].dir /\ plan[k].source.name = Roots[i].name
      /\ plan[k].source.copy = 0 /\ plan[k].source.file = f
  BY <1>6, PathParts
<1>8. plan[k].target.dir = Dest /\ plan[k].target.name = Roots[i].name /\ plan[k].target.file = f
  BY <1>2, PathParts
<1>. HIDE DEF i, f
<1>9. plan[k].root = i /\ Roots[i].files[Index(k)] = f
  BY DEF i, f
<1>. QED BY <1>1, <1>3, <1>4, <1>5, <1>6, <1>7, <1>8, <1>9

\* The items of a root have its files, each once.
LEMMA SameItem ==
  ASSUME TransferTypes, PlanInv, NEW k \in 1..Len(plan), NEW l \in 1..Len(plan),
         plan[k].root = plan[l].root, plan[k].source.file = plan[l].source.file
  PROVE  k = l
<1>. DEFINE i == plan[k].root
<1>1. i \in RootIds /\ Index(k) \in 1..Length(i) /\ Index(l) \in 1..Length(i)
  BY Item
<1>2. Roots[i].files[Index(k)] = Roots[i].files[Index(l)]
  BY ItemParts
<1>3. Index(k) = Index(l)
  BY <1>1, <1>2, RootFacts
<1>. QED BY <1>3, Item

LEMMA SourcesDiffer ==
  ASSUME TransferTypes, PlanInv, NEW k \in 1..Len(plan), NEW l \in 1..Len(plan),
         plan[k].source = plan[l].source
  PROVE  k = l
<1>1. /\ plan[k].root \in RootIds /\ plan[l].root \in RootIds
      /\ Roots[plan[k].root].dir = Roots[plan[l].root].dir
      /\ Roots[plan[k].root].name = Roots[plan[l].root].name
  <2>1. plan[k].root \in RootIds /\ plan[l].root \in RootIds
    BY Item
  <2>2. /\ plan[k].source.dir = Roots[plan[k].root].dir
        /\ plan[k].source.name = Roots[plan[k].root].name
        /\ plan[l].source.dir = Roots[plan[l].root].dir
        /\ plan[l].source.name = Roots[plan[l].root].name
    BY ItemParts
  <2>. QED BY <2>1, <2>2
<1>2. plan[k].root = plan[l].root
  BY <1>1, RootFacts
<1>. QED BY <1>2, SameItem

LEMMA SourceWithin ==
  ASSUME TransferTypes, PlanInv, NEW k \in 1..Len(plan), NEW i \in RootIds
  PROVE  plan[k].source \in Within(i) <=> plan[k].root = i
<1>1. plan[k].root = i => plan[k].source \in Within(i)
  BY ItemParts DEF Within
<1>2. ASSUME plan[k].source \in Within(i) PROVE plan[k].root = i
  <2>1. /\ plan[k].root \in RootIds
        /\ Roots[plan[k].root].dir = Roots[i].dir /\ Roots[plan[k].root].name = Roots[i].name
    BY <1>2, Item, ItemParts DEF Within
  <2>. QED BY <2>1, RootFacts
<1>. QED BY <1>1, <1>2

LEMMA SelfReplaces ==
  ASSUME TransferTypes, PlanInv, BeforeInv, NEW k \in 1..Len(plan), NEW l \in 1..Len(plan),
         plan[l].target = plan[k].source
  PROVE  conflict = "replace" /\ Self(k)
<1>1. plan[k].source \in before
  BY ItemParts DEF BeforeInv
<1>2. conflict = "replace"
  BY <1>1, Item
<1>3. plan[l].target = Path(Dest, plan[l].source.name, 0, plan[l].source.file)
  BY <1>2, ItemParts
<1>4. plan[k].source.dir = Dest
  BY <1>3, PathParts
<1>5. plan[k].target = plan[k].source
  BY <1>2, <1>4, ItemParts
<1>. QED BY <1>2, <1>5 DEF Self

LEMMA SingleTarget ==
  ASSUME TransferTypes, PlanInv, NEW k \in 1..Len(plan), NEW l \in 1..Len(plan),
         Single(k), plan[k].target = plan[l].target
  PROVE  k = l
<1>1. Roots[plan[k].root].name = Roots[plan[l].root].name
  BY ItemParts
<1>2. plan[k].root = plan[l].root
  BY <1>1, Item DEF Single, Twin
<1>3. plan[k].source.file = plan[l].source.file
  BY ItemParts
<1>. QED BY <1>2, <1>3, SameItem

LEMMA AddedIsElsewhere ==
  ASSUME TransferTypes, PlanInv, NEW k \in 1..Len(plan), NEW i \in RootIds
  PROVE  plan[k].source # Source(i, Added) /\ plan[k].target # Source(i, Added)
<1>1. Source(i, Added).file = Added
  BY PathParts DEF Source
<1>. QED BY <1>1, ItemParts

LEMMA TargetWithin ==
  ASSUME TransferTypes, PlanInv, NEW k \in 1..Len(plan), NEW i \in RootIds,
         Single(k), plan[k].target \in Within(i)
  PROVE  Self(k)
<1>1. /\ plan[k].target.dir = Roots[i].dir /\ plan[k].target.name = Roots[i].name
      /\ plan[k].target.copy = 0
  BY DEF Within
<1>2. plan[k].root = i
  BY <1>1, ItemParts, Item DEF Single, Twin
<1>3. plan[k].source.dir = Dest
  BY <1>1, <1>2, ItemParts
<1>4. PICK n \in 0..Copies :
        plan[k].target = Path(Dest, Roots[plan[k].root].name, n, Roots[plan[k].root].files[Index(k)])
  BY Item
<1>5. n = 0
  BY <1>1, <1>4, PathParts
<1>6. plan[k].target = Path(Dest, plan[k].source.name, 0, plan[k].source.file)
  BY <1>4, <1>5, ItemParts
<1>. QED BY <1>3, <1>6, ItemParts DEF Self
-----------------------------------------------------------------------------
(* What a step of the thread, of the user or of another program changes.        *)

Ready == phase \in AtItem /\ pos \in 1..Len(plan)

\* The paths an action may change.
Touched(p) ==
  \/ Ready /\ p = plan[pos].target
  \/ Ready /\ operation = "move" /\ pos' = pos + 1 /\ ~Self(pos) /\ p = plan[pos].source
  \/ phase = "removing" /\ Emptied(root) /\ p \in Within(root)
  \/ \E i \in RootIds : AddFile(i) /\ p = Source(i, Added)

LEMMA ReadyIn ==
  ASSUME TransferTypes, PhaseInv, phase \in {"renaming", "opening", "filling", "filled"}
  PROVE  /\ Ready /\ pos + 1 \in 1..Len(plan) + 1 /\ ~(pos + 1 <= pos)
         /\ errors \in 0..Len(plan) /\ errors + 1 \in 0..Len(plan)
         /\ errors < pos + 1 /\ errors + 1 < pos + 1
<1>1. Len(plan) \in Nat
  BY PlanIsSequence
<1>2. pos \in 1..(Len(plan) + 1) /\ pos <= Len(plan) /\ errors \in 0..Len(plan) /\ errors < pos
  BY DEF TransferTypes, PhaseInv
<1>. QED BY <1>1, <1>2 DEF Ready, AtItem

LEMMA TakingIsReady ==
  ASSUME TransferTypes, TakeItem
  PROVE  Ready
<1>1. Len(plan) \in Nat
  BY PlanIsSequence
<1>2. pos \in 1..(Len(plan) + 1) /\ pos <= Len(plan) /\ phase = "taking"
  BY DEF TransferTypes, TakeItem
<1>. QED BY <1>1, <1>2 DEF Ready, AtItem

\* A source that is at hand is not its own target and holds its content.
LEMMA SourceAtHand ==
  ASSUME TransferInv,
         \/ phase = "renaming" /\ fs[plan[pos].source] # Nothing
         \/ phase = "opening" /\ fs[plan[pos].source] # Nothing
         \/ phase \in {"filling", "filled"}
  PROVE  /\ Ready /\ ~Self(pos) /\ fs[plan[pos].source] = plan[pos].source
         /\ plan[pos].target # plan[pos].source
         /\ plan[pos].source \in Paths /\ plan[pos].target \in Paths
         /\ plan[pos].root \in RootIds
<1>1. Ready
  BY ReadyIn DEF TransferInv
<1>2. ~Self(pos)
  BY <1>1 DEF TransferInv, SourceInv, Ready, Self
<1>3. fs[plan[pos].source] = plan[pos].source
  BY <1>1, <1>2 DEF TransferInv, SourceInv, Ready
<1>4. pos \in 1..Len(plan)
  BY <1>1 DEF Ready
<1>5. plan[pos].source \in Paths /\ plan[pos].target \in Paths /\ plan[pos].root \in RootIds
  BY <1>4, ItemParts, Item DEF TransferInv
<1>. QED BY <1>1, <1>2, <1>3, <1>5 DEF Self

LEMMA Untouched ==
  ASSUME TransferInv, TransferNext, phase # "planning"
  PROVE  /\ operation' = operation /\ conflict' = conflict /\ planned' = planned /\ plan' = plan
         /\ cut \subseteq cut' /\ before \subseteq before'
         /\ \A p \in Paths : Touched(p) \/ fs'[p] = fs[p]
<1>. USE DEF request, plans
<1>0. fs \in [Paths -> Paths \cup {Nothing, Partial}]
  BY DEF TransferInv, TransferTypes
<1>1. CASE Start
  BY <1>1 DEF Start
<1>2. CASE TakeItem
  <2>1. Ready
    BY <1>2, TakingIsReady DEF TransferInv
  <2>. QED BY <1>0, <1>2, <2>1 DEF TakeItem, item, Touched
<1>3. CASE RenameItem
  <2>1. Ready /\ ~Self(pos)
    BY <1>3, SourceAtHand DEF RenameItem, item
  <2>2. operation = "move"
    BY <1>3 DEF RenameItem, TransferInv, PhaseInv
  <2>. QED BY <1>0, <1>3, <2>1, <2>2 DEF RenameItem, item, Touched, NextItem
<1>4. CASE RenameFails
  BY <1>4 DEF RenameFails
<1>5. CASE OpenSource
  <2>1. Ready
    BY <1>5, SourceAtHand DEF OpenSource, item
  <2>. QED BY <1>0, <1>5, <2>1 DEF OpenSource, item, Touched
<1>6. CASE SourceFails
  BY <1>6 DEF SourceFails
<1>7. CASE Fill
  <2>1. Ready
    BY <1>7, SourceAtHand DEF Fill
  <2>. QED BY <1>0, <1>7, <2>1 DEF Fill, item, Touched
<1>8. CASE StopFill
  <2>1. Ready
    BY <1>8, SourceAtHand DEF StopFill
  <2>. QED BY <1>0, <1>8, <2>1 DEF StopFill, item, Touched
<1>9. CASE WriteFails
  <2>1. Ready
    BY <1>9, SourceAtHand DEF WriteFails
  <2>. QED BY <1>0, <1>9, <2>1 DEF WriteFails, item, Touched
<1>10. CASE FinishItem
  <2>1. Ready /\ ~Self(pos)
    BY <1>10, SourceAtHand DEF FinishItem
  <2>. QED BY <1>0, <1>10, <2>1 DEF FinishItem, item, Touched, NextItem
<1>11. CASE EndItems
  BY <1>11 DEF EndItems
<1>12. CASE RemoveRoot
  BY <1>0, <1>12 DEF RemoveRoot, Touched
<1>13. CASE ReportEnd
  BY <1>13 DEF ReportEnd
<1>14. CASE Cancel
  BY <1>14 DEF Cancel
<1>15. CASE Die
  BY <1>15 DEF Die
<1>16. ASSUME NEW i \in RootIds, AddFile(i)
       PROVE  /\ operation' = operation /\ conflict' = conflict /\ planned' = planned /\ plan' = plan
              /\ cut \subseteq cut' /\ before \subseteq before'
              /\ \A p \in Paths : Touched(p) \/ fs'[p] = fs[p]
  BY <1>0, <1>16 DEF AddFile, Touched
<1>. QED BY <1>1, <1>2, <1>3, <1>4, <1>5, <1>6, <1>7, <1>8, <1>9, <1>10, <1>11, <1>12, <1>13,
            <1>14, <1>15, <1>16 DEF TransferNext, Transfer

\* The plan stays, and with it all that is said of it.
LEMMA PlanStays ==
  ASSUME plan' = plan, conflict' = conflict, planned' = planned
  PROVE  /\ Replaced' = Replaced
         /\ \A i : Before(i)' = Before(i)
         /\ \A k : Index(k)' = Index(k) /\ Self(k)' = Self(k) /\ Single(k)' = Single(k)
BY DEF Replaced, Before, Index, Self, Single

\* The item has arrived after the step.
Arrives(k) == fs'[plan[k].target] = plan[k].source \/ plan[k].source \in cut'

\* What arrived of an item that is not the thread's stays there.
LEMMA ArrivedStays ==
  ASSUME TransferInv, TransferNext, phase # "planning", NEW k \in 1..Len(plan),
         Single(k), ~Self(k), Arrived(k), k # pos
  PROVE  Arrives(k)
<1>. DEFINE T == plan[k].target
<1>1. /\ plan' = plan /\ cut \subseteq cut'
      /\ \A p \in Paths : Touched(p) \/ fs'[p] = fs[p]
  BY Untouched
<1>2. T \in Paths
  BY ItemParts DEF TransferInv
<1>3. ASSUME Ready PROVE T # plan[pos].target /\ (~Self(pos) => T # plan[pos].source)
  BY <1>3, SingleTarget, SelfReplaces DEF TransferInv, Ready
<1>4. root \in RootIds
  BY DEF TransferInv, TransferTypes
<1>5. T \notin Within(root)
  BY <1>4, TargetWithin DEF TransferInv
<1>6. \A i \in RootIds : T # Source(i, Added)
  BY AddedIsElsewhere DEF TransferInv
<1>7. ~Touched(T)
  BY <1>3, <1>5, <1>6 DEF Touched
<1>8. fs'[T] = fs[T]
  BY <1>1, <1>2, <1>7
<1>. QED BY <1>1, <1>8 DEF Arrived, Arrives

\* A source that is not the thread's, and not in a directory it removes, stays there.
LEMMA SourceStays ==
  ASSUME TransferInv, TransferNext, phase # "planning", NEW k \in 1..Len(plan),
         ~Self(k), k # pos, phase = "removing" => plan[k].root # root \/ ~Emptied(root)
  PROVE  fs'[plan[k].source] = fs[plan[k].source]
<1>. DEFINE S == plan[k].source
<1>1. \A p \in Paths : Touched(p) \/ fs'[p] = fs[p]
  BY Untouched
<1>2. S \in Paths
  BY ItemParts DEF TransferInv
<1>3. ASSUME Ready PROVE S # plan[pos].target /\ S # plan[pos].source
  BY <1>3, SourcesDiffer, SelfReplaces DEF TransferInv, Ready
<1>4. root \in RootIds
  BY DEF TransferInv, TransferTypes
<1>5. phase = "removing" /\ Emptied(root) => S \notin Within(root)
  BY <1>4, SourceWithin DEF TransferInv
<1>6. \A i \in RootIds : S # Source(i, Added)
  BY AddedIsElsewhere DEF TransferInv
<1>7. ~Touched(S)
  BY <1>3, <1>5, <1>6 DEF Touched
<1>. QED BY <1>1, <1>2, <1>7
-----------------------------------------------------------------------------
(* The thread goes from item to item.                                          *)

Succeeds ==
  /\ succeeded' = [succeeded EXCEPT ![plan[pos].root] = @ + 1] /\ errors' = errors
  /\ \A k \in 1..Len(plan) : k = pos => ~Self(k) /\ Arrives(k)

GivesUp == succeeded' = succeeded /\ (errors' = errors + 1 \/ (errors' = errors /\ stopAsked))

Advances ==
  /\ Ready /\ pos' = pos + 1 /\ phase' = "taking" /\ stopAsked' = stopAsked
  /\ report # "complete" /\ report' # "complete"
  /\ Succeeds \/ GivesUp

LEMMA Turns ==
  ASSUME TransferInv, TransferNext, phase # "planning"
  PROVE  UNCHANGED <<pos, succeeded, errors>> \/ Advances
<1>0. fs \in [Paths -> Paths \cup {Nothing, Partial}] /\ plan' = plan
  BY Untouched DEF TransferInv, TransferTypes
<1>1. CASE RenameItem
  <2>1. /\ Ready /\ ~Self(pos) /\ fs[plan[pos].source] = plan[pos].source
        /\ plan[pos].target \in Paths
    BY <1>1, SourceAtHand DEF RenameItem, item
  <2>2. fs'[plan[pos].target] = plan[pos].source
    BY <1>0, <1>1, <2>1 DEF RenameItem, item
  <2>3. report # "complete"
    BY <1>1 DEF RenameItem, TransferInv, PhaseInv
  <2>. QED BY <1>0, <1>1, <2>1, <2>2, <2>3 DEF RenameItem, item, NextItem, Advances, Succeeds, Arrives
<1>2. CASE SourceFails
  BY <1>2, ReadyIn DEF SourceFails, NextItem, Advances, GivesUp, TransferInv, PhaseInv
<1>3. CASE StopFill
  BY <1>3, ReadyIn DEF StopFill, NextItem, Advances, GivesUp, TransferInv, PhaseInv
<1>4. CASE WriteFails
  BY <1>4, ReadyIn DEF WriteFails, NextItem, Advances, GivesUp, TransferInv, PhaseInv
<1>5. CASE FinishItem
  <2>1. /\ Ready /\ ~Self(pos) /\ plan[pos].target # plan[pos].source
        /\ plan[pos].target \in Paths
    BY <1>5, SourceAtHand DEF FinishItem
  <2>2. Arrived(pos)
    BY <1>5, <2>1 DEF FinishItem, TransferInv, SourceInv, Ready
  <2>3. fs'[plan[pos].target] = fs[plan[pos].target] /\ cut' = cut
    BY <1>0, <1>5, <2>1 DEF FinishItem, item
  <2>4. report # "complete" /\ report' = report
    BY <1>5 DEF FinishItem, TransferInv, PhaseInv
  <2>5. Succeeds
    BY <1>0, <1>5, <2>1, <2>2, <2>3 DEF FinishItem, item, Succeeds, Arrived, Arrives
  <2>. QED BY <1>5, <2>1, <2>4, <2>5 DEF FinishItem, NextItem, Advances
<1>6. CASE Start \/ TakeItem \/ RenameFails \/ OpenSource \/ Fill \/ EndItems \/ RemoveRoot
           \/ ReportEnd \/ Cancel \/ Die
  BY <1>6 DEF Start, TakeItem, RenameFails, OpenSource, Fill, EndItems, RemoveRoot, ReportEnd,
              Cancel, Die
<1>7. CASE \E i \in RootIds : AddFile(i)
  BY <1>7 DEF AddFile
<1>. QED BY <1>1, <1>2, <1>3, <1>4, <1>5, <1>6, <1>7 DEF TransferNext, Transfer

LEMMA DoneFacts ==
  ASSUME TransferTypes, PlanInv, NEW i \in planned, NEW k \in 1..(Len(plan) + 1)
  PROVE  /\ Length(i) \in Nat /\ Before(i) \in Nat /\ DoneAt(i, k) \in 0..Length(i)
         /\ \A j \in 1..Length(i) :
              /\ Before(i) + j \in 1..Len(plan) /\ plan[Before(i) + j].root = i
              /\ j \in 1..DoneAt(i, k) <=> Before(i) + j < k
         /\ k > Len(plan) => DoneAt(i, k) = Length(i)
<1>1. i \in RootIds /\ Len(plan) \in Nat
  BY PlanIsSequence DEF TransferTypes
<1>2. Length(i) \in Nat /\ Before(i) \in 0..Len(plan) /\ InPlan(plan, i, Before(i))
  BY <1>1, RootFacts DEF PlanInv
<1>. DEFINE n == Before(i)
            m == Length(i)
            w == Len(plan)
            d == DoneAt(i, k)
<1>3. \A j \in 1..m : n + j \in 1..w /\ plan[n + j].root = i
  BY <1>2 DEF InPlan
<1>4. d = IF k <= n THEN 0 ELSE IF k > n + m THEN m ELSE k - 1 - n
  BY DEF DoneAt
<1>5. m \in Nat /\ n \in Nat /\ w \in Nat /\ n <= w /\ k \in 1..(w + 1)
  BY <1>1, <1>2
<1>6. m # 0 => n + m \in 1..w
  <2>1. m # 0 => m \in 1..m
    BY <1>5
  <2>. QED BY <1>3, <2>1
<1>. HIDE DEF n, m, w, d
<1>7. d \in 0..m /\ \A j \in 1..m : j \in 1..d <=> n + j < k
  BY <1>4, <1>5
<1>8. k > w => d = m
  BY <1>4, <1>5, <1>6
<1>. QED BY <1>3, <1>5, <1>7, <1>8 DEF n, m, w, d

LEMMA DoneSteps ==
  ASSUME TransferTypes, PlanInv, NEW i \in planned, NEW k \in 1..Len(plan)
  PROVE  /\ plan[k].root = i => DoneAt(i, k + 1) = DoneAt(i, k) + 1 /\ Before(i) + DoneAt(i, k + 1) = k
         /\ plan[k].root # i => DoneAt(i, k + 1) = DoneAt(i, k)
<1>. DEFINE n == Before(i)
            m == Length(i)
            w == Len(plan)
<1>1. w \in Nat /\ k \in 1..(w + 1)
  BY PlanIsSequence
<1>2. m \in Nat /\ n \in Nat /\ \A j \in 1..m : n + j \in 1..w /\ plan[n + j].root = i
  BY <1>1, DoneFacts
<1>3. plan[k].root = i => Index(k) \in 1..m /\ n + Index(k) = k
  BY Item
<1>4. /\ DoneAt(i, k) = IF k <= n THEN 0 ELSE IF k > n + m THEN m ELSE k - 1 - n
      /\ DoneAt(i, k + 1) = IF k + 1 <= n THEN 0 ELSE IF k + 1 > n + m THEN m ELSE (k + 1) - 1 - n
  BY DEF DoneAt
<1>5. plan[k].root # i => k - n \notin 1..m
  <2>1. k - n \in 1..m => plan[n + (k - n)].root = i
    BY <1>2
  <2>2. n + (k - n) = k
    BY <1>2
  <2>. QED BY <2>1, <2>2
<1>. HIDE DEF n, m, w
<1>6. CASE plan[k].root = i
  <2>1. PICK j \in 1..m : n + j = k
    BY <1>3, <1>6
  <2>2. DoneAt(i, k + 1) = DoneAt(i, k) + 1 /\ n + DoneAt(i, k + 1) = k
    BY <1>1, <1>2, <1>4, <2>1
  <2>. QED BY <1>6, <2>2 DEF n
<1>7. CASE plan[k].root # i
  BY <1>1, <1>2, <1>4, <1>5, <1>7
<1>. QED BY <1>6, <1>7

-----------------------------------------------------------------------------
(* Every part of the invariant stays while the thread is at work.               *)

LEMMA TypesStay ==
  ASSUME TransferInv, TransferNext, phase # "planning"
  PROVE  TransferTypes'
<1>1. /\ operation' = operation /\ conflict' = conflict /\ planned' = planned /\ plan' = plan
  BY Untouched
<1>. DEFINE V == Paths \cup {Nothing, Partial}
<1>2. TransferTypes
  BY DEF TransferInv
<1>3. /\ fs' \in [Paths -> V] /\ before' \subseteq Paths /\ cut' \subseteq Paths
  <2>0. fs \in [Paths -> V] /\ before \subseteq Paths /\ cut \subseteq Paths
    BY <1>2 DEF TransferTypes
  <2>1. CASE TakeItem
    BY <2>0, <2>1 DEF TakeItem
  <2>2. CASE RenameItem
    BY <2>0, <2>2, SourceAtHand DEF RenameItem, item
  <2>3. CASE OpenSource
    BY <2>0, <2>3 DEF OpenSource
  <2>4. CASE Fill
    <3>1. fs[plan[pos].source] \in Paths
      BY <2>4, SourceAtHand DEF Fill
    <3>. QED BY <2>0, <2>4, <3>1 DEF Fill, item
  <2>5. CASE StopFill \/ WriteFails
    BY <2>0, <2>5 DEF StopFill, WriteFails
  <2>6. CASE FinishItem
    BY <2>0, <2>6 DEF FinishItem
  <2>7. CASE RemoveRoot
    BY <2>0, <2>7 DEF RemoveRoot
  <2>8. CASE Start \/ RenameFails \/ SourceFails \/ EndItems \/ ReportEnd \/ Cancel \/ Die
    BY <2>0, <2>8 DEF Start, RenameFails, SourceFails, EndItems, ReportEnd, Cancel, Die
  <2>9. ASSUME NEW i \in RootIds, AddFile(i)
        PROVE  fs' \in [Paths -> V] /\ before' \subseteq Paths /\ cut' \subseteq Paths
    BY <2>0, <2>9, SourcePaths DEF AddFile
  <2>. QED BY <2>1, <2>2, <2>3, <2>4, <2>5, <2>6, <2>7, <2>8, <2>9 DEF TransferNext, Transfer
<1>4. pos' \in 1..(Len(plan) + 1) /\ errors' \in 0..Len(plan)
  <2>0. Len(plan) \in Nat /\ pos \in 1..(Len(plan) + 1) /\ errors \in 0..Len(plan) /\ errors < pos
    BY <1>2, PlanIsSequence DEF TransferTypes, TransferInv, PhaseInv
  <2>1. CASE UNCHANGED <<pos, succeeded, errors>>
    BY <2>0, <2>1
  <2>2. CASE Advances
    BY <2>0, <2>2 DEF Advances, Ready, Succeeds, GivesUp
  <2>. QED BY <2>1, <2>2, Turns
<1>5. succeeded' \in [RootIds -> Nat]
  <2>0. succeeded \in [RootIds -> Nat]
    BY <1>2 DEF TransferTypes
  <2>. QED BY <2>0, Turns DEF Advances, Succeeds, GivesUp
<1>6. root' \in RootIds
  <2>0. root \in RootIds
    BY <1>2 DEF TransferTypes
  <2>1. CASE RemoveRoot
    <3>1. Len(Roots) \in Nat /\ RootIds = 1..Len(Roots)
      BY TransferAssumption
    <3>. QED BY <2>0, <2>1, <3>1 DEF RemoveRoot
  <2>2. CASE ~RemoveRoot
    BY <2>0, <2>2 DEF TransferNext, Transfer, Start, TakeItem, RenameItem, RenameFails, OpenSource,
         SourceFails, Fill, StopFill, WriteFails, FinishItem, EndItems, ReportEnd, Cancel, Die, AddFile
  <2>. QED BY <2>1, <2>2
<1>7. /\ phase' \in {"planning", "taking", "renaming", "opening", "filling", "filled", "removing",
                     "reporting", "done", "dead"}
      /\ stopAsked' \in BOOLEAN
      /\ report' \in {"none", "start", "progress", "cancelled", "complete"}
  BY <1>2 DEF TransferTypes, TransferNext, Transfer, Start, TakeItem, RenameItem, RenameFails,
       OpenSource, SourceFails, Fill, StopFill, WriteFails, FinishItem, EndItems, RemoveRoot, ReportEnd,
       Cancel, Die, AddFile, NextItem
<1>. QED BY <1>1, <1>2, <1>3, <1>4, <1>5, <1>6, <1>7 DEF TransferTypes

LEMMA PlanInvStays ==
  ASSUME TransferInv, TransferNext, phase # "planning"
  PROVE  PlanInv'
<1>1. /\ operation' = operation /\ conflict' = conflict /\ planned' = planned /\ plan' = plan
  BY Untouched
<1>2. phase' # "planning"
  BY DEF TransferNext, Transfer, Start, TakeItem, RenameItem, RenameFails,
       OpenSource, SourceFails, Fill, StopFill, WriteFails, FinishItem, EndItems, RemoveRoot, ReportEnd,
       Cancel, Die, AddFile, NextItem
<1>3. \A k \in 1..Len(plan) : plan[k].target \in before' => plan[k].target \in before
  <2>1. before' = before \/ \E i \in RootIds : before' = before \cup {Source(i, Added)}
    BY DEF TransferNext, Transfer, Start, TakeItem, RenameItem, RenameFails,
       OpenSource, SourceFails, Fill, StopFill, WriteFails, FinishItem, EndItems, RemoveRoot, ReportEnd,
       Cancel, Die, AddFile
  <2>. QED BY <2>1, AddedIsElsewhere DEF TransferInv
<1>4. \A i : Before(i)' = Before(i)
  BY <1>1, PlanStays
<1>5. \A k : Index(k)' = Index(k)
  BY <1>1, PlanStays
<1>. QED BY <1>1, <1>2, <1>3, <1>4, <1>5 DEF TransferInv, PlanInv

LEMMA BeforeInvStays ==
  ASSUME TransferInv, TransferNext
  PROVE  BeforeInv'
<1>1. before' = before \/ \E i \in RootIds : before' = before \cup {Source(i, Added)}
  BY DEF TransferNext, Transfer, Start, TakeItem, RenameItem, RenameFails,
     OpenSource, SourceFails, Fill, StopFill, WriteFails, FinishItem, EndItems, RemoveRoot, ReportEnd,
     Cancel, Die, AddFile
<1>2. \A i \in RootIds : Source(i, Added).file = Added
  BY PathParts DEF Source
<1>. QED BY <1>1, <1>2 DEF TransferInv, BeforeInv

LEMMA PhaseInvStays ==
  ASSUME TransferInv, TransferNext, phase # "planning"
  PROVE  PhaseInv'
<1>0. Len(plan) \in Nat /\ pos \in 1..(Len(plan) + 1) /\ errors \in 0..Len(plan) /\ PhaseInv
  BY PlanIsSequence DEF TransferTypes, TransferInv
<1>1. operation' = operation /\ plan' = plan
  BY Untouched
<1>2. CASE UNCHANGED <<pos, succeeded, errors>>
  <2>1. phase' = phase \/ phase' = "taking" \/ TakeItem \/ RenameFails \/ OpenSource \/ Fill \/ EndItems
        \/ RemoveRoot \/ ReportEnd \/ Die
    BY DEF TransferNext, Transfer, Start, SourceFails, StopFill, WriteFails, RenameItem, FinishItem,
           NextItem, Cancel, AddFile
  <2>2. ~RenameItem /\ ~SourceFails /\ ~StopFill /\ ~WriteFails /\ ~FinishItem
    BY <1>0, <1>2 DEF RenameItem, SourceFails, StopFill, WriteFails, FinishItem, NextItem
  <2>. QED BY <1>0, <1>1, <1>2, <2>2 DEF PhaseInv, TransferNext, Transfer, Start, TakeItem,
         RenameFails, OpenSource, Fill, EndItems, RemoveRoot, ReportEnd, Cancel, Die, AddFile, UnderWay
<1>3. CASE Advances
  <2>1. errors' < pos'
    BY <1>0, <1>3 DEF Advances, Succeeds, GivesUp, PhaseInv
  <2>. QED BY <1>3, <2>1 DEF Advances, PhaseInv
<1>. QED BY <1>2, <1>3, Turns

\* Another item's turn: it keeps its place.
LEMMA NextTurn ==
  ASSUME TransferTypes, Advances
  PROVE  /\ pos \in 1..Len(plan) /\ pos + 1 \in 1..(Len(plan) + 1) /\ ~(pos + 1 = pos)
         /\ \A k \in 1..Len(plan) : (k > pos + 1 \/ k = pos + 1 => k > pos /\ k # pos)
                                  /\ (k < pos + 1 => k < pos \/ k = pos)
<1>1. Len(plan) \in Nat /\ pos \in 1..Len(plan)
  BY PlanIsSequence DEF Advances, Ready
<1>. QED BY <1>1

LEMMA SourceInvStays ==
  ASSUME TransferInv, TransferNext, phase # "planning"
  PROVE  SourceInv'
<1>1. /\ operation' = operation /\ conflict' = conflict /\ planned' = planned /\ plan' = plan
      /\ cut \subseteq cut'
  BY Untouched
<1>2. Len(plan) \in Nat /\ pos \in 1..(Len(plan) + 1)
  BY PlanIsSequence DEF TransferTypes, TransferInv
<1>. SUFFICES ASSUME NEW k \in 1..Len(plan)
              PROVE  /\ ~Self(k) /\ (k > pos' \/ (k = pos' /\ phase' \in AtItem))
                          => fs'[plan[k].source] = plan[k].source
                     /\ Self(k) /\ k = pos' =>
                          /\ phase' \notin {"filling", "filled"}
                          /\ phase' \in {"renaming", "opening"} => fs'[plan[k].target] = Nothing
                     /\ k = pos' /\ phase' = "filled" => Arrives(k)
  BY <1>1 DEF SourceInv, Self, Arrived, Arrives
<1>3. CASE Advances
  <2>1. phase' = "taking" /\ pos' = pos + 1
    BY <1>3 DEF Advances
  <2>2. CASE ~Self(k) /\ (k > pos + 1 \/ k = pos + 1)
    <3>1. k > pos /\ k # pos
      BY <1>3, <2>2, NextTurn DEF TransferInv
    <3>2. fs[plan[k].source] = plan[k].source
      BY <2>2, <3>1 DEF TransferInv, SourceInv
    <3>3. phase # "removing"
      BY <1>3 DEF Advances, Ready, AtItem
    <3>4. fs'[plan[k].source] = fs[plan[k].source]
      BY <2>2, <3>1, <3>3, SourceStays
    <3>. QED BY <2>1, <3>2, <3>4
  <2>. QED BY <2>1, <2>2
<1>4. CASE UNCHANGED <<pos, succeeded, errors>>
  <2>0. fs \in [Paths -> Paths \cup {Nothing, Partial}]
    BY DEF TransferInv, TransferTypes
  <2>1. phase' \in AtItem => phase \in AtItem
    BY DEF AtItem, TransferNext, Transfer, Start, TakeItem, RenameItem, RenameFails, OpenSource,
         SourceFails, Fill, StopFill, WriteFails, FinishItem, EndItems, RemoveRoot, ReportEnd, Cancel,
         Die, AddFile, NextItem
  <2>2. ASSUME ~Self(k), k > pos \/ (k = pos /\ phase' \in AtItem)
        PROVE  fs'[plan[k].source] = plan[k].source
    <3>1. fs[plan[k].source] = plan[k].source
      BY <2>1, <2>2 DEF TransferInv, SourceInv
    <3>2. plan[k].source \in Paths
      BY ItemParts DEF TransferInv
    <3>3. CASE k > pos
      <4>1. k # pos /\ phase # "removing"
        BY <1>2, <3>3 DEF TransferInv, PhaseInv
      <4>. QED BY <2>2, <3>1, <4>1, SourceStays
    <3>4. CASE k = pos /\ phase' \in AtItem
      <4>1. ASSUME Touched(plan[k].source) PROVE FALSE
        <5>1. plan[k].source # plan[pos].target
          BY <2>2, <3>4 DEF Self
        <5>2. ~(pos' = pos + 1)
          BY <1>2, <1>4
        <5>3. phase # "removing"
          BY <2>1, <3>4 DEF AtItem
        <5>4. \A i \in RootIds : plan[k].source # Source(i, Added)
          BY AddedIsElsewhere DEF TransferInv
        <5>. QED BY <4>1, <5>1, <5>2, <5>3, <5>4 DEF Touched
      <4>. QED BY <3>1, <3>2, <4>1, Untouched
    <3>. QED BY <2>2, <3>3, <3>4
  <2>3. ASSUME Self(k), k = pos
        PROVE  /\ phase' \notin {"filling", "filled"}
               /\ phase' \in {"renaming", "opening"} => fs'[plan[k].target] = Nothing
    <3>1. plan[k].target \in Paths /\ \A i \in RootIds : plan[k].target # Source(i, Added)
      BY ItemParts, AddedIsElsewhere DEF TransferInv
    <3>2. conflict = "replace"
      BY <2>3, SelfReplaces DEF TransferInv, Self
    <3>3. /\ phase \notin {"filling", "filled"}
          /\ phase \in {"renaming", "opening"} => fs[plan[k].target] = Nothing
      BY <2>3 DEF TransferInv, SourceInv
    <3>4. ~OpenSource
      BY <2>3, SourceAtHand DEF OpenSource, item
    <3>5. CASE TakeItem
      BY <2>0, <2>3, <3>1, <3>2, <3>5 DEF TakeItem, item
    <3>6. CASE \E i \in RootIds : AddFile(i)
      BY <2>0, <3>1, <3>3, <3>6 DEF AddFile
    <3>. QED BY <3>3, <3>4, <3>5, <3>6 DEF TransferNext, Transfer, Start, RenameItem, RenameFails,
           SourceFails, Fill, StopFill, WriteFails, FinishItem, EndItems, RemoveRoot, ReportEnd, Cancel,
           Die, NextItem
  <2>4. ASSUME k = pos, phase' = "filled" PROVE Arrives(k)
    <3>1. plan[k].target \in Paths /\ \A i \in RootIds : plan[k].target # Source(i, Added)
      BY ItemParts, AddedIsElsewhere DEF TransferInv
    <3>2. CASE Fill
      <4>1. fs[plan[k].source] = plan[k].source
        BY <2>4, <3>2, SourceAtHand DEF Fill
      <4>. QED BY <1>1, <2>0, <2>4, <3>1, <3>2, <4>1 DEF Fill, item, Arrives
    <3>3. CASE \E i \in RootIds : AddFile(i)
      <4>1. Arrived(k)
        BY <2>4, <3>3 DEF AddFile, TransferInv, SourceInv
      <4>2. fs'[plan[k].target] = fs[plan[k].target]
        BY <2>0, <3>1, <3>3 DEF AddFile
      <4>. QED BY <1>1, <4>1, <4>2 DEF Arrived, Arrives
    <3>4. CASE Cancel
      <4>1. Arrived(k) /\ fs' = fs
        BY <2>4, <3>4 DEF Cancel, TransferInv, SourceInv
      <4>. QED BY <1>1, <4>1 DEF Arrived, Arrives
    <3>. QED BY <2>4, <3>2, <3>3, <3>4 DEF TransferNext, Transfer, Start, TakeItem, RenameItem,
           RenameFails, OpenSource, SourceFails, StopFill, WriteFails, FinishItem, EndItems, RemoveRoot,
           ReportEnd, Die, NextItem
  <2>. QED BY <1>4, <2>2, <2>3, <2>4
<1>. QED BY <1>3, <1>4, Turns

LEMMA StayInvStays ==
  ASSUME TransferInv, TransferNext, phase # "planning"
  PROVE  StayInv'
<1>1. /\ operation' = operation /\ conflict' = conflict /\ planned' = planned /\ plan' = plan
      /\ \A p \in Paths : Touched(p) \/ fs'[p] = fs[p]
  BY Untouched
<1>2. Replaced' = Replaced
  BY <1>1, PlanStays
<1>. SUFFICES ASSUME NEW c \in before', c \notin Replaced,
                     operation = "copy" \/ \A i \in planned : c \notin Within(i)
              PROVE  fs'[c] = c
  BY <1>1, <1>2 DEF StayInv
<1>3. c \in Paths
  BY TypesStay DEF TransferTypes
<1>4. CASE \E i \in RootIds : AddFile(i) /\ c = Source(i, Added)
  <2>1. fs \in [Paths -> Paths \cup {Nothing, Partial}]
    BY DEF TransferInv, TransferTypes
  <2>. QED BY <1>3, <1>4, <2>1 DEF AddFile
<1>5. CASE ~\E i \in RootIds : AddFile(i) /\ c = Source(i, Added)
  <2>1. c \in before
    BY <1>5 DEF TransferNext, Transfer, Start, TakeItem, RenameItem, RenameFails, OpenSource,
       SourceFails, Fill, StopFill, WriteFails, FinishItem, EndItems, RemoveRoot, ReportEnd,
       Cancel, Die, AddFile
  <2>2. fs[c] = c
    BY <2>1 DEF TransferInv, StayInv
  <2>3. ASSUME Touched(c) PROVE FALSE
    <3>1. CASE Ready /\ c = plan[pos].target
      BY <3>1, PlanIsSequence DEF Ready, Replaced, TransferInv
    <3>2. CASE Ready /\ operation = "move" /\ c = plan[pos].source
      <4>1. plan[pos].root \in planned /\ plan[pos].root \in RootIds
        BY <3>2, Item DEF Ready, TransferInv
      <4>2. c \in Within(plan[pos].root)
        BY <3>2, <4>1, SourceWithin DEF Ready, TransferInv
      <4>. QED BY <3>2, <4>1, <4>2
    <3>3. CASE phase = "removing" /\ Emptied(root) /\ c \in Within(root)
      BY <3>3 DEF Emptied, TransferInv, PhaseInv
    <3>. QED BY <1>5, <2>3, <3>1, <3>2, <3>3 DEF Touched
  <2>. QED BY <1>1, <1>3, <2>2, <2>3
<1>. QED BY <1>4, <1>5

\* All items of a root whose directory is removed have arrived.
LEMMA EmptiedArrived ==
  ASSUME TransferInv, phase = "removing", NEW k \in 1..Len(plan), Single(k), Emptied(plan[k].root)
  PROVE  ~Self(k) /\ Arrived(k)
<1>. DEFINE i == plan[k].root
<1>1. Len(plan) \in Nat /\ pos \in 1..(Len(plan) + 1) /\ pos > Len(plan)
  BY PlanIsSequence DEF TransferInv, TransferTypes, PhaseInv
<1>2. i \in planned /\ ~Twin(i) /\ succeeded[i] = Length(i)
  BY DEF Emptied, Single, Length
<1>3. Done(i) = Length(i)
  BY <1>1, <1>2, DoneFacts DEF Done, TransferInv
<1>4. Index(k) \in 1..Length(i) /\ Before(i) + Index(k) = k
  BY Item DEF TransferInv
<1>. QED BY <1>2, <1>3, <1>4 DEF TransferInv, CountInv

LEMMA KeptInvStays ==
  ASSUME TransferInv, TransferNext, phase # "planning"
  PROVE  KeptInv'
<1>1. plan' = plan /\ conflict' = conflict /\ planned' = planned /\ cut \subseteq cut'
  BY Untouched
<1>2. \A k : Self(k)' = Self(k) /\ Single(k)' = Single(k)
  BY <1>1, PlanStays
<1>. SUFFICES ASSUME NEW k \in 1..Len(plan), Single(k), ~Self(k)
              PROVE  Arrives(k) \/ fs'[plan[k].source] = plan[k].source
  BY <1>1, <1>2 DEF KeptInv, Arrived, Arrives
<1>3. Arrived(k) \/ fs[plan[k].source] = plan[k].source
  BY DEF TransferInv, KeptInv
<1>4. CASE k = pos
  <2>1. pos \in 1..Len(plan)
    BY <1>4
  <2>2. CASE Advances
    <3>1. CASE Succeeds
      BY <1>4, <3>1 DEF Succeeds
    <3>2. CASE GivesUp
      <4>1. phase \in AtItem /\ phase # "removing"
        BY <2>2 DEF Advances, Ready, AtItem
      <4>2. fs[plan[k].source] = plan[k].source /\ plan[k].source \in Paths
        BY <1>4, <4>1, ItemParts DEF TransferInv, SourceInv
      <4>3. pos \in Nat /\ pos' = pos + 1
        BY <1>4, <2>2, PlanIsSequence DEF Advances
      <4>4. fs' = fs \/ fs' = [fs EXCEPT ![plan[pos].target] = Nothing]
        <5>1. pos' # pos
          BY <4>3
        <5>2. ~RenameItem /\ ~FinishItem
          <6>1. succeeded' = succeeded /\ succeeded \in [RootIds -> Nat]
            BY <3>2 DEF GivesUp, TransferInv, TransferTypes
          <6>2. plan[pos].root \in RootIds
            BY <2>1, Item DEF TransferInv
          <6>3. succeeded' # [succeeded EXCEPT ![plan[pos].root] = @ + 1]
            BY <6>1, <6>2
          <6>. QED BY <6>3 DEF RenameItem, FinishItem, item
        <5>. QED BY <5>1, <5>2 DEF TransferNext, Transfer, Start, TakeItem, RenameFails, OpenSource,
           SourceFails, Fill, StopFill, WriteFails, EndItems, RemoveRoot, ReportEnd, Cancel, Die,
           AddFile, item
      <4>5. plan[pos].target # plan[pos].source
        BY <1>4 DEF Self
      <4>6. fs \in [Paths -> Paths \cup {Nothing, Partial}]
        BY DEF TransferInv, TransferTypes
      <4>7. fs'[plan[k].source] = plan[k].source
        BY <1>4, <4>2, <4>4, <4>5, <4>6
      <4>. QED BY <4>7
    <3>. QED BY <2>2, <3>1, <3>2 DEF Advances
  <2>3. CASE UNCHANGED <<pos, succeeded, errors>>
    <3>1. phase' \in AtItem => fs'[plan[k].source] = plan[k].source
      <4>1. SourceInv'
        BY SourceInvStays
      <4>. QED BY <1>1, <1>2, <1>4, <2>3, <4>1 DEF SourceInv
    <3>2. phase' \notin AtItem => Arrives(k) \/ fs'[plan[k].source] = plan[k].source
      <4>1. phase' \notin AtItem => fs' = fs \/ (\E i \in RootIds : AddFile(i)) \/ RemoveRoot
        BY <2>3 DEF TransferNext, Transfer, Start, TakeItem, RenameItem, RenameFails, OpenSource,
           SourceFails, Fill, StopFill, WriteFails, FinishItem, EndItems, ReportEnd, Cancel, Die,
           NextItem, AtItem
      <4>2. CASE fs' = fs
        BY <1>1, <1>3, <4>2 DEF Arrived, Arrives
      <4>3. CASE \E i \in RootIds : AddFile(i)
        <5>1. fs \in [Paths -> Paths \cup {Nothing, Partial}]
          BY DEF TransferInv, TransferTypes
        <5>2. \A i \in RootIds : plan[k].source # Source(i, Added) /\ plan[k].target # Source(i, Added)
          BY AddedIsElsewhere DEF TransferInv
        <5>3. plan[k].source \in Paths /\ plan[k].target \in Paths
          BY ItemParts DEF TransferInv
        <5>. QED BY <1>1, <1>3, <4>3, <5>1, <5>2, <5>3 DEF AddFile, Arrived, Arrives
      <4>4. CASE RemoveRoot
        <5>1. FALSE
          <6>1. phase = "removing" /\ Len(plan) \in Nat
            BY <4>4, PlanIsSequence DEF RemoveRoot, TransferInv
          <6>2. pos > Len(plan)
            BY <6>1 DEF TransferInv, PhaseInv
          <6>. QED BY <2>1, <6>1, <6>2
        <5>. QED BY <5>1
      <4>. QED BY <4>1, <4>2, <4>3, <4>4
    <3>. QED BY <3>1, <3>2
  <2>. QED BY <2>2, <2>3, Turns
<1>5. CASE k # pos
  <2>1. CASE Arrived(k)
    BY <1>5, <2>1, ArrivedStays
  <2>2. CASE ~Arrived(k)
    <3>1. phase = "removing" => plan[k].root # root \/ ~Emptied(root)
      BY <2>2, EmptiedArrived
    <3>. QED BY <1>3, <1>5, <2>2, <3>1, SourceStays
  <2>. QED BY <2>1, <2>2
<1>. QED BY <1>4, <1>5

LEMMA PartialInvStays ==
  ASSUME TransferInv, TransferNext, phase # "planning"
  PROVE  PartialInv'
<1>1. plan' = plan /\ conflict' = conflict /\ planned' = planned /\ cut \subseteq cut'
      /\ \A p \in Paths : Touched(p) \/ fs'[p] = fs[p]
  BY Untouched
<1>2. \A k : Self(k)' = Self(k) /\ Single(k)' = Single(k)
  BY <1>1, PlanStays
<1>3. phase # "dead"
  BY DEF TransferNext, Transfer, Start, TakeItem, RenameItem, RenameFails, OpenSource, SourceFails,
         Fill, StopFill, WriteFails, FinishItem, EndItems, RemoveRoot, ReportEnd, Cancel, Die, AddFile,
         NextItem, UnderWay
<1>. SUFFICES ASSUME phase' # "dead", NEW k \in 1..Len(plan), Single(k), fs'[plan[k].target] = Partial,
                     plan[k].source \notin cut'
              PROVE  k = pos' /\ phase' = "filling"
  BY <1>1, <1>2 DEF PartialInv
<1>. DEFINE T == plan[k].target
<1>4. T \in Paths /\ plan[k].source \in Paths /\ \A i \in RootIds : T # Source(i, Added)
  BY ItemParts, AddedIsElsewhere DEF TransferInv
<1>5. fs \in [Paths -> Paths \cup {Nothing, Partial}] /\ Nothing # Partial
  BY TransferAssumption DEF TransferInv, TransferTypes
<1>6. CASE fs[T] = Partial
  <2>1. k = pos /\ phase = "filling"
    BY <1>1, <1>3, <1>6 DEF TransferInv, PartialInv
  <2>2. ~Self(pos) /\ fs[plan[pos].source] = plan[pos].source /\ plan[pos].source # Partial
    BY <1>4, <2>1, SourceAtHand, PathsAreContents
  <2>3. ~Fill
    BY <1>4, <1>5, <2>1, <2>2 DEF Fill, item
  <2>4. ~StopFill /\ ~WriteFails
    BY <1>4, <1>5, <2>1 DEF StopFill, WriteFails, item
  <2>. QED BY <2>1, <2>3, <2>4 DEF TransferNext, Transfer, Start, TakeItem, RenameItem, RenameFails,
         OpenSource, SourceFails, FinishItem, EndItems, RemoveRoot, ReportEnd, Cancel, Die, AddFile
<1>7. CASE fs[T] # Partial
  <2>1. Touched(T)
    BY <1>1, <1>4, <1>7
  <2>2. CASE \E i \in RootIds : AddFile(i) /\ T = Source(i, Added)
    BY <1>4, <2>2
  <2>3. CASE phase = "removing"
    <3>1. ~RemoveRoot
      BY <1>4, <1>5, <1>7, <2>3 DEF RemoveRoot
    <3>2. fs' = fs \/ \E i \in RootIds : AddFile(i)
      BY <2>3, <3>1 DEF TransferNext, Transfer, Start, TakeItem, RenameItem, RenameFails, OpenSource,
           SourceFails, Fill, StopFill, WriteFails, FinishItem, EndItems, ReportEnd, Cancel, Die, NextItem
    <3>. QED BY <1>4, <1>5, <1>7, <3>2 DEF AddFile
  <2>4. CASE Ready /\ ~OpenSource
    <3>1. pos \in 1..Len(plan) /\ plan[pos].source \in Paths /\ plan[pos].target \in Paths
      BY <2>4, ItemParts DEF Ready, TransferInv
    <3>2. phase = "filling" => fs[plan[pos].source] # Partial
      BY <3>1, SourceAtHand, PathsAreContents
    <3>3. RenameItem => fs[plan[pos].source] # Partial
      BY <3>1, SourceAtHand, PathsAreContents DEF RenameItem, item
    <3>4. CASE \E i \in RootIds : AddFile(i)
      BY <1>4, <1>5, <1>7, <3>4 DEF AddFile
    <3>5. ~RemoveRoot
      BY <2>4 DEF RemoveRoot, Ready, AtItem
    <3>. QED BY <1>4, <1>5, <1>7, <2>4, <3>1, <3>2, <3>3, <3>4, <3>5 DEF TransferNext, Transfer, Start,
           TakeItem, RenameItem, RenameFails, SourceFails, Fill, StopFill, WriteFails, FinishItem,
           EndItems, ReportEnd, Cancel, Die, NextItem, item
  <2>5. CASE OpenSource
    <3>1. T = plan[pos].target
      BY <1>4, <1>5, <1>7, <2>5 DEF OpenSource, item
    <3>2. pos \in 1..Len(plan)
      BY <2>5, SourceAtHand DEF OpenSource, item, Ready
    <3>3. k = pos
      BY <3>1, <3>2, SingleTarget DEF TransferInv
    <3>. QED BY <2>5, <3>3 DEF OpenSource
  <2>. QED BY <2>1, <2>2, <2>3, <2>4, <2>5 DEF Touched
<1>. QED BY <1>6, <1>7

LEMMA ErrorInvStays ==
  ASSUME TransferInv, TransferNext, phase # "planning"
  PROVE  ErrorInv'
<1>1. plan' = plan /\ conflict' = conflict /\ planned' = planned
  BY Untouched
<1>2. \A k : Self(k)' = Self(k) /\ Single(k)' = Single(k)
  BY <1>1, PlanStays
<1>3. phase # "dead"
  BY DEF TransferNext, Transfer, Start, TakeItem, RenameItem, RenameFails, OpenSource, SourceFails,
         Fill, StopFill, WriteFails, FinishItem, EndItems, RemoveRoot, ReportEnd, Cancel, Die, AddFile,
         NextItem, UnderWay
<1>. SUFFICES ASSUME errors' = 0, phase' # "dead", ~stopAsked' \/ report' = "complete",
                     NEW k \in 1..Len(plan), k < pos', Single(k)
              PROVE  ~Self(k) /\ Arrives(k)
  BY <1>1, <1>2 DEF ErrorInv, Arrived, Arrives
<1>4. CASE Advances
  <2>1. errors \in Nat /\ pos' = pos + 1
    BY <1>4, PlanIsSequence DEF Advances, TransferInv, TransferTypes
  <2>2. ~stopAsked /\ Succeeds /\ errors = 0
    BY <1>4, <2>1 DEF Advances, Succeeds, GivesUp
  <2>3. k < pos \/ k = pos
    BY <1>4, <2>1, NextTurn DEF TransferInv
  <2>4. CASE k = pos
    BY <2>2, <2>4 DEF Succeeds
  <2>5. CASE k < pos
    <3>1. ~Self(k) /\ Arrived(k)
      BY <1>3, <2>2, <2>5 DEF TransferInv, ErrorInv
    <3>2. k # pos
      BY <1>4, <2>5, NextTurn DEF TransferInv
    <3>. QED BY <3>1, <3>2, ArrivedStays
  <2>. QED BY <2>3, <2>4, <2>5
<1>5. CASE UNCHANGED <<pos, succeeded, errors>>
  <2>1. k < pos /\ k # pos
    <3>1. pos \in 1..(Len(plan) + 1) /\ Len(plan) \in Nat
      BY PlanIsSequence DEF TransferInv, TransferTypes
    <3>. QED BY <1>5, <3>1
  <2>2. ~stopAsked \/ report = "complete"
    BY DEF TransferNext, Transfer, Start, TakeItem, RenameItem, RenameFails, OpenSource, SourceFails,
           Fill, StopFill, WriteFails, FinishItem, EndItems, RemoveRoot, ReportEnd, Cancel, Die, AddFile
  <2>3. ~Self(k) /\ Arrived(k)
    BY <1>3, <1>5, <2>1, <2>2 DEF TransferInv, ErrorInv
  <2>. QED BY <2>1, <2>3, ArrivedStays
<1>. QED BY <1>4, <1>5, Turns

LEMMA CountInvStays ==
  ASSUME TransferInv, TransferNext, phase # "planning"
  PROVE  CountInv'
<1>1. plan' = plan /\ conflict' = conflict /\ planned' = planned
  BY Untouched
<1>2. \A k : Self(k)' = Self(k) /\ Single(k)' = Single(k)
  BY <1>1, PlanStays
<1>3. \A i : Before(i)' = Before(i)
  BY <1>1, PlanStays
<1>4. \A i : Done(i)' = DoneAt(i, pos')
  BY <1>3 DEF Done, DoneAt
<1>. SUFFICES ASSUME NEW i \in planned, ~Twin(i)
              PROVE  /\ succeeded'[i] <= DoneAt(i, pos')
                     /\ succeeded'[i] = DoneAt(i, pos') =>
                          \A j \in 1..DoneAt(i, pos') : ~Self(Before(i) + j) /\ Arrives(Before(i) + j)
  BY <1>1, <1>3, <1>4 DEF CountInv, Self, Arrived, Arrives
<1>5. Len(plan) \in Nat /\ pos \in 1..(Len(plan) + 1) /\ i \in RootIds
      /\ succeeded \in [RootIds -> Nat]
  BY PlanIsSequence DEF TransferInv, TransferTypes
<1>6. /\ Length(i) \in Nat /\ DoneAt(i, pos) \in 0..Length(i)
      /\ \A j \in 1..Length(i) :
           /\ Before(i) + j \in 1..Len(plan) /\ plan[Before(i) + j].root = i
           /\ j \in 1..DoneAt(i, pos) <=> Before(i) + j < pos
  BY <1>5, DoneFacts DEF TransferInv
<1>7. /\ succeeded[i] <= DoneAt(i, pos)
      /\ succeeded[i] = DoneAt(i, pos) =>
           \A j \in 1..DoneAt(i, pos) : ~Self(Before(i) + j) /\ Arrived(Before(i) + j)
  BY DEF TransferInv, CountInv, Done
\* What had arrived stays.
<1>8. ASSUME NEW j \in 1..DoneAt(i, pos), ~Self(Before(i) + j), Arrived(Before(i) + j)
      PROVE  Arrives(Before(i) + j)
  <2>1. j \in 1..Length(i)
    BY <1>6
  <2>2. Before(i) + j \in 1..Len(plan) /\ plan[Before(i) + j].root = i /\ Before(i) + j < pos
    BY <1>6, <2>1
  <2>3. Before(i) + j # pos
    BY <1>5, <2>2
  <2>4. Single(Before(i) + j)
    BY <2>2 DEF Single
  <2>. QED BY <1>8, <2>2, <2>3, <2>4, ArrivedStays
<1>9. CASE UNCHANGED <<pos, succeeded, errors>>
  BY <1>7, <1>8, <1>9
<1>10. CASE Advances
  <2>1. pos \in 1..Len(plan) /\ pos' = pos + 1
    BY <1>10 DEF Advances, Ready
  <2>2. /\ plan[pos].root = i => /\ DoneAt(i, pos + 1) = DoneAt(i, pos) + 1
                                 /\ Before(i) + DoneAt(i, pos + 1) = pos
        /\ plan[pos].root # i => DoneAt(i, pos + 1) = DoneAt(i, pos)
    BY <2>1, DoneSteps DEF TransferInv
  <2>3. CASE plan[pos].root # i
    <3>1. succeeded'[i] = succeeded[i]
      BY <1>5, <1>10, <2>3 DEF Advances, Succeeds, GivesUp
    <3>. QED BY <1>7, <1>8, <2>1, <2>2, <2>3, <3>1
  <2>4. CASE plan[pos].root = i /\ GivesUp
    <3>1. succeeded'[i] = succeeded[i] /\ succeeded[i] \in Nat
      BY <1>5, <2>4 DEF GivesUp
    <3>2. DoneAt(i, pos') = DoneAt(i, pos) + 1 /\ DoneAt(i, pos) \in Nat
      BY <1>6, <2>1, <2>2, <2>4
    <3>. QED BY <1>7, <3>1, <3>2
  <2>5. CASE plan[pos].root = i /\ Succeeds
    <3>1. succeeded'[i] = succeeded[i] + 1 /\ succeeded[i] \in Nat
      BY <1>5, <2>5 DEF Succeeds
    <3>2. DoneAt(i, pos') = DoneAt(i, pos) + 1 /\ DoneAt(i, pos) \in Nat
          /\ Before(i) + DoneAt(i, pos') = pos
      BY <1>6, <2>1, <2>2, <2>5
    <3>3. ASSUME succeeded'[i] = DoneAt(i, pos'), NEW j \in 1..DoneAt(i, pos')
          PROVE  ~Self(Before(i) + j) /\ Arrives(Before(i) + j)
      <4>1. succeeded[i] = DoneAt(i, pos)
        BY <3>1, <3>2, <3>3
      <4>2. j \in 1..DoneAt(i, pos) \/ j = DoneAt(i, pos')
        BY <3>2
      <4>3. CASE j \in 1..DoneAt(i, pos)
        BY <1>7, <1>8, <4>1, <4>3
      <4>4. CASE j = DoneAt(i, pos')
        <5>1. Before(i) + j = pos
          BY <3>2, <4>4
        <5>. QED BY <2>1, <2>5, <5>1 DEF Succeeds
      <4>. QED BY <4>2, <4>3, <4>4
    <3>. QED BY <1>7, <3>1, <3>2, <3>3
  <2>. QED BY <1>10, <2>3, <2>4, <2>5 DEF Advances
<1>. QED BY <1>9, <1>10, Turns
-----------------------------------------------------------------------------
(* The plan is made: it holds the files of each root, one root after the other. *)

LEMMA TakenIsBefore ==
  ASSUME TransferTypes, PlanInv, phase = "planning", NEW name, NEW n
  PROVE  /\ Taken(name, n) <=> \E p \in before : p.dir = Dest /\ p.name = name /\ p.copy = n
         /\ \A f : ~Taken(name, n) => Path(Dest, name, n, f) \notin before
<1>1. before \subseteq Paths /\ fs = [p \in Paths |-> IF p \in before THEN p ELSE Nothing]
  BY DEF TransferTypes, PlanInv
<1>2. \A p \in Paths : fs[p] # Nothing <=> p \in before
  BY <1>1, PathsAreContents
<1>3. Taken(name, n) <=> \E p \in before : p.dir = Dest /\ p.name = name /\ p.copy = n
  BY <1>1, <1>2 DEF Taken
<1>. QED BY <1>3, PathParts

LEMMA FreeCopyIsFree ==
  ASSUME TransferTypes, PlanInv, phase = "planning", NEW i \in RootIds
  PROVE  FreeCopy(Roots[i].name) \in 1..Copies /\ ~Taken(Roots[i].name, FreeCopy(Roots[i].name))
<1>. DEFINE name == Roots[i].name
            G == {n \in 1..Copies : ~Taken(name, n)}
<1>1. PICK n \in 1..Copies : \A p \in Old : ~(p.dir = Dest /\ p.name = name /\ p.copy = n)
  BY TransferAssumption
<1>2. Copies \in Nat /\ n # 0
  BY TransferAssumption
<1>3. \A p \in Sources : p.copy = 0
  BY PathParts DEF Sources, Source
<1>4. before \subseteq Sources \cup Old
  BY DEF PlanInv
<1>5. ~Taken(name, n)
  BY <1>1, <1>2, <1>3, <1>4, TakenIsBefore
<1>6. n \in G /\ G \in SUBSET Nat
  BY <1>2, <1>5
<1>7. PICK m \in G : \A l \in G : m <= l
  <2>. HIDE DEF G
  <2>. QED BY <1>6, Least
<1>8. m \in 1..Copies /\ ~Taken(name, m)
  OBVIOUS
<1>9. \A k \in 1..(m - 1) : Taken(name, k)
  <2>1. ASSUME NEW k \in 1..(m - 1), ~Taken(name, k) PROVE FALSE
    <3>1. k \in 1..Copies /\ ~(m <= k)
      BY <1>2, <1>8
    <3>2. k \in G
      BY <2>1, <3>1
    <3>. QED BY <1>7, <3>1, <3>2
  <2>. QED BY <2>1
<1>. DEFINE F(x) == ~Taken(name, x) /\ \A k \in 1..(x - 1) : Taken(name, k)
<1>10. FreeCopy(name) = CHOOSE x \in 1..Copies : F(x)
  BY DEF FreeCopy
<1>11. F(m)
  BY <1>8, <1>9
<1>. HIDE DEF F
<1>12. FreeCopy(name) \in 1..Copies /\ F(FreeCopy(name))
  BY <1>8, <1>10, <1>11
<1>. QED BY <1>12 DEF F

LEMMA TargetCopyFacts ==
  ASSUME TransferTypes, PlanInv, phase = "planning", NEW i \in RootIds, ~Skipped(i)
  PROVE  /\ TargetCopy(i) \in 0..Copies
         /\ conflict = "replace" => TargetCopy(i) = 0
         /\ conflict # "replace" => ~Taken(Roots[i].name, TargetCopy(i))
<1>1. Copies \in Nat /\ conflict \in {"keep", "replace", "skip"}
  BY TransferAssumption DEF TransferTypes
<1>2. FreeCopy(Roots[i].name) \in 1..Copies /\ ~Taken(Roots[i].name, FreeCopy(Roots[i].name))
  BY FreeCopyIsFree
<1>. QED BY <1>1, <1>2 DEF TargetCopy, Skipped

PlanItem == [source : Sources, target : Paths, root : RootIds]

LEMMA ItemsOfRoot ==
  ASSUME TransferTypes, PlanInv, phase = "planning", NEW i \in RootIds, ~Skipped(i)
  PROVE  /\ Items(i) \in Seq(PlanItem) /\ Len(Items(i)) = Length(i)
         /\ \A j \in 1..Length(i) :
              Items(i)[j] = [source |-> Source(i, Roots[i].files[j]),
                             target |-> Path(Dest, Roots[i].name, TargetCopy(i), Roots[i].files[j]),
                             root |-> i]
<1>1. Length(i) \in Nat /\ DOMAIN Roots[i].files = 1..Length(i)
      /\ \A j \in 1..Length(i) : Roots[i].files[j] \in FilesOf(i)
  BY RootFacts
<1>2. \A j \in 1..Length(i) :
        /\ Source(i, Roots[i].files[j]) \in Sources
        /\ Path(Dest, Roots[i].name, TargetCopy(i), Roots[i].files[j]) \in Paths
  BY <1>1, SourcePaths, TargetCopyFacts
<1>3. Items(i) \in [1..Length(i) -> PlanItem]
  BY <1>1, <1>2 DEF Items, PlanItem
<1>4. Items(i) \in Seq(PlanItem) /\ Len(Items(i)) = Length(i)
  BY <1>1, <1>3, FunctionIsSeq
<1>. QED BY <1>1, <1>4 DEF Items

LEMMA ChosenBefore ==
  ASSUME NEW w, NEW i, NEW n \in 0..Len(w), InPlan(w, i, n)
  PROVE  BeforeIn(w, i) \in 0..Len(w) /\ InPlan(w, i, BeforeIn(w, i))
BY DEF BeforeIn

LEMMA PlanIsMade ==
  ASSUME TransferInv, Start
  PROVE  plan' \in Seq(PlanItem) /\ PlanInv'
<1>. DEFINE n == Len(Roots)
            s == [i \in RootIds |-> IF Skipped(i) THEN <<>> ELSE Items(i)]
            w == FlattenSeq(s)
<1>1. phase = "planning" /\ phase' # "planning" /\ TransferTypes /\ PlanInv
      /\ before' = before /\ conflict' = conflict /\ plan' = w
      /\ planned' = {i \in RootIds : ~Skipped(i)}
  BY DEF Start, TransferInv, request
<1>2. n \in Nat \ {0} /\ RootIds = 1..n
  BY TransferAssumption
<1>3. ASSUME NEW i \in RootIds, ~Skipped(i)
      PROVE  /\ Items(i) \in Seq(PlanItem) /\ Len(Items(i)) = Length(i)
             /\ \A j \in 1..Length(i) :
                  Items(i)[j] = [source |-> Source(i, Roots[i].files[j]),
                                 target |-> Path(Dest, Roots[i].name, TargetCopy(i), Roots[i].files[j]),
                                 root |-> i]
  BY <1>1, <1>3, ItemsOfRoot
<1>4. s \in [1..n -> Seq(PlanItem)]
  BY <1>2, <1>3
<1>5. \A i \in RootIds : s[i] = IF Skipped(i) THEN <<>> ELSE Items(i)
  OBVIOUS
<1>. HIDE DEF s
<1>6. Len(s) = n
  BY <1>2, <1>4, FunctionIsSeq
<1>7. w \in Seq(PlanItem) /\ \E off \in [1..n -> Nat] : Placed(w, s, off, n)
  BY <1>2, <1>4, <1>6, FlattenPlaces
<1>8. PICK off \in [1..n -> Nat] : Placed(w, s, off, n)
  BY <1>7
<1>. HIDE DEF w
<1>9. ASSUME NEW i \in RootIds, ~Skipped(i)
      PROVE  /\ off[i] \in 0..Len(w) /\ Length(i) \in Nat /\ off[i] + Length(i) <= Len(w)
             /\ \A j \in 1..Length(i) :
                  /\ off[i] + j \in 1..Len(w)
                  /\ w[off[i] + j].root = i
                  /\ w[off[i] + j].source = Source(i, Roots[i].files[j])
                  /\ w[off[i] + j].target =
                       Path(Dest, Roots[i].name, TargetCopy(i), Roots[i].files[j])
  <2>1. s[i] = Items(i) /\ Len(s[i]) = Length(i) /\ i \in 1..n
    BY <1>2, <1>3, <1>5, <1>9
  <2>2. off[i] \in Nat /\ Length(i) \in Nat /\ Len(w) \in Nat
    BY <1>2, <1>7, <1>9, RootFacts, LenProperties
  <2>3. off[i] + Length(i) <= Len(w) /\ \A j \in 1..Length(i) : w[off[i] + j] = Items(i)[j]
    BY <1>8, <2>1 DEF Placed
  <2>4. \A j \in 1..Length(i) : off[i] + j \in 1..Len(w)
    BY <2>2, <2>3, InBounds
  <2>5. off[i] \in 0..Len(w)
    BY <2>2, <2>3
  <2>6. ASSUME NEW j \in 1..Length(i)
        PROVE  /\ w[off[i] + j].root = i
               /\ w[off[i] + j].source = Source(i, Roots[i].files[j])
               /\ w[off[i] + j].target = Path(Dest, Roots[i].name, TargetCopy(i), Roots[i].files[j])
    <3>1. w[off[i] + j] = [source |-> Source(i, Roots[i].files[j]),
                           target |-> Path(Dest, Roots[i].name, TargetCopy(i), Roots[i].files[j]),
                           root |-> i]
      BY <1>3, <1>9, <2>3
    <3>. QED BY <3>1
  <2>. QED BY <2>2, <2>3, <2>4, <2>5, <2>6
<1>10. ASSUME NEW i \in RootIds, ~Skipped(i)
       PROVE  BeforeIn(w, i) \in 0..Len(w) /\ InPlan(w, i, BeforeIn(w, i))
  <2>1. off[i] \in 0..Len(w) /\ InPlan(w, i, off[i])
    BY <1>9, <1>10 DEF InPlan
  <2>. QED BY <2>1, ChosenBefore
<1>11. ASSUME NEW k \in 1..Len(w)
       PROVE  \E i \in RootIds : ~Skipped(i) /\ k - off[i] \in 1..Length(i)
  <2>1. PICK i \in 1..n : k - off[i] \in 1..Len(s[i])
    BY <1>8 DEF Placed
  <2>2. i \in RootIds
    BY <1>2
  <2>3. ~Skipped(i)
    BY <1>5, <2>1, <2>2
  <2>. QED BY <1>3, <1>5, <2>1, <2>2, <2>3
<1>12. ASSUME NEW k \in 1..Len(w)
       PROVE  LET i == w[k].root
              IN  /\ i \in RootIds /\ ~Skipped(i) /\ k - BeforeIn(w, i) \in 1..Length(i)
                  /\ w[k].target = Path(Dest, Roots[i].name, TargetCopy(i),
                                        Roots[i].files[k - BeforeIn(w, i)])
  <2>1. PICK i \in RootIds : ~Skipped(i) /\ k - off[i] \in 1..Length(i)
    BY <1>11
  <2>2. off[i] \in Nat /\ Length(i) \in Nat /\ off[i] + (k - off[i]) = k
    BY <1>9, <2>1
  <2>3. /\ w[k].root = i
        /\ w[k].target = Path(Dest, Roots[i].name, TargetCopy(i), Roots[i].files[k - off[i]])
    <3>1. \A j \in 1..Length(i) :
            /\ w[off[i] + j].root = i
            /\ w[off[i] + j].target = Path(Dest, Roots[i].name, TargetCopy(i), Roots[i].files[j])
      BY <1>9, <2>1
    <3>. QED BY <2>1, <2>2, <3>1
  <2>4. BeforeIn(w, i) = off[i]
    <3>1. BeforeIn(w, i) \in Nat /\ InPlan(w, i, BeforeIn(w, i))
      BY <1>10, <2>1
    <3>. DEFINE l == BeforeIn(w, i) + 1
    <3>2. 1 \in 1..Length(i)
      BY <2>1, <2>2
    <3>3. l \in 1..Len(w) /\ w[l].root = i /\ w[l].source = Source(i, Roots[i].files[1])
      BY <3>1, <3>2 DEF InPlan
    <3>4. PICK h \in RootIds : ~Skipped(h) /\ l - off[h] \in 1..Length(h)
      BY <1>11, <3>3
    <3>5. off[h] \in Nat /\ off[h] + (l - off[h]) = l
      BY <1>9, <3>1, <3>4
    <3>6. w[l].root = h /\ w[l].source = Source(h, Roots[h].files[l - off[h]])
      <4>1. \A j \in 1..Length(h) :
              /\ w[off[h] + j].root = h
              /\ w[off[h] + j].source = Source(h, Roots[h].files[j])
        BY <1>9, <3>4
      <4>. HIDE DEF l
      <4>. QED BY <3>4, <3>5, <4>1
    <3>7. h = i
      BY <3>3, <3>6
    <3>8. Roots[i].files[l - off[i]] = Roots[i].files[1]
      BY <3>3, <3>6, <3>7, PathParts DEF Source
    <3>9. l - off[i] = 1
      BY <3>2, <3>4, <3>7, <3>8, RootFacts
    <3>. QED BY <2>2, <3>1, <3>9
  <2>. QED BY <2>1, <2>3, <2>4
<1>13. ASSUME NEW k \in 1..Len(w)
       PROVE  /\ w[k].root \in planned' /\ k - BeforeIn(w, w[k].root) \in 1..Length(w[k].root)
              /\ w[k].target \in
                   {Path(Dest, Roots[w[k].root].name, c,
                         Roots[w[k].root].files[k - BeforeIn(w, w[k].root)]) : c \in 0..Copies}
              /\ IF conflict = "replace" THEN w[k].target.copy = 0 ELSE w[k].target \notin before
  <2>. DEFINE i == w[k].root
              j == k - BeforeIn(w, i)
  <2>1. /\ i \in RootIds /\ ~Skipped(i) /\ j \in 1..Length(i)
        /\ w[k].target = Path(Dest, Roots[i].name, TargetCopy(i), Roots[i].files[j])
    BY <1>12
  <2>2. /\ TargetCopy(i) \in 0..Copies
        /\ conflict = "replace" => TargetCopy(i) = 0
        /\ conflict # "replace" => ~Taken(Roots[i].name, TargetCopy(i))
    BY <1>1, <2>1, TargetCopyFacts
  <2>3. conflict # "replace" => w[k].target \notin before
    BY <1>1, <2>1, <2>2, TakenIsBefore
  <2>4. conflict = "replace" => w[k].target.copy = 0
    BY <2>1, <2>2, PathParts
  <2>. QED BY <1>1, <2>1, <2>2, <2>3, <2>4
<1>14. \A i : Before(i)' = BeforeIn(w, i)
  BY <1>1 DEF Before
<1>15. \A k : Index(k)' = k - BeforeIn(w, w[k].root)
  BY <1>1, <1>14 DEF Index
<1>16. \A i \in planned' : Before(i)' \in 0..Len(w) /\ InPlan(w, i, Before(i)')
  BY <1>1, <1>10, <1>14
<1>17. \A k \in 1..Len(w) :
         LET i == w[k].root
         IN  /\ i \in planned' /\ Index(k)' \in 1..Length(i)
             /\ w[k].target \in
                  {Path(Dest, Roots[i].name, c, Roots[i].files[Index(k)']) : c \in 0..Copies}
             /\ IF conflict = "replace" THEN w[k].target.copy = 0 ELSE w[k].target \notin before
  BY <1>13, <1>15
<1>18. PlanInv'
  BY <1>1, <1>16, <1>17 DEF PlanInv
<1>. QED BY <1>1, <1>7, <1>18

LEMMA StartKeeps ==
  ASSUME TransferInv, Start
  PROVE  TransferInv'
<1>1. /\ plan = <<>> /\ pos = 1 /\ succeeded = [i \in RootIds |-> 0] /\ cut = {} /\ ~stopAsked
      /\ report = "none" /\ fs = [p \in Paths |-> IF p \in before THEN p ELSE Nothing]
      /\ TransferTypes /\ phase = "planning"
  BY DEF TransferInv, PlanInv, Start
<1>2. /\ fs' = fs /\ before' = before /\ cut' = cut /\ operation' = operation /\ conflict' = conflict
      /\ pos' = pos /\ root' = root /\ succeeded' = succeeded /\ errors' = errors
      /\ stopAsked' = stopAsked /\ phase' = "taking" /\ report' = "start"
      /\ planned' = {i \in RootIds : ~Skipped(i)}
  BY DEF Start, request
<1>3. plan' \in Seq(PlanItem) /\ PlanInv'
  BY PlanIsMade
<1>4. Len(plan') \in Nat
  BY <1>3, LenProperties
<1>5. errors = 0
  <2>1. Len(plan) = 0
    BY <1>1
  <2>. QED BY <1>1, <2>1 DEF TransferTypes
<1>6. TransferTypes'
  <2>1. pos' \in 1..(Len(plan') + 1) /\ errors' \in 0..Len(plan')
    BY <1>1, <1>2, <1>4, <1>5
  <2>. QED BY <1>1, <1>2, <1>3, <2>1 DEF TransferTypes, PlanItem
<1>7. ASSUME NEW k \in 1..Len(plan')
      PROVE  /\ plan'[k].source \in before /\ plan'[k].source \in Paths
             /\ fs[plan'[k].source] = plan'[k].source
             /\ plan'[k].target \in Paths
             /\ fs[plan'[k].target] # Partial
  <2>1. plan'[k] \in PlanItem
    BY <1>3, ElementOfSeq
  <2>2. plan'[k].source \in before /\ plan'[k].source \in Paths /\ plan'[k].target \in Paths
    BY <1>1, <2>1 DEF PlanItem, TransferInv, BeforeInv, TransferTypes
  <2>. QED BY <1>1, <2>2, PathsAreContents, TransferAssumption
<1>8. BeforeInv' /\ PhaseInv'
  BY <1>1, <1>2, <1>5 DEF TransferInv, BeforeInv, PhaseInv
<1>9. SourceInv'
  <2>. SUFFICES ASSUME NEW k \in 1..Len(plan')
                PROVE  fs'[plan'[k].source] = plan'[k].source
    BY <1>2 DEF SourceInv
  <2>. QED BY <1>2, <1>7
<1>10. StayInv'
  <2>1. \A c \in before : fs[c] = c
    BY <1>1 DEF TransferTypes
  <2>. QED BY <1>2, <2>1 DEF StayInv
<1>11. KeptInv'
  BY <1>2, <1>7 DEF KeptInv
<1>12. PartialInv'
  BY <1>2, <1>7 DEF PartialInv
<1>13. CountInv'
  <2>. SUFFICES ASSUME NEW i \in planned' PROVE Done(i)' = 0
    BY <1>1, <1>2 DEF CountInv
  <2>1. i \in RootIds /\ Before(i)' \in 0..Len(plan')
    BY <1>2, <1>3 DEF PlanInv
  <2>2. Length(i) \in Nat
    BY <2>1, RootFacts
  <2>3. Done(i)' = IF pos' <= Before(i)' THEN 0
                   ELSE IF pos' > Before(i)' + Length(i) THEN Length(i) ELSE pos' - 1 - Before(i)'
    BY DEF Done, DoneAt
  <2>. QED BY <1>1, <1>2, <1>4, <2>1, <2>2, <2>3
<1>14. ErrorInv'
  <2>1. \A k \in 1..Len(plan') : ~(k < 1)
    BY <1>4
  <2>. QED BY <1>1, <1>2, <2>1 DEF ErrorInv
<1>. QED BY <1>3, <1>6, <1>8, <1>9, <1>10, <1>11, <1>12, <1>13, <1>14 DEF TransferInv
-----------------------------------------------------------------------------
LEMMA TransferInvInit ==
  ASSUME TransferInit
  PROVE  TransferInv
<1>1. /\ plan = <<>> /\ Len(plan) = 0 /\ pos = 1 /\ planned = {} /\ succeeded = [i \in RootIds |-> 0]
      /\ cut = {} /\ stopAsked = FALSE /\ report = "none" /\ phase = "planning" /\ errors = 0 /\ root = 1
      /\ fs = [p \in Paths |-> IF p \in before THEN p ELSE Nothing]
      /\ operation \in Operations /\ conflict \in Conflicts
  BY DEF TransferInit
<1>2. PICK old \in SUBSET Old : before = Sources \cup old
  BY DEF TransferInit
<1>3. Old \subseteq Paths /\ Sources \subseteq Paths
  BY SourcePaths, TransferAssumption DEF Sources
<1>4. TransferTypes
  <2>1. 1 \in RootIds
    BY TransferAssumption
  <2>2. fs \in [Paths -> Paths \cup {Nothing, Partial}] /\ before \subseteq Paths
    BY <1>1, <1>2, <1>3
  <2>3. plan \in Seq([source : Sources, target : Paths, root : RootIds])
    BY <1>1
  <2>4. pos \in 1..(Len(plan) + 1) /\ errors \in 0..Len(plan) /\ succeeded \in [RootIds -> Nat]
    BY <1>1
  <2>. QED BY <1>1, <2>1, <2>2, <2>3, <2>4 DEF TransferTypes
<1>5. PlanInv
  BY <1>1, <1>2 DEF PlanInv
<1>6. BeforeInv
  <2>1. ASSUME NEW i \in RootIds, NEW c \in before, c \in Within(i)
        PROVE  \E f \in FilesOf(i) : c = Source(i, f)
    <3>1. Old \cap Within(i) = {}
      BY TransferAssumption
    <3>2. c \in Sources
      BY <1>2, <2>1, <3>1
    <3>3. PICK j \in RootIds : \E f \in FilesOf(j) : c = Source(j, f)
      BY <3>2 DEF Sources
    <3>4. Roots[i].dir = Roots[j].dir /\ Roots[i].name = Roots[j].name
      BY <2>1, <3>3, PathParts DEF Within, Source
    <3>5. i = j
      BY <3>4, RootFacts
    <3>. QED BY <3>3, <3>5
  <2>. QED BY <1>2, <2>1 DEF BeforeInv
<1>7. PhaseInv /\ SourceInv /\ KeptInv /\ PartialInv /\ CountInv /\ ErrorInv
  BY <1>1 DEF PhaseInv, SourceInv, KeptInv, PartialInv, CountInv, ErrorInv
<1>8. StayInv
  BY <1>1, <1>2, <1>3 DEF StayInv
<1>. QED BY <1>4, <1>5, <1>6, <1>7, <1>8 DEF TransferInv

LEMMA TransferInvNext ==
  ASSUME TransferInv, [TransferNext]_transferVars
  PROVE  TransferInv'
<1>1. CASE phase = "planning" /\ TransferNext
  <2>1. Start
    BY <1>1 DEF TransferNext, Transfer, TakeItem, RenameItem, RenameFails, OpenSource, SourceFails,
         Fill, StopFill, WriteFails, FinishItem, EndItems, RemoveRoot, ReportEnd, Cancel, Die, AddFile,
         UnderWay
  <2>. QED BY <2>1, StartKeeps
<1>2. CASE phase # "planning" /\ TransferNext
  BY <1>2, TypesStay, PlanInvStays, BeforeInvStays, PhaseInvStays, SourceInvStays, StayInvStays,
     KeptInvStays, PartialInvStays, CountInvStays, ErrorInvStays DEF TransferInv
<1>3. CASE UNCHANGED transferVars
  <2>1. /\ fs' = fs /\ before' = before /\ cut' = cut /\ operation' = operation /\ conflict' = conflict
        /\ planned' = planned /\ plan' = plan /\ pos' = pos /\ root' = root /\ phase' = phase
        /\ succeeded' = succeeded /\ errors' = errors /\ stopAsked' = stopAsked /\ report' = report
    BY <1>3 DEF transferVars, request, plans
  <2>2. Replaced' = Replaced /\ \A i : Before(i)' = Before(i) /\ Done(i)' = Done(i)
    BY <2>1 DEF Replaced, Before, Done, DoneAt
  <2>3. \A k : Index(k)' = Index(k) /\ Self(k)' = Self(k) /\ Single(k)' = Single(k)
               /\ Arrived(k)' = Arrived(k)
    BY <2>1, <2>2 DEF Index, Self, Single, Arrived
  <2>4. TransferTypes' /\ BeforeInv' /\ PhaseInv' /\ StayInv'
    BY <2>1, <2>2 DEF TransferInv, TransferTypes, BeforeInv, PhaseInv, StayInv
  <2>5. PlanInv'
    BY <2>1, <2>2, <2>3 DEF TransferInv, PlanInv
  <2>6. SourceInv' /\ KeptInv' /\ PartialInv' /\ ErrorInv'
    BY <2>1, <2>3 DEF TransferInv, SourceInv, KeptInv, PartialInv, ErrorInv, Self, Arrived, Single
  <2>7. CountInv'
    BY <2>1, <2>2, <2>3 DEF TransferInv, CountInv, Self, Arrived
  <2>. QED BY <2>4, <2>5, <2>6, <2>7 DEF TransferInv
<1>. QED BY <1>1, <1>2, <1>3

LEMMA TransferInvHolds == TransferSpec => []TransferInv
<1>. QED BY TransferInvInit, TransferInvNext, PTL DEF TransferSpec

(* Whatever the sources, the destination and the failures: what the transfer    *)
(* reports at its end is what lies on the disk.                                 *)
THEOREM TransferIsSound == TransferSpec => []TransferSound
<1>1. ASSUME TransferInv PROVE TransferSound
  <2>1. TransferTypes
    BY <1>1 DEF TransferInv
  <2>. SUFFICES ASSUME phase = "done", NEW k \in DOMAIN plan, plan[k].source \notin cut,
                       ~Twin(plan[k].root)
                PROVE  /\ fs[plan[k].target] # Partial
                       /\ report = "complete" /\ errors = 0 => fs[plan[k].target] = plan[k].source
    BY <2>1 DEF TransferSound, OutcomeIsOnDisk
  <2>2. k \in 1..Len(plan) /\ Single(k) /\ Len(plan) \in Nat
    BY <2>1, PlanIsSequence DEF Single
  <2>3. fs[plan[k].target] # Partial
    BY <1>1, <2>2 DEF TransferInv, PartialInv
  <2>4. ASSUME report = "complete", errors = 0 PROVE fs[plan[k].target] = plan[k].source
    <3>1. pos > Len(plan) /\ pos \in 1..(Len(plan) + 1)
      BY <1>1, <2>1, <2>4 DEF TransferInv, PhaseInv, TransferTypes
    <3>2. k < pos
      BY <2>2, <3>1
    <3>. QED BY <1>1, <2>2, <2>4, <3>2 DEF TransferInv, ErrorInv, Arrived
  <2>. QED BY <2>3, <2>4
<1>. QED BY <1>1, TransferInvHolds, PTL

(* Whatever fails, is cancelled or dies, and whatever files other programs add: *)
(* every content is whole somewhere, unless it is one the user asked to replace *)
(* or one that a move forfeits or displaces.                                     *)
THEOREM NothingIsLost == TransferSpec => []NothingLost
<1>1. ASSUME TransferInv PROVE NothingLost
  <2>. SUFFICES ASSUME NEW c \in before
                PROVE  \/ \E p \in Paths : fs[p] = c
                       \/ conflict = "replace" /\ c \in Replaced
                       \/ Forfeited(c)
                       \/ Displaced(c)
    BY DEF NothingLost
  <2>1. TransferTypes /\ PlanInv /\ BeforeInv /\ c \in Paths
    BY <1>1 DEF TransferInv, TransferTypes
  <2>2. CASE c \in Replaced
    <3>1. PICK k \in 1..Len(plan) : plan[k].target = c
      BY <2>1, <2>2, PlanIsSequence DEF Replaced
    <3>2. conflict = "replace"
      BY <2>1, <3>1, Item
    <3>. QED BY <2>2, <3>2
  <2>3. CASE fs[c] = c
    BY <2>1, <2>3
  <2>4. CASE c \notin Replaced /\ fs[c] # c
    <3>1. operation # "copy" /\ \E i \in planned : c \in Within(i)
      BY <1>1, <2>4 DEF TransferInv, StayInv
    <3>2. operation = "move"
      BY <2>1, <3>1, TransferAssumption DEF TransferTypes
    <3>3. PICK i \in planned : c \in Within(i)
      BY <3>1
    <3>4. i \in RootIds
      BY <2>1, <3>3 DEF TransferTypes
    <3>5. CASE Twin(i)
      BY <3>2, <3>3, <3>4, <3>5 DEF Displaced
    <3>6. CASE c.file = Added
      BY <3>2, <3>6 DEF Forfeited
    <3>7. CASE ~Twin(i) /\ c.file # Added
      <4>1. PICK f \in FilesOf(i) : c = Source(i, f)
        BY <2>1, <3>3, <3>4, <3>7 DEF BeforeInv
      <4>2. PICK j \in 1..Length(i) : f = Roots[i].files[j]
        BY <3>4, RootFacts
      <4>3. /\ Before(i) + j \in 1..Len(plan) /\ plan[Before(i) + j].root = i
            /\ plan[Before(i) + j].source = c
        BY <2>1, <3>3, <4>1, <4>2 DEF PlanInv, InPlan
      <4>4. PICK k \in 1..Len(plan) : plan[k].root = i /\ plan[k].source = c
        BY <4>3
      <4>5. Single(k) /\ ~Self(k)
        BY <2>1, <2>4, <3>7, <4>4, PlanIsSequence DEF Single, Self, Replaced
      <4>6. Arrived(k)
        BY <1>1, <2>4, <4>4, <4>5 DEF TransferInv, KeptInv
      <4>7. plan[k].target \in Paths
        BY <2>1, PlanIsSequence
      <4>. QED BY <3>2, <4>4, <4>6, <4>7 DEF Arrived, Forfeited
    <3>. QED BY <3>5, <3>6, <3>7
  <2>. QED BY <2>2, <2>3, <2>4
<1>. QED BY <1>1, TransferInvHolds, PTL
=============================================================================
