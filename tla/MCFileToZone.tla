---------------------------- MODULE MCFileToZone ----------------------------
(* Model checking of FileToZone: three files at home, two of which have the    *)
(* name of a resident of the zone, and one its row id.                         *)
EXTENDS FileToZone, TLC

CONSTANTS file1, file2, file3, resident

MCFiles == {file1, file2, file3, resident}
MCResident == {resident}
MCNameOf == (file1 :> "same" @@ file2 :> "other" @@ file3 :> "same" @@ resident :> "same")
MCIdOf == (file1 :> 1 @@ file2 :> 2 @@ file3 :> 3 @@ resident :> 2)

Symmetry == Permutations(Callers)
=============================================================================
