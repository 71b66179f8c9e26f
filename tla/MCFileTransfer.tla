--------------------------- MODULE MCFileTransfer ---------------------------
(* Model checking of FileTransfer: a directory of two files and a single     *)
(* file, and a file of the same name that lies in the destination.           *)
EXTENDS FileTransfer

Folder == [dir |-> "home", name |-> "folder", files |-> <<"a", "b">>, isDir |-> TRUE]
Note == [dir |-> "home", name |-> "note", files |-> <<"self">>, isDir |-> FALSE]
DestNote == [dir |-> "dest", name |-> "note", files |-> <<"self">>, isDir |-> FALSE]

MCRoots == <<Folder, Note, DestNote>>
MCOld == {Path("dest", "folder", 0, "a"), Path("dest", "folder", 0, "b"),
          Path("dest", "note", 1, "self")}
=============================================================================
