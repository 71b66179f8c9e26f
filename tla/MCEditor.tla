------------------------------ MODULE MCEditor ------------------------------
(* Model checking of Editor: a document of a paragraph and a box with a list *)
(* item in it, and a bundle with a picture. A behaviour has a few gestures,  *)
(* of the kinds that one element of MCKindSets allows.                       *)
EXTENDS Editor, TLC

CONSTANTS class1, path1

MCTitles == {"", "a", "b"}
MCSlug == [t \in MCTitles |-> IF t = "" THEN "u" ELSE t]
MCWords == {{"w"}, {"#"}}
MCHeading == {"#"}

Blk(type, id, depth, text) == [CreateBlock(type, id) EXCEPT !.depth = depth, !.text = text]

Document(id, blocks, pics) ==
  [id |-> id, title |-> "", file |-> "", page |-> 0,
   styles |-> [c \in Classes |-> "none"], blocks |-> blocks, pics |-> pics]

MCNewDocument ==
  Document(1, <<Blk("p", 11, 0, {"x"}), Blk("box", 12, 0, {}), Blk("li", 13, 1, {"y"})>>, Null)
MCOnDisk == (path1 :> Document(2, <<Blk("p", 21, 0, {}), Blk("img", 22, 0, {"asset"})>>, path1))

Typing == {"type", "click"}

MCKindSets ==
  {Typing \cup s : s \in
    {{"arrow", "escape"}, {"delete", "undo"}, {"escape", "undo"},
     {"enter", "backspace", "context"}, {"rail", "context"}, {"context", "undo"},
     {"contextKey", "undo"}, {"headerSave", "close"}, {"toolbar"}, {"tree", "undo"},
     {"style", "undo"}, {"content"}, {"document"}, {"export"}}}
  \cup
  {{"tree", "delete", "undo"}, {"style", "toolbar"}, {"image", "open", "contextKey", "click"},
   {"analyze", "contextKey", "toolbar"}, {"analyze", "token", "contextKey"},
   {"open", "save", "contextKey"}, {"save", "document", "contextKey"},
   {"import", "undo", "contextKey", "save"}, {"export", "contextKey"},
   {"open", "contextKey", "tree"}}
=============================================================================
