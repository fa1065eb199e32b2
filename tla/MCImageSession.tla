-------------------------- MODULE MCImageSession --------------------------
(* The instance of ImageSession that TLC checks: two images with one stem,  *)
(* whose zips differ in length, and a file that is no image.               *)
EXTENDS ImageSession

Files    == {"a.png", "a.jpg", "b.png", "notes"}
Pictures == {"a.png", "a.jpg", "b.png"}
Stems    == [i \in Files |-> IF i \in {"a.png", "a.jpg"} THEN "a" ELSE i]
Lengths  == [i \in Files |-> IF i = "a.png" THEN 2 ELSE 1]
=============================================================================
