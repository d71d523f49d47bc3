---------------------------- MODULE MCSchemaInit ----------------------------
(***************************************************************************)
(* Small instances of SchemaInit for TLC.                                  *)
(***************************************************************************)
EXTENDS SchemaInit

(* Two openers of one build and one of the next; nobody has version 3.     *)
ThreeOpeners == {"o1", "o2", "o3"}
ThreeVersions == {1, 2, 3}
ThreeBuilds == [o \in ThreeOpeners |-> IF o = "o3" THEN 2 ELSE 1]

OneOpener == {"o1"}
OneVersion == {1}
OneBuild == [o \in OneOpener |-> 1]

=============================================================================
