--------------------------- MODULE MCCopyBarrier ---------------------------
(* Two workers and two slots; three files in the root, one of them not to  *)
(* be created at the destination, and two more in a subdirectory, one of   *)
(* them not to be read.  Three pairs pass through two slots, so the        *)
(* manager finds the buffer full.                                          *)
EXTENDS CopyBarrier

MCEntries == {"a", "b", "d", "sub", "c", "e"}
MCKind    == [x \in MCEntries |-> IF x = "sub" THEN "directory" ELSE "regular"]
MCParent  == [x \in MCEntries |-> IF x \in {"c", "e"} THEN "sub" ELSE "root"]
=============================================================================
