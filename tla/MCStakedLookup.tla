--------------------------- MODULE MCStakedLookup ---------------------------
(* The instance of MCStakedNotaries, with the era thread and a caller of  *)
(* StakedNotaryID interleaved.                                             *)
EXTENDS StakedLookup, MCStakedNotaries
=============================================================================
