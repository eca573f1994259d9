----------------------------- MODULE MCTaskSync -----------------------------
(* Values for the constants of TaskSync that a .cfg cannot write. *)
EXTENDS TaskSync

SameClock  == {0}
=============================================================================
