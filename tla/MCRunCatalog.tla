---------------------------- MODULE MCRunCatalog ----------------------------
(* RunCatalog with a channel of one update: the loop waits for the writer. *)
EXTENDS RunCatalog
=============================================================================
