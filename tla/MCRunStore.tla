----------------------------- MODULE MCRunStore -----------------------------
(* Small instances of RunStore for TLC; the constants are in the .cfg files. *)
EXTENDS RunStore
=============================================================================
