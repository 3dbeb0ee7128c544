---------------------------- MODULE MCPhpThreads -----------------------------
(* Small instances of PhpThreads for TLC. *)
EXTENDS PhpThreadsInv
=============================================================================
