-------------------------- MODULE MCCodexSession --------------------------
(* Three runs in two seconds: enough for a fresh run, an interruption, a   *)
(* resumption and a run on the same file, with one failing write or thread.*)
EXTENDS CodexSession
===========================================================================
