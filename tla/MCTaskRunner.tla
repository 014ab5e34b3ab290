---------------------------- MODULE MCTaskRunner ----------------------------
(***************************************************************************)
(* Two scheduler threads (the program starts one; SerialTaskRunner is      *)
(* written for any number), two threads that insert callbacks, and a queue *)
(* that is long when a callback waits.                                     *)
(***************************************************************************)
EXTENDS TaskRunner
=============================================================================
