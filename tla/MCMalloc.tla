------------------------------ MODULE MCMalloc ------------------------------
(* The instance of Malloc that TLC checks: pages of 64 bytes and blocks of *)
(* one or two pages, so that a few calls fill, split, merge and return them. *)
EXTENDS Malloc
=============================================================================
