---------------------------- MODULE MCTosSignals ----------------------------
(* TosSignals for TLC; the constants are in MCTosSignals.cfg.               *)
EXTENDS TosSignals
=============================================================================
