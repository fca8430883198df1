------------------------------ MODULE MCShutdown ------------------------------
(* Shutdown for TLC: one task of each kind.                                    *)
EXTENDS Shutdown
=============================================================================
