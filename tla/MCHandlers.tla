---------------------------- MODULE MCHandlers ----------------------------
(* Small instances of Handlers for TLC.                                    *)
EXTENDS Handlers
=============================================================================
