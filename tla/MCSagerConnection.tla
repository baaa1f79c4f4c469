------------------------- MODULE MCSagerConnection -------------------------
(* SagerConnection with a few deaths, changes and calls.                    *)
EXTENDS SagerConnection
=============================================================================
