--------------------------- MODULE MCProfileTests ---------------------------
(* Instance of ProfileTests for TLC. *)
EXTENDS ProfileTests
=============================================================================
