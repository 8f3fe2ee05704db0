--------------------------- MODULE MCUidBootstrap ---------------------------
(* A small instance of UidBootstrap. *)
EXTENDS UidBootstrap

MCProgram == <<"barrier", "gather", "barrier">>
=============================================================================
