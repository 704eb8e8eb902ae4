------------------------------ MODULE MCDriver ------------------------------
(* A small instance of Driver for TLC. *)
EXTENDS Driver

\* The codes next to the table of handlers.
MCRawCodes == {2047, 2059}
=============================================================================
