--------------------------- MODULE MCInterceptAll ---------------------------
(* A small instance of InterceptAll for TLC. *)
EXTENDS InterceptAll

CONSTANTS c1, c2, c3, client1, client2, p1, p2, h1, h2
=============================================================================
