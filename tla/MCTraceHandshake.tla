-------------------------- MODULE MCTraceHandshake --------------------------
(* A small instance of TraceHandshake for TLC. *)
EXTENDS TraceHandshake

\* All instructions but the last lie where the host page tables map them.
MCMapped == 1..(MaxSteps - 1)
=============================================================================
