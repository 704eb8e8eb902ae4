---------------------------- MODULE StepChannel ----------------------------
(***************************************************************************)
(* What a client that traces a process is promised: steps and reports      *)
(* alternate.  A traced thread takes a step only when the report of the    *)
(* step before has been fetched, and no report is fetched twice.           *)
(***************************************************************************)
EXTENDS Naturals

VARIABLES
    sent,      \* how many steps have been reported
    received   \* how many reports a client has fetched

ChannelInit == sent = 0 /\ received = 0

Send == sent = received /\ sent' = sent + 1 /\ UNCHANGED received

Receive == received < sent /\ received' = received + 1 /\ UNCHANGED sent

ChannelSpec == ChannelInit /\ [][Send \/ Receive]_<<sent, received>>
=============================================================================
