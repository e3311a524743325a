------------------------------ MODULE MCPscMsg ------------------------------
(* PscMsg with a few short messages: sizes are scaled down, and one message is *)
(* longer than rxbuf by more than two chunks.                                  *)
EXTENDS PscMsg

MCMsgs == << [kind |-> "single", len |-> 1],
             [kind |-> "msg", len |-> 0],
             [kind |-> "msg", len |-> 7],
             [kind |-> "msg", len |-> 2] >>
=============================================================================
