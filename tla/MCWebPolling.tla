---------------------------- MODULE MCWebPolling ----------------------------
(* WebPolling, with two runs of one workflow.                              *)
EXTENDS WebPolling

CONSTANT wa

MCKey == {wa}
MCKeyOf == [r \in Run |-> wa]
=============================================================================
