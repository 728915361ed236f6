--------------------------- MODULE MCBatchDialog ---------------------------
(* A small instance of BatchDialog: one selection of two nodes, one of a   *)
(* single other node.                                                      *)
EXTENDS BatchDialog

MCTargets == {<<1, 2>>, <<3>>}
=============================================================================
