--------------------------- MODULE MCWorkflowRun ---------------------------
(* Small instances of WorkflowRun.                                         *)
EXTENDS WorkflowRun, TLC

Params(s, z, f) == [status |-> s, includeZombie |-> z, forceCleanupActive |-> f]

(* The default clean-up, as the administration page sends it.              *)
TerminalOnly == {Params(Terminal, FALSE, FALSE)}

(* ... and with zombies or every active run.                               *)
Sweeps == {Params(Status, TRUE, FALSE), Params({"running"}, FALSE, TRUE)}

AllRequests == TerminalOnly \cup Sweeps

FlowSymmetry == Permutations(Flow)
=============================================================================
