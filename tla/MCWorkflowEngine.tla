--------------------------- MODULE MCWorkflowEngine ---------------------------
(* WorkflowEngine for TLC.                                                   *)
EXTENDS WorkflowEngine, TLC

CONSTANT d1

(* An agent succeeds with data or fails without. The accounting treats       *)
(* PARTIAL, which forced completions report, like SUCCESS.                   *)
SomeReports == {<<"SUCCESS", d1>>, <<"FAIL", None>>}

Symmetry == Permutations(Workers)

===============================================================================
