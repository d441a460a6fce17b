--------------------------- MODULE MCTargetOwnership ---------------------------
(* TargetOwnership for TLC: the constants are model values.                  *)
EXTENDS TargetOwnership, TLC

(* Tool tabs are interchangeable. *)
TabSymmetry == Permutations(ToolTabs)

================================================================================
