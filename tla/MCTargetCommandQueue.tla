------------------------ MODULE MCTargetCommandQueue ------------------------
(* TargetCommandQueue for TLC: interchangeable commands.                     *)
EXTENDS TargetCommandQueue, TLC

CommandSymmetry == Permutations(Commands)

=============================================================================
