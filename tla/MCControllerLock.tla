--------------------------- MODULE MCControllerLock ---------------------------
(* ControllerLock for TLC. Processes of one host are interchangeable.        *)
EXTENDS ControllerLock, TLC

ProcSymmetry == Permutations(Procs \ Remote) \cup Permutations(Remote)

===============================================================================
