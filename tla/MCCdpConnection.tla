--------------------------- MODULE MCCdpConnection ---------------------------
(* CdpConnection for TLC: interchangeable operations.                        *)
EXTENDS CdpConnection, TLC

OpSymmetry == Permutations(Ops)

=============================================================================
