---------------------------- MODULE MCNpuIpBlock ----------------------------
(* Two tasks and two loads: an ioctl of one load may meet the next.         *)
EXTENDS NpuIpBlock, TLC

CONSTANTS t1, t2

MCTask == {t1, t2}
MCSymmetry == Permutations(MCTask)
=============================================================================
