--------------------------- MODULE MCHipNpuMemory ---------------------------
(* HipNpuMemory with sets small enough for TLC and the symmetry they allow.  *)
EXTENDS HipNpuMemory, TLC

MCSymmetry == Permutations(Thread) \cup Permutations(Addr)
                  \cup Permutations(Bo) \cup Permutations(Fd)
=============================================================================
