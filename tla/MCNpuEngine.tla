---------------------------- MODULE MCNpuEngine ----------------------------
(* The prompt, the number of tokens and the array sizes are the code's.      *)
EXTENDS NpuEngine
=============================================================================
