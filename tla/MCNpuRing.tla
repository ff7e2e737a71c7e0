----------------------------- MODULE MCNpuRing ------------------------------
(* NpuRing on rings of a few words.                                          *)
EXTENDS NpuRing
=============================================================================
