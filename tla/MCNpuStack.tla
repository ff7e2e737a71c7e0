----------------------------- MODULE MCNpuStack -----------------------------
(* Two threads list the devices; one buffer, since buffers do not meet.       *)
EXTENDS NpuStack, TLC

CONSTANTS t1, t2, b1

MCThread == {t1, t2}
MCBuf == {b1}
=============================================================================
