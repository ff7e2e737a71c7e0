------------------------------- MODULE NpuGtt -------------------------------
(***************************************************************************)
(* The GTT manager, patches/amdgpu_npu_mgr.c: buffers in system memory     *)
(* that stay pinned while their owner has them, and their export as        *)
(* dma-bufs, which the NPU imports.  Owners keep the rules: only a buffer  *)
(* that alloc_gtt returned 0 for is exported or freed, and it is freed     *)
(* once.                                                                   *)
(***************************************************************************)
EXTENDS Integers, FiniteSets

CONSTANT Buf
VARIABLES
    accel,   \* the node of the NPU is there
    pc,      \* where each buffer is between its manager's calls
    refs,    \* references amdgpu counts for the object
    pins,    \* pins amdgpu counts for it
    shares   \* who shares it: "fd", a descriptor, and "npu", its import

Init ==
    /\ pc = [b \in Buf |-> "none"]
    /\ refs = [b \in Buf |-> 0]
    /\ pins = [b \in Buf |-> 0]
    /\ shares = [b \in Buf |-> {}]

Step(b, from, to) == pc[b] = from /\ pc' = [pc EXCEPT ![b] = to]

\* Where the allocation itself fails nothing changes.
Alloc(b) ==
    /\ refs[b] = 0
    /\ Step(b, "none", "alloc")
    /\ refs' = [refs EXCEPT ![b] = 1]
    /\ UNCHANGED <<pins, shares>>

Pin(b) ==
    /\ Step(b, "alloc", "owned")
    /\ pins' = [pins EXCEPT ![b] = @ + 1]
    /\ UNCHANGED <<refs, shares>>

\* BUG: the buffer that could not be pinned is left.
PinFailsLeaks(b) ==
    /\ Step(b, "alloc", "none")
    /\ UNCHANGED <<refs, pins, shares>>

PinFails(b) ==
    /\ Step(b, "alloc", "none")
    /\ refs' = [refs EXCEPT ![b] = @ - 1]
    /\ UNCHANGED <<pins, shares>>

\* A share holds the object by a reference of its own.
Share(b, who) ==
    /\ who \notin shares[b]
    /\ shares' = [shares EXCEPT ![b] = @ \cup {who}]
    /\ refs' = [refs EXCEPT ![b] = @ + 1]

Export(b) ==
    /\ Step(b, "owned", "owned")
    /\ Share(b, "fd")
    /\ UNCHANGED pins

Import(b) ==
    /\ accel
    /\ "fd" \in shares[b]
    /\ Share(b, "npu")
    /\ UNCHANGED <<pc, pins>>

EndShare(b) ==
    /\ \E who \in shares[b] : shares' = [shares EXCEPT ![b] = @ \ {who}]
    /\ refs' = [refs EXCEPT ![b] = @ - 1]
    /\ UNCHANGED <<pc, pins>>

\* BUG: freed as a buffer that was never pinned.
UnpinForgotten(b) ==
    /\ Step(b, "owned", "free")
    /\ UNCHANGED <<refs, pins, shares>>

Unpin(b) ==
    /\ Step(b, "owned", "free")
    /\ pins' = [pins EXCEPT ![b] = @ - 1]
    /\ UNCHANGED <<refs, shares>>

Free(b) ==
    /\ Step(b, "free", "none")
    /\ refs' = [refs EXCEPT ![b] = @ - 1]
    /\ UNCHANGED <<pins, shares>>

Next == \E b \in Buf :
    \/ Alloc(b) \/ Pin(b) \/ PinFails(b) \/ Export(b)
    \/ Import(b) \/ EndShare(b) \/ Unpin(b) \/ Free(b)

TypeOK ==
    /\ pc \in [Buf -> {"none", "alloc", "owned", "free"}]
    /\ refs \in [Buf -> 0..3]
    /\ pins \in [Buf -> 0..1]
    /\ shares \in [Buf -> SUBSET {"fd", "npu"}]
=============================================================================
