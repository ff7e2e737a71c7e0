---------------------------- MODULE NpuAllocator ----------------------------
(***************************************************************************)
(* What the HIP memory shim (rocm-npu/hip_npu_memory.cpp) promises to an   *)
(* application, with no mutex, no descriptors and no steps inside a call:  *)
(* an address names at most one buffer at a time, a buffer has one         *)
(* address, and the memory of a buffer never goes away under a copy.       *)
(***************************************************************************)
CONSTANTS Thread, Addr, Bo, None

VARIABLES live,   \* the buffer object each address names, or None
          busy    \* the addresses each thread is copying from or to

vars == <<live, busy>>

Init == /\ live = [a \in Addr |-> None]
        /\ busy = [t \in Thread |-> {}]

Alloc(a, b) == /\ live[a] = None
               /\ \A c \in Addr : live[c] # b
               /\ live' = [live EXCEPT ![a] = b]
               /\ UNCHANGED busy

Free(a) == /\ live[a] # None
           /\ \A t \in Thread : a \notin busy[t]
           /\ live' = [live EXCEPT ![a] = None]
           /\ UNCHANGED busy

\* A copy may name addresses that are no buffers; it is busy with the others.
BeginCopy(t, S) == /\ busy[t] = {}
                   /\ S # {}
                   /\ \A a \in S : live[a] # None
                   /\ busy' = [busy EXCEPT ![t] = S]
                   /\ UNCHANGED live

EndCopy(t) == /\ busy[t] # {}
              /\ busy' = [busy EXCEPT ![t] = {}]
              /\ UNCHANGED live

Next == \/ \E a \in Addr, b \in Bo : Alloc(a, b)
        \/ \E a \in Addr : Free(a)
        \/ \E t \in Thread : \/ \E S \in SUBSET Addr : BeginCopy(t, S)
                             \/ EndCopy(t)

Spec == Init /\ [][Next]_vars
=============================================================================
