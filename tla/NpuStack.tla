------------------------------ MODULE NpuStack ------------------------------
(***************************************************************************)
(* What stands between an application and the NPU: the driver's start      *)
(* (AieHwStart), which makes the node /dev/accel/accel0, the listing of    *)
(* the devices in the application (HipDevices), which opens the node, and  *)
(* the pinned buffers (NpuGtt) whose exports the NPU imports through it.   *)
(***************************************************************************)
EXTENDS Integers, FiniteSets

CONSTANTS Thread, Buf, MaxGpus

ASSUME MaxGpusIsNat == MaxGpus \in Nat

VARIABLES
    at, fault, held,                                   \* AieHwStart
    gpus, g_real_gpu_count, pc, id, count, seen,       \* HipDevices
    stage, refs, pins, shares                          \* NpuGtt

Hw == INSTANCE AieHwStart
Dev == INSTANCE HipDevices WITH accel <- Hw!Accel
Gtt == INSTANCE NpuGtt WITH accel <- Hw!Accel, pc <- stage

start == <<at, fault, held>>
listing == <<gpus, g_real_gpu_count, pc, id, count, seen>>
buffers == <<stage, refs, pins, shares>>
vars == <<start, listing, buffers>>

Init == Hw!Init /\ Dev!Init /\ Gtt!Init

HwStep == Hw!Next /\ UNCHANGED <<listing, buffers>>
DevStep == Dev!Next /\ UNCHANGED <<start, buffers>>
GttStep == Gtt!Next /\ UNCHANGED <<start, listing>>

Next == HwStep \/ DevStep \/ GttStep

\* A start that has been begun goes on; nothing else has to.
Spec == Init /\ [][Next]_vars
        /\ WF_vars(Hw!HwStart /\ UNCHANGED <<listing, buffers>>)

-----------------------------------------------------------------------------
(* Correctness.                                                             *)

\* Types, of all three parts.
TypeOK == Hw!TypeOK /\ Dev!TypeOK /\ Gtt!TypeOK

\* The labels of the patch release what is held, each thing once, whatever call
\* has failed, and a start that failed holds nothing.
UnwindsExactly ==
    /\ at \in Hw!Label => Hw!Releases(at) \in held
    /\ at = "off" => held = {}

\* The PSP has loaded the firmware before the SMU is asked: a start in which no
\* call fails of itself brings the NPU up (docs/wiki/smu-init-order.md).
StartSucceeds == (at = "enable" /\ fault = "none") ~> at = "up"

\* Whenever the driver comes and goes, and whichever thread fills the cached
\* count first, a thread is shown every GPU as a GPU, and as the NPU only the
\* device after them.
DevicesAreNamed ==
    \A t \in Thread : \A d \in seen[t] : d[2] = "npu" <=> d[1] = gpus

\* amdgpu counts one reference for the owner and one for each share, so that a
\* buffer lives on until its last holder is gone; it is pinned as long as it has
\* an owner, and no pin and no reference is left once nobody holds it.
BuffersBalance ==
    \A b \in Buf :
        /\ refs[b] = (IF stage[b] = "none" THEN 0 ELSE 1) + Cardinality(shares[b])
        /\ stage[b] = "owned" => pins[b] = 1
        /\ refs[b] = 0 => pins[b] = 0
=============================================================================
