----------------------------- MODULE HipDevices -----------------------------
(***************************************************************************)
(* The device shim, rocm-npu/hip_npu.cpp: hipGetDeviceCount adds one for   *)
(* the NPU when its node can be opened, hipGetDeviceProperties answers for *)
(* it by comparing the id with a count of the GPUs that it has asked for   *)
(* once.  Any number of threads of an application list the devices as      *)
(* tests/hip_list_devices.cpp does: the ids below the last count.          *)
(***************************************************************************)
EXTENDS Integers

CONSTANTS Thread,
          MaxGpus   \* bound: GPUs in the machine

VARIABLES
    accel,    \* the node of the NPU is there
    gpus,     \* GPUs the real HIP finds
    g_real_gpu_count,
    pc, id,   \* each thread's call and its deviceId
    count,    \* the last count each thread was given
    seen      \* the devices each thread was shown: pairs of id and name

Init ==
    /\ gpus \in 0..MaxGpus
    /\ g_real_gpu_count = -1
    /\ pc = [t \in Thread |-> "idle"]
    /\ id = [t \in Thread |-> 0]
    /\ count = [t \in Thread |-> 0]
    /\ seen = [t \in Thread |-> {}]

Goto(t, next) == pc' = [pc EXCEPT ![t] = next]

\* The real count comes first; without a GPU it is an error, and the answer.
GetCount(t) ==
    /\ pc[t] = "idle"
    /\ Goto(t, IF gpus = 0 THEN "idle" ELSE "open")
    /\ seen' = [seen EXCEPT ![t] = {}]
    /\ count' = [count EXCEPT ![t] = 0]
    /\ UNCHANGED <<gpus, g_real_gpu_count, id>>

AddNpu(t) ==
    /\ pc[t] = "open"
    /\ count' = [count EXCEPT ![t] = IF accel THEN gpus + 1 ELSE gpus]
    /\ Goto(t, "idle")
    /\ UNCHANGED <<gpus, g_real_gpu_count, id, seen>>

\* The test of the cached count.
GetProperties(t) ==
    /\ pc[t] = "idle"
    /\ \E i \in 0..count[t] - 1 : id' = [id EXCEPT ![t] = i]
    /\ Goto(t, IF g_real_gpu_count < 0 THEN "fill" ELSE "compare")
    /\ UNCHANGED <<gpus, g_real_gpu_count, count, seen>>

\* BUG: the count comes from the shim's own hipGetDeviceCount.
FillCounted(t) ==
    /\ pc[t] = "fill"
    /\ g_real_gpu_count' = IF accel THEN gpus + 1 ELSE gpus
    /\ Goto(t, "compare")
    /\ UNCHANGED <<gpus, id, count, seen>>

Fill(t) ==
    /\ pc[t] = "fill"
    /\ g_real_gpu_count' = gpus
    /\ Goto(t, "compare")
    /\ UNCHANGED <<gpus, id, count, seen>>

Compare(t) ==
    /\ pc[t] = "compare"
    /\ seen' = [seen EXCEPT ![t] =
                  @ \cup {<<id[t], IF id[t] >= g_real_gpu_count THEN "npu" ELSE "gpu">>}]
    /\ id' = [id EXCEPT ![t] = 0]
    /\ Goto(t, "idle")
    /\ UNCHANGED <<gpus, g_real_gpu_count, count>>

Next == \E t \in Thread :
    GetCount(t) \/ AddNpu(t) \/ GetProperties(t) \/ Fill(t) \/ Compare(t)

TypeOK ==
    /\ gpus \in 0..MaxGpus
    /\ g_real_gpu_count \in {-1, gpus}
    /\ pc \in [Thread -> {"idle", "open", "fill", "compare"}]
    /\ id \in [Thread -> 0..MaxGpus] /\ count \in [Thread -> 0..MaxGpus + 1]
    /\ \A t \in Thread : seen[t] \subseteq (0..MaxGpus) \X {"gpu", "npu"}
=============================================================================
