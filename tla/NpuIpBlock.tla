----------------------------- MODULE NpuIpBlock -----------------------------
(***************************************************************************)
(* The NPU as an IP block of amdgpu: patches/amdgpu_npu.c, registered by   *)
(* patches/0002-add-npu-ip-block.patch.  amdgpu's core calls the block's   *)
(* callbacks in the order of line 8, may give a load up because another    *)
(* block fails, and runs sw_fini when the last file is closed; user tasks  *)
(* call the two ioctls at any time in between.  Each load has a struct     *)
(* amdgpu_npu of its own; adevNpu is the pointer adev->npu.                *)
(***************************************************************************)
EXTENDS Integers

CONSTANTS Task,      \* user tasks that may open the device
          MaxLoads   \* how often the driver is bound to the device

ASSUME MaxLoadsIsNat == MaxLoads \in Nat

VARIABLES
    func1,     \* what sits at function 1 of the GPU's slot
    stage,     \* the core: the last callback of the block that succeeded
    load,      \* how many loads have been begun
    adevNpu,   \* adev->npu: a load, or 0 for NULL
    npu,       \* the fields of each load's struct amdgpu_npu
    heap,      \* loads whose struct is allocated
    pciRefs,   \* references each load holds on the PCI function
    fwRefs,    \* references each load holds on the firmware
    rings,     \* rings each load has initialised and not finished
    swDone,    \* loads whose sw_init returned 0
    files,     \* tasks that have the device open
    call,      \* the ioctl each task is in, or "none"
    ptr,       \* the ioctl's local npu
    answer     \* what the last ioctl of each task returned

core == <<func1, load>>
held == <<heap, pciRefs, fwRefs, rings>>
user == <<files, call, ptr, answer>>
vars == <<core, stage, adevNpu, npu, held, swDone, user>>

Load == 1..MaxLoads
NULL == 0
Zeroed == [pdev |-> FALSE, fw |-> FALSE, ring |-> FALSE, status |-> "UNINIT"]

Init ==
    /\ func1 \in {"empty", "npu", "other"}
    /\ stage = "absent"
    /\ load = 0
    /\ adevNpu = NULL
    /\ npu = [p \in Load |-> Zeroed]
    /\ heap = {}
    /\ pciRefs = [p \in Load |-> 0]
    /\ fwRefs = [p \in Load |-> 0]
    /\ rings = [p \in Load |-> 0]
    /\ swDone = {}
    /\ files = {}
    /\ call = [t \in Task |-> "none"]
    /\ ptr = [t \in Task |-> NULL]
    /\ answer = [t \in Task |-> "none"]

\* The test that sw_init, hw_init and the ctx ioctl begin with.
Present(p) == p # NULL /\ npu[p].pdev

Started(p) == npu[p].status = "STARTED"

-----------------------------------------------------------------------------
(* The callbacks.                                                           *)

\* pci_get_slot takes a reference; an empty slot is no error.
EarlyInit ==
    /\ stage = "absent"
    /\ load < MaxLoads
    /\ LET p == load + 1
           found == func1 # "empty"
       IN  /\ load' = p
           /\ adevNpu' = p
           /\ heap' = heap \cup {p}
           /\ npu' = [npu EXCEPT ![p] = [Zeroed EXCEPT !.pdev = found]]
           /\ pciRefs' = [pciRefs EXCEPT ![p] = IF found THEN 1 ELSE 0]
    /\ stage' = "early"
    /\ UNCHANGED <<func1, fwRefs, rings, swDone, user>>

\* kzalloc fails, and with it the load.
EarlyInitFails ==
    /\ stage = "absent"
    /\ load < MaxLoads
    /\ load' = load + 1
    /\ UNCHANGED <<func1, stage, adevNpu, npu, held, swDone, user>>

SwInitSkips ==
    /\ stage = "early"
    /\ ~Present(adevNpu)
    /\ swDone' = swDone \cup {adevNpu}
    /\ stage' = "sw"
    /\ UNCHANGED <<core, adevNpu, npu, held, user>>

\* The firmware is looked up by the function's own device id: there is none
\* for a function that is no NPU.
SwInit ==
    /\ stage = "early"
    /\ Present(adevNpu)
    /\ func1 = "npu"
    /\ npu' = [npu EXCEPT ![adevNpu].fw = TRUE, ![adevNpu].ring = TRUE]
    /\ fwRefs' = [fwRefs EXCEPT ![adevNpu] = @ + 1]
    /\ rings' = [rings EXCEPT ![adevNpu] = @ + 1]
    /\ swDone' = swDone \cup {adevNpu}
    /\ stage' = "sw"
    /\ UNCHANGED <<core, adevNpu, heap, pciRefs, user>>

\* BUG: a missing firmware is passed over, as a missing NPU is.
SwInitFailsQuietly ==
    /\ stage = "early"
    /\ Present(adevNpu)
    /\ swDone' = swDone \cup {adevNpu}
    /\ stage' = "sw"
    /\ UNCHANGED <<core, adevNpu, npu, held, user>>

\* No firmware, or no ring: the firmware is released, its pointer stays set.
\* The core ends the load, without a call of sw_fini for this block.
SwInitFails ==
    /\ stage = "early"
    /\ Present(adevNpu)
    /\ \/ UNCHANGED npu
       \/ func1 = "npu" /\ npu' = [npu EXCEPT ![adevNpu].fw = TRUE]
    /\ adevNpu' = NULL
    /\ stage' = "absent"
    /\ UNCHANGED <<core, held, swDone, user>>

Starting(p) ==
    npu' = IF Present(p) THEN [npu EXCEPT ![p].status = "STARTED"] ELSE npu

HwInit ==
    /\ stage = "sw"
    /\ Starting(adevNpu)
    /\ stage' = "up"
    /\ UNCHANGED <<core, adevNpu, held, swDone, user>>

Stopping(p) ==
    npu' = IF Present(p) /\ Started(p)
           THEN [npu EXCEPT ![p].status = "STOPPED"] ELSE npu

\* What sw_fini drops of refs, where the field it tests says there is something.
Drop(refs, field) == [refs EXCEPT ![adevNpu] = IF field THEN @ - 1 ELSE @]

\* BUG: the firmware goes with the hardware, and again with the software.
HwFiniReleases ==
    /\ stage = "up"
    /\ Stopping(adevNpu)
    /\ fwRefs' = Drop(fwRefs, npu[adevNpu].fw)
    /\ stage' = "down"
    /\ UNCHANGED <<core, adevNpu, heap, pciRefs, rings, swDone, user>>

\* BUG: the struct is freed here already.
HwFiniFrees ==
    /\ stage = "up"
    /\ Stopping(adevNpu)
    /\ heap' = heap \ {adevNpu}
    /\ stage' = "down"
    /\ UNCHANGED <<core, adevNpu, pciRefs, fwRefs, rings, swDone, user>>

\* The driver is unbound, or a block that comes later fails to start.
HwFini ==
    /\ stage = "up"
    /\ Stopping(adevNpu)
    /\ stage' = "down"
    /\ UNCHANGED <<core, adevNpu, held, swDone, user>>

Suspend ==
    /\ stage = "up"
    /\ Stopping(adevNpu)
    /\ stage' = "asleep"
    /\ UNCHANGED <<core, adevNpu, held, swDone, user>>

\* BUG: resume starts only an NPU that has never been started.
ResumeFresh ==
    /\ stage = "asleep"
    /\ npu' = IF Present(adevNpu) /\ npu[adevNpu].status = "UNINIT"
              THEN [npu EXCEPT ![adevNpu].status = "STARTED"] ELSE npu
    /\ stage' = "up"
    /\ UNCHANGED <<core, adevNpu, held, swDone, user>>

Resume ==
    /\ stage = "asleep"
    /\ Starting(adevNpu)
    /\ stage' = "up"
    /\ UNCHANGED <<core, adevNpu, held, swDone, user>>

\* BUG: the firmware is released only where the NPU has been started.
SwFiniStoppedOnly ==
    /\ stage = "down"
    /\ files = {}
    /\ rings' = Drop(rings, npu[adevNpu].ring)
    /\ fwRefs' = Drop(fwRefs, npu[adevNpu].status = "STOPPED")
    /\ pciRefs' = Drop(pciRefs, npu[adevNpu].pdev)
    /\ heap' = heap \ {adevNpu}
    /\ adevNpu' = NULL
    /\ stage' = "absent"
    /\ UNCHANGED <<core, npu, swDone, user>>

\* amdgpu_ring_fini of a ring that was never initialised does nothing.
SwFini ==
    /\ stage = "down"
    /\ files = {}
    /\ rings' = Drop(rings, npu[adevNpu].ring)
    /\ fwRefs' = Drop(fwRefs, npu[adevNpu].fw)
    /\ pciRefs' = Drop(pciRefs, npu[adevNpu].pdev)
    /\ heap' = heap \ {adevNpu}
    /\ adevNpu' = NULL
    /\ stage' = "absent"
    /\ UNCHANGED <<core, npu, swDone, user>>

\* Another block fails before sw_init of this one, or between its sw_init and
\* its hw_init; the core undoes what it has done.
OtherBlockFails ==
    /\ \/ stage = "early" /\ stage' = "absent" /\ adevNpu' = NULL
       \/ stage = "sw" /\ stage' = "down" /\ UNCHANGED adevNpu
    /\ UNCHANGED <<core, npu, held, swDone, user>>

-----------------------------------------------------------------------------
(* User tasks and their ioctls.                                             *)

Open(t) ==
    /\ stage = "up"
    /\ t \notin files
    /\ files' = files \cup {t}
    /\ UNCHANGED <<core, stage, adevNpu, npu, held, swDone, call, ptr, answer>>

Close(t) ==
    /\ t \in files
    /\ call[t] = "none"
    /\ files' = files \ {t}
    /\ answer' = [answer EXCEPT ![t] = "none"]
    /\ UNCHANGED <<core, stage, adevNpu, npu, held, swDone, call, ptr>>

\* The ioctl reads adev->npu; nothing holds off the callbacks meanwhile.
Ioctl(t, name) ==
    /\ t \in files
    /\ call[t] = "none"
    /\ call' = [call EXCEPT ![t] = name]
    /\ ptr' = [ptr EXCEPT ![t] = adevNpu]
    /\ answer' = [answer EXCEPT ![t] = "none"]
    /\ UNCHANGED <<core, stage, adevNpu, npu, held, swDone, files>>

\* The exec ioctl does not look at pdev.
Accepts(t) ==
    IF call[t] = "ctx" THEN Present(ptr[t]) /\ Started(ptr[t])
    ELSE ptr[t] # NULL /\ Started(ptr[t])

IoctlReturns(t) ==
    /\ call[t] # "none"
    /\ answer' = [answer EXCEPT ![t] = IF Accepts(t) THEN "ok" ELSE "ENODEV"]
    /\ call' = [call EXCEPT ![t] = "none"]
    /\ ptr' = [ptr EXCEPT ![t] = NULL]
    /\ UNCHANGED <<core, stage, adevNpu, npu, held, swDone, files>>

Next ==
    \/ EarlyInit \/ EarlyInitFails \/ SwInitSkips \/ SwInit \/ SwInitFails
    \/ HwInit \/ HwFini \/ Suspend \/ Resume \/ SwFini \/ OtherBlockFails
    \/ \E t \in Task : \/ Open(t) \/ Close(t) \/ IoctlReturns(t)
                       \/ \E name \in {"ctx", "exec"} : Ioctl(t, name)

Spec == Init /\ [][Next]_vars

-----------------------------------------------------------------------------
(* Properties.                                                              *)

Fields == [pdev : BOOLEAN, fw : BOOLEAN, ring : BOOLEAN,
           status : {"UNINIT", "STARTED", "STOPPED"}]

\* The types of the variables; a reference is never dropped twice.
TypeOK ==
    /\ func1 \in {"empty", "npu", "other"}
    /\ stage \in {"absent", "early", "sw", "up", "asleep", "down"}
    /\ load \in 0..MaxLoads
    /\ adevNpu \in {NULL} \cup Load
    /\ npu \in [Load -> Fields]
    /\ heap \subseteq Load
    /\ pciRefs \in [Load -> 0..1]
    /\ fwRefs \in [Load -> 0..1]
    /\ rings \in [Load -> 0..1]
    /\ swDone \subseteq Load
    /\ files \subseteq Task
    /\ call \in [Task -> {"none", "ctx", "exec"}]
    /\ ptr \in [Task -> {NULL} \cup Load]
    /\ answer \in [Task -> {"none", "ok", "ENODEV"}]

\* An ioctl never looks into a struct that sw_fini has freed (line 230), what-
\* ever load, unload and power management do between its two reads.
NoUseAfterFree == \A t \in Task : ptr[t] # NULL => ptr[t] \in heap

\* The NPU is up, and the load p holds all that the block is made of.
Complete(p) ==
    /\ stage = "up" /\ func1 = "npu"
    /\ pciRefs[p] = 1 /\ fwRefs[p] = 1 /\ rings[p] = 1

\* An ioctl is accepted only while the NPU is up, with its PCI function, its
\* firmware and its ring: exec tests the status alone (line 358) and relies on
\* the order of the callbacks for the rest.  The test and the return are one step:
\* what a suspend does to a call that was accepted before it is not said here.
AcceptedFindsNpu ==
    [][\A t \in Task : IoctlReturns(t) /\ Accepts(t) => Complete(ptr[t])]_vars

\* An NPU that was found serves whenever the device is up, after any number of
\* suspends and resumes (lines 239-247).
UpMeansStarted ==
    stage = "up" => (Started(adevNpu) <=> func1 = "npu")

\* A load that got through sw_init has given back, once the driver is unbound,
\* the struct, the reference on the PCI function, the firmware and the ring.
UnboundHoldsNothing ==
    \A p \in swDone : p # adevNpu =>
        p \notin heap /\ pciRefs[p] = 0 /\ fwRefs[p] = 0 /\ rings[p] = 0
=============================================================================
