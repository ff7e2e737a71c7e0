-------------------------- MODULE NpuIpBlockProofs --------------------------
(***************************************************************************)
(* The properties of NpuIpBlock for any number of tasks and of loads.      *)
(***************************************************************************)
EXTENDS NpuIpBlock, TLAPS

Bound == {"early", "sw", "up", "asleep", "down"}

\* The load in hand, and those still to come.
LoadInv ==
    /\ stage \in Bound <=> adevNpu # NULL
    /\ adevNpu # NULL => adevNpu \in heap /\ adevNpu <= load
    /\ stage = "early" => adevNpu \notin swDone
    /\ \A p \in Load : p > load =>
          p \notin swDone /\ fwRefs[p] = 0 /\ rings[p] = 0

One(b) == IF b THEN 1 ELSE 0

\* The fields of the struct in hand say what the load holds, and how far the
\* core has got says what the fields are.
FieldInv ==
    adevNpu # NULL =>
        /\ pciRefs[adevNpu] = One(npu[adevNpu].pdev)
        /\ fwRefs[adevNpu] = One(npu[adevNpu].fw)
        /\ rings[adevNpu] = One(npu[adevNpu].ring)
        /\ stage = "early" => /\ npu[adevNpu].pdev <=> func1 # "empty"
                              /\ ~npu[adevNpu].fw /\ ~npu[adevNpu].ring
        /\ stage # "early" => /\ npu[adevNpu].pdev <=> func1 = "npu"
                              /\ npu[adevNpu].fw <=> func1 = "npu"
                              /\ npu[adevNpu].ring <=> func1 = "npu"
        /\ Started(adevNpu) <=> stage = "up" /\ func1 = "npu"

\* A file is open only between the first time the device is up and sw_fini, so
\* an ioctl's pointer is still the device's.
UserInv ==
    /\ stage \in {"absent", "early", "sw"} => files = {}
    /\ \A t \in Task :
          /\ call[t] # "none" => t \in files
          /\ ptr[t] # NULL => call[t] # "none" /\ ptr[t] = adevNpu

IInv == TypeOK /\ LoadInv /\ FieldInv /\ UserInv /\ UnboundHoldsNothing

USE MaxLoadsIsNat
USE DEF Load, NULL, Bound, One, core, held, user, Present, Started, Zeroed,
        Fields

LEMMA InitIInv == Init => IInv
BY DEF Init, IInv, TypeOK, LoadInv, FieldInv, UserInv, UnboundHoldsNothing

LEMMA EarlyInitStep == ASSUME IInv, EarlyInit PROVE IInv'
<1>. DEFINE p == load + 1
            n == [Zeroed EXCEPT !.pdev = (func1 # "empty")]
<1>1. p \in Load /\ p \notin swDone /\ adevNpu = NULL
  BY DEF IInv, TypeOK, LoadInv, EarlyInit
<1>2. /\ load' = p /\ adevNpu' = p /\ heap' = heap \cup {p}
      /\ npu' = [npu EXCEPT ![p] = n]
      /\ pciRefs' = [pciRefs EXCEPT ![p] = One(func1 # "empty")]
      /\ stage' = "early"
      /\ UNCHANGED <<func1, fwRefs, rings, swDone, user>>
  BY DEF EarlyInit
<1>3. TypeOK'
  <2>1. n \in Fields
    OBVIOUS
  <2>2. npu' \in [Load -> Fields]
    BY <1>1, <1>2, <2>1 DEF IInv, TypeOK
  <2>3. pciRefs' \in [Load -> 0..1]
    BY <1>1, <1>2 DEF IInv, TypeOK
  <2>. QED BY <1>1, <1>2, <2>2, <2>3 DEF IInv, TypeOK
<1>4. LoadInv'
  BY <1>1, <1>2 DEF IInv, TypeOK, LoadInv
<1>5. FieldInv'
  <2>1. npu'[p] = n /\ pciRefs'[p] = One(func1 # "empty")
    BY <1>1, <1>2 DEF IInv, TypeOK
  <2>3. /\ n.pdev = (func1 # "empty") /\ n.fw = FALSE /\ n.ring = FALSE
        /\ n.status = "UNINIT"
    OBVIOUS
  <2>2. fwRefs[p] = 0 /\ rings[p] = 0
    BY <1>1 DEF IInv, TypeOK, LoadInv
  <2>. QED BY <1>2, <2>1, <2>2, <2>3 DEF FieldInv
<1>6. UserInv'
  BY <1>1, <1>2 DEF IInv, TypeOK, UserInv, EarlyInit
<1>7. UnboundHoldsNothing'
  BY <1>1, <1>2 DEF IInv, TypeOK, UnboundHoldsNothing
<1>. QED BY <1>3, <1>4, <1>5, <1>6, <1>7 DEF IInv

LEMMA EarlyInitFailsStep == ASSUME IInv, EarlyInitFails PROVE IInv'
BY DEF IInv, TypeOK, LoadInv, FieldInv, UserInv, UnboundHoldsNothing,
       EarlyInitFails

LEMMA SwInitSkipsStep == ASSUME IInv, SwInitSkips PROVE IInv'
BY DEF IInv, TypeOK, LoadInv, FieldInv, UserInv, UnboundHoldsNothing,
       SwInitSkips

LEMMA SwInitStep == ASSUME IInv, SwInit PROVE IInv'
<1>1. TypeOK'
  <2>1. adevNpu \in Load /\ fwRefs[adevNpu] = 0 /\ rings[adevNpu] = 0
    BY DEF IInv, TypeOK, FieldInv, SwInit
  <2>2. npu' \in [Load -> Fields]
    <3>. DEFINE m == [npu EXCEPT ![adevNpu].fw = TRUE]
    <3>1. m \in [Load -> Fields]
      BY <2>1 DEF IInv, TypeOK
    <3>2. [m EXCEPT ![adevNpu].ring = TRUE] \in [Load -> Fields]
      BY <2>1, <3>1
    <3>. QED BY <3>2 DEF SwInit
  <2>3. fwRefs' \in [Load -> 0..1] /\ rings' \in [Load -> 0..1]
    BY <2>1 DEF IInv, TypeOK, SwInit
  <2>. QED BY <2>1, <2>2, <2>3 DEF IInv, TypeOK, SwInit
<1>2. LoadInv'
  BY DEF IInv, TypeOK, LoadInv, SwInit
<1>3. FieldInv'
  BY DEF IInv, TypeOK, LoadInv, FieldInv, SwInit
<1>4. UserInv'
  BY DEF IInv, TypeOK, LoadInv, UserInv, SwInit
<1>5. UnboundHoldsNothing'
  BY DEF IInv, TypeOK, LoadInv, FieldInv, UnboundHoldsNothing, SwInit
<1>. QED BY <1>1, <1>2, <1>3, <1>4, <1>5 DEF IInv

LEMMA SwInitFailsStep == ASSUME IInv, SwInitFails PROVE IInv'
<1>1. TypeOK'
  <2>1. npu' \in [Load -> Fields]
    <3>1. CASE UNCHANGED npu
      BY <3>1 DEF IInv, TypeOK
    <3>2. CASE npu' = [npu EXCEPT ![adevNpu].fw = TRUE]
      BY <3>2 DEF IInv, TypeOK
    <3>. QED BY <3>1, <3>2 DEF SwInitFails
  <2>. QED BY <2>1 DEF IInv, TypeOK, SwInitFails
<1>2. LoadInv'
  BY DEF IInv, TypeOK, LoadInv, SwInitFails
<1>3. FieldInv'
  BY DEF IInv, TypeOK, LoadInv, FieldInv, SwInitFails
<1>4. UserInv'
  BY DEF IInv, TypeOK, LoadInv, UserInv, SwInitFails
<1>5. UnboundHoldsNothing'
  BY DEF IInv, TypeOK, LoadInv, FieldInv, UnboundHoldsNothing, SwInitFails
<1>. QED BY <1>1, <1>2, <1>3, <1>4, <1>5 DEF IInv

LEMMA HwInitStep == ASSUME IInv, HwInit PROVE IInv'
<1>1. TypeOK'
  BY DEF IInv, TypeOK, HwInit, Starting
<1>2. LoadInv'
  BY DEF IInv, TypeOK, LoadInv, HwInit, Starting
<1>3. FieldInv'
  BY DEF IInv, TypeOK, LoadInv, FieldInv, HwInit, Starting
<1>4. UserInv'
  BY DEF IInv, TypeOK, LoadInv, UserInv, HwInit, Starting
<1>5. UnboundHoldsNothing'
  BY DEF IInv, TypeOK, LoadInv, FieldInv, UnboundHoldsNothing, HwInit, Starting
<1>. QED BY <1>1, <1>2, <1>3, <1>4, <1>5 DEF IInv

LEMMA HwFiniStep == ASSUME IInv, HwFini PROVE IInv'
<1>1. TypeOK'
  BY DEF IInv, TypeOK, HwFini, Stopping
<1>2. LoadInv'
  BY DEF IInv, TypeOK, LoadInv, HwFini, Stopping
<1>3. FieldInv'
  BY DEF IInv, TypeOK, LoadInv, FieldInv, HwFini, Stopping
<1>4. UserInv'
  BY DEF IInv, TypeOK, LoadInv, UserInv, HwFini, Stopping
<1>5. UnboundHoldsNothing'
  BY DEF IInv, TypeOK, LoadInv, FieldInv, UnboundHoldsNothing, HwFini, Stopping
<1>. QED BY <1>1, <1>2, <1>3, <1>4, <1>5 DEF IInv

LEMMA SuspendStep == ASSUME IInv, Suspend PROVE IInv'
<1>1. TypeOK'
  BY DEF IInv, TypeOK, Suspend, Stopping
<1>2. LoadInv'
  BY DEF IInv, TypeOK, LoadInv, Suspend, Stopping
<1>3. FieldInv'
  BY DEF IInv, TypeOK, LoadInv, FieldInv, Suspend, Stopping
<1>4. UserInv'
  BY DEF IInv, TypeOK, LoadInv, UserInv, Suspend, Stopping
<1>5. UnboundHoldsNothing'
  BY DEF IInv, TypeOK, LoadInv, FieldInv, UnboundHoldsNothing, Suspend, Stopping
<1>. QED BY <1>1, <1>2, <1>3, <1>4, <1>5 DEF IInv

LEMMA ResumeStep == ASSUME IInv, Resume PROVE IInv'
<1>1. TypeOK'
  BY DEF IInv, TypeOK, Resume, Starting
<1>2. LoadInv'
  BY DEF IInv, TypeOK, LoadInv, Resume, Starting
<1>3. FieldInv'
  BY DEF IInv, TypeOK, LoadInv, FieldInv, Resume, Starting
<1>4. UserInv'
  BY DEF IInv, TypeOK, LoadInv, UserInv, Resume, Starting
<1>5. UnboundHoldsNothing'
  BY DEF IInv, TypeOK, LoadInv, FieldInv, UnboundHoldsNothing, Resume, Starting
<1>. QED BY <1>1, <1>2, <1>3, <1>4, <1>5 DEF IInv

LEMMA SwFiniStep == ASSUME IInv, SwFini PROVE IInv'
<1>1. TypeOK'
  BY DEF IInv, TypeOK, LoadInv, FieldInv, SwFini, Drop
<1>2. LoadInv'
  BY DEF IInv, TypeOK, LoadInv, SwFini, Drop
<1>3. FieldInv'
  BY DEF IInv, TypeOK, LoadInv, FieldInv, SwFini, Drop
<1>4. UserInv'
  BY DEF IInv, TypeOK, LoadInv, UserInv, SwFini, Drop
<1>5. UnboundHoldsNothing'
  BY DEF IInv, TypeOK, LoadInv, FieldInv, UnboundHoldsNothing, SwFini, Drop
<1>. QED BY <1>1, <1>2, <1>3, <1>4, <1>5 DEF IInv

LEMMA OtherBlockFailsStep == ASSUME IInv, OtherBlockFails PROVE IInv'
<1>1. TypeOK'
  BY DEF IInv, TypeOK, OtherBlockFails
<1>2. LoadInv'
  BY DEF IInv, TypeOK, LoadInv, OtherBlockFails
<1>3. FieldInv'
  BY DEF IInv, TypeOK, LoadInv, FieldInv, OtherBlockFails
<1>4. UserInv'
  BY DEF IInv, TypeOK, LoadInv, UserInv, OtherBlockFails
<1>5. UnboundHoldsNothing'
  BY DEF IInv, TypeOK, LoadInv, FieldInv, UnboundHoldsNothing, OtherBlockFails
<1>. QED BY <1>1, <1>2, <1>3, <1>4, <1>5 DEF IInv

LEMMA OpenStep ==
    ASSUME IInv, NEW t \in Task, Open(t)
    PROVE  IInv'
<1>1. TypeOK'
  BY DEF IInv, TypeOK, Open
<1>2. LoadInv' /\ FieldInv' /\ UnboundHoldsNothing'
  BY DEF IInv, LoadInv, FieldInv, UnboundHoldsNothing, Open
<1>3. UserInv'
  BY DEF IInv, TypeOK, UserInv, Open
<1>. QED BY <1>1, <1>2, <1>3 DEF IInv

LEMMA CloseStep ==
    ASSUME IInv, NEW t \in Task, Close(t)
    PROVE  IInv'
<1>1. TypeOK'
  BY DEF IInv, TypeOK, Close
<1>2. LoadInv' /\ FieldInv' /\ UnboundHoldsNothing'
  BY DEF IInv, LoadInv, FieldInv, UnboundHoldsNothing, Close
<1>3. UserInv'
  BY DEF IInv, TypeOK, UserInv, Close
<1>. QED BY <1>1, <1>2, <1>3 DEF IInv

LEMMA IoctlReturnsStep ==
    ASSUME IInv, NEW t \in Task, IoctlReturns(t)
    PROVE  IInv'
<1>1. TypeOK'
  BY DEF IInv, TypeOK, IoctlReturns
<1>2. LoadInv' /\ FieldInv' /\ UnboundHoldsNothing'
  BY DEF IInv, LoadInv, FieldInv, UnboundHoldsNothing, IoctlReturns
<1>3. UserInv'
  BY DEF IInv, TypeOK, UserInv, IoctlReturns
<1>. QED BY <1>1, <1>2, <1>3 DEF IInv

LEMMA IoctlStep ==
    ASSUME IInv, NEW t \in Task, NEW name \in {"ctx", "exec"}, Ioctl(t, name)
    PROVE  IInv'
<1>1. TypeOK'
  BY DEF IInv, TypeOK, Ioctl
<1>2. LoadInv' /\ FieldInv' /\ UnboundHoldsNothing'
  BY DEF IInv, LoadInv, FieldInv, UnboundHoldsNothing, Ioctl
<1>3. UserInv'
  BY DEF IInv, TypeOK, UserInv, Ioctl
<1>. QED BY <1>1, <1>2, <1>3 DEF IInv

LEMMA NextIInv == ASSUME IInv, [Next]_vars PROVE IInv'
<1>1. CASE Next
  BY <1>1, EarlyInitStep, EarlyInitFailsStep, SwInitSkipsStep, SwInitStep,
     SwInitFailsStep, HwInitStep, HwFiniStep, SuspendStep, ResumeStep,
     SwFiniStep, OtherBlockFailsStep, OpenStep, CloseStep, IoctlReturnsStep,
     IoctlStep DEF Next
<1>2. CASE UNCHANGED vars
  BY <1>2 DEF IInv, TypeOK, LoadInv, FieldInv, UserInv, UnboundHoldsNothing,
              vars
<1>. QED BY <1>1, <1>2

LEMMA Invariance == Spec => []IInv
BY InitIInv, NextIInv, PTL DEF Spec

-----------------------------------------------------------------------------
\* The block's variables keep their types, and no reference is dropped twice.
THEOREM TypeCorrect == Spec => []TypeOK
<1>1. IInv => TypeOK
  BY DEF IInv
<1>. QED BY <1>1, Invariance, PTL

\* No ioctl looks into a freed struct, however the callbacks fall between the
\* two reads of it (lines 305-309 and 354-358).
THEOREM IoctlsAreSafe == Spec => []NoUseAfterFree
<1>1. IInv => NoUseAfterFree
  BY DEF IInv, LoadInv, UserInv, NoUseAfterFree
<1>. QED BY <1>1, Invariance, PTL

\* A found NPU serves whenever the device is up (lines 152-246).
THEOREM UpServes == Spec => []UpMeansStarted
<1>1. IInv => UpMeansStarted
  BY DEF IInv, LoadInv, FieldInv, UpMeansStarted
<1>. QED BY <1>1, Invariance, PTL

\* What sw_init and early_init acquired, sw_fini gives back (lines 217-233).
THEOREM NothingHeld == Spec => []UnboundHoldsNothing
<1>1. IInv => UnboundHoldsNothing
  BY DEF IInv
<1>. QED BY <1>1, Invariance, PTL

\* An accepted ioctl finds the NPU up and complete, exec too (line 358).
THEOREM AcceptedIsServed == Spec => AcceptedFindsNpu
<1>1. ASSUME IInv, NEW t \in Task, IoctlReturns(t), Accepts(t)
      PROVE  Complete(ptr[t])
  <2>1. ptr[t] # NULL /\ Started(ptr[t])
    BY <1>1 DEF Accepts
  <2>2. ptr[t] = adevNpu
    BY <1>1, <2>1 DEF IInv, UserInv
  <2>. QED BY <2>1, <2>2, <1>1 DEF IInv, FieldInv, Complete
<1>2. IInv /\ [Next]_vars =>
      [\A t \in Task : IoctlReturns(t) /\ Accepts(t) => Complete(ptr[t])]_vars
  BY <1>1
<1>. QED BY <1>2, Invariance, PTL DEF Spec, AcceptedFindsNpu
=============================================================================
