--------------------------- MODULE NpuStackProofs ---------------------------
(***************************************************************************)
(* Proofs about NpuStack, for any threads, buffers and number of GPUs.     *)
(* The three parts do not write one another's variables: each has its      *)
(* invariant, which its own steps keep and the others leave alone.         *)
(***************************************************************************)
EXTENDS NpuStack, FiniteSetTheorems, TLAPS

-----------------------------------------------------------------------------
(* The start.                                                               *)

\* What is held when control is at a.
HeldAt(a) ==
    CASE a \in {"off", "enable"} -> {}
      [] a \in {"channel", "disable_dev"} -> {"enable"}
      [] a \in {"psp", "free_channel"} -> {"enable", "channel"}
      [] a \in {"smu", "stop_psp_no_smu"} -> {"enable", "channel", "psp"}
      [] a = "fini_smu" -> {"enable", "channel", "smu"}
      [] a \in {"info", "mailbox", "stop_psp"} -> {"enable", "channel", "psp", "smu"}
      [] OTHER -> {"enable", "channel", "psp", "smu", "mailbox"}

HwInv == Hw!TypeOK /\ held = HeldAt(at)

\* A step of the start keeps what is held in line with where control is.
LEMMA HwStepKeeps == ASSUME HwInv, Hw!Next PROVE HwInv'
<1> USE DEF HwInv, HeldAt, Hw!TypeOK, Hw!Call, Hw!Label
<1>1. CASE Hw!Begin
  BY <1>1 DEF Hw!Begin
<1>2. CASE Hw!CallSucceeds
  <2>1. /\ at' = Hw!NextCall(at)
        /\ held' = IF at \in {"info", "query"} THEN held ELSE held \cup {at}
        /\ fault' = fault
        /\ at \in Hw!Call
    BY <1>2 DEF Hw!CallSucceeds
  <2>2. at' \in Hw!Call \cup {"up"}
    BY <2>1 DEF Hw!NextCall
  <2>3. held' = HeldAt(at')
    BY <2>1 DEF Hw!NextCall
  <2> QED
    BY <2>1, <2>2, <2>3
<1>3. CASE Hw!CallFails
  <2>1. /\ at' = Hw!OnFailure(at)
        /\ held' = held
        /\ fault' = "none"
        /\ at \in Hw!Call
    BY <1>3 DEF Hw!CallFails
  <2>2. at' \in Hw!Label \cup {"off"}
    BY <2>1 DEF Hw!OnFailure
  <2>3. held' = HeldAt(at')
    BY <2>1 DEF Hw!OnFailure
  <2> QED
    BY <2>1, <2>2, <2>3
<1>4. CASE Hw!Unwind
  <2>1. /\ at' = Hw!After(at)
        /\ held' = held \ {Hw!Releases(at)}
        /\ fault' = fault
        /\ at \in Hw!Label
    BY <1>4 DEF Hw!Unwind
  <2>2. at' \in Hw!Label \cup {"off"}
    BY <2>1 DEF Hw!After
  <2>3. held' = HeldAt(at')
    BY <2>1 DEF Hw!After, Hw!Releases
  <2> QED
    BY <2>1, <2>2, <2>3
<1>5. CASE Hw!Unbind
  BY <1>5 DEF Hw!Unbind
<1> QED
  BY <1>1, <1>2, <1>3, <1>4, <1>5 DEF Hw!Next, Hw!HwStart

-----------------------------------------------------------------------------
(* The listing.                                                             *)

\* Ids that are asked for are ids of devices, and none is compared with the count
\* before it is there.
DevInv ==
    /\ Dev!TypeOK
    /\ \A t \in Thread :
          /\ count[t] <= gpus + 1
          /\ pc[t] \in {"fill", "compare"} => id[t] <= gpus
          /\ pc[t] = "compare" => g_real_gpu_count = gpus
    /\ DevicesAreNamed

\* A step of the listing keeps its invariant, whether the node is there or not.
LEMMA DevStepKeeps == ASSUME DevInv, Dev!Next PROVE DevInv'
<1> USE MaxGpusIsNat DEF DevInv, Dev!TypeOK, DevicesAreNamed, Dev!Goto
<1>0. PICK t \in Thread : Dev!GetCount(t) \/ Dev!AddNpu(t) \/ Dev!GetProperties(t)
                          \/ Dev!Fill(t) \/ Dev!Compare(t)
  BY DEF Dev!Next
<1>1. CASE Dev!GetCount(t)
  BY <1>1 DEF Dev!GetCount
<1>2. CASE Dev!AddNpu(t)
  BY <1>2 DEF Dev!AddNpu
<1>3. CASE Dev!GetProperties(t)
  BY <1>3 DEF Dev!GetProperties
<1>4. CASE Dev!Fill(t)
  BY <1>4 DEF Dev!Fill
<1>5. CASE Dev!Compare(t)
  <2>1. g_real_gpu_count = gpus /\ id[t] \in 0..gpus
    BY <1>5 DEF Dev!Compare
  <2>2. /\ gpus' = gpus /\ g_real_gpu_count' = g_real_gpu_count /\ count' = count
        /\ pc' = [pc EXCEPT ![t] = "idle"]
        /\ id' = [id EXCEPT ![t] = 0]
        /\ seen' = [seen EXCEPT ![t] =
                      @ \cup {<<id[t], IF id[t] >= gpus THEN "npu" ELSE "gpu">>}]
    BY <1>5, <2>1 DEF Dev!Compare
  <2>3. DevicesAreNamed'
    BY <2>1, <2>2
  <2>4. \A u \in Thread : seen'[u] \subseteq (0..MaxGpus) \X {"gpu", "npu"}
    BY <2>1, <2>2
  <2> QED
    BY <2>1, <2>2, <2>3, <2>4
<1> QED
  BY <1>0, <1>1, <1>2, <1>3, <1>4, <1>5

-----------------------------------------------------------------------------
(* The buffers.                                                             *)

Who == {"fd", "npu"}

\* A set of shares is finite, and counts as its elements come and go.
LEMMA SharesCount ==
  ASSUME NEW S \in SUBSET Who
  PROVE  /\ Cardinality(S) \in 0..2
         /\ \A w \in Who : w \notin S => Cardinality(S \cup {w}) = Cardinality(S) + 1
         /\ \A w \in S : Cardinality(S \ {w}) = Cardinality(S) - 1
<1>1. IsFiniteSet(Who) /\ Cardinality(Who) = 2
  <2>1. IsFiniteSet({"fd"}) /\ Cardinality({"fd"}) = 1
    BY FS_Singleton
  <2>2. Who = {"fd"} \cup {"npu"} /\ "npu" \notin {"fd"}
    BY DEF Who
  <2> QED
    BY <2>1, <2>2, FS_AddElement
<1>2. IsFiniteSet(S) /\ Cardinality(S) <= 2
  BY <1>1, FS_Subset
<1>3. Cardinality(S) \in Nat
  BY <1>2, FS_CardinalityType
<1>4. \A w \in Who : w \notin S => Cardinality(S \cup {w}) = Cardinality(S) + 1
  BY <1>2, FS_AddElement
<1>5. \A w \in S : Cardinality(S \ {w}) = Cardinality(S) - 1
  BY <1>2, FS_RemoveElement
<1> QED
  BY <1>2, <1>3, <1>4, <1>5

\* As the code is, the only pin is the owner's: stronger than what is promised.
CountsInv ==
    \A b \in Buf :
        /\ refs[b] = (IF stage[b] = "none" THEN 0 ELSE 1) + Cardinality(shares[b])
        /\ pins[b] = IF stage[b] = "owned" THEN 1 ELSE 0

GttInv == Gtt!TypeOK /\ CountsInv

\* A step of the manager, of a share's holder or of the NPU keeps the balance of
\* its buffer, and touches no other.
LEMMA GttStepKeeps == ASSUME GttInv, Gtt!Next PROVE GttInv'
<1> USE DEF GttInv, Gtt!TypeOK, CountsInv, Gtt!Step
<1>0. PICK b \in Buf : \/ Gtt!Alloc(b) \/ Gtt!Pin(b) \/ Gtt!PinFails(b) \/ Gtt!Export(b)
                       \/ Gtt!Import(b) \/ Gtt!EndShare(b) \/ Gtt!Unpin(b) \/ Gtt!Free(b)
  BY DEF Gtt!Next
<1>c. \A a \in Buf : Cardinality(shares[a]) \in 0..2
  BY SharesCount DEF Who
<1>1. CASE Gtt!Alloc(b)
  BY <1>1, <1>c DEF Gtt!Alloc
<1>2. CASE Gtt!Pin(b)
  BY <1>2, <1>c DEF Gtt!Pin
<1>3. CASE Gtt!PinFails(b)
  BY <1>3, <1>c DEF Gtt!PinFails
<1>4. ASSUME NEW who \in Who, Gtt!Share(b, who), stage' = stage, pins' = pins
      PROVE  GttInv'
  <2>1. /\ shares' = [shares EXCEPT ![b] = @ \cup {who}]
        /\ refs' = [refs EXCEPT ![b] = @ + 1]
        /\ Cardinality(shares[b] \cup {who}) = Cardinality(shares[b]) + 1
        /\ Cardinality(shares[b] \cup {who}) \in 0..2
    BY <1>4, SharesCount DEF Gtt!Share, Who
  <2> QED
    BY <1>4, <2>1, <1>c DEF Who
<1>5. CASE Gtt!Export(b)
  <2>1. stage' = stage
    BY <1>5 DEF Gtt!Export
  <2> QED
    BY <1>4, <1>5, <2>1 DEF Gtt!Export, Who
<1>6. CASE Gtt!Import(b)
  BY <1>4, <1>6 DEF Gtt!Import, Who
<1>7. CASE Gtt!EndShare(b)
  <2>1. PICK who \in shares[b] : shares' = [shares EXCEPT ![b] = @ \ {who}]
    BY <1>7 DEF Gtt!EndShare
  <2>2. /\ refs' = [refs EXCEPT ![b] = @ - 1] /\ stage' = stage /\ pins' = pins
        /\ Cardinality(shares[b] \ {who}) = Cardinality(shares[b]) - 1
        /\ Cardinality(shares[b] \ {who}) \in 0..2
    BY <1>7, <2>1, SharesCount DEF Gtt!EndShare, Who
  <2> QED
    BY <2>1, <2>2, <1>c
<1>8. CASE Gtt!Unpin(b)
  BY <1>8, <1>c DEF Gtt!Unpin
<1>9. CASE Gtt!Free(b)
  BY <1>9, <1>c DEF Gtt!Free
<1> QED
  BY <1>0, <1>1, <1>2, <1>3, <1>5, <1>6, <1>7, <1>8, <1>9

-----------------------------------------------------------------------------
(* The stack.                                                               *)

StackInv == HwInv /\ DevInv /\ GttInv

LEMMA InitInv == Init => StackInv
<1> SUFFICES ASSUME Init PROVE StackInv
  OBVIOUS
<1>1. HwInv
  BY DEF Init, Hw!Init, HwInv, HeldAt, Hw!TypeOK, Hw!Call, Hw!Label
<1>2. DevInv
  BY MaxGpusIsNat DEF Init, Dev!Init, DevInv, Dev!TypeOK, DevicesAreNamed
<1>3. GttInv
  BY FS_EmptySet DEF Init, Gtt!Init, GttInv, Gtt!TypeOK, CountsInv
<1> QED
  BY <1>1, <1>2, <1>3 DEF StackInv

\* Each part's invariant is about its own variables.
LEMMA OthersKeep ==
  /\ HwInv /\ UNCHANGED start => HwInv'
  /\ DevInv /\ UNCHANGED listing => DevInv'
  /\ GttInv /\ UNCHANGED buffers => GttInv'
<1>1. HwInv /\ UNCHANGED start => HwInv'
  BY DEF start, HwInv, Hw!TypeOK, HeldAt
<1>2. DevInv /\ UNCHANGED listing => DevInv'
  BY DEF listing, DevInv, Dev!TypeOK, DevicesAreNamed
<1>3. GttInv /\ UNCHANGED buffers => GttInv'
  BY DEF buffers, GttInv, Gtt!TypeOK, CountsInv
<1> QED
  BY <1>1, <1>2, <1>3

LEMMA StepKeepsInv == StackInv /\ [Next]_vars => StackInv'
<1> SUFFICES ASSUME StackInv, [Next]_vars PROVE StackInv'
  OBVIOUS
<1>1. CASE HwStep
  BY <1>1, HwStepKeeps, OthersKeep DEF HwStep, StackInv, listing, buffers
<1>2. CASE DevStep
  BY <1>2, DevStepKeeps, OthersKeep DEF DevStep, StackInv, start, buffers
<1>3. CASE GttStep
  BY <1>3, GttStepKeeps, OthersKeep DEF GttStep, StackInv, start, listing
<1>4. CASE UNCHANGED vars
  BY <1>4, OthersKeep DEF vars, StackInv, start, listing, buffers
<1> QED
  BY <1>1, <1>2, <1>3, <1>4 DEF Next

LEMMA InvHolds == Spec => []StackInv
  BY InitInv, StepKeepsInv, PTL DEF Spec

\* The three parts keep their types, for any threads, buffers and GPUs.
THEOREM TypeCorrect == Spec => []TypeOK
<1>1. StackInv => TypeOK
  BY DEF StackInv, HwInv, DevInv, GttInv, TypeOK
<1> QED
  BY <1>1, InvHolds, PTL

\* aie2_hw_start as the patch leaves it releases what it holds and nothing else,
\* whatever call fails: the invariant says what is held at every label.
THEOREM StartUnwinds == Spec => []UnwindsExactly
<1>1. StackInv => UnwindsExactly
  BY DEF StackInv, HwInv, HeldAt, UnwindsExactly, Hw!Releases, Hw!TypeOK, Hw!Call, Hw!Label
<1> QED
  BY <1>1, InvHolds, PTL

\* Every thread is shown each GPU as a GPU and the NPU after them, however the
\* threads share the cached count and however often the driver comes and goes.
THEOREM ListIsRight == Spec => []DevicesAreNamed
<1>1. StackInv => DevicesAreNamed
  BY DEF StackInv, DevInv
<1> QED
  BY <1>1, InvHolds, PTL

\* No order of allocations that fail, exports, imports and frees loses a reference
\* or a pin of any buffer, or takes the pin from one that has an owner.
THEOREM NoBufferLost == Spec => []BuffersBalance
<1>1. StackInv => BuffersBalance
  <2> SUFFICES ASSUME StackInv, NEW b \in Buf
               PROVE  /\ refs[b] = (IF stage[b] = "none" THEN 0 ELSE 1)
                                      + Cardinality(shares[b])
                      /\ stage[b] = "owned" => pins[b] = 1
                      /\ refs[b] = 0 => pins[b] = 0
    BY DEF BuffersBalance
  <2>1. shares[b] \in SUBSET Who
    BY DEF StackInv, GttInv, Gtt!TypeOK, Who
  <2>2. Cardinality(shares[b]) \in 0..2
    BY <2>1, SharesCount
  <2>3. /\ refs[b] = (IF stage[b] = "none" THEN 0 ELSE 1) + Cardinality(shares[b])
        /\ pins[b] = IF stage[b] = "owned" THEN 1 ELSE 0
    BY DEF StackInv, GttInv, CountsInv
  <2> QED
    BY <2>2, <2>3
<1> QED
  BY <1>1, InvHolds, PTL
=============================================================================
