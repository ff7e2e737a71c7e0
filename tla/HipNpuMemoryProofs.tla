------------------------- MODULE HipNpuMemoryProofs -------------------------
(***************************************************************************)
(* For any number of threads, addresses, buffer objects and descriptors,   *)
(* and for an application that frees what it likes: g_buffers names live   *)
(* buffers only, nothing leaks, and the shim implements NpuAllocator.      *)
(***************************************************************************)
EXTENDS HipNpuMemory, FiniteSetTheorems, TLAPS

\* The mutex is held by the one thread that is in a critical section.
MutexInv == \A t \in Thread : pc[t] \in Locked <=> gBufMutex = t

\* The kernel: an address names one mapping, and what is mapped is live.
KernelInv ==
    \A b \in Bo : cpuMap[b] # None =>
        /\ b \in boLive
        /\ \A c \in Bo : cpuMap[c] = cpuMap[b] => c = b

\* What the locals of npu_malloc stand for at each step of it.
HandInv ==
    \A t \in Thread :
        /\ pc[t] \in Mallocing => loc[t].bo \in boLive
        /\ pc[t] = "cpu_map" => cpuMap[loc[t].bo] = None
        /\ pc[t] \in Mapped =>
              loc[t].ptr \in Addr /\ cpuMap[loc[t].bo] = loc[t].ptr
        /\ pc[t] \in Exported =>
              loc[t].fd \in Fd /\ dmaBuf[loc[t].fd] = loc[t].bo

\* A buffer object has one owner: one npu_malloc in progress, or one entry.
OwnerInv ==
    /\ \A t, u \in Thread :
          pc[t] \in Mallocing /\ pc[u] \in Mallocing /\ loc[t].bo = loc[u].bo
              => t = u
    /\ \A t \in Thread, a \in Addr :
          pc[t] \in Mallocing /\ Tracked(a) /\ gBuffers[a].bo = loc[t].bo
              => FreeAt(a, {"erase"})

\* The thread in npu_free has found its entry, and nothing else changes it.
FreeInv ==
    \A t \in Thread :
        /\ pc[t] \in Freeing \cup {"npu_free"} => arg[t] \in Addr
        /\ pc[t] \in Freeing => Tracked(arg[t])
        /\ pc[t] = "bo_free" => cpuMap[gBuffers[arg[t]].bo] = None

\* As long as the application is disciplined, nobody else frees the pointer a
\* thread holds or is freeing.
OwnedInv ==
    disciplined =>
        /\ \A a \in owned : Tracked(a) /\ ~FreeAt(a, Freeing \cup {"npu_free"})
        /\ \A t \in Thread : pc[t] = "npu_free" => Tracked(arg[t])
        /\ \A t, u \in Thread :
              pc[t] \in Freeing \cup {"npu_free"} /\ arg[t] = arg[u]
                  /\ pc[u] \in Freeing \cup {"npu_free"} => t = u

BusyInv ==
    \A t \in Thread : \A a \in busy[t] : pc[t] = "memcpy" /\ Tracked(a)

IInv == /\ TypeOK /\ MutexInv /\ KernelInv /\ HandInv /\ OwnerInv
        /\ FreeInv /\ BusyInv /\ MapNamesLiveBuffer /\ OwnedInv

-----------------------------------------------------------------------------
(* Every step preserves the invariant, one lemma per action.                *)

USE NoneIsFresh, FlagIsBoolean, LimitIsNatural
USE DEF At, GoTo, Tracked, FreeAt, NoLocals, Mallocing, Mapped, Exported,
        Freeing, Locked, Opening, device, kernel, thread, app

LEMMA MallocStep ==
    ASSUME IInv, NEW t \in Thread, Malloc(t) PROVE IInv'
<1>1. TypeOK' BY DEF IInv, Malloc, TypeOK
<1>2. MutexInv' BY DEF IInv, Malloc, MutexInv
<1>3. KernelInv' BY DEF IInv, Malloc, KernelInv
<1>4. HandInv' BY DEF IInv, Malloc, HandInv
<1>5. OwnerInv' BY DEF IInv, Malloc, OwnerInv
<1>6. FreeInv' BY DEF IInv, Malloc, FreeInv
<1>7. BusyInv' BY DEF IInv, Malloc, BusyInv
<1>8. MapNamesLiveBuffer' BY DEF IInv, Malloc, MapNamesLiveBuffer
<1>9. OwnedInv' BY DEF IInv, Malloc, OwnedInv
<1>. QED BY <1>1, <1>2, <1>3, <1>4, <1>5, <1>6, <1>7, <1>8, <1>9 DEF IInv

LEMMA DevOpenStep ==
    ASSUME IInv, NEW t \in Thread, DevOpen(t) PROVE IInv'
<1>1. TypeOK' BY DEF IInv, DevOpen, TypeOK
<1>2. MutexInv' BY DEF IInv, DevOpen, MutexInv
<1>3. KernelInv' BY DEF IInv, DevOpen, KernelInv
<1>4. HandInv' BY DEF IInv, DevOpen, HandInv
<1>5. OwnerInv' BY DEF IInv, DevOpen, OwnerInv
<1>6. FreeInv' BY DEF IInv, DevOpen, FreeInv
<1>7. BusyInv' BY DEF IInv, DevOpen, BusyInv
<1>8. MapNamesLiveBuffer' BY DEF IInv, DevOpen, MapNamesLiveBuffer
<1>9. OwnedInv' BY DEF IInv, DevOpen, OwnedInv
<1>. QED BY <1>1, <1>2, <1>3, <1>4, <1>5, <1>6, <1>7, <1>8, <1>9 DEF IInv

LEMMA DevInitBeginsStep ==
    ASSUME IInv, NEW t \in Thread, DevInitBegins(t) PROVE IInv'
<1>1. TypeOK' BY DEF IInv, DevInitBegins, TypeOK
<1>2. MutexInv' BY DEF IInv, DevInitBegins, MutexInv
<1>3. KernelInv' BY DEF IInv, DevInitBegins, KernelInv
<1>4. HandInv' BY DEF IInv, DevInitBegins, HandInv
<1>5. OwnerInv' BY DEF IInv, DevInitBegins, OwnerInv
<1>6. FreeInv' BY DEF IInv, DevInitBegins, FreeInv
<1>7. BusyInv' BY DEF IInv, DevInitBegins, BusyInv
<1>8. MapNamesLiveBuffer' BY DEF IInv, DevInitBegins, MapNamesLiveBuffer
<1>9. OwnedInv' BY DEF IInv, DevInitBegins, OwnedInv
<1>. QED BY <1>1, <1>2, <1>3, <1>4, <1>5, <1>6, <1>7, <1>8, <1>9 DEF IInv

LEMMA DevInitStep ==
    ASSUME IInv, NEW t \in Thread, DevInit(t) PROVE IInv'
<1>1. TypeOK' BY DEF IInv, DevInit, TypeOK
<1>2. MutexInv' BY DEF IInv, DevInit, MutexInv
<1>3. KernelInv' BY DEF IInv, DevInit, KernelInv
<1>4. HandInv' BY DEF IInv, DevInit, HandInv
<1>5. OwnerInv' BY DEF IInv, DevInit, OwnerInv
<1>6. FreeInv' BY DEF IInv, DevInit, FreeInv
<1>7. BusyInv' BY DEF IInv, DevInit, BusyInv
<1>8. MapNamesLiveBuffer' BY DEF IInv, DevInit, MapNamesLiveBuffer
<1>9. OwnedInv' BY DEF IInv, DevInit, OwnedInv
<1>. QED BY <1>1, <1>2, <1>3, <1>4, <1>5, <1>6, <1>7, <1>8, <1>9 DEF IInv

LEMMA DevInitFailsStep ==
    ASSUME IInv, NEW t \in Thread, DevInitFails(t) PROVE IInv'
<1>1. TypeOK' BY DEF IInv, DevInitFails, TypeOK
<1>2. MutexInv' BY DEF IInv, DevInitFails, MutexInv
<1>3. KernelInv' BY DEF IInv, DevInitFails, KernelInv
<1>4. HandInv' BY DEF IInv, DevInitFails, HandInv
<1>5. OwnerInv' BY DEF IInv, DevInitFails, OwnerInv
<1>6. FreeInv' BY DEF IInv, DevInitFails, FreeInv
<1>7. BusyInv' BY DEF IInv, DevInitFails, BusyInv
<1>8. MapNamesLiveBuffer' BY DEF IInv, DevInitFails, MapNamesLiveBuffer
<1>9. OwnedInv' BY DEF IInv, DevInitFails, OwnedInv
<1>. QED BY <1>1, <1>2, <1>3, <1>4, <1>5, <1>6, <1>7, <1>8, <1>9 DEF IInv

LEMMA NothingToReleaseStep ==
    ASSUME IInv, NEW t \in Thread, NothingToRelease(t) PROVE IInv'
<1>1. TypeOK' BY DEF IInv, NothingToRelease, TypeOK
<1>2. MutexInv' BY DEF IInv, NothingToRelease, MutexInv
<1>3. KernelInv' BY DEF IInv, NothingToRelease, KernelInv
<1>4. HandInv' BY DEF IInv, NothingToRelease, HandInv
<1>5. OwnerInv' BY DEF IInv, NothingToRelease, OwnerInv
<1>6. FreeInv' BY DEF IInv, NothingToRelease, FreeInv
<1>7. BusyInv' BY DEF IInv, NothingToRelease, BusyInv
<1>8. MapNamesLiveBuffer' BY DEF IInv, NothingToRelease, MapNamesLiveBuffer
<1>9. OwnedInv' BY DEF IInv, NothingToRelease, OwnedInv
<1>. QED BY <1>1, <1>2, <1>3, <1>4, <1>5, <1>6, <1>7, <1>8, <1>9 DEF IInv

LEMMA NullDeviceStep ==
    ASSUME IInv, NEW t \in Thread, NullDevice(t) PROVE IInv'
<1>1. TypeOK' BY DEF IInv, NullDevice, TypeOK
<1>2. MutexInv' BY DEF IInv, NullDevice, MutexInv
<1>3. KernelInv' BY DEF IInv, NullDevice, KernelInv
<1>4. HandInv' BY DEF IInv, NullDevice, HandInv
<1>5. OwnerInv' BY DEF IInv, NullDevice, OwnerInv
<1>6. FreeInv' BY DEF IInv, NullDevice, FreeInv
<1>7. BusyInv' BY DEF IInv, NullDevice, BusyInv
<1>8. MapNamesLiveBuffer' BY DEF IInv, NullDevice, MapNamesLiveBuffer
<1>9. OwnedInv' BY DEF IInv, NullDevice, OwnedInv
<1>. QED BY <1>1, <1>2, <1>3, <1>4, <1>5, <1>6, <1>7, <1>8, <1>9 DEF IInv

LEMMA BoAllocStep ==
    ASSUME IInv, NEW t \in Thread, NEW b \in Bo, BoAlloc(t, b) PROVE IInv'
<1>1. TypeOK' BY DEF IInv, BoAlloc, TypeOK
<1>2. MutexInv' BY DEF IInv, BoAlloc, MutexInv
<1>3. KernelInv' BY DEF IInv, BoAlloc, KernelInv
<1>4. HandInv' BY DEF IInv, BoAlloc, TypeOK, KernelInv, HandInv
<1>5. OwnerInv'
  BY DEF IInv, BoAlloc, TypeOK, HandInv, OwnerInv, MapNamesLiveBuffer
<1>6. FreeInv' BY DEF IInv, BoAlloc, FreeInv
<1>7. BusyInv' BY DEF IInv, BoAlloc, BusyInv
<1>8. MapNamesLiveBuffer' BY DEF IInv, BoAlloc, MapNamesLiveBuffer
<1>9. OwnedInv' BY DEF IInv, BoAlloc, OwnedInv
<1>. QED BY <1>1, <1>2, <1>3, <1>4, <1>5, <1>6, <1>7, <1>8, <1>9 DEF IInv

LEMMA CpuMapStep ==
    ASSUME IInv, NEW t \in Thread, NEW a \in Addr, CpuMap(t, a) PROVE IInv'
<1>1. TypeOK' BY DEF IInv, CpuMap, TypeOK, HandInv
<1>2. MutexInv' BY DEF IInv, CpuMap, MutexInv
<1>3. KernelInv' BY DEF IInv, CpuMap, KernelInv, HandInv
<1>4. HandInv' BY DEF IInv, CpuMap, TypeOK, HandInv, OwnerInv
<1>5. OwnerInv' BY DEF IInv, CpuMap, OwnerInv
<1>6. FreeInv' BY DEF IInv, CpuMap, MutexInv, OwnerInv, FreeInv
<1>7. BusyInv' BY DEF IInv, CpuMap, BusyInv
<1>8. MapNamesLiveBuffer' BY DEF IInv, CpuMap, HandInv, MapNamesLiveBuffer
<1>9. OwnedInv' BY DEF IInv, CpuMap, OwnedInv
<1>. QED BY <1>1, <1>2, <1>3, <1>4, <1>5, <1>6, <1>7, <1>8, <1>9 DEF IInv

LEMMA CpuMapFailsStep ==
    ASSUME IInv, NEW t \in Thread, CpuMapFails(t) PROVE IInv'
<1>1. TypeOK' BY DEF IInv, CpuMapFails, TypeOK
<1>2. MutexInv' BY DEF IInv, CpuMapFails, MutexInv
<1>3. KernelInv' BY DEF IInv, CpuMapFails, KernelInv, HandInv
<1>4. HandInv' BY DEF IInv, CpuMapFails, TypeOK, HandInv, OwnerInv
<1>5. OwnerInv' BY DEF IInv, CpuMapFails, TypeOK, OwnerInv
<1>6. FreeInv' BY DEF IInv, CpuMapFails, FreeInv
<1>7. BusyInv' BY DEF IInv, CpuMapFails, BusyInv
<1>8. MapNamesLiveBuffer' BY DEF IInv, CpuMapFails, OwnerInv, MapNamesLiveBuffer
<1>9. OwnedInv' BY DEF IInv, CpuMapFails, OwnedInv
<1>. QED BY <1>1, <1>2, <1>3, <1>4, <1>5, <1>6, <1>7, <1>8, <1>9 DEF IInv

LEMMA ExportStep ==
    ASSUME IInv, NEW t \in Thread, NEW f \in Fd, Export(t, f) PROVE IInv'
<1>1. TypeOK' BY DEF IInv, Export, TypeOK, HandInv
<1>2. MutexInv' BY DEF IInv, Export, MutexInv
<1>3. KernelInv' BY DEF IInv, Export, KernelInv
<1>4. HandInv' BY DEF IInv, Export, TypeOK, HandInv
<1>5. OwnerInv' BY DEF IInv, Export, OwnerInv
<1>6. FreeInv' BY DEF IInv, Export, FreeInv
<1>7. BusyInv' BY DEF IInv, Export, BusyInv
<1>8. MapNamesLiveBuffer' BY DEF IInv, Export, TypeOK, MapNamesLiveBuffer
<1>9. OwnedInv' BY DEF IInv, Export, OwnedInv
<1>. QED BY <1>1, <1>2, <1>3, <1>4, <1>5, <1>6, <1>7, <1>8, <1>9 DEF IInv

LEMMA ExportFailsStep ==
    ASSUME IInv, NEW t \in Thread, ExportFails(t) PROVE IInv'
<1>1. TypeOK' BY DEF IInv, ExportFails, TypeOK
<1>2. MutexInv' BY DEF IInv, ExportFails, MutexInv
<1>3. KernelInv' BY DEF IInv, ExportFails, TypeOK, KernelInv
<1>4. HandInv' BY DEF IInv, ExportFails, TypeOK, HandInv, OwnerInv
<1>5. OwnerInv' BY DEF IInv, ExportFails, TypeOK, OwnerInv
<1>6. FreeInv' BY DEF IInv, ExportFails, FreeInv
<1>7. BusyInv' BY DEF IInv, ExportFails, BusyInv
<1>8. MapNamesLiveBuffer' BY DEF IInv, ExportFails, OwnerInv, MapNamesLiveBuffer
<1>9. OwnedInv' BY DEF IInv, ExportFails, OwnedInv
<1>. QED BY <1>1, <1>2, <1>3, <1>4, <1>5, <1>6, <1>7, <1>8, <1>9 DEF IInv

LEMMA ImportStep ==
    ASSUME IInv, NEW t \in Thread, Import(t) PROVE IInv'
<1>1. TypeOK' BY DEF IInv, Import, TypeOK, HandInv
<1>2. MutexInv' BY DEF IInv, Import, MutexInv
<1>3. KernelInv' BY DEF IInv, Import, KernelInv
<1>4. HandInv' BY DEF IInv, Import, HandInv
<1>5. OwnerInv' BY DEF IInv, Import, OwnerInv
<1>6. FreeInv' BY DEF IInv, Import, FreeInv
<1>7. BusyInv' BY DEF IInv, Import, BusyInv
<1>8. MapNamesLiveBuffer' BY DEF IInv, Import, MapNamesLiveBuffer
<1>9. OwnedInv' BY DEF IInv, Import, OwnedInv
<1>. QED BY <1>1, <1>2, <1>3, <1>4, <1>5, <1>6, <1>7, <1>8, <1>9 DEF IInv

LEMMA ImportSkippedStep ==
    ASSUME IInv, NEW t \in Thread, ImportSkipped(t) PROVE IInv'
<1>1. TypeOK' BY DEF IInv, ImportSkipped, TypeOK
<1>2. MutexInv' BY DEF IInv, ImportSkipped, MutexInv
<1>3. KernelInv' BY DEF IInv, ImportSkipped, KernelInv
<1>4. HandInv' BY DEF IInv, ImportSkipped, HandInv
<1>5. OwnerInv' BY DEF IInv, ImportSkipped, OwnerInv
<1>6. FreeInv' BY DEF IInv, ImportSkipped, FreeInv
<1>7. BusyInv' BY DEF IInv, ImportSkipped, BusyInv
<1>8. MapNamesLiveBuffer' BY DEF IInv, ImportSkipped, MapNamesLiveBuffer
<1>9. OwnedInv' BY DEF IInv, ImportSkipped, OwnedInv
<1>. QED BY <1>1, <1>2, <1>3, <1>4, <1>5, <1>6, <1>7, <1>8, <1>9 DEF IInv

LEMMA CloseNpuStep ==
    ASSUME IInv, NEW t \in Thread, CloseNpu(t) PROVE IInv'
<1>1. TypeOK' BY DEF IInv, CloseNpu, TypeOK
<1>2. MutexInv' BY DEF IInv, CloseNpu, MutexInv
<1>3. KernelInv' BY DEF IInv, CloseNpu, KernelInv
<1>4. HandInv' BY DEF IInv, CloseNpu, HandInv
<1>5. OwnerInv' BY DEF IInv, CloseNpu, OwnerInv
<1>6. FreeInv' BY DEF IInv, CloseNpu, FreeInv
<1>7. BusyInv' BY DEF IInv, CloseNpu, BusyInv
<1>8. MapNamesLiveBuffer' BY DEF IInv, CloseNpu, MapNamesLiveBuffer
<1>9. OwnedInv' BY DEF IInv, CloseNpu, OwnedInv
<1>. QED BY <1>1, <1>2, <1>3, <1>4, <1>5, <1>6, <1>7, <1>8, <1>9 DEF IInv

LEMMA TrackStep ==
    ASSUME IInv, NEW t \in Thread, Track(t) PROVE IInv'
<1>1. TypeOK' BY DEF IInv, Track, TypeOK, HandInv
<1>2. MutexInv' BY DEF IInv, Track, MutexInv
<1>3. KernelInv' BY DEF IInv, Track, KernelInv
<1>4. HandInv' BY DEF IInv, Track, TypeOK, HandInv
<1>5. OwnerInv' BY DEF IInv, Track, TypeOK, OwnerInv
<1>6. FreeInv' BY DEF IInv, Track, MutexInv, FreeInv
<1>7. BusyInv' BY DEF IInv, Track, MutexInv, BusyInv
<1>8. MapNamesLiveBuffer' BY DEF IInv, Track, HandInv, MapNamesLiveBuffer
<1>9. OwnedInv'
  BY DEF IInv, Track, TypeOK, OwnerInv, HandInv, MapNamesLiveBuffer, MutexInv,
    OwnedInv, KernelInv
<1>. QED BY <1>1, <1>2, <1>3, <1>4, <1>5, <1>6, <1>7, <1>8, <1>9 DEF IInv

LEMMA FreeStep ==
    ASSUME IInv, NEW t \in Thread, NEW a \in Addr, Free(t, a) PROVE IInv'
<1>1. TypeOK'
  <2>1. pc' \in [Thread -> Mallocing \cup Locked \cup
                     {"idle", "dev_open", "dev_init", "dev_set", "bo_alloc",
                      "crashed", "npu_free", "real_memcpy"}]
    <3>1. \/ pc' = [pc EXCEPT ![t] = "npu_free"]
          \/ pc' = [pc EXCEPT ![t] = "real_free"]
      BY DEF Free
    <3>. QED BY <3>1 DEF IInv, TypeOK
  <2>2. arg' \in [Thread -> Addr \cup {None}]
    <3>1. arg' = [arg EXCEPT ![t] = a] \/ arg' = arg
      BY DEF Free
    <3>. QED BY <3>1 DEF IInv, TypeOK
  <2>3. gBufMutex' \in Thread \cup {None} /\ owned' \in SUBSET Addr
    BY DEF IInv, Free, TypeOK
  <2>. QED BY <2>1, <2>2, <2>3 DEF IInv, Free, TypeOK
<1>2. MutexInv' BY DEF IInv, Free, TypeOK, MutexInv
<1>3. KernelInv' BY DEF IInv, Free, KernelInv
<1>4. HandInv' BY DEF IInv, Free, TypeOK, HandInv
<1>5. OwnerInv'
  <2>1. \A u \in Thread : pc'[u] \in Mallocing => pc[u] \in Mallocing
    BY DEF IInv, Free, TypeOK
  <2>2. ASSUME NEW u \in Thread, pc[u] = "erase"
        PROVE  pc'[u] = "erase" /\ arg'[u] = arg[u]
    BY <2>2 DEF IInv, Free, TypeOK
  <2>3. UNCHANGED <<loc, gBuffers>>
    BY DEF Free
  <2>. QED BY <2>1, <2>2, <2>3 DEF IInv, OwnerInv
<1>6. FreeInv' BY DEF IInv, Free, TypeOK, FreeInv
<1>7. BusyInv' BY DEF IInv, Free, TypeOK, BusyInv
<1>8. MapNamesLiveBuffer' BY DEF IInv, Free, MutexInv, MapNamesLiveBuffer
<1>9. OwnedInv'
  <2> SUFFICES ASSUME disciplined' PROVE OwnedInv'
    BY DEF OwnedInv
  <2>1. disciplined /\ a \in owned
    BY DEF Free
  <2>2. Tracked(a) /\ ~FreeAt(a, Freeing \cup {"npu_free"})
    BY <2>1 DEF IInv, OwnedInv
  <2>3. /\ pc' = [pc EXCEPT ![t] = "npu_free"]
        /\ arg' = [arg EXCEPT ![t] = a]
        /\ gBuffers' = gBuffers /\ owned' = owned \ {a}
    BY <2>2 DEF Free
  <2>4. \A c \in owned' : (Tracked(c) /\ ~FreeAt(c, Freeing \cup {"npu_free"}))'
    BY <2>1, <2>3 DEF IInv, TypeOK, OwnedInv
  <2>5. \A u \in Thread : (pc[u] = "npu_free" => Tracked(arg[u]))'
    BY <2>1, <2>2, <2>3 DEF IInv, TypeOK, OwnedInv
  <2>6. ASSUME NEW u \in Thread, NEW v \in Thread,
               (pc[u] \in Freeing \cup {"npu_free"} /\ arg[u] = arg[v]
                  /\ pc[v] \in Freeing \cup {"npu_free"})'
        PROVE  u = v
    <3>1. CASE u # t /\ v # t
      BY <2>1, <2>3, <2>6, <3>1 DEF IInv, TypeOK, OwnedInv
    <3>2. CASE u = t \/ v = t
      BY <2>2, <2>3, <2>6, <3>2 DEF IInv, TypeOK
    <3>. QED BY <3>1, <3>2
  <2>. QED BY <2>4, <2>5, <2>6 DEF OwnedInv
<1>. QED BY <1>1, <1>2, <1>3, <1>4, <1>5, <1>6, <1>7, <1>8, <1>9 DEF IInv

LEMMA RealFreeStep ==
    ASSUME IInv, NEW t \in Thread, RealFree(t) PROVE IInv'
<1>1. TypeOK' BY DEF IInv, RealFree, TypeOK
<1>2. MutexInv' BY DEF IInv, RealFree, TypeOK, MutexInv
<1>3. KernelInv' BY DEF IInv, RealFree, KernelInv
<1>4. HandInv' BY DEF IInv, RealFree, HandInv
<1>5. OwnerInv' BY DEF IInv, RealFree, OwnerInv
<1>6. FreeInv' BY DEF IInv, RealFree, FreeInv
<1>7. BusyInv' BY DEF IInv, RealFree, BusyInv
<1>8. MapNamesLiveBuffer' BY DEF IInv, RealFree, MapNamesLiveBuffer
<1>9. OwnedInv' BY DEF IInv, RealFree, OwnedInv
<1>. QED BY <1>1, <1>2, <1>3, <1>4, <1>5, <1>6, <1>7, <1>8, <1>9 DEF IInv

LEMMA NpuFreeStep ==
    ASSUME IInv, NEW t \in Thread, NpuFree(t) PROVE IInv'
<1>1. TypeOK' BY DEF IInv, NpuFree, TypeOK
<1>2. MutexInv' BY DEF IInv, NpuFree, TypeOK, MutexInv
<1>3. KernelInv' BY DEF IInv, NpuFree, KernelInv
<1>4. HandInv' BY DEF IInv, NpuFree, TypeOK, HandInv
<1>5. OwnerInv'
  <2>1. \A u \in Thread : pc'[u] \in Mallocing => pc[u] \in Mallocing
    BY DEF IInv, NpuFree, TypeOK
  <2>2. ASSUME NEW u \in Thread, pc[u] = "erase"
        PROVE  pc'[u] = "erase" /\ arg'[u] = arg[u]
    BY <2>2 DEF IInv, NpuFree, TypeOK
  <2>3. UNCHANGED <<loc, gBuffers>>
    BY DEF NpuFree
  <2>. QED BY <2>1, <2>2, <2>3 DEF IInv, OwnerInv
<1>6. FreeInv' BY DEF IInv, NpuFree, TypeOK, FreeInv
<1>7. BusyInv' BY DEF IInv, NpuFree, TypeOK, BusyInv
<1>8. MapNamesLiveBuffer' BY DEF IInv, NpuFree, MutexInv, MapNamesLiveBuffer
<1>9. OwnedInv'
  <2>1. CASE Tracked(arg[t]) BY <2>1 DEF IInv, NpuFree, TypeOK, OwnedInv
  <2>2. CASE ~(Tracked(arg[t])) BY <2>2 DEF IInv, NpuFree, OwnedInv
  <2>. QED BY <2>1, <2>2
<1>. QED BY <1>1, <1>2, <1>3, <1>4, <1>5, <1>6, <1>7, <1>8, <1>9 DEF IInv

LEMMA CloseFdStep ==
    ASSUME IInv, NEW t \in Thread, CloseFd(t) PROVE IInv'
<1>1. TypeOK' BY DEF IInv, CloseFd, TypeOK
<1>2. MutexInv' BY DEF IInv, CloseFd, MutexInv
<1>3. KernelInv' BY DEF IInv, CloseFd, KernelInv
<1>4. HandInv'
  BY DEF IInv, CloseFd, HandInv, OwnerInv, FreeInv, MapNamesLiveBuffer, MutexInv
<1>5. OwnerInv' BY DEF IInv, CloseFd, OwnerInv
<1>6. FreeInv' BY DEF IInv, CloseFd, FreeInv
<1>7. BusyInv' BY DEF IInv, CloseFd, BusyInv
<1>8. MapNamesLiveBuffer'
  <2>1. /\ pc' = [pc EXCEPT ![t] = "unmap"]
        /\ UNCHANGED <<arg, gBuffers, cpuMap, boLive>>
    BY DEF CloseFd
  <2>2. \A u \in Thread : pc[u] \in Freeing => u = t
    BY DEF IInv, CloseFd, MutexInv
  <2> SUFFICES ASSUME NEW a \in Addr, Tracked(a)
               PROVE  /\ \/ FreeAt(a, Freeing \ {"close"})'
                         \/ (dmaBuf[gBuffers[a].fd] = gBuffers[a].bo)'
                      /\ \/ FreeAt(a, {"bo_free", "erase"})'
                         \/ (cpuMap[gBuffers[a].bo] = a)'
                      /\ FreeAt(a, {"erase"})' \/ (gBuffers[a].bo \in boLive)'
    BY <2>1 DEF MapNamesLiveBuffer
  <2>3. CASE a = arg[t]
    BY <2>1, <2>2, <2>3 DEF IInv, CloseFd, TypeOK, MapNamesLiveBuffer
  <2>4. CASE a # arg[t]
    <3>1. ~FreeAt(a, Freeing)
      BY <2>2, <2>4
    <3>2. /\ dmaBuf[gBuffers[a].fd] = gBuffers[a].bo
          /\ cpuMap[gBuffers[a].bo] = a /\ gBuffers[a].bo \in boLive
          /\ gBuffers[a].fd \in Fd
      BY <3>1 DEF IInv, TypeOK, MapNamesLiveBuffer
    <3>3. /\ arg[t] \in Addr /\ Tracked(arg[t]) /\ pc[t] = "close"
          /\ ~FreeAt(arg[t], Freeing \ {"close"})
      BY <2>2 DEF IInv, CloseFd, FreeInv
    <3>4. /\ dmaBuf[gBuffers[arg[t]].fd] = gBuffers[arg[t]].bo
          /\ cpuMap[gBuffers[arg[t]].bo] = arg[t]
      BY <3>3 DEF IInv, MapNamesLiveBuffer
    <3>5. gBuffers[a].fd # gBuffers[arg[t]].fd
      BY <2>4, <3>2, <3>4
    <3>. QED BY <2>1, <3>2, <3>5 DEF IInv, CloseFd, TypeOK
  <2>. QED BY <2>3, <2>4
<1>9. OwnedInv' BY DEF IInv, CloseFd, OwnedInv
<1>. QED BY <1>1, <1>2, <1>3, <1>4, <1>5, <1>6, <1>7, <1>8, <1>9 DEF IInv

LEMMA UnmapStep ==
    ASSUME IInv, NEW t \in Thread, Unmap(t) PROVE IInv'
<1>1. TypeOK' BY DEF IInv, Unmap, TypeOK
<1>2. MutexInv' BY DEF IInv, Unmap, MutexInv
<1>3. KernelInv' BY DEF IInv, Unmap, KernelInv
<1>4. HandInv' BY DEF IInv, Unmap, MutexInv, HandInv, OwnerInv, FreeInv
<1>5. OwnerInv' BY DEF IInv, Unmap, OwnerInv
<1>6. FreeInv' BY DEF IInv, Unmap, TypeOK, FreeInv
<1>7. BusyInv' BY DEF IInv, Unmap, BusyInv
<1>8. MapNamesLiveBuffer'
  BY DEF IInv, Unmap, TypeOK, MutexInv, FreeInv, MapNamesLiveBuffer
<1>9. OwnedInv' BY DEF IInv, Unmap, OwnedInv
<1>. QED BY <1>1, <1>2, <1>3, <1>4, <1>5, <1>6, <1>7, <1>8, <1>9 DEF IInv

LEMMA BoFreeStep ==
    ASSUME IInv, NEW t \in Thread, BoFree(t) PROVE IInv'
<1>1. TypeOK' BY DEF IInv, BoFree, TypeOK
<1>2. MutexInv' BY DEF IInv, BoFree, MutexInv
<1>3. KernelInv' BY DEF IInv, BoFree, KernelInv, FreeInv
<1>4. HandInv' BY DEF IInv, BoFree, MutexInv, HandInv, OwnerInv, FreeInv
<1>5. OwnerInv' BY DEF IInv, BoFree, OwnerInv
<1>6. FreeInv' BY DEF IInv, BoFree, FreeInv
<1>7. BusyInv' BY DEF IInv, BoFree, BusyInv
<1>8. MapNamesLiveBuffer'
  BY DEF IInv, BoFree, TypeOK, MutexInv, FreeInv, MapNamesLiveBuffer
<1>9. OwnedInv' BY DEF IInv, BoFree, OwnedInv
<1>. QED BY <1>1, <1>2, <1>3, <1>4, <1>5, <1>6, <1>7, <1>8, <1>9 DEF IInv

LEMMA EraseStep ==
    ASSUME IInv, NEW t \in Thread, Erase(t) PROVE IInv'
<1>1. TypeOK' BY DEF IInv, Erase, TypeOK
<1>2. MutexInv' BY DEF IInv, Erase, TypeOK, MutexInv
<1>3. KernelInv' BY DEF IInv, Erase, KernelInv
<1>4. HandInv' BY DEF IInv, Erase, HandInv
<1>5. OwnerInv' BY DEF IInv, Erase, TypeOK, OwnerInv
<1>6. FreeInv' BY DEF IInv, Erase, TypeOK, MutexInv, FreeInv
<1>7. BusyInv' BY DEF IInv, Erase, MutexInv, BusyInv
<1>8. MapNamesLiveBuffer' BY DEF IInv, Erase, TypeOK, MapNamesLiveBuffer
<1>9. OwnedInv'
  <2> SUFFICES ASSUME disciplined' PROVE OwnedInv'
    BY DEF OwnedInv
  <2>1. ASSUME NEW a \in owned' PROVE (Tracked(a) /\ ~FreeAt(a,
      Freeing \cup {"npu_free"}))'
    BY <2>1 DEF IInv, Erase, TypeOK, OwnedInv
  <2>2. ASSUME NEW u \in Thread, (pc[u] = "npu_free")' PROVE Tracked(arg[u])'
    BY <2>2 DEF IInv, Erase, OwnedInv
  <2>3. ASSUME NEW u \in Thread, NEW v \in Thread,
               (pc[u] \in Freeing \cup {"npu_free"} /\ arg[u] = arg[v]
                  /\ pc[v] \in Freeing \cup {"npu_free"})'
        PROVE  u = v
    BY <2>3 DEF IInv, Erase, TypeOK, OwnedInv
  <2>. QED BY <2>1, <2>2, <2>3 DEF OwnedInv
<1>. QED BY <1>1, <1>2, <1>3, <1>4, <1>5, <1>6, <1>7, <1>8, <1>9 DEF IInv

LEMMA MemcpyStep ==
    ASSUME IInv, NEW t \in Thread, NEW ops \in Operands, Memcpy(t,
        ops) PROVE IInv'
<1>1. TypeOK' BY DEF IInv, Memcpy, Hits, Operands, TypeOK
<1>2. MutexInv' BY DEF IInv, Memcpy, Hits, Operands, TypeOK, MutexInv
<1>3. KernelInv' BY DEF IInv, Memcpy, Hits, Operands, KernelInv
<1>4. HandInv' BY DEF IInv, Memcpy, Hits, Operands, HandInv
<1>5. OwnerInv' BY DEF IInv, Memcpy, Hits, Operands, OwnerInv
<1>6. FreeInv' BY DEF IInv, Memcpy, Hits, Operands, FreeInv
<1>7. BusyInv' BY DEF IInv, Memcpy, Hits, Operands, TypeOK, BusyInv
<1>8. MapNamesLiveBuffer'
  BY DEF IInv, Memcpy, Hits, Operands, MapNamesLiveBuffer
<1>9. OwnedInv' BY DEF IInv, Memcpy, Hits, Operands, OwnedInv
<1>. QED BY <1>1, <1>2, <1>3, <1>4, <1>5, <1>6, <1>7, <1>8, <1>9 DEF IInv

LEMMA RealMemcpyStep ==
    ASSUME IInv, NEW t \in Thread, NEW ops \in Operands, RealMemcpy(t,
        ops) PROVE IInv'
<1>1. TypeOK' BY DEF IInv, RealMemcpy, Hits, Operands, TypeOK
<1>2. MutexInv' BY DEF IInv, RealMemcpy, Hits, Operands, MutexInv
<1>3. KernelInv' BY DEF IInv, RealMemcpy, Hits, Operands, KernelInv
<1>4. HandInv' BY DEF IInv, RealMemcpy, Hits, Operands, HandInv
<1>5. OwnerInv' BY DEF IInv, RealMemcpy, Hits, Operands, OwnerInv
<1>6. FreeInv' BY DEF IInv, RealMemcpy, Hits, Operands, FreeInv
<1>7. BusyInv' BY DEF IInv, RealMemcpy, Hits, Operands, BusyInv
<1>8. MapNamesLiveBuffer'
  BY DEF IInv, RealMemcpy, Hits, Operands, MapNamesLiveBuffer
<1>9. OwnedInv' BY DEF IInv, RealMemcpy, Hits, Operands, OwnedInv
<1>. QED BY <1>1, <1>2, <1>3, <1>4, <1>5, <1>6, <1>7, <1>8, <1>9 DEF IInv

LEMMA MemcpyDoneStep ==
    ASSUME IInv, NEW t \in Thread, MemcpyDone(t) PROVE IInv'
<1>1. TypeOK' BY DEF IInv, MemcpyDone, TypeOK
<1>2. MutexInv' BY DEF IInv, MemcpyDone, TypeOK, MutexInv
<1>3. KernelInv' BY DEF IInv, MemcpyDone, KernelInv
<1>4. HandInv' BY DEF IInv, MemcpyDone, HandInv
<1>5. OwnerInv' BY DEF IInv, MemcpyDone, OwnerInv
<1>6. FreeInv' BY DEF IInv, MemcpyDone, FreeInv
<1>7. BusyInv' BY DEF IInv, MemcpyDone, TypeOK, BusyInv
<1>8. MapNamesLiveBuffer' BY DEF IInv, MemcpyDone, MapNamesLiveBuffer
<1>9. OwnedInv' BY DEF IInv, MemcpyDone, OwnedInv
<1>. QED BY <1>1, <1>2, <1>3, <1>4, <1>5, <1>6, <1>7, <1>8, <1>9 DEF IInv

LEMMA RealMemcpyDoneStep ==
    ASSUME IInv, NEW t \in Thread, RealMemcpyDone(t) PROVE IInv'
<1>1. TypeOK' BY DEF IInv, RealMemcpyDone, TypeOK
<1>2. MutexInv' BY DEF IInv, RealMemcpyDone, MutexInv
<1>3. KernelInv' BY DEF IInv, RealMemcpyDone, KernelInv
<1>4. HandInv' BY DEF IInv, RealMemcpyDone, HandInv
<1>5. OwnerInv' BY DEF IInv, RealMemcpyDone, OwnerInv
<1>6. FreeInv' BY DEF IInv, RealMemcpyDone, FreeInv
<1>7. BusyInv' BY DEF IInv, RealMemcpyDone, BusyInv
<1>8. MapNamesLiveBuffer' BY DEF IInv, RealMemcpyDone, MapNamesLiveBuffer
<1>9. OwnedInv' BY DEF IInv, RealMemcpyDone, OwnedInv
<1>. QED BY <1>1, <1>2, <1>3, <1>4, <1>5, <1>6, <1>7, <1>8, <1>9 DEF IInv

-----------------------------------------------------------------------------
LEMMA InitIInv == Init => IInv
<1>. SUFFICES ASSUME Init PROVE IInv
  OBVIOUS
<1>1. TypeOK
  <2>1. /\ gBuffers \in [Addr -> [bo : Bo, fd : Fd] \cup {None}]
        /\ gBufMutex \in Thread \cup {None}
        /\ cpuMap \in [Bo -> Addr \cup {None}]
        /\ dmaBuf \in [Fd -> Bo \cup {None}]
    BY DEF Init
  <2>2. loc \in [Thread -> [bo : Bo \cup {None}, ptr : Addr \cup {None},
                           fd : Fd \cup {None}]]
    BY DEF Init
  <2>3. gAmdgpuDev \in BOOLEAN
    BY DEF Init
  <2>5. renderFds \in Int
    BY DEF Init
  <2>6. /\ boLive \in SUBSET Bo /\ npuImport \in SUBSET Bo
        /\ owned \in SUBSET Addr /\ disciplined \in BOOLEAN
        /\ raced \in BOOLEAN
    BY DEF Init
  <2>4. /\ pc \in [Thread -> {"idle"}]
        /\ arg \in [Thread -> Addr \cup {None}]
        /\ busy \in [Thread -> SUBSET Addr]
    BY DEF Init
  <2>. QED BY <2>1, <2>2, <2>3, <2>4, <2>5, <2>6 DEF TypeOK
<1>2. MutexInv /\ KernelInv BY DEF Init, MutexInv, KernelInv
<1>3. HandInv /\ OwnerInv BY DEF Init, HandInv, OwnerInv
<1>4. FreeInv /\ BusyInv BY DEF Init, FreeInv, BusyInv
<1>5. MapNamesLiveBuffer BY DEF Init, MapNamesLiveBuffer
<1>6. OwnedInv BY DEF Init, OwnedInv
<1>. QED BY <1>1, <1>2, <1>3, <1>4, <1>5, <1>6 DEF IInv

LEMMA NextIInv == IInv /\ [Next]_vars => IInv'
<1>. SUFFICES ASSUME IInv, [Next]_vars PROVE IInv'
  OBVIOUS
<1>1. CASE UNCHANGED vars
  BY <1>1 DEF vars, IInv, TypeOK, MutexInv, KernelInv, HandInv, OwnerInv,
              FreeInv, OwnedInv, BusyInv, MapNamesLiveBuffer
<1>2. CASE Next
  BY <1>2, MallocStep, DevOpenStep, DevInitBeginsStep, DevInitStep,
     DevInitFailsStep, NothingToReleaseStep, NullDeviceStep, BoAllocStep, CpuMapStep, CpuMapFailsStep,
     ExportStep, ExportFailsStep, ImportStep, ImportSkippedStep, CloseNpuStep,
     TrackStep, FreeStep, RealFreeStep, NpuFreeStep, CloseFdStep, UnmapStep,
     BoFreeStep, EraseStep, MemcpyStep, RealMemcpyStep, MemcpyDoneStep,
     RealMemcpyDoneStep DEF Next, Step
<1>. QED BY <1>1, <1>2

LEMMA Invariance == Spec => []IInv
BY InitIInv, NextIInv, PTL DEF Spec

\* The shim's variables and the kernel's keep their types (the state declared at
\* lines 32-46 and what the kernel holds for it).
THEOREM TypeCorrect == Spec => []TypeOK
<1>1. IInv => TypeOK BY DEF IInv
<1>. QED BY <1>1, Invariance, PTL

\* Whatever the threads do and free, an entry of g_buffers names a live buffer
\* object mapped at its key and a descriptor of that object (lines 100-125).
THEOREM EntriesAreLive == Spec => []MapNamesLiveBuffer
<1>1. IInv => MapNamesLiveBuffer BY DEF IInv
<1>. QED BY <1>1, Invariance, PTL

\* When the application frees each pointer once, the second look-up of hipFree
\* finds the entry the first one found (lines 176-179 and 116-118).
THEOREM DisciplinedFree == Spec => []OwnersKeepBuffers
<1>1. IInv => OwnersKeepBuffers
  BY DEF IInv, OwnedInv, OwnersKeepBuffers
<1>. QED BY <1>1, Invariance, PTL

-----------------------------------------------------------------------------
(* The shim implements NpuAllocator.                                        *)

Live == [a \in Addr |-> IF Tracked(a) /\ ~FreeAt(a, {"bo_free", "erase"})
                        THEN gBuffers[a].bo ELSE None]

LEMMA TrackIsNew ==
    ASSUME IInv, NEW t \in Thread, Track(t)
    PROVE  ~Tracked(loc[t].ptr)
<1>. DEFINE a == loc[t].ptr
            b == loc[t].bo
<1>1. a \in Addr /\ b \in Bo /\ cpuMap[b] = a
  BY DEF IInv, TypeOK, HandInv, Track
<1>2. \A c \in Addr, u \in Thread : arg[u] = c => pc[u] \notin Freeing
  BY DEF IInv, TypeOK, MutexInv, Track
<1>. SUFFICES ASSUME Tracked(a) PROVE FALSE
  OBVIOUS
<1>3. gBuffers[a].bo \in Bo /\ cpuMap[gBuffers[a].bo] = a
  BY <1>1, <1>2 DEF IInv, TypeOK, MapNamesLiveBuffer
<1>4. gBuffers[a].bo = b
  BY <1>1, <1>3 DEF IInv, KernelInv
<1>. QED BY <1>1, <1>2, <1>4 DEF IInv, OwnerInv, Track

LEMMA TrackAllocates ==
    ASSUME IInv, NEW t \in Thread, Track(t)
    PROVE  \E a \in Addr, b \in Bo : Allocator!Alloc(a, b)
<1>. DEFINE a == loc[t].ptr
            b == loc[t].bo
<1>1. a \in Addr /\ b \in Bo /\ cpuMap[b] = a
  BY DEF IInv, TypeOK, HandInv, Track
<1>2. \A c \in Addr, u \in Thread : arg[u] = c => pc[u] \notin Freeing
  BY DEF IInv, TypeOK, MutexInv, Track
<1>3. ~Tracked(a)
  BY TrackIsNew
<1>4. \A c \in Addr : Live[c] # b
  BY <1>1, <1>2 DEF IInv, TypeOK, OwnerInv, Track, Live
<1>5. Live' = [Live EXCEPT ![a] = b]
  <2>1. \A c \in Addr : ~FreeAt(c, {"bo_free", "erase"})
    BY <1>2
  <2>2. \A c \in Addr : ~FreeAt(c, {"bo_free", "erase"})'
    BY <1>2 DEF IInv, TypeOK, Track
  <2>3. gBuffers' = [gBuffers EXCEPT ![a] = [bo |-> b, fd |-> loc[t].fd]]
    BY DEF Track
  <2>4. [bo |-> b, fd |-> loc[t].fd] # None
    BY <1>1 DEF IInv, HandInv, Track
  <2>. QED BY <1>1, <2>1, <2>2, <2>3, <2>4 DEF IInv, TypeOK, Live
<1>6. Live[a] = None
  BY <1>1, <1>3 DEF Live
<1>7. UNCHANGED busy
  BY DEF Track
<1>8. /\ Live[a] = None /\ \A c \in Addr : Live[c] # b
      /\ Live' = [Live EXCEPT ![a] = b] /\ busy' = busy
  BY <1>4, <1>5, <1>6, <1>7
<1>. HIDE DEF a, b
<1>9. \E x \in Addr, y \in Bo :
         /\ Live[x] = None /\ \A c \in Addr : Live[c] # y
         /\ Live' = [Live EXCEPT ![x] = y] /\ busy' = busy
  BY <1>1, <1>8
<1>. QED BY <1>9 DEF Allocator!Alloc, Live

LEMMA UnmapFrees ==
    ASSUME IInv, NEW t \in Thread, Unmap(t)
    PROVE  \E a \in Addr : Allocator!Free(a)
<1>. DEFINE a == arg[t]
<1>1. a \in Addr /\ Tracked(a)
  BY DEF IInv, FreeInv, Unmap
<1>2. \A u \in Thread : u # t => pc[u] \notin Locked
  BY DEF IInv, TypeOK, MutexInv, Unmap
<1>3. Live[a] # None
  BY <1>1, <1>2 DEF IInv, TypeOK, Unmap, Live
<1>4. \A u \in Thread : a \notin busy[u]
  BY <1>2 DEF IInv, BusyInv, Unmap
<1>5. Live' = [Live EXCEPT ![a] = None]
  BY <1>1, <1>2 DEF IInv, TypeOK, Unmap, Live
<1>6. UNCHANGED busy
  BY DEF Unmap
<1>. HIDE DEF a
<1>. QED BY <1>1, <1>3, <1>4, <1>5, <1>6 DEF Allocator!Free, Live

LEMMA MemcpyBegins ==
    ASSUME IInv, NEW t \in Thread, NEW ops \in Operands, Memcpy(t, ops)
    PROVE  \E S \in SUBSET Addr : Allocator!BeginCopy(t, S)
<1>1. busy[t] = {}
  BY DEF IInv, TypeOK, BusyInv, Memcpy
<1>2. \A u \in Thread : pc[u] \notin Locked
  BY DEF IInv, MutexInv, Memcpy
<1>3. \A a \in Hits(ops) : Live[a] # None
  BY <1>2 DEF IInv, TypeOK, Hits, Live
<1>4. Live' = Live
  BY <1>2 DEF IInv, TypeOK, Memcpy, Live
<1>5. Allocator!BeginCopy(t, Hits(ops))
  BY <1>1, <1>3, <1>4 DEF Allocator!BeginCopy, Live, Memcpy
<1>. QED BY <1>5 DEF Hits

LEMMA MemcpyEnds ==
    ASSUME IInv, NEW t \in Thread, MemcpyDone(t)
    PROVE  [Allocator!EndCopy(t)]_(Allocator!vars)
<1>1. Live' = Live
  BY DEF IInv, TypeOK, MemcpyDone, Live
<1>2. CASE busy[t] = {}
  <2>1. busy' = busy
    BY <1>2 DEF IInv, TypeOK, MemcpyDone
  <2>. QED BY <1>1, <2>1 DEF Allocator!vars, Live
<1>3. CASE busy[t] # {}
  BY <1>1, <1>3 DEF Allocator!EndCopy, MemcpyDone, Live
<1>. QED BY <1>2, <1>3

\* Every other step leaves the allocator's view as it is.
LEMMA OthersStutter ==
    ASSUME IInv, NEW t \in Thread,
           \/ Malloc(t)
           \/ DevOpen(t)
           \/ DevInitBegins(t)
           \/ DevInit(t)
           \/ DevInitFails(t)
           \/ NothingToRelease(t)
           \/ NullDevice(t)
           \/ \E b \in Bo : BoAlloc(t, b)
           \/ \E a \in Addr : CpuMap(t, a)
           \/ CpuMapFails(t)
           \/ \E f \in Fd : Export(t, f)
           \/ ExportFails(t)
           \/ Import(t)
           \/ ImportSkipped(t)
           \/ CloseNpu(t)
           \/ \E a \in Addr : Free(t, a)
           \/ RealFree(t)
           \/ NpuFree(t)
           \/ CloseFd(t)
           \/ BoFree(t)
           \/ Erase(t)
           \/ \E ops \in Operands : RealMemcpy(t, ops)
           \/ RealMemcpyDone(t)
    PROVE  Live' = Live /\ busy' = busy
<1>1. CASE Malloc(t)
  BY <1>1 DEF IInv, TypeOK, MutexInv, FreeInv, Malloc, Live
<1>2. CASE DevOpen(t)
  BY <1>2 DEF IInv, TypeOK, MutexInv, FreeInv, DevOpen, Live
<1>3. CASE DevInit(t)
  BY <1>3 DEF IInv, TypeOK, MutexInv, FreeInv, DevInit, Live
<1>4. CASE DevInitFails(t)
  BY <1>4 DEF IInv, TypeOK, MutexInv, FreeInv, DevInitFails, Live
<1>5. CASE NothingToRelease(t)
  BY <1>5 DEF IInv, TypeOK, MutexInv, FreeInv, NothingToRelease, Live
<1>6. CASE \E b \in Bo : BoAlloc(t, b)
  BY <1>6 DEF IInv, TypeOK, MutexInv, FreeInv, BoAlloc, Live
<1>7. CASE \E a \in Addr : CpuMap(t, a)
  BY <1>7 DEF IInv, TypeOK, MutexInv, FreeInv, CpuMap, Live
<1>8. CASE CpuMapFails(t)
  BY <1>8 DEF IInv, TypeOK, MutexInv, FreeInv, CpuMapFails, Live
<1>9. CASE \E f \in Fd : Export(t, f)
  BY <1>9 DEF IInv, TypeOK, MutexInv, FreeInv, Export, Live
<1>10. CASE ExportFails(t)
  BY <1>10 DEF IInv, TypeOK, MutexInv, FreeInv, ExportFails, Live
<1>11. CASE Import(t)
  BY <1>11 DEF IInv, TypeOK, MutexInv, FreeInv, Import, Live
<1>12. CASE ImportSkipped(t)
  BY <1>12 DEF IInv, TypeOK, MutexInv, FreeInv, ImportSkipped, Live
<1>13. CASE CloseNpu(t)
  BY <1>13 DEF IInv, TypeOK, MutexInv, FreeInv, CloseNpu, Live
<1>14. CASE \E a \in Addr : Free(t, a)
  BY <1>14 DEF IInv, TypeOK, MutexInv, FreeInv, Free, Live
<1>15. CASE RealFree(t)
  BY <1>15 DEF IInv, TypeOK, MutexInv, FreeInv, RealFree, Live
<1>16. CASE NpuFree(t)
  BY <1>16 DEF IInv, TypeOK, MutexInv, FreeInv, NpuFree, Live
<1>17. CASE CloseFd(t)
  BY <1>17 DEF IInv, TypeOK, MutexInv, FreeInv, CloseFd, Live
<1>18. CASE BoFree(t)
  BY <1>18 DEF IInv, TypeOK, MutexInv, FreeInv, BoFree, Live
<1>19. CASE Erase(t)
  BY <1>19 DEF IInv, TypeOK, MutexInv, FreeInv, Erase, Live
<1>20. CASE \E ops \in Operands : RealMemcpy(t, ops)
  BY <1>20 DEF IInv, TypeOK, MutexInv, FreeInv, RealMemcpy, Live
<1>21. CASE RealMemcpyDone(t)
  BY <1>21 DEF IInv, TypeOK, MutexInv, FreeInv, RealMemcpyDone, Live
<1>22. CASE DevInitBegins(t)
  BY <1>22 DEF IInv, TypeOK, MutexInv, FreeInv, DevInitBegins, Live
<1>23. CASE NullDevice(t)
  BY <1>23 DEF IInv, TypeOK, MutexInv, FreeInv, NullDevice, Live
<1>. QED BY <1>1, <1>2, <1>3, <1>4, <1>5, <1>6, <1>7, <1>8, <1>9, <1>10,
    <1>11, <1>12, <1>13, <1>14, <1>15, <1>16, <1>17, <1>18, <1>19, <1>20, <1>21,
    <1>22, <1>23

\* What the application sees is an allocator whose calls are atomic, although
\* hipFree looks a pointer up twice, takes a buffer apart in four steps and the
\* kernel may hand out the same address at once (lines 64-125 and 173-200).
THEOREM ImplementsAllocator == Spec => AllocatorSpec
<1>1. Init => Allocator!Init
  BY DEF Init, Allocator!Init
<1>2. IInv /\ [Next]_vars => [Allocator!Next]_(Allocator!vars)
  <2>. SUFFICES ASSUME IInv, [Next]_vars
                PROVE  [Allocator!Next]_(Allocator!vars)
    OBVIOUS
  <2>1. CASE UNCHANGED vars
    BY <2>1 DEF vars, Allocator!vars
  <2>2. CASE \E t \in Thread : Track(t)
    BY <2>2, TrackAllocates DEF Allocator!Next
  <2>3. CASE \E t \in Thread : Unmap(t)
    BY <2>3, UnmapFrees DEF Allocator!Next
  <2>4. CASE \E t \in Thread, ops \in Operands : Memcpy(t, ops)
    BY <2>4, MemcpyBegins DEF Allocator!Next
  <2>5. CASE \E t \in Thread : MemcpyDone(t)
    BY <2>5, MemcpyEnds DEF Allocator!Next
  <2>6. CASE Live' = Live /\ busy' = busy
    BY <2>6 DEF Allocator!vars, Live
  <2>. QED BY <2>1, <2>2, <2>3, <2>4, <2>5, <2>6, OthersStutter DEF Next, Step
<1>. QED BY <1>1, <1>2, Invariance, PTL DEF Spec, AllocatorSpec, Allocator!Spec

-----------------------------------------------------------------------------
(* Nothing leaks.  Relative to IInv the property is inductive: most steps    *)
(* leave the holder of every object and descriptor in place (Frame), the     *)
(* others each hand one over or give one back.                               *)

Closed == Freeing \ {"close"}

\* A holder of a live buffer object, and of an open descriptor.
BoHeld(b) ==
    \/ \E t \in Thread : pc[t] \in Mallocing /\ loc[t].bo = b
    \/ \E a \in Addr : /\ Tracked(a) /\ gBuffers[a].bo = b
                       /\ ~FreeAt(a, {"erase"})

FdHeld(f) ==
    \/ \E t \in Thread : pc[t] \in Exported /\ loc[t].fd = f
    \/ \E a \in Addr : /\ Tracked(a) /\ gBuffers[a].fd = f
                       /\ ~FreeAt(a, Closed)

\* What a step leaves alone when it leaves every holder in place.
Frame ==
    /\ boLive' \subseteq boLive
    /\ UNCHANGED <<dmaBuf, gBuffers>>
    /\ \A u \in Thread : pc[u] \in Mallocing /\ loc[u].bo \in boLive' =>
          pc'[u] \in Mallocing /\ loc'[u].bo = loc[u].bo
    /\ \A u \in Thread : pc[u] \in Exported =>
          pc'[u] \in Exported /\ loc'[u].fd = loc[u].fd
    /\ \A u \in Thread : pc'[u] \in Closed =>
          pc[u] \in Closed /\ arg'[u] = arg[u]
    /\ \A u \in Thread : pc'[u] = "erase" => pc[u] = "erase"

LEMMA NoLeakParts ==
    NoLeak <=> /\ \A b \in boLive : BoHeld(b)
               /\ \A f \in Fd : dmaBuf[f] # None => FdHeld(f)
BY DEF NoLeak, BoHeld, FdHeld, Closed

LEMMA NoLeakPartsNext ==
    NoLeak' <=> /\ \A b \in boLive' : BoHeld(b)'
                /\ \A f \in Fd : dmaBuf'[f] # None => FdHeld(f)'
BY DEF NoLeak, BoHeld, FdHeld, Closed

LEMMA FrameKeeps == ASSUME NoLeak, Frame PROVE NoLeak'
<1>1. ASSUME NEW b \in boLive' PROVE BoHeld(b)'
  <2>1. BoHeld(b)
    BY <1>1, NoLeakParts DEF Frame
  <2>2. CASE \E t \in Thread : pc[t] \in Mallocing /\ loc[t].bo = b
    BY <1>1, <2>2 DEF Frame, BoHeld
  <2>3. CASE \E a \in Addr : /\ Tracked(a) /\ gBuffers[a].bo = b
                             /\ ~FreeAt(a, {"erase"})
    BY <2>3 DEF Frame, BoHeld, Closed
  <2>. QED BY <2>1, <2>2, <2>3 DEF BoHeld
<1>2. ASSUME NEW f \in Fd, dmaBuf'[f] # None PROVE FdHeld(f)'
  <2>1. FdHeld(f)
    BY <1>2, NoLeakParts DEF Frame
  <2>2. CASE \E t \in Thread : pc[t] \in Exported /\ loc[t].fd = f
    BY <2>2 DEF Frame, FdHeld
  <2>3. CASE \E a \in Addr : /\ Tracked(a) /\ gBuffers[a].fd = f
                             /\ ~FreeAt(a, Closed)
    BY <2>3 DEF Frame, FdHeld
  <2>. QED BY <2>1, <2>2, <2>3 DEF FdHeld
<1>. QED BY <1>1, <1>2, NoLeakPartsNext

-----------------------------------------------------------------------------
(* The steps that leave the holders in place.                               *)

LEMMA MallocFrame ==
    ASSUME IInv, NEW t \in Thread, Malloc(t) PROVE Frame
BY DEF IInv, TypeOK, Malloc, Frame, Closed

LEMMA DevOpenFrame ==
    ASSUME IInv, NEW t \in Thread, DevOpen(t) PROVE Frame
BY DEF IInv, TypeOK, DevOpen, Frame, Closed

LEMMA DevInitBeginsFrame ==
    ASSUME IInv, NEW t \in Thread, DevInitBegins(t) PROVE Frame
BY DEF IInv, TypeOK, DevInitBegins, Frame, Closed

LEMMA DevInitFrame ==
    ASSUME IInv, NEW t \in Thread, DevInit(t) PROVE Frame
BY DEF IInv, TypeOK, DevInit, Frame, Closed

LEMMA DevInitFailsFrame ==
    ASSUME IInv, NEW t \in Thread, DevInitFails(t) PROVE Frame
BY DEF IInv, TypeOK, DevInitFails, Frame, Closed

LEMMA NullDeviceFrame ==
    ASSUME IInv, NEW t \in Thread, NullDevice(t) PROVE Frame
BY DEF IInv, TypeOK, NullDevice, Frame, Closed

LEMMA NothingToReleaseFrame ==
    ASSUME IInv, NEW t \in Thread, NothingToRelease(t) PROVE Frame
BY DEF IInv, TypeOK, NothingToRelease, Frame, Closed

LEMMA CpuMapFrame ==
    ASSUME IInv, NEW t \in Thread, NEW a \in Addr, CpuMap(t, a) PROVE Frame
BY DEF IInv, TypeOK, CpuMap, Frame, Closed

LEMMA CpuMapFailsFrame ==
    ASSUME IInv, NEW t \in Thread, CpuMapFails(t) PROVE Frame
BY DEF IInv, TypeOK, CpuMapFails, Frame, Closed

LEMMA ExportFailsFrame ==
    ASSUME IInv, NEW t \in Thread, ExportFails(t) PROVE Frame
BY DEF IInv, TypeOK, ExportFails, Frame, Closed

LEMMA ImportFrame ==
    ASSUME IInv, NEW t \in Thread, Import(t) PROVE Frame
BY DEF IInv, TypeOK, Import, Frame, Closed

LEMMA ImportSkippedFrame ==
    ASSUME IInv, NEW t \in Thread, ImportSkipped(t) PROVE Frame
BY DEF IInv, TypeOK, ImportSkipped, Frame, Closed

LEMMA CloseNpuFrame ==
    ASSUME IInv, NEW t \in Thread, CloseNpu(t) PROVE Frame
BY DEF IInv, TypeOK, CloseNpu, Frame, Closed

LEMMA FreeFrame ==
    ASSUME IInv, NEW t \in Thread, NEW a \in Addr, Free(t, a) PROVE Frame
BY DEF IInv, TypeOK, Free, Frame, Closed

LEMMA RealFreeFrame ==
    ASSUME IInv, NEW t \in Thread, RealFree(t) PROVE Frame
BY DEF IInv, TypeOK, RealFree, Frame, Closed

LEMMA NpuFreeFrame ==
    ASSUME IInv, NEW t \in Thread, NpuFree(t) PROVE Frame
BY DEF IInv, TypeOK, NpuFree, Frame, Closed

LEMMA UnmapFrame ==
    ASSUME IInv, NEW t \in Thread, Unmap(t) PROVE Frame
BY DEF IInv, TypeOK, Unmap, Frame, Closed

LEMMA MemcpyFrame ==
    ASSUME IInv, NEW t \in Thread, NEW ops \in Operands, Memcpy(t, ops) PROVE Frame
BY DEF IInv, TypeOK, Memcpy, Frame, Closed

LEMMA RealMemcpyFrame ==
    ASSUME IInv, NEW t \in Thread, NEW ops \in Operands, RealMemcpy(t, ops) PROVE Frame
BY DEF IInv, TypeOK, RealMemcpy, Frame, Closed

LEMMA MemcpyDoneFrame ==
    ASSUME IInv, NEW t \in Thread, MemcpyDone(t) PROVE Frame
BY DEF IInv, TypeOK, MemcpyDone, Frame, Closed

LEMMA RealMemcpyDoneFrame ==
    ASSUME IInv, NEW t \in Thread, RealMemcpyDone(t) PROVE Frame
BY DEF IInv, TypeOK, RealMemcpyDone, Frame, Closed

-----------------------------------------------------------------------------
(* The steps that move an object or a descriptor from one holder to another, *)
(* or give it back: for each, what is held before still is, except what it   *)
(* is about.                                                                 *)

LEMMA BoAllocKeeps ==
    ASSUME IInv, NoLeak, NEW t \in Thread, NEW b \in Bo, BoAlloc(t, b)
    PROVE  NoLeak'
<1>1. /\ pc[t] = "bo_alloc" /\ pc' = [pc EXCEPT ![t] = "cpu_map"]
      /\ loc' = [loc EXCEPT ![t].bo = b]
      /\ boLive' = boLive \cup {b}
      /\ UNCHANGED <<arg, gBuffers, dmaBuf>>
  BY DEF BoAlloc
<1>2. /\ pc'[t] = "cpu_map" /\ loc'[t].bo = b
      /\ \A u \in Thread : u # t => pc'[u] = pc[u] /\ loc'[u] = loc[u]
  BY <1>1 DEF IInv, TypeOK
<1>3. ASSUME NEW c \in boLive' PROVE BoHeld(c)'
  BY <1>1, <1>2, NoLeakParts DEF BoHeld
<1>4. ASSUME NEW f \in Fd, dmaBuf'[f] # None PROVE FdHeld(f)'
  BY <1>1, <1>2, <1>4, NoLeakParts DEF FdHeld, Closed
<1>. QED BY <1>3, <1>4, NoLeakPartsNext

LEMMA ExportKeeps ==
    ASSUME IInv, NoLeak, NEW t \in Thread, NEW f \in Fd, Export(t, f)
    PROVE  NoLeak'
<1>1. /\ pc[t] = "export" /\ loc' = [loc EXCEPT ![t].fd = f]
      /\ \E label \in {"import", "track"} : pc' = [pc EXCEPT ![t] = label]
      /\ dmaBuf' = [dmaBuf EXCEPT ![f] = loc[t].bo]
      /\ UNCHANGED <<arg, gBuffers, boLive>>
  BY DEF Export
<1>2. /\ pc'[t] \in {"import", "track"}
      /\ loc'[t].bo = loc[t].bo /\ loc'[t].fd = f
      /\ \A u \in Thread : u # t => pc'[u] = pc[u] /\ loc'[u] = loc[u]
  BY <1>1 DEF IInv, TypeOK
<1>3. ASSUME NEW c \in boLive' PROVE BoHeld(c)'
  BY <1>1, <1>2, NoLeakParts DEF BoHeld
<1>4. ASSUME NEW g \in Fd, dmaBuf'[g] # None PROVE FdHeld(g)'
  <2>1. CASE g = f
    BY <1>2, <2>1 DEF FdHeld
  <2>2. CASE g # f
    <3>1. FdHeld(g)
      BY <1>1, <1>4, <2>2, NoLeakParts DEF IInv, TypeOK
    <3>. QED BY <1>1, <1>2, <3>1 DEF FdHeld, Closed
  <2>. QED BY <2>1, <2>2
<1>. QED BY <1>3, <1>4, NoLeakPartsNext

\* npu_malloc hands its object and descriptor to a new entry.
LEMMA TrackKeeps ==
    ASSUME IInv, NoLeak, NEW t \in Thread, Track(t) PROVE NoLeak'
<1>. DEFINE a == loc[t].ptr
<1>1. /\ pc[t] = "track" /\ pc' = [pc EXCEPT ![t] = "idle"]
      /\ loc' = [loc EXCEPT ![t] = NoLocals]
      /\ gBuffers' = [gBuffers EXCEPT ![a] =
                          [bo |-> loc[t].bo, fd |-> loc[t].fd]]
      /\ UNCHANGED <<arg, boLive, dmaBuf>>
  BY DEF Track
<1>2. /\ a \in Addr /\ ~Tracked(a)
      /\ \A u \in Thread : pc[u] \notin Freeing
  <2>1. a \in Addr
    BY DEF IInv, Track, HandInv
  <2>2. ~Tracked(a)
    BY TrackIsNew
  <2>3. ASSUME NEW u \in Thread PROVE pc[u] \notin Freeing
    BY DEF IInv, Track, MutexInv
  <2>. QED BY <2>1, <2>2, <2>3
<1>3. /\ pc'[t] = "idle"
      /\ \A u \in Thread : u # t => pc'[u] = pc[u] /\ loc'[u] = loc[u]
      /\ gBuffers'[a] = [bo |-> loc[t].bo, fd |-> loc[t].fd]
      /\ \A c \in Addr : c # a => gBuffers'[c] = gBuffers[c]
  BY <1>1, <1>2 DEF IInv, TypeOK
<1>4. /\ \A u \in Thread : pc'[u] \notin Freeing
      /\ gBuffers'[a].bo = loc[t].bo /\ gBuffers'[a].fd = loc[t].fd
      /\ gBuffers'[a] # None
  <2>1. loc[t].bo \in Bo /\ loc[t].fd \in Fd
    BY DEF IInv, TypeOK, HandInv, Track
  <2>2. [bo |-> loc[t].bo, fd |-> loc[t].fd] # None
    BY <2>1
  <2>3. \A u \in Thread : pc'[u] \notin Freeing
    BY <1>2, <1>3
  <2>. QED BY <1>3, <2>2, <2>3
<1>5. ASSUME NEW b \in boLive' PROVE BoHeld(b)'
  <2>1. BoHeld(b)
    BY <1>1, <1>5, NoLeakParts
  <2>2. CASE b = loc[t].bo
    BY <1>2, <1>4, <2>2 DEF BoHeld
  <2>3. CASE b # loc[t].bo
    BY <1>2, <1>3, <1>4, <2>1, <2>3 DEF BoHeld
  <2>. QED BY <2>2, <2>3
<1>6. ASSUME NEW f \in Fd, dmaBuf'[f] # None PROVE FdHeld(f)'
  <2>1. FdHeld(f)
    BY <1>1, <1>6, NoLeakParts
  <2>2. CASE f = loc[t].fd
    BY <1>2, <1>4, <2>2 DEF FdHeld, Closed
  <2>3. CASE f # loc[t].fd
    BY <1>2, <1>3, <1>4, <2>1, <2>3 DEF FdHeld, Closed
  <2>. QED BY <2>2, <2>3
<1>. QED BY <1>5, <1>6, NoLeakPartsNext

\* npu_free closes the descriptor of its entry, and only that one.
LEMMA CloseFdKeeps ==
    ASSUME IInv, NoLeak, NEW t \in Thread, CloseFd(t) PROVE NoLeak'
<1>1. /\ pc[t] = "close" /\ pc' = [pc EXCEPT ![t] = "unmap"]
      /\ dmaBuf' = [dmaBuf EXCEPT ![gBuffers[arg[t]].fd] = None]
      /\ UNCHANGED <<arg, loc, gBuffers, boLive>>
  BY DEF CloseFd
<1>2. /\ arg[t] \in Addr /\ pc'[t] = "unmap"
      /\ \A u \in Thread : u # t => pc'[u] = pc[u]
  BY <1>1 DEF IInv, TypeOK, FreeInv
<1>3. ASSUME NEW b \in boLive' PROVE BoHeld(b)'
  BY <1>1, <1>2, NoLeakParts DEF BoHeld
<1>4. ASSUME NEW f \in Fd, dmaBuf'[f] # None PROVE FdHeld(f)'
  <2>1. FdHeld(f) /\ f # gBuffers[arg[t]].fd
    BY <1>1, <1>4, NoLeakParts DEF IInv, TypeOK
  <2>2. CASE \E u \in Thread : pc[u] \in Exported /\ loc[u].fd = f
    BY <1>1, <1>2, <2>2 DEF FdHeld
  <2>3. CASE \E a \in Addr : /\ Tracked(a) /\ gBuffers[a].fd = f
                             /\ ~FreeAt(a, Closed)
    BY <1>1, <1>2, <2>1, <2>3 DEF FdHeld, Closed
  <2>. QED BY <2>1, <2>2, <2>3 DEF FdHeld
<1>. QED BY <1>3, <1>4, NoLeakPartsNext

LEMMA BoFreeKeeps ==
    ASSUME IInv, NoLeak, NEW t \in Thread, BoFree(t) PROVE NoLeak'
<1>1. /\ pc[t] = "bo_free" /\ pc' = [pc EXCEPT ![t] = "erase"]
      /\ boLive' = boLive \ {gBuffers[arg[t]].bo}
      /\ UNCHANGED <<arg, loc, gBuffers, dmaBuf>>
  BY DEF BoFree
<1>2. /\ arg[t] \in Addr /\ pc'[t] = "erase"
      /\ \A u \in Thread : u # t => pc'[u] = pc[u]
  BY <1>1 DEF IInv, TypeOK, FreeInv
<1>3. ASSUME NEW b \in boLive' PROVE BoHeld(b)'
  <2>1. BoHeld(b) /\ b # gBuffers[arg[t]].bo
    BY <1>1, <1>3, NoLeakParts
  <2>2. CASE \E u \in Thread : pc[u] \in Mallocing /\ loc[u].bo = b
    BY <1>1, <1>2, <2>2 DEF BoHeld
  <2>3. CASE \E a \in Addr : /\ Tracked(a) /\ gBuffers[a].bo = b
                             /\ ~FreeAt(a, {"erase"})
    BY <1>1, <1>2, <2>1, <2>3 DEF BoHeld
  <2>. QED BY <2>1, <2>2, <2>3 DEF BoHeld
<1>4. ASSUME NEW f \in Fd, dmaBuf'[f] # None PROVE FdHeld(f)'
  BY <1>1, <1>2, <1>4, NoLeakParts DEF FdHeld, Closed
<1>. QED BY <1>3, <1>4, NoLeakPartsNext

\* The entry that is erased holds nothing any more.
LEMMA EraseKeeps ==
    ASSUME IInv, NoLeak, NEW t \in Thread, Erase(t) PROVE NoLeak'
<1>1. /\ pc[t] = "erase" /\ pc' = [pc EXCEPT ![t] = "idle"]
      /\ gBuffers' = [gBuffers EXCEPT ![arg[t]] = None]
      /\ arg' = [arg EXCEPT ![t] = None]
      /\ UNCHANGED <<loc, boLive, dmaBuf>>
  BY DEF Erase
<1>2. /\ arg[t] \in Addr /\ pc'[t] = "idle"
      /\ \A u \in Thread : u # t => pc'[u] = pc[u] /\ arg'[u] = arg[u]
      /\ \A c \in Addr : c # arg[t] => gBuffers'[c] = gBuffers[c]
  BY <1>1 DEF IInv, TypeOK, FreeInv
<1>3. ASSUME NEW b \in boLive' PROVE BoHeld(b)'
  <2>1. BoHeld(b)
    BY <1>1, <1>3, NoLeakParts
  <2>. QED BY <1>1, <1>2, <2>1 DEF BoHeld
<1>4. ASSUME NEW f \in Fd, dmaBuf'[f] # None PROVE FdHeld(f)'
  <2>1. FdHeld(f)
    BY <1>1, <1>4, NoLeakParts
  <2>. QED BY <1>1, <1>2, <2>1 DEF FdHeld, Closed
<1>. QED BY <1>3, <1>4, NoLeakPartsNext

-----------------------------------------------------------------------------
LEMMA InitNoLeak == Init => NoLeak
BY DEF Init, NoLeak

LEMMA NextNoLeak == IInv /\ NoLeak /\ [Next]_vars => NoLeak'
<1>. SUFFICES ASSUME IInv, NoLeak, [Next]_vars PROVE NoLeak'
  OBVIOUS
<1>1. CASE UNCHANGED vars
  BY <1>1 DEF vars, NoLeak
<1>3. CASE Next
  BY <1>3, FrameKeeps, MallocFrame, DevOpenFrame, DevInitBeginsFrame,
     DevInitFrame, DevInitFailsFrame, NothingToReleaseFrame, NullDeviceFrame, BoAllocKeeps, CpuMapFrame,
     CpuMapFailsFrame, ExportKeeps, ExportFailsFrame, ImportFrame,
     ImportSkippedFrame, CloseNpuFrame, TrackKeeps, FreeFrame, RealFreeFrame,
     NpuFreeFrame, CloseFdKeeps, UnmapFrame, BoFreeKeeps, EraseKeeps,
     MemcpyFrame, RealMemcpyFrame, MemcpyDoneFrame, RealMemcpyDoneFrame
     DEF Next, Step
<1>. QED BY <1>1, <1>3

\* No error path of npu_malloc and no order of frees loses a buffer object or a
\* descriptor (lines 65-107 and 113-125), for any number of threads.
THEOREM NothingLeaks == Spec => []NoLeak
BY Invariance, InitNoLeak, NextNoLeak, PTL DEF Spec

-----------------------------------------------------------------------------
(* How often the device is opened.                                          *)

\* As long as nobody has raced: one thread at most is in ensure_amdgpu, the node
\* is open for it or for the handle, and the handle is there for those past it.
AloneInv ==
    ~raced =>
        /\ \A t, u \in Thread : pc[t] \in Opening /\ pc[u] \in Opening => t = u
        /\ \A t \in Thread : pc[t] \in Opening => ~gAmdgpuDev
        /\ \A t \in Thread : pc[t] = "dev_open" => renderFds = 0
        /\ \A t \in Thread : pc[t] \in {"dev_init", "dev_set"} => renderFds = 1
        /\ (\A t \in Thread : pc[t] \notin Opening)
              => renderFds = IF gAmdgpuDev THEN 1 ELSE 0
        /\ \A t \in Thread : pc[t] = "bo_alloc" => gAmdgpuDev
        /\ \A t \in Thread : pc[t] # "crashed"

\* A step that has nothing to do with the device.
OffDevice ==
    /\ UNCHANGED <<raced, renderFds, gAmdgpuDev>>
    /\ \A u \in Thread : /\ pc'[u] \in Opening <=> pc[u] \in Opening
                         /\ pc'[u] \in Opening => pc'[u] = pc[u]
                         /\ pc'[u] = "bo_alloc" => pc[u] = "bo_alloc"
                         /\ pc'[u] = "crashed" => pc[u] = "crashed"

LEMMA OffDeviceKeeps ==
    ASSUME AloneInv, OffDevice PROVE AloneInv'
BY DEF AloneInv, OffDevice

LEMMA MallocAlone ==
    ASSUME TypeOK, AloneInv, NEW t \in Thread, Malloc(t) PROVE AloneInv'
<1>. SUFFICES ASSUME ~raced' PROVE AloneInv'
  BY DEF AloneInv
<1>1. ~raced /\ (gAmdgpuDev \/ \A u \in Thread : pc[u] \notin Opening)
  BY DEF Malloc
<1>2. CASE gAmdgpuDev
  BY <1>1, <1>2 DEF TypeOK, AloneInv, Malloc
<1>3. CASE ~gAmdgpuDev
  BY <1>1, <1>3 DEF TypeOK, AloneInv, Malloc
<1>. QED BY <1>2, <1>3

LEMMA DevOpenAlone ==
    ASSUME TypeOK, AloneInv, NEW t \in Thread, DevOpen(t) PROVE AloneInv'
BY DEF TypeOK, AloneInv, DevOpen

LEMMA DevInitBeginsAlone ==
    ASSUME TypeOK, AloneInv, NEW t \in Thread, DevInitBegins(t) PROVE AloneInv'
BY DEF TypeOK, AloneInv, DevInitBegins

LEMMA DevInitAlone ==
    ASSUME TypeOK, AloneInv, NEW t \in Thread, DevInit(t) PROVE AloneInv'
BY DEF TypeOK, AloneInv, DevInit

LEMMA DevInitFailsAlone ==
    ASSUME TypeOK, AloneInv, NEW t \in Thread, DevInitFails(t) PROVE AloneInv'
BY DEF TypeOK, AloneInv, DevInitFails

LEMMA NothingToReleaseAlone ==
    ASSUME TypeOK, AloneInv, NEW t \in Thread, NothingToRelease(t) PROVE AloneInv'
BY DEF TypeOK, AloneInv, NothingToRelease

LEMMA NullDeviceAlone ==
    ASSUME TypeOK, AloneInv, NEW t \in Thread, NullDevice(t) PROVE AloneInv'
BY DEF TypeOK, AloneInv, NullDevice

LEMMA MallocsOffDevice ==
    ASSUME TypeOK, NEW t \in Thread,
           \/ \E b \in Bo : BoAlloc(t, b)
           \/ \E a \in Addr : CpuMap(t, a)
           \/ CpuMapFails(t)
           \/ \E f \in Fd : Export(t, f)
           \/ ExportFails(t) \/ Import(t) \/ ImportSkipped(t) \/ CloseNpu(t)
           \/ Track(t)
    PROVE  OffDevice
<1>1. UNCHANGED <<raced, renderFds, gAmdgpuDev>>
  BY DEF BoAlloc, CpuMap, CpuMapFails, Export, ExportFails, Import, ImportSkipped,
     CloseNpu, Track
<1>2. \E label \in Mallocing \cup {"idle"} :
         pc' = [pc EXCEPT ![t] = label] /\ pc[t] \in Mallocing \cup {"bo_alloc"}
  BY DEF BoAlloc, CpuMap, CpuMapFails, Export, ExportFails, Import, ImportSkipped,
     CloseNpu, Track
<1>. QED BY <1>1, <1>2 DEF TypeOK, OffDevice

LEMMA OthersOffDevice ==
    ASSUME TypeOK, NEW t \in Thread,
           \/ \E a \in Addr : Free(t, a)
           \/ RealFree(t) \/ NpuFree(t) \/ CloseFd(t) \/ Unmap(t) \/ BoFree(t)
           \/ Erase(t)
           \/ \E ops \in Operands : Memcpy(t, ops) \/ RealMemcpy(t, ops)
           \/ MemcpyDone(t) \/ RealMemcpyDone(t)
    PROVE  OffDevice
<1>1. UNCHANGED <<raced, renderFds, gAmdgpuDev>>
  BY DEF Free, RealFree, NpuFree, CloseFd, Unmap, BoFree, Erase, Memcpy, RealMemcpy,
     MemcpyDone, RealMemcpyDone
<1>2. \E label \in Locked \cup {"idle", "npu_free", "real_memcpy"} :
         /\ pc' = [pc EXCEPT ![t] = label]
         /\ pc[t] \in Locked \cup {"idle", "npu_free", "real_memcpy"}
  BY DEF Free, RealFree, NpuFree, CloseFd, Unmap, BoFree, Erase, Memcpy, RealMemcpy,
     MemcpyDone, RealMemcpyDone
<1>. QED BY <1>1, <1>2 DEF TypeOK, OffDevice

LEMMA NextAlone == TypeOK /\ AloneInv /\ [Next]_vars => AloneInv'
<1>. SUFFICES ASSUME TypeOK, AloneInv, [Next]_vars PROVE AloneInv'
  OBVIOUS
<1>1. CASE UNCHANGED vars
  BY <1>1 DEF vars, AloneInv
<1>2. CASE Next
  BY <1>2, MallocAlone, DevOpenAlone, DevInitBeginsAlone, DevInitAlone,
     DevInitFailsAlone, NothingToReleaseAlone, NullDeviceAlone, MallocsOffDevice,
     OthersOffDevice, OffDeviceKeeps DEF Next, Step
<1>. QED BY <1>1, <1>2

\* Threads that make their calls of ensure_amdgpu one after another open the
\* render node once and find the handle set, for any number of failed attempts
\* and of threads (lines 48-57).
THEOREM OpenedOnce == Spec => []DeviceOpenedOnce
<1>1. IInv => TypeOK BY DEF IInv
<1>2. Init => AloneInv BY DEF Init, AloneInv
<1>3. TypeOK /\ AloneInv => DeviceOpenedOnce
  BY DEF TypeOK, AloneInv, DeviceOpenedOnce
<1>. QED BY <1>1, <1>2, <1>3, Invariance, NextAlone, PTL DEF Spec

-----------------------------------------------------------------------------
(* A handle that is set stands over a descriptor.                           *)

\* The threads that may still close the descriptor they have opened.
Undecided == {t \in Thread : pc[t] \in {"dev_init", "dev_set"}}

BackedInv ==
    /\ renderFds >= Cardinality(Undecided)
    /\ gAmdgpuDev => renderFds > Cardinality(Undecided)

LEMMA UndecidedIsFinite ==
    ASSUME IsFiniteSet(Thread)
    PROVE  IsFiniteSet(Undecided) /\ Cardinality(Undecided) \in Nat
BY FS_Subset, FS_CardinalityType DEF Undecided

LEMMA SameUndecided ==
    ASSUME BackedInv, UNCHANGED renderFds, gAmdgpuDev' => gAmdgpuDev,
           Undecided' = Undecided
    PROVE  BackedInv'
BY DEF BackedInv

LEMMA DevOpenBacked ==
    ASSUME IsFiniteSet(Thread), TypeOK, BackedInv, NEW t \in Thread, DevOpen(t)
    PROVE  BackedInv'
<1>1. t \notin Undecided /\ Undecided' = Undecided \cup {t}
  BY DEF TypeOK, DevOpen, Undecided
<1>2. Cardinality(Undecided') = Cardinality(Undecided) + 1
  BY <1>1, UndecidedIsFinite, FS_AddElement
<1>3. Cardinality(Undecided) \in Nat
  BY UndecidedIsFinite
<1>4. renderFds' = renderFds + 1 /\ gAmdgpuDev' = gAmdgpuDev /\ renderFds \in Int
  BY DEF DevOpen, TypeOK
<1>. QED BY <1>2, <1>3, <1>4 DEF BackedInv

LEMMA DecidedIsOneLess ==
    ASSUME IsFiniteSet(Thread), NEW t \in Thread, pc[t] = "dev_set",
           \E label \in {"idle", "bo_alloc"} : pc' = [pc EXCEPT ![t] = label],
           TypeOK
    PROVE  /\ Cardinality(Undecided) \in Nat
           /\ Cardinality(Undecided') = Cardinality(Undecided) - 1
<1>1. t \in Undecided /\ Undecided' = Undecided \ {t}
  BY DEF TypeOK, Undecided
<1>. QED BY <1>1, UndecidedIsFinite, FS_RemoveElement

LEMMA DevInitBacked ==
    ASSUME IsFiniteSet(Thread), TypeOK, BackedInv, NEW t \in Thread, DevInit(t)
    PROVE  BackedInv'
<1>1. renderFds' = renderFds /\ renderFds \in Int
  BY DEF DevInit, TypeOK
<1>2. /\ Cardinality(Undecided) \in Nat
      /\ Cardinality(Undecided') = Cardinality(Undecided) - 1
  BY DecidedIsOneLess DEF DevInit
<1>. QED BY <1>1, <1>2 DEF BackedInv

LEMMA DevInitFailsBacked ==
    ASSUME IsFiniteSet(Thread), TypeOK, BackedInv, NEW t \in Thread, DevInitFails(t)
    PROVE  BackedInv'
<1>1. renderFds' = renderFds - 1 /\ gAmdgpuDev' = gAmdgpuDev /\ renderFds \in Int
  BY DEF DevInitFails, TypeOK
<1>2. /\ Cardinality(Undecided) \in Nat
      /\ Cardinality(Undecided') = Cardinality(Undecided) - 1
  BY DecidedIsOneLess DEF DevInitFails
<1>. QED BY <1>1, <1>2 DEF BackedInv

LEMMA OffDeviceBacked ==
    ASSUME BackedInv, OffDevice PROVE BackedInv'
<1>1. Undecided' = Undecided
  BY DEF OffDevice, Undecided
<1>. QED BY <1>1, SameUndecided DEF OffDevice

LEMMA StayersBacked ==
    ASSUME TypeOK, BackedInv, NEW t \in Thread,
           Malloc(t) \/ DevInitBegins(t) \/ NothingToRelease(t) \/ NullDevice(t)
    PROVE  BackedInv'
<1>1. Undecided' = Undecided
  <2>1. CASE Malloc(t) \/ NothingToRelease(t) \/ NullDevice(t)
    BY <2>1 DEF TypeOK, Malloc, NothingToRelease, NullDevice, Undecided
  <2>2. CASE DevInitBegins(t)
    BY <2>2 DEF TypeOK, DevInitBegins, Undecided
  <2>. QED BY <2>1, <2>2
<1>2. renderFds' = renderFds /\ (gAmdgpuDev' => gAmdgpuDev)
  BY DEF Malloc, DevInitBegins, NothingToRelease, NullDevice
<1>. QED BY <1>1, <1>2, SameUndecided

LEMMA NextBacked ==
    ASSUME IsFiniteSet(Thread)
    PROVE  TypeOK /\ BackedInv /\ [Next]_vars => BackedInv'
<1>. SUFFICES ASSUME TypeOK, BackedInv, [Next]_vars PROVE BackedInv'
  OBVIOUS
<1>1. CASE UNCHANGED vars
  <2>1. Undecided' = Undecided
    BY <1>1 DEF vars, Undecided
  <2>. QED BY <1>1, <2>1, SameUndecided DEF vars
<1>2. CASE Next
  BY <1>2, DevOpenBacked, DevInitBacked, DevInitFailsBacked, StayersBacked,
     MallocsOffDevice, OthersOffDevice, OffDeviceBacked DEF Next, Step
<1>. QED BY <1>1, <1>2

\* However calls of ensure_amdgpu interleave and fail, by any finite set of
\* threads, a handle that is set is over a descriptor nobody will close
\* (lines 51-56).
THEOREM HandleStaysBacked ==
    ASSUME IsFiniteSet(Thread) PROVE Spec => []HandleIsBacked
<1>1. IInv => TypeOK BY DEF IInv
<1>2. Init => BackedInv
  <2>. SUFFICES ASSUME Init PROVE BackedInv
    OBVIOUS
  <2>1. Undecided = {}
    BY DEF Init, Undecided
  <2>2. Cardinality(Undecided) = 0
    BY <2>1, FS_EmptySet
  <2>3. renderFds = 0 /\ ~gAmdgpuDev
    BY DEF Init
  <2>. QED BY <2>2, <2>3 DEF BackedInv
<1>3. TypeOK /\ BackedInv => HandleIsBacked
  BY UndecidedIsFinite DEF TypeOK, BackedInv, HandleIsBacked, Undecided
<1>. QED BY <1>1, <1>2, <1>3, Invariance, NextBacked, PTL DEF Spec
=============================================================================
