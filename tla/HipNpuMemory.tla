---------------------------- MODULE HipNpuMemory ----------------------------
(***************************************************************************)
(* The HIP memory shim, rocm-npu/hip_npu_memory.cpp: hipMalloc, hipFree    *)
(* and hipMemcpy called by several threads of one application.  g_buffers  *)
(* maps the CPU address of a buffer to its amdgpu buffer object and its    *)
(* dma-buf descriptor; the kernel may hand out an address, a descriptor    *)
(* or a handle again as soon as it has been given back.  A step is what    *)
(* one thread does up to the next point where another thread can be seen.  *)
(***************************************************************************)
EXTENDS Integers, FiniteSets

CONSTANTS Thread,        \* the application's threads
          Addr,          \* addresses amdgpu_bo_cpu_map can return
          Bo,            \* amdgpu_bo_handle values
          Fd,            \* dma-buf descriptor numbers
          Offset,        \* 0, and any other offset a copy is asked to start at
          NpuAvailable,  \* g_npu_available
          MaxRenderFds,  \* descriptors the render node can be opened for
          None

ASSUME NoneIsFresh ==
    None \notin Thread \cup Addr \cup Bo \cup Fd \cup [bo : Bo, fd : Fd]
ASSUME FlagIsBoolean == NpuAvailable \in BOOLEAN
ASSUME LimitIsNatural == MaxRenderFds \in Nat

VARIABLES
    gAmdgpuDev,   \* g_amdgpu_dev is set
    gBuffers,     \* g_buffers: address -> entry, None where there is no entry
    gBufMutex,    \* the holder of g_buf_mutex, or None
    renderFds,    \* how many descriptors of the render node are open
    boLive,       \* kernel: buffer objects not yet freed
    cpuMap,       \* kernel: where each buffer object is mapped, or None
    dmaBuf,       \* kernel: the buffer object behind each open descriptor
    npuImport,    \* kernel: buffer objects that have a GEM handle in the NPU
    pc, loc,      \* where each thread is; the locals bo, cpu_ptr, dmabuf_fd
    arg,          \* the pointer npu_free was called with
    busy,         \* the tracked addresses a thread is copying from or to
    owned,        \* pointers handed to the application and not freed by it
    disciplined,  \* it has freed nothing but pointers it owned
    raced         \* two threads have been inside ensure_amdgpu at once

device == <<gAmdgpuDev, raced>>
kernel == <<renderFds, boLive, cpuMap, dmaBuf, npuImport>>
thread == <<loc, arg, busy>>
app == <<owned, disciplined>>
vars == <<device, gBuffers, gBufMutex, kernel, pc, thread, app>>

NoLocals == [bo |-> None, ptr |-> None, fd |-> None]

Init == /\ gAmdgpuDev = FALSE
        /\ gBuffers = [a \in Addr |-> None]
        /\ gBufMutex = None
        /\ renderFds = 0
        /\ boLive = {}
        /\ cpuMap = [b \in Bo |-> None]
        /\ dmaBuf = [f \in Fd |-> None]
        /\ npuImport = {}
        /\ pc = [t \in Thread |-> "idle"]
        /\ loc = [t \in Thread |-> NoLocals]
        /\ arg = [t \in Thread |-> None]
        /\ busy = [t \in Thread |-> {}]
        /\ owned = {}
        /\ disciplined = TRUE
        /\ raced = FALSE

Tracked(a) == gBuffers[a] # None

At(t, label) == pc[t] = label
GoTo(t, label) == pc' = [pc EXCEPT ![t] = label]

-----------------------------------------------------------------------------
(* hipMalloc on the NPU device: npu_malloc and ensure_amdgpu.               *)

Opening == {"dev_open", "dev_init", "dev_set"}

\* g_amdgpu_dev is read without a lock: two first calls may both see it unset,
\* and so may a call made while another one's initialisation is under way.
Malloc(t) ==
    /\ At(t, "idle")
    /\ GoTo(t, IF gAmdgpuDev THEN "bo_alloc" ELSE "dev_open")
    /\ raced' = (raced \/ (~gAmdgpuDev /\ \E u \in Thread : pc[u] \in Opening))
    /\ UNCHANGED <<gAmdgpuDev, gBuffers, gBufMutex, kernel, thread, app>>

DevOpen(t) ==
    /\ At(t, "dev_open")
    /\ renderFds < MaxRenderFds
    /\ renderFds' = renderFds + 1
    /\ GoTo(t, "dev_init")
    /\ UNCHANGED <<device, gBuffers, gBufMutex, boLive, cpuMap, dmaBuf,
                   npuImport, thread, app>>

\* amdgpu_device_initialize is given the address of g_amdgpu_dev itself: it
\* clears what it points to, whoever had set it, and sets it when it succeeds.
DevInitBegins(t) ==
    /\ At(t, "dev_init")
    /\ gAmdgpuDev' = FALSE
    /\ GoTo(t, "dev_set")
    /\ UNCHANGED <<raced, gBuffers, gBufMutex, kernel, thread, app>>

\* BUG: the descriptor is closed once the device is initialised.
DevInitCloses(t) ==
    /\ At(t, "dev_set")
    /\ gAmdgpuDev' = TRUE
    /\ renderFds' = renderFds - 1
    /\ GoTo(t, "bo_alloc")
    /\ UNCHANGED <<raced, gBuffers, gBufMutex, boLive, cpuMap, dmaBuf,
                   npuImport, thread, app>>

DevInit(t) ==
    /\ At(t, "dev_set")
    /\ gAmdgpuDev' = TRUE
    /\ GoTo(t, "bo_alloc")
    /\ UNCHANGED <<raced, gBuffers, gBufMutex, kernel, thread, app>>

\* BUG: a failed initialisation that keeps the descriptor open.
DevInitFailsOpen(t) ==
    /\ At(t, "dev_set")
    /\ GoTo(t, "idle")
    /\ UNCHANGED <<device, gBuffers, gBufMutex, kernel, thread, app>>

\* A failed call leaves g_amdgpu_dev as it is by now: cleared by this call, or
\* set or cleared again by another thread's.
DevInitFails(t) ==
    /\ At(t, "dev_set")
    /\ renderFds' = renderFds - 1
    /\ GoTo(t, "idle")
    /\ UNCHANGED <<device, gBuffers, gBufMutex, boLive, cpuMap, dmaBuf,
                   npuImport, thread, app>>

\* The render node cannot be opened, or no buffer object is to be had.
NothingToRelease(t) ==
    /\ At(t, "dev_open") \/ (At(t, "bo_alloc") /\ gAmdgpuDev)
    /\ GoTo(t, "idle")
    /\ UNCHANGED <<device, gBuffers, gBufMutex, kernel, thread, app>>

\* amdgpu_bo_alloc is given g_amdgpu_dev after another thread's initialisation
\* has cleared it: it dereferences a null handle and the process is gone.
NullDevice(t) ==
    /\ At(t, "bo_alloc")
    /\ ~gAmdgpuDev
    /\ GoTo(t, "crashed")
    /\ UNCHANGED <<device, gBuffers, gBufMutex, kernel, thread, app>>

BoAlloc(t, b) ==
    /\ At(t, "bo_alloc")
    /\ gAmdgpuDev
    /\ b \notin boLive
    /\ boLive' = boLive \cup {b}
    /\ loc' = [loc EXCEPT ![t].bo = b]
    /\ GoTo(t, "cpu_map")
    /\ UNCHANGED <<device, gBuffers, gBufMutex, renderFds, cpuMap, dmaBuf,
                   npuImport, arg, busy, app>>

CpuMap(t, a) ==
    /\ At(t, "cpu_map")
    /\ \A b \in Bo : cpuMap[b] # a
    /\ cpuMap' = [cpuMap EXCEPT ![loc[t].bo] = a]
    /\ loc' = [loc EXCEPT ![t].ptr = a]
    /\ GoTo(t, "export")
    /\ UNCHANGED <<device, gBuffers, gBufMutex, renderFds, boLive, dmaBuf,
                   npuImport, arg, busy, app>>

\* BUG: a failed map is not noticed, and its null pointer becomes a key.
CpuMapFailsIgnored(t) ==
    /\ At(t, "cpu_map")
    /\ GoTo(t, "track")
    /\ UNCHANGED <<device, gBuffers, gBufMutex, kernel, thread, app>>

\* BUG: a failed map returns without amdgpu_bo_free.
CpuMapFailsLive(t) ==
    /\ At(t, "cpu_map")
    /\ loc' = [loc EXCEPT ![t] = NoLocals]
    /\ GoTo(t, "idle")
    /\ UNCHANGED <<device, gBuffers, gBufMutex, kernel, arg, busy, app>>

CpuMapFails(t) ==
    /\ At(t, "cpu_map")
    /\ boLive' = boLive \ {loc[t].bo}
    /\ loc' = [loc EXCEPT ![t] = NoLocals]
    /\ GoTo(t, "idle")
    /\ UNCHANGED <<device, gBuffers, gBufMutex, renderFds, cpuMap, dmaBuf,
                   npuImport, arg, busy, app>>

Export(t, f) ==
    /\ At(t, "export")
    /\ dmaBuf[f] = None
    /\ dmaBuf' = [dmaBuf EXCEPT ![f] = loc[t].bo]
    /\ loc' = [loc EXCEPT ![t].fd = f]
    /\ GoTo(t, IF NpuAvailable THEN "import" ELSE "track")
    /\ UNCHANGED <<device, gBuffers, gBufMutex, renderFds, boLive, cpuMap,
                   npuImport, arg, busy, app>>

\* A failed export unmaps and frees the object.
ExportFails(t) ==
    /\ At(t, "export")
    /\ cpuMap' = [cpuMap EXCEPT ![loc[t].bo] = None]
    /\ boLive' = boLive \ {loc[t].bo}
    /\ loc' = [loc EXCEPT ![t] = NoLocals]
    /\ GoTo(t, "idle")
    /\ UNCHANGED <<device, gBuffers, gBufMutex, renderFds, dmaBuf,
                   npuImport, arg, busy, app>>

\* The result of the import is ignored.
Import(t) ==
    /\ At(t, "import")
    /\ npuImport' \in {npuImport, npuImport \cup {loc[t].bo}}
    /\ GoTo(t, "close_npu")
    /\ UNCHANGED <<device, gBuffers, gBufMutex, renderFds, boLive, cpuMap,
                   dmaBuf, thread, app>>

\* The accel device cannot be opened: the import is skipped.
ImportSkipped(t) ==
    /\ At(t, "import")
    /\ GoTo(t, "track")
    /\ UNCHANGED <<device, gBuffers, gBufMutex, kernel, thread, app>>

\* Closing the accel device drops the GEM handles created through it.
CloseNpu(t) ==
    /\ At(t, "close_npu")
    /\ npuImport' = npuImport \ {loc[t].bo}
    /\ GoTo(t, "track")
    /\ UNCHANGED <<device, gBuffers, gBufMutex, renderFds, boLive, cpuMap,
                   dmaBuf, thread, app>>

\* BUG: the entry is made without the mutex.
TrackUnlocked(t) ==
    /\ At(t, "track")
    /\ gBuffers' = [gBuffers EXCEPT ![loc[t].ptr] =
                        [bo |-> loc[t].bo, fd |-> loc[t].fd]]
    /\ owned' = owned \cup {loc[t].ptr}
    /\ loc' = [loc EXCEPT ![t] = NoLocals]
    /\ GoTo(t, "idle")
    /\ UNCHANGED <<device, gBufMutex, kernel, arg, busy, disciplined>>

Track(t) ==
    /\ At(t, "track")
    /\ gBufMutex = None
    /\ gBuffers' = [gBuffers EXCEPT ![loc[t].ptr] =
                        [bo |-> loc[t].bo, fd |-> loc[t].fd]]
    /\ owned' = owned \cup {loc[t].ptr}
    /\ loc' = [loc EXCEPT ![t] = NoLocals]
    /\ GoTo(t, "idle")
    /\ UNCHANGED <<device, gBufMutex, kernel, arg, busy, disciplined>>

-----------------------------------------------------------------------------
(* hipFree.  A pointer found in g_buffers is looked up again by npu_free,   *)
(* under the mutex it has let go in between; any other pointer goes to the  *)
(* real hipFree with the mutex held.                                        *)

\* The check of hipFree, and the two ways on from it.
Free(t, a) ==
    /\ At(t, "idle")
    /\ gBufMutex = None
    /\ owned' = owned \ {a}
    /\ disciplined' = (disciplined /\ a \in owned)
    /\ IF Tracked(a)
       THEN /\ GoTo(t, "npu_free")
            /\ arg' = [arg EXCEPT ![t] = a]
            /\ UNCHANGED gBufMutex
       ELSE /\ GoTo(t, "real_free")
            /\ gBufMutex' = t
            /\ UNCHANGED arg
    /\ UNCHANGED <<device, gBuffers, kernel, loc, busy>>

RealFree(t) ==
    /\ At(t, "real_free")
    /\ gBufMutex' = None
    /\ GoTo(t, "idle")
    /\ UNCHANGED <<device, gBuffers, kernel, thread, app>>

\* npu_free finds the entry again, or returns hipErrorInvalidValue.
NpuFree(t) ==
    /\ At(t, "npu_free")
    /\ gBufMutex = None
    /\ IF Tracked(arg[t])
       THEN GoTo(t, "close") /\ gBufMutex' = t /\ UNCHANGED arg
       ELSE GoTo(t, "idle") /\ arg' = [arg EXCEPT ![t] = None]
            /\ UNCHANGED gBufMutex
    /\ UNCHANGED <<device, gBuffers, kernel, loc, busy, app>>

CloseFd(t) ==
    /\ At(t, "close")
    /\ dmaBuf' = [dmaBuf EXCEPT ![gBuffers[arg[t]].fd] = None]
    /\ GoTo(t, "unmap")
    /\ UNCHANGED <<device, gBuffers, gBufMutex, renderFds, boLive, cpuMap,
                   npuImport, thread, app>>

Unmap(t) ==
    /\ At(t, "unmap")
    /\ cpuMap' = [cpuMap EXCEPT ![gBuffers[arg[t]].bo] = None]
    /\ GoTo(t, "bo_free")
    /\ UNCHANGED <<device, gBuffers, gBufMutex, renderFds, boLive, dmaBuf,
                   npuImport, thread, app>>

BoFree(t) ==
    /\ At(t, "bo_free")
    /\ boLive' = boLive \ {gBuffers[arg[t]].bo}
    /\ GoTo(t, "erase")
    /\ UNCHANGED <<device, gBuffers, gBufMutex, renderFds, cpuMap, dmaBuf,
                   npuImport, thread, app>>

\* BUG: the buffer is released and its entry stays.
EraseForgotten(t) ==
    /\ At(t, "erase")
    /\ gBufMutex' = None
    /\ arg' = [arg EXCEPT ![t] = None]
    /\ GoTo(t, "idle")
    /\ UNCHANGED <<device, gBuffers, kernel, loc, busy, app>>

Erase(t) ==
    /\ At(t, "erase")
    /\ gBuffers' = [gBuffers EXCEPT ![arg[t]] = None]
    /\ gBufMutex' = None
    /\ arg' = [arg EXCEPT ![t] = None]
    /\ GoTo(t, "idle")
    /\ UNCHANGED <<device, kernel, loc, busy, app>>

-----------------------------------------------------------------------------
(* hipMemcpy.  Its operands are <<base, offset>> pairs; only a base address *)
(* is a key of g_buffers.  A host or GPU pointer is no operand here.        *)

Hits(ops) == {a \in Addr : <<a, 0>> \in ops /\ Tracked(a)}

\* BUG: the mutex is let go before the copy, as before a real_hipMemcpy.
MemcpyUnlocked(t, ops) ==
    /\ At(t, "idle")
    /\ gBufMutex = None
    /\ Hits(ops) # {}
    /\ busy' = [busy EXCEPT ![t] = Hits(ops)]
    /\ GoTo(t, "memcpy")
    /\ UNCHANGED <<device, gBuffers, gBufMutex, kernel, loc, arg, app>>

\* npu_memcpy, called with the mutex held; a copy of a kind it refuses returns
\* at once and changes nothing.
Memcpy(t, ops) ==
    /\ At(t, "idle")
    /\ gBufMutex = None
    /\ Hits(ops) # {}
    /\ gBufMutex' = t
    /\ busy' = [busy EXCEPT ![t] = Hits(ops)]
    /\ GoTo(t, "memcpy")
    /\ UNCHANGED <<device, gBuffers, kernel, loc, arg, app>>

MemcpyDone(t) ==
    /\ At(t, "memcpy")
    /\ gBufMutex' = None
    /\ busy' = [busy EXCEPT ![t] = {}]
    /\ GoTo(t, "idle")
    /\ UNCHANGED <<device, gBuffers, kernel, loc, arg, app>>

\* No operand is a key: the copy goes to the real hipMemcpy, unlocked.
RealMemcpy(t, ops) ==
    /\ At(t, "idle")
    /\ gBufMutex = None
    /\ ops # {}
    /\ Hits(ops) = {}
    /\ GoTo(t, "real_memcpy")
    /\ UNCHANGED <<device, gBuffers, gBufMutex, kernel, thread, app>>

RealMemcpyDone(t) ==
    /\ At(t, "real_memcpy")
    /\ GoTo(t, "idle")
    /\ UNCHANGED <<device, gBuffers, gBufMutex, kernel, thread, app>>

-----------------------------------------------------------------------------
Operands == {ops \in SUBSET (Addr \X Offset) : Cardinality(ops) \in 1..2}

Step(t) ==
    \/ Malloc(t) \/ DevOpen(t)
    \/ DevInitBegins(t) \/ DevInit(t) \/ DevInitFails(t)
    \/ NothingToRelease(t) \/ NullDevice(t)
    \/ \E b \in Bo : BoAlloc(t, b)
    \/ \E a \in Addr : CpuMap(t, a)
    \/ CpuMapFails(t)
    \/ \E f \in Fd : Export(t, f)
    \/ ExportFails(t) \/ Import(t) \/ ImportSkipped(t) \/ CloseNpu(t)
    \/ Track(t)
    \/ \E a \in Addr : Free(t, a)
    \/ RealFree(t) \/ NpuFree(t) \/ CloseFd(t) \/ Unmap(t) \/ BoFree(t)
    \/ Erase(t)
    \/ \E ops \in Operands : Memcpy(t, ops) \/ RealMemcpy(t, ops)
    \/ MemcpyDone(t) \/ RealMemcpyDone(t)

\* A crash is the end of the process.
Next == /\ \A t \in Thread : ~At(t, "crashed")
        /\ \E t \in Thread : Step(t)

Spec == Init /\ [][Next]_vars

-----------------------------------------------------------------------------
(* Properties.                                                              *)

Mallocing == {"cpu_map", "export", "import", "close_npu", "track"}
Mapped    == Mallocing \ {"cpu_map"}
Exported  == Mapped \ {"export"}
Freeing   == {"close", "unmap", "bo_free", "erase"}
Locked    == Freeing \cup {"real_free", "memcpy"}

\* Some thread is freeing the entry at a and has got as far as one of labels.
FreeAt(a, labels) == \E t \in Thread : arg[t] = a /\ pc[t] \in labels

\* The types of the shim's variables and of the kernel's.
TypeOK ==
    /\ gAmdgpuDev \in BOOLEAN
    /\ gBuffers \in [Addr -> [bo : Bo, fd : Fd] \cup {None}]
    /\ gBufMutex \in Thread \cup {None}
    /\ renderFds \in Int
    /\ boLive \in SUBSET Bo
    /\ cpuMap \in [Bo -> Addr \cup {None}]
    /\ dmaBuf \in [Fd -> Bo \cup {None}]
    /\ npuImport \in SUBSET Bo
    /\ pc \in [Thread -> Mallocing \cup Locked \cup
                 {"idle", "dev_open", "dev_init", "dev_set", "bo_alloc",
                  "crashed", "npu_free", "real_memcpy"}]
    /\ loc \in [Thread -> [bo : Bo \cup {None}, ptr : Addr \cup {None},
                           fd : Fd \cup {None}]]
    /\ arg \in [Thread -> Addr \cup {None}]
    /\ busy \in [Thread -> SUBSET Addr]
    /\ owned \in SUBSET Addr
    /\ disciplined \in BOOLEAN
    /\ raced \in BOOLEAN

\* An entry of g_buffers names a live buffer object, mapped at the entry's key,
\* and an open descriptor of that same object, except for what the thread now
\* freeing that entry has already given back (npu_free, lines 116-123) -- even
\* though the kernel may reuse every one of the three at once.
MapNamesLiveBuffer ==
    \A a \in Addr : Tracked(a) =>
        /\ \/ FreeAt(a, Freeing \ {"close"})
           \/ dmaBuf[gBuffers[a].fd] = gBuffers[a].bo
        /\ FreeAt(a, {"bo_free", "erase"}) \/ cpuMap[gBuffers[a].bo] = a
        /\ FreeAt(a, {"erase"}) \/ gBuffers[a].bo \in boLive

\* Nothing leaks on any error path of npu_malloc: a live buffer object, and an
\* open descriptor, is held by a running npu_malloc or by an entry of g_buffers
\* that npu_free has not released it from.
NoLeak ==
    /\ \A b \in boLive :
         \/ \E t \in Thread : pc[t] \in Mallocing /\ loc[t].bo = b
         \/ \E a \in Addr : /\ Tracked(a) /\ gBuffers[a].bo = b
                            /\ ~FreeAt(a, {"erase"})
    /\ \A f \in Fd : dmaBuf[f] # None =>
         \/ \E t \in Thread : pc[t] \in Exported /\ loc[t].fd = f
         \/ \E a \in Addr : /\ Tracked(a) /\ gBuffers[a].fd = f
                            /\ ~FreeAt(a, Freeing \ {"close"})

\* As long as no two threads have been inside ensure_amdgpu at once, the render
\* node is open at most once, however often initialisation fails and is retried,
\* and a thread that has left ensure_amdgpu finds the handle set (lines 48-57).
DeviceOpenedOnce ==
    ~raced => /\ renderFds <= 1
              /\ \A t \in Thread : At(t, "bo_alloc") => gAmdgpuDev
              /\ \A t \in Thread : ~At(t, "crashed")

\* Whatever races in ensure_amdgpu, a handle that is set stands over a descriptor
\* that no failing call will close: more are open than are still to be decided
\* about (lines 51-56).
HandleIsBacked ==
    gAmdgpuDev =>
        Cardinality({t \in Thread : pc[t] \in {"dev_init", "dev_set"}}) < renderFds

\* As long as the application has freed only what it owned, hipFree never fails:
\* a pointer it owns is tracked, and one it is freeing still is when npu_free
\* looks it up again, after hipFree has let the mutex go (lines 176-179 and 116-118).
OwnersKeepBuffers ==
    disciplined => /\ \A a \in owned : Tracked(a)
                   /\ \A t \in Thread : At(t, "npu_free") => Tracked(arg[t])

\* The shim implements the allocator it promises.  A buffer is gone for the
\* application when its memory is unmapped, before its entry is erased.
Allocator == INSTANCE NpuAllocator
    WITH live <- [a \in Addr |->
                    IF Tracked(a) /\ ~FreeAt(a, {"bo_free", "erase"})
                    THEN gBuffers[a].bo ELSE None]
AllocatorSpec == Allocator!Spec
=============================================================================
