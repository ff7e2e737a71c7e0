# Verification of npu-gpu-cpu

TLA+ models of the parts of this repository that keep state, the TLC runs that
check them on small instances, and TLAPS proofs for every instance.  Paths
below are relative to `src/`.

## 1. The system

The repository makes the NPU of an AMD Strix Halo usable next to its GPU.  It has
no single program; its parts live in the kernel, in applications (`LD_PRELOAD`)
and in user-space services, and meet at kernel objects, HTTP ports and files.

| Part | State | Operations | Talks to |
|---|---|---|---|
| HIP memory shim, `rocm-npu/hip_npu_memory.cpp` | `g_buffers` (address -> buffer), `g_buf_mutex`, `g_amdgpu_dev` | `hipMalloc`, `hipFree`, `hipMemcpy`, on any thread | libdrm/amdgpu (buffer objects, maps, dma-buf descriptors), the accel device, the real HIP |
| NPU command ring, `patches/amdgpu_npu_sched.c` | `nring->tail`, words in SRAM, doorbell | `emit_qword`, `submit_packet`, `ring_wait` | the NPU firmware, through SRAM |
| Control-plane daemon, `daemon/npu-gpu-cpud.py` | two child processes, signal handlers, the request in hand | start, GET/POST, signals, `shutdown` | `flm`, `lemond`, HTTP clients |
| Reddit feed, `tools/reddit_scraper.py` and `.github/workflows/reddit-check.yml` | the session file, the last commit | `fetch`, `recheck`, commit | Reddit, git |
| NPU IP block, `patches/amdgpu_npu.c`, `0002-*.patch` | `adev->npu`: status, firmware, PCI reference | `early_init` ... `sw_fini`, suspend/resume, two ioctls | amdgpu core, the ring |
| Driver start, `patches/0001-*.patch` | what of the NPU is acquired: device, channel, PSP, SMU, mailbox | `aie2_hw_start` and its unwinding | amdxdna; makes `/dev/accel/accel0` |
| HIP device shim, `rocm-npu/hip_npu.cpp` | `g_real_gpu_count` | `hipGetDeviceCount`, `hipGetDeviceProperties` | the real HIP, the accel device |
| GTT manager, `patches/amdgpu_npu_mgr.c` | references and pins of amdgpu's objects | alloc+pin, free, export | amdgpu buffer objects |
| INT8 engine, `npu-gpu-cpu/npu-infer/src/npu_engine_i8.cpp` | KV cache, position, residual; buffers shared with the NPU | prefill, generate; one context per kernel | XRT |
| AIE kernel generators, `npu-gpu-cpu/npu-infer/bf16_kernel_dev/*.py` | none at run time; they emit a dataflow design | DMA task groups, object FIFOs | mlir-aie |

What is hard in them:

* *memory shim*: threads interleave inside `hipMalloc` and `hipFree`; the kernel
  reuses an address the moment it is unmapped, before its entry is erased;
  `hipFree` looks a pointer up twice with the mutex let go in between; four
  error returns release different sets of resources; first calls that overlap hand
  one global to a function that clears it.
* *ring*: no lock, no flow control, packets of three words in 512, a completion
  test by equality of head and tail, waits that time out.
* *daemon*: Python signal handlers run inside whatever was going on, so an
  exception raised in `shutdown` travels through the HTTP handler; children that
  do not obey; a second signal inside the first's handler.
* *IP block*: the core may end a load anywhere, suspend the device and unbind the
  driver while ioctls run that take no lock; struct, firmware, PCI reference and
  ring are acquired in two callbacks and given back in a third.
* *generators*: the runtime sequence, the DMA channels and the cores never see one
  another's indices; each only counts, and they wait for one another through FIFOs
  of two objects.  Input tasks are freed without being awaited.
* *engine*: four kernels that take turns in buffers all layers share; a wait whose
  result is not looked at; a cache of rows written by layer and position, and read by
  an attention that is told only where to begin and how many.
* *driver start, device shim, GTT manager*: a start that may fail at any of its calls
  and must undo exactly those before it; a device list computed afresh by one call
  and from a cached count by the other, while the node comes and goes; buffers pinned
  for an owner and shared by exports that outlive it.
* *feed*: a recheck first overwrites the file it is about to merge into; writes
  are not atomic; a run may die anywhere; the job commits only on success.

`PROJECT.json` lists each hazard at its line with the properties that cover it.

## 2. The modules

| Module | Models | Notes |
|---|---|---|
| `HipNpuMemory` | the memory shim and the kernel objects it uses | one action per step of a thread that another can see |
| `NpuAllocator` | what the memory shim promises: an allocator with atomic calls | abstract; `HipNpuMemory` implements it (`AllocatorSpec`) |
| `HipNpuMemoryProofs` | TLAPS: invariant, typing, safety, leaks, refinement | section 5 |
| `NpuRing` | the command ring, with the firmware as an external reader | emit is three steps (write, load, store): nothing locks it |
| `NpuQueue` | what the ring promises: a FIFO that executes all it is sent | abstract; `NpuRing` implements it (`QueueSpec`) |
| `NpuRingProofs` | TLAPS: invariant, typing, safety, refinement | section 5 |
| `NpuIpBlock` | the IP block's callbacks and ioctls, under amdgpu's core | one action per callback and outcome |
| `NpuIpBlockProofs` | TLAPS: its properties | section 5 |
| `ModelPolicy` | `estimate_model_size`, `select_device` | names are sequences of characters, the match is by substring, in table order |
| `NpuGpuCpud` | the daemon: start, requests, signals, shutdown | uses `ModelPolicy` |
| `NpuGpuCpudProofs` | TLAPS: clean and prompt exit | section 5 |
| `RedditSession` | the feed: scraper, workflow, repository | |
| `RedditSessionProofs` | TLAPS: no commit loses a comment | section 5 |
| `AieGemm` | who waits for whom in the matrix product the AIE generators lay out | both designs, `v2` and `4row`; objects are counted |
| `AieGemmProofs` | TLAPS: tiles stay with their groups, tasks are freed in time | section 5 |
| `NpuEngine` | the INT8 engine: contexts, weights, commands, cache, the two loops | the NPU is an action of its own |
| `NpuEngineProofs` | TLAPS: invariant, typing, cache, bounds, nothing stale | section 5 |
| `AieHwStart` | the driver's start as the patch leaves it | |
| `HipDevices` | the device shim, called by any number of threads | |
| `NpuGtt` | the GTT manager and the shares of its buffers | |
| `NpuStack` | these three together | the start makes the node (`Accel`) which the listing and the import open |
| `NpuStackProofs` | TLAPS: the safety of all three | section 5 |
| `MC*` | the sets TLC uses | with their `.cfg` files |

### HipNpuMemory

`pc[t]` is where thread `t` is: `dev_open`, `dev_init`, `dev_set` (`ensure_amdgpu`),
`bo_alloc`, `cpu_map`, `export`, `import`, `close_npu`, `track` (`npu_malloc`),
`npu_free` (between the two look-ups), `close`, `unmap`, `bo_free`, `erase` (`npu_free`
with the mutex), `real_free`, `memcpy`, `real_memcpy`. `loc` holds the locals of
`npu_malloc`, `arg` the pointer being freed. `boLive`, `cpuMap`, `dmaBuf`, `npuImport`,
`renderFds` are the kernel's side, external to the repository and modelled from the
calls made. `owned` and `disciplined` are history variables: what the application may
still free, and whether it has ever freed anything else. The size of a buffer and the
bytes copied are left out.

Line 55 passes `&g_amdgpu_dev` itself to `amdgpu_device_initialize`, which clears the
pointer's target and sets it only on success, so the call is two steps: `DevInitBegins`,
which clears whatever another thread had set, and `DevInit` or `DevInitFails`. A thread
that is past `ensure_amdgpu` when that happens takes a null handle to `amdgpu_bo_alloc`
(`NullDevice`): the process is gone and the run ends there. `raced` is a history
variable: two threads have been inside `ensure_amdgpu` at once. `MaxRenderFds` is what
the kernel lets the process have open.

The file is not part of `rocm-npu/CMakeLists.txt` and does not compile as it is:
`LOAD_REAL` is not defined in it, `g_npu_available` is used before its declaration and
`std::lock_guard` has no `unlock`.  The model is of what the text says it does, with
line 178 letting the mutex go.

### NpuRing

Offsets count words where the code counts bytes. `Submit` begins a call of
`amdgpu_npu_submit_packet`; `WriteWord`, `LoadTail`, `StoreTail` are one `emit_qword`;
`RingDoorbell` ends it. `Wait`, `WaitDone`, `WaitTimeout` are `amdgpu_npu_ring_wait`.
The code has no limit on unfinished commands, so the limit is the caller's: `Window`.
The firmware (`Fetch`, `Complete`) takes whole packets up to the doorbell and moves the
head past each. `Skip` is `& 0xFFF`. The transient value 0x1000 of `tail` between its
two stores is not visible in the model: a load sees the tail before or after both.
`amdgpu_npu_ring_fini` only calls amdgpu; what it releases is `rings` in `NpuIpBlock`.

### NpuIpBlock

`stage` is how far amdgpu's core has got with the block; the callbacks move it on.
Each load has a `struct amdgpu_npu` of its own: `npu` is its fields, `heap` whether it
is allocated, and `pciRefs`, `fwRefs`, `rings` what the kernel counts for it, so that
the fields and what they stand for can differ.  `Present` is the test of lines 119,
157 and 309.  `Starting` and `Stopping` are `hw_init` and `hw_fini`, which `resume` and
`suspend` call as well.  An ioctl is two steps, the read of `adev->npu` and the look
into the struct.

The core is external. What is taken from it: it calls the callbacks in the order of line
8; it calls `hw_fini` and `sw_fini` for a block only if `hw_init` and `sw_init` returned
0; it runs `sw_fini` when the last file is closed; a load can end because of another
block at any point (`OtherBlockFails`, `HwFini`). It is not assumed to hold ioctls off
during suspend, resume or `hw_fini`. `firmware_request_nowarn` finds nothing for a
function that is not an NPU; `amdgpu_ring_fini` does nothing to a ring that was never
initialised.

### NpuGpuCpud

`pc` is what the main thread does; a signal moves it to `stop` and keeps where it
was in `caller`.  `WaitExpires` is `TimeoutExpired`: the exception ends in the
handler's `except Exception` (502 or 503), in `socketserver` (the request is
dropped), or nowhere (the daemon dies).  `prompt`, chosen at the start, says
whether this run's children exit within five seconds of `terminate()`.  A request
has a kind, and for a chat the keys it carries and its model; messages and
answers are left out.  What answers on a backend's port need not be the child.  A request
is routed as the code does it, by the first row of the table that occurs in the name
(`ModelPolicy`); no property says that this is the policy of lines 11-14, because for many
names it is not (section 4).

### RedditSession

`page` is what is on Reddit, `file` the session file (whole, or torn by a write cut
short), `head` the file in the last commit, `old` and `fresh` the two id sets of
`do_recheck`. An id is a pair of how it was fetched and the comment, because the two
ways spell it differently. `ci`, chosen at the start, says whether the workflow runs the
tool. `Skipped` is what the HTML parser never takes: a comment with one of the phrases
of `skip_patterns` (lines 185-192), one under ten characters, one behind a link that it
does not follow. PRAW takes all. `Fail` is any death of a run. The `summary` command
reads only; the workflow does not use `--output`.

### AieGemm

`n1_core_i8_v2.py` (one row of cores) and `n1_core_i8_4row.py` (`AieRows` rows), chosen
in `design`.  The runtime sequence is `host`: `StartGroup` starts the tasks of one group
and, when `Drains` says so, goes on to `await`; `AwaitGroups` and `AwaitRest` await output
tasks and free the input tasks beside them.  Starting a group's tasks is one step: nothing
of the sequence depends on how far each has got.  `SendA` and `SendB` are the shim's
channels and the linked FIFOs behind them, taken as one FIFO of `Depth` L1 objects per
consumer; an object of A goes to every core of its row, one of B to every core of its
column, since an `object_fifo` with several consumers is a broadcast.  `Zero`, `Matmul`,
`ReleaseC` are the core's endless loop.  `Matmul` is the acquire of one object of A, its
multiplication by the object of B that the core holds, and its release: `v2` does this
once for an object of B (lines 97-102), `4row` four times, with the quarters of the tile
(`APerB`; lines 108-114), into the same C.  `WriteC` is the C channel, its L2 FIFO included.

Objects are only counted. Which rows and which part of K an object of A holds is decided
by the dimensions of `A_l2l1` (73-74 in both) and by what mlir-aie makes of them, which
is not in the repository; `v2`'s walk only m x k of an L2 tile of m x mtk, and it is an
assumption of the model (`APerGroup`) that the L2 tile still yields mtk / k objects. So
the model shows who waits for whom and which group an object was sent for, and says
nothing of the product. It could not: `docs/HANDOFF-NPU-OPTIMIZATION.md` reports that
the designs with a shared A FIFO compute wrong products (section 4), and its
explanation, a round-robin distribution of A over the cores (983-1063), is not what the
model takes a broadcast to be.

### NpuEngine

`pc` is where `main` is: `open` (the four `I8Ctx::init`), `attention` (the four
`AttnK::init`, whose kernels nothing calls), `pack`, `embed` (the head of the prefill
loop), `go` and `wait` (the two halves of `I8Ctx::go`), `sample`. `l` and `k` are the
layer and its kernel. A vector is the pass it is of, counted by `main`'s loop variables
`pi` and `st` (`Pass`), and the number of kernels it has been through in that pass, `4 *
NC` at its end; `Product` takes it one further if it meets the right kernel with the
right layer's weights, `Residual` checks that what is added to `sb` was made from it,
and anything else is `Noise`. So a layer out of turn, a buffer of an earlier pass or the
wrong residual shows. What does not show is the arithmetic, what a pass began with
(generate's first begins with no embedding but with the vector prefill ended in:
`StartGenerate`, section 4), and which rows an attention put into its result: those are
in `window`, which `AttendsToAll` is about, while the vector stays one of its pass
whatever the rows hold. `kv` has the rows written and `n` is `kv[l].n`; `window` is what
the last `cpu_attn` was told to read. `Execute` and `GiveUp` are the NPU and its driver:
a started command is read from `bA` and written to `bC` at any time before `wait()`
returns, or ended without. `GoThrows` is the exception of a run that XRT cannot start or
wait for: nothing catches it. `OpenReturnsFalse` is a missing file of instructions,
which `main` does not look at and `packB` dies of; `OpenThrows` is XRT's exception
there. Reading the model file and `AttnK::run` (never called) are left out.

### AieHwStart, HipDevices, NpuGtt, NpuStack

`AieHwStart`: `at` is the call or the label that is next, `held` what is acquired, `fault`
the one call that fails in this attempt, if any.  The patch has the middle of
`aie2_hw_start` and its labels; the calls outside its hunks are those the labels undo
(`enable`, `channel`, `mailbox`) and one after them (`query`).  The SMU works when the PSP
has started, which is what the patch is about.

`HipDevices`: each thread is in one of the two calls; ids come from the last count it
was given, as in `tests/hip_list_devices.cpp`.  The test of `g_real_gpu_count` and its
filling are two steps, for nothing locks it.

`NpuGtt`: `refs` and `pins` are amdgpu's counts for the object, `shares` who else holds it:
a descriptor, an import.  Nothing in the repository calls the manager, so the caller
is one that keeps its rules: it frees what it got, once.

`NpuStack` instantiates the three.  A thread counts the NPU, and an import succeeds,
only while the start has succeeded; the driver may be unbound at any time.

## 3. The runs

| Run | Shows | Bounds, and why they are enough |
|---|---|---|
| `memory` | typing, `MapNamesLiveBuffer`, `NoLeak`, `DeviceOpenedOnce`, `HandleIsBacked`, `OwnersKeepBuffers`, and that the shim implements `NpuAllocator` | 3 threads (one frees, one has just looked the pointer up, one is given the address), 2 addresses, 3 objects and descriptors, 3 openings of the render node (one per thread at once); symmetric |
| `ring` | typing, `PacketsInOrder`, `WaitMeansDone`, and that the ring implements `NpuQueue`, liveness included | 8 words, packets of 3, so that they straddle the end; 9 commands are more than three laps; 2 unfinished, 6 of 8 words |
| `ring_overrun` | violation of `WaitMeansDone` without a limit on unfinished commands | 4 words: four packets are twelve words, three whole laps, and head and tail meet (in the 512 words of the code 512 packets do, in three laps as well) |
| `npu_block` | typing, `NoUseAfterFree`, `UpMeansStarted`, `UnboundHoldsNothing`, `AcceptedFindsNpu` | 2 tasks (one keeps the device open while the other calls), 3 loads, function 1 empty, an NPU or something else |
| `daemon` | typing, `CleanExitMeansStopped`, `CallsReturn`, `PromptChildrenAreStopped`, `PromptSignalEnds` | 2 signals (one inside the other's handler), 2 polls for 30, a model for each device and one that is misread (`13b`), every kind of request |
| `daemon_orphan` | violation of `NoOrphanAfterServing` | one signal |
| `daemon_refuse` | violation of `ChatReachesBackend` | no signal |
| `feed` | typing, `CommittedKeepsAll`, `CommentsArrive` | 3 comments (one plain, one too short, one with a sidebar phrase and behind a link), both ways of fetching, 2 failures in a row |
| `gemm` | typing, `TileIsOfItsGroup`, `FreedTasksAreRead`, `GroupsInFlight`, `SequenceEnds` | both designs; 2 rows of cores where the code has 4, 2 columns for its 8, 4 x 6 tiles of C, two objects of B each, FIFOs of 2: twelve groups (`v2`) and six (`4row`), more than the four a list of tasks holds, and more than one column of groups, so that A and B advance at different rates |
| `engine` | typing, `CacheIsComplete`, `ReadsInBounds`, `ResultsAreFresh`, `Finishes` | `npt`, `ng` and the arrays as in the code; 2 layers for 28 (a first and a last; all between are alike); failed commands in any one pass, an exception anywhere |
| `engine_attention` | violation of `AttendsToAll` | one layer, no failure |
| `stack` | typing, `UnwindsExactly`, `DevicesAreNamed`, `BuffersBalance`, `StartSucceeds` | 2 threads (one tests the count while the other fills it), 0 or 1 GPU, 1 buffer (buffers share nothing), any call of the start failing, any number of times |

Deadlock is checked in every run but `memory`, whose process may crash, the daemon's,
which exits, `npu_block`, whose loads are counted, `gemm`, whose sequence ends, and
`engine`, whose program does; there `SequenceEnds` and `Finishes` would show a system
that stops too early.

Fairness. `NpuRing`: the firmware goes on serving (`Fetch`, `Complete`); callers may
stop. `NpuGpuCpud`: the main thread runs (`Main`). Its waits for children and backends
have timeouts, the latter per receive, so it is assumed that a backend does not go on
for ever sending a little at a time; and that a client takes what it is sent, since a
write to one that does not read has no timeout. A client may stop sending in the middle
of a request, and for that nothing is assumed. Prompt children exit. `AieGemm`:
channels, cores and the sequence go on while they can; none of them has a timeout.
`RedditSession`: the cron schedule starts rechecks for ever and a run goes on unless it
fails; by hand nothing is scheduled. `NpuEngine`: the thread runs, and the driver ends
every command, done or given up (`wait()` has no timeout of its own). `NpuStack`: a
start that has begun goes on; nothing else has to.

## 4. What the code does not do

The violation runs show where the code and what it says of itself part; each is
a finding in `PROJECT.json`, with the line.  Found on the way, without a run:

* First calls of `hipMalloc` that overlap in `ensure_amdgpu` each open the render node, and
  one's `amdgpu_device_initialize` clears the handle another has set (`hip_npu_memory.cpp:55`):
  a third call opens the node yet again, and a call that is between lines 67 and 74
  hands a null handle to `amdgpu_bo_alloc`.  `DeviceOpenedOnce` says what holds when they
  do not overlap, `HandleIsBacked` what holds all the same.
* `npu_malloc` closes the accel device right after the import (`hip_npu_memory.cpp:96`),
  and with it the import: no buffer `hipMalloc` returns is imported any more, against
  line 5, "imports into NPU".
* When the exception `shutdown` raises comes while a backend is being asked, `except
  Exception` catches it (`npu-gpu-cpud.py:212`), and the daemon goes on serving.
* `do_recheck` overwrites the session with the fresh snapshot before it merges
  (`reddit_scraper.py:243`): a run killed in between has lost the removed comments in its
  working copy.  `CommittedKeepsAll` shows that the workflow does not commit that.
* `generate`'s first pass (`npu_engine_i8.cpp:134`) feeds the hidden state that prefill
  ended in through all layers once more, at the position after the prompt: every
  generated token sits one position late, and the first is drawn from what has been
  through the layers twice, against "embed lookup" and "correct per position"
  (`docs/HANDOFF-NPU-OPTIMIZATION.md:1089` and 45).
* `I8Ctx::go` does not look at the state `wait()` returns (30), nor `main` at what `init`
  returns (89-93): after a failed command the engine goes on with the buffer's old
  contents, after a missing file it dies on a null pointer in `packB`.
* The unwinding stops the PSP before it finalises the SMU (`0001-*.patch` lines 30-37,
  and so before the patch too): the SMU is asked when its firmware has been stopped.
* `hipGetDeviceProperties` says NPU for any id past the GPUs, with or without an NPU;
  on a machine without a GPU `hipGetDeviceCount` returns the real error and lists none
  (`hip_npu.cpp:28` and 52).
* A buffer freed by its owner is unpinned while the NPU may still have its import
  (`amdgpu_npu_mgr.c:59`), against "cannot be evicted while NPU accesses it" (line 16); a
  failed pin leaves `*bo` pointing at what was freed (48).

* `hipMemcpy` recognises a buffer only by its first byte (`hip_npu_memory.cpp:190`),
  `hipMemcpyDtoD` not at all (202); the comment at 187 promises more.
* The size table is searched by substring and in its order: 13B is 3B, 14B and 34B are
  4B, 32B and 72B are 2B, 1.8B is 8B (`npu-gpu-cpud.py:113-122`), so that the large ones
  go to the GPU, and 1.8B too, against the policy of lines 11-14, "> 8B params  → CPU"
  and "< 2B params  → NPU".  `ModelPolicy` computes the same; no property claims the policy.
* `available` in `/v1/health` means "was started" (149-151).
* A signal, or a failure to bind, before line 269 leaves the backends running.
* A session fetched from the HTML and rechecked through PRAW holds its comments
  twice (`reddit_scraper.py:122` and 202).
* A comment that contains "Community settings" or another phrase of the sidebar is
  skipped whenever it is fetched from the HTML (`reddit_scraper.py:185-192`), as are
  short ones and those behind a link: without credentials they never arrive, however
  often the post is checked.  `CommentsArrive` is about the others.
* Two threads in `submit_packet` at once mix their words, since nothing locks
  `nring->tail` (`amdgpu_npu_sched.c:83`): with two submitters `NpuRing` violates
  `PacketsInOrder`.  The run has one, as amdgpu's scheduler would.
* The block takes whatever sits at function 1 for the NPU (`amdgpu_npu.c:77`).  Where
  that is something else there is no firmware for it, and `sw_init` fails the whole
  device, against "Non-fatal — system may not have NPU" (line 101).
* If `sw_init` fails, the struct and the PCI reference are lost; if the core did call
  `sw_fini` then, the firmware released at line 140 would be released twice.
* `0002-add-npu-ip-block.patch` has amdgpu bind to the NPU's own PCI ids too (94-96): a
  second device, whose block would find itself at function 1.  One device is modelled.
* `n1_core_i8_4row.py` with its default `M` and `m` has one row tile for four rows of
  cores: `num_groups` (127) is 0 and the sequence starts nothing, against "all 32
  cores used" (line 9).  `ShapesDivide` leaves such shapes out.
* The product itself: a `4row` core multiplies four quarters of A by the same B into the
  same C (110-113), and `docs/HANDOFF-NPU-OPTIMIZATION.md` reports fourfold results for that
  form (1020) and K-interleaved ones, "394% mean relative error", for the shared A FIFO
  (985-1000, 1036-1063).  `AieGemm` does not model what an object holds and neither shows
  nor refutes this.

## 5. The proofs

`HipNpuMemoryProofs`, for any sets `Thread`, `Addr`, `Bo`, `Fd` and any `Offset`,
assuming only that `None` is none of them (`NoneIsFresh`), that `NpuAvailable` is a
boolean (`FlagIsBoolean`) and `MaxRenderFds` a number (`LimitIsNatural`):

* `TypeCorrect`: `Spec => []TypeOK`
* `EntriesAreLive`: `Spec => []MapNamesLiveBuffer`
* `DisciplinedFree`: `Spec => []OwnersKeepBuffers`
* `ImplementsAllocator`: `Spec => AllocatorSpec`
* `NothingLeaks`: `Spec => []NoLeak`
* `OpenedOnce`: `Spec => []DeviceOpenedOnce`
* `HandleStaysBacked`: `Spec => []HandleIsBacked`, if `Thread` is finite

None but the first is inductive alone.  `IInv` adds: the mutex is held exactly
by the thread in a critical section (`MutexInv`); an address names one mapping and
what is mapped is live (`KernelInv`); what the locals of `npu_malloc` stand for at
each step (`HandInv`); a buffer object belongs to one call or one entry (`OwnerInv`);
a thread past its second look-up has its entry, and nothing else changes it
(`FreeInv`); a pointer that is owned or being freed by a disciplined application is
nobody else's (`OwnedInv`); copies run with the mutex (`BusyInv`).  There is one lemma
per action, with one step per conjunct.  The refinement follows from `IInv`: `Track`
is `Alloc`, `Unmap` is `Free`, the copy's two ends are themselves, every other step
stutters (`OthersStutter`).

`NoLeak` is inductive relative to `IInv`.  Most steps leave the holder of every object
and descriptor in place, which is what `Frame` says and `FrameKeeps` uses; the six
that hand one over or give one back (`BoAlloc`, `Export`, `Track`, `CloseFd`, ...) have
a lemma each.  `Track` needs `TrackIsNew`: the address just mapped has no entry left,
or the entry's object would be lost with it.

`DeviceOpenedOnce` and `HandleIsBacked` count descriptors without naming them. For the
first `AloneInv` adds, as long as nobody has raced, who is inside `ensure_amdgpu` (at
most one thread), that the handle is cleared while it is, and how many descriptors that
makes. For the second `BackedInv` counts the threads that may still close what they
opened (`Undecided`): never more than are open, and fewer if the handle is set; it needs
neither `IInv` nor the absence of races.

`NpuIpBlockProofs`, for any `Task` and any `MaxLoads \in Nat` (`MaxLoadsIsNat`):
`TypeCorrect`, `IoctlsAreSafe` (`NoUseAfterFree`), `UpServes` (`UpMeansStarted`),
`NothingHeld` (`UnboundHoldsNothing`) and `AcceptedIsServed` (`Spec =>
AcceptedFindsNpu`). The invariant adds: which load is in hand (`LoadInv`); that its
fields say what it holds and the stage says what its fields are (`FieldInv`); and that
files are open only from the first time the device is up until `sw_fini`, so that an
ioctl's pointer is still `adev->npu` (`UserInv`).

`NpuRingProofs`, for any `RingWords` above 0 (`RingWordsIsPositive`), any `Submitter`,
`Window` and `MaxCommands` (`WindowIsNat`).  What the code leaves to its callers is
the premise of each theorem, `SafeUse`: there is at most one submitter, and the
packets it allows to be unfinished are fewer words than the ring has.  Both are
needed: section 4 and `ring_overrun` show what happens without them.

* `TypeCorrect`: `SafeUse /\ Spec => []TypeOK`
* `RingInOrder`: `SafeUse /\ Spec => []PacketsInOrder`
* `WaitIsCompletion`: `SafeUse /\ Spec => WaitMeansDone`
* `ImplementsQueue`: `SafeUse /\ Spec` implies `NpuQueue`'s initial state and steps,
  the part of `QueueSpec` without fairness

The head, tail and doorbell are offsets, which repeat, while commands are counted. The
invariant ties the two together by the number of commands handed over and not executed
(`Pending`): the doorbell is three times that many words past the head, the tail as many
and the words written of the next packet (`OffsetInv`), and each of the words between is
the right word of the right command (`WordInv`). `SafeUse` makes the distance less than
a lap (`Room`), so that different distances are different words (`SkipInjective`): a
write hits none of the words still to be read, and head and tail are equal only when
nothing is pending. Whether the packet divides the ring does not matter.

`NpuEngineProofs`, for any number of layers `NC`, any prompt and any number of tokens
(`SizesArePositive`) and of failed commands (`MaxFailuresIsNat`): `TypeCorrect`,
`CacheIsOneSequence` (`CacheIsComplete`), `NothingStaleIsRead` (`ResultsAreFresh`), and
`ReadsFit` (`ReadsInBounds`), whose premise is that prompt and generated tokens are at
most the 32 of `cpu_attn`'s array: 9 and 8 in the code, and nothing there ties the three
numbers together. The invariant says where the loops are (`LoopInv`: in prefill the
position is the number of tokens fed, in generate `npt` and the tokens sampled; so it is
the number of the pass, `PassIsPosition`, although the two are counted apart), how long
each layer's cache is and of which pass its rows are (`CacheInv`; `DeadRows` for a
program that an exception ended in the middle of a pass), which weights and command are
in the device (`DeviceInv`), and, as long as no command of the pass in hand has failed,
which vector is in every buffer that is still to be read (`FreshInv`), by the closed
form `Val` of what a pass has made after `s` kernels. What earlier passes left is never
assumed to be good. `ProductVal` carries `Val` over a kernel, `ResidualVal` over an
addition.

`NpuStackProofs`, for any `Thread`, `Buf` and `MaxGpus` (`MaxGpusIsNat`): `TypeCorrect`,
`StartUnwinds` (`UnwindsExactly`), `ListIsRight` (`DevicesAreNamed`), `NoBufferLost`
(`BuffersBalance`).  The three parts do not write one another's variables, so each has its
own invariant: what is held is a function of where control is (`HeldAt`); an id is never
compared with the count before it is there (`DevInv`); references and pins follow from
stage and shares (`GttInv`, of which `CountsInv` are the counts), with `SharesCount` for the
cardinalities.

`AieGemmProofs`, for both designs, any grid of cores, any shapes the grid divides
(`ShapesDivide`) and any depth of the FIFOs: `TypeCorrect`, `TilesAreOfTheirGroups`
(`TileIsOfItsGroup`), `FreedIsRead` (`FreedTasksAreRead`), `FewGroupsInFlight`
(`GroupsInFlight`), and `TapsAgree`, about the constants alone: the tap of C that a
group gives a core is in the row of its tap of A and in the column of its tap of B, and
within C. The properties speak of groups, the channels and cores only count, so the
invariant gives every count its place in a stream. `HostInv` says which groups are in
flight as a function of `group_idx` and of what is being awaited. `FlowInv` balances
each core's account: what a channel has sent is what the core has used (by the groups
its column has written, the tile waiting to be written and the objects multiplied for
the next) and what is still in its FIFO; for B through the quotient of the products by
`APerB`, since its object stays in the FIFO while its quarters of A come and go.
`PaceInv` keeps channels behind the sequence and the sequence's awaits behind the C
channels. `FreedTasksAreRead` follows because a tile of C that is written took all of
its group's input, which only a channel that has sent it can have supplied.

`RedditSessionProofs`, for any comments, any ways of fetching and any number of failed
runs (`ConstantsOK`): `TypeCorrect` and `CommitsKeepAll` (`Spec => CommittedKeepsAll`, about
every step).  The latter is not inductive, since a recheck
overwrites the file with what may be less.  The invariant adds that only a recheck
loads and merges (`CommandInv`), that a run which ends well has put the old session
back into the file (`FileInv`), and that in the workflow the session loaded is the one
last committed, so that a run's `old` has all of the repository's comments (`HeadInv`); that
fails for runs by hand, whose file need not be the repository's, and they do not commit.

`NpuGpuCpudProofs`, for any models and any bounds on polls and signals (`BoundsAreNat`):

* `TypeCorrect`: `Spec => []TypeOK`
* `CleanExit`: `Spec => []CleanExitMeansStopped`
* `PromptExit`: `Spec => PromptChildrenAreStopped`

`StopInv` carries the first two: `shutdown` comes to the GPU backend only when the NPU's is
gone, which a second signal, starting again at the NPU, does not undo.  `MainInv` says
what is being polled and that a thread in a handler, or in a `shutdown` that interrupted
one, has the request in hand.

Every safety invariant and action property of the passing runs is stated by one of these
theorems. Only model-checked is what has to happen (`CallsReturn`, `PromptSignalEnds`,
`SequenceEnds`, `CommentsArrive`, `Finishes`, `StartSucceeds`, and the fairness of
`QueueSpec`): liveness is out of the prover's reach, as is ENABLED. The violation runs
are counterexamples, with nothing to prove.

## 6. The plan

1. `NpuStack`: that `HipDevices` and `NpuGtt`, each alone under its own invariant, are
what the composition shows of them, so that a part can be exchanged without the others'
proofs. 2. `NpuEngine`: what each pass began with and which rows an attention used, kept
with the vectors, so that what generate's first pass and the attention's window do to
every later token can be said exactly. 3. `NpuIpBlock`: an abstract specification of
what an ioctl's caller sees (accepted or refused), and the block shown to implement it.

### Not modelled

`npu_aql.h` (layouts nothing fills in), build files, tests and benchmarks, the
floating-point arithmetic of the engine and the file its weights come from, and
`AttnK::run`, which nothing calls.
