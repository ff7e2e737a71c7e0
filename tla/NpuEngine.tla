------------------------------ MODULE NpuEngine ------------------------------
(***************************************************************************)
(* The INT8 engine, npu_engine_i8.cpp: one thread that feeds a prompt and  *)
(* then samples tokens.  A token runs through NC layers; each layer is     *)
(* four kernels on the NPU (QKV, O, GU, D), every one with a context, an   *)
(* input and an output buffer of its own that all layers share, and one    *)
(* buffer of weights per layer.  The attention between QKV and O is the    *)
(* host's, over the K and V it keeps per layer and position.               *)
(*                                                                         *)
(* A vector is abstracted to where it comes from: the pass it is of, as    *)
(* main's loops count them, and the kernels it has been through in it.     *)
(* Nothing more is said of it: not which rows an attention put into it,    *)
(* which is in window, nor what a pass began with.  Noise is a vector that *)
(* is not of one pass, or not of the kernels in their order.               *)
(***************************************************************************)
EXTENDS Integers, FiniteSets

CONSTANTS NC,          \* layers
          NPT,         \* tokens of the prompt (npt)
          NG,          \* tokens to generate (ng)
          MaxFailures  \* bound: in how many passes the NPU gives up a command

ASSUME SizesArePositive == NC \in Nat \ {0} /\ NPT \in Nat \ {0} /\ NG \in Nat \ {0}
ASSUME MaxFailuresIsNat == MaxFailures \in Nat

VARIABLES
    pc,        \* where main is
    phase,     \* "prefill" or "generate"
    l, k,      \* the layer, and the kernel of it
    sp,        \* the position
    fed,       \* tokens embedded for a pass so far
    st,        \* tokens sampled
    x,         \* the vector the next kernel is given
    sb,        \* the residual
    kv,        \* kv[l]: rows of K and V written, by position
    n,         \* kv[l].n
    window,    \* the rows the last attention read: from base, n of them
    ctx,       \* each context: "closed", "ready" or "broken"
    layerB,    \* the weights in each context's buffers, by layer
    bA, bC,    \* each context's input and output
    cmds,      \* commands started and not ended
    failed     \* passes in which a command was given up

loop == <<phase, l, sp, fed, st>>
cache == <<kv, n, window>>
device == <<bA, bC, cmds, failed>>
vars == <<pc, k, loop, x, sb, cache, ctx, layerB, device>>

Layer == 0..NC - 1
QKV == 0
O == 1
GU == 2
D == 3
Kernel == QKV..D
NoLayer == -1   \* the weights of a buffer nothing was packed into

Noise == [pass |-> -1, step |-> 0]

\* The pass through the layers, counted by pi and st, and what it begins with.
Pass == IF phase = "prefill" THEN fed - 1 ELSE NPT + st
Begin(p) == [pass |-> p, step |-> 0]

\* What kernel i with the weights of layer w makes of v.
Product(v, i, w) ==
    IF v # Noise /\ v.step = 4 * w + i
    THEN [pass |-> v.pass, step |-> v.step + 1] ELSE Noise

\* The sum of a residual and what two kernels made of it.
Residual(s, y) == IF y = [pass |-> s.pass, step |-> s.step + 2] THEN y ELSE Noise

Init ==
    /\ pc = "open" /\ phase = "prefill"
    /\ l = 0 /\ k = QKV
    /\ sp = 0 /\ fed = 0 /\ st = 0
    /\ x = Noise /\ sb = Noise
    /\ kv = [j \in Layer |-> [p \in {} |-> Noise]]
    /\ n = [j \in Layer |-> 0]
    /\ window = [base |-> 0, n |-> 0]
    /\ ctx = [i \in Kernel |-> "closed"]
    /\ layerB = [i \in Kernel |-> [j \in Layer |-> NoLayer]]
    /\ bA = [i \in Kernel |-> Noise]
    /\ bC = [i \in Kernel |-> Noise]
    /\ cmds = {}
    /\ failed = {}

-----------------------------------------------------------------------------
(* Start: the contexts in their order, then the weights layer by layer.     *)

OpenNext(result) ==
    /\ pc = "open"
    /\ ctx' = [ctx EXCEPT ![k] = result]
    /\ k' = (k + 1) % 4
    /\ pc' = IF k = D THEN "attention" ELSE "open"
    /\ UNCHANGED <<loop, x, sb, cache, layerB, device>>

Open == OpenNext("ready")

\* init returns false where there is no file of instructions; main goes on.
OpenReturnsFalse == OpenNext("broken")

\* The contexts of the attention kernels: whether they are ready is never asked.
OpenAttention ==
    /\ pc = "attention"
    /\ pc' = "pack"
    /\ UNCHANGED <<k, loop, x, sb, cache, ctx, layerB, device>>

\* XRT has no such xclbin, or no context left: the exception ends the program.
OpenThrows ==
    /\ pc \in {"open", "attention"}
    /\ pc' = "dead"
    /\ UNCHANGED <<k, loop, x, sb, cache, ctx, layerB, device>>

Pack ==
    /\ pc = "pack"
    /\ ctx[k] = "ready"
    /\ layerB' = [layerB EXCEPT ![k][l] = l]
    /\ k' = (k + 1) % 4
    /\ l' = IF k = D THEN (l + 1) % NC ELSE l
    /\ pc' = IF k = D /\ l = NC - 1 THEN "embed" ELSE "pack"
    /\ UNCHANGED <<phase, sp, fed, st, x, sb, cache, ctx, device>>

\* A context whose init returned false has no buffers to pack into.
PackCrashes ==
    /\ pc = "pack"
    /\ ctx[k] = "broken"
    /\ pc' = "dead"
    /\ UNCHANGED <<k, loop, x, sb, cache, ctx, layerB, device>>

-----------------------------------------------------------------------------
(* I8Ctx::go, and the NPU.                                                  *)

\* The exception of a run that XRT cannot start, or cannot wait for, ends the
\* program, and with it what the NPU was to do.
GoThrows ==
    /\ pc \in {"go", "wait"}
    /\ pc' = "dead"
    /\ cmds' = {}
    /\ UNCHANGED <<k, loop, x, sb, cache, ctx, layerB, bA, bC, failed>>

\* The layer keeps its input, and that of its second half, as the residual.
Go ==
    /\ pc = "go"
    /\ bA' = [bA EXCEPT ![k] = x]
    /\ cmds' = cmds \cup {[kernel |-> k, layer |-> l]}
    /\ sb' = IF k \in {QKV, GU} THEN x ELSE sb
    /\ pc' = "wait"
    /\ UNCHANGED <<k, loop, x, cache, ctx, layerB, bC, failed>>

Execute ==
    \E c \in cmds :
        /\ bC' = [bC EXCEPT ![c.kernel] =
                    Product(bA[c.kernel], c.kernel, layerB[c.kernel][c.layer])]
        /\ cmds' = cmds \ {c}
        /\ UNCHANGED <<pc, k, loop, x, sb, cache, ctx, layerB, bA, failed>>

\* The driver ends a command that failed or hung; its output is as it was.
GiveUp ==
    /\ Cardinality(failed \cup {Pass}) <= MaxFailures
    /\ \E c \in cmds : cmds' = cmds \ {c}
    /\ failed' = failed \cup {Pass}
    /\ UNCHANGED <<pc, k, loop, x, sb, cache, ctx, layerB, bA, bC>>

\* BUG: the output is read while the NPU may be at work on it.
WaitForgotten == TRUE

\* BUG: only a command that succeeded ends the wait.
WaitForSuccess == cmds = {} /\ Pass \notin failed

\* wait() returns when the command has ended, in whatever state: go does not
\* look at the state it returns, and goes on with what is in bC.
WaitReturns == cmds = {}

Result(kernel) == pc = "wait" /\ k = kernel /\ WaitReturns

-----------------------------------------------------------------------------
(* The layer, after each of its kernels.                                    *)

\* Where cpu_attn is told to begin, and how many rows.
Window == [base |-> sp, n |-> sp + 1]

\* K and V go to row sp.  What cpu_attn makes, with the query of this pass, of the
\* rows of the window is of this pass, whatever is or is not in those rows.
StoreAndAttend ==
    /\ Result(QKV)
    /\ kv' = [kv EXCEPT ![l] = [p \in DOMAIN @ \cup {sp} |->
                                   IF p = sp THEN bC[QKV] ELSE @[p]]]
    /\ n' = [n EXCEPT ![l] = sp + 1]
    /\ window' = Window
    /\ x' = bC[QKV]
    /\ k' = O
    /\ pc' = "go"
    /\ UNCHANGED <<loop, sb, ctx, layerB, device>>

FirstResidual ==
    /\ Result(O)
    /\ x' = Residual(sb, bC[O])
    /\ k' = GU
    /\ pc' = "go"
    /\ UNCHANGED <<loop, sb, cache, ctx, layerB, device>>

Silu ==
    /\ Result(GU)
    /\ x' = bC[GU]
    /\ k' = D
    /\ pc' = "go"
    /\ UNCHANGED <<loop, sb, cache, ctx, layerB, device>>

\* BUG: every layer advances the position.
SecondResidualAdvances ==
    /\ Result(D)
    /\ x' = Residual(sb, bC[D])
    /\ k' = QKV
    /\ l' = (l + 1) % NC
    /\ sp' = sp + 1
    /\ pc' = IF l < NC - 1 THEN "go"
             ELSE IF phase = "prefill" THEN "embed" ELSE "sample"
    /\ UNCHANGED <<phase, fed, st, sb, cache, ctx, layerB, device>>

\* The end of a layer, and after the last of a pass of prefill sp++.
SecondResidual ==
    /\ Result(D)
    /\ x' = Residual(sb, bC[D])
    /\ k' = QKV
    /\ l' = (l + 1) % NC
    /\ IF l < NC - 1 THEN pc' = "go" /\ UNCHANGED sp
       ELSE IF phase = "prefill" THEN pc' = "embed" /\ sp' = sp + 1
       ELSE pc' = "sample" /\ UNCHANGED sp
    /\ UNCHANGED <<phase, fed, st, sb, cache, ctx, layerB, device>>

-----------------------------------------------------------------------------
(* main's two loops.                                                        *)

Embed ==
    /\ pc = "embed"
    /\ fed < NPT
    /\ x' = Begin(fed)
    /\ fed' = fed + 1
    /\ pc' = "go"
    /\ UNCHANGED <<phase, k, l, sp, st, sb, cache, ctx, layerB, device>>

\* The first pass of generate embeds no token: it begins with the very vector that
\* the last pass of prefill ended in.
StartGenerate ==
    /\ pc = "embed"
    /\ fed = NPT
    /\ phase' = "generate"
    /\ x' = Begin(NPT)
    /\ pc' = "go"
    /\ UNCHANGED <<k, l, sp, fed, st, sb, cache, ctx, layerB, device>>

\* BUG: ng is raised, the attention's array is not.
MoreToSampleRaised == st + 1 < 4 * NG

MoreToSample == st + 1 < NG

\* BUG: the position stays.
SampleInPlace ==
    /\ pc = "sample"
    /\ x' = Begin(NPT + st + 1)
    /\ fed' = fed + 1
    /\ st' = st + 1
    /\ pc' = IF MoreToSample THEN "go" ELSE "done"
    /\ UNCHANGED <<phase, k, l, sp, sb, cache, ctx, layerB, device>>

Sample ==
    /\ pc = "sample"
    /\ x' = Begin(NPT + st + 1)
    /\ fed' = fed + 1
    /\ st' = st + 1
    /\ sp' = sp + 1
    /\ pc' = IF MoreToSample THEN "go" ELSE "done"
    /\ UNCHANGED <<phase, k, l, sb, cache, ctx, layerB, device>>

Host ==
    \/ Open \/ OpenReturnsFalse \/ OpenAttention \/ Pack \/ PackCrashes
    \/ Go \/ StoreAndAttend \/ FirstResidual \/ Silu \/ SecondResidual
    \/ Embed \/ StartGenerate \/ Sample

Throws == OpenThrows \/ GoThrows

Npu == Execute \/ GiveUp

Next == Host \/ Throws \/ Npu

\* The thread runs, and the driver ends every command, done or given up: wait()
\* has no timeout.  Nothing has to be thrown.
Spec == Init /\ [][Next]_vars /\ WF_vars(Host) /\ WF_vars(Npu)

-----------------------------------------------------------------------------
(* Correctness.                                                             *)

Vector == [pass : -1..NPT + NG, step : Nat]

\* The position stays within the prompt and what is generated, and there is at
\* most one command at a time.
TypeOK ==
    /\ pc \in {"open", "attention", "pack", "embed", "go", "wait", "sample",
               "done", "dead"}
    /\ phase \in {"prefill", "generate"}
    /\ l \in Layer /\ k \in Kernel
    /\ sp \in 0..NPT + NG /\ fed \in 0..NPT + NG /\ st \in 0..NG
    /\ x \in Vector /\ sb \in Vector
    /\ \A j \in Layer : DOMAIN kv[j] \subseteq 0..NPT + NG - 1
                        /\ \A p \in DOMAIN kv[j] : kv[j][p] \in Vector
    /\ n \in [Layer -> 0..NPT + NG]
    /\ window \in [base : 0..NPT + NG - 1, n : 0..NPT + NG]
    /\ ctx \in [Kernel -> {"closed", "ready", "broken"}]
    /\ layerB \in [Kernel -> [Layer -> Layer \cup {NoLayer}]]
    /\ bA \in [Kernel -> Vector] /\ bC \in [Kernel -> Vector]
    /\ cmds \subseteq {[kernel |-> k, layer |-> l]}
    /\ pc # "wait" => cmds = {}
    /\ failed \subseteq 0..NPT + NG - 1

\* The cache is one sequence: a layer has a row for every position before the
\* current one, and for that one if the pass has been through the layer; and row p
\* was made in the p-th pass of main's loops, which count the passes apart from
\* sp, by its own layer's kernel, unless a command of that pass failed.
CacheIsComplete ==
    \A i, j \in Layer :
        /\ DOMAIN kv[j] = 0..n[j] - 1
        /\ n[j] = sp \/ n[j] = sp + 1
        /\ i < j => n[i] >= n[j]
        /\ \A p \in DOMAIN kv[j] \ failed :
              kv[j][p] = [pass |-> p, step |-> 4 * j + 1]

ScoreSlots == 32
CacheRows == 4096

\* cpu_attn's array holds a score for every row it reads, and the rows are all
\* of the cache; so is the position of the table of rotations.
ReadsInBounds ==
    /\ window.n <= ScoreSlots
    /\ window.base + window.n <= CacheRows
    /\ sp < CacheRows

\* Unless a command of this very pass failed, what a kernel is given, and what the
\* logits are computed from, was made in this pass by the kernel before it, run to
\* its end on what that one had been given; so was the residual that is added.  A
\* failure in an earlier pass does not matter, although the buffers are shared by
\* all passes and layers and a failed command leaves what an earlier one wrote.
ResultsAreFresh ==
    Pass \notin failed =>
        /\ pc = "go" => x = [pass |-> Pass, step |-> 4 * l + k]
        /\ pc = "sample" => x = [pass |-> Pass, step |-> 4 * NC]

\* When all contexts could be opened, the engine goes through every token, whatever
\* commands fail, unless XRT throws.
Finishes == pc = "pack" /\ (\A i \in Kernel : ctx[i] = "ready")
                ~> pc = "dead" \/ (pc = "done" /\ sp = NPT + NG)

\* What is read is what has been stored, the token's own row and all before it:
\* "KV cache with full QK^T + softmax attention", as the documents have it
\* (docs/HANDOFF-NPU-OPTIMIZATION.md:46, and the pipeline of this engine at 1085).
AttendsToAll ==
    pc = "go" /\ k = O => window.base = 0 /\ window.n = n[l]
=============================================================================
