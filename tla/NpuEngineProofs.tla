--------------------------- MODULE NpuEngineProofs ---------------------------
(***************************************************************************)
(* Proofs about NpuEngine, for any number of layers, any prompt, any       *)
(* number of tokens to generate and any number of failed commands.         *)
(***************************************************************************)
EXTENDS NpuEngine, TLAPS

\* What pass p has made after s kernels, unless a command of it has failed.
Val(p, s) == [pass |-> p, step |-> s]

InPass == pc \in {"go", "wait"}

\* Where the loops are.
LoopInv ==
    /\ pc \in {"open", "attention", "pack", "embed", "go", "wait", "sample",
               "done", "dead"}
    /\ phase \in {"prefill", "generate"}
    /\ l \in Layer /\ k \in Kernel
    /\ sp \in Nat /\ fed \in Nat /\ st \in Nat /\ failed \subseteq 0..NPT + NG - 1
    /\ pc \in {"open", "attention", "pack"} => phase = "prefill" /\ sp = 0 /\ fed = 0 /\ st = 0
    /\ pc = "open" => l = 0
    /\ pc = "attention" => l = 0 /\ k = QKV
    /\ pc = "embed" => phase = "prefill" /\ l = 0 /\ k = QKV
    /\ pc \in {"sample", "done"} => phase = "generate" /\ l = 0 /\ k = QKV
    /\ phase = "prefill" => /\ st = 0
                            /\ InPass => fed = sp + 1
                            /\ pc \notin {"go", "wait", "dead"} => fed = sp
                            /\ sp <= fed /\ fed <= NPT
    /\ phase = "generate" => /\ sp = NPT + st /\ fed = NPT + st
                             /\ st <= NG
                             /\ pc # "done" => st < NG
                             /\ pc \in {"go", "wait", "sample", "done", "dead"}
    /\ pc = "done" => st = NG
    /\ window \in [base : 0..NPT + NG - 1, n : 0..NPT + NG]

\* Layer j has a row for the current position.
Stored(j) ==
    \/ InPass /\ j < l
    \/ InPass /\ j = l /\ k # QKV
    \/ pc = "sample"

Rows(j) == IF Stored(j) THEN sp + 1 ELSE sp

\* What a program that died in a pass has left.
DeadRows ==
    \A i, j \in Layer :
        /\ n[j] = sp \/ n[j] = sp + 1
        /\ i < j => n[i] >= n[j]

\* What is in the cache.
CacheInv ==
    /\ DOMAIN kv = Layer
    /\ n = [j \in Layer |-> n[j]]
    /\ pc # "dead" => n = [j \in Layer |-> Rows(j)]
    /\ pc = "dead" => DeadRows
    /\ \A j \in Layer :
         /\ DOMAIN kv[j] = 0..n[j] - 1
         /\ \A p \in 0..n[j] - 1 :
              /\ kv[j][p] \in Vector
              /\ p \notin failed => kv[j][p] = Val(p, 4 * j + 1)

\* What is in the buffers.
DeviceInv ==
    /\ ctx \in [Kernel -> {"closed", "ready", "broken"}]
    /\ layerB \in [Kernel -> [Layer -> Layer \cup {NoLayer}]]
    /\ bA \in [Kernel -> Vector] /\ bC \in [Kernel -> Vector]
    /\ x \in Vector /\ sb \in Vector
    /\ cmds \subseteq {[kernel |-> k, layer |-> l]}
    /\ pc # "wait" => cmds = {}
    /\ pc = "pack" => \A i \in Kernel, j \in Layer :
                         (j < l \/ (j = l /\ i < k)) => layerB[i][j] = j
    /\ pc \notin {"open", "attention", "pack", "dead"} => layerB = [i \in Kernel |-> [j \in Layer |-> j]]

\* Which vectors they are, unless a command of this pass has failed.
FreshInv ==
    sp \notin failed =>
        /\ InPass => x = Val(sp, 4 * l + k)
        /\ (InPass /\ k = O) \/ (pc = "wait" /\ k = QKV) => sb = Val(sp, 4 * l)
        /\ (InPass /\ k = D) \/ (pc = "wait" /\ k = GU) => sb = Val(sp, 4 * l + 2)
        /\ pc = "sample" => x = Val(sp, 4 * NC)
        /\ pc = "wait" => IF cmds = {} THEN bC[k] = Val(sp, 4 * l + k + 1)
                                       ELSE bA[k] = x

IInv == LoopInv /\ CacheInv /\ DeviceInv /\ FreshInv

-----------------------------------------------------------------------------
(* The arithmetic of vectors.                                              *)

LEMMA ModFact ==
    ASSUME NEW M \in Nat \ {0}, NEW r \in 0..M - 1
    PROVE  r % M = r /\ (M + r) % M = r
  OBVIOUS

LEMMA ValFacts ==
    ASSUME NEW p \in Nat, NEW s \in Nat
    PROVE  /\ Val(p, s) # Noise
           /\ p <= NPT + NG => Val(p, s) \in Vector
  BY SizesArePositive DEF Val, Noise, Vector

\* The position is the number of the pass.
LEMMA PassIsPosition ==
    LoopInv /\ (InPass \/ pc = "sample") => Pass = sp
  BY DEF LoopInv, InPass, Pass

\* The kernel that is next carries the value on.
LEMMA ProductVal ==
    ASSUME NEW p \in Nat, NEW w \in Layer, NEW i \in Kernel
    PROVE  Product(Val(p, 4 * w + i), i, w) = Val(p, 4 * w + i + 1)
  <1>1. 4 * w + i \in Nat
    BY SizesArePositive DEF Layer, Kernel, QKV, D
  <1>2. Val(p, 4 * w + i) # Noise
    BY <1>1, ValFacts
  <1> QED
    BY <1>1, <1>2 DEF Product, Val

LEMMA ResidualVal ==
    ASSUME NEW p \in Nat, NEW s \in Nat
    PROVE  Residual(Val(p, s), Val(p, s + 2)) = Val(p, s + 2)
  BY DEF Residual, Val

LEMMA ProductIsVector ==
    ASSUME NEW v \in Vector, NEW i, NEW w
    PROVE  Product(v, i, w) \in Vector
  BY SizesArePositive DEF Product, Vector, Noise

LEMMA ResidualIsVector ==
    ASSUME NEW s \in Vector, NEW y \in Vector
    PROVE  Residual(s, y) \in Vector
  BY SizesArePositive DEF Residual, Vector, Noise

-----------------------------------------------------------------------------
(* Initially, and at every step.                                           *)

LEMMA InitInv == Init => IInv
  <1> SUFFICES ASSUME Init PROVE IInv
    OBVIOUS
  <1> USE SizesArePositive, MaxFailuresIsNat DEF Init, Layer, Kernel, QKV, D, InPass
  <1>1. LoopInv
    BY DEF LoopInv
  <1>2. CacheInv
    BY DEF CacheInv, Rows, Stored
  <1>3. DeviceInv
    BY DEF DeviceInv, Vector, Noise, NoLayer
  <1>4. FreshInv
    BY DEF FreshInv
  <1> QED
    BY <1>1, <1>2, <1>3, <1>4 DEF IInv

LEMMA LoopKept ==
    ASSUME IInv, Next
    PROVE  LoopInv'
  <1> USE SizesArePositive, MaxFailuresIsNat
      DEF IInv, LoopInv, Layer, Kernel, QKV, O, GU, D, InPass, loop, cache, device
  <1>1. CASE Open \/ OpenReturnsFalse
    <2>1. \E r : OpenNext(r)
      BY <1>1 DEF Open, OpenReturnsFalse
    <2>2. /\ pc = "open" /\ pc' = (IF k = D THEN "attention" ELSE "open")
          /\ k' = (k + 1) % 4 /\ UNCHANGED <<loop, cache, device>>
      BY <2>1 DEF OpenNext
    <2>3. k' \in Kernel /\ (k = D => k' = QKV)
      BY <2>2
    <2> QED
      BY <2>2, <2>3
  <1>2. CASE OpenAttention \/ Throws
    BY <1>2 DEF OpenAttention, Throws, OpenThrows, GoThrows
  <1>3. CASE Pack \/ PackCrashes
    BY <1>3 DEF Pack, PackCrashes
  <1>4. CASE Go
    BY <1>4 DEF Go
  <1>5. CASE StoreAndAttend
    <2>1. sp \in 0..NPT + NG - 1
      BY <1>5 DEF StoreAndAttend, Result
    <2>2. window' \in [base : 0..NPT + NG - 1, n : 0..NPT + NG]
      BY <1>5, <2>1 DEF StoreAndAttend, Window
    <2> QED
      BY <1>5, <2>2 DEF StoreAndAttend, Result
  <1>6. CASE FirstResidual \/ Silu
    <2>1. pc = "wait" /\ pc' = "go" /\ k' \in Kernel /\ UNCHANGED <<loop, cache, device>>
      BY <1>6 DEF FirstResidual, Silu, Result
    <2> QED
      BY <2>1
  <1>7. CASE SecondResidual
    BY <1>7 DEF SecondResidual, Result
  <1>8. CASE Embed \/ StartGenerate
    <2>1. CASE Embed
      BY <2>1 DEF Embed
    <2>2. CASE StartGenerate
      BY <2>2 DEF StartGenerate
    <2> QED
      BY <1>8, <2>1, <2>2
  <1>9. CASE Sample
    BY <1>9 DEF Sample, MoreToSample
  <1>10. CASE Execute
    BY <1>10 DEF Execute
  <1>11. CASE GiveUp
    <2>1. pc = "wait"
      BY <1>11 DEF GiveUp, DeviceInv
    <2>2. Pass = sp /\ sp \in 0..NPT + NG - 1
      BY <2>1 DEF Pass
    <2>3. failed' \subseteq 0..NPT + NG - 1
      BY <1>11, <2>2 DEF GiveUp
    <2> QED
      BY <1>11, <2>3 DEF GiveUp
  <1> QED
    BY <1>1, <1>2, <1>3, <1>4, <1>5, <1>6, <1>7, <1>8, <1>9, <1>10, <1>11
    DEF Next, Host, Npu

\* What leaves the cache alone need only keep its length.
LEMMA CacheLeftAlone ==
    ASSUME CacheInv, UNCHANGED <<kv, n>>, failed \subseteq failed',
           \A j \in Layer : Rows(j)' = Rows(j),
           pc = "dead" => sp' = sp, pc = "dead" <=> pc' = "dead"
    PROVE  CacheInv'
  <1>1. pc' # "dead" => n' = [j \in Layer |-> Rows(j)']
    BY DEF CacheInv
  <1>2. pc' = "dead" => DeadRows'
    BY DEF CacheInv, DeadRows
  <1> QED
    BY <1>1, <1>2 DEF CacheInv, Val, Vector

\* A layer has a row for the position only after the layers before it.
LEMMA RowsAreMonotone ==
    ASSUME LoopInv, n = [j \in Layer |-> Rows(j)]
    PROVE  DeadRows
  <1> USE SizesArePositive DEF Layer, Kernel, QKV, D, LoopInv
  <1> SUFFICES ASSUME NEW i \in Layer, NEW j \in Layer
      PROVE  /\ n[j] = sp \/ n[j] = sp + 1
             /\ i < j => n[i] >= n[j]
    BY DEF DeadRows
  <1>1. n[i] = Rows(i) /\ n[j] = Rows(j)
    OBVIOUS
  <1>2. i < j /\ Stored(j) => Stored(i)
    BY DEF Stored, InPass
  <1> QED
    BY <1>1, <1>2 DEF Rows

LEMMA CacheLeftByTheDead ==
    ASSUME LoopInv, CacheInv, UNCHANGED <<kv, n, sp, failed>>, pc # "dead", pc' = "dead"
    PROVE  CacheInv'
  <1>1. DeadRows
    BY RowsAreMonotone DEF CacheInv
  <1> QED
    BY <1>1 DEF CacheInv, DeadRows, Val, Vector

LEMMA CacheKept ==
    ASSUME IInv, Next
    PROVE  CacheInv'
  <1> USE SizesArePositive, MaxFailuresIsNat
      DEF IInv, LoopInv, Layer, Kernel, QKV, O, GU, D, InPass, Rows, Stored,
          loop, cache, device
  <1>1. CASE Open \/ OpenReturnsFalse \/ OpenAttention
    BY <1>1, CacheLeftAlone DEF Open, OpenReturnsFalse, OpenNext, OpenAttention
  <1>2. CASE Pack
    BY <1>2, CacheLeftAlone DEF Pack
  <1>3. CASE Go
    BY <1>3, CacheLeftAlone DEF Go
  <1>4. CASE StoreAndAttend
    <2>1. pc = "wait" /\ k = QKV /\ cmds = {} /\ failed' = failed
      BY <1>4 DEF StoreAndAttend, Result, WaitReturns
    <2>2. n[l] = sp /\ DOMAIN kv[l] = 0..sp - 1
      BY <2>1 DEF CacheInv
    <2>3. n' = [j \in Layer |-> Rows(j)']
      <3>1. n' = [n EXCEPT ![l] = sp + 1] /\ pc' = "go" /\ k' = O /\ l' = l /\ sp' = sp
        BY <1>4 DEF StoreAndAttend
      <3>2. \A j \in Layer : Rows(j)' = IF j = l THEN sp + 1 ELSE Rows(j)
        BY <2>1, <3>1
      <3> QED
        BY <2>1, <3>1, <3>2 DEF CacheInv
    <2>4. /\ DOMAIN kv' = Layer
          /\ kv'[l] = [p \in 0..sp |-> IF p = sp THEN bC[QKV] ELSE kv[l][p]]
          /\ \A j \in Layer \ {l} : kv'[j] = kv[j] /\ n'[j] = n[j]
          /\ n'[l] = sp + 1
      <3>1. (0..sp - 1) \cup {sp} = 0..sp
        OBVIOUS
      <3>2. kv' = [kv EXCEPT ![l] = [p \in 0..sp |-> IF p = sp THEN bC[QKV] ELSE @[p]]]
        BY <1>4, <2>2, <3>1 DEF StoreAndAttend
      <3>3. n' = [n EXCEPT ![l] = sp + 1] /\ DOMAIN n = Layer
        BY <1>4 DEF StoreAndAttend, CacheInv
      <3>4. DOMAIN kv = Layer
        BY DEF CacheInv
      <3> QED
        BY <3>2, <3>3, <3>4
    <2>5. bC[QKV] \in Vector /\ (sp \notin failed => bC[QKV] = Val(sp, 4 * l + 1))
      BY <2>1 DEF DeviceInv, FreshInv
    <2>6. ASSUME NEW j \in Layer
          PROVE  /\ DOMAIN kv'[j] = 0..n'[j] - 1
                 /\ \A p \in 0..n'[j] - 1 :
                      /\ kv'[j][p] \in Vector
                      /\ p \notin failed' => kv'[j][p] = Val(p, 4 * j + 1)
      <3>1. CASE j = l
        <4>1. \A p \in 0..sp - 1 :
                /\ kv[l][p] \in Vector
                /\ p \notin failed => kv[l][p] = Val(p, 4 * l + 1)
          BY <2>2 DEF CacheInv
        <4>2. n'[l] - 1 = sp
          BY <2>4
        <4>3. ASSUME NEW p \in 0..sp
              PROVE  /\ kv'[l][p] \in Vector
                     /\ p \notin failed' => kv'[l][p] = Val(p, 4 * l + 1)
          <5>1. CASE p = sp
            BY <2>1, <2>4, <2>5, <5>1
          <5>2. CASE p # sp
            <6>1. p \in 0..sp - 1 /\ kv'[l][p] = kv[l][p]
              BY <2>4, <5>2
            <6>2. /\ kv[l][p] \in Vector
                  /\ p \notin failed => kv[l][p] = Val(p, 4 * l + 1)
              BY <4>1, <6>1
            <6>3. failed' = failed
              BY <2>1
            <6> QED
              BY <6>1, <6>2, <6>3, Zenon
          <5> QED
            BY <5>1, <5>2
        <4>4. DOMAIN kv'[l] = 0..sp
          BY <2>4
        <4> QED
          BY <3>1, <4>2, <4>3, <4>4
      <3>2. CASE j # l
        <4>1. kv'[j] = kv[j] /\ n'[j] = n[j]
          BY <2>4, <3>2
        <4>2. /\ DOMAIN kv[j] = 0..n[j] - 1
              /\ \A p \in 0..n[j] - 1 :
                   /\ kv[j][p] \in Vector
                   /\ p \notin failed => kv[j][p] = Val(p, 4 * j + 1)
          BY DEF CacheInv
        <4> QED
          BY <2>1, <4>1, <4>2
      <3> QED
        BY <3>1, <3>2
    <2>7. pc' = "go" /\ n' = [j \in Layer |-> n'[j]]
      BY <1>4, <2>3 DEF StoreAndAttend
    <2> QED
      BY <2>3, <2>4, <2>6, <2>7 DEF CacheInv, Val, Vector
  <1>5. CASE FirstResidual \/ Silu
    BY <1>5, CacheLeftAlone DEF FirstResidual, Silu, Result
  <1>6. CASE SecondResidual
    BY <1>6, CacheLeftAlone DEF SecondResidual, Result
  <1>7. CASE Embed \/ StartGenerate
    BY <1>7, CacheLeftAlone DEF Embed, StartGenerate
  <1>8. CASE Sample
    BY <1>8, CacheLeftAlone DEF Sample, MoreToSample
  <1>9. CASE Npu
    BY <1>9, CacheLeftAlone DEF Npu, Execute, GiveUp, DeviceInv
  <1>10. CASE OpenThrows \/ PackCrashes \/ GoThrows
    BY <1>10, CacheLeftByTheDead DEF OpenThrows, PackCrashes, GoThrows
  <1> QED
    BY <1>1, <1>2, <1>3, <1>4, <1>5, <1>6, <1>7, <1>8, <1>9, <1>10
    DEF Next, Host, Throws

LEMMA DeviceKept ==
    ASSUME IInv, Next
    PROVE  DeviceInv'
  <1> USE SizesArePositive, MaxFailuresIsNat
      DEF IInv, LoopInv, DeviceInv, Layer, Kernel, QKV, O, GU, D, InPass,
          loop, cache, device
  <1>0. Noise \in Vector /\ Vector' = Vector
    BY DEF Noise, Vector
  <1>1. ASSUME NEW result \in {"ready", "broken"}, OpenNext(result)
        PROVE  DeviceInv'
    <2>1. ctx' \in [Kernel -> {"closed", "ready", "broken"}]
      BY <1>1 DEF OpenNext
    <2>2. pc = "open" /\ pc' \in {"open", "attention"} /\ cmds = {}
      BY <1>1 DEF OpenNext
    <2> QED
      BY <1>0, <1>1, <2>1, <2>2 DEF OpenNext
  <1>2. CASE OpenAttention \/ OpenThrows
    <2>1. CASE OpenAttention
      BY <1>0, <2>1 DEF OpenAttention
    <2>2. CASE OpenThrows
      BY <1>0, <2>2 DEF OpenThrows
    <2> QED
      BY <1>2, <2>1, <2>2
  <1>3. CASE Pack
    <2>1. layerB' = [layerB EXCEPT ![k][l] = l] /\ pc = "pack" /\ cmds' = {}
      BY <1>3 DEF Pack
    <2>2. layerB' \in [Kernel -> [Layer -> Layer \cup {NoLayer}]]
      BY <2>1
    <2>3. \A i \in Kernel, j \in Layer :
            (j < l \/ (j = l /\ i <= k)) => layerB'[i][j] = j
      BY <2>1
    <2>4. CASE pc' = "pack"
      <3>1. \A i \in Kernel, j \in Layer :
              (j < l' \/ (j = l' /\ i < k')) => (j < l \/ (j = l /\ i <= k))
        <4>1. CASE k = D
          <5>1. l + 1 \in 0..NC - 1 /\ k' = 0 /\ l' = (l + 1) % NC
            BY <1>3, <2>4, <4>1 DEF Pack
          <5>2. l' = l + 1
            BY <5>1, ModFact
          <5> QED
            BY <4>1, <5>1, <5>2
        <4>2. CASE k # D
          <5>1. k' = (k + 1) % 4 /\ l' = l /\ k \in 0..2
            BY <1>3, <4>2 DEF Pack
          <5>2. k' = k + 1
            <6>1. k + 1 \in 0..4 - 1 /\ 4 \in Nat \ {0}
              BY <5>1
            <6> QED
              BY <5>1, <6>1, ModFact
          <5> QED
            BY <5>1, <5>2
        <4> QED
          BY <4>1, <4>2
      <3> QED
        BY <1>0, <1>3, <2>1, <2>2, <2>3, <2>4, <3>1 DEF Pack
    <2>5. CASE pc' # "pack"
      <3>1. pc' = "embed" /\ k = D /\ l = NC - 1
        BY <1>3, <2>5 DEF Pack
      <3>2. \A i \in Kernel, j \in Layer : layerB'[i][j] = j
        BY <2>3, <3>1
      <3>3. layerB' = [i \in Kernel |-> [j \in Layer |-> j]]
        BY <2>2, <3>2
      <3> QED
        BY <1>0, <1>3, <2>1, <2>2, <3>1, <3>3 DEF Pack
    <2> QED
      BY <2>4, <2>5
  <1>4. CASE PackCrashes
    BY <1>0, <1>4 DEF PackCrashes
  <1>5. CASE Go
    BY <1>0, <1>5 DEF Go
  <1>6. CASE StoreAndAttend
    BY <1>0, <1>6 DEF StoreAndAttend, Result, WaitReturns
  <1>7. CASE FirstResidual \/ Silu
    BY <1>0, <1>7, ResidualIsVector DEF FirstResidual, Silu, Result, WaitReturns
  <1>8. CASE SecondResidual
    BY <1>0, <1>8, ResidualIsVector DEF SecondResidual, Result, WaitReturns
  <1>9. CASE Embed \/ Sample
    <2>1. \/ x' = Begin(fed) /\ fed \in 0..NPT + NG
          \/ x' = Begin(NPT + st + 1) /\ NPT + st + 1 \in 0..NPT + NG
      BY <1>9 DEF Embed, Sample
    <2>2. x' \in Vector
      <3>1. PICK b \in 0..NPT + NG : x' = Begin(b)
        BY <2>1
      <3>2. Begin(b) \in Vector
        BY <3>1 DEF Begin, Vector
      <3> QED
        BY <3>1, <3>2
    <2>3. pc # "wait" /\ cmds = {} /\ UNCHANGED <<ctx, layerB, bA, bC, sb, cmds, l, k>>
      BY <1>9 DEF Embed, Sample
    <2>4. /\ layerB = [i \in Kernel |-> [j \in Layer |-> j]]
          /\ pc' \notin {"open", "attention", "pack"}
      BY <1>9 DEF Embed, Sample
    <2> QED
      BY <1>0, <2>2, <2>3, <2>4
  <1>10. CASE StartGenerate
    <2>1. Begin(NPT) \in Vector
      BY DEF Begin, Vector
    <2> QED
      BY <1>0, <1>10, <2>1 DEF StartGenerate
  <1>11. CASE Execute
    BY <1>0, <1>11, ProductIsVector DEF Execute
  <1>12. CASE GiveUp
    BY <1>0, <1>12 DEF GiveUp
  <1>13. CASE GoThrows
    BY <1>0, <1>13 DEF GoThrows
  <1> QED
    BY <1>1, <1>2, <1>3, <1>4, <1>5, <1>6, <1>7, <1>8, <1>9, <1>10, <1>11, <1>12, <1>13
    DEF Next, Host, Throws, Npu, Open, OpenReturnsFalse

LEMMA FreshKept ==
    ASSUME IInv, Next
    PROVE  FreshInv'
  <1> SUFFICES ASSUME sp' \notin failed'
               PROVE  FreshInv'
    BY DEF FreshInv
  <1> USE SizesArePositive DEF IInv, LoopInv, FreshInv, Layer, Kernel, QKV, O, GU, D,
          InPass, loop, cache, device
  <1>1. CASE Open \/ OpenReturnsFalse \/ OpenAttention \/ Throws
    BY <1>1 DEF Open, OpenReturnsFalse, OpenNext, OpenAttention, Throws, OpenThrows,
                GoThrows
  <1>2. CASE Pack \/ PackCrashes
    BY <1>2 DEF Pack, PackCrashes
  <1>3. CASE Go
    <2>1. /\ pc = "go" /\ pc' = "wait" /\ x = Val(sp, 4 * l + k) /\ bA'[k] = x
          /\ cmds' # {}
      BY <1>3 DEF Go, DeviceInv
    <2>2. CASE k \in {QKV, GU}
      BY <1>3, <2>1, <2>2 DEF Go, Val
    <2>3. CASE k \in {O, D}
      BY <1>3, <2>1, <2>3 DEF Go, Val
    <2> QED
      BY <2>2, <2>3
  <1>4. CASE StoreAndAttend
    <2>1. bC[QKV] = Val(sp, 4 * l + 1) /\ sb = Val(sp, 4 * l)
      BY <1>4 DEF StoreAndAttend, Result, WaitReturns
    <2> QED
      BY <1>4, <2>1 DEF StoreAndAttend, Val
  <1>5. CASE FirstResidual
    <2>1. bC[O] = Val(sp, 4 * l + 2) /\ sb = Val(sp, 4 * l)
      BY <1>5 DEF FirstResidual, Result, WaitReturns
    <2>2. x' = Val(sp, 4 * l + 2)
      <3>1. 4 * l \in Nat /\ x' = Residual(sb, bC[O])
        BY <1>5 DEF FirstResidual
      <3> QED
        BY <2>1, <3>1, ResidualVal
    <2> QED
      BY <1>5, <2>2 DEF FirstResidual, Val
  <1>6. CASE Silu
    <2>1. bC[GU] = Val(sp, 4 * l + 3) /\ sb = Val(sp, 4 * l + 2)
      BY <1>6 DEF Silu, Result, WaitReturns
    <2> QED
      BY <1>6, <2>1 DEF Silu, Val
  <1>7. CASE SecondResidual
    <2>1. CASE sp' = sp
      <3>1. bC[D] = Val(sp, 4 * l + 4) /\ sb = Val(sp, 4 * l + 2)
        BY <1>7, <2>1 DEF SecondResidual, Result, WaitReturns
      <3>2. x' = Val(sp, 4 * (l + 1))
        BY <1>7, <3>1, ResidualVal DEF SecondResidual
      <3>3. CASE l < NC - 1
        BY <1>7, <3>2, <3>3 DEF SecondResidual, Val
      <3>4. CASE l = NC - 1
        <4>1. x' = Val(sp, 4 * NC)
          BY <3>2, <3>4
        <4> QED
          BY <1>7, <2>1, <3>4, <4>1 DEF SecondResidual, Result, Val
      <3> QED
        BY <3>3, <3>4
    <2>2. CASE sp' # sp
      BY <1>7, <2>2 DEF SecondResidual
    <2> QED
      BY <2>1, <2>2
  <1>8. CASE Embed
    BY <1>8 DEF Embed, Begin, Val
  <1>9. CASE StartGenerate
    BY <1>9 DEF StartGenerate, Begin, Val
  <1>10. CASE Sample
    BY <1>10 DEF Sample, MoreToSample, Begin, Val
  <1>11. CASE Execute
    <2>1. pc = "wait" /\ cmds = {[kernel |-> k, layer |-> l]}
      BY <1>11 DEF Execute, DeviceInv
    <2>2. bA[k] = Val(sp, 4 * l + k)
      BY <1>11, <2>1 DEF Execute
    <2>3. layerB[k][l] = l
      BY <2>1 DEF DeviceInv
    <2>4. Product(bA[k], k, layerB[k][l]) = Val(sp, 4 * l + k + 1)
      BY <2>2, <2>3, ProductVal
    <2>5. bC'[k] = Val(sp, 4 * l + k + 1) /\ cmds' = {}
      BY <1>11, <2>1, <2>4 DEF Execute, DeviceInv
    <2> QED
      BY <1>11, <2>1, <2>5 DEF Execute, Val
  <1>12. CASE GiveUp
    <2>1. pc = "wait"
      BY <1>12 DEF GiveUp, DeviceInv
    <2>2. Pass = sp
      BY <2>1, PassIsPosition
    <2> QED
      BY <1>12, <2>2 DEF GiveUp
  <1> QED
    BY <1>1, <1>2, <1>3, <1>4, <1>5, <1>6, <1>7, <1>8, <1>9, <1>10, <1>11, <1>12
    DEF Next, Host, Npu

LEMMA StepKeepsInv == IInv /\ [Next]_vars => IInv'
  <1>1. CASE Next
    BY <1>1, LoopKept, CacheKept, DeviceKept, FreshKept DEF IInv
  <1>2. CASE UNCHANGED vars
    <2> USE <1>2 DEF vars, loop, cache, device, IInv, InPass
    <2>1. IInv => LoopInv'
      BY DEF LoopInv
    <2>2. IInv => CacheInv'
      BY CacheLeftAlone DEF Rows, Stored
    <2>3. IInv => DeviceInv'
      BY DEF DeviceInv, Vector
    <2>4. IInv => FreshInv'
      BY DEF FreshInv, Val
    <2> QED
      BY <2>1, <2>2, <2>3, <2>4
  <1> QED
    BY <1>1, <1>2

LEMMA InvHolds == Spec => []IInv
  BY InitInv, StepKeepsInv, PTL DEF Spec

-----------------------------------------------------------------------------
(* What follows.                                                           *)

\* The position stays within the prompt and what is generated, there is at
\* most one command at a time, and all else has its type, however many layers,
\* tokens and failures there are.
THEOREM TypeCorrect == Spec => []TypeOK
  <1> USE SizesArePositive
      DEF IInv, LoopInv, Layer, Kernel, QKV, O, GU, D, InPass, Stored, Rows
  <1>1. IInv => TypeOK
    <2> SUFFICES ASSUME IInv PROVE TypeOK
      OBVIOUS
    <2>1. sp \in 0..NPT + NG /\ fed \in 0..NPT + NG /\ st \in 0..NG
      OBVIOUS
    <2>2. n \in [Layer -> 0..NPT + NG] /\ \A j \in Layer : n[j] <= NPT + NG
      <3>1. ASSUME NEW j \in Layer PROVE n[j] \in 0..NPT + NG
        <4>1. CASE pc = "dead"
          <5>1. n[j] = sp \/ n[j] = sp + 1
            BY <4>1 DEF CacheInv, DeadRows
          <5>2. sp < NPT + NG
            BY <4>1
          <5> QED
            BY <5>1, <5>2
        <4>2. CASE pc # "dead" /\ Stored(j)
          <5>1. n[j] = sp + 1
            BY <4>2 DEF CacheInv
          <5> QED
            BY <2>1, <4>2, <5>1
        <4>3. CASE pc # "dead" /\ ~Stored(j)
          <5>1. n[j] = sp
            BY <4>3 DEF CacheInv
          <5> QED
            BY <2>1, <5>1
        <4> QED
          BY <4>1, <4>2, <4>3
      <3>2. n = [j \in Layer |-> n[j]]
        BY DEF CacheInv
      <3> QED
        BY <3>1, <3>2
    <2>3. \A j \in Layer : DOMAIN kv[j] \subseteq 0..NPT + NG - 1
                           /\ \A p \in DOMAIN kv[j] : kv[j][p] \in Vector
      <3>1. ASSUME NEW j \in Layer
            PROVE  /\ DOMAIN kv[j] = 0..n[j] - 1 /\ n[j] \in 0..NPT + NG
                   /\ \A p \in 0..n[j] - 1 : kv[j][p] \in Vector
        BY <2>2 DEF CacheInv
      <3>2. ASSUME NEW j \in Layer PROVE 0..n[j] - 1 \subseteq 0..NPT + NG - 1
        BY <3>1
      <3> QED
        BY <3>1, <3>2, Zenon
    <2>4. /\ pc \in {"open", "attention", "pack", "embed", "go", "wait", "sample",
                      "done", "dead"}
          /\ phase \in {"prefill", "generate"} /\ l \in Layer /\ k \in Kernel
          /\ window \in [base : 0..NPT + NG - 1, n : 0..NPT + NG]
          /\ failed \subseteq 0..NPT + NG - 1
      OBVIOUS
    <2>5. DeviceInv
      OBVIOUS
    <2> HIDE DEF IInv, Layer, Kernel
    <2> QED
      BY <2>1, <2>2, <2>3, <2>4, <2>5 DEF TypeOK, DeviceInv
  <1> QED
    BY <1>1, InvHolds, PTL

\* The layers' caches are one sequence: row p of every layer was made in pass p by
\* the layer's own kernel, unless a command of that pass failed, however many do
\* (the lambda layer, lines 111-128, which takes the position from the loops).
THEOREM CacheIsOneSequence == Spec => []CacheIsComplete
  <1> USE SizesArePositive
      DEF IInv, LoopInv, Layer, Kernel, QKV, O, GU, D, InPass, Stored, Rows
  <1>1. IInv => CacheIsComplete
    <2> SUFFICES ASSUME IInv, NEW i \in Layer, NEW j \in Layer
        PROVE  /\ DOMAIN kv[j] = 0..n[j] - 1
               /\ n[j] = sp \/ n[j] = sp + 1
               /\ i < j => n[i] >= n[j]
               /\ \A p \in DOMAIN kv[j] \ failed :
                     kv[j][p] = [pass |-> p, step |-> 4 * j + 1]
      BY DEF CacheIsComplete
    <2>1. DOMAIN kv[j] = 0..n[j] - 1
      BY DEF CacheInv
    <2>2. DeadRows
      BY RowsAreMonotone DEF CacheInv
    <2>3. \A p \in DOMAIN kv[j] \ failed :
             kv[j][p] = [pass |-> p, step |-> 4 * j + 1]
      BY <2>1 DEF CacheInv, Val
    <2> QED
      BY <2>1, <2>2, <2>3 DEF DeadRows
  <1> QED
    BY <1>1, InvHolds, PTL

\* The prompt and what is generated may have as many tokens together as
\* cpu_attn's array has scores (main's have 17), and no read is out of bounds.
THEOREM ReadsFit ==
    ASSUME NPT + NG <= ScoreSlots
    PROVE  Spec => []ReadsInBounds
  <1>1. IInv => ReadsInBounds
    <2> SUFFICES ASSUME IInv PROVE ReadsInBounds
      OBVIOUS
    <2>1. window.base \in 0..NPT + NG - 1 /\ window.n \in 0..NPT + NG
      BY DEF IInv, LoopInv
    <2>2. sp <= NPT + NG
      BY SizesArePositive DEF IInv, LoopInv, InPass
    <2> QED
      BY <2>1, <2>2, SizesArePositive DEF IInv, LoopInv, ReadsInBounds, ScoreSlots, CacheRows
  <1> QED
    BY <1>1, InvHolds, PTL

\* A failed command spoils the vectors of its own pass only: whatever failed in
\* earlier passes, in a pass without a failure every kernel is given what the one
\* before it made in this pass (go, line 30, and the buffers all passes share).
THEOREM NothingStaleIsRead == Spec => []ResultsAreFresh
  <1>1. IInv => ResultsAreFresh
    <2> SUFFICES ASSUME IInv, Pass \notin failed
        PROVE  /\ pc = "go" => x = [pass |-> Pass, step |-> 4 * l + k]
               /\ pc = "sample" => x = [pass |-> Pass, step |-> 4 * NC]
      BY DEF ResultsAreFresh
    <2>1. InPass \/ pc = "sample" => Pass = sp
      BY PassIsPosition DEF IInv
    <2> QED
      BY <2>1 DEF IInv, FreshInv, InPass, Val
  <1> QED
    BY <1>1, InvHolds, PTL
=============================================================================
