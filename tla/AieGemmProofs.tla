---------------------------- MODULE AieGemmProofs ----------------------------
(***************************************************************************)
(* Proofs about AieGemm, for both designs and for any grid of cores, any   *)
(* matrices the grid divides and any depth of the object FIFOs.            *)
(***************************************************************************)
EXTENDS AieGemm, FiniteSetTheorems, TLAPS

\* The groups the 4row design keeps in flight when it has started group of them;
\* v2 keeps none.
Kept == IF design = "v2" THEN {}
        ELSE {g \in Nat : group - 2 - (group % 2) <= g /\ g < group}

\* Where the runtime sequence is.
HostInv ==
    /\ design \in {"v2", "4row"}
    /\ host \in {"start", "await", "done"}
    /\ group \in 0..NumGroups
    /\ inputs = outputs
    /\ outputs = IF host = "done" THEN {} ELSE Kept \cup draining
    /\ host # "await" => draining = {}
    /\ host = "await" =>
          IF design = "v2"
          THEN group > 0 /\ draining = {group - 1}
          ELSE group >= 4 /\ group % 2 = 0 /\ draining = {group - 4, group - 3}
    /\ host = "done" => group = NumGroups

\* The group whose tile of C a core is computing.
GroupOf(x) == cWritten[x[2]] + (IF cFifo[x] THEN 1 ELSE 0)

\* The variables of the dataflow, without bounds.
FlowType ==
    /\ aSent \in [Row -> Nat]
    /\ bSent \in [Col -> Nat]
    /\ cWritten \in [Col -> Nat]
    /\ aFifo \in [Core -> 0..Depth]
    /\ bFifo \in [Core -> 0..Depth]
    /\ cFifo \in [Core -> BOOLEAN]
    /\ summing \in [Core -> BOOLEAN]
    /\ added \in [Core -> 0..APerGroup]

\* What a channel has sent, each of its cores has released or still has in its
\* FIFO; the objects of B it has released are those of whole products.
FlowAt(x) ==
    /\ summing[x] => ~ cFifo[x]
    /\ ~ summing[x] => added[x] = 0
    /\ aSent[x[1]] = GroupOf(x) * APerGroup + added[x] + aFifo[x]
    /\ bSent[x[2]] = GroupOf(x) * KTiles + (added[x] \div APerB) + bFifo[x]

FlowInv == \A x \in Core : FlowAt(x)

\* Channels are never ahead of the sequence, nor the sequence of the channels.
PaceInv ==
    /\ \A r \in Row : aSent[r] <= group * APerGroup
    /\ \A c \in Col : bSent[c] <= group * KTiles
    /\ \A c \in Col : cWritten[c] <= group
    /\ \A g \in Group : g < group /\ g \notin outputs =>
          \A c \in Col : cWritten[c] > g

IInv == HostInv /\ FlowType /\ FlowInv /\ PaceInv

-----------------------------------------------------------------------------
(* Quotients and remainders.                                                *)

LEMMA ProductIsNat ==
    ASSUME NEW a \in Nat, NEW k \in Nat
    PROVE  a * k \in Nat
  OBVIOUS

LEMMA MulMono ==
    ASSUME NEW a \in Nat, NEW b \in Nat, NEW k \in Nat, a <= b
    PROVE  a * k <= b * k /\ a * k \in Nat /\ b * k \in Nat
  <1>1. (b - a) * k >= 0 /\ a * k >= 0
    OBVIOUS
  <1>2. (b - a) * k = b * k - a * k
    OBVIOUS
  <1> QED
    BY <1>1, <1>2

LEMMA DivFacts ==
    ASSUME NEW p \in Nat, NEW k \in Nat \ {0}
    PROVE  /\ p \div k \in Nat
           /\ p % k \in 0..k - 1
           /\ p = (p \div k) * k + (p % k)
  OBVIOUS

\* Quotient and remainder are the only such numbers.
LEMMA DivUnique ==
    ASSUME NEW p, NEW q \in Nat, NEW k \in Nat \ {0}, NEW i \in 0..k - 1,
           p = q * k + i
    PROVE  p \div k = q /\ p % k = i
  <1> DEFINE d == p \div k
             m == p % k
  <1>1. p \in Nat
    BY ProductIsNat
  <1>2. d \in Nat /\ m \in 0..k - 1 /\ p = d * k + m
    BY <1>1, DivFacts
  <1> HIDE DEF d, m
  <1>3. ~(d + 1 <= q)
    <2> SUFFICES ASSUME d + 1 <= q PROVE FALSE
      OBVIOUS
    <2>1. (d + 1) * k <= q * k
      BY <1>2, MulMono
    <2>2. (d + 1) * k = d * k + k
      BY <1>2
    <2> QED
      BY <1>2, <2>1, <2>2, MulMono
  <1>4. ~(q + 1 <= d)
    <2> SUFFICES ASSUME q + 1 <= d PROVE FALSE
      OBVIOUS
    <2>1. (q + 1) * k <= d * k
      BY <1>2, MulMono
    <2>2. (q + 1) * k = q * k + k
      OBVIOUS
    <2> QED
      BY <1>2, <2>1, <2>2, MulMono
  <1>5. d = q
    BY <1>2, <1>3, <1>4
  <1>6. m = i
    BY <1>2, <1>5, MulMono
  <1> QED
    BY <1>5, <1>6 DEF d, m

LEMMA DivLess ==
    ASSUME NEW p \in Nat, NEW q \in Nat, NEW k \in Nat \ {0}
    PROVE  p \div k < q <=> p < q * k
  <1> DEFINE d == p \div k
  <1>1. d \in Nat /\ p % k \in 0..k - 1 /\ p = d * k + (p % k)
    BY DivFacts
  <1> HIDE DEF d
  <1>2. CASE d < q
    <2>1. (d + 1) * k <= q * k
      BY <1>1, <1>2, MulMono
    <2>2. (d + 1) * k = d * k + k
      BY <1>1
    <2> QED
      BY <1>1, <1>2, <2>1, <2>2, MulMono DEF d
  <1>3. CASE q <= d
    <2>1. q * k <= d * k
      BY <1>1, <1>3, MulMono
    <2> QED
      BY <1>1, <1>3, <2>1, MulMono DEF d
  <1> QED
    BY <1>1, <1>2, <1>3

-----------------------------------------------------------------------------
(* The shapes, and where a group's tiles are.                               *)

Design == design \in {"v2", "4row"}

LEMMA ConstantFacts ==
    /\ AieRows \in Nat \ {0} /\ Cols \in Nat \ {0} /\ RowTiles \in Nat \ {0}
    /\ ColTiles \in Nat \ {0} /\ KTiles \in Nat \ {0} /\ Depth \in Nat \ {0}
  BY ShapesDivide

LEMMA Divides ==
    ASSUME NEW n \in Nat \ {0}, NEW k \in Nat \ {0}, n % k = 0
    PROVE  n \div k \in Nat \ {0} /\ n = (n \div k) * k
  <1>1. n \div k \in Nat /\ n = (n \div k) * k
    BY DivFacts
  <1> QED
    BY <1>1

LEMMA ShapeFacts ==
    ASSUME Design
    PROVE  /\ Rows \in Nat \ {0}
           /\ NumColTile \in Nat \ {0} /\ ColTiles = NumColTile * Cols
           /\ RowTiles \div Rows \in Nat \ {0}
           /\ RowTiles = (RowTiles \div Rows) * Rows
           /\ NumGroups \in Nat
  <1>1. Rows \in Nat \ {0}
    BY ConstantFacts DEF Rows
  <1>2. RowTiles % Rows = 0
    <2>1. CASE design = "v2"
      BY <2>1, ConstantFacts, DivUnique DEF Rows
    <2>2. CASE design = "4row"
      BY <2>2, ShapesDivide DEF Rows
    <2> QED
      BY <2>1, <2>2 DEF Design
  <1>3. /\ RowTiles \div Rows \in Nat \ {0}
        /\ RowTiles = (RowTiles \div Rows) * Rows
    BY <1>1, <1>2, ConstantFacts, Divides
  <1>4. NumColTile \in Nat \ {0} /\ ColTiles = NumColTile * Cols
    BY ConstantFacts, Divides, ShapesDivide DEF NumColTile
  <1>5. NumGroups \in Nat
    BY <1>3, <1>4, MulMono DEF NumGroups
  <1> QED
    BY <1>1, <1>3, <1>4, <1>5

\* The objects of A that a core takes: one or four for each object of B.
LEMMA PerFacts ==
    ASSUME Design
    PROVE  /\ APerB \in {1, 4} /\ KTiles \in Nat \ {0}
           /\ APerGroup = APerB * KTiles /\ APerGroup \in Nat \ {0}
  <1>1. APerB \in {1, 4} /\ KTiles \in Nat \ {0}
    BY ConstantFacts DEF APerB
  <1>2. APerB * KTiles \in Nat \ {0}
    BY <1>1
  <1> QED
    BY <1>1, <1>2 DEF APerGroup

\* The taps of a group agree (a_base_idx, b_base_idx and c_base_idx, 4row lines
\* 135-149): the tile of C at the tap of a core is the one in the row of A and the
\* column of B that its row and its column are sent, and it is in the matrix.
THEOREM TapsAgree ==
    ASSUME Design, NEW g \in Group, NEW r \in Row, NEW c \in Col
    PROVE  /\ ATile(g, r) \in 0..RowTiles - 1
           /\ BTile(g, c) \in 0..ColTiles - 1
           /\ CTile(g, r, c) = <<ATile(g, r), BTile(g, c)>>
  <1> DEFINE q == g \div NumColTile
             s == g % NumColTile
             R == RowTiles \div Rows
  <1>0. g \in Nat /\ g < NumGroups
    BY ShapeFacts DEF Group
  <1>1. /\ Rows \in Nat \ {0} /\ NumColTile \in Nat \ {0} /\ Cols \in Nat \ {0}
        /\ R \in Nat \ {0} /\ RowTiles = R * Rows
        /\ ColTiles = NumColTile * Cols /\ ColTiles \in Nat \ {0}
    BY ShapeFacts, ConstantFacts
  <1>2. q \in Nat /\ s \in 0..NumColTile - 1 /\ g = q * NumColTile + s
    BY <1>0, <1>1, DivFacts
  <1>3. r \in 0..Rows - 1 /\ c \in 0..Cols - 1
    BY DEF Row, Col
  <1>4. ATile(g, r) = q * Rows + r /\ BTile(g, c) = s * Cols + c
    BY DEF ATile, BTile
  <1>5. q < R <=> g < R * NumColTile
    BY <1>0, <1>1, DivLess
  <1> HIDE DEF q, s, R
  <1>7. s * Cols + c \in 0..ColTiles - 1
    <2>1. (s + 1) * Cols <= NumColTile * Cols
      BY <1>1, <1>2, MulMono
    <2>2. (s + 1) * Cols = s * Cols + Cols
      BY <1>1, <1>2
    <2>3. s * Cols \in Nat
      BY <1>1, <1>2, ProductIsNat
    <2> QED
      BY <1>1, <1>3, <2>1, <2>2, <2>3
  <1>8. ATile(g, r) \in 0..RowTiles - 1
    <2>1. q < R
      BY <1>0, <1>5 DEF NumGroups, R
    <2>2. (q + 1) * Rows <= R * Rows
      BY <1>1, <1>2, <2>1, MulMono
    <2>3. (q + 1) * Rows = q * Rows + Rows
      BY <1>1, <1>2
    <2>4. q * Rows \in Nat
      BY <1>1, <1>2, ProductIsNat
    <2> QED
      BY <1>1, <1>3, <1>4, <2>2, <2>3, <2>4
  <1>9. g * Cols + c = q * ColTiles + (s * Cols + c)
    <2>1. (q * NumColTile + s) * Cols = (q * NumColTile) * Cols + s * Cols
      BY <1>1, <1>2, ProductIsNat
    <2>2. (q * NumColTile) * Cols = q * (NumColTile * Cols)
      BY <1>1, <1>2
    <2>3. q * ColTiles \in Nat /\ s * Cols \in Nat
      BY <1>1, <1>2, ProductIsNat
    <2> QED
      BY <1>1, <1>2, <1>3, <2>1, <2>2, <2>3
  <1>10. /\ (g * Cols + c) \div ColTiles = q
         /\ (g * Cols + c) % ColTiles = s * Cols + c
    BY <1>1, <1>2, <1>7, <1>9, DivUnique, ProductIsNat
  <1> QED
    BY <1>4, <1>7, <1>8, <1>10 DEF CTile

\* The design is chosen once, and with it all that depends on it.
LEMMA Static ==
    ASSUME design' = design
    PROVE  /\ Row' = Row /\ Core' = Core
           /\ NumGroups' = NumGroups /\ Group' = Group
           /\ APerB' = APerB /\ APerGroup' = APerGroup
  BY DEF Rows, Row, Core, NumGroups, Group, APerB, APerGroup

LEMMA CoreFacts ==
    /\ \A x \in Core : x[1] \in Row /\ x[2] \in Col /\ x = <<x[1], x[2]>>
    /\ \A r \in Row, c \in Col : <<r, c>> \in Core
  BY DEF Core

-----------------------------------------------------------------------------
(* The runtime sequence.                                                    *)

LEMMA InitHost == Init => HostInv
  <1> SUFFICES ASSUME Init PROVE HostInv
    OBVIOUS
  <1>1. Design
    BY DEF Init, Design
  <1>2. NumGroups \in Nat
    BY <1>1, ShapeFacts
  <1>3. Kept = {}
    BY DEF Kept, Init
  <1> QED
    BY <1>2, <1>3 DEF HostInv, Init

LEMMA StartGroupHost == HostInv /\ StartGroup => HostInv'
  <1> SUFFICES ASSUME HostInv, StartGroup PROVE HostInv'
    OBVIOUS
  <1>1. Design /\ NumGroups \in Nat /\ NumGroups' = NumGroups
    BY ShapeFacts, Static DEF HostInv, Design, StartGroup
  <1>2. /\ group \in Nat /\ group < NumGroups /\ group' = group + 1
        /\ inputs = Kept /\ outputs = Kept
        /\ inputs' = outputs' /\ outputs' = Kept \cup {group}
        /\ draining' = Drains(group) /\ design' = design
        /\ host' = IF Drains(group) = {} THEN "start" ELSE "await"
    BY <1>1 DEF HostInv, StartGroup
  <1>3. CASE design = "v2"
    BY <1>1, <1>2, <1>3 DEF HostInv, Kept, Drains
  <1>4. CASE design = "4row"
    <2> DEFINE m == group % 4
    <2>1. m \in 0..3
      BY <1>2
    <2>2. Kept = {g \in Nat : group - 2 - (group % 2) <= g /\ g < group}
      BY <1>4 DEF Kept
    <2>3. Kept' = {g \in Nat : (group + 1) - 2 - ((group + 1) % 2) <= g
                                /\ g < group + 1}
      BY <1>2, <1>4 DEF Kept
    <2>4. CASE m \in {0, 2} \/ group = 1
      <3>1. Drains(group) = {}
        BY <1>2, <1>4, <2>4 DEF Drains, MaxGroups
      <3>2. Kept' = Kept \cup {group}
        BY <1>2, <2>2, <2>3, <2>4
      <3> QED
        BY <1>1, <1>2, <1>4, <3>1, <3>2 DEF HostInv
    <2>5. CASE m \in {1, 3} /\ group # 1
      <3>1. group >= 3 /\ (group + 1) % 2 = 0 /\ group % 2 = 1
        BY <1>2, <2>5
      <3>2. \A g \in Kept : g = group - 3 \/ g = group - 2 \/ g = group - 1
        BY <1>2, <2>2, <3>1
      <3>3. group - 3 \in Kept /\ group - 2 \in Kept
        BY <1>2, <2>2, <3>1
      <3>4. Drains(group) = {group - 3, group - 2}
        <4>1. CASE m = 1
          <5>1. Drains(group) = {g \in Kept : g % 4 \in {2, 3}}
            BY <1>2, <1>4, <2>5, <4>1 DEF Drains, MaxGroups, InList
          <5> QED
            BY <1>2, <3>2, <3>3, <4>1, <5>1
        <4>2. CASE m = 3
          <5>1. Drains(group) = {g \in Kept : g % 4 \in {0, 1}}
            BY <1>2, <1>4, <2>5, <4>2 DEF Drains, MaxGroups, InList
          <5> QED
            BY <1>2, <3>2, <3>3, <4>2, <5>1
        <4> QED
          BY <2>5, <4>1, <4>2
      <3>5. Kept \cup {group} = Kept' \cup {group - 3, group - 2}
        BY <1>2, <2>2, <2>3, <3>1
      <3> QED
        BY <1>1, <1>2, <1>4, <3>1, <3>4, <3>5 DEF HostInv
    <2> QED
      BY <2>1, <2>4, <2>5
  <1> QED
    BY <1>1, <1>3, <1>4 DEF Design

LEMMA AwaitGroupsHost == HostInv /\ AwaitGroups => HostInv'
  <1> SUFFICES ASSUME HostInv, AwaitGroups PROVE HostInv'
    OBVIOUS
  <1>1. NumGroups' = NumGroups /\ Kept' = Kept
    BY Static DEF AwaitGroups, Kept
  <1>2. Kept \cap draining = {}
    BY DEF HostInv, AwaitGroups, Kept
  <1> QED
    BY <1>1, <1>2 DEF HostInv, AwaitGroups

LEMMA AwaitRestHost == HostInv /\ AwaitRest => HostInv'
  <1> SUFFICES ASSUME HostInv, AwaitRest PROVE HostInv'
    OBVIOUS
  <1>1. NumGroups' = NumGroups
    BY Static DEF AwaitRest
  <1> QED
    BY <1>1 DEF HostInv, AwaitRest

LEMMA HostAlone == HostInv /\ UNCHANGED <<design, hostVars>> => HostInv'
  BY Static DEF HostInv, hostVars, Kept

\* What is in flight has been started.
LEMMA InFlight ==
    HostInv => \A g \in inputs \cup outputs : g \in Nat /\ g < group
  BY ShapeFacts DEF HostInv, Kept, Design

-----------------------------------------------------------------------------
(* The flow of objects.                                                     *)

LEMMA FlowFacts ==
    ASSUME Design, FlowType, NEW x \in Core
    PROVE  /\ x[1] \in Row /\ x[2] \in Col
           /\ aSent[x[1]] \in Nat /\ bSent[x[2]] \in Nat
           /\ cWritten[x[2]] \in Nat /\ GroupOf(x) \in Nat
           /\ aFifo[x] \in 0..Depth /\ bFifo[x] \in 0..Depth /\ Depth \in Nat
           /\ added[x] \in 0..APerGroup /\ added[x] \in Nat
           /\ added[x] \div APerB \in Nat
           /\ GroupOf(x) * APerGroup \in Nat /\ GroupOf(x) * KTiles \in Nat
  <1>1. x[1] \in Row /\ x[2] \in Col /\ Depth \in Nat
    BY CoreFacts, ConstantFacts
  <1>2. /\ APerB \in Nat \ {0} /\ KTiles \in Nat /\ APerGroup \in Nat
    BY PerFacts
  <1>3. cWritten[x[2]] \in Nat /\ GroupOf(x) \in Nat
    BY <1>1 DEF FlowType, GroupOf
  <1>4. added[x] \in 0..APerGroup /\ added[x] \in Nat
    BY <1>2 DEF FlowType
  <1>5. added[x] \div APerB \in Nat
    BY <1>2, <1>4, DivFacts
  <1>6. GroupOf(x) * APerGroup \in Nat /\ GroupOf(x) * KTiles \in Nat
    BY <1>2, <1>3, ProductIsNat
  <1> QED
    BY <1>1, <1>3, <1>4, <1>5, <1>6 DEF FlowType

LEMMA PaceAlone ==
    PaceInv /\ UNCHANGED <<design, hostVars, aSent, bSent, cWritten>> => PaceInv'
  BY Static DEF PaceInv, hostVars

LEMMA FlowAlone ==
    ASSUME FlowType, FlowInv,
           UNCHANGED <<design, aSent, bSent, cWritten, aFifo, bFifo, coreVars>>
    PROVE  FlowType' /\ FlowInv'
  BY Static DEF coreVars, FlowType, FlowInv, FlowAt, GroupOf

LEMMA SendAFlow ==
    ASSUME HostInv, FlowType, FlowInv, PaceInv, NEW r \in Row, SendA(r)
    PROVE  FlowType' /\ FlowInv' /\ PaceInv'
  <1>1. /\ Design /\ Row' = Row /\ Core' = Core /\ Group' = Group
        /\ APerB' = APerB /\ APerGroup' = APerGroup
    BY Static DEF HostInv, Design, SendA
  <1>2. APerGroup \in Nat \ {0} /\ aSent[r] \in Nat /\ group \in Nat
    BY <1>1, PerFacts, ShapeFacts DEF FlowType, HostInv
  <1>3. aSent[r] < group * APerGroup
    BY <1>2, InFlight, DivLess DEF SendA
  <1>4. /\ aFifo' = [x \in Core |-> IF x[1] = r THEN aFifo[x] + 1 ELSE aFifo[x]]
        /\ aSent' = [aSent EXCEPT ![r] = @ + 1]
        /\ \A c \in Col : aFifo[<<r, c>>] < Depth
        /\ UNCHANGED <<hostVars, bSent, cWritten, bFifo, cFifo, summing, added>>
    BY DEF SendA, coreVars
  <1>5. ASSUME NEW x \in Core
        PROVE  aFifo'[x] \in 0..Depth
    <2>1. aFifo[x] \in 0..Depth /\ Depth \in Nat
      BY <1>1, FlowFacts
    <2>2. x[1] = r => aFifo[x] < Depth
      BY <1>4, CoreFacts
    <2> QED
      BY <1>4, <2>1, <2>2
  <1>6. FlowType'
    <2>1. aFifo' \in [Core -> 0..Depth]
      BY <1>4, <1>5
    <2>2. aSent' \in [Row -> Nat]
      BY <1>2, <1>4 DEF FlowType
    <2> QED
      BY <1>1, <1>4, <2>1, <2>2 DEF FlowType
  <1>7. PaceInv'
    <2>1. \A u \in Row : aSent'[u] <= group * APerGroup
      BY <1>2, <1>3, <1>4 DEF PaceInv, FlowType
    <2> QED
      BY <1>1, <1>4, <2>1 DEF PaceInv, hostVars
  <1>8. FlowInv'
    <2> SUFFICES ASSUME NEW x \in Core PROVE FlowAt(x)'
      BY <1>1 DEF FlowInv
    <2>1. FlowAt(x) /\ GroupOf(x)' = GroupOf(x)
      BY <1>4 DEF FlowInv, GroupOf
    <2>2. aSent'[x[1]] = GroupOf(x) * APerGroup + added[x] + aFifo'[x]
      <3>1. /\ aSent[x[1]] \in Nat /\ aFifo[x] \in Nat /\ added[x] \in Nat
            /\ GroupOf(x) * APerGroup \in Nat /\ x[1] \in Row
        BY <1>1, FlowFacts
      <3>2. aSent[x[1]] = GroupOf(x) * APerGroup + added[x] + aFifo[x]
        BY <2>1 DEF FlowAt
      <3>3. /\ x[1] = r => aSent'[x[1]] = aSent[x[1]] + 1 /\ aFifo'[x] = aFifo[x] + 1
            /\ x[1] # r => aSent'[x[1]] = aSent[x[1]] /\ aFifo'[x] = aFifo[x]
        BY <1>4, <3>1 DEF FlowType
      <3> HIDE DEF GroupOf
      <3> QED
        BY <3>1, <3>2, <3>3
    <2> QED
      BY <1>1, <1>4, <2>1, <2>2 DEF FlowAt
  <1> QED
    BY <1>6, <1>7, <1>8

LEMMA SendBFlow ==
    ASSUME HostInv, FlowType, FlowInv, PaceInv, NEW c \in Col, SendB(c)
    PROVE  FlowType' /\ FlowInv' /\ PaceInv'
  <1>1. /\ Design /\ Row' = Row /\ Core' = Core /\ Group' = Group
        /\ APerB' = APerB /\ APerGroup' = APerGroup
    BY Static DEF HostInv, Design, SendB
  <1>2. KTiles \in Nat \ {0} /\ bSent[c] \in Nat /\ group \in Nat
    BY <1>1, PerFacts, ShapeFacts DEF FlowType, HostInv
  <1>3. bSent[c] < group * KTiles
    BY <1>2, InFlight, DivLess DEF SendB
  <1>4. /\ bFifo' = [x \in Core |-> IF x[2] = c THEN bFifo[x] + 1 ELSE bFifo[x]]
        /\ bSent' = [bSent EXCEPT ![c] = @ + 1]
        /\ \A r \in Row : bFifo[<<r, c>>] < Depth
        /\ UNCHANGED <<hostVars, aSent, cWritten, aFifo, cFifo, summing, added>>
    BY DEF SendB, coreVars
  <1>5. ASSUME NEW x \in Core
        PROVE  bFifo'[x] \in 0..Depth
    <2>1. bFifo[x] \in 0..Depth /\ Depth \in Nat
      BY <1>1, FlowFacts
    <2>2. x[2] = c => bFifo[x] < Depth
      BY <1>4, CoreFacts
    <2> QED
      BY <1>4, <2>1, <2>2
  <1>6. FlowType'
    <2>1. bFifo' \in [Core -> 0..Depth]
      BY <1>4, <1>5
    <2>2. bSent' \in [Col -> Nat]
      BY <1>2, <1>4 DEF FlowType
    <2> QED
      BY <1>1, <1>4, <2>1, <2>2 DEF FlowType
  <1>7. PaceInv'
    <2>1. \A u \in Col : bSent'[u] <= group * KTiles
      BY <1>2, <1>3, <1>4 DEF PaceInv, FlowType
    <2> QED
      BY <1>1, <1>4, <2>1 DEF PaceInv, hostVars
  <1>8. FlowInv'
    <2> SUFFICES ASSUME NEW x \in Core PROVE FlowAt(x)'
      BY <1>1 DEF FlowInv
    <2>1. FlowAt(x) /\ GroupOf(x)' = GroupOf(x)
      BY <1>4 DEF FlowInv, GroupOf
    <2>2. bSent'[x[2]] = GroupOf(x) * KTiles + (added[x] \div APerB) + bFifo'[x]
      <3>1. /\ bSent[x[2]] \in Nat /\ bFifo[x] \in Nat /\ added[x] \div APerB \in Nat
            /\ GroupOf(x) * KTiles \in Nat /\ x[2] \in Col
        BY <1>1, FlowFacts
      <3>2. bSent[x[2]] = GroupOf(x) * KTiles + (added[x] \div APerB) + bFifo[x]
        BY <2>1 DEF FlowAt
      <3>3. /\ x[2] = c => bSent'[x[2]] = bSent[x[2]] + 1 /\ bFifo'[x] = bFifo[x] + 1
            /\ x[2] # c => bSent'[x[2]] = bSent[x[2]] /\ bFifo'[x] = bFifo[x]
        BY <1>4, <3>1 DEF FlowType
      <3> HIDE DEF GroupOf
      <3> QED
        BY <3>1, <3>2, <3>3
    <2> QED
      BY <1>1, <1>4, <2>1, <2>2 DEF FlowAt
  <1> QED
    BY <1>6, <1>7, <1>8

LEMMA ZeroFlow ==
    ASSUME Design, FlowType, FlowInv, NEW y \in Core, Zero(y)
    PROVE  FlowType' /\ FlowInv'
  <1>1. /\ Row' = Row /\ Core' = Core /\ APerB' = APerB /\ APerGroup' = APerGroup
    BY Static DEF Zero
  <1>2. /\ summing' = [summing EXCEPT ![y] = TRUE] /\ ~ cFifo[y]
        /\ UNCHANGED <<aSent, bSent, cWritten, aFifo, bFifo, cFifo, added>>
    BY DEF Zero
  <1>3. FlowType'
    BY <1>1, <1>2 DEF FlowType
  <1>4. FlowInv'
    BY <1>1, <1>2 DEF FlowType, FlowInv, FlowAt, GroupOf
  <1> QED
    BY <1>3, <1>4

\* With one more object of A, one more of B is used up or none is.
LEMMA OneMore ==
    ASSUME NEW n \in Nat, NEW k \in {1, 4}
    PROVE  (n + 1) \div k = (n \div k) + (IF (n + 1) % k = 0 THEN 1 ELSE 0)
  <1>1. CASE k = 1
    BY <1>1
  <1>2. CASE k = 4
    BY <1>2
  <1> QED
    BY <1>1, <1>2

LEMMA MatmulFlow ==
    ASSUME Design, FlowType, FlowInv, NEW y \in Core, Matmul(y)
    PROVE  FlowType' /\ FlowInv'
  <1>1. /\ Row' = Row /\ Core' = Core /\ APerB' = APerB /\ APerGroup' = APerGroup
    BY Static DEF Matmul
  <1> DEFINE used == IF (added[y] + 1) % APerB = 0 THEN 1 ELSE 0
             q == added[y] \div APerB
             G == GroupOf(y) * APerGroup
             H == GroupOf(y) * KTiles
  <1>2. /\ added[y] \in Nat /\ added[y] < APerGroup /\ APerGroup \in Nat
        /\ aFifo[y] \in 0..Depth /\ aFifo[y] > 0
        /\ bFifo[y] \in 0..Depth /\ bFifo[y] > 0 /\ Depth \in Nat
        /\ aSent[y[1]] \in Nat /\ bSent[y[2]] \in Nat
        /\ G \in Nat /\ H \in Nat /\ q \in Nat
        /\ APerB \in {1, 4}
    BY FlowFacts, PerFacts DEF Matmul
  <1>3. /\ added' = [added EXCEPT ![y] = added[y] + 1]
        /\ aFifo' = [aFifo EXCEPT ![y] = aFifo[y] - 1]
        /\ bFifo' = IF (added[y] + 1) % APerB = 0
                    THEN [bFifo EXCEPT ![y] = bFifo[y] - 1] ELSE bFifo
        /\ UNCHANGED <<aSent, bSent, cWritten, cFifo, summing>> /\ summing[y]
    BY DEF Matmul
  <1>4. /\ added'[y] = added[y] + 1 /\ aFifo'[y] = aFifo[y] - 1
        /\ bFifo'[y] = bFifo[y] - used
        /\ \A x \in Core : x # y => /\ added'[x] = added[x] /\ aFifo'[x] = aFifo[x]
                                    /\ bFifo'[x] = bFifo[x]
    BY <1>2, <1>3 DEF FlowType
  <1>5. (added[y] + 1) \div APerB = q + used
    BY <1>2, OneMore
  <1>6. used \in {0, 1}
    OBVIOUS
  <1> HIDE DEF used, q, G, H
  <1>7. FlowType'
    <2>1. added[y] + 1 \in 0..APerGroup /\ aFifo[y] - 1 \in 0..Depth
      BY <1>2
    <2>2. bFifo[y] - 1 \in 0..Depth
      BY <1>2
    <2>3. added' \in [Core -> 0..APerGroup]
      BY <1>3, <2>1 DEF FlowType
    <2>4. aFifo' \in [Core -> 0..Depth]
      BY <1>3, <2>1 DEF FlowType
    <2>5. bFifo' \in [Core -> 0..Depth]
      BY <1>3, <2>2 DEF FlowType
    <2> QED
      BY <1>1, <1>3, <2>3, <2>4, <2>5 DEF FlowType
  <1>8. FlowAt(y)'
    <2>1. GroupOf(y)' = GroupOf(y)
      BY <1>3 DEF GroupOf
    <2>2. /\ aSent[y[1]] = G + added[y] + aFifo[y]
          /\ bSent[y[2]] = H + q + bFifo[y] /\ ~ cFifo[y]
      BY <1>3 DEF FlowInv, FlowAt, G, H, q
    <2>3. aSent[y[1]] = G + (added[y] + 1) + (aFifo[y] - 1)
      BY <1>2, <2>2
    <2>4. bSent[y[2]] = H + (q + used) + (bFifo[y] - used)
      BY <1>2, <1>6, <2>2
    <2>5. aSent'[y[1]] = GroupOf(y)' * APerGroup' + added'[y] + aFifo'[y]
      BY <1>1, <1>3, <1>4, <2>1, <2>3 DEF G
    <2>6. bSent'[y[2]] = GroupOf(y)' * KTiles + (added'[y] \div APerB') + bFifo'[y]
      BY <1>1, <1>3, <1>4, <1>5, <2>1, <2>4 DEF H
    <2> QED
      BY <1>3, <2>2, <2>5, <2>6 DEF FlowAt
  <1>9. FlowInv'
    <2> SUFFICES ASSUME NEW x \in Core, x # y PROVE FlowAt(x)'
      BY <1>1, <1>8 DEF FlowInv
    <2> QED
      BY <1>1, <1>3, <1>4 DEF FlowInv, FlowAt, GroupOf
  <1> QED
    BY <1>7, <1>9

LEMMA ReleaseCFlow ==
    ASSUME Design, FlowType, FlowInv, NEW y \in Core, ReleaseC(y)
    PROVE  FlowType' /\ FlowInv'
  <1>1. /\ Row' = Row /\ Core' = Core /\ APerB' = APerB /\ APerGroup' = APerGroup
    BY Static DEF ReleaseC
  <1>2. /\ summing' = [summing EXCEPT ![y] = FALSE]
        /\ cFifo' = [cFifo EXCEPT ![y] = TRUE]
        /\ added' = [added EXCEPT ![y] = 0]
        /\ summing[y] /\ added[y] = APerGroup
        /\ UNCHANGED <<aSent, bSent, cWritten, aFifo, bFifo>>
    BY DEF ReleaseC
  <1>3. /\ APerB \in {1, 4} /\ KTiles \in Nat \ {0} /\ APerGroup \in Nat \ {0}
        /\ APerGroup = APerB * KTiles
        /\ cWritten[y[2]] \in Nat /\ aFifo[y] \in Nat /\ bFifo[y] \in Nat
    BY FlowFacts, PerFacts
  <1>4. FlowType'
    BY <1>1, <1>2, <1>3 DEF FlowType
  <1>5. /\ ~ summing'[y] /\ cFifo'[y] /\ added'[y] = 0
        /\ \A x \in Core : x # y => /\ summing'[x] = summing[x]
                                    /\ cFifo'[x] = cFifo[x] /\ added'[x] = added[x]
    BY <1>2 DEF FlowType
  <1>6. ~ cFifo[y] /\ GroupOf(y) = cWritten[y[2]]
    BY <1>2, <1>3 DEF FlowInv, FlowAt, GroupOf
  <1> DEFINE g == cWritten[y[2]]
  <1>7. GroupOf(y)' = g + 1
    BY <1>2, <1>5 DEF GroupOf
  <1>8. added[y] \div APerB = KTiles /\ 0 \div APerB = 0
    BY <1>2, <1>3, DivUnique
  <1>9. /\ aSent[y[1]] = g * APerGroup + APerGroup + aFifo[y]
        /\ bSent[y[2]] = g * KTiles + KTiles + bFifo[y]
    BY <1>2, <1>6, <1>8 DEF FlowInv, FlowAt
  <1> HIDE DEF g
  <1>10. /\ (g + 1) * APerGroup = g * APerGroup + APerGroup
         /\ (g + 1) * KTiles = g * KTiles + KTiles
         /\ g * APerGroup \in Nat /\ g * KTiles \in Nat
    BY <1>3, ProductIsNat DEF g
  <1>11. FlowAt(y)'
    <2>1. aSent[y[1]] = (g + 1) * APerGroup + 0 + aFifo[y]
      BY <1>3, <1>9, <1>10
    <2>2. bSent[y[2]] = (g + 1) * KTiles + 0 + bFifo[y]
      BY <1>3, <1>9, <1>10
    <2>3. aSent'[y[1]] = GroupOf(y)' * APerGroup' + added'[y] + aFifo'[y]
      BY <1>1, <1>2, <1>5, <1>7, <2>1
    <2>4. bSent'[y[2]] = GroupOf(y)' * KTiles + (added'[y] \div APerB') + bFifo'[y]
      BY <1>1, <1>2, <1>5, <1>7, <1>8, <2>2
    <2> QED
      BY <1>5, <2>3, <2>4 DEF FlowAt
  <1>12. FlowInv'
    <2> SUFFICES ASSUME NEW x \in Core, x # y PROVE FlowAt(x)'
      BY <1>1, <1>11 DEF FlowInv
    <2> QED
      BY <1>1, <1>2, <1>5 DEF FlowInv, FlowAt, GroupOf
  <1> QED
    BY <1>4, <1>12

LEMMA WriteCFlow ==
    ASSUME HostInv, FlowType, FlowInv, PaceInv, NEW c \in Col, WriteC(c)
    PROVE  FlowType' /\ FlowInv' /\ PaceInv'
  <1> DEFINE g == cWritten[c]
  <1>1. /\ Design /\ Row' = Row /\ Core' = Core /\ Group' = Group
        /\ APerB' = APerB /\ APerGroup' = APerGroup
    BY Static DEF HostInv, Design, WriteC
  <1>2. /\ cFifo' = [x \in Core |-> cFifo[x] /\ x[2] # c]
        /\ cWritten' = [cWritten EXCEPT ![c] = g + 1]
        /\ g \in outputs
        /\ \A r \in Row : cFifo[<<r, c>>]
        /\ UNCHANGED <<design, hostVars, aSent, bSent, aFifo, bFifo, summing, added>>
    BY DEF WriteC
  <1>3. g \in Nat /\ g < group /\ group \in Nat
    <2>1. g \in Nat /\ g < group
      BY <1>2, InFlight
    <2>2. NumGroups \in Nat /\ group \in 0..NumGroups
      BY <1>1, ShapeFacts DEF HostInv
    <2> QED
      BY <2>1, <2>2
  <1>4. FlowType'
    <2>1. cFifo' \in [Core -> BOOLEAN]
      BY <1>2
    <2>2. cWritten' \in [Col -> Nat]
      BY <1>2, <1>3 DEF FlowType
    <2> QED
      BY <1>1, <1>2, <2>1, <2>2 DEF FlowType
  <1>5. ASSUME NEW x \in Core, x[2] = c
        PROVE  cFifo[x] /\ ~ summing[x]
    <2>1. x[1] \in Row /\ x = <<x[1], x[2]>>
      BY CoreFacts
    <2> QED
      BY <1>2, <1>5, <2>1 DEF FlowInv, FlowAt
  <1>6. ASSUME NEW x \in Core
        PROVE  /\ x[2] = c => cWritten'[x[2]] = g + 1 /\ ~ cFifo'[x]
               /\ x[2] # c => cWritten'[x[2]] = cWritten[x[2]] /\ cFifo'[x] = cFifo[x]
    BY <1>2, CoreFacts DEF FlowType
  <1>7. ASSUME NEW x \in Core PROVE GroupOf(x)' = GroupOf(x)
    <2>1. CASE x[2] = c
      BY <1>3, <1>5, <1>6, <2>1 DEF GroupOf
    <2>2. CASE x[2] # c
      BY <1>6, <2>2 DEF GroupOf
    <2> QED
      BY <2>1, <2>2
  <1>8. FlowInv'
    <2> SUFFICES ASSUME NEW x \in Core PROVE FlowAt(x)'
      BY <1>1 DEF FlowInv
    <2>1. FlowAt(x) /\ (summing[x] => ~ cFifo'[x])
      BY <1>2, <1>5, <1>6 DEF FlowInv, FlowAt
    <2> QED
      BY <1>1, <1>2, <1>7, <2>1 DEF FlowAt
  <1>9. PaceInv'
    <2>1. /\ cWritten'[c] = g + 1
          /\ \A d \in Col : d # c => cWritten'[d] = cWritten[d]
      BY <1>2 DEF FlowType
    <2>2. group' = group /\ outputs' = outputs /\ aSent' = aSent /\ bSent' = bSent
      BY <1>2 DEF hostVars
    <2>3. \A d \in Col : cWritten[d] \in Nat
      BY DEF FlowType
    <2>4. \A d \in Col : cWritten'[d] <= group
      BY <1>3, <2>1 DEF PaceInv
    <2>5. ASSUME NEW h \in Group, h < group, h \notin outputs, NEW d \in Col
          PROVE  cWritten'[d] > h
      BY <1>3, <2>1, <2>3, <2>5 DEF PaceInv, Group
    <2> QED
      BY <1>1, <2>2, <2>4, <2>5 DEF PaceInv
  <1> QED
    BY <1>4, <1>8, <1>9

-----------------------------------------------------------------------------
(* The sequence and the flow.                                               *)

LEMMA GroupFacts ==
    HostInv => /\ Design /\ NumGroups \in Nat /\ group \in 0..NumGroups
  BY ShapeFacts DEF HostInv, Design

LEMMA StartGroupPace ==
    ASSUME HostInv, FlowType, PaceInv, StartGroup PROVE PaceInv'
  <1>1. /\ group \in Nat /\ KTiles \in Nat /\ APerGroup \in Nat
        /\ group' = group + 1 /\ APerGroup' = APerGroup
        /\ Row' = Row /\ Group' = Group /\ outputs' = outputs \cup {group}
        /\ UNCHANGED <<aSent, bSent, cWritten>>
    BY GroupFacts, PerFacts, Static DEF StartGroup
  <1>2. /\ group * KTiles <= (group + 1) * KTiles
        /\ group * KTiles \in Nat /\ (group + 1) * KTiles \in Nat
    BY <1>1, MulMono
  <1>3. /\ group * APerGroup <= (group + 1) * APerGroup
        /\ group * APerGroup \in Nat /\ (group + 1) * APerGroup \in Nat
    BY <1>1, MulMono
  <1>4. \A r \in Row : aSent'[r] <= group' * APerGroup'
    BY <1>1, <1>3 DEF PaceInv, FlowType
  <1>5. \A c \in Col : bSent'[c] <= group' * KTiles
    BY <1>1, <1>2 DEF PaceInv, FlowType
  <1>6. \A c \in Col : cWritten'[c] <= group'
    BY <1>1 DEF PaceInv, FlowType
  <1>7. \A g \in Group : g < group' /\ g \notin outputs' =>
            \A c \in Col : cWritten'[c] > g
    BY <1>1 DEF PaceInv, Group
  <1> QED
    BY <1>1, <1>4, <1>5, <1>6, <1>7 DEF PaceInv

LEMMA AwaitGroupsPace ==
    ASSUME HostInv, PaceInv, AwaitGroups PROVE PaceInv'
  BY Static DEF PaceInv, AwaitGroups, Written

LEMMA AwaitRestPace ==
    ASSUME HostInv, PaceInv, AwaitRest PROVE PaceInv'
  BY Static DEF PaceInv, AwaitRest, Written

LEMMA InitIInv == Init => IInv
  <1> SUFFICES ASSUME Init PROVE IInv
    OBVIOUS
  <1>1. HostInv /\ Design /\ NumGroups \in Nat
    BY InitHost, GroupFacts
  <1>2. APerB \in {1, 4} /\ APerGroup \in Nat /\ KTiles \in Nat /\ Depth \in Nat
    BY <1>1, PerFacts, ConstantFacts
  <1>3. FlowType
    BY <1>2 DEF Init, FlowType
  <1>4. FlowInv
    <2> SUFFICES ASSUME NEW x \in Core PROVE FlowAt(x)
      BY DEF FlowInv
    <2>1. /\ aFifo[x] = 0 /\ bFifo[x] = 0 /\ ~ cFifo[x] /\ ~ summing[x]
          /\ added[x] = 0 /\ cWritten[x[2]] = 0 /\ aSent[x[1]] = 0 /\ bSent[x[2]] = 0
      BY CoreFacts DEF Init
    <2>2. GroupOf(x) = 0 /\ 0 \div APerB = 0
      BY <1>2, <2>1 DEF GroupOf
    <2> QED
      BY <1>2, <2>1, <2>2 DEF FlowAt
  <1>5. PaceInv
    BY <1>1, <1>2 DEF Init, PaceInv, Group
  <1> QED
    BY <1>1, <1>3, <1>4, <1>5 DEF IInv

LEMMA NextIInv == IInv /\ [Next]_vars => IInv'
  <1> SUFFICES ASSUME IInv, [Next]_vars PROVE IInv'
    OBVIOUS
  <1>1. HostInv /\ FlowType /\ FlowInv /\ PaceInv /\ Design
    BY GroupFacts DEF IInv
  <1>2. CASE StartGroup
    BY <1>1, <1>2, StartGroupHost, StartGroupPace, FlowAlone DEF IInv, StartGroup
  <1>3. CASE AwaitGroups
    BY <1>1, <1>3, AwaitGroupsHost, AwaitGroupsPace, FlowAlone DEF IInv, AwaitGroups
  <1>4. CASE AwaitRest
    BY <1>1, <1>4, AwaitRestHost, AwaitRestPace, FlowAlone DEF IInv, AwaitRest
  <1>5. ASSUME NEW r \in Row, SendA(r) PROVE IInv'
    BY <1>1, <1>5, SendAFlow, HostAlone DEF IInv, SendA
  <1>6. ASSUME NEW c \in Col, SendB(c) PROVE IInv'
    BY <1>1, <1>6, SendBFlow, HostAlone DEF IInv, SendB
  <1>7. ASSUME NEW c \in Col, WriteC(c) PROVE IInv'
    BY <1>1, <1>7, WriteCFlow, HostAlone DEF IInv, WriteC
  <1>8. ASSUME NEW x \in Core, Zero(x) PROVE IInv'
    BY <1>1, <1>8, ZeroFlow, HostAlone, PaceAlone DEF IInv, Zero
  <1>9. ASSUME NEW x \in Core, Matmul(x) PROVE IInv'
    BY <1>1, <1>9, MatmulFlow, HostAlone, PaceAlone DEF IInv, Matmul
  <1>10. ASSUME NEW x \in Core, ReleaseC(x) PROVE IInv'
    BY <1>1, <1>10, ReleaseCFlow, HostAlone, PaceAlone DEF IInv, ReleaseC
  <1>11. CASE UNCHANGED vars
    BY <1>1, <1>11, HostAlone, FlowAlone, PaceAlone DEF IInv, vars
  <1> QED
    BY <1>2, <1>3, <1>4, <1>5, <1>6, <1>7, <1>8, <1>9, <1>10, <1>11 DEF Next

LEMMA Invariance == Spec => []IInv
  BY InitIInv, NextIInv, PTL DEF Spec

-----------------------------------------------------------------------------
(* What follows.                                                            *)

LEMMA TypeOKHolds == IInv => TypeOK
  <1> SUFFICES ASSUME IInv PROVE TypeOK
    OBVIOUS
  <1>1. /\ HostInv /\ Design /\ FlowType /\ PaceInv
        /\ NumGroups \in Nat /\ group \in 0..NumGroups
        /\ KTiles \in Nat /\ APerGroup \in Nat
    BY GroupFacts, PerFacts DEF IInv
  <1>2. inputs \subseteq Group /\ outputs \subseteq Group
    BY <1>1, InFlight DEF Group
  <1>3. draining \subseteq outputs
    BY <1>1 DEF HostInv
  <1>4. /\ group * KTiles <= NumGroups * KTiles
        /\ group * KTiles \in Nat /\ NumGroups * KTiles \in Nat
    BY <1>1, MulMono
  <1>5. /\ group * APerGroup <= NumGroups * APerGroup
        /\ group * APerGroup \in Nat /\ NumGroups * APerGroup \in Nat
    BY <1>1, MulMono
  <1>6. aSent \in [Row -> 0..(NumGroups * APerGroup)]
    <2>1. ASSUME NEW r \in Row PROVE aSent[r] \in 0..(NumGroups * APerGroup)
      <3>1. aSent[r] \in Nat /\ aSent[r] <= group * APerGroup
        BY <1>1 DEF FlowType, PaceInv
      <3> QED
        BY <1>5, <3>1
    <2> QED
      BY <1>1, <2>1 DEF FlowType
  <1>7. bSent \in [Col -> 0..(NumGroups * KTiles)]
    <2>1. ASSUME NEW c \in Col PROVE bSent[c] \in 0..(NumGroups * KTiles)
      <3>1. bSent[c] \in Nat /\ bSent[c] <= group * KTiles
        BY <1>1 DEF FlowType, PaceInv
      <3> QED
        BY <1>4, <3>1
    <2> QED
      BY <1>1, <2>1 DEF FlowType
  <1>8. cWritten \in [Col -> 0..NumGroups]
    BY <1>1 DEF FlowType, PaceInv
  <1> QED
    BY <1>1, <1>2, <1>3, <1>6, <1>7, <1>8 DEF TypeOK, HostInv, FlowType

\* For any grid, shapes and depth: the counters stay within the groups there are
\* and no object FIFO holds more than its depth (the object FIFOs that both
\* generators lay out before the runtime sequence).
THEOREM TypeCorrect == Spec => []TypeOK
  BY Invariance, TypeOKHolds, PTL

\* Whatever the order in which channels and cores go on, a core sums in a tile of
\* C what was sent for the group at whose tap that tile is written, all of it and
\* nothing else (the core loop, four objects of A for one of B, and the C taps).
THEOREM TilesAreOfTheirGroups == Spec => []TileIsOfItsGroup
  <1>1. IInv => TileIsOfItsGroup
    <2> SUFFICES ASSUME IInv, NEW x \in Core
                 PROVE  LET g == cWritten[x[2]] IN
                        /\ cFifo[x] => /\ TakenA(x) = (g + 1) * APerGroup
                                       /\ TakenB(x) = (g + 1) * KTiles
                        /\ ~ cFifo[x] => /\ TakenA(x) = g * APerGroup + added[x]
                                         /\ TakenB(x) = g * KTiles
                                                          + (added[x] \div APerB)
      BY DEF TileIsOfItsGroup
    <2>1. Design /\ FlowType /\ FlowAt(x)
      BY GroupFacts DEF IInv, FlowInv
    <2>2. /\ aFifo[x] \in Nat /\ bFifo[x] \in Nat /\ added[x] \in Nat
          /\ added[x] \div APerB \in Nat
          /\ GroupOf(x) * APerGroup \in Nat /\ GroupOf(x) * KTiles \in Nat
          /\ cWritten[x[2]] \in Nat /\ APerB \in {1, 4}
      BY <2>1, FlowFacts, PerFacts
    <2>3. /\ TakenA(x) = GroupOf(x) * APerGroup + added[x]
          /\ TakenB(x) = GroupOf(x) * KTiles + (added[x] \div APerB)
      BY <2>1, <2>2 DEF TakenA, TakenB, FlowAt
    <2>4. CASE cFifo[x]
      <3>1. GroupOf(x) = cWritten[x[2]] + 1 /\ added[x] = 0 /\ 0 \div APerB = 0
        BY <2>1, <2>2, <2>4 DEF FlowAt, GroupOf
      <3>2. TakenA(x) = GroupOf(x) * APerGroup /\ TakenB(x) = GroupOf(x) * KTiles
        BY <2>2, <2>3, <3>1
      <3> QED
        BY <2>4, <3>1, <3>2
    <2>5. CASE ~ cFifo[x]
      <3>1. GroupOf(x) = cWritten[x[2]]
        BY <2>2, <2>5 DEF GroupOf
      <3> QED
        BY <2>3, <2>5, <3>1
    <2> QED
      BY <2>4, <2>5
  <1> QED
    BY <1>1, Invariance, PTL

\* An awaited tile of C proves that the tasks of A and B of its group, which issue
\* no token, have been read to the end when dma_free_task frees them.
THEOREM FreedIsRead == Spec => []FreedTasksAreRead
  <1>1. IInv => FreedTasksAreRead
    <2> SUFFICES ASSUME IInv, NEW g \in Group, g < group, g \notin inputs
                 PROVE  /\ \A r \in Row : aSent[r] >= (g + 1) * APerGroup
                        /\ \A c \in Col : bSent[c] >= (g + 1) * KTiles
      BY DEF FreedTasksAreRead
    <2>1. /\ Design /\ FlowType /\ g \in Nat /\ KTiles \in Nat /\ APerGroup \in Nat
          /\ \A c \in Col : cWritten[c] > g
      BY GroupFacts, PerFacts DEF IInv, HostInv, PaceInv, Group
    <2>2. ASSUME NEW x \in Core
          PROVE  /\ aSent[x[1]] >= (g + 1) * APerGroup
                 /\ bSent[x[2]] >= (g + 1) * KTiles
      <3>1. /\ GroupOf(x) \in Nat /\ added[x] \in Nat /\ cWritten[x[2]] \in Nat
            /\ aFifo[x] \in Nat /\ bFifo[x] \in Nat /\ x[2] \in Col
            /\ added[x] \div APerB \in Nat
        BY <2>1, FlowFacts
      <3>2. g + 1 <= GroupOf(x) /\ g + 1 \in Nat
        BY <2>1, <3>1 DEF GroupOf
      <3>3. /\ (g + 1) * KTiles <= GroupOf(x) * KTiles
            /\ (g + 1) * KTiles \in Nat /\ GroupOf(x) * KTiles \in Nat
        BY <2>1, <3>1, <3>2, MulMono
      <3>4. /\ (g + 1) * APerGroup <= GroupOf(x) * APerGroup
            /\ (g + 1) * APerGroup \in Nat /\ GroupOf(x) * APerGroup \in Nat
        BY <2>1, <3>1, <3>2, MulMono
      <3>5. /\ aSent[x[1]] = GroupOf(x) * APerGroup + added[x] + aFifo[x]
            /\ bSent[x[2]] = GroupOf(x) * KTiles + (added[x] \div APerB) + bFifo[x]
        BY DEF IInv, FlowInv, FlowAt
      <3>6. aSent[x[1]] >= (g + 1) * APerGroup
        BY <3>1, <3>4, <3>5
      <3>7. bSent[x[2]] >= (g + 1) * KTiles
        BY <3>1, <3>3, <3>5
      <3> QED
        BY <3>6, <3>7
    <2>3. 0 \in Row /\ 0 \in Col
      BY <2>1, ShapeFacts, ConstantFacts DEF Row, Col
    <2>4. ASSUME NEW r \in Row PROVE aSent[r] >= (g + 1) * APerGroup
      <3>1. <<r, 0>> \in Core
        BY <2>3, CoreFacts
      <3> QED
        BY <2>2, <3>1
    <2>5. ASSUME NEW c \in Col PROVE bSent[c] >= (g + 1) * KTiles
      <3>1. <<0, c>> \in Core
        BY <2>3, CoreFacts
      <3> QED
        BY <2>2, <3>1
    <2> QED
      BY <2>4, <2>5
  <1> QED
    BY <1>1, Invariance, PTL

\* However many groups there are, no more than tb_max_n_rows of them are in flight
\* (the lists that 4row drains when it is about to fill them again).
THEOREM FewGroupsInFlight == Spec => []GroupsInFlight
  <1>1. IInv => GroupsInFlight
    <2> SUFFICES ASSUME IInv PROVE Cardinality(outputs) <= 4
      BY DEF GroupsInFlight, MaxGroups, IInv, HostInv
    <2> DEFINE W == (group - 4)..(group - 1)
    <2>1. group \in Nat
      BY GroupFacts DEF IInv
    <2>2. outputs \subseteq W
      BY <2>1 DEF IInv, HostInv, Kept
    <2>3. IsFiniteSet(W) /\ Cardinality(W) = 4
      BY <2>1, FS_Interval
    <2>4. Cardinality(outputs) <= Cardinality(W)
      BY <2>2, <2>3, FS_Subset
    <2> QED
      BY <2>3, <2>4
  <1> QED
    BY <1>1, Invariance, PTL
=============================================================================
