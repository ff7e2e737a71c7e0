------------------------------ MODULE AieGemm ------------------------------
(***************************************************************************)
(* The INT8 matrix product that n1_core_i8_v2.py and n1_core_i8_4row.py    *)
(* lay out on the NPU: the runtime sequence starts DMA tasks group by      *)
(* group, the shim moves A and B into object FIFOs, the cores multiply for *)
(* ever, and the shim writes the tiles of C back.  C is RowTiles x         *)
(* ColTiles tiles, each the sum of KTiles products.                        *)
(*                                                                         *)
(* What is modelled is who waits for whom, so an L1 object is only         *)
(* counted.  Which rows and which part of K an object holds is decided by  *)
(* the dimensions of A_l2l1 and by mlir-aie, which this module leaves out: *)
(* nothing here says that the product is right.                            *)
(***************************************************************************)
EXTENDS Integers, FiniteSets

CONSTANTS AieRows,     \* rows of cores of the 4row design (4 in the code)
          Cols,        \* columns of cores (8)
          RowTiles,    \* M // m
          ColTiles,    \* N // n
          KTiles,      \* K // k
          Depth        \* L1 objects an object FIFO holds (2)

\* The shapes the generators are for: the taps cover A, B and C exactly.
ASSUME ShapesDivide ==
    /\ {AieRows, Cols, RowTiles, ColTiles, KTiles, Depth} \subseteq Nat \ {0}
    /\ RowTiles % AieRows = 0
    /\ ColTiles % Cols = 0

VARIABLES
    design,    \* the generator: "v2" or "4row"
    host,      \* the runtime sequence: "start", "await" or "done"
    group,     \* group_idx
    inputs,    \* groups whose A and B tasks are started and not freed
    outputs,   \* groups whose C tasks are started and not awaited
    draining,  \* what the sequence is awaiting
    aSent,     \* objects each row's A channel has sent to its cores
    bSent,     \* objects each column's B channel has sent to its cores
    cWritten,  \* groups whose tile of C each column's channel has written
    aFifo, bFifo,  \* objects in A_l2l1 and B_l2l1, as each core sees them
    cFifo,     \* whether C_l1l2 holds a tile that the core has released
    summing,   \* whether a core has acquired a tile of C
    added      \* the calls of matmul it has made for that tile

hostVars == <<host, group, inputs, outputs, draining>>
coreVars == <<cFifo, summing, added>>
vars == <<design, hostVars, aSent, bSent, cWritten, aFifo, bFifo, coreVars>>

\* n_aie_rows and the cores: <<row, col>>, numbered from 0.
Rows == IF design = "v2" THEN 1 ELSE AieRows
Row  == 0..(Rows - 1)
Col  == 0..(Cols - 1)
Core == Row \X Col

\* num_col_tile and num_groups.
NumColTile == ColTiles \div Cols
NumGroups  == (RowTiles \div Rows) * NumColTile
Group      == 0..(NumGroups - 1)

\* Objects of A that a core acquires for each object of B: v2 the whole of m x k,
\* 4row its quarters one after the other.
APerB == IF design = "v2" THEN 1 ELSE 4

\* Objects of A that a group's tap yields: K // mtk L2 tiles, each holding
\* mtk // k times what a core acquires for one object of B.  In 4row the dimensions
\* of A_l2l1 walk the L2 tile whole; in v2 they walk m x k of it, and that mlir-aie
\* goes on with the rest of the tile is assumed.
APerGroup == APerB * KTiles

\* tb_max_n_rows: the 4row design keeps its tasks in as many lists.
MaxGroups == 4
InList(lists) == {g \in outputs : g % MaxGroups \in lists}

\* The row of tiles of A, the column of tiles of B and the tile of C that a
\* group's taps name.
ATile(g, row) == (g \div NumColTile) * Rows + row

BTile(g, col) == (g % NumColTile) * Cols + col

CTile(g, row, col) ==
    LET tap == g * Cols + col
    IN  <<(tap \div ColTiles) * Rows + row, tap % ColTiles>>

Init ==
    /\ design \in {"v2", "4row"}
    /\ host = "start"
    /\ group = 0
    /\ inputs = {} /\ outputs = {} /\ draining = {}
    /\ aSent = [r \in Row |-> 0]
    /\ bSent = [c \in Col |-> 0]
    /\ cWritten = [c \in Col |-> 0]
    /\ aFifo = [x \in Core |-> 0]
    /\ bFifo = [x \in Core |-> 0]
    /\ cFifo = [x \in Core |-> FALSE]
    /\ summing = [x \in Core |-> FALSE]
    /\ added = [x \in Core |-> 0]

-----------------------------------------------------------------------------
(* The runtime sequence.                                                    *)

\* BUG: the lists 0 and 1 are not drained when 3 is filled.
DrainsOnce(g) ==
    CASE design = "v2" -> {g}
      [] design = "4row" /\ g % MaxGroups = 1 /\ g # 1 -> InList({2, 3})
      [] OTHER -> {}

\* BUG: v2 awaits the group that it has not started yet.
DrainsNextGroup(g) ==
    CASE design = "v2" -> {g + 1}
      [] design = "4row" /\ g % MaxGroups = 1 /\ g # 1 -> InList({2, 3})
      [] design = "4row" /\ g % MaxGroups = 3 -> InList({0, 1})
      [] OTHER -> {}

\* The groups awaited once the tasks of group g have been started: v2 awaits
\* each group at once, 4row the two lists it is about to fill again.
Drains(g) ==
    CASE design = "v2" -> {g}
      [] design = "4row" /\ g % MaxGroups = 1 /\ g # 1 -> InList({2, 3})
      [] design = "4row" /\ g % MaxGroups = 3 -> InList({0, 1})
      [] OTHER -> {}

StartGroup ==
    /\ host = "start"
    /\ group < NumGroups
    /\ inputs' = inputs \cup {group}
    /\ outputs' = outputs \cup {group}
    /\ draining' = Drains(group)
    /\ host' = IF Drains(group) = {} THEN "start" ELSE "await"
    /\ group' = group + 1
    /\ UNCHANGED <<design, aSent, bSent, cWritten, aFifo, bFifo, coreVars>>

\* dma_await_task: every column has written its tile of C for these groups.
Written(groups) == \A g \in groups, c \in Col : cWritten[c] > g

\* BUG: all input tasks are freed, those of groups in progress too.
AwaitGroupsFreeAll ==
    /\ host = "await"
    /\ Written(draining)
    /\ outputs' = outputs \ draining
    /\ inputs' = {}
    /\ draining' = {}
    /\ host' = "start"
    /\ UNCHANGED <<design, group, aSent, bSent, cWritten, aFifo, bFifo,
                   coreVars>>

AwaitGroups ==
    /\ host = "await"
    /\ Written(draining)
    /\ outputs' = outputs \ draining
    /\ inputs' = inputs \ draining
    /\ draining' = {}
    /\ host' = "start"
    /\ UNCHANGED <<design, group, aSent, bSent, cWritten, aFifo, bFifo,
                   coreVars>>

\* The last groups; v2 has none left.
AwaitRest ==
    /\ host = "start"
    /\ group = NumGroups
    /\ Written(outputs)
    /\ outputs' = {}
    /\ inputs' = {}
    /\ host' = "done"
    /\ UNCHANGED <<design, group, draining, aSent, bSent, cWritten, aFifo,
                   bFifo, coreVars>>

-----------------------------------------------------------------------------
(* The channels.  Each runs its tasks in the order they were started.  A     *)
(* channel and the memory tile behind it are taken together: what is sent is *)
(* in the FIFOs of the cores, and the shim has read at least that much.      *)

\* BUG: the channel does not wait for a free place in the FIFO.
SendAOverrun(r) ==
    /\ aSent[r] \div APerGroup \in inputs
    /\ aFifo' = [x \in Core |-> IF x[1] = r THEN aFifo[x] + 1 ELSE aFifo[x]]
    /\ aSent' = [aSent EXCEPT ![r] = @ + 1]
    /\ UNCHANGED <<design, hostVars, bSent, cWritten, bFifo, coreVars>>

\* An object of A goes to every column of its row.
SendA(r) ==
    /\ aSent[r] \div APerGroup \in inputs
    /\ \A c \in Col : aFifo[<<r, c>>] < Depth
    /\ aFifo' = [x \in Core |-> IF x[1] = r THEN aFifo[x] + 1 ELSE aFifo[x]]
    /\ aSent' = [aSent EXCEPT ![r] = @ + 1]
    /\ UNCHANGED <<design, hostVars, bSent, cWritten, bFifo, coreVars>>

\* An object of B goes to every row of its column.
SendB(c) ==
    /\ bSent[c] \div KTiles \in inputs
    /\ \A r \in Row : bFifo[<<r, c>>] < Depth
    /\ bFifo' = [x \in Core |-> IF x[2] = c THEN bFifo[x] + 1 ELSE bFifo[x]]
    /\ bSent' = [bSent EXCEPT ![c] = @ + 1]
    /\ UNCHANGED <<design, hostVars, aSent, cWritten, aFifo, coreVars>>

\* The tiles of a column's cores are joined and written at the tap of the group.
WriteC(c) ==
    /\ cWritten[c] \in outputs
    /\ \A r \in Row : cFifo[<<r, c>>]
    /\ cFifo' = [x \in Core |-> cFifo[x] /\ x[2] # c]
    /\ cWritten' = [cWritten EXCEPT ![c] = @ + 1]
    /\ UNCHANGED <<design, hostVars, aSent, bSent, aFifo, bFifo, summing, added>>

-----------------------------------------------------------------------------
(* A core: acquire C, zero it, KTiles times acquire B, multiply it by each   *)
(* of the APerB objects of A and release it, release C; for ever.  What a    *)
(* core has acquired keeps its place in the FIFO until it is released.       *)

Zero(x) ==
    /\ ~ summing[x]
    /\ ~ cFifo[x]
    /\ summing' = [summing EXCEPT ![x] = TRUE]
    /\ UNCHANGED <<design, hostVars, aSent, bSent, cWritten, aFifo, bFifo,
                   cFifo, added>>

\* BUG: an object of B is released after each object of A.
MatmulReleasesB(x) ==
    /\ summing[x]
    /\ added[x] < APerGroup
    /\ aFifo[x] > 0
    /\ bFifo[x] > 0
    /\ added' = [added EXCEPT ![x] = @ + 1]
    /\ aFifo' = [aFifo EXCEPT ![x] = @ - 1]
    /\ bFifo' = [bFifo EXCEPT ![x] = @ - 1]
    /\ UNCHANGED <<design, hostVars, aSent, bSent, cWritten, cFifo, summing>>

\* An object of A is acquired, multiplied by the object of B that the core holds
\* and released; with the last one for this object of B, that is released too.
Matmul(x) ==
    /\ summing[x]
    /\ added[x] < APerGroup
    /\ aFifo[x] > 0
    /\ bFifo[x] > 0
    /\ added' = [added EXCEPT ![x] = @ + 1]
    /\ aFifo' = [aFifo EXCEPT ![x] = @ - 1]
    /\ bFifo' = IF (added[x] + 1) % APerB = 0
                THEN [bFifo EXCEPT ![x] = @ - 1] ELSE bFifo
    /\ UNCHANGED <<design, hostVars, aSent, bSent, cWritten, cFifo, summing>>

ReleaseC(x) ==
    /\ summing[x]
    /\ added[x] = APerGroup
    /\ cFifo' = [cFifo EXCEPT ![x] = TRUE]
    /\ summing' = [summing EXCEPT ![x] = FALSE]
    /\ added' = [added EXCEPT ![x] = 0]
    /\ UNCHANGED <<design, hostVars, aSent, bSent, cWritten, aFifo, bFifo>>

Next ==
    \/ StartGroup \/ AwaitGroups \/ AwaitRest
    \/ \E r \in Row : SendA(r)
    \/ \E c \in Col : SendB(c) \/ WriteC(c)
    \/ \E x \in Core : Zero(x) \/ Matmul(x) \/ ReleaseC(x)

\* The hardware and the sequence go on as long as any of them can.
Spec == Init /\ [][Next]_vars /\ WF_vars(Next)

-----------------------------------------------------------------------------
(* Properties.                                                              *)

\* The types of the variables; an object FIFO never holds more than its depth.
TypeOK ==
    /\ design \in {"v2", "4row"}
    /\ host \in {"start", "await", "done"}
    /\ group \in 0..NumGroups
    /\ inputs \subseteq Group /\ outputs \subseteq Group
    /\ draining \subseteq outputs
    /\ aSent \in [Row -> 0..(NumGroups * APerGroup)]
    /\ bSent \in [Col -> 0..(NumGroups * KTiles)]
    /\ cWritten \in [Col -> 0..NumGroups]
    /\ aFifo \in [Core -> 0..Depth]
    /\ bFifo \in [Core -> 0..Depth]
    /\ cFifo \in [Core -> BOOLEAN]
    /\ summing \in [Core -> BOOLEAN]
    /\ added \in [Core -> 0..APerGroup]

\* The objects of A and of B that a core has released.
TakenA(x) == aSent[x[1]] - aFifo[x]
TakenB(x) == bSent[x[2]] - bFifo[x]

\* The tile of C that a core releases next is written at the tap of its column's
\* next group, and the objects summed in it are those the shim sent for that very
\* group, as many of each as its taps yield: although the channels run ahead of
\* the cores and of each other, and no core is told which group it works on
\* (4row, lines 104-115).
TileIsOfItsGroup ==
    \A x \in Core :
        LET g == cWritten[x[2]] IN
        /\ cFifo[x] => /\ TakenA(x) = (g + 1) * APerGroup
                       /\ TakenB(x) = (g + 1) * KTiles
        /\ ~ cFifo[x] => /\ TakenA(x) = g * APerGroup + added[x]
                         /\ TakenB(x) = g * KTiles + (added[x] \div APerB)

\* dma_free_task never frees an input task whose data has not all been read,
\* although only output tasks issue tokens (issue_token=False, lines 128, 135).
FreedTasksAreRead ==
    \A g \in Group : g < group /\ g \notin inputs =>
        /\ \A r \in Row : aSent[r] >= (g + 1) * APerGroup
        /\ \A c \in Col : bSent[c] >= (g + 1) * KTiles

\* No more than tb_max_n_rows groups are in flight, so a list of tasks is empty
\* whenever the sequence comes round to it (4row, lines 130-163).
GroupsInFlight == Cardinality(inputs \cup outputs) <= MaxGroups

\* The product is finished: no FIFO, channel or core waits for ever for another.
SequenceEnds == <>(host = "done")
=============================================================================
