---------------------------- MODULE ModelPolicy -----------------------------
(***************************************************************************)
(* The routing policy of daemon/npu-gpu-cpud.py: the size of a model is    *)
(* read off its name, and the size chooses the device.  A name is the      *)
(* sequence of its characters in lower case; a size is in tenths of a      *)
(* billion parameters.                                                     *)
(***************************************************************************)
EXTENDS Naturals, Sequences, FiniteSetsExt

\* The table of estimate_model_size, in its order.
Pattern(p, s) == [pattern |-> p, size |-> s]
Table == <<
    Pattern(<<"0", ".", "5", "b">>, 5),  Pattern(<<"0", ".", "6", "b">>, 6),
    Pattern(<<"0", ".", "8", "b">>, 8),  Pattern(<<"1", "b">>, 10),
    Pattern(<<"1", ".", "2", "b">>, 12), Pattern(<<"1", ".", "5", "b">>, 15),
    Pattern(<<"1", ".", "7", "b">>, 17), Pattern(<<"2", "b">>, 20),
    Pattern(<<"2", ".", "6", "b">>, 26), Pattern(<<"3", "b">>, 30),
    Pattern(<<"4", "b">>, 40),           Pattern(<<"7", "b">>, 70),
    Pattern(<<"8", "b">>, 80),           Pattern(<<"9", "b">>, 90),
    Pattern(<<"1", "3", "b">>, 130),     Pattern(<<"1", "4", "b">>, 140),
    Pattern(<<"2", "0", "b">>, 200),     Pattern(<<"3", "4", "b">>, 340),
    Pattern(<<"7", "0", "b">>, 700) >>
DefaultSize == 70

Contains(name, pattern) ==
    \E i \in 0..Len(name) - Len(pattern) :
        \A j \in 1..Len(pattern) : name[i + j] = pattern[j]

\* The first row of the table whose pattern occurs in the name, wherever it does:
\* "13b" contains "3b", "1.8b" contains "8b".
EstimateModelSize(name) ==
    LET rows == {i \in 1..Len(Table) : Contains(name, Table[i].pattern)}
    IN  IF rows = {} THEN DefaultSize ELSE Table[Min(rows)].size

SelectDevice(size) == CASE size < 20 -> "npu"
                        [] size >= 20 /\ size <= 80 -> "gpu"
                        [] size > 80 -> "cpu"
=============================================================================
