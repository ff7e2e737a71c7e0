------------------------------ MODULE NpuQueue ------------------------------
(***************************************************************************)
(* What the NPU ring promises its caller: the commands sent are executed   *)
(* once each, whole, in the order they were sent, and none is forgotten.   *)
(***************************************************************************)
EXTENDS Naturals, Sequences

CONSTANT Command

VARIABLES sent,   \* commands handed to the firmware, in order
          done    \* commands the firmware has executed, in order

vars == <<sent, done>>

Init == sent = <<>> /\ done = <<>>

Send(c) == sent' = Append(sent, c) /\ UNCHANGED done

Execute == /\ Len(done) < Len(sent)
           /\ done' = Append(done, sent[Len(done) + 1])
           /\ UNCHANGED sent

Next == (\E c \in Command : Send(c)) \/ Execute

Spec == Init /\ [][Next]_vars /\ WF_vars(Execute)
=============================================================================
