---------------------------- MODULE MCNpuGpuCpud ----------------------------
(* NpuGpuCpud with a model name for every device, and a misread one.         *)
EXTENDS NpuGpuCpud

\* Below and at the NPU's limit, above the GPU's; "13b", which the table has a
\* row of its own for, is read as "3b".
MCModels == {<<"1", ".", "7", "b">>, <<"2", "b">>, <<"9", "b">>,
             <<"1", "3", "b">>}

MCFewModels == {<<"0", ".", "6", "b">>}
=============================================================================
