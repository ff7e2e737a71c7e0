----------------------------- MODULE AieHwStart -----------------------------
(***************************************************************************)
(* The start of the NPU in amdxdna, aie2_hw_start, as                      *)
(* patches/0001-amdxdna-fix-smu-init-order-strix-halo.patch leaves it: a   *)
(* row of calls, and for each the label its failure jumps to.  Of what     *)
(* lies outside the patch's hunks, the calls before the PSP and after the  *)
(* channel's information are those the labels in the hunks undo.           *)
(***************************************************************************)

VARIABLES
    at,      \* the call or the label that is next, or "off" or "up"
    fault,   \* the call that is going to fail, or "none"
    held     \* what has been acquired and not released

Call == {"enable", "channel", "psp", "smu", "info", "mailbox", "query"}
Label == {"stop_fw", "stop_psp", "stop_psp_no_smu", "fini_smu", "free_channel", "disable_dev"}

\* BUG: the order before the patch.
NextCallSmuFirst(c) ==
    CASE c = "enable" -> "channel"  [] c = "channel" -> "smu"
      [] c = "smu" -> "psp"         [] c = "psp" -> "info"
      [] c = "info" -> "mailbox"    [] c = "mailbox" -> "query"
      [] c = "query" -> "up"

NextCall(c) ==
    CASE c = "enable" -> "channel"  [] c = "channel" -> "psp"
      [] c = "psp" -> "smu"         [] c = "smu" -> "info"
      [] c = "info" -> "mailbox"    [] c = "mailbox" -> "query"
      [] c = "query" -> "up"

\* BUG: a failure of the SMU takes the label of the calls after it.
OnFailureOneLabel(c) ==
    CASE c = "enable" -> "off"      [] c = "channel" -> "disable_dev"
      [] c = "psp" -> "free_channel"
      [] c \in {"smu", "info", "mailbox"} -> "stop_psp"
      [] c = "query" -> "stop_fw"

OnFailure(c) ==
    CASE c = "enable" -> "off"      [] c = "channel" -> "disable_dev"
      [] c = "psp" -> "free_channel"
      [] c = "smu" -> "stop_psp_no_smu"
      [] c \in {"info", "mailbox"} -> "stop_psp"
      [] c = "query" -> "stop_fw"

\* What a label releases, and where control goes from it.
Releases(label) ==
    CASE label = "stop_fw" -> "mailbox"
      [] label \in {"stop_psp", "stop_psp_no_smu"} -> "psp"
      [] label = "fini_smu" -> "smu"
      [] label = "free_channel" -> "channel"
      [] label = "disable_dev" -> "enable"

After(label) ==
    CASE label = "stop_fw" -> "stop_psp"
      [] label = "stop_psp" -> "fini_smu"
      [] label \in {"stop_psp_no_smu", "fini_smu"} -> "free_channel"
      [] label = "free_channel" -> "disable_dev"
      [] label = "disable_dev" -> "off"

Init == at = "off" /\ fault = "none" /\ held = {}

\* The driver is bound, for the first time or again.
Begin ==
    /\ at = "off"
    /\ at' = "enable"
    /\ fault' \in Call \cup {"none"}
    /\ UNCHANGED held

\* The SMU answers only when the PSP has loaded its firmware.
Works(c) == c # fault /\ (c = "smu" => "psp" \in held)

CallSucceeds ==
    /\ at \in Call
    /\ Works(at)
    /\ at' = NextCall(at)
    /\ held' = IF at \in {"info", "query"} THEN held ELSE held \cup {at}
    /\ UNCHANGED fault

CallFails ==
    /\ at \in Call
    /\ ~Works(at)
    /\ at' = OnFailure(at)
    /\ fault' = "none"
    /\ UNCHANGED held

Unwind ==
    /\ at \in Label
    /\ held' = held \ {Releases(at)}
    /\ at' = After(at)
    /\ UNCHANGED fault

\* The driver is unbound: aie2_hw_stop, which the patch leaves as it is.
Unbind ==
    /\ at = "up"
    /\ at' = "off"
    /\ held' = {}
    /\ UNCHANGED fault

HwStart == CallSucceeds \/ CallFails \/ Unwind

Next == Begin \/ HwStart \/ Unbind

\* The node /dev/accel/accel0 is there once the start has succeeded.
Accel == at = "up"

TypeOK ==
    /\ at \in Call \cup Label \cup {"off", "up"}
    /\ fault \in Call \cup {"none"}
    /\ held \subseteq Call
=============================================================================
