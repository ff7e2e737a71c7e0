----------------------------- MODULE NpuGpuCpud -----------------------------
(***************************************************************************)
(* The control-plane daemon, daemon/npu-gpu-cpud.py: it starts the NPU and *)
(* GPU servers as child processes, installs its signal handlers, serves    *)
(* one HTTP request at a time, and on SIGINT or SIGTERM stops the children *)
(* and exits.  Python runs a signal handler in the main thread, between    *)
(* two of its steps, so the handler is called by whatever was running: an  *)
(* exception raised in it travels through that code.                       *)
(***************************************************************************)
EXTENDS ModelPolicy, FiniteSets

CONSTANTS Models,      \* the names of models that clients send
          MaxPolls,    \* bound: polls of the GPU server's health (30)
          MaxSignals   \* bound: signals sent to the daemon

ASSUME BoundsAreNat == MaxPolls \in Nat \ {0} /\ MaxSignals \in Nat

VARIABLES
    pc,        \* what the main thread is doing
    polls,     \* health polls made by GPUBackend.start
    child,     \* the process behind each backend, "none" before its start
    victim,    \* the backend shutdown is stopping
    caller,    \* what the signal interrupted
    signals,   \* signals delivered so far
    prompt,    \* the children exit within five seconds of a terminate()
    exit,      \* how the daemon ended: "clean", "killed", "crash", or "not"
    request,   \* the request being handled, or NoRequest
    reply      \* the last reply, or NoReply

vars ==
    <<pc, polls, child, victim, caller, signals, prompt, exit, request, reply>>
http == <<request, reply>>
stopping == <<victim, caller, prompt>>

Backend == {"npu", "gpu"}
NoRequest == [kind |-> "none"]
NoReply == [code |-> 0]

\* A chat request, by which of the two keys chat() takes by position it has.
Chat == [kind : {"chat"}, keys : SUBSET {"model", "messages"}, model : Models]
Request == Chat \cup
    [kind : {"health", "models", "not_found", "bad_json", "stream",
             "not_a_dict"}]

Init == /\ pc \in {"npu_start", "install_int"}  \* the latter with --no-auto
        /\ polls = 0
        /\ child = [b \in Backend |-> "none"]
        /\ victim = "npu"
        /\ caller = "none"
        /\ signals = 0
        /\ prompt \in BOOLEAN
        /\ exit = "not"
        /\ request = NoRequest
        /\ reply = NoReply

Quit(how) == pc' = "exited" /\ exit' = how

-----------------------------------------------------------------------------
(* main(), up to serve_forever.                                             *)

NpuStart == /\ pc = "npu_start"
            /\ child' = [child EXCEPT !["npu"] = "running"]
            /\ pc' = "gpu_start"
            /\ UNCHANGED <<polls, stopping, signals, exit, http>>

\* No handler for a missing flm, nor for any other failure to start it.
NpuStartFails == /\ pc = "npu_start"
                 /\ Quit("crash")
                 /\ UNCHANGED <<polls, child, stopping, signals, http>>

GpuStart == /\ pc = "gpu_start"
            /\ child' = [child EXCEPT !["gpu"] = "running"]
            /\ pc' = "gpu_poll"
            /\ UNCHANGED <<polls, stopping, signals, exit, http>>

\* A missing lemond is accepted, any other failure is not.
GpuStartFails == /\ pc = "gpu_start"
                 /\ \/ pc' = "install_int" /\ UNCHANGED exit
                    \/ Quit("crash")
                 /\ UNCHANGED <<polls, child, stopping, signals, http>>

\* BUG: one poll more than the loop's range.
GpuPollOnceMore ==
    /\ pc = "gpu_poll"
    /\ polls' = polls + 1
    /\ \/ pc' = "install_int"
       \/ pc' = IF polls < MaxPolls THEN "gpu_poll" ELSE "install_int"
    /\ UNCHANGED <<child, stopping, signals, exit, http>>

\* The loop ends with a healthy answer or when the polls are used up.
GpuPoll == /\ pc = "gpu_poll"
           /\ polls' = polls + 1
           /\ \/ pc' = "install_int"
              \/ pc' = IF polls + 1 < MaxPolls THEN "gpu_poll" ELSE "install_int"
           /\ UNCHANGED <<child, stopping, signals, exit, http>>

InstallInt == /\ pc = "install_int"
              /\ pc' = "install_term"
              /\ UNCHANGED <<polls, child, stopping, signals, exit, http>>

InstallTerm == /\ pc = "install_term"
               /\ pc' = "bind"
               /\ UNCHANGED <<polls, child, stopping, signals, exit, http>>

Bind == /\ pc = "bind"
        /\ \/ pc' = "serve" /\ UNCHANGED exit
           \/ Quit("crash")
        /\ UNCHANGED <<polls, child, stopping, signals, http>>

-----------------------------------------------------------------------------
(* The HTTP handler.                                                        *)

\* A connection is accepted; from now on the server waits for its bytes.
Accept(r) == /\ pc = "serve"
             /\ request' = r
             /\ pc' = "read"
             /\ UNCHANGED <<polls, child, stopping, signals, exit, reply>>

Answer(code, device, sentTo) ==
    /\ reply' = [code |-> code, device |-> device, sentTo |-> sentTo,
                 request |-> request]
    /\ request' = NoRequest
    /\ pc' = "serve"

\* Requests answered without leaving the daemon, or, when the body is no
\* dictionary, dropped by the exception that raises outside do_POST's try.
ReadAndAnswer ==
    /\ pc = "read"
    /\ request.kind \notin {"chat", "models"}
    /\ CASE request.kind = "health" -> Answer(200, "none", "nobody")
         [] request.kind = "not_found" -> Answer(404, "none", "nobody")
         [] request.kind \in {"bad_json", "stream"} -> Answer(400, "none", "nobody")
         [] request.kind = "not_a_dict" -> /\ request' = NoRequest
                                           /\ pc' = "serve"
                                           /\ UNCHANGED reply
    /\ UNCHANGED <<polls, child, stopping, signals, exit>>

ReadAndRoute ==
    /\ pc = "read"
    /\ request.kind \in {"chat", "models"}
    /\ pc' = "try"
    /\ UNCHANGED <<polls, child, stopping, signals, exit, http>>

\* The name "unknown" stands in for a missing model, and matches no pattern.
Device(r) == SelectDevice(IF "model" \in r.keys
                          THEN EstimateModelSize(r.model)
                          ELSE DefaultSize)
BackendOf(device) == IF device = "npu" THEN "npu" ELSE "gpu"

\* chat(model, messages, **req) is a TypeError when req has either key: the
\* request is answered 502 and no backend is asked.
Refuse ==
    /\ pc = "try"
    /\ request.kind = "chat"
    /\ request.keys # {}
    /\ Answer(502, Device(request), "nobody")
    /\ UNCHANGED <<polls, child, stopping, signals, exit>>

Target == IF request.kind = "models" THEN "npu" ELSE BackendOf(Device(request))

Ask ==
    /\ pc = "try"
    /\ request.kind = "chat" => request.keys = {}
    /\ pc' = "backend"
    /\ UNCHANGED <<polls, child, stopping, signals, exit, http>>

\* The backend answers, answers with an HTTP error, or cannot be reached or does
\* not answer in time.  What listens on its port need not be the child: with
\* --no-auto it never is.
BackendAnswers ==
    /\ pc = "backend"
    /\ \E outcome \in {"ok", "error", "unreachable"} :
         IF request.kind = "models"
         THEN Answer(IF outcome = "ok" THEN 200 ELSE 503, "none", "npu")
         ELSE Answer(CASE outcome = "ok" -> 200
                       [] outcome = "error" -> 500
                       [] outcome = "unreachable" -> 502,
                     Device(request), Target)
    /\ UNCHANGED <<polls, child, stopping, signals, exit>>

-----------------------------------------------------------------------------
(* Signals and shutdown().                                                  *)

Startup == {"npu_start", "gpu_start", "gpu_poll", "install_int"}
Shutdown == {"stop", "wait"}
InTry == {"try", "backend"}

HandlerFor(sig) == \/ pc \notin Startup \cup {"install_term"}
                   \/ pc = "install_term" /\ sig = "SIGINT"

\* Before its handler is installed a signal ends the daemon at once.  A second
\* signal enters shutdown again from the beginning, inside the first call.
Signal(sig) ==
    /\ pc # "exited"
    /\ signals < MaxSignals
    /\ signals' = signals + 1
    /\ IF HandlerFor(sig)
       THEN /\ pc' = "stop"
            /\ victim' = "npu"
            /\ caller' = IF pc \in Shutdown THEN caller ELSE pc
            /\ UNCHANGED exit
       ELSE Quit("killed") /\ UNCHANGED <<victim, caller>>
    /\ UNCHANGED <<polls, child, prompt, http>>

\* BUG: shutdown exits after the NPU backend.
AfterStopNpuOnly == Quit("clean") /\ UNCHANGED victim

\* BUG: no sys.exit(0): the handler returns to what it interrupted.
AfterStopReturns == IF victim = "npu"
                    THEN victim' = "gpu" /\ pc' = "stop" /\ UNCHANGED exit
                    ELSE pc' = caller /\ UNCHANGED <<victim, exit>>

\* sys.exit(0) after the GPU backend: nothing in the daemon catches SystemExit.
AfterStop == IF victim = "npu"
             THEN victim' = "gpu" /\ pc' = "stop" /\ UNCHANGED exit
             ELSE Quit("clean") /\ UNCHANGED victim

\* BUG: terminate() without the wait().
TerminateOnly ==
    /\ pc = "stop"
    /\ child' = [child EXCEPT ![victim] =
                    IF @ = "running" THEN "terminating" ELSE @]
    /\ AfterStop
    /\ UNCHANGED <<polls, caller, signals, prompt, http>>

Terminate ==
    /\ pc = "stop"
    /\ IF child[victim] = "none"
       THEN AfterStop /\ UNCHANGED child
       ELSE /\ child' = [child EXCEPT ![victim] =
                            IF @ = "running" THEN "terminating" ELSE @]
            /\ pc' = "wait"
            /\ UNCHANGED <<victim, exit>>
    /\ UNCHANGED <<polls, caller, signals, prompt, http>>

Waited ==
    /\ pc = "wait"
    /\ child[victim] = "gone"
    /\ AfterStop
    /\ UNCHANGED <<polls, child, caller, signals, prompt, http>>

\* BUG: an expired wait is waited for again.
WaitAgain == /\ pc = "wait"
             /\ ~prompt
             /\ child[victim] # "gone"
             /\ UNCHANGED vars

\* TimeoutExpired leaves shutdown() and travels through what the signal
\* interrupted: a try of the handler answers 502 or 503, the rest of a handler
\* is dropped by socketserver, both go on serving; main() does not catch it.
WaitExpires ==
    /\ pc = "wait"
    /\ ~prompt
    /\ child[victim] # "gone"
    /\ CASE caller \in InTry ->
              /\ IF request.kind = "models"
                 THEN Answer(503, "none", "nobody")
                 ELSE Answer(502, Device(request), "nobody")
              /\ UNCHANGED exit
         [] caller = "read" ->
              /\ request' = NoRequest
              /\ pc' = "serve"
              /\ UNCHANGED <<reply, exit>>
         [] OTHER -> Quit("crash") /\ UNCHANGED http
    /\ UNCHANGED <<polls, child, stopping, signals>>

-----------------------------------------------------------------------------
(* The children.                                                            *)

\* A backend obeys terminate(), or dies by itself.
ChildExits(b) ==
    /\ child[b] \in {"running", "terminating"}
    /\ child' = [child EXCEPT ![b] = "gone"]
    /\ UNCHANGED <<pc, polls, stopping, signals, exit, http>>

ChildObeys(b) == child[b] = "terminating" /\ ChildExits(b)

-----------------------------------------------------------------------------
Main == \/ NpuStart \/ NpuStartFails \/ GpuStart \/ GpuStartFails \/ GpuPoll
        \/ InstallInt \/ InstallTerm \/ Bind
        \/ Refuse \/ Ask \/ BackendAnswers
        \/ Terminate \/ Waited \/ WaitExpires

Client == (\E r \in Request : Accept(r)) \/ ReadAndAnswer \/ ReadAndRoute

Next == \/ Main \/ Client
        \/ \E sig \in {"SIGINT", "SIGTERM"} : Signal(sig)
        \/ \E b \in Backend : ChildExits(b)

\* The main thread runs; a client may stop sending at any time.  A prompt
\* child, once terminated, goes before the wait for it expires.
Spec == /\ Init /\ [][Next]_vars
        /\ WF_vars(Main)
        /\ \A b \in Backend : WF_vars(prompt /\ ChildObeys(b))

-----------------------------------------------------------------------------
(* Properties.                                                              *)

\* Types of the daemon's state.
TypeOK ==
    /\ pc \in Startup \cup Shutdown \cup InTry \cup
              {"install_term", "bind", "serve", "read", "exited"}
    /\ polls \in 0..MaxPolls
    /\ child \in [Backend -> {"none", "running", "terminating", "gone"}]
    /\ victim \in Backend
    /\ caller \in InTry \cup {"none", "install_term", "bind", "serve", "read"}
    /\ signals \in 0..MaxSignals
    /\ prompt \in BOOLEAN
    /\ exit \in {"not", "clean", "killed", "crash"}
    /\ request \in Request \cup {NoRequest}
    /\ reply.code \in {0, 200, 400, 404, 500, 502, 503}

\* An exit with status 0 leaves no backend process behind, however many signals
\* came and at whatever step of shutdown() they entered it again (lines 263-267).
CleanExitMeansStopped ==
    exit = "clean" => \A b \in Backend : child[b] \in {"none", "gone"}

\* What the handler and shutdown() start comes to an end: a request that is past
\* its reading is answered or the daemon exits, and shutdown() exits or, thrown
\* out by an expired wait, gives the control back (lines 52-55, 194-213).
CallsReturn == pc \in InTry \cup Shutdown ~> pc \in {"serve", "exited"}

Leaves == /\ pc \in InTry \cup Shutdown \cup {"serve", "read"}
          /\ pc' = "exited"

\* Once it is serving, and as long as its children obey in time, the daemon never
\* exits with a backend it has not told to stop (lines 263-267).
PromptChildrenAreStopped ==
    [][prompt /\ Leaves => \A b \in Backend : child'[b] # "running"]_vars

\* Under the same condition a signal ends the daemon, also one that interrupts a
\* request or an earlier signal's shutdown().
PromptSignalEnds == prompt /\ signals > 0 ~> pc = "exited"

\* "Signal handling for clean shutdown" (line 262), whatever the children do.
NoOrphanAfterServing ==
    [][Leaves => \A b \in Backend : child'[b] # "running"]_vars

Answered(kind) == reply # NoReply /\ reply.request.kind = kind

\* "Routes inference requests to NPU, GPU, or CPU based on policy" (line 5): a
\* chat request is sent to a backend.
ChatReachesBackend == Answered("chat") => reply.sentTo # "nobody"
=============================================================================
