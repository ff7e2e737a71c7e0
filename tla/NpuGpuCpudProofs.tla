-------------------------- MODULE NpuGpuCpudProofs --------------------------
(***************************************************************************)
(* Proofs about NpuGpuCpud, for any set of models, any number of health    *)
(* polls and any number of signals.                                        *)
(***************************************************************************)
EXTENDS NpuGpuCpud, TLAPS

\* Where the main thread is: what it polls, and whose request it is handling when
\* it is, or when a signal has interrupted it there.
Handling(pcs) == pc \in pcs \/ (pc \in Shutdown /\ caller \in pcs)

MainInv ==
    /\ pc \in {"npu_start", "gpu_start"} => polls = 0
    /\ pc = "gpu_poll" => polls < MaxPolls
    /\ Handling({"read"}) => request \in Request
    /\ Handling(InTry) => request \in Request /\ request.kind \in {"chat", "models"}
    /\ exit # "not" => pc = "exited"

\* shutdown() comes to the GPU backend when the NPU's is stopped, however often it
\* has been entered again.
Stopped(b) == child[b] \in {"none", "gone"}

StopInv ==
    /\ pc \in Shutdown /\ victim = "gpu" => Stopped("npu")
    /\ exit = "clean" => Stopped("npu") /\ Stopped("gpu")

IInv == TypeOK /\ MainInv /\ StopInv

USE BoundsAreNat
USE DEF Startup, Shutdown, InTry, Backend, Handling, Stopped, Quit, http, stopping

-----------------------------------------------------------------------------
(* Requests and replies.                                                    *)

Code == {0, 200, 400, 404, 500, 502, 503}

\* An answer leaves the server waiting for the next request.
LEMMA AnswerKeeps ==
    ASSUME NEW code \in Code, NEW device, NEW sentTo, Answer(code, device, sentTo)
    PROVE  pc' = "serve" /\ request' = NoRequest /\ reply'.code \in Code
  BY DEF Answer

LEMMA InitIInv == Init => IInv
  <1> SUFFICES ASSUME Init PROVE IInv
    OBVIOUS
  <1>1. TypeOK
    BY DEF Init, TypeOK, NoReply
  <1>2. MainInv /\ StopInv
    BY DEF Init, MainInv, StopInv
  <1> QED
    BY <1>1, <1>2 DEF IInv

-----------------------------------------------------------------------------
(* Start-up.                                                                *)

LEMMA NpuStartKeeps == ASSUME IInv, NpuStart PROVE IInv'
  BY DEF IInv, TypeOK, MainInv, StopInv, NpuStart

LEMMA NpuStartFailsKeeps == ASSUME IInv, NpuStartFails PROVE IInv'
  BY DEF IInv, TypeOK, MainInv, StopInv, NpuStartFails

LEMMA GpuStartKeeps == ASSUME IInv, GpuStart PROVE IInv'
  BY DEF IInv, TypeOK, MainInv, StopInv, GpuStart

LEMMA GpuStartFailsKeeps == ASSUME IInv, GpuStartFails PROVE IInv'
  BY DEF IInv, TypeOK, MainInv, StopInv, GpuStartFails

LEMMA GpuPollKeeps == ASSUME IInv, GpuPoll PROVE IInv'
  BY DEF IInv, TypeOK, MainInv, StopInv, GpuPoll

LEMMA InstallIntKeeps == ASSUME IInv, InstallInt PROVE IInv'
  BY DEF IInv, TypeOK, MainInv, StopInv, InstallInt

LEMMA InstallTermKeeps == ASSUME IInv, InstallTerm PROVE IInv'
  BY DEF IInv, TypeOK, MainInv, StopInv, InstallTerm

LEMMA BindKeeps == ASSUME IInv, Bind PROVE IInv'
  BY DEF IInv, TypeOK, MainInv, StopInv, Bind

-----------------------------------------------------------------------------
(* The handler.                                                             *)

LEMMA AcceptKeeps == ASSUME IInv, NEW r \in Request, Accept(r) PROVE IInv'
  BY DEF IInv, TypeOK, MainInv, StopInv, Accept

LEMMA ReadAndAnswerKeeps == ASSUME IInv, ReadAndAnswer PROVE IInv'
  <1>1. /\ TypeOK /\ pc = "read" /\ request \in Request
        /\ request.kind \in {"health", "not_found", "bad_json", "stream",
                             "not_a_dict"}
        /\ UNCHANGED <<polls, child, stopping, signals, exit>>
    BY DEF IInv, MainInv, ReadAndAnswer, Request, Chat
  <1>2. /\ pc' = "serve" /\ request' = NoRequest
        /\ reply'.code \in Code
    <2>1. CASE request.kind = "health"
      <3>1. Answer(200, "none", "nobody")
        BY <2>1 DEF ReadAndAnswer
      <3> QED
        BY <1>1, <2>1, <3>1, AnswerKeeps DEF Code
    <2>2. CASE request.kind = "not_found"
      <3>1. Answer(404, "none", "nobody")
        BY <2>2 DEF ReadAndAnswer
      <3> QED
        BY <1>1, <2>2, <3>1, AnswerKeeps DEF Code
    <2>3. CASE request.kind \in {"bad_json", "stream"}
      <3>1. Answer(400, "none", "nobody")
        BY <2>3 DEF ReadAndAnswer
      <3> QED
        BY <1>1, <2>3, <3>1, AnswerKeeps DEF Code
    <2>4. CASE request.kind = "not_a_dict"
      BY <2>4 DEF IInv, TypeOK, ReadAndAnswer, Code
    <2> QED
      BY <1>1, <2>1, <2>2, <2>3, <2>4
  <1>3. TypeOK'
    BY <1>1, <1>2 DEF TypeOK, Code
  <1> QED
    BY <1>1, <1>2, <1>3 DEF IInv, MainInv, StopInv

LEMMA ReadAndRouteKeeps == ASSUME IInv, ReadAndRoute PROVE IInv'
  BY DEF IInv, TypeOK, MainInv, StopInv, ReadAndRoute

LEMMA RefuseKeeps == ASSUME IInv, Refuse PROVE IInv'
  <1>1. /\ TypeOK /\ pc = "try" /\ request \in Request
        /\ Answer(502, Device(request), "nobody")
        /\ UNCHANGED <<polls, child, stopping, signals, exit>>
    BY DEF IInv, MainInv, Refuse
  <1>2. /\ pc' = "serve" /\ request' = NoRequest
        /\ reply'.code \in Code
    BY <1>1, AnswerKeeps DEF Code
  <1>3. TypeOK'
    BY <1>1, <1>2 DEF TypeOK, Code
  <1> QED
    BY <1>1, <1>2, <1>3 DEF IInv, MainInv, StopInv

LEMMA AskKeeps == ASSUME IInv, Ask PROVE IInv'
  BY DEF IInv, TypeOK, MainInv, StopInv, Ask

LEMMA BackendAnswersKeeps == ASSUME IInv, BackendAnswers PROVE IInv'
  <1>1. /\ TypeOK /\ pc = "backend" /\ request \in Request
        /\ request.kind \in {"chat", "models"}
        /\ UNCHANGED <<polls, child, stopping, signals, exit>>
    BY DEF IInv, MainInv, BackendAnswers
  <1>2. /\ pc' = "serve" /\ request' = NoRequest
        /\ reply'.code \in Code
    <2>1. PICK outcome \in {"ok", "error", "unreachable"} :
             IF request.kind = "models"
             THEN Answer(IF outcome = "ok" THEN 200 ELSE 503, "none", "npu")
             ELSE Answer(CASE outcome = "ok" -> 200
                           [] outcome = "error" -> 500
                           [] outcome = "unreachable" -> 502,
                         Device(request), Target)
      BY DEF BackendAnswers
    <2>2. CASE request.kind = "models"
      <3>1. (IF outcome = "ok" THEN 200 ELSE 503) \in Code
        BY DEF Code
      <3> QED
        BY <1>1, <2>1, <2>2, <3>1, AnswerKeeps
    <2>3. CASE request.kind = "chat"
      <3>1. (CASE outcome = "ok" -> 200
               [] outcome = "error" -> 500
               [] outcome = "unreachable" -> 502) \in Code
        BY <2>1 DEF Code
      <3> QED
        BY <1>1, <2>1, <2>3, <3>1, AnswerKeeps
    <2> QED
      BY <1>1, <2>2, <2>3
  <1>3. TypeOK'
    BY <1>1, <1>2 DEF TypeOK, Code
  <1> QED
    BY <1>1, <1>2, <1>3 DEF IInv, MainInv, StopInv

-----------------------------------------------------------------------------
(* Signals and shutdown().                                                  *)

LEMMA SignalKeeps ==
    ASSUME IInv, NEW sig \in {"SIGINT", "SIGTERM"}, Signal(sig) PROVE IInv'
  <1>1. CASE HandlerFor(sig)
    BY <1>1 DEF IInv, TypeOK, MainInv, StopInv, Signal, HandlerFor
  <1>2. CASE ~HandlerFor(sig)
    BY <1>2 DEF IInv, TypeOK, MainInv, StopInv, Signal, HandlerFor
  <1> QED
    BY <1>1, <1>2

LEMMA TerminateKeeps == ASSUME IInv, Terminate PROVE IInv'
  <1>1. CASE child[victim] = "none"
    BY <1>1 DEF IInv, TypeOK, MainInv, StopInv, Terminate, AfterStop
  <1>2. CASE child[victim] # "none"
    BY <1>2 DEF IInv, TypeOK, MainInv, StopInv, Terminate, AfterStop
  <1> QED
    BY <1>1, <1>2

LEMMA WaitedKeeps == ASSUME IInv, Waited PROVE IInv'
  BY DEF IInv, TypeOK, MainInv, StopInv, Waited, AfterStop

LEMMA WaitExpiresKeeps == ASSUME IInv, WaitExpires PROVE IInv'
  <1>1. TypeOK /\ pc = "wait" /\ UNCHANGED <<polls, child, stopping, signals>>
    BY DEF IInv, WaitExpires
  <1>2. CASE caller \in InTry
    <2>1. request \in Request /\ request.kind \in {"chat", "models"}
          /\ exit' = exit /\ exit # "clean" /\ exit = "not"
      BY <1>1, <1>2 DEF IInv, MainInv, WaitExpires
    <2>2. /\ pc' = "serve" /\ request' = NoRequest
          /\ reply'.code \in Code
      <3>1. CASE request.kind = "models"
        <4>1. Answer(503, "none", "nobody")
          BY <1>2, <3>1 DEF WaitExpires
        <4> QED
          BY <1>1, <2>1, <3>1, <4>1, AnswerKeeps DEF Code
      <3>2. CASE request.kind = "chat"
        <4>1. Answer(502, Device(request), "nobody")
          BY <1>2, <3>2 DEF WaitExpires
        <4> QED
          BY <1>1, <2>1, <3>2, <4>1, AnswerKeeps DEF Code
      <3> QED
        BY <2>1, <3>1, <3>2
    <2>3. TypeOK'
      BY <1>1, <2>1, <2>2 DEF TypeOK, Code
    <2> QED
      BY <1>1, <2>1, <2>2, <2>3 DEF IInv, MainInv, StopInv
  <1>3. CASE caller = "read"
    BY <1>3 DEF IInv, TypeOK, MainInv, StopInv, WaitExpires
  <1>4. CASE caller \notin InTry \cup {"read"}
    BY <1>4 DEF IInv, TypeOK, MainInv, StopInv, WaitExpires
  <1> QED
    BY <1>2, <1>3, <1>4

LEMMA ChildExitsKeeps ==
    ASSUME IInv, NEW b \in Backend, ChildExits(b) PROVE IInv'
  BY DEF IInv, TypeOK, MainInv, StopInv, ChildExits

LEMMA NextIInv == IInv /\ [Next]_vars => IInv'
  <1> SUFFICES ASSUME IInv, [Next]_vars PROVE IInv'
    OBVIOUS
  <1>1. CASE UNCHANGED vars
    BY <1>1 DEF vars, IInv, TypeOK, MainInv, StopInv
  <1>2. CASE Main
    BY <1>2, NpuStartKeeps, NpuStartFailsKeeps, GpuStartKeeps, GpuStartFailsKeeps,
       GpuPollKeeps, InstallIntKeeps, InstallTermKeeps, BindKeeps, RefuseKeeps,
       AskKeeps, BackendAnswersKeeps, TerminateKeeps, WaitedKeeps, WaitExpiresKeeps
       DEF Main
  <1>3. CASE Client
    BY <1>3, AcceptKeeps, ReadAndAnswerKeeps, ReadAndRouteKeeps DEF Client
  <1>4. CASE \E sig \in {"SIGINT", "SIGTERM"} : Signal(sig)
    BY <1>4, SignalKeeps
  <1>5. CASE \E b \in Backend : ChildExits(b)
    BY <1>5, ChildExitsKeeps
  <1> QED
    BY <1>1, <1>2, <1>3, <1>4, <1>5 DEF Next

LEMMA Invariance == Spec => []IInv
  BY InitIInv, NextIInv, PTL DEF Spec

-----------------------------------------------------------------------------
(* What follows.                                                            *)

\* The daemon's variables keep their types; it never polls more often than its
\* loop says (GPUBackend.start).
THEOREM TypeCorrect == Spec => []TypeOK
  <1>1. IInv => TypeOK
    BY DEF IInv
  <1> QED
    BY <1>1, Invariance, PTL

\* However many signals come, and wherever they interrupt the handler of the one
\* before, sys.exit(0) is reached with both children gone (shutdown, lines 263-267).
THEOREM CleanExit == Spec => []CleanExitMeansStopped
  <1>1. IInv => CleanExitMeansStopped
    BY DEF IInv, StopInv, CleanExitMeansStopped
  <1> QED
    BY <1>1, Invariance, PTL

\* A daemon that has come to serve, and whose children obey in time, leaves none of
\* them running whatever ends it (shutdown, lines 263-267).
THEOREM PromptExit == Spec => PromptChildrenAreStopped
  <1>1. ASSUME IInv, [Next]_vars
        PROVE  [prompt /\ Leaves => \A b \in Backend : child'[b] # "running"]_vars
    <2> SUFFICES ASSUME Next, prompt, Leaves
                 PROVE  \A b \in Backend : child'[b] # "running"
      BY <1>1
    <2>1. CASE Terminate \/ Waited
      <3>1. pc \in Shutdown /\ pc' = "exited"
        BY <2>1 DEF Leaves, Terminate, Waited
      <3>2. AfterStop /\ child' = child /\ Stopped(victim)
        BY <2>1, <3>1 DEF Terminate, Waited
      <3>3. victim = "gpu"
        <4>1. victim \in Backend
          BY <1>1 DEF IInv, TypeOK
        <4> QED
          BY <3>1, <3>2, <4>1 DEF AfterStop
      <3>4. Stopped("npu")
        BY <1>1, <3>1, <3>3 DEF IInv, StopInv
      <3> QED
        BY <3>2, <3>3, <3>4
    <2>2. CASE \E sig \in {"SIGINT", "SIGTERM"} : Signal(sig)
      BY <2>2 DEF Leaves, Signal, HandlerFor
    <2>3. CASE \/ NpuStart \/ NpuStartFails \/ GpuStart \/ GpuStartFails \/ GpuPoll
               \/ InstallInt \/ InstallTerm \/ Bind
      BY <2>3 DEF Leaves, NpuStart, NpuStartFails, GpuStart, GpuStartFails, GpuPoll,
                  InstallInt, InstallTerm, Bind
    <2>4. CASE Client \/ Refuse \/ Ask \/ BackendAnswers
      <3>1. pc' \in {"serve", "read", "try", "backend"}
        BY <1>1, <2>4 DEF IInv, MainInv, Client, Accept, ReadAndAnswer, ReadAndRoute,
                          Refuse, Ask, BackendAnswers, Answer, Request, Chat
      <3> QED
        BY <3>1 DEF Leaves
    <2>5. CASE WaitExpires
      BY <2>5 DEF WaitExpires
    <2>6. CASE \E b \in Backend : ChildExits(b)
      BY <2>6 DEF Leaves, ChildExits
    <2> QED
      BY <2>1, <2>2, <2>3, <2>4, <2>5, <2>6 DEF Next, Main
  <1> QED
    BY <1>1, Invariance, PTL DEF Spec, PromptChildrenAreStopped
=============================================================================
