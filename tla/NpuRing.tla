------------------------------ MODULE NpuRing -------------------------------
(***************************************************************************)
(* The NPU command ring, patches/amdgpu_npu_sched.c: a ring of 64-bit      *)
(* words in the NPU's SRAM that drivers fill three words at a time, a      *)
(* doorbell, and a head register drivers poll for completion.  Offsets are *)
(* counted in words (the code counts bytes: 8 a word, 512 words).          *)
(* Nothing in the code locks the ring or looks at the room left in it.     *)
(* The firmware is external: it takes whole packets between the head and   *)
(* the doorbell, and moves the head that ring_wait polls past each one.    *)
(***************************************************************************)
EXTENDS Naturals, Sequences, FiniteSets

CONSTANTS RingWords,     \* size of the ring in words
          Submitter,     \* the threads that call submit_packet and ring_wait
          Window,        \* how many unfinished commands the callers allow
          MaxCommands    \* bound: how many commands are submitted in all

ASSUME RingWordsIsPositive == RingWords \in Nat \ {0}
ASSUME WindowIsNat == Window \in Nat /\ MaxCommands \in Nat

VARIABLES
    sram,      \* the words of the ring
    tail,      \* nring->tail
    doorbell,  \* the value last written to the doorbell register
    i2xHead,   \* NPU_MBOX_I2X_HEAD
    fetched,   \* the packet the firmware is executing, or NoPacket
    executed,  \* the packets it has executed
    begun,     \* how many submissions have begun: the last command's number
    rung,      \* the commands whose doorbell has been rung, in order
    pc, cmd, part,  \* where each thread is, its command, the word it writes
    reg,       \* the tail a thread has loaded and is about to store
    target     \* how many commands had been rung when the thread's wait began

firmware == <<fetched, executed, i2xHead>>
history == <<begun, rung>>
vars == <<sram, tail, doorbell, firmware, history, pc, cmd, part, reg, target>>

PacketWords == 3
Command == 1..MaxCommands
NoWord == <<0, 0>>
NoPacket == <<>>

\* Word k of command c: the header and the two arguments.
Word(c, k) == <<c, k>>
Packet(c) == <<Word(c, 0), Word(c, 1), Word(c, 2)>>

\* The offset n words after offset p, 0 <= n <= RingWords (tail &= 0xFFF).
Skip(p, n) == IF p + n >= RingWords THEN p + n - RingWords ELSE p + n

Init == /\ sram = [i \in 0..RingWords - 1 |-> NoWord]
        /\ tail = 0
        /\ doorbell = 0
        /\ i2xHead = 0
        /\ fetched = NoPacket
        /\ executed = <<>>
        /\ begun = 0
        /\ rung = <<>>
        /\ pc = [s \in Submitter |-> "idle"]
        /\ cmd = [s \in Submitter |-> 0]
        /\ part = [s \in Submitter |-> 0]
        /\ reg = [s \in Submitter |-> 0]
        /\ target = [s \in Submitter |-> 0]

GoTo(s, label) == pc' = [pc EXCEPT ![s] = label]

-----------------------------------------------------------------------------
(* amdgpu_npu_submit_packet: three emit_qword calls, then the doorbell.     *)

Unfinished == begun - Len(executed)

\* A caller starts a submission; the bound on unfinished commands is its own.
Submit(s) ==
    /\ pc[s] = "idle"
    /\ begun < MaxCommands
    /\ Unfinished < Window
    /\ begun' = begun + 1
    /\ cmd' = [cmd EXCEPT ![s] = begun + 1]
    /\ part' = [part EXCEPT ![s] = 0]
    /\ GoTo(s, "write")
    /\ UNCHANGED <<sram, tail, doorbell, firmware, rung, reg, target>>

WriteWord(s) ==
    /\ pc[s] = "write"
    /\ sram' = [sram EXCEPT ![tail] = Word(cmd[s], part[s])]
    /\ GoTo(s, "load")
    /\ UNCHANGED <<tail, doorbell, firmware, history, cmd, part, reg, target>>

LoadTail(s) ==
    /\ pc[s] = "load"
    /\ reg' = [reg EXCEPT ![s] = tail]
    /\ GoTo(s, "store")
    /\ UNCHANGED <<sram, tail, doorbell, firmware, history, cmd, part, target>>

\* BUG: the mask is one word too wide, so the last word of the ring is skipped.
StoreTailEarlyWrap(s) ==
    /\ pc[s] = "store"
    /\ tail' = IF reg[s] + 2 >= RingWords THEN 0 ELSE reg[s] + 1
    /\ part' = [part EXCEPT ![s] = @ + 1]
    /\ GoTo(s, IF part[s] + 1 < PacketWords THEN "write" ELSE "ring")
    /\ UNCHANGED <<sram, doorbell, firmware, history, cmd, reg, target>>

\* BUG: the tail is never masked.
StoreTailUnmasked(s) ==
    /\ pc[s] = "store"
    /\ tail' = reg[s] + 1
    /\ part' = [part EXCEPT ![s] = @ + 1]
    /\ GoTo(s, IF part[s] + 1 < PacketWords THEN "write" ELSE "ring")
    /\ UNCHANGED <<sram, doorbell, firmware, history, cmd, reg, target>>

StoreTail(s) ==
    /\ pc[s] = "store"
    /\ tail' = Skip(reg[s], 1)
    /\ part' = [part EXCEPT ![s] = @ + 1]
    /\ GoTo(s, IF part[s] + 1 < PacketWords THEN "write" ELSE "ring")
    /\ UNCHANGED <<sram, doorbell, firmware, history, cmd, reg, target>>

RingDoorbell(s) ==
    /\ pc[s] = "ring"
    /\ doorbell' = tail
    /\ rung' = Append(rung, cmd[s])
    /\ GoTo(s, "idle")
    /\ UNCHANGED <<sram, tail, firmware, begun, cmd, part, reg, target>>

-----------------------------------------------------------------------------
(* amdgpu_npu_ring_wait.  A poll that finds the head elsewhere changes      *)
(* nothing; the time can run out between any two polls.                     *)

Wait(s) ==
    /\ pc[s] = "idle"
    /\ target' = [target EXCEPT ![s] = Len(rung)]
    /\ GoTo(s, "wait")
    /\ UNCHANGED <<sram, tail, doorbell, firmware, history, cmd, part, reg>>

\* BUG: any movement of the head is taken for completion.
WaitDoneOnMove(s) ==
    /\ pc[s] = "wait"
    /\ i2xHead # 0
    /\ GoTo(s, "idle")
    /\ UNCHANGED <<sram, tail, doorbell, firmware, history, cmd, part, reg, target>>

WaitDone(s) ==
    /\ pc[s] = "wait"
    /\ i2xHead = tail
    /\ GoTo(s, "idle")
    /\ UNCHANGED <<sram, tail, doorbell, firmware, history, cmd, part, reg, target>>

WaitTimeout(s) ==
    /\ pc[s] = "wait"
    /\ GoTo(s, "idle")
    /\ UNCHANGED <<sram, tail, doorbell, firmware, history, cmd, part, reg, target>>

-----------------------------------------------------------------------------
(* The firmware.                                                            *)

Fetch ==
    /\ fetched = NoPacket
    /\ i2xHead # doorbell
    /\ fetched' = <<sram[i2xHead], sram[Skip(i2xHead, 1)],
                   sram[Skip(i2xHead, 2)]>>
    /\ UNCHANGED <<sram, tail, doorbell, executed, i2xHead, history, pc, cmd,
                   part, reg, target>>

Complete ==
    /\ fetched # NoPacket
    /\ executed' = Append(executed, fetched)
    /\ fetched' = NoPacket
    /\ i2xHead' = Skip(i2xHead, PacketWords)
    /\ UNCHANGED <<sram, tail, doorbell, history, pc, cmd, part, reg, target>>

-----------------------------------------------------------------------------
Next == \/ \E s \in Submitter :
              \/ Submit(s) \/ WriteWord(s) \/ LoadTail(s) \/ StoreTail(s)
              \/ RingDoorbell(s) \/ Wait(s) \/ WaitDone(s) \/ WaitTimeout(s)
        \/ Fetch \/ Complete

Spec == Init /\ [][Next]_vars

\* The firmware keeps serving the ring; drivers may stop calling.
LiveSpec == Spec /\ WF_vars(Fetch) /\ WF_vars(Complete)

-----------------------------------------------------------------------------
(* Properties.                                                              *)

Offsets == 0..RingWords - 1
Words == (0..MaxCommands) \X (0..PacketWords - 1)

\* Types; in particular the tail never leaves the ring (lines 83-86): the word
\* after the ring is the I2X tail register.
TypeOK ==
    /\ sram \in [Offsets -> Words]
    /\ tail \in Offsets /\ doorbell \in Offsets /\ i2xHead \in Offsets
    /\ fetched \in (Words \X Words \X Words) \cup {NoPacket}
    /\ executed \in Seq(Words \X Words \X Words)
    /\ begun \in 0..MaxCommands
    /\ rung \in Seq(Command)
    /\ pc \in [Submitter -> {"idle", "write", "load", "store", "ring", "wait"}]
    /\ cmd \in [Submitter -> 0..MaxCommands]
    /\ part \in [Submitter -> 0..PacketWords]
    /\ reg \in [Submitter -> Offsets]
    /\ target \in [Submitter -> Nat]

\* The firmware reads each packet whole and in the order of the doorbells: no
\* word of it has been overwritten or left unwritten ("This sends the packet to
\* the NPU firmware and rings the doorbell", line 91).
PacketsInOrder ==
    /\ Len(executed) <= Len(rung)
    /\ \A i \in 1..Len(executed) : executed[i] = Packet(rung[i])
    /\ fetched # NoPacket => /\ Len(executed) < Len(rung)
                             /\ fetched = Packet(rung[Len(executed) + 1])

\* When ring_wait returns 0, every command submitted before the call has been
\* executed, also after earlier waits that timed out ("Wait for NPU command
\* completion", line 115).
WaitMeansDone ==
    [][\A s \in Submitter : WaitDone(s) => Len(executed) >= target[s]]_vars

\* The ring implements the queue of commands its callers take it for.
CommandOf(p) == IF p = Packet(p[1][1]) THEN p[1][1] ELSE 0
Queue == INSTANCE NpuQueue
    WITH sent <- rung,
         done <- [i \in 1..Len(executed) |-> CommandOf(executed[i])]
QueueSpec == Queue!Spec
=============================================================================
