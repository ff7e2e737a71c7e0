---------------------------- MODULE NpuRingProofs ----------------------------
(***************************************************************************)
(* For a ring of any size, one submitter at a time, and callers that keep  *)
(* few enough commands unfinished for the ring never to be full: packets   *)
(* reach the firmware whole and in order, and a wait that returns 0 means  *)
(* that everything submitted before it has been executed.                  *)
(***************************************************************************)
EXTENDS NpuRing, SequenceTheorems, TLAPS

\* The two things the code leaves to its callers.
SafeUse == /\ \A s, u \in Submitter : s = u
           /\ PacketWords * Window < RingWords

Submitting == {"write", "load", "store", "ring"}

\* Commands handed to the firmware and not yet executed.
Pending == Len(rung) - Len(executed)

CountInv ==
    /\ Len(executed) <= Len(rung)
    /\ Len(rung) <= begun
    /\ begun - Len(executed) <= Window
    /\ \A s \in Submitter :
          /\ pc[s] \in Submitting => begun = Len(rung) + 1 /\ cmd[s] = begun
          /\ pc[s] \notin Submitting => begun = Len(rung)
          /\ target[s] <= Len(rung)
    /\ \A i \in 1..Len(rung) : rung[i] = i

\* The pending packets lie between the head and the doorbell, what has been
\* written of the next one between the doorbell and the tail.
OffsetInv ==
    /\ doorbell = Skip(i2xHead, 3 * Pending)
    /\ \A s \in Submitter :
          /\ pc[s] \notin Submitting => tail = Skip(i2xHead, 3 * Pending)
          /\ pc[s] \in Submitting => tail = Skip(i2xHead, 3 * Pending + part[s])
          /\ pc[s] \in Submitting \ {"ring"} => part[s] < 3
          /\ pc[s] = "ring" => part[s] = 3
          /\ pc[s] = "store" => reg[s] = tail

\* Word k of the packet that lies j packets behind the head is in the ring.
InRing(j, k) ==
    sram[Skip(i2xHead, 3 * j + k)] = Word(Len(executed) + j + 1, k)

WordInv ==
    /\ \A j \in 0..Pending - 1, k \in 0..2 : InRing(j, k)
    /\ \A s \in Submitter :
          /\ pc[s] \in Submitting =>
                \A k \in 0..part[s] - 1 : InRing(Pending, k)
          /\ pc[s] \in {"load", "store"} => InRing(Pending, part[s])

FirmwareInv ==
    /\ \A i \in 1..Len(executed) : executed[i] = Packet(i)
    /\ fetched # NoPacket => Pending > 0 /\ fetched = Packet(Len(executed) + 1)

IInv == TypeOK /\ CountInv /\ OffsetInv /\ WordInv /\ FirmwareInv

USE RingWordsIsPositive, WindowIsNat
USE DEF PacketWords, Command, Offsets, GoTo, Submitting, Pending, firmware,
        history

-----------------------------------------------------------------------------
(* Arithmetic of offsets.                                                   *)

\* Moving on inside the ring stays inside it.
LEMMA SkipInRing ==
    ASSUME NEW p \in Offsets, NEW n \in 0..RingWords
    PROVE  Skip(p, n) \in Offsets
BY DEF Skip

\* Moving on twice is moving on by the sum.
LEMMA SkipTwice ==
    ASSUME NEW p \in Offsets, NEW m \in Nat, NEW n \in Nat, m + n <= RingWords
    PROVE  Skip(Skip(p, m), n) = Skip(p, m + n)
BY DEF Skip

\* Moving on by nothing.
LEMMA SkipNothing == ASSUME NEW p \in Offsets PROVE Skip(p, 0) = p
BY DEF Skip

\* Less than a lap apart, different distances lead to different words.
LEMMA SkipInjective ==
    ASSUME NEW p \in Offsets, NEW m \in 0..RingWords - 1,
           NEW n \in 0..RingWords - 1, Skip(p, m) = Skip(p, n)
    PROVE  m = n
BY DEF Skip

\* The ring has room for what is pending, and for one packet more while one is
\* being written.
LEMMA Room ==
    ASSUME SafeUse, TypeOK, CountInv
    PROVE  /\ Len(rung) \in Nat /\ Len(executed) \in Nat
           /\ Pending \in Nat /\ 3 * Pending < RingWords
           /\ \A s \in Submitter :
                 pc[s] \in Submitting => 3 * Pending + 3 < RingWords
<1>1. Len(rung) \in Nat /\ Len(executed) \in Nat /\ begun \in Nat
  BY DEF TypeOK
<1>2. Pending \in Nat /\ Pending <= Window
  BY <1>1 DEF CountInv
<1>3. ASSUME NEW s \in Submitter, pc[s] \in Submitting
      PROVE  Pending + 1 <= Window
  BY <1>1, <1>3 DEF CountInv
<1>4. 3 * Pending < RingWords
  BY <1>2 DEF SafeUse
<1>5. ASSUME NEW s \in Submitter, pc[s] \in Submitting
      PROVE  3 * Pending + 3 < RingWords
  <2>1. Pending + 1 <= Window
    BY <1>3, <1>5
  <2>. QED BY <1>2, <2>1 DEF SafeUse
<1>. QED BY <1>1, <1>2, <1>4, <1>5

-----------------------------------------------------------------------------
(* The invariant holds at first and is preserved, one lemma per action.     *)

LEMMA InitIInv == ASSUME SafeUse, Init PROVE IInv
<1>1. TypeOK
  BY DEF Init, TypeOK, NoWord, NoPacket, Words
<1>2. CountInv /\ WordInv /\ FirmwareInv
  BY DEF Init, CountInv, WordInv, FirmwareInv
<1>3. OffsetInv
  BY SkipNothing DEF Init, OffsetInv
<1>. QED BY <1>1, <1>2, <1>3 DEF IInv

LEMMA SubmitStep ==
    ASSUME SafeUse, IInv, NEW s \in Submitter, Submit(s)
    PROVE  IInv'
<1>1. /\ pc[s] = "idle" /\ pc' = [pc EXCEPT ![s] = "write"]
      /\ begun < MaxCommands /\ begun - Len(executed) < Window
      /\ begun' = begun + 1
      /\ cmd' = [cmd EXCEPT ![s] = begun + 1]
      /\ part' = [part EXCEPT ![s] = 0]
      /\ UNCHANGED <<sram, tail, doorbell, fetched, executed, i2xHead, rung,
                     reg, target>>
  BY DEF Submit, Unfinished
<1>2. \A u \in Submitter : u = s
  BY DEF SafeUse
<1>3. /\ Len(rung) \in Nat /\ Len(executed) \in Nat /\ begun \in 0..MaxCommands
  BY DEF IInv, TypeOK
<1>4. pc'[s] = "write" /\ cmd'[s] = begun + 1 /\ part'[s] = 0
  BY <1>1 DEF IInv, TypeOK
<1>5. TypeOK'
  BY <1>1, <1>3 DEF IInv, TypeOK
<1>6. CountInv'
  BY <1>1, <1>2, <1>3, <1>4 DEF IInv, CountInv
<1>7. OffsetInv'
  BY <1>1, <1>2, <1>3, <1>4 DEF IInv, OffsetInv
<1>8. WordInv'
  BY <1>1, <1>2, <1>4 DEF IInv, WordInv, InRing
<1>9. FirmwareInv'
  BY <1>1 DEF IInv, FirmwareInv
<1>. QED BY <1>5, <1>6, <1>7, <1>8, <1>9 DEF IInv

LEMMA WriteWordStep ==
    ASSUME SafeUse, IInv, NEW s \in Submitter, WriteWord(s)
    PROVE  IInv'
<1>1. /\ pc[s] = "write" /\ pc' = [pc EXCEPT ![s] = "load"]
      /\ sram' = [sram EXCEPT ![tail] = Word(cmd[s], part[s])]
      /\ UNCHANGED <<tail, doorbell, fetched, executed, i2xHead, begun, rung,
                     cmd, part, reg, target>>
  BY DEF WriteWord
<1>2. \A u \in Submitter : u = s
  BY DEF SafeUse
<1>3. pc'[s] = "load" /\ i2xHead \in Offsets /\ tail \in Offsets
  BY <1>1 DEF IInv, TypeOK
<1>4. /\ cmd[s] = Len(executed) + Pending + 1
      /\ part[s] \in 0..2
      /\ tail = Skip(i2xHead, 3 * Pending + part[s])
  <2>1. Len(rung) \in Nat /\ Len(executed) \in Nat
    BY DEF IInv, TypeOK
  <2>2. cmd[s] = Len(rung) + 1
    BY <1>1 DEF IInv, CountInv
  <2>3. part[s] \in 0..3 /\ part[s] < 3
    BY <1>1 DEF IInv, TypeOK, OffsetInv
  <2>4. tail = Skip(i2xHead, 3 * Pending + part[s])
    BY <1>1 DEF IInv, OffsetInv
  <2>. QED BY <2>1, <2>2, <2>3, <2>4
<1>5. /\ Len(executed) \in Nat /\ Pending \in Nat
      /\ 3 * Pending + 3 < RingWords
  BY <1>1, Room DEF IInv
<1>6. TypeOK'
  <2>1. Word(cmd[s], part[s]) \in Words
    BY <1>4 DEF IInv, TypeOK, Words, Word
  <2>. QED BY <1>1, <2>1 DEF IInv, TypeOK
<1>7. CountInv'
  BY <1>1, <1>2, <1>3 DEF IInv, CountInv
<1>8. OffsetInv'
  BY <1>1, <1>2, <1>3 DEF IInv, OffsetInv
<1>9. ASSUME NEW j \in Nat, NEW k \in 0..2, InRing(j, k),
             3 * j + k < 3 * Pending + part[s]
      PROVE  InRing(j, k)'
  <2>1. 3 * j + k \in 0..RingWords - 1
    BY <1>4, <1>5, <1>9
  <2>2. 3 * Pending + part[s] \in 0..RingWords - 1
    BY <1>4, <1>5
  <2>3. Skip(i2xHead, 3 * j + k) # tail
    BY <1>3, <1>4, <1>9, <2>1, <2>2, SkipInjective
  <2>4. Skip(i2xHead, 3 * j + k) \in Offsets
    BY <1>3, <2>1, SkipInRing
  <2>. QED BY <1>1, <1>9, <2>3, <2>4 DEF IInv, TypeOK, InRing
<1>10. InRing(Pending, part[s])'
  BY <1>1, <1>3, <1>4 DEF IInv, TypeOK, InRing
<1>11. WordInv'
  <2>1. ASSUME NEW j \in 0..Pending - 1, NEW k \in 0..2 PROVE InRing(j, k)'
    <3>1. InRing(j, k)
      BY DEF IInv, WordInv
    <3>2. j \in Nat /\ 3 * j + k < 3 * Pending + part[s]
      BY <1>4, <1>5
    <3>. HIDE DEF Pending
    <3>. QED BY <1>9, <3>1, <3>2
  <2>2. ASSUME NEW k \in 0..part[s] - 1 PROVE InRing(Pending, k)'
    <3>1. InRing(Pending, k)
      BY <1>1 DEF IInv, WordInv
    <3>2. PICK p \in Nat : p = Pending
      BY <1>5
    <3>3. k \in 0..2 /\ 3 * p + k < 3 * p + part[s]
      BY <1>4, <3>2
    <3>4. InRing(p, k)
      BY <3>1, <3>2
    <3>5. InRing(p, k)'
      <4>. HIDE DEF Pending
      <4>. QED BY <1>9, <3>2, <3>3, <3>4
    <3>6. Pending' = p
      BY <1>1, <3>2
    <3>. QED BY <3>5, <3>6 DEF InRing
  <2>. QED BY <1>1, <1>2, <1>3, <1>10, <2>1, <2>2 DEF WordInv
<1>12. FirmwareInv'
  BY <1>1 DEF IInv, FirmwareInv
<1>. QED BY <1>6, <1>7, <1>8, <1>11, <1>12 DEF IInv

LEMMA LoadTailStep ==
    ASSUME SafeUse, IInv, NEW s \in Submitter, LoadTail(s)
    PROVE  IInv'
<1>1. /\ pc[s] = "load" /\ pc' = [pc EXCEPT ![s] = "store"]
      /\ reg' = [reg EXCEPT ![s] = tail]
      /\ UNCHANGED <<sram, tail, doorbell, fetched, executed, i2xHead, begun,
                     rung, cmd, part, target>>
  BY DEF LoadTail
<1>2. \A u \in Submitter : u = s
  BY DEF SafeUse
<1>3. pc'[s] = "store" /\ reg'[s] = tail
  BY <1>1 DEF IInv, TypeOK
<1>4. TypeOK'
  BY <1>1 DEF IInv, TypeOK
<1>5. CountInv'
  BY <1>1, <1>2, <1>3 DEF IInv, CountInv
<1>6. OffsetInv'
  BY <1>1, <1>2, <1>3 DEF IInv, OffsetInv
<1>7. WordInv'
  BY <1>1, <1>2, <1>3 DEF IInv, WordInv, InRing
<1>8. FirmwareInv'
  BY <1>1 DEF IInv, FirmwareInv
<1>. QED BY <1>4, <1>5, <1>6, <1>7, <1>8 DEF IInv

LEMMA StoreTailStep ==
    ASSUME SafeUse, IInv, NEW s \in Submitter, StoreTail(s)
    PROVE  IInv'
<1>1. /\ pc[s] = "store"
      /\ pc' = [pc EXCEPT ![s] = IF part[s] + 1 < 3 THEN "write" ELSE "ring"]
      /\ tail' = Skip(reg[s], 1)
      /\ part' = [part EXCEPT ![s] = @ + 1]
      /\ UNCHANGED <<sram, doorbell, fetched, executed, i2xHead, begun, rung,
                     cmd, reg, target>>
  BY DEF StoreTail
<1>2. \A u \in Submitter : u = s
  BY DEF SafeUse
<1>3. /\ part[s] \in 0..2 /\ reg[s] = tail
      /\ tail = Skip(i2xHead, 3 * Pending + part[s])
      /\ i2xHead \in Offsets /\ tail \in Offsets
  <2>1. part[s] \in 0..3 /\ part[s] < 3
    BY <1>1 DEF IInv, TypeOK, OffsetInv
  <2>. QED BY <1>1, <2>1 DEF IInv, TypeOK, OffsetInv
<1>4. /\ Len(executed) \in Nat /\ Pending \in Nat
      /\ 3 * Pending + 3 < RingWords
  BY <1>1, Room DEF IInv
<1>5. /\ pc'[s] = IF part[s] + 1 < 3 THEN "write" ELSE "ring"
      /\ part'[s] = part[s] + 1
  BY <1>1 DEF IInv, TypeOK
<1>6. tail' = Skip(i2xHead, 3 * Pending + part'[s])
  <2>1. tail' = Skip(Skip(i2xHead, 3 * Pending + part[s]), 1)
    BY <1>1, <1>3
  <2>2. /\ 3 * Pending + part[s] \in Nat
        /\ 3 * Pending + part[s] + 1 <= RingWords
        /\ 3 * Pending + part'[s] = 3 * Pending + part[s] + 1
    BY <1>3, <1>4, <1>5
  <2>. HIDE DEF Pending
  <2>. QED BY <1>3, <2>1, <2>2, SkipTwice
<1>7. TypeOK'
  <2>1. tail' \in Offsets
    BY <1>1, <1>3, SkipInRing
  <2>2. /\ part' \in [Submitter -> 0..3]
        /\ pc' \in [Submitter -> {"idle", "write", "load", "store", "ring",
                                  "wait"}]
    BY <1>1, <1>3 DEF IInv, TypeOK
  <2>. QED BY <1>1, <2>1, <2>2 DEF IInv, TypeOK
<1>8. CountInv'
  BY <1>1, <1>2, <1>5 DEF IInv, CountInv
<1>9. OffsetInv'
  <2>1. doorbell' = Skip(i2xHead', 3 * Pending')
    BY <1>1 DEF IInv, OffsetInv
  <2>2. CASE part[s] + 1 < 3
    BY <1>1, <1>2, <1>5, <1>6, <2>1, <2>2 DEF OffsetInv
  <2>3. CASE part[s] = 2
    BY <1>1, <1>2, <1>5, <1>6, <2>1, <2>3 DEF OffsetInv
  <2>. QED BY <1>3, <2>2, <2>3
<1>10. WordInv'
  <2>1. \A j \in 0..Pending - 1, k \in 0..2 : InRing(j, k)'
    BY <1>1 DEF IInv, WordInv, InRing
  <2>2. ASSUME NEW k \in 0..part[s] PROVE InRing(Pending, k)
    <3>. HIDE DEF Pending
    <3>1. CASE k = part[s]
      BY <1>1, <3>1 DEF IInv, WordInv
    <3>2. CASE k \in 0..part[s] - 1
      BY <1>1, <3>2 DEF IInv, WordInv
    <3>. QED BY <1>3, <3>1, <3>2
  <2>3. \A k \in 0..part'[s] - 1 : InRing(Pending, k)'
    BY <1>1, <1>3, <1>5, <2>2 DEF InRing
  <2>4. pc'[s] \notin {"load", "store"}
    BY <1>5
  <2>5. Pending' = Pending
    BY <1>1
  <2>. QED BY <1>2, <2>1, <2>3, <2>4, <2>5 DEF WordInv
<1>11. FirmwareInv'
  BY <1>1 DEF IInv, FirmwareInv
<1>. QED BY <1>7, <1>8, <1>9, <1>10, <1>11 DEF IInv

LEMMA RingDoorbellStep ==
    ASSUME SafeUse, IInv, NEW s \in Submitter, RingDoorbell(s)
    PROVE  IInv'
<1>1. /\ pc[s] = "ring" /\ pc' = [pc EXCEPT ![s] = "idle"]
      /\ doorbell' = tail
      /\ rung' = Append(rung, cmd[s])
      /\ UNCHANGED <<sram, tail, fetched, executed, i2xHead, begun, cmd, part,
                     reg, target>>
  BY DEF RingDoorbell
<1>2. \A u \in Submitter : u = s
  BY DEF SafeUse
<1>3. /\ Len(executed) \in Nat /\ Pending \in Nat /\ Len(rung) \in Nat
      /\ 3 * Pending + 3 < RingWords
  BY <1>1, Room DEF IInv
<1>4. /\ begun = Len(rung) + 1 /\ cmd[s] = begun /\ part[s] = 3
      /\ tail = Skip(i2xHead, 3 * Pending + 3)
  BY <1>1 DEF IInv, CountInv, OffsetInv
<1>5. /\ Len(rung') = Len(rung) + 1 /\ Pending' = Pending + 1
      /\ \A i \in 1..Len(rung) : rung'[i] = rung[i]
      /\ rung'[Len(rung) + 1] = cmd[s]
  BY <1>1, <1>3 DEF IInv, TypeOK
<1>6. pc'[s] = "idle"
  BY <1>1 DEF IInv, TypeOK
<1>7. TypeOK'
  <2>1. cmd[s] \in 1..MaxCommands
    BY <1>3, <1>4 DEF IInv, TypeOK
  <2>2. rung' \in Seq(1..MaxCommands)
    BY <1>1, <2>1 DEF IInv, TypeOK
  <2>. QED BY <1>1, <2>2 DEF IInv, TypeOK
<1>8. CountInv'
  <2>1. \A i \in 1..Len(rung') : rung'[i] = i
    BY <1>3, <1>4, <1>5 DEF IInv, CountInv
  <2>2. target[s] <= Len(rung')
    BY <1>3, <1>5 DEF IInv, TypeOK, CountInv
  <2>. QED BY <1>1, <1>2, <1>3, <1>4, <1>5, <1>6, <2>1, <2>2
           DEF IInv, CountInv
<1>9. OffsetInv'
  <2>1. 3 * Pending' = 3 * Pending + 3
    BY <1>3, <1>5
  <2>. QED BY <1>1, <1>2, <1>4, <1>6, <2>1 DEF OffsetInv
<1>10. WordInv'
  <2>1. ASSUME NEW j \in 0..Pending' - 1, NEW k \in 0..2 PROVE InRing(j, k)'
    <3>1. CASE j = Pending
      BY <1>1, <1>4, <3>1 DEF IInv, WordInv, InRing
    <3>2. CASE j \in 0..Pending - 1
      BY <1>1, <3>2 DEF IInv, WordInv, InRing
    <3>. QED BY <1>3, <1>5, <3>1, <3>2
  <2>. QED BY <1>2, <1>6, <2>1 DEF WordInv
<1>11. FirmwareInv'
  BY <1>1, <1>3, <1>5 DEF IInv, FirmwareInv
<1>. QED BY <1>7, <1>8, <1>9, <1>10, <1>11 DEF IInv

\* Beginning and ending a wait.
LEMMA WaitStep ==
    ASSUME SafeUse, IInv, NEW s \in Submitter,
           Wait(s) \/ WaitDone(s) \/ WaitTimeout(s)
    PROVE  IInv'
<1>1. /\ pc[s] \in {"idle", "wait"} /\ pc'[s] \in {"idle", "wait"}
      /\ pc' \in [Submitter -> {"idle", "write", "load", "store", "ring",
                                "wait"}]
      /\ UNCHANGED <<sram, tail, doorbell, fetched, executed, i2xHead, begun,
                     rung, cmd, part, reg>>
  BY DEF IInv, TypeOK, Wait, WaitDone, WaitTimeout
<1>2. target' \in [Submitter -> Nat] /\ target'[s] <= Len(rung)
  BY DEF IInv, TypeOK, CountInv, Wait, WaitDone, WaitTimeout
<1>3. \A u \in Submitter : u = s
  BY DEF SafeUse
<1>4. TypeOK'
  BY <1>1, <1>2 DEF IInv, TypeOK
<1>5. CountInv'
  BY <1>1, <1>2, <1>3 DEF IInv, CountInv
<1>6. OffsetInv'
  BY <1>1, <1>3 DEF IInv, OffsetInv
<1>7. WordInv'
  BY <1>1, <1>3 DEF IInv, WordInv, InRing
<1>8. FirmwareInv'
  BY <1>1 DEF IInv, FirmwareInv
<1>. QED BY <1>4, <1>5, <1>6, <1>7, <1>8 DEF IInv

LEMMA FetchStep == ASSUME SafeUse, IInv, Fetch PROVE IInv'
<1>1. /\ i2xHead # doorbell
      /\ fetched' = <<sram[i2xHead], sram[Skip(i2xHead, 1)],
                      sram[Skip(i2xHead, 2)]>>
      /\ UNCHANGED <<sram, tail, doorbell, executed, i2xHead, begun, rung, pc,
                     cmd, part, reg, target>>
  BY DEF Fetch
<1>2. /\ Len(executed) \in Nat /\ Pending \in Nat /\ i2xHead \in Offsets
      /\ 3 * Pending < RingWords
  BY Room DEF IInv, TypeOK
<1>3. Pending > 0
  <2>1. CASE Pending = 0
    <3>1. doorbell = Skip(i2xHead, 0)
      BY <2>1 DEF IInv, OffsetInv
    <3>. QED BY <1>1, <1>2, <3>1, SkipNothing
  <2>. QED BY <1>2, <2>1
<1>4. ASSUME NEW k \in 0..2
      PROVE  /\ sram[Skip(i2xHead, k)] = Word(Len(executed) + 1, k)
             /\ Skip(i2xHead, k) \in Offsets
  <2>1. InRing(0, k)
    BY <1>2, <1>3 DEF IInv, WordInv
  <2>2. k \in 0..RingWords
    BY <1>2, <1>3
  <2>. QED BY <1>2, <2>1, <2>2, SkipInRing DEF InRing
<1>5. fetched' = Packet(Len(executed) + 1)
  <2>1. sram[i2xHead] = Word(Len(executed) + 1, 0)
    BY <1>2, <1>4, SkipNothing
  <2>. QED BY <1>1, <1>4, <2>1 DEF Packet
<1>6. TypeOK'
  <2>1. /\ sram[i2xHead] \in Words /\ sram[Skip(i2xHead, 1)] \in Words
        /\ sram[Skip(i2xHead, 2)] \in Words
    BY <1>2, <1>4 DEF IInv, TypeOK
  <2>2. fetched' \in Words \X Words \X Words
    BY <1>1, <2>1
  <2>. QED BY <1>1, <2>2 DEF IInv, TypeOK
<1>7. CountInv' /\ OffsetInv' /\ WordInv'
  BY <1>1 DEF IInv, CountInv, OffsetInv, WordInv, InRing
<1>8. FirmwareInv'
  BY <1>1, <1>3, <1>5 DEF IInv, FirmwareInv
<1>. QED BY <1>6, <1>7, <1>8 DEF IInv

LEMMA CompleteStep == ASSUME SafeUse, IInv, Complete PROVE IInv'
<1>1. /\ fetched # NoPacket /\ fetched' = NoPacket
      /\ executed' = Append(executed, fetched)
      /\ i2xHead' = Skip(i2xHead, 3)
      /\ UNCHANGED <<sram, tail, doorbell, begun, rung, pc, cmd, part, reg,
                     target>>
  BY DEF Complete
<1>2. /\ Len(executed) \in Nat /\ Len(rung) \in Nat /\ Pending \in Nat
      /\ i2xHead \in Offsets /\ 3 * Pending < RingWords
  BY Room DEF IInv, TypeOK
<1>3. Pending > 0 /\ fetched = Packet(Len(executed) + 1)
  BY <1>1 DEF IInv, FirmwareInv
<1>4. fetched \in Words \X Words \X Words
  BY <1>1 DEF IInv, TypeOK
<1>5. /\ Len(executed') = Len(executed) + 1 /\ Pending' = Pending - 1
      /\ \A i \in 1..Len(executed) : executed'[i] = executed[i]
      /\ executed'[Len(executed) + 1] = fetched
      /\ executed' \in Seq(Words \X Words \X Words)
  BY <1>1, <1>2, <1>4 DEF IInv, TypeOK
<1>6. ASSUME NEW n \in Nat, n + 3 <= RingWords
      PROVE  Skip(i2xHead', n) = Skip(i2xHead, n + 3)
  <2>1. 3 + n = n + 3 /\ 3 + n <= RingWords
    BY <1>6
  <2>2. Skip(Skip(i2xHead, 3), n) = Skip(i2xHead, 3 + n)
    BY <1>2, <2>1, SkipTwice
  <2>. QED BY <1>1, <2>1, <2>2
<1>7. TypeOK'
  <2>1. i2xHead' \in Offsets
    BY <1>1, <1>2, <1>3, SkipInRing
  <2>. QED BY <1>1, <1>5, <2>1 DEF IInv, TypeOK
<1>8. CountInv'
  BY <1>1, <1>2, <1>3, <1>5 DEF IInv, TypeOK, CountInv
<1>9. PICK q \in Nat : Pending' = q /\ Pending = q + 1 /\ 3 * q + 3 < RingWords
  <2>1. Pending - 1 \in Nat /\ 3 * (Pending - 1) + 3 < RingWords
    BY <1>2, <1>3
  <2>2. Pending' = Pending - 1 /\ Pending = (Pending - 1) + 1
    BY <1>2, <1>5
  <2>. USE <2>1, <2>2
  <2>. WITNESS Pending - 1 \in Nat
  <2>. QED OBVIOUS
<1>10. Skip(i2xHead', 3 * q) = Skip(i2xHead, 3 * Pending)
  <2>1. 3 * q \in Nat /\ 3 * q + 3 = 3 * (q + 1) /\ 3 * q + 3 <= RingWords
    BY <1>9
  <2>. HIDE DEF Pending
  <2>. QED BY <1>6, <1>9, <2>1
<1>11. ASSUME NEW s \in Submitter, pc[s] \in Submitting
       PROVE  /\ 3 * q + 6 < RingWords /\ part[s] \in 0..3
              /\ Skip(i2xHead', 3 * q + part[s])
                    = Skip(i2xHead, 3 * Pending + part[s])
  <2>1. 3 * Pending + 3 < RingWords /\ part[s] \in 0..3
    BY <1>11, Room DEF IInv, TypeOK
  <2>2. 3 * q + 6 < RingWords
    <3>. HIDE DEF Pending
    <3>. QED BY <1>9, <2>1
  <2>3. /\ 3 * q + part[s] \in Nat /\ 3 * q + part[s] + 3 <= RingWords
        /\ 3 * q + part[s] + 3 = 3 * (q + 1) + part[s]
    BY <2>1, <2>2
  <2>. HIDE DEF Pending
  <2>. QED BY <1>6, <1>9, <2>1, <2>2, <2>3
<1>12. OffsetInv'
  BY <1>1, <1>9, <1>10, <1>11 DEF IInv, OffsetInv
<1>13. ASSUME NEW j \in Nat, NEW k \in Nat, InRing(j + 1, k),
              3 * (j + 1) + k <= RingWords
       PROVE  InRing(j, k)'
  <2>1. Skip(i2xHead', 3 * j + k) = Skip(i2xHead, 3 * (j + 1) + k)
    BY <1>6, <1>13
  <2>. QED BY <1>1, <1>2, <1>5, <1>13, <2>1 DEF InRing
<1>14. WordInv'
  <2>1. ASSUME NEW j \in 0..q - 1, NEW k \in 0..2 PROVE InRing(j, k)'
    <3>1. j + 1 \in 0..Pending - 1 /\ 3 * (j + 1) + k <= RingWords
      BY <1>9
    <3>2. InRing(j + 1, k)
      BY <3>1 DEF IInv, WordInv
    <3>. QED BY <1>13, <3>1, <3>2
  <2>2. ASSUME NEW s \in Submitter, pc[s] \in Submitting, NEW k \in 0..2,
               InRing(Pending, k)
        PROVE  InRing(q, k)'
    <3>1. 3 * (q + 1) + k <= RingWords
      BY <1>11, <2>2
    <3>2. InRing(q + 1, k)
      <4>. HIDE DEF Pending
      <4>. QED BY <1>9, <2>2
    <3>. QED BY <1>13, <3>1, <3>2
  <2>3. ASSUME NEW s \in Submitter, pc[s] \in Submitting,
               NEW k \in 0..part[s] - 1
        PROVE  InRing(q, k)'
    <3>1. k \in 0..2
      BY <1>11, <2>3
    <3>2. InRing(Pending, k)
      BY <2>3 DEF IInv, WordInv
    <3>. QED BY <2>2, <2>3, <3>1, <3>2
  <2>4. ASSUME NEW s \in Submitter, pc[s] \in {"load", "store"}
        PROVE  InRing(q, part[s])'
    <3>1. part[s] \in 0..2
      <4>1. part[s] \in 0..3
        BY DEF IInv, TypeOK
      <4>2. part[s] < 3
        BY <2>4 DEF IInv, OffsetInv
      <4>. QED BY <4>1, <4>2
    <3>2. InRing(Pending, part[s])
      BY <2>4 DEF IInv, WordInv
    <3>3. pc[s] \in Submitting
      BY <2>4
    <3>. HIDE DEF Pending
    <3>4. \A k \in 0..2 : InRing(Pending, k) => InRing(q, k)'
      BY <2>2, <3>3
    <3>. QED BY <1>1, <3>1, <3>2, <3>4 DEF InRing
  <2>. QED BY <1>1, <1>9, <2>1, <2>3, <2>4 DEF WordInv, InRing
<1>15. FirmwareInv'
  BY <1>1, <1>2, <1>3, <1>5 DEF IInv, FirmwareInv
<1>. QED BY <1>7, <1>8, <1>12, <1>14, <1>15 DEF IInv

LEMMA NextIInv == ASSUME SafeUse, IInv, [Next]_vars PROVE IInv'
<1>1. CASE Next
  BY <1>1, SubmitStep, WriteWordStep, LoadTailStep, StoreTailStep,
     RingDoorbellStep, WaitStep, FetchStep, CompleteStep DEF Next
<1>2. CASE UNCHANGED vars
  BY <1>2 DEF IInv, TypeOK, CountInv, OffsetInv, WordInv, InRing, FirmwareInv,
              vars
<1>. QED BY <1>1, <1>2

LEMMA Invariance == SafeUse /\ Spec => []IInv
<1>. SUFFICES ASSUME SafeUse PROVE Spec => []IInv
  OBVIOUS
<1>1. Init => IInv
  BY InitIInv
<1>2. IInv /\ [Next]_vars => IInv'
  BY NextIInv
<1>. QED BY <1>1, <1>2, PTL DEF Spec

-----------------------------------------------------------------------------
\* Used safely, the ring's variables keep their types: the tail never leaves the
\* ring, and no packet is written past its end (lines 77-87).
THEOREM TypeCorrect == SafeUse /\ Spec => []TypeOK
<1>1. IInv => TypeOK
  BY DEF IInv
<1>. QED BY <1>1, Invariance, PTL

\* Used safely, the firmware reads every packet whole, and in the order of the
\* doorbells (lines 95-113), over any number of laps of a ring of any size.
THEOREM RingInOrder == SafeUse /\ Spec => []PacketsInOrder
<1>1. IInv => PacketsInOrder
  <2>. SUFFICES ASSUME IInv PROVE PacketsInOrder
    OBVIOUS
  <2>1. Len(rung) \in Nat /\ Len(executed) \in Nat
    BY DEF IInv, TypeOK
  <2>. QED BY <2>1 DEF IInv, CountInv, FirmwareInv, PacketsInOrder
<1>. QED BY <1>1, Invariance, PTL

\* Used safely, a wait that returns 0 means that everything submitted before it
\* has been executed (lines 118-131), although it compares offsets only.
THEOREM WaitIsCompletion == SafeUse /\ Spec => WaitMeansDone
<1>. SUFFICES ASSUME SafeUse PROVE Spec => WaitMeansDone
  OBVIOUS
<1>1. ASSUME IInv, NEW s \in Submitter, WaitDone(s)
      PROVE  Len(executed) >= target[s]
  <2>1. /\ i2xHead = Skip(i2xHead, 3 * Pending) /\ i2xHead \in Offsets
        /\ target[s] <= Len(rung) /\ target[s] \in Nat
    BY <1>1 DEF IInv, TypeOK, CountInv, OffsetInv, WaitDone
  <2>2. /\ Len(rung) \in Nat /\ Len(executed) \in Nat
        /\ Pending \in Nat /\ 3 * Pending < RingWords
    BY <1>1, Room DEF IInv
  <2>3. Skip(i2xHead, 0) = Skip(i2xHead, 3 * Pending)
    BY <2>1, SkipNothing
  <2>4. 3 * Pending = 0
    BY <2>1, <2>2, <2>3, SkipInjective
  <2>. QED BY <2>1, <2>2, <2>4
<1>2. IInv /\ [Next]_vars =>
      [\A s \in Submitter : WaitDone(s) => Len(executed) >= target[s]]_vars
  BY <1>1
<1>3. Spec => []IInv
  BY Invariance
<1>. QED BY <1>2, <1>3, PTL DEF Spec, WaitMeansDone

-----------------------------------------------------------------------------
(* The refinement: what the queue's caller sees of a step.                  *)

Done == [i \in 1..Len(executed) |-> CommandOf(executed[i])]

\* The number in a packet's words is its command's.
LEMMA PacketNamesCommand == ASSUME NEW c PROVE CommandOf(Packet(c)) = c
BY DEF CommandOf, Packet, Word

\* What has been executed is what was sent first.
LEMMA DoneIsPrefix ==
    ASSUME IInv
    PROVE  Done = [i \in 1..Len(executed) |-> i]
BY PacketNamesCommand DEF IInv, FirmwareInv, Done

\* The sequence that counts up to n grows by n + 1.
LEMMA CountingUp ==
    ASSUME NEW n \in Nat
    PROVE  /\ Len([i \in 1..n |-> i]) = n
           /\ Append([i \in 1..n |-> i], n + 1) = [i \in 1..n + 1 |-> i]
<1>. DEFINE c == [i \in 1..n |-> i]
            d == [i \in 1..n + 1 |-> i]
<1>1. c \in Seq(Nat) /\ Len(c) = n /\ \A i \in 1..n : c[i] = i
  OBVIOUS
<1>2. d \in Seq(Nat) /\ Len(d) = n + 1 /\ \A i \in 1..n + 1 : d[i] = i
  OBVIOUS
<1>. HIDE DEF c, d
<1>3. /\ Append(c, n + 1) \in Seq(Nat) /\ Len(Append(c, n + 1)) = n + 1
      /\ \A i \in 1..n : Append(c, n + 1)[i] = c[i]
      /\ Append(c, n + 1)[n + 1] = n + 1
  BY <1>1, AppendProperties
<1>4. \A i \in 1..n + 1 : Append(c, n + 1)[i] = d[i]
  BY <1>1, <1>2, <1>3
<1>5. Append(c, n + 1) = d
  BY <1>2, <1>3, <1>4, SeqEqual
<1>. QED BY <1>1, <1>5 DEF c, d

LEMMA InitQueue == ASSUME Init PROVE Queue!Init
BY DEF Init, Queue!Init

LEMMA RingIsSend ==
    ASSUME SafeUse, IInv, NEW s \in Submitter, RingDoorbell(s)
    PROVE  Queue!Next
<1>1. /\ pc[s] = "ring" /\ rung' = Append(rung, cmd[s])
      /\ executed' = executed
  BY DEF RingDoorbell
<1>2. cmd[s] \in Command
  <2>1. begun \in 0..MaxCommands /\ Len(rung) \in Nat
    BY DEF IInv, TypeOK
  <2>2. cmd[s] = begun /\ begun = Len(rung) + 1
    BY <1>1 DEF IInv, CountInv
  <2>. QED BY <2>1, <2>2
<1>. QED BY <1>1, <1>2 DEF Queue!Next, Queue!Send

LEMMA CompleteIsExecute == ASSUME IInv, Complete PROVE Queue!Next
<1>1. /\ fetched # NoPacket /\ executed' = Append(executed, fetched)
      /\ rung' = rung
  BY DEF Complete
<1>2. /\ Len(executed) \in Nat /\ Len(rung) \in Nat
      /\ fetched \in Words \X Words \X Words
      /\ executed \in Seq(Words \X Words \X Words)
  BY <1>1 DEF IInv, TypeOK
<1>3. Pending > 0 /\ fetched = Packet(Len(executed) + 1)
  BY <1>1 DEF IInv, FirmwareInv
<1>4. Len(executed') = Len(executed) + 1 /\ Len(executed) < Len(rung)
  BY <1>1, <1>2, <1>3
<1>5. rung[Len(executed) + 1] = Len(executed) + 1
  BY <1>2, <1>4 DEF IInv, CountInv
<1>6. Done = [i \in 1..Len(executed) |-> i]
  BY DoneIsPrefix
<1>7. Done' = [i \in 1..Len(executed) + 1 |-> i]
  <2>1. \A i \in 1..Len(executed) + 1 : executed'[i] = Packet(i)
    BY <1>1, <1>2, <1>3 DEF IInv, FirmwareInv
  <2>. QED BY <1>4, <2>1, PacketNamesCommand DEF Done
<1>8. Done' = Append(Done, Len(executed) + 1) /\ Len(Done) = Len(executed)
  BY <1>2, <1>6, <1>7, CountingUp
<1>. QED BY <1>1, <1>4, <1>5, <1>8 DEF Queue!Next, Queue!Execute, Done

\* No other step shows.
LEMMA OthersAreHidden ==
    ASSUME UNCHANGED <<rung, executed>>
    PROVE  UNCHANGED Queue!vars
BY DEF Queue!vars

\* Used safely, the ring is a queue: submit_packet sends one command, the
\* firmware executes the oldest one not yet executed, and nothing else is ever
\* seen by a caller (lines 95-131).
THEOREM ImplementsQueue ==
    SafeUse /\ Spec => Queue!Init /\ [][Queue!Next]_(Queue!vars)
<1>. SUFFICES ASSUME SafeUse
              PROVE  Spec => Queue!Init /\ [][Queue!Next]_(Queue!vars)
  OBVIOUS
<1>1. Init => Queue!Init
  BY InitQueue
<1>2. IInv /\ [Next]_vars => [Queue!Next]_(Queue!vars)
  <2>. SUFFICES ASSUME IInv, [Next]_vars
                PROVE  [Queue!Next]_(Queue!vars)
    OBVIOUS
  <2>1. ASSUME NEW s \in Submitter, RingDoorbell(s)
        PROVE  Queue!Next
    BY <2>1, RingIsSend
  <2>2. CASE Complete
    BY <2>2, CompleteIsExecute
  <2>3. ASSUME NEW s \in Submitter,
               \/ Submit(s) \/ WriteWord(s) \/ LoadTail(s) \/ StoreTail(s)
               \/ Wait(s) \/ WaitDone(s) \/ WaitTimeout(s)
        PROVE  UNCHANGED Queue!vars
    <3>1. UNCHANGED <<rung, executed>>
      BY <2>3 DEF Submit, WriteWord, LoadTail, StoreTail, Wait, WaitDone,
                  WaitTimeout
    <3>. QED BY <3>1, OthersAreHidden
  <2>4. CASE Fetch \/ UNCHANGED vars
    <3>1. UNCHANGED <<rung, executed>>
      BY <2>4 DEF Fetch, vars
    <3>. QED BY <3>1, OthersAreHidden
  <2>. QED BY <2>1, <2>2, <2>3, <2>4 DEF Next
<1>3. Spec => []IInv
  BY Invariance
<1>. QED BY <1>1, <1>2, <1>3, PTL DEF Spec
=============================================================================
