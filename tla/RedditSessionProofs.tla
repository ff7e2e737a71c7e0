------------------------- MODULE RedditSessionProofs -------------------------
(***************************************************************************)
(* Proofs about RedditSession, for any comments, any ways of fetching and  *)
(* any number of runs that fail.                                           *)
(***************************************************************************)
EXTENDS RedditSession, TLAPS

\* The steps of a run after the session has been read.
Merging == {"fetch", "open_fetched", "fill_fetched", "open_merged",
            "fill_merged", "done"}

\* Only a recheck reads the session and merges into it.
CommandInv == pc \in {"load", "open_merged", "fill_merged"} => command = "recheck"

\* A run that ends well leaves a whole session, and the old one in it.
FileInv ==
    pc = "done" => /\ file.state = "whole"
                   /\ command = "recheck" => old \subseteq file.ids

\* In the workflow the session that is read is the one last committed.
HeadInv ==
    /\ head.state = "whole"
    /\ ci /\ pc = "load" => file = head
    /\ ci /\ pc \in Merging /\ command = "recheck" => head.ids \subseteq old

IInv == TypeOK /\ CommandInv /\ FileInv /\ HeadInv

-----------------------------------------------------------------------------
LEMMA SnapshotIsIds ==
    ASSUME page \subseteq Comment, NEW mode \in {"html", "praw"}
    PROVE  Snapshot(mode) \subseteq Ids
  BY DEF Snapshot, Ids, Id

LEMMA WholeFacts ==
    ASSUME NEW ids \in SUBSET Ids
    PROVE  /\ Whole(ids) \in [state : {"whole", "torn"}, ids : SUBSET Ids]
           /\ Whole(ids).state = "whole" /\ Whole(ids).ids = ids
  BY DEF Whole

LEMMA TornFacts == Torn \in [state : {"whole", "torn"}, ids : SUBSET Ids]
  BY DEF Torn

LEMMA InitIInv == Init => IInv
  <1> SUFFICES ASSUME Init PROVE IInv
    OBVIOUS
  <1>1. Snapshot("html") \in SUBSET Ids
    BY SnapshotIsIds DEF Init
  <1>2. TypeOK
    BY <1>1, WholeFacts, ConstantsOK DEF Init, TypeOK
  <1>3. CommandInv /\ FileInv
    BY DEF Init, CommandInv, FileInv
  <1>4. HeadInv
    BY <1>1, WholeFacts DEF Init, HeadInv, Merging
  <1> QED
    BY <1>2, <1>3, <1>4 DEF IInv

LEMMA RedditKeeps ==
    ASSUME IInv, NEW c \in Comment, Post(c) \/ Remove(c) PROVE IInv'
  <1>1. UNCHANGED <<ci, file, head, pc, command, old, fresh, failures>>
    BY DEF Post, Remove
  <1>2. page' \subseteq Comment
    BY DEF IInv, TypeOK, Post, Remove
  <1>3. TypeOK'
    BY <1>1, <1>2 DEF IInv, TypeOK, Ids
  <1> QED
    BY <1>1, <1>3 DEF IInv, CommandInv, FileInv, HeadInv

LEMMA StartKeeps ==
    ASSUME IInv, NEW cmd \in {"fetch", "recheck"}, Start(cmd) PROVE IInv'
  <1>1. TypeOK'
    BY DEF IInv, TypeOK, Start
  <1>2. CommandInv'
    BY DEF Start, CommandInv
  <1>3. FileInv'
    BY DEF Start, FileInv
  <1>4. HeadInv'
    BY DEF IInv, Start, HeadInv, Merging
  <1> QED
    BY <1>1, <1>2, <1>3, <1>4 DEF IInv

LEMMA LoadKeeps == ASSUME IInv, Load PROVE IInv'
  <1>1. TypeOK'
    BY DEF IInv, TypeOK, Load
  <1>2. CommandInv' /\ FileInv'
    BY DEF IInv, Load, CommandInv, FileInv
  <1>3. HeadInv'
    BY DEF IInv, Load, HeadInv, Merging
  <1> QED
    BY <1>1, <1>2, <1>3 DEF IInv

LEMMA FetchKeeps == ASSUME IInv, NEW mode \in Modes, Fetch(mode) PROVE IInv'
  <1>1. Snapshot(mode) \subseteq Ids
    BY ConstantsOK, SnapshotIsIds DEF IInv, TypeOK
  <1>2. TypeOK'
    BY <1>1 DEF IInv, TypeOK, Fetch
  <1>3. CommandInv' /\ FileInv' /\ HeadInv'
    BY DEF IInv, Fetch, CommandInv, FileInv, HeadInv, Merging
  <1> QED
    BY <1>2, <1>3 DEF IInv

\* The file is emptied, or filled with what has been fetched and a recheck is not
\* done yet.
LEMMA OpenFetchedKeeps == ASSUME IInv, OpenFetched PROVE IInv'
  <1>1. TypeOK'
    BY TornFacts DEF IInv, TypeOK, OpenFetched
  <1>2. CommandInv' /\ FileInv' /\ HeadInv'
    BY DEF IInv, OpenFetched, CommandInv, FileInv, HeadInv, Merging
  <1> QED
    BY <1>1, <1>2 DEF IInv

LEMMA FillFetchedKeeps == ASSUME IInv, FillFetched PROVE IInv'
  <1>1. fresh \in SUBSET Ids
    BY DEF IInv, TypeOK
  <1>2. TypeOK'
    BY <1>1, WholeFacts DEF IInv, TypeOK, FillFetched
  <1>3. CommandInv'
    BY DEF IInv, TypeOK, FillFetched, CommandInv
  <1>4. FileInv'
    BY <1>1, WholeFacts DEF FillFetched, FileInv
  <1>5. HeadInv'
    BY DEF IInv, FillFetched, HeadInv, Merging
  <1> QED
    BY <1>2, <1>3, <1>4, <1>5 DEF IInv

LEMMA OpenMergedKeeps == ASSUME IInv, OpenMerged PROVE IInv'
  <1>1. TypeOK'
    BY TornFacts DEF IInv, TypeOK, OpenMerged
  <1>2. CommandInv' /\ FileInv' /\ HeadInv'
    BY DEF IInv, OpenMerged, CommandInv, FileInv, HeadInv, Merging
  <1> QED
    BY <1>1, <1>2 DEF IInv

LEMMA FillMergedKeeps == ASSUME IInv, FillMerged PROVE IInv'
  <1>1. Merged \in SUBSET Ids /\ old \subseteq Merged
    BY DEF IInv, TypeOK, Merged
  <1>2. TypeOK'
    BY <1>1, WholeFacts DEF IInv, TypeOK, FillMerged
  <1>3. FileInv'
    BY <1>1, WholeFacts DEF FillMerged, FileInv
  <1>4. CommandInv' /\ HeadInv'
    BY DEF IInv, FillMerged, CommandInv, HeadInv, Merging
  <1> QED
    BY <1>2, <1>3, <1>4 DEF IInv

LEMMA DoneKeeps == ASSUME IInv, Done PROVE IInv'
  <1>1. TypeOK'
    BY DEF IInv, TypeOK, Done
  <1>2. CommandInv' /\ FileInv' /\ HeadInv'
    BY DEF IInv, Done, CommandInv, FileInv, HeadInv, Merging
  <1> QED
    BY <1>1, <1>2 DEF IInv

LEMMA FailKeeps == ASSUME IInv, Fail PROVE IInv'
  <1>1. TypeOK'
    BY ConstantsOK DEF IInv, TypeOK, Fail
  <1>2. CommandInv' /\ FileInv' /\ HeadInv'
    BY DEF IInv, Fail, CommandInv, FileInv, HeadInv, Merging
  <1> QED
    BY <1>1, <1>2 DEF IInv

LEMMA NextIInv == IInv /\ [Next]_vars => IInv'
  <1> SUFFICES ASSUME IInv, [Next]_vars PROVE IInv'
    OBVIOUS
  <1>1. CASE UNCHANGED vars
    BY <1>1 DEF vars, IInv, TypeOK, CommandInv, FileInv, HeadInv
  <1>2. CASE Next
    BY <1>2, RedditKeeps, StartKeeps, LoadKeeps, FetchKeeps, OpenFetchedKeeps,
       FillFetchedKeeps, OpenMergedKeeps, FillMergedKeeps, DoneKeeps, FailKeeps
       DEF Next, Run
  <1> QED
    BY <1>1, <1>2

LEMMA Invariance == Spec => []IInv
  BY InitIInv, NextIInv, PTL DEF Spec

\* The session's fields keep their types (what fetch_comments and merge record).
THEOREM TypeCorrect == Spec => []TypeOK
  <1>1. IInv => TypeOK
    BY DEF IInv
  <1> QED
    BY <1>1, Invariance, PTL

\* The workflow commits whole sessions only, and a recheck only ones that hold all
\* that was committed before (reddit-check.yml's commit after the scraper).
THEOREM CommitsKeepAll == Spec => CommittedKeepsAll
  <1>1. ASSUME IInv, [Next]_vars
        PROVE  [/\ head'.state = "whole"
                /\ command = "recheck" => head.ids \subseteq head'.ids]_vars
    <2>1. CASE head' = head
      BY <1>1, <2>1 DEF IInv, HeadInv
    <2>2. CASE Done
      BY <1>1, <2>2 DEF IInv, FileInv, HeadInv, Merging, Done
    <2> QED
      BY <1>1, <2>1, <2>2
         DEF Next, Run, Post, Remove, Start, Load, Fetch, OpenFetched, FillFetched,
             OpenMerged, FillMerged, Fail, vars
  <1> QED
    BY <1>1, Invariance, PTL DEF Spec, CommittedKeepsAll
=============================================================================
