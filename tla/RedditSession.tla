--------------------------- MODULE RedditSession ----------------------------
(***************************************************************************)
(* The Reddit feed: tools/reddit_scraper.py keeps the comments of a post   *)
(* in a session file, which "fetch" writes and "recheck" reads, fetches    *)
(* again and merges.  .github/workflows/reddit-check.yml runs it on a      *)
(* fresh checkout every six hours and commits the file; by hand the tool   *)
(* is run on the file the last run has left.                               *)
(* A comment is recorded under an id; the two ways of fetching spell the   *)
(* id of a comment differently ("t1_x" in the HTML, "x" from PRAW).        *)
(***************************************************************************)
EXTENDS Naturals

CONSTANTS Comment,      \* comments that may be posted
          Terse,        \* those under ten characters
          Noise,        \* those that contain a phrase of skip_patterns
          Folded,       \* those the HTML page has behind a "load more" link
          Modes,        \* the ways a run may fetch: "html", "praw"
          MaxFailures   \* bound: runs that fail or are killed

ASSUME ConstantsOK == /\ Terse \cup Noise \cup Folded \subseteq Comment
                      /\ Modes \subseteq {"html", "praw"}
                      /\ MaxFailures \in Nat

VARIABLES
    ci,        \* the tool is run by the workflow, not by hand
    page,      \* the comments now on Reddit
    file,      \* the session file
    head,      \* the session file in the repository's last commit
    pc,        \* where the run is
    command,   \* "fetch" or "recheck"
    old,       \* old_session: the ids read from the file
    fresh,     \* new_session: the ids just fetched
    failures

vars == <<ci, page, file, head, pc, command, old, fresh, failures>>

Id(mode, c) == <<mode, c>>

\* BUG: comments are recorded under something that is no id.
SnapshotWithoutIds(mode) == {c : c \in page}

\* The HTML parser skips what it takes for the sidebar, then what is too short,
\* and does not follow links; PRAW is told to load everything.
Skipped(mode) == IF mode = "html" THEN Terse \cup Noise \cup Folded ELSE {}

Snapshot(mode) == {Id(mode, c) : c \in page \ Skipped(mode)}

Whole(ids) == [state |-> "whole", ids |-> ids]
Torn == [state |-> "torn", ids |-> {}]

\* The repository starts with a session that was fetched from the HTML.
Init == /\ ci \in BOOLEAN
        /\ page \in SUBSET Comment
        /\ head = Whole(Snapshot("html"))
        /\ file = head
        /\ pc = "idle"
        /\ command = "recheck"
        /\ old = {}
        /\ fresh = {}
        /\ failures = 0

-----------------------------------------------------------------------------
(* Reddit.                                                                  *)

Post(c) == /\ c \notin page
           /\ page' = page \cup {c}
           /\ UNCHANGED <<ci, file, head, pc, command, old, fresh, failures>>

Remove(c) == /\ c \in page
             /\ page' = page \ {c}
             /\ UNCHANGED <<ci, file, head, pc, command, old, fresh, failures>>

-----------------------------------------------------------------------------
(* One run.                                                                 *)

\* The workflow's job starts from the last commit; it fetches instead of
\* rechecking when it is dispatched with force=true.
Start(cmd) ==
    /\ pc = "idle"
    /\ command' = cmd
    /\ file' = IF ci THEN head ELSE file
    /\ pc' = IF cmd = "fetch" THEN "fetch" ELSE "load"
    /\ old' = {}
    /\ fresh' = {}
    /\ UNCHANGED <<ci, page, head, failures>>

\* do_recheck reads the session; a torn one does not parse, and the run ends.
Load ==
    /\ pc = "load"
    /\ IF file.state = "whole"
       THEN old' = file.ids /\ pc' = "fetch"
       ELSE pc' = "idle" /\ UNCHANGED old
    /\ UNCHANGED <<ci, page, file, head, command, fresh, failures>>

Fetch(mode) ==
    /\ pc = "fetch"
    /\ fresh' = Snapshot(mode)
    /\ pc' = "open_fetched"
    /\ UNCHANGED <<ci, page, file, head, command, old, failures>>

\* write_text empties the file and then fills it.  do_recheck has called
\* do_fetch without an output path, so the file it is about to merge into holds,
\* for a while, what has just been fetched and nothing else.
OpenFetched ==
    /\ pc = "open_fetched"
    /\ file' = Torn
    /\ pc' = "fill_fetched"
    /\ UNCHANGED <<ci, page, head, command, old, fresh, failures>>

FillFetched ==
    /\ pc = "fill_fetched"
    /\ file' = Whole(fresh)
    /\ pc' = IF command = "fetch" THEN "done" ELSE "open_merged"
    /\ UNCHANGED <<ci, page, head, command, old, fresh, failures>>

OpenMerged ==
    /\ pc = "open_merged"
    /\ file' = Torn
    /\ pc' = "fill_merged"
    /\ UNCHANGED <<ci, page, head, command, old, fresh, failures>>

\* BUG: what has not been seen before is not added.
MergedOldOnly == old

\* Old comments stay, those whose id has not been seen are added.
Merged == old \cup {i \in fresh : i \notin old}

FillMerged ==
    /\ pc = "fill_merged"
    /\ file' = Whole(Merged)
    /\ pc' = "done"
    /\ UNCHANGED <<ci, page, head, command, old, fresh, failures>>

\* The workflow commits and pushes what the scraper has left; by hand there is
\* nothing more to do.
Done ==
    /\ pc = "done"
    /\ head' = IF ci THEN file ELSE head
    /\ pc' = "idle"
    /\ UNCHANGED <<ci, page, file, command, old, fresh, failures>>

\* BUG: the workflow commits even when the scraper has failed.
FailAndCommit ==
    /\ pc # "idle"
    /\ failures < MaxFailures
    /\ failures' = failures + 1
    /\ pc' = "idle"
    /\ head' = IF ci THEN file ELSE head
    /\ UNCHANGED <<ci, page, file, command, old, fresh>>

\* The run is killed, the network fails, or the push is rejected.
Fail ==
    /\ pc # "idle"
    /\ failures < MaxFailures
    /\ failures' = failures + 1
    /\ pc' = "idle"
    /\ UNCHANGED <<ci, page, file, head, command, old, fresh>>

-----------------------------------------------------------------------------
Run == \/ Load \/ OpenFetched \/ FillFetched \/ OpenMerged \/ FillMerged \/ Done
       \/ \E mode \in Modes : Fetch(mode)

Next == \/ \E c \in Comment : Post(c) \/ Remove(c)
        \/ \E cmd \in {"fetch", "recheck"} : Start(cmd)
        \/ Run
        \/ Fail

\* The workflow is scheduled for ever and a run that does not fail goes on.
Spec == Init /\ [][Next]_vars /\ WF_vars(ci /\ Start("recheck")) /\ WF_vars(Run)

-----------------------------------------------------------------------------
(* Properties.                                                              *)

Ids == {Id(mode, c) : mode \in {"html", "praw"}, c \in Comment}

\* Types of the feed's state.
TypeOK ==
    /\ ci \in BOOLEAN /\ page \subseteq Comment
    /\ file \in [state : {"whole", "torn"}, ids : SUBSET Ids]
    /\ head \in [state : {"whole", "torn"}, ids : SUBSET Ids]
    /\ pc \in {"idle", "load", "fetch", "open_fetched", "fill_fetched",
               "open_merged", "fill_merged", "done"}
    /\ command \in {"fetch", "recheck"}
    /\ old \subseteq Ids /\ fresh \subseteq Ids
    /\ failures \in 0..MaxFailures

\* What the repository holds always parses, and only a forced fetch makes it
\* forget a comment: however the runs fail, and although every recheck first
\* overwrites the file with the comments still on Reddit, a failed job commits
\* nothing.
CommittedKeepsAll ==
    [][/\ head'.state = "whole"
       /\ command = "recheck" => head.ids \subseteq head'.ids]_vars

\* When the workflow runs it, a comment that stays on Reddit and that no way of
\* fetching skips gets into the repository, although in between runs fail and
\* come back to the last commit.
CommentsArrive ==
    \A c \in Comment \ UNION {Skipped(mode) : mode \in Modes} :
        ci /\ <>[](c \in page) => <>(\E mode \in Modes : Id(mode, c) \in head.ids)
=============================================================================
