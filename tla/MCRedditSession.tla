--------------------------- MODULE MCRedditSession --------------------------
(* RedditSession with three comments, of which the HTML parser keeps one.     *)
EXTENDS RedditSession
=============================================================================
