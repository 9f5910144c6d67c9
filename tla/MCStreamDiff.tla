---------------------------- MODULE MCStreamDiff ----------------------------
(* Streams with the shapes that matter: a commit header before and between  *)
(* hunks, a hunk without object ids, a hunk longer than HunkLimit.          *)
EXTENDS StreamDiff

Setup(stdin, cap, paged) == [stdin |-> stdin, semCap |-> cap, queueCap |-> cap, hasPager |-> paged]

\* Two permits and three hunks without a pager; a pager that may exit at any moment in
\* front of two hunks with one permit, of raw text between hunks, and of hunks that are
\* dumped.
MCSetups == {
  Setup(<<"diff", "index", "diff", "index", "diff", "index">>, 2, FALSE),
  Setup(<<"diff", "index", "diff", "index">>, 1, TRUE),
  Setup(<<"note", "diff", "index", "commit", "note">>, 2, TRUE),
  Setup(<<"diff", "body", "diff", "index", "body", "body">>, 2, TRUE) }

\* git log -p --oneline: every header is the line before a diff.
OnelineLog == {Setup(<<"note", "diff", "index", "note", "diff", "index">>, 2, FALSE)}
=============================================================================
