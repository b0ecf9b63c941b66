------------------------------ MODULE MCStream ------------------------------
(* Stream on a file of at most MaxFile bytes, opened in each of these ways. *)
EXTENDS Stream

Mode(r, w, a, t, b) ==
  [read |-> r, write |-> w, append |-> a, truncate |-> t, buffering |-> b]

MCModes ==
  {Mode(TRUE, FALSE, FALSE, FALSE, b) : b \in {"full", "none"}}          \* r
  \cup {Mode(FALSE, TRUE, FALSE, TRUE, b) : b \in {"full", "line", "none"}} \* w
  \cup {Mode(TRUE, TRUE, FALSE, FALSE, b) : b \in {"full", "none"}}      \* r+
  \cup {Mode(FALSE, TRUE, TRUE, FALSE, b) : b \in {"full", "line"}}      \* a
  \cup {Mode(TRUE, TRUE, TRUE, FALSE, "full")}                           \* a+

\* The last call and its result are observed in the step that makes them;
\* no action and no invariant reads them afterwards.
Unobserved == <<s, open, dir>>
=============================================================================
