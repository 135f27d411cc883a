--------------------------- MODULE MCThreadQueue ---------------------------
(* An instance of ThreadQueue for TLC.                                      *)
EXTENDS ThreadQueue

\* Two producers of one task and a task that posts another one.
OnePostEach == [p \in Posters |-> 1]
============================================================================
