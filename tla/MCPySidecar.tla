---------------------------- MODULE MCPySidecar ---------------------------
(* PySidecar on a small instance. *)
EXTENDS PySidecar, TLC

CONSTANTS c1, c2

\* A round has two calls, or two with one id.
MCBatches == {<<c1>>, <<c1, c2>>, <<c2, c2>>}

(* Answers nobody asked this client for (early, repeated, or late for the    *)
(* next call with the same id), one without an outcome, one that claims      *)
(* another session, and a second prompt.                                     *)
MCRogues ==
  {Decision("approved", c1), Decision("unset", c1), Prompt,
   [Decision("approved", c1) EXCEPT !.session = "other"]}

MCNoRogues == {}
=============================================================================
