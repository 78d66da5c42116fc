---------------------------- MODULE MCGoSidecar ----------------------------
(* GoSidecar on a small instance. *)
EXTENDS GoSidecar, TLC

CONSTANTS c1, c2

(* A run may ask for two calls, or for one in two requests. What a second    *)
(* run repeats of a first is passed over, as processed ids are kept.         *)
MCBatches == {<<c1, c2>>, <<c2, c2>>}

(* Answers nobody asked this client for (early, repeated, or late for the    *)
(* next call with the same id), one without an outcome, one that claims      *)
(* another session, and a second prompt.                                     *)
MCRogues ==
  {Decision("approved", c1), Decision("unset", c1), Prompt,
   [Decision("approved", c1) EXCEPT !.session = "other"]}

MCNoRogues == {}
=============================================================================
