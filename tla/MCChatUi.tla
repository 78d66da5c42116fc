------------------------------ MODULE MCChatUi ------------------------------
(* ChatUi on a small instance. *)
EXTENDS ChatUi, TLC

MCSessionOf == [r \in Requests |-> Demo]
=============================================================================
