----------------------------- MODULE MCChatHost -----------------------------
(* ChatHost on a small instance: two requests compete for one session. *)
EXTENDS ChatHost, TLC

CONSTANTS s1, s2

MCSessionOf == 1 :> s1 @@ 2 :> s2 @@ 3 :> s1
=============================================================================
