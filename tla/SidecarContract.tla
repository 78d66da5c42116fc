--------------------------- MODULE SidecarContract ---------------------------
(***************************************************************************)
(* What the rest of the app may expect of a sidecar process, seen through  *)
(* the handle it holds (AgentHost in src-tauri/src/main.rs): it is there   *)
(* only once the process has been talked to, nothing outlives it, and      *)
(* neither a start nor a stop takes for ever.                              *)
(***************************************************************************)

VARIABLES
  handle,  \* "none", "starting", "up", "stopping" or "gone"
  process  \* "off", "running" or "ended"

contractVars == <<handle, process>>

Init == handle = "none" /\ process = "off"

Spawn ==
  /\ handle = "none" /\ handle' = "starting"
  /\ process' = "running"

(* A start succeeds only with a process that runs. *)
Up ==
  /\ handle = "starting" /\ handle' = "up"
  /\ process = "running" /\ UNCHANGED process

Stop == handle = "up" /\ handle' = "stopping" /\ UNCHANGED process

(* A start fails, a stop is over, or the app dies: the process may be killed *)
(* with it, but may also have some way to go.                                *)
LetGo ==
  /\ handle \in {"none", "starting", "up", "stopping"} /\ handle' = "gone"
  /\ UNCHANGED process \/ (process = "running" /\ process' = "ended")

End ==
  /\ process = "running" /\ process' = "ended"
  /\ UNCHANGED handle

Next == Spawn \/ Up \/ Stop \/ LetGo \/ End

Spec == Init /\ [][Next]_contractVars

Returns == /\ handle = "starting" ~> handle # "starting"
           /\ handle = "stopping" ~> handle # "stopping"

NothingIsLeft == handle = "gone" ~> process # "running"
=============================================================================
