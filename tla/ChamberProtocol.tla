-------------------------- MODULE ChamberProtocol --------------------------
(***************************************************************************)
(* The messages of proto/chamber_agent.proto, reduced to what the turn     *)
(* protocol tells apart. Text, tool arguments and lens contents are        *)
(* abstracted; a tool call is its id.                                      *)
(***************************************************************************)
EXTENDS Integers, Sequences, FiniteSets

CONSTANTS
  CallIds, \* the tool_call_ids the model may use
  NoCall   \* the id of a message or event that concerns no tool call

ASSUME NoCallAssumption == NoCall \notin CallIds

(* HostMessage: a prompt, or an ApprovalDecision with its outcome ("unset": *)
(* a decision whose oneof is empty), for the call's own session or another. *)
Message == [session : {"own", "other"},
            kind    : {"prompt", "approved", "denied", "unset"},
            id      : CallIds \cup {NoCall}]

(***************************************************************************)
(* AgentEvent: its payload and the call it is about. A LensChanged snapshot *)
(* is told apart by the write it shows:  by  is the position in the request *)
(* stream of the approval it was made under,  at  the place of its request  *)
(* among those of its run. Both are 0 in every other event.                 *)
(***************************************************************************)
EventKinds == {"started", "text", "request", "lens", "completed", "error"}
Terminal == {"completed", "error"}
AgentEvent == [kind : EventKinds, id : CallIds \cup {NoCall}, by : Nat, at : Nat]

Event(kind, id, by, at) == [kind |-> kind, id |-> id, by |-> by, at |-> at]
Signal(kind) == Event(kind, NoCall, 0, 0)
Request(id) == Event("request", id, 0, 0)
Lens(id, by, at) == Event("lens", id, by, at)

(* The message at position k of the log approves a call of the given id. *)
Approves(log, k, id) ==
  k \in 1..Len(log) /\ log[k].kind = "approved" /\ log[k].id = id

(* A lens write: the call that made it, the approval it was made under and   *)
(* the place of its request (as in a LensChanged), and whether both files    *)
(* were written. at is 0 where requests are asked and run one at a time.     *)
Write(id, by, at, whole) == [id |-> id, by |-> by, at |-> at, whole |-> whole]
Writes == [id : CallIds, by : Nat, at : Nat, whole : BOOLEAN]
=============================================================================
