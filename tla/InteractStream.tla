--------------------------- MODULE InteractStream ---------------------------
(***************************************************************************)
(* One call of the RPC  Interact(stream HostMessage) returns (stream       *)
(* AgentEvent)  of proto/chamber_agent.proto, seen from the transport and  *)
(* from the host's end of it: ChatStream in src-tauri/src/agent_runtime.rs *)
(* driven by the event loop of send_message in src-tauri/src/main.rs.      *)
(*                                                                         *)
(* The sidecar's end is left to the modules that extend this one           *)
(* (RustSidecar, GoSidecar, PySidecar): they append to  events , advance   *)
(* sent  and  read  and set  response .                                    *)
(*                                                                         *)
(* Both directions are logs that only grow, read through cursors, so that  *)
(* a message is identified by its position. What a position stands for     *)
(* (an approval, say) can then be named by whoever acted on it.            *)
(***************************************************************************)
EXTENDS ChamberProtocol

CONSTANTS
  Outcomes,      \* what the host may answer to an ApprovalRequest
  RogueMessages, \* messages a client that is not send_message may add
  MaxMessages    \* bound on the length of the request stream for those

ASSUME StreamAssumption ==
  /\ Outcomes \subseteq {"approved", "denied"}
  /\ RogueMessages \subseteq Message
  /\ MaxMessages \in Nat

VARIABLES
  token,     \* whether the call carries the sidecar's token
  msgs,      \* request stream: every HostMessage the client has sent
  read,      \* how many of them the sidecar has read
  events,    \* response stream: every AgentEvent the sidecar has queued
  sent,      \* how many of them the sidecar's transport has taken
  delivered, \* how many of them the host has received
  link,      \* "up", "dropped" (by the host) or "lost" (transport, crash)
  response,  \* "open", "ended" (status OK) or "rejected" (an error status)
  host       \* where the host's loop stands

streamVars == <<token, msgs, read, events, sent, delivered, link, response, host>>

StreamTypeOK ==
  /\ token \in BOOLEAN
  /\ msgs \in Seq(Message)
  /\ read \in 0..Len(msgs)
  /\ events \in Seq(AgentEvent)
  /\ sent \in 0..Len(events)
  /\ delivered \in 0..sent
  /\ link \in {"up", "dropped", "lost"}
  /\ response \in {"open", "ended", "rejected"}
  /\ host \in {"opening", "receiving", "answering", "finished"}

StreamInit ==
  /\ token \in BOOLEAN
  /\ msgs = <<>> /\ read = 0
  /\ events = <<>> /\ sent = 0 /\ delivered = 0
  /\ link = "up" /\ response = "open" /\ host = "opening"

-----------------------------------------------------------------------------
(* The host. *)

Prompt == [session |-> "own", kind |-> "prompt", id |-> NoCall]
Decision(outcome, id) == [session |-> "own", kind |-> outcome, id |-> id]

(* ChatStream is dropped: its response stream and its request sender. *)
DropStream == host' = "finished" /\ link' = "dropped"

(* interactive_chat puts the prompt on the request stream and opens the call. *)
HostOpens ==
  /\ host = "opening" /\ link = "up"
  /\ msgs' = Append(msgs, Prompt)
  /\ host' = "receiving"
  /\ UNCHANGED <<token, read, events, sent, delivered, link, response>>

(* events.message() returns an event. A terminal one ends the loop, and    *)
(* with it the stream; an ApprovalRequest is answered before the next      *)
(* message() call.                                                         *)
HostReceives ==
  /\ host = "receiving" /\ link = "up" /\ delivered < sent
  /\ delivered' = delivered + 1
  /\ LET kind == events[delivered + 1].kind IN
       \/ kind \in Terminal /\ DropStream
       \/ kind = "request" /\ host' = "answering" /\ UNCHANGED link
       \/ kind \notin Terminal \cup {"request"} /\ UNCHANGED <<host, link>>
  /\ UNCHANGED <<token, msgs, read, events, sent, response>>

(* send_approval_decision for the request just received. main.rs always    *)
(* approves; agent-smoke.rs also denies. Once the call is over the request  *)
(* stream may be closed, and send_message returns an error.                *)
HostAnswers ==
  /\ host = "answering" /\ link = "up"
  /\ \/ /\ \E outcome \in Outcomes :
            msgs' = Append(msgs, Decision(outcome, events[delivered].id))
        /\ host' = "receiving" /\ UNCHANGED link
     \/ response # "open" /\ DropStream /\ UNCHANGED msgs
  /\ UNCHANGED <<token, read, events, sent, delivered, response>>

(* message() returns None or a status: send_message returns an error.      *)
HostSeesEnd ==
  /\ host = "receiving" /\ link = "up"
  /\ response = "rejected" \/ (response = "ended" /\ delivered = sent)
  /\ DropStream
  /\ UNCHANGED <<token, msgs, read, events, sent, delivered, response>>

(* The  cancelled  arm of either select! in send_message. *)
HostCancels ==
  /\ host \in {"opening", "receiving"} /\ link = "up"
  /\ DropStream
  /\ UNCHANGED <<token, msgs, read, events, sent, delivered, response>>

(* The connection fails, or the host process dies. *)
LinkFails ==
  /\ link = "up"
  /\ link' = "lost" /\ host' = "finished"
  /\ UNCHANGED <<token, msgs, read, events, sent, delivered, response>>

(* A client other than send_message sends what the contract does not rule out. *)
RogueSends ==
  /\ link = "up" /\ Len(msgs) < MaxMessages
  /\ \E m \in RogueMessages : msgs' = Append(msgs, m)
  /\ UNCHANGED <<token, read, events, sent, delivered, link, response, host>>

HostNext ==
  \/ HostOpens \/ HostReceives \/ HostAnswers \/ HostSeesEnd
  \/ HostCancels \/ LinkFails \/ RogueSends

(* The host's task is scheduled; nobody has to cancel, crash or misbehave. *)
HostProgress == HostOpens \/ HostReceives \/ HostAnswers \/ HostSeesEnd

-----------------------------------------------------------------------------
(* What the sidecars' modules share. *)

(* The transport takes the next queued event and puts it on the wire. *)
Transmit ==
  /\ sent < Len(events)
  /\ sent' = sent + 1
  /\ UNCHANGED <<token, msgs, read, events, delivered, link, response, host>>
=============================================================================
