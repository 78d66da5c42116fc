---------------------------- MODULE RustSidecar ----------------------------
(***************************************************************************)
(* The Rust sidecar's end of one Interact call: RuntimeServer::interact    *)
(* and run_agent (sidecar-rust/src/server.rs), ApprovalBridge and          *)
(* ApprovalState (bridge.rs), lens::validate and lens::write as run_agent  *)
(* uses them (lens.rs).                                                    *)
(*                                                                         *)
(* Two tasks share the approval map: the runner, which is run_agent, and   *)
(* the reader of the request stream. Each action is what one of them does  *)
(* between two awaits. The mutex on the map is never held across an await, *)
(* so it needs no variable.                                                *)
(***************************************************************************)
EXTENDS InteractStream

CONSTANTS
  Capacity,  \* of the channel of events: 64 in the code
  Batches,   \* the tool calls the model may make in one round
  MaxRounds, \* bound on the rounds with tool calls
  MaxEvents  \* bound on the event count below which the model still streams text

ASSUME RustAssumption ==
  /\ Capacity \in Nat \ {0}
  /\ Batches \subseteq Seq(CallIds) \ {<<>>}
  /\ MaxRounds \in Nat /\ MaxEvents \in Nat

VARIABLES
  runner,   \* where run_agent stands; "idle" before it is spawned
  calls,    \* the tool calls of the round still to be handled
  round,    \* rounds with tool calls so far
  pending,  \* ids with a oneshot sender in ApprovalState
  slot,     \* the oneshot of the call being asked for: Empty, Dropped or the
            \* position of the decision it holds
  grant,    \* the position of the approval the running tool call has
  reader,   \* the reader task
  receiver, \* whether the response stream still holds events_rx
  writes    \* the lens writes so far

runnerVars == <<runner, calls, round, grant, writes>>
approvalVars == <<pending, slot>>
vars == <<streamVars, runnerVars, approvalVars, reader, receiver>>

Empty == 0
Dropped == -1

TypeOK ==
  /\ StreamTypeOK
  /\ runner \in {"idle", "started", "streaming", "register", "ask", "wait",
                 "tool", "announce", "fail", "complete", "done"}
  /\ calls \in Seq(CallIds)
  /\ round \in 0..MaxRounds
  /\ pending \subseteq CallIds
  /\ slot \in Nat \cup {Dropped}
  /\ grant \in Nat
  /\ reader \in {"idle", "reading", "stopped", "aborted"}
  /\ receiver \in BOOLEAN
  /\ writes \subseteq Writes

Init ==
  /\ StreamInit
  /\ runner = "idle" /\ calls = <<>> /\ round = 0
  /\ pending = {} /\ slot = Empty /\ grant = 0
  /\ reader = "idle" /\ receiver = TRUE /\ writes = {}

-----------------------------------------------------------------------------
(* RuntimeServer::interact. *)

(* Wrong token, an empty request stream, or a first message that is no prompt. *)
InteractRejects ==
  /\ runner = "idle" /\ response = "open"
  /\ \/ ~token
     \/ read < Len(msgs) /\ msgs[read + 1].kind # "prompt"
     \/ read = Len(msgs) /\ link # "up"
  /\ response' = "rejected"
  /\ UNCHANGED <<token, msgs, read, events, sent, delivered, link, host,
                 runnerVars, approvalVars, reader, receiver>>

InteractAccepts ==
  /\ runner = "idle" /\ response = "open" /\ token
  /\ read < Len(msgs) /\ msgs[read + 1].kind = "prompt"
  /\ read' = read + 1
  /\ runner' = "started" /\ reader' = "reading"
  /\ UNCHANGED <<token, msgs, events, sent, delivered, link, response, host,
                 calls, round, grant, writes, approvalVars, receiver>>

-----------------------------------------------------------------------------
(* The runner. *)

(* run_agent returns: the task aborts the reader and the bridge is dropped. *)
Return ==
  /\ runner' = "done"
  /\ reader' = IF reader = "reading" THEN "aborted" ELSE reader

Room == Len(events) - sent < Capacity

(* ApprovalBridge::emit waits for room in the channel and then succeeds. *)
EmitOk(event) ==
  /\ receiver /\ Room
  /\ events' = Append(events, event)

(* It fails once the receiving end of the channel is gone. *)
EmitErr == ~receiver /\ UNCHANGED events

\* Mutant of EmitThen: try_send, whose refusal by a full channel is overlooked.
TryEmitThen(event, next) ==
  \/ EmitOk(event) /\ runner' = next /\ UNCHANGED reader
  \/ receiver /\ ~Room /\ UNCHANGED events /\ runner' = next /\ UNCHANGED reader
  \/ EmitErr /\ Return

(* emit, followed by the next step or, on failure, by return. *)
EmitThen(event, next) ==
  \/ EmitOk(event) /\ runner' = next /\ UNCHANGED reader
  \/ EmitErr /\ Return

(* emit as the last thing run_agent does: a failure is ignored. *)
EmitLast(event) == (EmitOk(event) \/ EmitErr) /\ Return

OtherThanEvents ==
  UNCHANGED <<token, msgs, read, sent, delivered, link, response, host, receiver>>

EmitStarted ==
  /\ runner = "started"
  /\ EmitThen(Signal("started"), "streaming")
  /\ OtherThanEvents /\ UNCHANGED <<calls, round, grant, writes, approvalVars>>

EmitText ==
  /\ runner = "streaming" /\ Len(events) < MaxEvents
  /\ EmitThen(Signal("text"), "streaming")
  /\ OtherThanEvents /\ UNCHANGED <<calls, round, grant, writes, approvalVars>>

(* The completion ends: with tool calls, without any, or in an error. *)
ModelEnds ==
  /\ runner = "streaming"
  /\ \/ /\ round < MaxRounds /\ round' = round + 1
        /\ calls' \in Batches /\ runner' = "register"
     \/ runner' \in {"complete", "fail"} /\ UNCHANGED <<calls, round>>
  /\ UNCHANGED <<streamVars, grant, writes, approvalVars, reader, receiver>>

Call == Head(calls)

(* request_approval: the sender goes into the map before the request goes out. *)
Register ==
  /\ runner = "register"
  /\ pending' = pending \cup {Call} /\ slot' = Empty
  /\ runner' = "ask"
  /\ UNCHANGED <<streamVars, calls, round, grant, writes, reader, receiver>>

EmitRequest ==
  /\ runner = "ask"
  /\ EmitThen(Request(Call), "wait")
  /\ IF receiver THEN UNCHANGED approvalVars
                 ELSE pending' = pending \ {Call} /\ slot' = Empty
  /\ OtherThanEvents /\ UNCHANGED <<calls, round, grant, writes>>

(* The next tool call of the round or, after the last, the next completion. *)
NextCall ==
  /\ calls' = Tail(calls)
  /\ runner' = IF Len(calls) = 1 THEN "streaming" ELSE "register"

\* Mutant of TakeDecision: what is not a denial counts as an approval.
TakeDecisionLoosely ==
  /\ runner = "wait" /\ slot # Empty
  /\ \/ slot = Dropped /\ Return /\ UNCHANGED <<calls, grant>>
     \/ /\ slot # Dropped /\ msgs[slot].kind # "denied"
        /\ runner' = "tool" /\ grant' = slot /\ UNCHANGED <<calls, reader>>
     \/ /\ slot # Dropped /\ msgs[slot].kind = "denied"
        /\ NextCall /\ UNCHANGED <<grant, reader>>
  /\ slot' = Empty
  /\ UNCHANGED <<streamVars, round, writes, pending, receiver>>

(* rx.await returns: the decision, or an error because the sender is gone. *)
TakeDecision ==
  /\ runner = "wait" /\ slot # Empty
  /\ \/ slot = Dropped /\ Return /\ UNCHANGED <<calls, grant>>
     \/ /\ slot # Dropped /\ msgs[slot].kind = "approved"
        /\ runner' = "tool" /\ grant' = slot /\ UNCHANGED <<calls, reader>>
     \/ /\ slot # Dropped /\ msgs[slot].kind # "approved"
        /\ NextCall /\ UNCHANGED <<grant, reader>>
  /\ slot' = Empty
  /\ UNCHANGED <<streamVars, round, writes, pending, receiver>>

\* Mutant of RunTool: the error of the second write is not looked at.
RunToolHopefully ==
  /\ runner = "tool"
  /\ \/ runner' = "fail" /\ UNCHANGED writes
     \/ /\ runner' = "announce"
        /\ \E whole \in BOOLEAN : writes' = writes \cup {Write(Call, grant, 0, whole)}
  /\ UNCHANGED <<streamVars, calls, round, grant, approvalVars, reader, receiver>>

(* lens::validate fails, lens::write fails before, between or in one of its  *)
(* two files, or both files are written.                                     *)
RunTool ==
  /\ runner = "tool"
  /\ \/ runner' = "fail"
        /\ writes' \in {writes, writes \cup {Write(Call, grant, 0, FALSE)}}
     \/ runner' = "announce"
        /\ writes' = writes \cup {Write(Call, grant, 0, TRUE)}
  /\ UNCHANGED <<streamVars, calls, round, grant, approvalVars, reader, receiver>>

EmitLens ==
  /\ runner = "announce"
  /\ \/ EmitOk(Lens(Call, grant, 0)) /\ NextCall /\ UNCHANGED reader
     \/ EmitErr /\ Return /\ UNCHANGED calls
  /\ OtherThanEvents /\ UNCHANGED <<round, grant, writes, approvalVars>>

\* Mutant of EmitError: the error path returns without an event.
ErrorUnsaid ==
  /\ runner = "fail" /\ Return /\ UNCHANGED events
  /\ OtherThanEvents /\ UNCHANGED <<calls, round, grant, writes, approvalVars>>

(* Every error path of run_agent emits a RuntimeError and returns. *)
EmitError ==
  /\ runner = "fail" /\ EmitLast(Signal("error"))
  /\ OtherThanEvents /\ UNCHANGED <<calls, round, grant, writes, approvalVars>>

EmitCompleted ==
  /\ runner = "complete" /\ EmitLast(Signal("completed"))
  /\ OtherThanEvents /\ UNCHANGED <<calls, round, grant, writes, approvalVars>>

RunnerNext ==
  \/ EmitStarted \/ EmitText \/ ModelEnds \/ Register \/ EmitRequest
  \/ TakeDecision \/ RunTool \/ EmitLens \/ EmitError \/ EmitCompleted

-----------------------------------------------------------------------------
(* The reader. *)

\* Mutant of HandleMessage: the sender is looked up but not removed.
HandleMessageKeeping ==
  /\ reader = "reading" /\ read < Len(msgs)
  /\ read' = read + 1
  /\ LET m == msgs[read + 1] IN
       IF m.kind # "prompt" /\ m.id \in pending
         THEN slot' = read + 1 /\ UNCHANGED pending
         ELSE UNCHANGED approvalVars
  /\ UNCHANGED <<token, msgs, events, sent, delivered, link, response, host,
                 runnerVars, reader, receiver>>

(* handle_decision fills the oneshot of the id it names, if there is one. The *)
(* decision's session is not looked at; a prompt is skipped.                  *)
HandleMessage ==
  /\ reader = "reading" /\ read < Len(msgs)
  /\ read' = read + 1
  /\ LET m == msgs[read + 1] IN
       IF m.kind # "prompt" /\ m.id \in pending
         THEN pending' = pending \ {m.id} /\ slot' = read + 1
         ELSE UNCHANGED approvalVars
  /\ UNCHANGED <<token, msgs, events, sent, delivered, link, response, host,
                 runnerVars, reader, receiver>>

(* The host dropped the call: next() returns None, and the loop just ends. *)
ReadEnd ==
  /\ reader = "reading" /\ link = "dropped"
  /\ reader' = "stopped"
  /\ UNCHANGED <<streamVars, runnerVars, approvalVars, receiver>>

(* next() returns an error: cancel_all drops every sender. *)
ReadError ==
  /\ reader = "reading" /\ link # "up"
  /\ pending' = {} /\ slot' = IF pending # {} THEN Dropped ELSE slot
  /\ reader' = "stopped"
  /\ UNCHANGED <<streamVars, runnerVars, receiver>>

ReaderNext == HandleMessage \/ ReadEnd \/ ReadError

-----------------------------------------------------------------------------
(* tonic. *)

(* The client is gone, so the response stream and its events_rx are dropped. *)
DropReceiver ==
  /\ receiver /\ runner # "idle" /\ link # "up"
  /\ receiver' = FALSE
  /\ UNCHANGED <<streamVars, runnerVars, approvalVars, reader>>

\* Mutant of TransmitEvent: the stream is polled past the last queued event.
TransmitPastEnd ==
  /\ receiver /\ runner # "idle" /\ sent' = sent + 1
  /\ UNCHANGED <<token, msgs, read, events, delivered, link, response, host,
                 runnerVars, approvalVars, reader, receiver>>

TransmitEvent ==
  /\ receiver /\ Transmit
  /\ UNCHANGED <<runnerVars, approvalVars, reader, receiver>>

(* ReceiverStream ends once the senders are dropped and the channel is empty. *)
EndResponse ==
  /\ runner = "done" /\ receiver /\ sent = Len(events) /\ response = "open"
  /\ response' = "ended"
  /\ UNCHANGED <<token, msgs, read, events, sent, delivered, link, host,
                 runnerVars, approvalVars, reader, receiver>>

TonicNext == DropReceiver \/ TransmitEvent \/ EndResponse

HostStep == HostNext /\ UNCHANGED <<runnerVars, approvalVars, reader, receiver>>

Next ==
  \/ InteractRejects \/ InteractAccepts
  \/ RunnerNext \/ ReaderNext \/ TonicNext \/ HostStep

Spec == Init /\ [][Next]_vars

(* Tasks are scheduled, the provider answers, the filesystem returns, and a   *)
(* host that is connected keeps reading. Nobody has to cancel or to crash.    *)
Fairness ==
  /\ WF_vars(InteractRejects \/ InteractAccepts)
  /\ WF_vars(RunnerNext) /\ WF_vars(ReaderNext)
  /\ WF_vars(DropReceiver) /\ WF_vars(TransmitEvent) /\ WF_vars(EndResponse)
  /\ WF_vars(HostProgress /\ UNCHANGED <<runnerVars, approvalVars, reader, receiver>>)

FairSpec == Spec /\ Fairness

-----------------------------------------------------------------------------
(* Properties. *)

(* The approval gate. Every lens write was made under a decision of this     *)
(* call's own request stream that approves this very tool call, and no       *)
(* decision pays for two writes: a stale, repeated or misdirected answer     *)
(* handled by the reader task never reaches the disk.                        *)
GateHolds ==
  /\ \A w \in writes : w.by <= read /\ Approves(msgs, w.by, w.id)
  /\ \A v, w \in writes : v.by = w.by => v = w

(* The oneshot, the map and the runner agree. A runner waiting on an empty   *)
(* oneshot has its sender in the map, so the answer can still reach it; and  *)
(* a decision in the oneshot names the call being waited for, although the   *)
(* reader filled it knowing only the map.                                    *)
DecisionsMatch ==
  /\ runner \in {"ask", "wait"} =>
       /\ pending = IF slot = Empty THEN {Call} ELSE {}
       /\ slot \notin {Empty, Dropped} => msgs[slot].id = Call
  /\ runner \notin {"ask", "wait"} => pending = {} /\ slot = Empty

(* A call that is not cut off ends with status OK only after a Completed or  *)
(* an Error: send_message takes any other end for the sidecar's failure      *)
(* (main.rs, "stream ended" arm).                                            *)
EndsWithTerminal ==
  response = "ended" /\ link = "up" =>
    events # <<>> /\ events[Len(events)].kind \in Terminal

(* The turn as the host and the disk see it. Each request is answered and    *)
(* its call run before the next: none is under another's approval.           *)
Turn == INSTANCE AgentTurn WITH Places <- {0}, Repeated <- {}
TurnHolds == Turn!Spec

(* A host that has opened a call is released from it: by a terminal event,   *)
(* a status, its own cancellation or a lost connection.                      *)
HostIsReleased == host = "receiving" ~> host = "finished"

(* "Dropping the stream unblocks everything": once the client is gone the    *)
(* turn ends, wherever it was. The code does not keep this promise.          *)
DropUnblocks == link # "up" /\ runner # "idle" ~> runner = "done"

(* "Three outcomes, none of which kill the turn": an approved call whose     *)
(* lens is malformed or cannot be written is answered to the model, and the  *)
(* turn goes on. The Rust sidecar ends it with an Error event.               *)
ToolFailureKeepsTurn == [][runner = "tool" => runner' # "fail"]_vars
=============================================================================
