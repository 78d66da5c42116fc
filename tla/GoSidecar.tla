----------------------------- MODULE GoSidecar -----------------------------
(***************************************************************************)
(* The Go sidecar's end of one Interact call: RuntimeServer.Interact and   *)
(* runInteractiveAgent (sidecar-go/internal/server/server.go),             *)
(* ApprovalBridge (bridge.go), and the lens_upsert tool of                 *)
(* internal/agent/agent.go with lens.Validate and lens.Write.              *)
(*                                                                         *)
(* Three goroutines share the bridge: the pump (Interact itself), the      *)
(* reader and the runner. Emit sends on a bounded channel while it holds   *)
(* the bridge's mutex, so the mutex may be held across a wait; every other *)
(* critical section is one step, taken while the mutex is free.            *)
(*                                                                         *)
(* The agent framework is external: a run executes a tool for each approved *)
(* response it was given, one after the other, streams text, and ends with *)
(* the approvals it wants, with none, or with an error. Its requests have  *)
(* ids of their own (RequestID), two of them may be for one tool call id.  *)
(***************************************************************************)
EXTENDS InteractStream

CONSTANTS
  Capacity,  \* of the channel of events: 64 in the code
  Batches,   \* the approval requests a run may end with
  MaxRounds, \* bound on the runs that end with approval requests
  MaxEvents  \* bound on the event count below which a run still streams text

ASSUME GoAssumption ==
  /\ Capacity \in Nat \ {0}
  /\ Batches \subseteq Seq(CallIds) \ {<<>>}
  /\ MaxRounds \in Nat /\ MaxEvents \in Nat

(* Where a request may stand in its batch, and the ids a batch may repeat:   *)
(* seenRequests drops a request that was seen, not a call id that was.       *)
Places == UNION {DOMAIN b : b \in Batches}
Repeated == {id \in CallIds :
               \E b \in Batches : \E i, j \in DOMAIN b : i # j /\ b[i] = id /\ b[j] = id}

VARIABLES
  runner,    \* where runInteractiveAgent stands; "idle" before it is started
  requests,  \* approvalRequests of the last run: the tool call ids
  place,     \* which of them the loop over them is at
  decisions, \* the decision each id has in that loop: its position, or 0
  round,     \* runs that ended with approval requests so far
  processed, \* processedToolCallIDs
  grants,    \* approved userResponses, as places: the next run's tool calls
  mu,        \* bridge.mu: "free", or held by the runner waiting inside Emit
  closed,    \* bridge.closed: "no", "clean" (closeErr is nil) or "error"
  cancelled, \* whether ctx is done
  pending,   \* the ids in bridge.pending
  slot,      \* the buffer of the runner's decision channel: 0 or a position
  slotOpen,  \* whether that channel is open
  reader,    \* the reader goroutine
  pump,      \* the loop of Interact that sends the events
  writes     \* the lens writes so far

loopVars == <<requests, place, decisions>>
agentVars == <<loopVars, round, processed, grants, writes>>
slotVars == <<pending, slot, slotOpen>>
vars == <<streamVars, runner, agentVars, mu, closed, cancelled, slotVars, reader, pump>>

TypeOK ==
  /\ StreamTypeOK
  /\ runner \in {"idle", "started", "loop", "run", "announce", "ask", "register",
                 "wait", "leave", "giveup", "fail", "complete", "closing", "done"}
  /\ requests \in Seq(CallIds) /\ place \in Nat
  /\ decisions \in [CallIds -> Nat]
  /\ round \in 0..MaxRounds
  /\ processed \subseteq CallIds
  /\ grants \in Seq(Nat)
  /\ mu \in {"free", "runner"}
  /\ closed \in {"no", "clean", "error"}
  /\ cancelled \in BOOLEAN
  /\ pending \subseteq CallIds
  /\ slot \in Nat /\ slotOpen \in BOOLEAN
  /\ reader \in {"idle", "reading", "closing", "cancelling", "stopped"}
  /\ pump \in {"idle", "running", "returned"}
  /\ writes \subseteq Writes

Undecided == [id \in CallIds |-> 0]

Init ==
  /\ StreamInit
  /\ runner = "idle" /\ requests = <<>> /\ place = 0 /\ decisions = Undecided
  /\ round = 0 /\ processed = {} /\ grants = <<>>
  /\ mu = "free" /\ closed = "no" /\ cancelled = FALSE
  /\ pending = {} /\ slot = 0 /\ slotOpen = TRUE
  /\ reader = "idle" /\ pump = "idle" /\ writes = {}

-----------------------------------------------------------------------------
(* Interact. *)

(* Wrong token, no first message, or a first message that is no prompt. *)
InteractRejects ==
  /\ runner = "idle" /\ response = "open"
  /\ \/ ~token
     \/ read < Len(msgs) /\ msgs[read + 1].kind # "prompt"
     \/ read = Len(msgs) /\ link # "up"
  /\ response' = "rejected"
  /\ UNCHANGED <<token, msgs, read, events, sent, delivered, link, host, runner,
                 agentVars, mu, closed, cancelled, slotVars, reader, pump>>

InteractAccepts ==
  /\ runner = "idle" /\ response = "open" /\ token
  /\ read < Len(msgs) /\ msgs[read + 1].kind = "prompt"
  /\ read' = read + 1
  /\ runner' = "started" /\ reader' = "reading" /\ pump' = "running"
  /\ UNCHANGED <<token, msgs, events, sent, delivered, link, response, host,
                 agentVars, mu, closed, cancelled, slotVars>>

(* The pump takes an event from the channel and sends it. *)
PumpSends ==
  /\ pump = "running" /\ Transmit
  /\ UNCHANGED <<runner, agentVars, mu, closed, cancelled, slotVars, reader, pump>>

\* Mutant of PumpFails: a closed and drained channel still yields an event.
PumpFailsEmpty ==
  /\ pump = "running" /\ link # "up"
  /\ sent' = sent + 1
  /\ pump' = "returned" /\ cancelled' = TRUE
  /\ UNCHANGED <<token, msgs, read, events, delivered, link, response, host,
                 runner, agentVars, mu, closed, slotVars, reader>>

(* Send fails: Interact returns, and its deferred cancel runs. The event is lost. *)
PumpFails ==
  /\ pump = "running" /\ link # "up" /\ sent < Len(events)
  /\ sent' = sent + 1
  /\ pump' = "returned" /\ cancelled' = TRUE
  /\ UNCHANGED <<token, msgs, read, events, delivered, link, response, host,
                 runner, agentVars, mu, closed, slotVars, reader>>

(* The channel is closed and drained: Interact returns nil, which is status OK. *)
PumpEnds ==
  /\ pump = "running" /\ closed # "no" /\ sent = Len(events)
  /\ pump' = "returned" /\ cancelled' = TRUE /\ response' = "ended"
  /\ UNCHANGED <<token, msgs, read, events, sent, delivered, link, host,
                 runner, agentVars, mu, closed, slotVars, reader>>

(* grpc cancels the stream's context, the parent of ctx, with the call. *)
StreamCancelled ==
  /\ pump = "running" /\ link # "up" /\ ~cancelled
  /\ cancelled' = TRUE
  /\ UNCHANGED <<streamVars, runner, agentVars, mu, closed, slotVars, reader, pump>>

-----------------------------------------------------------------------------
(* The bridge. *)

\* Mutant of Close: the waiting approvals fail, but the channel stays open.
CloseWaitersOnly(how) ==
  /\ mu = "free"
  /\ pending' = {} /\ slotOpen' = (slotOpen /\ pending = {})
  /\ UNCHANGED <<closed, slot>>

(* Close, while the mutex is free: only the first call has an effect. *)
Close(how) ==
  /\ mu = "free"
  /\ IF closed = "no"
       THEN /\ closed' = how /\ pending' = {}
            /\ slotOpen' = (slotOpen /\ pending = {})
       ELSE UNCHANGED <<closed, pending, slotOpen>>
  /\ UNCHANGED slot

(* The request at hand. *)
Call == requests[place]

Room == Len(events) - sent < Capacity

\* Mutant of EmitOk: no look at closed before the send.
EmitUnchecked(event) ==
  /\ Room
  /\ events' = Append(events, event) /\ mu' = "free"

(* Emit puts the event in the channel, at once or after a wait ... *)
EmitOk(event) ==
  /\ mu = "runner" \/ closed = "no"
  /\ Room
  /\ events' = Append(events, event) /\ mu' = "free"

(* ... that it spends with the mutex in its hands. *)
EmitWaits ==
  /\ runner \in {"started", "run", "announce", "ask", "fail", "complete"}
  /\ mu = "free" /\ closed = "no" /\ ~Room
  /\ runner = "run" => grants = <<>> /\ Len(events) < MaxEvents
  /\ runner = "ask" => decisions[Call] = 0
  /\ mu' = "runner"
  /\ UNCHANGED <<streamVars, runner, agentVars, closed, cancelled, slotVars, reader, pump>>

EmitErr == mu = "free" /\ closed # "no" /\ UNCHANGED <<events, mu>>

(* runInteractiveAgent returns; its deferred Close is a step of its own. *)
Return == runner' = "closing"

EmitThen(event, next) ==
  \/ EmitOk(event) /\ runner' = next
  \/ EmitErr /\ Return

(* Emit with its error ignored. *)
EmitAnyway(event, next) == (EmitOk(event) \/ EmitErr) /\ runner' = next

OtherThanEmit ==
  UNCHANGED <<token, msgs, read, sent, delivered, link, response, host,
              closed, cancelled, slotVars, reader, pump>>

OtherThanRunner ==
  UNCHANGED <<streamVars, mu, closed, cancelled, reader, pump>>

-----------------------------------------------------------------------------
(* The runner. *)

EmitStarted ==
  /\ runner = "started" /\ EmitThen(Signal("started"), "loop")
  /\ OtherThanEmit /\ UNCHANGED agentVars

(* BuildAgent or CreateSession fails, before the first run. Only the latter   *)
(* looks at ctx, and its silence then is that of TurnLoop.                   *)
AgentInitFails ==
  /\ runner = "loop" /\ round = 0 /\ runner' = "fail"
  /\ OtherThanRunner /\ UNCHANGED <<agentVars, slotVars>>

(* The top of turnLoop, and the start of the run. *)
TurnLoop ==
  /\ runner = "loop"
  /\ IF cancelled THEN Return ELSE runner' = "run"
  /\ OtherThanRunner /\ UNCHANGED <<agentVars, slotVars>>

(* The write of the tool call that the request at place i has led to. *)
LensWrite(i, whole) == Write(requests[i], decisions[requests[i]], i, whole)

\* Mutant of RunTool: the listener is called although the write failed.
RunToolHopefully ==
  /\ runner = "run" /\ grants # <<>>
  /\ \E whole \in BOOLEAN : writes' = writes \cup {LensWrite(Head(grants), whole)}
  /\ runner' = "announce" /\ UNCHANGED grants
  /\ OtherThanRunner /\ UNCHANGED <<loopVars, round, processed, slotVars>>

(* An approved tool call: validation or the write fails and the model is     *)
(* told, or both files are written and the listener is called.               *)
RunTool ==
  /\ runner = "run" /\ grants # <<>>
  /\ \/ /\ writes' \in {writes, writes \cup {LensWrite(Head(grants), FALSE)}}
        /\ grants' = Tail(grants) /\ UNCHANGED runner
     \/ /\ writes' = writes \cup {LensWrite(Head(grants), TRUE)}
        /\ runner' = "announce" /\ UNCHANGED grants
  /\ OtherThanRunner /\ UNCHANGED <<loopVars, round, processed, slotVars>>

(* onLensChanged. *)
EmitLens ==
  /\ runner = "announce"
  /\ LET w == LensWrite(Head(grants), TRUE) IN EmitAnyway(Lens(w.id, w.by, w.at), "run")
  /\ grants' = Tail(grants)
  /\ OtherThanEmit /\ UNCHANGED <<loopVars, round, processed, writes>>

EmitText ==
  /\ runner = "run" /\ grants = <<>> /\ (mu = "free" => Len(events) < MaxEvents)
  /\ EmitThen(Signal("text"), "run")
  /\ OtherThanEmit /\ UNCHANGED agentVars

(* rest is what the batch holds besides processed calls, in its order (a     *)
(* SelectSeq, spelled out: the provers know nothing of that operator).       *)
Unprocessed(batch, rest) ==
  LET kept == {i \in DOMAIN batch : batch[i] \notin processed}
  IN \E from \in [1..Cardinality(kept) -> kept] :
       /\ \A j, k \in DOMAIN from : j < k => from[j] < from[k]
       /\ rest = [k \in DOMAIN from |-> batch[from[k]]]

(* The run ends. Requests for calls already asked about are passed over, and *)
(* when no other is left the turn is complete; else the loop over them       *)
(* begins, with no decision yet.                                             *)
RunEnds ==
  /\ runner = "run" /\ grants = <<>> /\ mu = "free"
  /\ \/ /\ round < MaxRounds /\ round' = round + 1
        /\ \E batch \in Batches : Unprocessed(batch, requests')
        /\ runner' = IF requests' = <<>> THEN "complete" ELSE "ask"
     \/ runner' = "complete" /\ requests' = <<>> /\ UNCHANGED round
  /\ place' = 1 /\ decisions' = Undecided
  /\ OtherThanRunner /\ UNCHANGED <<processed, grants, writes, slotVars>>

\* Mutant of RunFails: an error of the run is never reported.
RunFailsSilently ==
  /\ runner = "run" /\ mu = "free" /\ Return
  /\ OtherThanRunner /\ UNCHANGED <<agentVars, slotVars>>

(* The run fails: nothing is said of it once ctx is done. *)
RunFails ==
  /\ runner = "run" /\ mu = "free"
  /\ IF cancelled THEN Return ELSE runner' = "fail"
  /\ OtherThanRunner /\ UNCHANGED <<agentVars, slotVars>>

(* The next request, or the next run. *)
NextRequest ==
  /\ place' = place + 1
  /\ runner' = IF place = Len(requests) THEN "loop" ELSE "ask"

\* Mutant of AnswerAgain: a request that repeats a call id is taken as approved.
AnswerAgainApproved ==
  /\ runner = "ask" /\ decisions[Call] # 0
  /\ grants' = Append(grants, place)
  /\ NextRequest
  /\ OtherThanRunner /\ UNCHANGED <<requests, decisions, round, processed, writes, slotVars>>

(* A request for a call id that this loop has a decision for: nobody is      *)
(* asked, the response is made from that decision.                           *)
AnswerAgain ==
  /\ runner = "ask" /\ decisions[Call] # 0
  /\ grants' = IF msgs[decisions[Call]].kind = "approved"
                 THEN Append(grants, place) ELSE grants
  /\ NextRequest
  /\ OtherThanRunner /\ UNCHANGED <<requests, decisions, round, processed, writes, slotVars>>

EmitRequest ==
  /\ runner = "ask" /\ decisions[Call] = 0
  /\ EmitThen(Request(Call), "register")
  /\ processed' = processed \cup {Call}
  /\ OtherThanEmit /\ UNCHANGED <<loopVars, round, grants, writes>>

(* WaitForDecision: the id goes into the map, after the request went out. *)
Register ==
  /\ runner = "register" /\ mu = "free"
  /\ IF closed # "no" \/ Call \in pending
       THEN Return /\ UNCHANGED slotVars
       ELSE /\ pending' = pending \cup {Call} /\ slot' = 0 /\ slotOpen' = TRUE
            /\ runner' = "wait"
  /\ OtherThanRunner /\ UNCHANGED agentVars

(* The select of WaitForDecision: ctx is done, or the channel has a decision, *)
(* or it is closed and empty. Any ready case may be taken. The decision is    *)
(* kept for the call id, and the response made from it.                       *)
TakeDecision ==
  /\ runner = "wait"
  /\ \/ /\ cancelled \/ (slot = 0 /\ ~slotOpen)
        /\ runner' = "giveup" /\ UNCHANGED <<decisions, grants, slot>>
     \/ /\ slot # 0
        /\ runner' = "leave" /\ slot' = 0
        /\ decisions' = [decisions EXCEPT ![Call] = slot]
        /\ grants' = IF msgs[slot].kind = "approved" THEN Append(grants, place) ELSE grants
  /\ OtherThanRunner
  /\ UNCHANGED <<requests, place, round, processed, writes, pending, slotOpen>>

(* Its deferred delete. *)
Leave ==
  /\ runner \in {"leave", "giveup"} /\ mu = "free"
  /\ pending' = pending \ {Call} /\ slot' = 0 /\ UNCHANGED slotOpen
  /\ IF runner = "giveup" THEN Return /\ UNCHANGED place ELSE NextRequest
  /\ OtherThanRunner /\ UNCHANGED <<requests, decisions, round, processed, grants, writes>>

EmitError ==
  /\ runner = "fail" /\ EmitAnyway(Signal("error"), "closing")
  /\ OtherThanEmit /\ UNCHANGED agentVars

EmitCompleted ==
  /\ runner = "complete" /\ EmitAnyway(Signal("completed"), "closing")
  /\ OtherThanEmit /\ UNCHANGED agentVars

RunnerCloses ==
  /\ runner = "closing" /\ Close("clean") /\ runner' = "done"
  /\ UNCHANGED <<streamVars, agentVars, mu, cancelled, reader, pump>>

RunnerNext ==
  \/ EmitStarted \/ AgentInitFails \/ TurnLoop \/ RunTool \/ EmitLens \/ EmitText \/ RunEnds
  \/ RunFails \/ AnswerAgain \/ EmitRequest \/ Register \/ TakeDecision \/ Leave
  \/ EmitError \/ EmitCompleted \/ EmitWaits \/ RunnerCloses

-----------------------------------------------------------------------------
(* The reader. *)

\* Mutant of ReadMessage: an answer to a call that is not pending is skipped.
ReadMessageSkipping ==
  /\ reader = "reading" /\ read < Len(msgs) /\ mu = "free"
  /\ read' = read + 1
  /\ LET m == msgs[read + 1]
         wellFormed == m.session = "own" /\ m.kind # "prompt"
     IN \/ /\ wellFormed /\ m.id \in pending /\ slot = 0
           /\ slot' = read + 1 /\ UNCHANGED reader
        \/ wellFormed /\ (m.id \notin pending \/ slot # 0) /\ UNCHANGED <<slot, reader>>
        \/ ~wellFormed /\ reader' = "closing" /\ UNCHANGED slot
  /\ UNCHANGED <<token, msgs, events, sent, delivered, link, response, host, runner,
                 agentVars, mu, closed, cancelled, pending, slotOpen, pump>>

(* ReceiveDecision: an answer to a pending request goes into its channel,    *)
(* unless the channel still holds one; anything else ends the call.          *)
ReadMessage ==
  /\ reader = "reading" /\ read < Len(msgs)
  /\ read' = read + 1
  /\ LET m == msgs[read + 1]
         wellFormed == m.session = "own" /\ m.kind # "prompt"
     IN \/ /\ wellFormed /\ mu = "free" /\ m.id \in pending /\ slot = 0
           /\ slot' = read + 1 /\ UNCHANGED reader
        \/ /\ \/ ~wellFormed
              \/ mu = "free" /\ (m.id \notin pending \/ slot # 0)
           /\ reader' = "closing" /\ UNCHANGED slot
  /\ UNCHANGED <<token, msgs, events, sent, delivered, link, response, host, runner,
                 agentVars, mu, closed, cancelled, pending, slotOpen, pump>>

(* Recv returns io.EOF or an error: the host is gone or Interact has returned. *)
ReadEnd ==
  /\ reader = "reading" /\ (link # "up" \/ pump = "returned")
  /\ reader' = "closing"
  /\ UNCHANGED <<streamVars, runner, agentVars, mu, closed, cancelled, slotVars, pump>>

ReaderCloses ==
  /\ reader = "closing" /\ Close("error") /\ reader' = "cancelling"
  /\ UNCHANGED <<streamVars, runner, agentVars, mu, cancelled, pump>>

ReaderCancels ==
  /\ reader = "cancelling"
  /\ reader' = "stopped" /\ cancelled' = TRUE
  /\ UNCHANGED <<streamVars, runner, agentVars, mu, closed, slotVars, pump>>

ReaderNext == ReadMessage \/ ReadEnd \/ ReaderCloses \/ ReaderCancels

PumpNext == PumpSends \/ PumpFails \/ PumpEnds

HostStep ==
  HostNext /\ UNCHANGED <<runner, agentVars, mu, closed, cancelled, slotVars, reader, pump>>

Next ==
  \/ InteractRejects \/ InteractAccepts \/ StreamCancelled
  \/ PumpNext \/ RunnerNext \/ ReaderNext \/ HostStep

Spec == Init /\ [][Next]_vars

(* Goroutines are scheduled, the framework's runs end, and a connected host  *)
(* keeps reading.                                                            *)
Fairness ==
  /\ WF_vars(InteractRejects \/ InteractAccepts) /\ WF_vars(StreamCancelled)
  /\ WF_vars(PumpNext) /\ WF_vars(RunnerNext) /\ WF_vars(ReaderNext)
  /\ WF_vars(HostProgress /\ UNCHANGED <<runner, agentVars, mu, closed, cancelled,
                                         slotVars, reader, pump>>)

FairSpec == Spec /\ Fairness

-----------------------------------------------------------------------------
(* Properties. *)

(* The approval gate. Every lens write was made under a decision of this     *)
(* call's request stream that approves this very tool call, although the     *)
(* decisions of a round are collected first and the framework runs the tools *)
(* later, in another run. No decision pays for two writes, unless they       *)
(* answer two requests under a call id that a run may repeat.                *)
GateHolds ==
  /\ \A w \in writes : w.by <= read /\ Approves(msgs, w.by, w.id)
  /\ \A v, w \in writes : v.by = w.by => v = w \/ (v.at # w.at /\ v.id \in Repeated)

(* Once Close has closed the channel of events nothing is sent on it: a send *)
(* on a closed channel would panic and take every call of the process down.  *)
NoSendAfterClose == [][closed # "no" => events' = events]_vars

(* A bridge the runner closes in good order has carried a terminal event, as *)
(* long as the host was there: the runner gives up in silence only after the *)
(* reader has refused the host's messages.                                   *)
CleanEndIsTerminal ==
  closed = "clean" /\ link = "up" /\ response # "rejected" =>
    events # <<>> /\ events[Len(events)].kind \in Terminal

(* The turn as the host and the disk see it. *)
Turn == INSTANCE AgentTurn
TurnHolds == Turn!Spec

(* A host that has opened a call is released from it. *)
HostIsReleased == host = "receiving" ~> host = "finished"

(* Once the client is gone the goroutines of the call finish, except those   *)
(* that meet an Emit waiting for room with the mutex in its hands.           *)
DropUnblocksUnlessFull ==
  link # "up" /\ runner # "idle" ~>
    \/ runner = "done" /\ reader = "stopped" /\ pump = "returned"
    \/ mu = "runner"

(* The same without the exception, as the design notes promise it. The code  *)
(* does not keep this promise.                                               *)
DropUnblocks == link # "up" /\ runner # "idle" ~> runner = "done"

(* A call that is not cut off ends with status OK only after a Completed or  *)
(* an Error. The code breaks this when the host answers a request before the *)
(* runner has registered it.                                                 *)
EndsWithTerminal ==
  response = "ended" /\ link = "up" =>
    events # <<>> /\ events[Len(events)].kind \in Terminal
=============================================================================
