----------------------------- MODULE PySidecar -----------------------------
(***************************************************************************)
(* The Python sidecar's end of one Interact call: AgentRuntime.Interact,   *)
(* _run_interactive_agent and ApprovalBridge (sidecar/src/server.py), and  *)
(* the lens_upsert tool and the approval handler of sidecar/src/agent.py.  *)
(*                                                                         *)
(* Everything but the lens writes runs on one event loop, so an action is  *)
(* what a task does between two awaits that can suspend it. The queue of   *)
(* events is unbounded: a put never suspends. asyncio.to_thread moves the  *)
(* write to a worker thread, which nothing can stop once it runs.          *)
(*                                                                         *)
(* The agent framework is external: it asks the handler about the calls of *)
(* a round in order, then runs those with an approved id concurrently, and *)
(* cancels them with the run. It may take some more steps before it        *)
(* notices that the runner was cancelled.                                  *)
(***************************************************************************)
EXTENDS InteractStream

CONSTANTS
  Batches,   \* the tool calls the model may make in one round
  MaxCalls,  \* bound on the tool calls of the turn
  MaxEvents  \* bound on the event count below which the model still streams text

ASSUME PyAssumption ==
  /\ Batches \subseteq Seq(CallIds) \ {<<>>}
  /\ MaxCalls \in Nat /\ MaxEvents \in Nat

(* Where a call may stand in its round, and the ids a round may repeat. *)
Places == UNION {DOMAIN b : b \in Batches}
Repeated == {id \in CallIds :
               \E b \in Batches : \E i, j \in DOMAIN b : i # j /\ b[i] = id /\ b[j] = id}

VARIABLES
  runner,  \* where _run_interactive_agent stands; "idle" before its task exists
  calls,   \* the tool calls of the round: requests.approvals
  place,   \* which of them handle_deferred is asking about
  decisions, \* of the round: the position of the last one each id got, or 0
  made,    \* tool calls so far
  pending, \* ids with a future in bridge.pending
  slot,    \* the future of the call asked about: Empty, Failed or the position
           \* of the decision it was resolved with
  closed,  \* whether bridge.closed is set
  tools,   \* approved calls still to start, as places
  writing, \* calls whose write_lens is with a worker thread
  written, \* calls whose write_lens has returned to the event loop
  reader,  \* the receive_decisions task
  pump,    \* the Interact generator
  writes   \* the lens writes so far

toolVars == <<tools, writing, written, writes>>
bridgeVars == <<pending, slot, closed>>
roundVars == <<calls, place, decisions, made>>
vars == <<streamVars, runner, roundVars, bridgeVars, toolVars, reader, pump>>

Empty == 0
Failed == -1
Undecided == [id \in CallIds |-> 0]

TypeOK ==
  /\ StreamTypeOK
  /\ runner \in {"idle", "starting", "model", "ask", "wait", "tools", "done"}
  /\ calls \in Seq(CallIds) /\ place \in Nat
  /\ decisions \in [CallIds -> Nat]
  /\ made \in 0..MaxCalls
  /\ pending \subseteq CallIds
  /\ slot \in Nat \cup {Failed}
  /\ closed \in BOOLEAN
  /\ tools \subseteq Nat /\ writing \subseteq Nat /\ written \subseteq Nat
  /\ reader \in {"idle", "reading", "stopped"}
  /\ pump \in {"idle", "running", "closing", "returned"}
  /\ writes \subseteq Writes

Init ==
  /\ StreamInit
  /\ runner = "idle" /\ calls = <<>> /\ place = 0 /\ decisions = Undecided
  /\ made = 0
  /\ pending = {} /\ slot = Empty /\ closed = FALSE
  /\ tools = {} /\ writing = {} /\ written = {}
  /\ reader = "idle" /\ pump = "idle" /\ writes = {}

-----------------------------------------------------------------------------
(* Interact: the generator that answers the call. *)

(* Wrong token, no first message, or a first message that is no prompt. *)
InteractRejects ==
  /\ runner = "idle" /\ response = "open"
  /\ \/ ~token
     \/ read < Len(msgs) /\ msgs[read + 1].kind # "prompt"
     \/ read = Len(msgs) /\ link # "up"
  /\ response' = "rejected"
  /\ UNCHANGED <<token, msgs, read, events, sent, delivered, link, host,
                 runner, roundVars, bridgeVars, toolVars, reader, pump>>

InteractAccepts ==
  /\ runner = "idle" /\ response = "open" /\ token
  /\ read < Len(msgs) /\ msgs[read + 1].kind = "prompt"
  /\ read' = read + 1
  /\ runner' = "starting" /\ reader' = "reading" /\ pump' = "running"
  /\ UNCHANGED <<token, msgs, events, sent, delivered, link, response, host,
                 roundVars, bridgeVars, toolVars>>

\* Mutant of PumpYields: the None that ends the queue is sent as an event.
PumpYieldsNone ==
  /\ pump = "running" /\ runner = "done" /\ sent' = sent + 1
  /\ UNCHANGED <<token, msgs, read, events, delivered, link, response, host,
                 runner, roundVars, bridgeVars, toolVars, reader, pump>>

PumpYields ==
  /\ pump = "running" /\ Transmit
  /\ UNCHANGED <<runner, roundVars, bridgeVars, toolVars, reader, pump>>

(* The queue is down to the None that the runner puts last, or grpc cancels  *)
(* the call: the finally block cancels both tasks ...                        *)
PumpCloses ==
  /\ pump = "running"
  /\ (runner = "done" /\ sent = Len(events)) \/ link # "up"
  /\ pump' = "closing"
  /\ UNCHANGED <<streamVars, runner, roundVars, bridgeVars, toolVars, reader>>

(* ... and gathers them. Only a call that is not cut off has a status to send. *)
PumpReturns ==
  /\ pump = "closing" /\ runner = "done" /\ reader = "stopped"
  /\ pump' = "returned"
  /\ response' = IF link = "up" THEN "ended" ELSE response
  /\ UNCHANGED <<token, msgs, read, events, sent, delivered, link, host,
                 runner, roundVars, bridgeVars, toolVars, reader>>

-----------------------------------------------------------------------------
(* The runner. *)

(* It ends: the tools that have not gone to a thread go no further. *)
Finish ==
  /\ runner' = "done"
  /\ tools' = {} /\ written' = {}
  /\ UNCHANGED <<writing, writes>>

(* The except and finally blocks: a RuntimeError event, then None. *)
Raise == events' = Append(events, Signal("error")) /\ Finish

OtherThanEvents ==
  UNCHANGED <<token, msgs, read, sent, delivered, link, response, host, reader, pump>>

EmitStarted ==
  /\ runner = "starting"
  /\ events' = Append(events, Signal("started"))
  /\ runner' = "model"
  /\ OtherThanEvents /\ UNCHANGED <<roundVars, bridgeVars, toolVars>>

EmitText ==
  /\ runner = "model" /\ Len(events) < MaxEvents
  /\ events' = Append(events, Signal("text"))
  /\ OtherThanEvents /\ UNCHANGED <<runner, roundVars, bridgeVars, toolVars>>

(* The model's response asks for tools: handle_deferred begins. *)
ModelCalls ==
  /\ runner = "model"
  /\ calls' \in Batches /\ made' = made + Len(calls') /\ made' <= MaxCalls
  /\ place' = 1 /\ decisions' = Undecided
  /\ runner' = "ask"
  /\ UNCHANGED <<streamVars, bridgeVars, toolVars, reader, pump>>

EmitCompleted ==
  /\ runner = "model"
  /\ events' = Append(events, Signal("completed"))
  /\ Finish
  /\ OtherThanEvents /\ UNCHANGED <<roundVars, bridgeVars>>

\* Mutant of RunFails: the exception ends the task without an event.
RunFailsSilently ==
  /\ runner \in {"model", "tools"}
  /\ Finish /\ UNCHANGED events
  /\ OtherThanEvents /\ UNCHANGED <<roundVars, bridgeVars>>

(* The provider fails, the framework gives up, a tool is out of retries. *)
RunFails ==
  /\ runner \in {"model", "tools"}
  /\ Raise
  /\ OtherThanEvents /\ UNCHANGED <<roundVars, bridgeVars>>

(* The call at hand. *)
Call == calls[place]

\* Mutant of RequestApproval: no look at closed.
RequestUnchecked ==
  /\ runner = "ask"
  /\ IF Call \in pending
       THEN Raise /\ UNCHANGED <<pending, slot>>
       ELSE /\ pending' = pending \cup {Call} /\ slot' = Empty
            /\ events' = Append(events, Request(Call))
            /\ runner' = "wait" /\ UNCHANGED toolVars
  /\ OtherThanEvents /\ UNCHANGED <<roundVars, closed>>

(* request_approval up to its await. *)
RequestApproval ==
  /\ runner = "ask"
  /\ IF closed \/ Call \in pending
       THEN Raise /\ UNCHANGED <<pending, slot>>
       ELSE /\ pending' = pending \cup {Call} /\ slot' = Empty
            /\ events' = Append(events, Request(Call))
            /\ runner' = "wait" /\ UNCHANGED toolVars
  /\ OtherThanEvents /\ UNCHANGED <<roundVars, closed>>

(* The calls of the round that run: those whose id has an approval in the    *)
(* end, as the results that are built look them up.                          *)
Approved(decided) ==
  {i \in DOMAIN calls : decided[calls[i]] # 0 /\ msgs[decided[calls[i]]].kind = "approved"}

(* The await returns, or raises what close put into the future. A decision   *)
(* replaces an earlier one for the same id. After the last of the round the  *)
(* framework runs the approved tools.                                        *)
TakeDecision ==
  /\ runner = "wait" /\ slot # Empty
  /\ pending' = pending \ {Call} /\ slot' = Empty
  /\ IF slot = Failed
       THEN Raise /\ UNCHANGED <<place, decisions>>
       ELSE /\ decisions' = [decisions EXCEPT ![Call] = slot]
            /\ place' = place + 1
            /\ IF place < Len(calls)
                 THEN runner' = "ask" /\ UNCHANGED tools
                 ELSE runner' = "tools" /\ tools' = Approved(decisions')
            /\ UNCHANGED <<events, writing, written, writes>>
  /\ OtherThanEvents /\ UNCHANGED <<calls, made, closed>>

(* The write of the call at place i. *)
LensWrite(i, whole) == Write(calls[i], decisions[calls[i]], i, whole)

\* Mutant of StartTool: the write is not awaited before the announcement.
StartToolUnawaited(i) ==
  /\ runner = "tools" /\ i \in tools
  /\ tools' = tools \ {i}
  /\ writing' = writing \cup {i} /\ written' = written \cup {i}
  /\ UNCHANGED <<streamVars, runner, roundVars, bridgeVars, writes, reader, pump>>

(* lens_upsert begins: the arguments are invalid and the model is asked to   *)
(* retry, or the write goes to a thread.                                     *)
StartTool(i) ==
  /\ runner = "tools" /\ i \in tools
  /\ tools' = tools \ {i}
  /\ writing' \in {writing, writing \cup {i}}
  /\ UNCHANGED <<streamVars, runner, roundVars, bridgeVars, written, writes,
                 reader, pump>>

(* announce_lens. *)
EmitLens(i) ==
  /\ runner = "tools" /\ i \in written
  /\ written' = written \ {i}
  /\ LET w == LensWrite(i, TRUE) IN events' = Append(events, Lens(w.id, w.by, w.at))
  /\ OtherThanEvents
  /\ UNCHANGED <<runner, roundVars, bridgeVars, tools, writing, writes>>

(* Every tool has returned: their results go to the model, and the round is  *)
(* over.                                                                     *)
ToolsReturn ==
  /\ runner = "tools" /\ tools \cup writing \cup written = {}
  /\ runner' = "model"
  /\ calls' = <<>> /\ place' = 0 /\ decisions' = Undecided
  /\ UNCHANGED <<streamVars, made, bridgeVars, toolVars, reader, pump>>

\* Mutant of RunnerCancelled: the await of a decision is shielded.
RunnerCancelledUnlessWaiting ==
  /\ pump = "closing" /\ runner \notin {"idle", "wait", "done"}
  /\ Finish
  /\ slot' = Empty
  /\ UNCHANGED <<streamVars, roundVars, pending, closed, reader, pump>>

(* CancelledError arrives: None is queued, and nothing before it. A future   *)
(* that was waited for leaves the map.                                       *)
RunnerCancelled ==
  /\ pump = "closing" /\ runner \notin {"idle", "done"}
  /\ Finish
  /\ pending' = IF runner = "wait" THEN pending \ {Call} ELSE pending
  /\ slot' = Empty
  /\ UNCHANGED <<streamVars, roundVars, closed, reader, pump>>

RunnerNext ==
  \/ EmitStarted \/ EmitText \/ ModelCalls \/ EmitCompleted \/ RunFails
  \/ RequestApproval \/ TakeDecision \/ ToolsReturn \/ RunnerCancelled
  \/ \E i \in tools : StartTool(i)
  \/ \E i \in written : EmitLens(i)

(* write_lens in its thread: both files are written, or it fails on the way  *)
(* (the model is told), or the run ended before the thread took it up.       *)
ThreadWrites(i) ==
  /\ i \in writing
  /\ writing' = writing \ {i}
  /\ \/ /\ writes' = writes \cup {LensWrite(i, TRUE)}
        /\ written' = IF runner = "tools" THEN written \cup {i} ELSE written
     \/ /\ writes' \in {writes, writes \cup {LensWrite(i, FALSE)}}
        /\ UNCHANGED written
  /\ UNCHANGED <<streamVars, runner, roundVars, bridgeVars, tools, reader, pump>>

-----------------------------------------------------------------------------
(* The reader. *)

\* Mutant of Close: the futures are left alone.
CloseQuietly == closed' = TRUE /\ UNCHANGED slot

(* close: every future that is not done fails, and later requests are refused. *)
Close ==
  /\ closed' = TRUE
  /\ slot' = IF pending # {} /\ slot = Empty THEN Failed ELSE slot

\* Mutant of ReadMessage: a decision resolves whichever call is waiting.
ReadMessageAnyId ==
  /\ reader = "reading" /\ read < Len(msgs)
  /\ read' = read + 1
  /\ LET m == msgs[read + 1] IN
       IF /\ m.session = "own" /\ m.kind \in {"approved", "denied"}
          /\ pending # {} /\ slot = Empty
         THEN slot' = read + 1 /\ UNCHANGED <<closed, reader>>
         ELSE Close /\ reader' = "stopped"
  /\ UNCHANGED <<token, msgs, events, sent, delivered, link, response, host,
                 runner, roundVars, pending, toolVars, pump>>

(* receive_decisions resolves the future a well-formed decision names; any   *)
(* other message closes the bridge and ends the task.                        *)
ReadMessage ==
  /\ reader = "reading" /\ read < Len(msgs)
  /\ read' = read + 1
  /\ LET m == msgs[read + 1] IN
       IF /\ m.session = "own" /\ m.kind \in {"approved", "denied"}
          /\ m.id \in pending /\ slot = Empty
         THEN slot' = read + 1 /\ UNCHANGED <<closed, reader>>
         ELSE Close /\ reader' = "stopped"
  /\ UNCHANGED <<token, msgs, events, sent, delivered, link, response, host,
                 runner, roundVars, pending, toolVars, pump>>

(* The iterator ends or raises; the loop's end or reader_finished closes. *)
ReadEnd ==
  /\ reader = "reading" /\ link # "up"
  /\ Close /\ reader' = "stopped"
  /\ UNCHANGED <<streamVars, runner, roundVars, pending, toolVars, pump>>

ReaderCancelled ==
  /\ pump = "closing" /\ reader = "reading"
  /\ reader' = "stopped"
  /\ UNCHANGED <<streamVars, runner, roundVars, bridgeVars, toolVars, pump>>

ReaderNext == ReadMessage \/ ReadEnd \/ ReaderCancelled

HostStep ==
  HostNext /\ UNCHANGED <<runner, roundVars, bridgeVars, toolVars, reader, pump>>

Next ==
  \/ InteractRejects \/ InteractAccepts
  \/ PumpYields \/ PumpCloses \/ PumpReturns
  \/ RunnerNext \/ ReaderNext \/ HostStep
  \/ \E i \in writing : ThreadWrites(i)

Spec == Init /\ [][Next]_vars

(* The loop runs every ready task, the provider answers, the threads return, *)
(* and a connected host keeps reading.                                       *)
Fairness ==
  /\ WF_vars(InteractRejects \/ InteractAccepts)
  /\ WF_vars(PumpYields) /\ WF_vars(PumpCloses) /\ WF_vars(PumpReturns)
  /\ WF_vars(RunnerNext) /\ WF_vars(RunnerCancelled) /\ WF_vars(ReaderNext)
  /\ WF_vars(\E i \in writing : ThreadWrites(i))
  /\ WF_vars(HostProgress /\ UNCHANGED <<runner, roundVars, bridgeVars, toolVars,
                                         reader, pump>>)

FairSpec == Spec /\ Fairness

-----------------------------------------------------------------------------
(* Properties. *)

(* The approval gate. Every lens write was made under a decision of this     *)
(* call's request stream that approves this very tool call, although tools   *)
(* run concurrently, after all decisions of the round are in, and their      *)
(* threads may outlive the call. No decision pays for two writes, unless     *)
(* they answer two calls under an id that a round may repeat.                *)
GateHolds ==
  /\ \A w \in writes : w.by <= read /\ Approves(msgs, w.by, w.id)
  /\ \A v, w \in writes : v.by = w.by => v = w \/ (v.at # w.at /\ v.id \in Repeated)

(* A call that is not cut off ends with status OK only after a Completed or  *)
(* an Error: "the stream must always terminate" (server.py, line 91).        *)
EndsWithTerminal ==
  response = "ended" /\ link = "up" =>
    events # <<>> /\ events[Len(events)].kind \in Terminal

(* The bridge stays closed: an approval requested after a close fails        *)
(* immediately rather than waiting on nobody, and none is left waiting.      *)
ClosedIsFinal ==
  [][closed => /\ closed'
               /\ runner # "wait" => runner' # "wait"
               /\ runner = "wait" => slot # Empty]_vars

(* The turn as the host and the disk see it. *)
Turn == INSTANCE AgentTurn
TurnHolds == Turn!Spec

(* A host that has opened a call is released from it. *)
HostIsReleased == host = "receiving" ~> host = "finished"

(* Dropping the stream unblocks everything: both tasks and the generator     *)
(* finish once the client is gone, wherever they were.                       *)
DropUnblocks == link # "up" /\ runner # "idle" ~> pump = "returned"
=============================================================================
